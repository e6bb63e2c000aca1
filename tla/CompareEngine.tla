----------------------------- MODULE CompareEngine -----------------------------
(***************************************************************************)
(* compare/engine.cpp: two fingerprints and a policy come to a list of     *)
(* findings, one pairing key after the other.                              *)
(*                                                                         *)
(* A world is what one comparison is given:                                *)
(*   [command, profile, config, cli, path, expectation,                    *)
(*    baseline, candidate]                                                 *)
(* with command "compare" or "dir", path the file's in the tree, the       *)
(* expectation empty or of one element, and the last two sequences of      *)
(* measurements in the order in which they were read.                      *)
(***************************************************************************)
EXTENDS Comparators

CONSTANT Worlds

VARIABLES world,       \* fixed from the start
          stage,       \* "resolve", "pair" or "done"
          policy,      \* Policy::per_check, empty until it is resolved
          remaining,   \* the keys the loop has still to visit
          findings,
          error        \* what the call returns instead of findings

vars == <<world, stage, policy, remaining, findings, error>>

-------------------------------------------------------------------------------
(* Pairing keys: check, kind and index of the scope, in this order.        *)
ScopeKinds == 0..5
Global == 0
Program == 5

KeyOf(m) == <<m.check, m.scope.kind, m.scope.index>>
KeysOf(fingerprint) == {KeyOf(fingerprint[i]) : i \in DOMAIN fingerprint}
Keys(w) == KeysOf(w.baseline) \cup KeysOf(w.candidate)

Semantics == {"exact", "tol", "set", "presence", "hash", "dist", "span", "state"}

\* The registry is an array, and every check has a semantic.
ASSUME RegistryAssumption ==
  /\ Checks \subseteq Nat
  /\ \A c \in Checks : Registry[c].semantic \in Semantics

\* Every measurement is of a registered check, as analyzers and read_snapshot see
\* to, and scopes count from zero.
ASSUME WorldsAssumption ==
  \A w \in Worlds : Keys(w) \subseteq Checks \X ScopeKinds \X Nat

Before(k, l) ==
  \/ k[1] < l[1]
  \/ k[1] = l[1] /\ k[2] < l[2]
  \/ k[1] = l[1] /\ k[2] = l[2] /\ k[3] < l[3]

\* Of two measurements with one key the later one is paired.
Measured(fingerprint, key) ==
  fingerprint[Max({i \in DOMAIN fingerprint : KeyOf(fingerprint[i]) = key})]

Paired(w, key) == key \in KeysOf(w.baseline) \cap KeysOf(w.candidate)

-------------------------------------------------------------------------------
(* The migration from one container family to another.                     *)
FamilyToken(text) ==
  CASE text = "mov" -> "mp4" [] text = "matroska" -> "mkv" [] text = "mpegts" -> "ts"
    [] OTHER -> ""

\* The first global container.format measurement decides.
Family(fingerprint) ==
  LET formats == {i \in DOMAIN fingerprint :
                    /\ Registry[fingerprint[i].check].id = <<"container", "format">>
                    /\ fingerprint[i].scope = [kind |-> Global, index |-> 0]}
      value == fingerprint[Min(formats)].value
  IN  IF formats # {} /\ Is(value, "string") THEN FamilyToken(value.text) ELSE ""

IdOfFamily(id, family) ==
  family # "" /\ Len(id) >= 3 /\ id[1] = "container" /\ id[2] = family

CrossContainer(w) ==
  /\ Family(w.baseline) # "" /\ Family(w.candidate) # ""
  /\ Family(w.baseline) # Family(w.candidate)

Demoted(w, key) ==
  /\ CrossContainer(w)
  /\ \E side \in {w.baseline, w.candidate} : IdOfFamily(Registry[key[1]].id, Family(side))

-------------------------------------------------------------------------------
EngineInit ==
  /\ world \in Worlds
  /\ stage = "resolve"
  /\ policy = <<>>
  /\ remaining = Keys(world)
  /\ findings = <<>>
  /\ error = "none"

\* The policy of the command, which may be refused.
PolicyOf(w) ==
  IF w.command = "compare" THEN ResolvePolicy(w.profile, w.config, w.cli)
  ELSE ResolvePolicyForFile(BasePolicy(w.profile, w.config), w.config, w.path, w.cli)

Resolve ==
  /\ stage = "resolve"
  /\ LET resolved == PolicyOf(world)
     IN  /\ error' = resolved.error
         /\ policy' = IF resolved.error = "none" THEN resolved.per_check ELSE <<>>
         /\ stage' = IF resolved.error = "none" THEN "pair" ELSE "done"
  /\ UNCHANGED <<world, remaining, findings>>

\* Fault: the keys are ordered by their check only.
VisitsByCheck(key) ==
  /\ stage = "pair"
  /\ key \in remaining
  /\ \A other \in remaining : key[1] <= other[1]

\* The loop is at this key.
Visits(key) ==
  /\ stage = "pair"
  /\ key \in remaining
  /\ \A other \in remaining : other = key \/ Before(key, other)

Severity(key) == policy[key[1]].severity

Emit(key, severity, outcome) ==
  /\ findings' = Append(findings, [key |-> key, severity |-> severity, status |-> outcome.status,
                                   skip |-> outcome.skip, divergence |-> outcome.divergence])
  /\ remaining' = remaining \ {key}
  /\ UNCHANGED <<world, stage, policy, error>>

\* Ahead of everything else, on either side.
Demote(key) ==
  /\ Visits(key)
  /\ Demoted(world, key)
  /\ Emit(key, Severity(key), Skips("cross_container"))

\* A program of one file only is a mismatch whatever the policy says ...
ProgramOfOneSide(key) ==
  /\ Visits(key)
  /\ ~Demoted(world, key) /\ ~Paired(world, key)
  /\ key[2] = Program
  /\ Emit(key, Fail, Judged("fail"))

\* ... and any other measurement of one file only leaves no trace.
PassOver(key) ==
  /\ Visits(key)
  /\ ~Demoted(world, key) /\ ~Paired(world, key)
  /\ key[2] # Program
  /\ remaining' = remaining \ {key}
  /\ UNCHANGED <<world, stage, policy, findings, error>>

\* Fault: the key of a skipped measurement is passed over.
SkipPassOver(key) ==
  LET b == Measured(world.baseline, key)
      c == Measured(world.candidate, key)
  IN  /\ Visits(key)
      /\ ~Demoted(world, key) /\ Paired(world, key)
      /\ b.skip # "none" \/ c.skip # "none"
      /\ remaining' = remaining \ {key}
      /\ UNCHANGED <<world, stage, policy, findings, error>>

Skip(key) ==
  LET b == Measured(world.baseline, key)
      c == Measured(world.candidate, key)
  IN  /\ Visits(key)
      /\ ~Demoted(world, key) /\ Paired(world, key)
      /\ b.skip # "none" \/ c.skip # "none"
      /\ Emit(key, Severity(key), Skips(IF b.skip # "none" THEN b.skip ELSE c.skip))

OfKind(m, key) == Is(m.value, "absent") \/ Is(m.value, Registry[key[1]].kind)

Comparable(key) ==
  LET b == Measured(world.baseline, key)
      c == Measured(world.candidate, key)
  IN  /\ ~Demoted(world, key) /\ Paired(world, key)
      /\ b.skip = "none" /\ c.skip = "none"

KindMismatch(key) ==
  /\ Visits(key)
  /\ Comparable(key)
  /\ ~OfKind(Measured(world.baseline, key), key) \/ ~OfKind(Measured(world.candidate, key), key)
  /\ Emit(key, Severity(key), Judged("error"))

Verdict(key) ==
  Compare(key[1], Measured(world.baseline, key), Measured(world.candidate, key),
          Severity(key), world.profile, world.expectation)

Judge(key) ==
  /\ Visits(key)
  /\ Comparable(key)
  /\ OfKind(Measured(world.baseline, key), key) /\ OfKind(Measured(world.candidate, key), key)
  /\ Verdict(key).error = "none"
  /\ Emit(key, Severity(key), Verdict(key))

\* What was found so far is dropped with the error.
Abort(key) ==
  /\ Visits(key)
  /\ Comparable(key)
  /\ OfKind(Measured(world.baseline, key), key) /\ OfKind(Measured(world.candidate, key), key)
  /\ Verdict(key).error # "none"
  /\ error' = Verdict(key).error
  /\ findings' = <<>>
  /\ stage' = "done"
  /\ UNCHANGED <<world, policy, remaining>>

Return ==
  /\ stage = "pair"
  /\ remaining = {}
  /\ stage' = "done"
  /\ UNCHANGED <<world, policy, remaining, findings, error>>

Pair(key) ==
  \/ Demote(key) \/ ProgramOfOneSide(key) \/ PassOver(key) \/ Skip(key)
  \/ KindMismatch(key) \/ Judge(key) \/ Abort(key)

EngineNext == Resolve \/ (\E key \in Keys(world) : Pair(key)) \/ Return

EngineSpec == EngineInit /\ [][EngineNext]_vars

-------------------------------------------------------------------------------
(* What the engine promises.                                               *)
EngineTypeOK ==
  /\ Keys(world) \subseteq Checks \X ScopeKinds \X Nat
  /\ stage \in {"resolve", "pair", "done"}
  /\ remaining \subseteq Keys(world)
  /\ findings \in Seq(Range(findings))
  /\ \A i \in DOMAIN findings : findings[i].key \in Keys(world) /\ findings[i].status \in Statuses

FindingsInOrder ==
  \A i, j \in DOMAIN findings : i < j => Before(findings[i].key, findings[j].key)

LoopIsPastFindings ==
  \A i \in DOMAIN findings, key \in remaining : Before(findings[i].key, key)

\* However the two fingerprints were ordered, the findings come in the order of
\* the registry and then of the scopes, none twice (engine.cpp:223).
EngineInv ==
  /\ EngineTypeOK
  /\ FindingsInOrder
  /\ LoopIsPastFindings

\* Only what one file alone measured, and no program, may be missing.
MustBeFound(key) == Paired(world, key) \/ Demoted(world, key) \/ key[2] = Program

Found(key) == \E i \in DOMAIN findings : findings[i].key = key

\* Every key behind the loop that both files have, that a migration demotes or
\* that names a program has its finding, and a list without an error is one of all
\* the keys: a skip is never silence (engine.cpp:248, 274, 318).
NothingUnaccounted ==
  error = "none" =>
    /\ \A key \in Keys(world) \ remaining : MustBeFound(key) => Found(key)
    /\ stage = "done" => remaining = {}
===============================================================================
