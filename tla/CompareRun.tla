------------------------------ MODULE CompareRun ------------------------------
(***************************************************************************)
(* cli/commands/compare.cpp: one comparison of two artifacts, reached from *)
(* the `compare` subcommand (whose callback runs inside main's try block)  *)
(* or from two bare operands (run_compare called after that block, with    *)
(* every option at its default).  The steps run in the order of the code;  *)
(* each can end the process with the exit code of its error.  A definition *)
(* introduced by "Fault:" is a seeded bug of the one after it.             *)
(***************************************************************************)
EXTENDS RunOutput

CONSTANTS PairWorlds,       \* what the two inputs hold: see CompareTypeOK
          CompareRequests   \* the command lines of the subcommand

VARIABLES route,    \* "subcommand" or "implicit"
          taken,    \* how many of StepsOf(route) are behind
          world,    \* [baseline, candidate, compare, findings]
          partial,  \* the local of run_compare
          found     \* the findings handed to the report

\* A side is whole, partial or not to be read; a comparison succeeds or it does not;
\* and the findings are well formed.
ASSUME CompareAssumption ==
  /\ CompareRequests \subseteq CommandLine
  /\ \A w \in PairWorlds :
       w \in [baseline : {"ok", "partial"} \cup ErrorKinds,
             candidate : {"ok", "partial"} \cup ErrorKinds,
             compare : {"ok"} \cup ErrorKinds,
             findings : Seq(Findings(Nat))]

compareVars == <<route, taken, world, partial, found>>
vars == <<outVars, compareVars>>

\* A step and the errors it can end in; what the steps that read the inputs come
\* to is decided by the world.
Setting(what, errors) == [what |-> what, errors |-> errors]
Reading(what) == [what |-> what, errors |-> {}]

\* Errors of options that the bare form of the command cannot give.
Given(r) == IF r = "subcommand" THEN {"usage"} ELSE {}

StepsOf(r) ==
  << Setting("content", {"usage"}),
     Setting("hash_decoder", {"usage"}),
     Setting("config", {"usage", "input_open"}),
     Setting("probe_timeout", Given(r)),
     Setting("memory_budget", Given(r)),
     Reading("baseline"),
     Reading("candidate"),
     Setting("cli_overrides", Given(r)),
     Setting("profile", Given(r)),
     Setting("policy", {"usage"}),
     Setting("destinations", Given(r)),
     Reading("compare") >>

\* The first two are the callback's; two bare operands come in behind them.
FirstStep(r) == IF r = "subcommand" THEN 0 ELSE 2

DefaultRequest == [json |-> "none", quiet |-> FALSE, strict |-> FALSE, reports |-> 0]

CompareInit ==
  /\ phase = "resolve"
  /\ route \in {"subcommand", "implicit"}
  /\ request \in (IF route = "subcommand" THEN CompareRequests ELSE {DefaultRequest})
  /\ out = <<>>
  /\ exit = NotYet
  /\ taken = FirstStep(route)
  /\ world \in PairWorlds
  /\ partial = FALSE
  /\ found = <<>>

Step == StepsOf(route)[taken + 1]

\* The step goes well and the next one begins, the output after the last.
Passed == /\ taken' = taken + 1
          /\ phase' = IF taken' = Len(StepsOf(route)) THEN "output" ELSE phase
          /\ UNCHANGED <<request, out, exit, route, world>>

Settle ==
  /\ phase = "resolve"
  /\ Step.what \notin {"baseline", "candidate", "compare"}
  /\ \/ Passed /\ UNCHANGED <<partial, found>>
     \/ /\ \E kind \in Step.errors : Refuse(kind, "settings")
        /\ UNCHANGED compareVars

\* Fault: an unsupported input is let through.
FingerprintLenient ==
  /\ phase = "resolve"
  /\ Step.what \in {"baseline", "candidate"}
  /\ IF world[Step.what] \in ErrorKinds \ {"input_unsupported"}
       THEN Refuse(world[Step.what], "input") /\ UNCHANGED compareVars
       ELSE Passed /\ UNCHANGED <<partial, found>>

\* fingerprint_input of the side whose turn it is.
Fingerprint ==
  /\ phase = "resolve"
  /\ Step.what \in {"baseline", "candidate"}
  /\ IF world[Step.what] \in ErrorKinds
       THEN Refuse(world[Step.what], "input") /\ UNCHANGED compareVars
       ELSE Passed /\ UNCHANGED <<partial, found>>

\* Fault: the findings of both directions of the comparison are kept.
CompareBothWays ==
  /\ phase = "resolve"
  /\ Step.what = "compare"
  /\ IF world.compare \in ErrorKinds \ {"decode"}
       THEN Refuse(world.compare, "compare") /\ UNCHANGED compareVars
       ELSE /\ partial' = ("partial" \in {world.baseline, world.candidate})
            /\ found' = world.findings \o world.findings
            /\ Passed

\* The partial marks of both sides, then compare_fingerprints.
Compare ==
  /\ phase = "resolve"
  /\ Step.what = "compare"
  /\ IF world.compare \in ErrorKinds \ {"decode"}
       THEN Refuse(world.compare, "compare") /\ UNCHANGED compareVars
       ELSE /\ partial' = ("partial" \in {world.baseline, world.candidate}
                           \/ world.compare = "decode")
            /\ found' = IF world.compare = "decode" THEN <<>> ELSE world.findings
            /\ Passed

\* An exception of any of these steps, or of the rendering that follows.
Throws ==
  /\ phase \in {"resolve", "output"}
  /\ IF route = "subcommand" THEN Leave(ExitInternal, "exception") ELSE Leave(134, "abort")
  /\ UNCHANGED <<out, compareVars>>

VerdictCode == IF partial THEN ExitDecode
               ELSE ExitCodeForFindings(SummaryOf(found), request.strict)

Output == /\ Write \/ Conclude(VerdictCode)
          /\ UNCHANGED compareVars

Progress == Settle \/ Fingerprint \/ Compare \/ Output
CompareNext == Progress \/ Throws

CompareSpec == CompareInit /\ [][CompareNext]_vars

-------------------------------------------------------------------------------
(* Properties.                                                             *)
CompareTypeOK ==
  /\ phase \in {"resolve", "output", "over"}
  /\ taken \in 0..Len(StepsOf(route))
  /\ world \in PairWorlds
  /\ partial \in BOOLEAN
  /\ found \in {<<>>, world.findings}
  /\ Len(out) <= Len(Destinations(request))

\* A verdict below 64 vouches for both inputs: each was read to its end, the two
\* were compared, and the code is that of the worst gating finding.
VerdictVouchesForInputs ==
  exit.from = "verdict" =>
    LET gating == {f.severity : f \in {world.findings[k] :
                     k \in {n \in DOMAIN world.findings : Gates(world.findings[n].status)}}}
    IN  /\ {world.baseline, world.candidate, world.compare} \cap ErrorKinds \subseteq {"decode"}
        /\ exit.code < ExitUsage =>
             /\ world.baseline = "ok" /\ world.candidate = "ok" /\ world.compare = "ok"
             /\ (exit.code = ExitFail) <=> (Fail \in gating)
             /\ exit.code = ExitWarnStrict => request.strict /\ Warn \in gating

\* An input that cannot be read is reported as such, unless a setting was refused
\* first: nothing is compared and no destination is touched.
UnreadInputTouchesNothing ==
  {world.baseline, world.candidate} \cap ErrorKinds # {} => out = <<>> /\ found = <<>>

-------------------------------------------------------------------------------
(* The strengthening that makes it inductive.                              *)
Behind == {StepsOf(route)[k].what : k \in 1..taken}
AllTaken == taken = Len(StepsOf(route))

\* What lies behind has gone well, and nothing of what lies ahead shows yet.
BehindIsRead ==
  /\ \A side \in {"baseline", "candidate"} \cap Behind : world[side] \notin ErrorKinds
  /\ ~AllTaken => partial = FALSE /\ found = <<>> /\ out = <<>>
  /\ AllTaken =>
       /\ world.compare \notin ErrorKinds \ {"decode"}
       /\ partial = ("partial" \in {world.baseline, world.candidate} \/ world.compare = "decode")
       /\ found = IF world.compare = "decode" THEN <<>> ELSE world.findings

StageOfRun ==
  /\ route \in {"subcommand", "implicit"}
  /\ phase = "resolve" => ~AllTaken
  /\ phase = "output" => AllTaken
  /\ exit.from = "verdict" => AllTaken /\ exit.code = VerdictCode

\* What a run has said and written is about two inputs that were read.
CompareInv == /\ CompareTypeOK
              /\ OutputInv
              /\ BehindIsRead
              /\ StageOfRun
              /\ VerdictVouchesForInputs
              /\ UnreadInputTouchesNothing
===============================================================================
