------------------------------ MODULE PolicyRules ------------------------------
(***************************************************************************)
(* core/policy.cpp and core/glob.cpp: the severity and tolerance of every  *)
(* check after builtin, profile, configuration file and command line have  *)
(* had their say.                                                          *)
(*                                                                         *)
(* A check is a record                                                     *)
(*   [id, semantic, kind, unit, is_volatile, default_severity,             *)
(*    severity_overrides, default_tolerance, tolerance_overrides, ...]     *)
(* with id the sequence of its dotted segments and the overrides functions *)
(* from some of the profiles.  A tolerance is                              *)
(*   [unit, num, den, is_relative, warn]                                   *)
(* with warn empty or the one-element sequence of warn_num; an optional    *)
(* value is such a sequence throughout.  A rule is [glob, severity] or     *)
(* [glob, tolerance], an override block [path_glob, file_order, severity,  *)
(* tolerance] and a configuration [severity, tolerance, overrides], empty  *)
(* when there is no file.  A definition introduced by "Fault:" is a seeded *)
(* bug of the one after it.                                                *)
(***************************************************************************)
EXTENDS Verdict

CONSTANTS Registry,   \* the checks in the order of their declaration
          Profiles    \* ProfileId

Checks == DOMAIN Registry

\* Where each element of a sequence comes from when its keys are sorted; of equal
\* keys any may come first (std::sort).
Ascending(keys) ==
  CHOOSE place \in [DOMAIN keys -> DOMAIN keys] :
    /\ \A i \in DOMAIN keys : \E k \in DOMAIN keys : place[k] = i
    /\ \A k, l \in DOMAIN keys : k < l => keys[place[k]] <= keys[place[l]]

-------------------------------------------------------------------------------
(* Globs, on check ids (by '.') and on relative paths (by '/') alike.      *)
ValidGlob(pattern) ==
  /\ pattern # <<>>
  /\ \A i \in DOMAIN pattern : pattern[i] # ""
  /\ \A i \in 1..Len(pattern) - 1 : pattern[i] # "**"

GlobMatches(pattern, segments) ==
  /\ ValidGlob(pattern)
  /\ LET globstar == Last(pattern) = "**"
         fixed == IF globstar THEN Len(pattern) - 1 ELSE Len(pattern)
     IN  /\ IF globstar THEN Len(segments) > fixed ELSE Len(segments) = fixed
         /\ \A i \in 1..fixed : pattern[i] \in {"*", segments[i]}

GlobSelect(pattern) == {c \in Checks : GlobMatches(pattern, Registry[c].id)}

-------------------------------------------------------------------------------
(* One check's entry: its severity, its tolerance, and the chain of layers *)
(* that wrote the severity.  A policy under construction is                *)
(* [error, per_check]; per_check means nothing once error is set.          *)
SeverityFor(check, profile) ==
  IF profile \in DOMAIN check.severity_overrides
    THEN check.severity_overrides[profile] ELSE check.default_severity

ToleranceFor(check, profile) ==
  IF profile \in DOMAIN check.tolerance_overrides
    THEN check.tolerance_overrides[profile] ELSE check.default_tolerance

Wrote(layer, severity) == [layer |-> layer, value |-> severity]

BuiltinEntry(check, profile) ==
  LET builtin == IF check.is_volatile THEN Ignore ELSE check.default_severity
      resolved == IF check.is_volatile THEN Ignore ELSE SeverityFor(check, profile)
  IN  [severity |-> resolved,
       tolerance |-> ToleranceFor(check, profile),
       chain |-> IF resolved = builtin THEN <<Wrote("builtin", builtin)>>
                 ELSE <<Wrote("builtin", builtin), Wrote("profile", resolved)>>]

Builtin(profile) ==
  [error |-> "none",
   per_check |-> [c \in Checks |-> BuiltinEntry(Registry[c], profile)]]

\* A rule writes to every check that its glob selects.
Override(policy, glob, written) ==
  LET selected == GlobSelect(glob)
  IN  [policy EXCEPT !.per_check =
        [c \in Checks |-> IF c \in selected THEN written[c] ELSE @[c]]]

\* Fault: the chain keeps only the layers of the defaults.
WriteSeverityUnchained(policy, rule, layer) ==
  Override(policy, rule.glob,
           [c \in Checks |-> [policy.per_check[c] EXCEPT !.severity = rule.severity]])

WriteSeverity(policy, rule, layer) ==
  Override(policy, rule.glob,
           [c \in Checks |-> [policy.per_check[c] EXCEPT
                                !.severity = rule.severity,
                                !.chain = Append(@, Wrote(layer, rule.severity))]])

\* A value that does not parse in the unit of a check its glob selects is a
\* usage error (parse_tolerance); a glob that selects nothing never fails.
WriteTolerance(policy, rule) ==
  IF \E c \in GlobSelect(rule.glob) : Registry[c].unit # rule.tolerance.unit
    THEN [policy EXCEPT !.error = "usage"]
    ELSE Override(policy, rule.glob,
                  [c \in Checks |-> [policy.per_check[c] EXCEPT !.tolerance = rule.tolerance]])

\* The [severity] and [tolerance] tables of a configuration file, in file order.
WriteConfigSeverity(policy, rule) == WriteSeverity(policy, rule, "config")

WriteSeverities(policy, rules) == FoldLeft(WriteConfigSeverity, policy, rules)

WriteTolerances(policy, rules) == FoldLeft(WriteTolerance, policy, rules)

WriteRules(policy, rules) ==
  WriteTolerances(WriteSeverities(policy, rules.severity), rules.tolerance)

InFileOrder(blocks) ==
  LET place == Ascending([i \in DOMAIN blocks |-> blocks[i].file_order])
  IN  [i \in DOMAIN blocks |-> blocks[place[i]]]

ApplyBlocks(policy, blocks) == FoldLeft(WriteRules, policy, InFileOrder(blocks))

WriteOverride(policy, o) ==
  IF "severity" \in DOMAIN o THEN WriteSeverity(policy, o, "cli") ELSE WriteTolerance(policy, o)

ApplyCli(policy, overrides) == FoldLeft(WriteOverride, policy, overrides)

\* compare and inspect: every block applies, whatever its path.
ResolvePolicy(profile, config, cli) ==
  ApplyCli(ApplyBlocks(WriteRules(Builtin(profile), config), config.overrides), cli)

\* dir: the base leaves the blocks and the command line to each file.
BasePolicy(profile, config) ==
  ResolvePolicy(profile, [config EXCEPT !.overrides = <<>>], <<>>)

\* The blocks whose path selects the file.
KeepMatching(kept, block, path) ==
  IF GlobMatches(block.path_glob, path) THEN Append(kept, block) ELSE kept

Matching(blocks, path) ==
  FoldLeft(LAMBDA kept, block : KeepMatching(kept, block, path), <<>>, blocks)

ResolvePolicyForFile(base, config, path, cli) ==
  ApplyCli(ApplyBlocks(base, Matching(config.overrides, path)), cli)

-------------------------------------------------------------------------------
(* What a configuration and a command line may hold.                       *)
Tolerances ==
  [unit : STRING, num : Nat, den : Nat \ {0}, is_relative : BOOLEAN, warn : Seq(Nat)]

SeverityRules == [glob : Seq(STRING), severity : Severities]
ToleranceRules == [glob : Seq(STRING), tolerance : Tolerances]

OverrideBlocks ==
  [path_glob : Seq(STRING), file_order : Nat,
   severity : Seq(SeverityRules), tolerance : Seq(ToleranceRules)]

ConfigFiles ==
  [severity : Seq(SeverityRules), tolerance : Seq(ToleranceRules), overrides : Seq(OverrideBlocks)]

CommandLines == Seq(SeverityRules \cup ToleranceRules)
===============================================================================
