------------------------------- MODULE MCDirRun -------------------------------
(* Instances of DirRun: worlds in which each pair is one of a few kinds.    *)
EXTENDS DirRun

MCIds == {"size.file", "timeline.start"}
MCRegistryIndex == [c \in MCIds |-> IF c = "size.file" THEN 1 ELSE 2]
MCGroupSlot == [c \in MCIds |-> IF c = "size.file" THEN 6 ELSE 3]

Found(check, status, severity) ==
  << [check |-> check, scope |-> 0, status |-> status, severity |-> severity] >>

Fine == [side |-> "both", policy |-> "ok", baseline |-> "ok", candidate |-> "ok",
         compare |-> "ok", findings |-> Found("size.file", "pass", Fail)]
Warned == [Fine EXCEPT !.findings = Found("timeline.start", "warn", Warn)]
Failed == [Fine EXCEPT !.findings = Found("size.file", "fail", Fail)]
PartialPair == [Fine EXCEPT !.baseline = "partial"]
NoPolicy == [Fine EXCEPT !.policy = "usage"]
Unopened == [Failed EXCEPT !.baseline = "partial", !.candidate = "input_open"]
Mismatch == [PartialPair EXCEPT !.compare = "internal"]
Undecoded == [Fine EXCEPT !.compare = "decode"]
Throwing == [Failed EXCEPT !.candidate = "throws"]
Missing == [Fine EXCEPT !.side = "baseline", !.findings = Found("size.file", "fail", Fail)]

\* Three pairs of any of the kinds that differ in what the rollup sees.
Kinds == {Fine, Warned, Failed, PartialPair, NoPolicy, Unopened, Undecoded, Throwing, Missing}
MCWorlds == [Jobs -> Kinds]
MCRequests == [json : {"none"}, quiet : {TRUE}, strict : BOOLEAN, reports : {0}]

\* One mixed corpus, every command line.
MCMixed == {[i \in Jobs |-> IF i = 0 THEN Warned ELSE IF i = 1 THEN Mismatch ELSE Fine],
            [i \in Jobs |-> IF i = 0 THEN Warned ELSE Fine]}
MCAllRequests == Requests(2)

MCThrown == {[i \in Jobs |-> IF i = 1 THEN Throwing ELSE Fine]}
===============================================================================
