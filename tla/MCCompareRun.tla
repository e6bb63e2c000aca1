----------------------------- MODULE MCCompareRun -----------------------------
(* Instances of CompareRun.                                                 *)
EXTENDS CompareRun

MCIds == {"size.file"}
MCRegistryIndex == [c \in MCIds |-> 1]
MCGroupSlot == [c \in MCIds |-> 6]

Found(status, severity) ==
  << [check |-> "size.file", scope |-> 0, status |-> status, severity |-> severity] >>

\* Each input whole, partial or unreadable; the comparison clean, warning,
\* failing or in error.
MCPairWorlds ==
  [baseline : {"ok", "partial", "input_open"},
   candidate : {"ok", "partial", "input_unsupported"},
   compare : {"ok", "internal", "decode"},
   findings : {Found("pass", Fail), Found("warn", Warn), Found("fail", Fail)}]
MCCompareRequests == Requests(1)
===============================================================================
