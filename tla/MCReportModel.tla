----------------------------- MODULE MCReportModel -----------------------------
(***************************************************************************)
(* CorpusReport over every list of findings up to MaxFindings long, spread *)
(* over up to MaxFiles files.                                              *)
(***************************************************************************)
EXTENDS CorpusReport, TLC

\* The registry declares audio before size here, groups print size after audio;
\* meta.x is registered first and printed last, zzz.unknown is not registered.
MCIds == {"size.file", "audio.loudness.true_peak", "audio.codec", "meta.x", "zzz.unknown"}
Unregistered == 4095
MCRegistryIndex == ("audio.loudness.true_peak" :> 8) @@ ("audio.codec" :> 3) @@ ("size.file" :> 5)
                   @@ ("meta.x" :> 1) @@ ("zzz.unknown" :> Unregistered)
MCGroupSlot == ("audio.loudness.true_peak" :> 4) @@ ("audio.codec" :> 4) @@ ("size.file" :> 6)
               @@ ("meta.x" :> 7) @@ ("zzz.unknown" :> 7)

F(check, scope, status, severity) ==
  [check |-> check, scope |-> scope, status |-> status, severity |-> severity]

\* Every status.  size.file declares the tolerance "3%,8%" at severity fail: a
\* delta between the two is status warn (compare/tol.cpp 516-521).  A true peak
\* that crosses the ceiling is status fail at severity warn (compare/tol.cpp 357).
MCSamples ==
  { F("audio.codec", 0, "pass", Fail),  F("audio.codec", 1, "error", Fail),
    F("size.file", 0, "warn", Fail),    F("size.file", 0, "skipped", Fail),
    F("audio.loudness.true_peak", 0, "fail", Warn),
    F("meta.x", 0, "info", Ignore),     F("zzz.unknown", 0, "warn", Warn) }
===============================================================================
