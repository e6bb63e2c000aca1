-------------------------------- MODULE Verdict --------------------------------
(***************************************************************************)
(* The vocabulary of a verdict: severities, statuses, the tally of a list  *)
(* of findings (report/model.cpp) and the exit code it is turned into      *)
(* (cli/exit_code.cpp).  A definition introduced by "Fault:" is a seeded   *)
(* bug of the one after it.                                                *)
(***************************************************************************)
EXTENDS Integers, Sequences, SequencesExt

(* Severities in the order their enumeration declares them.                *)
Ignore == 0
Info == 1
Warn == 2
Fail == 3
Severities == Ignore..Fail
Statuses == {"pass", "info", "warn", "fail", "skipped", "error"}

Gates(status) == status \in {"warn", "fail", "error"}

Larger(a, b) == IF a > b THEN a ELSE b

EmptySummary == [count |-> [s \in Statuses |-> 0], worst_gating |-> Ignore]

\* Fault: the last gating finding wins, not the worst.
AccumulateLatest(summary, finding) ==
  [count |-> [summary.count EXCEPT ![finding.status] = @ + 1],
   worst_gating |-> IF Gates(finding.status) THEN finding.severity ELSE summary.worst_gating]

Accumulate(summary, finding) ==
  [count |-> [summary.count EXCEPT ![finding.status] = @ + 1],
   worst_gating |-> IF Gates(finding.status)
                      THEN Larger(finding.severity, summary.worst_gating)
                      ELSE summary.worst_gating]

\* Fault: the worst finding of the files before is forgotten.
CombineForgetsWorst(a, b) ==
  [count |-> [s \in Statuses |-> a.count[s] + b.count[s]],
   worst_gating |-> b.worst_gating]

CombineSummary(a, b) ==
  [count |-> [s \in Statuses |-> a.count[s] + b.count[s]],
   worst_gating |-> Larger(a.worst_gating, b.worst_gating)]

SummaryOf(findings) == FoldLeft(Accumulate, EmptySummary, findings)

\* The totals of a corpus: the summaries of its files, in pairing order.
CombineAll(summaries) == FoldLeft(CombineSummary, EmptySummary, summaries)

-------------------------------------------------------------------------------
(* The exit code.                                                          *)
ErrorKinds == {"usage", "input_open", "input_unsupported", "decode", "internal"}

ExitClean == 0
ExitFail == 1
ExitWarnStrict == 2
ExitUsage == 64
ExitInput == 65
ExitDecode == 66
ExitInternal == 70

ExitCodeFor(kind) ==
  CASE kind = "usage" -> ExitUsage
    [] kind \in {"input_open", "input_unsupported"} -> ExitInput
    [] kind = "decode" -> ExitDecode
    [] kind = "internal" -> ExitInternal

ExitCodeForFindings(summary, strict) ==
  CASE summary.worst_gating = Fail -> ExitFail
    [] summary.worst_gating = Warn -> IF strict THEN ExitWarnStrict ELSE ExitClean
    [] OTHER -> ExitClean
===============================================================================
