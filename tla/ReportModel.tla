------------------------------ MODULE ReportModel ------------------------------
(***************************************************************************)
(* report/model.cpp: what a report says of a list of findings, which is    *)
(* tallied in Verdict.  A finding is a record                              *)
(*   [check, scope, status, severity]                                      *)
(* where check is an id of Ids (registered or not) and scope a number that *)
(* stands for the pair (kind, index) in its own order.  A definition       *)
(* introduced by "Fault:" is a seeded bug of the one after it.             *)
(***************************************************************************)
EXTENDS Verdict

CONSTANTS Ids,             \* check ids a finding may carry
          RegistryIndex,   \* registry.find: [Ids -> Nat], Unregistered when absent
          GroupSlot        \* group_slot(group_for(id)): [Ids -> 1..7]

ReportAssumption == /\ RegistryIndex \in [Ids -> Nat]
                    /\ GroupSlot \in [Ids -> 1..7]
ASSUME ReportAssumption

-------------------------------------------------------------------------------
(* The report.                                                             *)
Findings(scopes) ==
  [check : Ids, scope : scopes, status : Statuses, severity : Severities]

IsHidden(finding, options) ==
  \/ ~options.show_pass /\ finding.status = "pass"
  \/ ~options.show_ignored /\ finding.severity = Ignore

\* Fault: the scope is compared before the registry index.
PrecedesByScope(findings, i, j) ==
  LET a == findings[i]
      b == findings[j]
      x == RegistryIndex[a.check]
      y == RegistryIndex[b.check]
  IN  \/ a.scope < b.scope
      \/ a.scope = b.scope /\ x < y
      \/ a.scope = b.scope /\ x = y /\ i < j

\* The comparison of stable_sort, its tie-break on the position included.
Precedes(findings, i, j) ==
  LET a == findings[i]
      b == findings[j]
      x == RegistryIndex[a.check]
      y == RegistryIndex[b.check]
  IN  \/ x < y
      \/ x = y /\ a.scope < b.scope
      \/ x = y /\ a.scope = b.scope /\ i < j

\* One group's block: its findings in report order, without the hidden ones.
GroupBlock(findings, slot, options) ==
  LET shown == {i \in DOMAIN findings : /\ GroupSlot[findings[i].check] = slot
                                        /\ ~IsHidden(findings[i], options)}
      place == [i \in shown |-> 1 + Cardinality({j \in shown : Precedes(findings, j, i)})]
  IN  [k \in 1..Cardinality(shown) |-> findings[CHOOSE i \in shown : place[i] = k]]

BuildReportModel(findings, options) ==
  [summary |-> SummaryOf(findings),
   groups |-> [slot \in 1..7 |-> GroupBlock(findings, slot, options)]]

\* One file's block of a corpus report: the seven groups one after the other.
FileBlock(findings, options) ==
  LET model == BuildReportModel(findings, options)
  IN  [summary |-> model.summary, findings |-> FoldLeft(\o, <<>>, model.groups)]

\* results[i] is the i-th file's list of findings, in pairing order.
BuildCorpusModel(results, options) ==
  LET files == [i \in DOMAIN results |-> FileBlock(results[i], options)]
  IN  [files |-> files,
       totals |-> CombineAll([i \in DOMAIN files |-> files[i].summary])]
===============================================================================
