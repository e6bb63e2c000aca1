------------------------------ MODULE CorpusReport ------------------------------
(***************************************************************************)
(* What build_corpus_model (report/model.cpp) makes of the findings of a   *)
(* corpus, while files and findings come in: the state is the input and    *)
(* what is made of it, a step extends the input.                           *)
(***************************************************************************)
EXTENDS ReportModel

CONSTANTS Samples,                 \* the findings that a comparison may leave
          MaxFiles, MaxFindings    \* how many files and findings are tried

ASSUME SamplesAssumption == Samples \subseteq Findings(Nat)

VARIABLES results,      \* what the jobs left for each file
          options,      \* RenderOptions
          corpus        \* what build_corpus_model makes of them

CorpusVars == <<results, options, corpus>>

\* The places of the findings: a file and a position in its list.
Places == UNION {{i} \X DOMAIN results[i] : i \in DOMAIN results}
FindingAt(p) == results[p[1]][p[2]]

Init == /\ results = <<>>
        /\ options \in [show_pass : BOOLEAN, show_ignored : BOOLEAN]
        /\ corpus = BuildCorpusModel(results, options)

NewFile == /\ Len(results) < MaxFiles
           /\ results' = Append(results, <<>>)
           /\ corpus' = BuildCorpusModel(results', options)
           /\ UNCHANGED options

NewFinding(f) ==
  /\ results # <<>>
  /\ Cardinality(Places) < MaxFindings
  /\ results' = [results EXCEPT ![Len(results)] = Append(@, f)]
  /\ corpus' = BuildCorpusModel(results', options)
  /\ UNCHANGED options

Next == NewFile \/ \E f \in Samples : NewFinding(f)

Spec == Init /\ [][Next]_CorpusVars

-------------------------------------------------------------------------------
\* The corpus totals are the tallies of all findings of all files, the hidden
\* ones included: neither the split into files nor a display option moves them
\* (combine_summary against one pass of accumulate).
TotalsCountEverything ==
  /\ \A s \in Statuses :
       corpus.totals.count[s] = Cardinality({p \in Places : FindingAt(p).status = s})
  /\ corpus.totals.worst_gating =
       Max({Ignore} \cup {FindingAt(p).severity : p \in {q \in Places : Gates(FindingAt(q).status)}})

Occurrences(list, f) == Cardinality({i \in DOMAIN list : list[i] = f})

\* The display filter drops exactly what it names: every other finding is shown
\* as often as it was found, in the block of its own file.
NothingElseIsHidden ==
  /\ Len(corpus.files) = Len(results)
  /\ \A i \in DOMAIN results, f \in Samples :
       Occurrences(corpus.files[i].findings, f) =
         IF IsHidden(f, options) THEN 0 ELSE Occurrences(results[i], f)

\* Within a file the report's order is group, registry index, scope: it does not
\* depend on the order in which the findings were produced.
InReportOrder(x, y) ==
  LET m == RegistryIndex[x.check]
      n == RegistryIndex[y.check]
  IN  \/ GroupSlot[x.check] < GroupSlot[y.check]
      \/ GroupSlot[x.check] = GroupSlot[y.check] /\ m < n
      \/ GroupSlot[x.check] = GroupSlot[y.check] /\ m = n /\ x.scope <= y.scope

OrderOfReport ==
  \A i \in DOMAIN results :
    LET shown == corpus.files[i].findings
    IN  \A a, b \in DOMAIN shown : a < b => InReportOrder(shown[a], shown[b])

\* The report shows what the options name, all of it, in the order of the registry.
ReportIsWhole == NothingElseIsHidden /\ OrderOfReport

\* The exit-code contract of cli/exit_code.h on findings alone: a finding more
\* never makes the verdict milder, with --strict or without.
Rank(code) == CASE code = ExitClean -> 0 [] code = ExitWarnStrict -> 1 [] code = ExitFail -> 2
VerdictNeverImproves ==
  [][\A strict \in BOOLEAN :
       Rank(ExitCodeForFindings(corpus.totals, strict))
         <= Rank(ExitCodeForFindings(corpus'.totals, strict))]_CorpusVars
===============================================================================
