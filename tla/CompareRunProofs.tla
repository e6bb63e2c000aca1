--------------------------- MODULE CompareRunProofs ---------------------------
(***************************************************************************)
(* Proofs about what a comparison says and where.  Of CompareRun, for any  *)
(* inputs, findings and command line: what a run says and writes is about  *)
(* two inputs that were read to their end.  Of CorpusReport, for any       *)
(* number of files with any number of findings: the report shows what the  *)
(* options name, all of it, in the order of the registry; its totals count *)
(* everything; and the exit code never gets milder.                        *)
(***************************************************************************)
EXTENDS CompareRun, CorpusReport, ReportProofs


-------------------------------------------------------------------------------
(* The steps.                                                              *)
LEMMA StepPlaces ==
  ASSUME NEW r
  PROVE  /\ Len(StepsOf(r)) = 12 /\ DOMAIN StepsOf(r) = 1..12
         /\ \A k \in 1..12 : /\ StepsOf(r)[k].what = "baseline" <=> k = 6
                             /\ StepsOf(r)[k].what = "candidate" <=> k = 7
                             /\ StepsOf(r)[k].what = "compare" <=> k = 12
<1> DEFINE s == StepsOf(r)
<1>1. Len(s) = 12 /\ DOMAIN s = 1..12
  BY DEF StepsOf
<1>2. /\ s[1].what = "content" /\ s[2].what = "hash_decoder" /\ s[3].what = "config"
      /\ s[4].what = "probe_timeout" /\ s[5].what = "memory_budget" /\ s[6].what = "baseline"
      /\ s[7].what = "candidate" /\ s[8].what = "cli_overrides" /\ s[9].what = "profile"
      /\ s[10].what = "policy" /\ s[11].what = "destinations" /\ s[12].what = "compare"
  BY DEF StepsOf, Setting, Reading
<1>3. \A k \in 1..12 : k \in {1, 2, 3, 4, 5, 6, 7, 8, 9, 10, 11, 12}
  OBVIOUS
<1> HIDE DEF s
<1>4. \A k \in 1..12 : /\ s[k].what = "baseline" <=> k = 6
                       /\ s[k].what = "candidate" <=> k = 7
                       /\ s[k].what = "compare" <=> k = 12
  BY <1>2, <1>3
<1> QED BY <1>1, <1>4 DEF s


\* Which steps are behind a run that has taken so many.
LEMMA PastIs ==
  taken \in 0..12 => /\ "baseline" \in Behind <=> taken >= 6
                     /\ "candidate" \in Behind <=> taken >= 7
                     /\ AllTaken <=> taken = 12
<1> SUFFICES ASSUME taken \in 0..12
             PROVE  /\ "baseline" \in Behind <=> taken >= 6
                    /\ "candidate" \in Behind <=> taken >= 7
                    /\ AllTaken <=> taken = 12
  OBVIOUS
<1>1. \A k \in 1..taken : k \in 1..12
  OBVIOUS
<1>2. /\ 6 \in 1..taken <=> taken >= 6
      /\ 7 \in 1..taken <=> taken >= 7
  OBVIOUS
<1> DEFINE s == StepsOf(route)
<1>3. /\ Len(s) = 12
      /\ \A k \in 1..12 : /\ s[k].what = "baseline" <=> k = 6
                          /\ s[k].what = "candidate" <=> k = 7
  BY StepPlaces
<1>4. Behind = {s[k].what : k \in 1..taken} /\ (AllTaken <=> taken = Len(s))
  BY DEF Behind, AllTaken
<1> HIDE DEF s
<1> QED BY <1>1, <1>2, <1>3, <1>4

\* The step whose turn it is.
LEMMA StepIs ==
  ASSUME taken \in 0..12, taken # 12
  PROVE  /\ Step.what = "baseline" <=> taken = 5
         /\ Step.what = "candidate" <=> taken = 6
         /\ Step.what = "compare" <=> taken = 11
<1>1. taken + 1 \in 1..12
  OBVIOUS
<1> QED BY <1>1, StepPlaces DEF Step

\* What the two inputs and their comparison can yield.
LEMMA WorldOfRun ==
  ASSUME world \in PairWorlds
  PROVE  /\ world.baseline \in {"ok", "partial"} \cup ErrorKinds
         /\ world.candidate \in {"ok", "partial"} \cup ErrorKinds
         /\ world.compare \in {"ok"} \cup ErrorKinds
         /\ world.findings \in Seq(Findings(Nat)) /\ IsJudged(world.findings)
<1>1. /\ world.baseline \in {"ok", "partial"} \cup ErrorKinds
      /\ world.candidate \in {"ok", "partial"} \cup ErrorKinds
      /\ world.compare \in {"ok"} \cup ErrorKinds
      /\ world.findings \in Seq(Findings(Nat))
  BY CompareAssumption
<1>2. \A k \in DOMAIN world.findings : world.findings[k] \in Findings(Nat)
  BY <1>1
<1> QED BY <1>1, <1>2 DEF IsJudged, Findings

-------------------------------------------------------------------------------
(* The part that is inductive by itself, and what follows from it.         *)
RunInv == CompareTypeOK /\ OutputInv /\ BehindIsRead /\ StageOfRun

\* A run takes no more steps than there are.
LEMMA TakenInRun == RunInv => taken \in 0..12
<1> SUFFICES ASSUME RunInv PROVE taken \in 0..12
  OBVIOUS
<1>1. taken \in 0..Len(StepsOf(route))
  BY DEF RunInv, CompareTypeOK
<1>2. Len(StepsOf(route)) = 12
  BY StepPlaces
<1> QED BY <1>1, <1>2

\* The code a run of both inputs ends with.
LEMMA VouchesFromRest == RunInv => VerdictVouchesForInputs
<1> SUFFICES ASSUME RunInv, exit.from = "verdict" PROVE VerdictVouchesForInputs
  BY DEF VerdictVouchesForInputs
<1>1. AllTaken /\ exit.code = VerdictCode /\ world \in PairWorlds /\ request.strict \in BOOLEAN
  BY DEF RunInv, StageOfRun, CompareTypeOK, OutputInv, CommandLine
<1>2. "baseline" \in Behind /\ "candidate" \in Behind
  <2>1. taken \in 0..12
    BY TakenInRun
  <2> QED BY <1>1, <2>1, PastIs
<1>3. /\ world.baseline \notin ErrorKinds /\ world.candidate \notin ErrorKinds
      /\ world.compare \notin ErrorKinds \ {"decode"}
      /\ partial = ("partial" \in {world.baseline, world.candidate} \/ world.compare = "decode")
      /\ found = IF world.compare = "decode" THEN <<>> ELSE world.findings
  BY <1>1, <1>2 DEF RunInv, BehindIsRead
<1>4. {world.baseline, world.candidate, world.compare} \cap ErrorKinds \subseteq {"decode"}
  BY <1>3
<1>5. ASSUME exit.code < ExitUsage
      PROVE  /\ world.baseline = "ok" /\ world.candidate = "ok" /\ world.compare = "ok"
             /\ (exit.code = ExitFail) <=> (Fail \in GatingOf(world.findings))
             /\ exit.code = ExitWarnStrict => request.strict /\ Warn \in GatingOf(world.findings)
  <2>1. ~partial
    BY <1>1, <1>5 DEF VerdictCode, ExitDecode, ExitUsage
  <2>2. world.baseline = "ok" /\ world.candidate = "ok" /\ world.compare = "ok"
    BY <1>1, <1>3, <2>1, WorldOfRun
  <2>3. exit.code = ExitCodeForFindings(SummaryOf(world.findings), request.strict)
    BY <1>1, <1>3, <2>1, <2>2 DEF VerdictCode
  <2>4. exit.code = IF Fail \in GatingOf(world.findings) THEN ExitFail
                    ELSE IF Warn \in GatingOf(world.findings) /\ request.strict THEN ExitWarnStrict
                    ELSE ExitClean
    BY <1>1, <2>3, WorldOfRun, CodeOfFindings
  <2> QED BY <2>2, <2>4 DEF ExitFail, ExitWarnStrict, ExitClean
<1> QED BY <1>4, <1>5 DEF VerdictVouchesForInputs, GatingOf

\* An input that cannot be read lets no output be touched.
LEMMA UnreadFromRest == RunInv => UnreadInputTouchesNothing
<1> SUFFICES ASSUME RunInv PROVE UnreadInputTouchesNothing
  OBVIOUS
<1>1. CASE AllTaken
  <2>0. taken \in 0..12
    BY TakenInRun
  <2>1. "baseline" \in Behind /\ "candidate" \in Behind
    BY <1>1, <2>0, PastIs
  <2> QED BY <2>1 DEF RunInv, BehindIsRead, UnreadInputTouchesNothing
<1>2. CASE ~AllTaken
  BY <1>2 DEF RunInv, BehindIsRead, UnreadInputTouchesNothing
<1> QED BY <1>1, <1>2

\* A run starts with no step behind it.
LEMMA RunInit == CompareInit => RunInv
<1> SUFFICES ASSUME CompareInit PROVE RunInv
  OBVIOUS
<1>1. route \in {"subcommand", "implicit"} /\ taken \in {0, 2} /\ taken \in 0..12 /\ Len(StepsOf(route)) = 12
  BY StepPlaces DEF CompareInit, FirstStep
<1>2. ~AllTaken /\ "baseline" \notin Behind /\ "candidate" \notin Behind
  BY <1>1, PastIs
<1>c. request \in CommandLine
  <2>1. DefaultRequest \in CommandLine
    BY DEF DefaultRequest, CommandLine
  <2>2. CompareRequests \subseteq CommandLine
    BY CompareAssumption
  <2> QED BY <2>1, <2>2 DEF CompareInit
<1>3. CompareTypeOK
  <2>1. request \in CommandLine
    BY <1>c
  <2>2. Destinations(request) \in Seq({"stdout", "file"})
    BY <2>1, DestinationsCount
  <2>3. out = <<>> /\ Len(out) <= Len(Destinations(request))
    BY <2>2 DEF CompareInit
  <2>4. partial \in BOOLEAN /\ found \in {<<>>, world.findings} /\ world \in PairWorlds /\ phase = "resolve"
    BY DEF CompareInit
  <2> QED BY <1>1, <2>3, <2>4 DEF CompareTypeOK
<1>4. OutputInv
  <2>1. request \in CommandLine
    BY <1>c
  <2>2. Destinations(request) \in Seq({"stdout", "file"})
    BY <2>1, DestinationsCount
  <2> QED BY <2>1, <2>2 DEF OutputInv, CompareInit, NotYet
<1>5. BehindIsRead /\ StageOfRun
  BY <1>1, <1>2 DEF BehindIsRead, StageOfRun, CompareInit, NotYet
<1> QED BY <1>3, <1>4, <1>5 DEF RunInv

-------------------------------------------------------------------------------
(* The steps.                                                              *)

\* The run ends: with the code of its findings if it has come that far.
LEMMA RunEndsKeeps ==
  ASSUME RunInv, NEW code, NEW from, Leave(code, from), UNCHANGED <<out, compareVars>>,
         phase # "over",
         from = "verdict" => AllTaken /\ Len(out) = Len(Destinations(request)) /\ code = VerdictCode
  PROVE  RunInv'
<1>1. /\ phase' = "over" /\ exit' = [code |-> code, from |-> from]
      /\ UNCHANGED <<request, out, route, taken, world, partial, found>>
  BY DEF Leave, compareVars
<1>2. OutputInv'
  BY LeaveKeeps DEF RunInv
<1>3. CompareTypeOK'
  BY <1>1 DEF RunInv, CompareTypeOK
<1>4. BehindIsRead'
  BY <1>1 DEF RunInv, BehindIsRead, Behind, AllTaken
<1>5. StageOfRun'
  <2>1. VerdictCode' = VerdictCode /\ (AllTaken <=> AllTaken')
    BY <1>1 DEF VerdictCode, AllTaken
  <2> QED BY <1>1, <2>1 DEF RunInv, StageOfRun
<1> QED BY <1>2, <1>3, <1>4, <1>5 DEF RunInv

\* A step goes well.
LEMMA PassedKeeps ==
  ASSUME RunInv, phase = "resolve", Passed, taken # 12,
         taken = 5 => world.baseline \notin ErrorKinds,
         taken = 6 => world.candidate \notin ErrorKinds,
         taken # 11 => UNCHANGED <<partial, found>>,
         taken = 11 =>
           /\ world.compare \notin ErrorKinds \ {"decode"}
           /\ partial' = ("partial" \in {world.baseline, world.candidate} \/ world.compare = "decode")
           /\ found' = IF world.compare = "decode" THEN <<>> ELSE world.findings
  PROVE  RunInv'
<1>1. /\ taken \in 0..12 /\ taken' = taken + 1 /\ taken' \in 0..12
      /\ Len(StepsOf(route)) = 12
      /\ phase' = (IF taken' = 12 THEN "output" ELSE "resolve")
      /\ UNCHANGED <<request, out, exit, route, world>>
  <2>1. taken \in 0..12 /\ Len(StepsOf(route)) = 12
    BY TakenInRun, StepPlaces
  <2> QED BY <2>1 DEF Passed
<1>2. /\ "baseline" \in Behind <=> taken >= 6
      /\ "candidate" \in Behind <=> taken >= 7
      /\ AllTaken <=> taken = 12
  BY <1>1, PastIs
<1>3. /\ "baseline" \in Behind' <=> taken' >= 6
      /\ "candidate" \in Behind' <=> taken' >= 7
      /\ AllTaken' <=> taken' = 12
  <2>1. (taken \in 0..12 => /\ "baseline" \in Behind <=> taken >= 6
                            /\ "candidate" \in Behind <=> taken >= 7
                            /\ AllTaken <=> taken = 12)'
    BY PastIs, PTL
  <2> QED BY <1>1, <2>1
<1>4. ~AllTaken /\ partial = FALSE /\ found = <<>> /\ out = <<>> /\ exit = NotYet
  BY <1>1, <1>2 DEF RunInv, BehindIsRead, OutputInv
<1>5. CompareTypeOK'
  <2>1. partial' \in BOOLEAN /\ found' \in {<<>>, world.findings}
    BY <1>4
  <2>2. Len(out') <= Len(Destinations(request'))
    BY <1>1 DEF RunInv, CompareTypeOK
  <2> QED BY <1>1, <2>1, <2>2 DEF RunInv, CompareTypeOK
<1>6. OutputInv'
  BY <1>1, QuietKeeps DEF RunInv
<1>7. BehindIsRead'
  <2>1. "baseline" \in Behind' => world'.baseline \notin ErrorKinds
    BY <1>1, <1>2, <1>3 DEF RunInv, BehindIsRead
  <2>2. "candidate" \in Behind' => world'.candidate \notin ErrorKinds
    BY <1>1, <1>2, <1>3 DEF RunInv, BehindIsRead
  <2>3. ~AllTaken' => partial' = FALSE /\ found' = <<>> /\ out' = <<>>
    BY <1>1, <1>3, <1>4
  <2>4. AllTaken' => taken = 11
    BY <1>1, <1>3
  <2> QED BY <1>1, <2>1, <2>2, <2>3, <2>4 DEF BehindIsRead
<1>8. StageOfRun'
  BY <1>1, <1>3, <1>4 DEF RunInv, StageOfRun, NotYet
<1> QED BY <1>5, <1>6, <1>7, <1>8 DEF RunInv

\* Each step of the run keeps its invariant.
LEMMA RunStep == RunInv /\ [CompareNext]_vars => RunInv'
<1> SUFFICES ASSUME RunInv, [CompareNext]_vars PROVE RunInv'
  OBVIOUS
<1>1. ASSUME phase = "resolve"
      PROVE  /\ taken \in 0..12 /\ taken # 12 /\ Len(StepsOf(route)) = 12
             /\ Step.what = "baseline" <=> taken = 5
             /\ Step.what = "candidate" <=> taken = 6
             /\ Step.what = "compare" <=> taken = 11
  <2>1. taken \in 0..12 /\ taken # 12 /\ Len(StepsOf(route)) = 12
    BY <1>1, StepPlaces DEF RunInv, CompareTypeOK, StageOfRun, AllTaken
  <2> QED BY <2>1, StepIs
<1>2. CASE Settle
  <2>1. CASE Passed /\ UNCHANGED <<partial, found>>
    BY <1>1, <1>2, <2>1, PassedKeeps DEF Settle
  <2>2. CASE UNCHANGED compareVars /\ \E kind \in Step.errors : Refuse(kind, "settings")
    BY <1>2, <2>2, RunEndsKeeps DEF Settle, Refuse
  <2> QED BY <1>2, <2>1, <2>2 DEF Settle
<1>3. CASE Fingerprint
  <2>1. phase = "resolve" /\ Step.what \in {"baseline", "candidate"}
    BY <1>3 DEF Fingerprint
  <2>2. CASE world[Step.what] \in ErrorKinds
    BY <1>3, <2>1, <2>2, RunEndsKeeps DEF Fingerprint, Refuse
  <2>3. CASE world[Step.what] \notin ErrorKinds
    <3>1. Passed /\ UNCHANGED <<partial, found>>
      BY <1>3, <2>3 DEF Fingerprint
    <3>2. taken \in {5, 6}
      BY <1>1, <2>1
    <3> QED BY <1>1, <2>1, <2>3, <3>1, <3>2, PassedKeeps
  <2> QED BY <2>2, <2>3
<1>4. CASE Compare
  <2>1. phase = "resolve" /\ taken = 11
    BY <1>1, <1>4 DEF Compare
  <2>2. CASE world.compare \in ErrorKinds \ {"decode"}
    BY <1>4, <2>1, <2>2, RunEndsKeeps DEF Compare, Refuse
  <2>3. CASE world.compare \notin ErrorKinds \ {"decode"}
    <3>1. /\ partial' = ("partial" \in {world.baseline, world.candidate} \/ world.compare = "decode")
          /\ found' = IF world.compare = "decode" THEN <<>> ELSE world.findings
          /\ Passed
      BY <1>4, <2>3 DEF Compare
    <3> QED BY <2>1, <2>3, <3>1, PassedKeeps
  <2> QED BY <2>2, <2>3
<1>5. CASE Write /\ UNCHANGED compareVars
  <2>1. /\ phase = "output" /\ exit = NotYet /\ UNCHANGED <<request, route, taken, world, partial, found>>
    BY <1>5 DEF Write, EmitStdout, WriteFile, Leave, compareVars, RunInv, OutputInv
  <2>2. /\ phase' \in {"output", "over"} /\ exit'.from # "verdict"
    BY <1>5, <2>1 DEF Write, EmitStdout, WriteFile, Leave, NotYet
  <2>3. AllTaken /\ AllTaken'
    BY <2>1 DEF RunInv, StageOfRun, AllTaken
  <2>4. OutputInv'
    BY <1>5, WriteKeeps DEF RunInv
  <2>5. CompareTypeOK'
    BY <2>1, <2>2, <2>4 DEF RunInv, CompareTypeOK, OutputInv
  <2>6. BehindIsRead'
    BY <2>1, <2>3 DEF RunInv, BehindIsRead, Behind
  <2>7. StageOfRun'
    BY <2>1, <2>2, <2>3 DEF RunInv, StageOfRun
  <2> QED BY <2>4, <2>5, <2>6, <2>7 DEF RunInv
<1>6. CASE Conclude(VerdictCode) /\ UNCHANGED compareVars
  BY <1>6, RunEndsKeeps DEF Conclude, RunInv, StageOfRun
<1>7. CASE Throws
  BY <1>7, RunEndsKeeps DEF Throws
<1>8. CASE UNCHANGED vars
  <2>1. UNCHANGED <<phase, request, out, exit, route, taken, world, partial, found>>
    BY <1>8 DEF vars, outVars, compareVars
  <2>2. OutputInv'
    BY <2>1, QuietKeeps DEF RunInv
  <2>3. CompareTypeOK' /\ BehindIsRead' /\ StageOfRun'
    BY <2>1 DEF RunInv, CompareTypeOK, BehindIsRead, StageOfRun, Behind, AllTaken, VerdictCode
  <2> QED BY <2>2, <2>3 DEF RunInv
<1> QED BY <1>2, <1>3, <1>4, <1>5, <1>6, <1>7, <1>8 DEF CompareNext, Progress, Output

\* What a run of compare has said and written is about two inputs that were read:
\* a code below 64 means that both were whole and were compared, and it is the one
\* of the worst gating finding; an unread input leaves every destination alone.
THEOREM CompareInvariant == CompareSpec => []CompareInv
<1>1. RunInv => CompareInv
  BY VouchesFromRest, UnreadFromRest DEF RunInv, CompareInv
<1> QED BY RunInit, RunStep, <1>1, PTL DEF CompareSpec

\* A verdict of compare is given only when every report file asked for is whole.
THEOREM CompareWritesReports == CompareSpec => []VerdictMeansReportsWritten
<1>1. CompareInv => VerdictMeansReportsWritten
  BY WrittenFromInv DEF CompareInv
<1> QED BY <1>1, CompareInvariant, PTL

-------------------------------------------------------------------------------
(* The report of a corpus.                                                 *)

Shown(findings, display) == {i \in DOMAIN findings : ~IsHidden(findings[i], display)}

\* The order of the report on the positions of a list of findings.
Earlier(findings, i, j) ==
  \/ GroupSlot[findings[i].check] < GroupSlot[findings[j].check]
  \/ GroupSlot[findings[i].check] = GroupSlot[findings[j].check] /\ Precedes(findings, i, j)

\* A list that has the findings of some positions, each once, in the order of the report.
Lists(list, findings, positions, at) ==
  /\ at \in [1..Len(list) -> positions]
  /\ \A i \in positions : \E p \in 1..Len(list) : at[p] = i
  /\ \A p \in 1..Len(list) : list[p] = findings[at[p]]
  /\ \A p, q \in 1..Len(list) : p < q => Earlier(findings, at[p], at[q])

IsFindings(findings) == findings \in Seq(Findings(Nat))

\* The canonical order of findings, ties by place, is strict and total.
LEMMA Strict ==
  ASSUME NEW findings, IsFindings(findings)
  PROVE  /\ \A i \in DOMAIN findings : ~Precedes(findings, i, i) /\ ~Earlier(findings, i, i)
         /\ \A i, j \in DOMAIN findings :
              i # j => Precedes(findings, i, j) \/ Precedes(findings, j, i)
         /\ \A i, j, k \in DOMAIN findings :
              Precedes(findings, i, j) /\ Precedes(findings, j, k) => Precedes(findings, i, k)
<1> DEFINE slot == [i \in DOMAIN findings |-> GroupSlot[findings[i].check]]
           index == [i \in DOMAIN findings |-> RegistryIndex[findings[i].check]]
           scope == [i \in DOMAIN findings |-> findings[i].scope]
<1>1. DOMAIN findings \subseteq Nat /\ \A i \in DOMAIN findings : findings[i] \in Findings(Nat)
  BY DEF IsFindings
<1>2. \A i \in DOMAIN findings : slot[i] \in Nat /\ index[i] \in Nat /\ scope[i] \in Nat
  BY <1>1, ReportAssumption DEF Findings, ReportAssumption
<1>3. \A i, j \in DOMAIN findings :
        Precedes(findings, i, j) <=> \/ index[i] < index[j]
                                     \/ index[i] = index[j] /\ scope[i] < scope[j]
                                     \/ index[i] = index[j] /\ scope[i] = scope[j] /\ i < j
  BY DEF Precedes
<1>4. \A i \in DOMAIN findings : Earlier(findings, i, i) => slot[i] < slot[i] \/ Precedes(findings, i, i)
  BY DEF Earlier
<1> HIDE DEF slot, index, scope
<1>5. \A i \in DOMAIN findings : ~Precedes(findings, i, i)
  BY <1>1, <1>2, <1>3
<1>6. \A i, j \in DOMAIN findings : i # j => Precedes(findings, i, j) \/ Precedes(findings, j, i)
  BY <1>1, <1>2, <1>3
<1>7. ASSUME NEW i \in DOMAIN findings, NEW j \in DOMAIN findings, NEW k \in DOMAIN findings,
             Precedes(findings, i, j), Precedes(findings, j, k)
      PROVE  Precedes(findings, i, k)
  BY <1>1, <1>2, <1>3, <1>7
<1> QED BY <1>2, <1>4, <1>5, <1>6, <1>7

\* The rank of a position in a set of positions: no two have the same one, and every
\* number up to that of the positions is one.
LEMMA RankIsPlace ==
  ASSUME NEW findings, IsFindings(findings), NEW S \in SUBSET DOMAIN findings
  PROVE  LET place == [i \in S |-> 1 + Cardinality({j \in S : Precedes(findings, j, i)})]
             n == Cardinality(S)
         IN  /\ n \in Nat
             /\ place \in [S -> 1..n]
             /\ \A k \in 1..n : \E i \in S : place[i] = k
             /\ \A i, j \in S : place[i] < place[j] => Precedes(findings, i, j)
             /\ \A i, j \in S : place[i] = place[j] => i = j
<1> DEFINE Below(i) == {j \in S : Precedes(findings, j, i)}
           place == [i \in S |-> 1 + Cardinality(Below(i))]
           n == Cardinality(S)
<1>0. IsFiniteSet(S) /\ n \in Nat
  <2>1. DOMAIN findings = 1..Len(findings) /\ Len(findings) \in Nat
    BY DEF IsFindings
  <2>2. IsFiniteSet(1..Len(findings))
    BY <2>1, FS_Interval
  <2> QED BY <2>1, <2>2, FS_Subset, FS_CardinalityType
<1>1. ASSUME NEW i \in S
      PROVE  IsFiniteSet(Below(i)) /\ Cardinality(Below(i)) \in Nat /\ Cardinality(Below(i)) < n
  <2>1. Below(i) \subseteq S \ {i}
    BY Strict
  <2>2. IsFiniteSet(S \ {i}) /\ Cardinality(S \ {i}) = n - 1
    BY <1>0, FS_RemoveElement
  <2> HIDE DEF Below
  <2>3. IsFiniteSet(Below(i)) /\ Cardinality(Below(i)) <= n - 1
    BY <2>1, <2>2, FS_Subset
  <2> QED BY <1>0, <2>3, FS_CardinalityType
<1>2. ASSUME NEW i \in S, NEW j \in S, Precedes(findings, i, j)
      PROVE  Cardinality(Below(i)) < Cardinality(Below(j))
  <2>1. Below(i) \subseteq Below(j) \ {i} /\ i \in Below(j)
    BY <1>2, Strict
  <2> HIDE DEF Below
  <2>2. IsFiniteSet(Below(j) \ {i}) /\ Cardinality(Below(j) \ {i}) = Cardinality(Below(j)) - 1
    BY <1>1, <2>1, FS_RemoveElement
  <2>3. Cardinality(Below(i)) <= Cardinality(Below(j)) - 1
    BY <2>1, <2>2, FS_Subset
  <2> QED BY <1>1, <2>3
<1>3. place \in [S -> 1..n]
  <2> HIDE DEF Below, n
  <2> QED BY <1>0, <1>1
<1>4. ASSUME NEW i \in S, NEW j \in S
      PROVE  /\ place[i] < place[j] => Precedes(findings, i, j)
             /\ place[i] = place[j] => i = j
  <2>1. i # j => Precedes(findings, i, j) \/ Precedes(findings, j, i)
    BY Strict
  <2>2. place[i] = 1 + Cardinality(Below(i)) /\ place[j] = 1 + Cardinality(Below(j))
    OBVIOUS
  <2> HIDE DEF Below, place
  <2> QED BY <1>1, <1>2, <2>1, <2>2
<1> HIDE DEF place
<1>5. \A k \in 1..n : \E i \in S : place[i] = k
  <2>1. place \in Injection(S, 1..n)
    BY <1>3, <1>4 DEF Injection, IsInjective
  <2>2. IsFiniteSet(1..n) /\ Cardinality(1..n) = n
    BY <1>0, FS_Interval
  <2> HIDE DEF n
  <2>3. place \in Surjection(S, 1..n)
    BY <1>0, <2>1, <2>2, FS_Injection DEF n
  <2> QED BY <2>3 DEF Surjection
<1> QED BY <1>0, <1>3, <1>4, <1>5 DEF place

\* A block of a group has the findings of the group that are not hidden.
OfGroup(findings, slot, display) ==
  {i \in DOMAIN findings : GroupSlot[findings[i].check] = slot /\ ~IsHidden(findings[i], display)}

\* A group's block lists each of its shown findings once, in order.
LEMMA BlockLists ==
  ASSUME NEW findings, IsFindings(findings), NEW slot, NEW display
  PROVE  /\ GroupBlock(findings, slot, display) \in Seq(Findings(Nat))
         /\ \E at : Lists(GroupBlock(findings, slot, display), findings,
                          OfGroup(findings, slot, display), at)
<1> DEFINE S == OfGroup(findings, slot, display)
           place == [i \in S |-> 1 + Cardinality({j \in S : Precedes(findings, j, i)})]
           n == Cardinality(S)
           at == [k \in 1..n |-> CHOOSE i \in S : place[i] = k]
           block == GroupBlock(findings, slot, display)
<1>1. S \in SUBSET DOMAIN findings
  BY DEF OfGroup
<1>3. block = [k \in 1..n |-> findings[CHOOSE i \in S : place[i] = k]]
  BY Zenon DEF GroupBlock, OfGroup
<1> HIDE DEF S, block
<1>4. /\ n \in Nat
      /\ place \in [S -> 1..n]
      /\ \A k \in 1..n : \E i \in S : place[i] = k
      /\ \A i, j \in S : place[i] < place[j] => Precedes(findings, i, j)
      /\ \A i, j \in S : place[i] = place[j] => i = j
  BY <1>1, RankIsPlace
<1> HIDE DEF place, n
<1>5. \A k \in 1..n : at[k] \in S /\ place[at[k]] = k
  BY <1>4
<1>6. \A k \in 1..n : block[k] = findings[at[k]]
  BY <1>3
<1> HIDE DEF at
<1>7. block \in Seq(Findings(Nat)) /\ Len(block) = n
  <2>1. \A k \in 1..n : findings[at[k]] \in Findings(Nat)
    BY <1>1, <1>5 DEF IsFindings
  <2>2. block = [k \in 1..n |-> block[k]]
    BY <1>3
  <2> QED BY <1>4, <1>6, <2>1, <2>2
<1>8. Lists(block, findings, S, at)
  <2>1. at \in [1..n -> S]
    BY <1>5 DEF at
  <2>2. ASSUME NEW i \in S PROVE \E p \in 1..n : at[p] = i
    <3>1. place[i] \in 1..n
      BY <1>4
    <3> QED BY <1>4, <1>5, <3>1
  <2>3. ASSUME NEW p \in 1..n, NEW q \in 1..n, p < q PROVE Earlier(findings, at[p], at[q])
    <3>1. Precedes(findings, at[p], at[q])
      BY <1>4, <1>5, <2>3
    <3>2. GroupSlot[findings[at[p]].check] = slot /\ GroupSlot[findings[at[q]].check] = slot
      BY <1>5 DEF S, OfGroup
    <3> QED BY <3>1, <3>2 DEF Earlier
  <2> QED BY <1>6, <1>7, <2>1, <2>2, <2>3 DEF Lists
<1> QED BY <1>7, <1>8 DEF block, S
-------------------------------------------------------------------------------
(* The blocks of the groups, one after the other.                          *)
LEMMA GroupsRun ==
  ASSUME NEW A, NEW S, A = Seq(S), NEW lists \in Seq(A)
  PROVE  \E run \in [0..Len(lists) -> A] :
           /\ run[0] = <<>>
           /\ \A k \in 1..Len(lists) : run[k] = run[k - 1] \o lists[k]
           /\ FoldLeft(\o, <<>>, lists) = run[Len(lists)]
<1> DEFINE n == Len(lists)
           Is(iter) == iter = [s \in SUBSET DOMAIN lists |->
                                 IF s = {} THEN <<>> ELSE iter[s \ {Max(s)}] \o lists[Max(s)]]
           fold == CHOOSE iter : Is(iter)
           step == [p \in A \X (1..n) |-> p[1] \o lists[p[2]]]
<1>0. n \in Nat /\ DOMAIN lists = 1..n /\ \A k \in 1..n : lists[k] \in A
  OBVIOUS
<1>1. step \in [A \X (1..n) -> A]
  <2>1. \A a \in A, k \in 1..n : a \o lists[k] \in A
    BY <1>0
  <2> QED BY <2>1
<1>2. \A a \in A, k \in 1..n : step[<<a, k>>] = a \o lists[k]
  OBVIOUS
<1>3. <<>> \in A
  OBVIOUS
<1> HIDE DEF step
<1>4. Is(fold)
  <2> HIDE DEF n, Is, fold
  <2>1. PICK g : IsFold(g, A, <<>>, n, step)
    BY <1>0, <1>1, <1>3, FoldExists
  <2>2. \A s \in SUBSET (1..n) : s # {} => g[s] = g[s \ {Max(s)}] \o lists[Max(s)]
    BY <1>2, <2>1 DEF IsFold
  <2>3. Is(g)
    BY <1>0, <2>1, <2>2 DEF Is, IsFold
  <2> QED BY <2>3 DEF fold
<1>5. FoldLeft(\o, <<>>, lists) = fold[DOMAIN lists]
  BY Zenon DEF FoldLeft, MapThenFoldSet
<1> HIDE DEF fold, n
<1>6. fold[{}] = <<>>
  BY <1>4
<1>7. ASSUME NEW s \in SUBSET (1..n), s # {}, fold[s \ {Max(s)}] \in A
      PROVE  fold[s] = step[<<fold[s \ {Max(s)}], Max(s)>>]
  <2>1. Max(s) \in 1..n
    BY <1>0, <1>7, MaxOfPositions
  <2> QED BY <1>0, <1>2, <1>4, <1>7, <2>1
<1> HIDE DEF Is
<1>8. Unfolds(fold, A, <<>>, n, step)
  BY <1>6, <1>7 DEF Unfolds
<1>9. PICK run : IsRun(run, A, <<>>, n, step, fold)
  BY <1>0, <1>1, <1>3, <1>8, FoldRuns
<1>10. ASSUME NEW k \in 1..n PROVE run[k] = run[k - 1] \o lists[k]
  <2>1. k - 1 \in 0..n
    BY <1>0
  <2>2. run[k - 1] \in A
    BY <1>9, <2>1 DEF IsRun
  <2> QED BY <1>2, <1>9, <2>2 DEF IsRun
<1> QED BY <1>0, <1>5, <1>9, <1>10 DEF IsRun, n

\* Two lists, one of earlier findings than the other, make up one.
LEMMA ListsConcatenate ==
  ASSUME NEW findings, NEW a \in Seq(Findings(Nat)), NEW b \in Seq(Findings(Nat)),
         NEW D, NEW E, NEW at, NEW to, Lists(a, findings, D, at), Lists(b, findings, E, to),
         \A i \in D, j \in E : Earlier(findings, i, j)
  PROVE  \E both : Lists(a \o b, findings, D \cup E, both)
<1> DEFINE m == Len(a)
           n == Len(b)
           c == a \o b
           both == [p \in 1..(m + n) |-> IF p <= m THEN at[p] ELSE to[p - m]]
<1>1. m \in Nat /\ n \in Nat /\ Len(c) = m + n
  OBVIOUS
<1>2. \A p \in 1..(m + n) : c[p] = IF p <= m THEN a[p] ELSE b[p - m]
  OBVIOUS
<1>3. /\ at \in [1..m -> D] /\ to \in [1..n -> E]
      /\ \A i \in D : \E p \in 1..m : at[p] = i
      /\ \A i \in E : \E p \in 1..n : to[p] = i
      /\ \A p \in 1..m : a[p] = findings[at[p]]
      /\ \A p \in 1..n : b[p] = findings[to[p]]
      /\ \A p, q \in 1..m : p < q => Earlier(findings, at[p], at[q])
      /\ \A p, q \in 1..n : p < q => Earlier(findings, to[p], to[q])
  BY DEF Lists
<1> HIDE DEF m, n, c
<1>4. \A p \in 1..(m + n) : \/ p \in 1..m /\ p <= m /\ both[p] = at[p]
                            \/ p - m \in 1..n /\ ~(p <= m) /\ both[p] = to[p - m]
  BY <1>1
<1>5. /\ \A p \in 1..m : p \in 1..(m + n) /\ both[p] = at[p]
      /\ \A p \in 1..n : p + m \in 1..(m + n) /\ both[p + m] = to[p]
  BY <1>1
<1>6. both \in [1..(m + n) -> D \cup E]
  <2>1. \A p \in 1..(m + n) : both[p] \in D \cup E
    BY <1>3, <1>4
  <2> QED BY <2>1
<1> HIDE DEF both
<1>7. \A i \in D \cup E : \E p \in 1..(m + n) : both[p] = i
  BY <1>3, <1>5
<1>8. \A p \in 1..(m + n) : c[p] = findings[both[p]]
  BY <1>2, <1>3, <1>4
<1>9. ASSUME NEW p \in 1..(m + n), NEW q \in 1..(m + n), p < q
      PROVE  Earlier(findings, both[p], both[q])
  <2>1. CASE p \in 1..m /\ both[p] = at[p] /\ q \in 1..m /\ both[q] = at[q]
    BY <1>3, <1>9, <2>1
  <2>2. CASE p \in 1..m /\ both[p] = at[p] /\ q - m \in 1..n /\ both[q] = to[q - m]
    BY <1>3, <2>2
  <2>3. CASE p - m \in 1..n /\ both[p] = to[p - m] /\ q - m \in 1..n /\ both[q] = to[q - m]
    <3>1. p - m < q - m
      BY <1>1, <1>9
    <3> QED BY <1>3, <2>3, <3>1
  <2>4. ~(p - m \in 1..n /\ q \in 1..m)
    BY <1>1, <1>9
  <2> QED BY <1>4, <2>1, <2>2, <2>3, <2>4
<1> QED BY <1>1, <1>6, <1>7, <1>8, <1>9 DEF Lists, c

\* A file's block has all its findings that are not hidden, each once, in the order of
\* the report.
LEMMA FileLists ==
  ASSUME NEW findings, IsFindings(findings), NEW display
  PROVE  LET list == FileBlock(findings, display).findings
         IN  list \in Seq(Findings(Nat)) /\ \E at : Lists(list, findings, Shown(findings, display), at)
<1> DEFINE groups == [slot \in 1..7 |-> GroupBlock(findings, slot, display)]
           A == Seq(Findings(Nat))
           UpTo(k) == {i \in Shown(findings, display) : GroupSlot[findings[i].check] <= k}
<1>1. FileBlock(findings, display).findings = FoldLeft(\o, <<>>, groups)
  BY DEF FileBlock, BuildReportModel
<1>2. \A slot \in 1..7 : groups[slot] = GroupBlock(findings, slot, display)
  OBVIOUS
<1>3. \A slot \in 1..7 : groups[slot] \in A
  BY <1>2, BlockLists
<1>4. groups \in Seq(A) /\ Len(groups) = 7
  BY <1>3
<1>11. A = Seq(Findings(Nat))
  OBVIOUS
<1> HIDE DEF groups, A
<1>5. PICK run \in [0..7 -> A] :
        /\ run[0] = <<>>
        /\ \A k \in 1..7 : run[k] = run[k - 1] \o groups[k]
        /\ FoldLeft(\o, <<>>, groups) = run[7]
  <2>1. \E run \in [0..Len(groups) -> A] :
          /\ run[0] = <<>>
          /\ \A k \in 1..Len(groups) : run[k] = run[k - 1] \o groups[k]
          /\ FoldLeft(\o, <<>>, groups) = run[Len(groups)]
    BY <1>4, <1>11, GroupsRun, Zenon
  <2> QED BY <1>4, <2>1, Zenon
<1>6. \A i \in DOMAIN findings : GroupSlot[findings[i].check] \in 1..7
  <2>1. \A i \in DOMAIN findings : findings[i] \in Findings(Nat)
    BY DEF IsFindings
  <2> QED BY <2>1, ReportAssumption DEF ReportAssumption, Findings
<1> DEFINE Good(k) == \E at : Lists(run[k], findings, UpTo(k), at)
<1>7. Good(0)
  <2>1. UpTo(0) = {}
    BY <1>6 DEF Shown
  <2>2. Lists(<<>>, findings, {}, <<>>)
    BY DEF Lists
  <2> QED BY <1>5, <2>1, <2>2
<1>8. ASSUME NEW k \in 1..7, Good(k - 1) PROVE Good(k)
  <2> DEFINE D == UpTo(k - 1)
             E == OfGroup(findings, k, display)
  <2>1. UpTo(k) = D \cup E
    BY <1>6 DEF OfGroup, Shown
  <2>2. \A i \in D, j \in E : Earlier(findings, i, j)
    <3>1. \A i \in D, j \in E : GroupSlot[findings[i].check] < GroupSlot[findings[j].check]
      BY <1>6 DEF OfGroup, Shown
    <3> QED BY <3>1 DEF Earlier
  <2>3. PICK to : Lists(groups[k], findings, E, to)
    BY <1>2, BlockLists
  <2>4. PICK at : Lists(run[k - 1], findings, D, at)
    BY <1>8
  <2>5. run[k - 1] \in Seq(Findings(Nat)) /\ groups[k] \in Seq(Findings(Nat))
    <3>1. k - 1 \in 0..7
      OBVIOUS
    <3> QED BY <1>3, <1>5, <3>1 DEF A
  <2>6. run[k] = run[k - 1] \o groups[k]
    BY <1>5
  <2> HIDE DEF D, E, UpTo
  <2>7. PICK both : Lists(run[k - 1] \o groups[k], findings, D \cup E, both)
    BY <2>2, <2>3, <2>4, <2>5, ListsConcatenate
  <2>8. Lists(run[k], findings, UpTo(k), both)
    BY <2>1, <2>6, <2>7
  <2> QED BY <2>8
<1> HIDE DEF Good
<1>9. Good(7)
  <2>1. Good(1)
    BY <1>7, <1>8
  <2>2. Good(2)
    BY <1>8, <2>1
  <2>3. Good(3)
    BY <1>8, <2>2
  <2>4. Good(4)
    BY <1>8, <2>3
  <2>5. Good(5)
    BY <1>8, <2>4
  <2>6. Good(6)
    BY <1>8, <2>5
  <2> QED BY <1>8, <2>6
<1>10. UpTo(7) = Shown(findings, display)
  BY <1>6 DEF Shown
<1>12. run[7] \in Seq(Findings(Nat))
  <2>1. 7 \in 0..7
    OBVIOUS
  <2>2. run[7] \in A
    BY <1>5, <2>1
  <2> QED BY <1>11, <2>2
<1> HIDE DEF UpTo
<1> QED BY <1>1, <1>5, <1>9, <1>10, <1>12 DEF Good

-------------------------------------------------------------------------------
(* The report of a corpus.                                                 *)

\* The report is at all times the one of what has come in.
ReportIInv ==
  /\ results \in Seq(Seq(Samples))
  /\ corpus = BuildCorpusModel(results, options)

\* Whatever files and findings come in, what is reported is at all times what
\* build_corpus_model makes of all of them.
LEMMA ReportInvariant == Spec => []ReportIInv
<1>1. Init => ReportIInv
  BY DEF Init, ReportIInv
<1>2. ReportIInv /\ [Next]_CorpusVars => ReportIInv'
  <2> SUFFICES ASSUME ReportIInv, [Next]_CorpusVars PROVE ReportIInv'
    OBVIOUS
  <2>1. CASE NewFile
    BY <2>1 DEF NewFile, ReportIInv
  <2>2. ASSUME NEW f \in Samples, NewFinding(f) PROVE ReportIInv'
    <3> DEFINE n == Len(results)
    <3>1. n \in DOMAIN results /\ results[n] \in Seq(Samples)
      BY <2>2 DEF NewFinding, ReportIInv
    <3>2. Append(results[n], f) \in Seq(Samples)
      BY <3>1
    <3>3. results' = [results EXCEPT ![n] = Append(results[n], f)]
      BY <2>2 DEF NewFinding
    <3> HIDE DEF n
    <3>4. results' \in Seq(Seq(Samples))
      BY <3>1, <3>2, <3>3 DEF ReportIInv
    <3> QED BY <2>2, <3>4 DEF NewFinding, ReportIInv
  <2>3. CASE UNCHANGED CorpusVars
    BY <2>3 DEF CorpusVars, ReportIInv
  <2> QED BY <2>1, <2>2, <2>3 DEF Next
<1> QED BY <1>1, <1>2, PTL DEF Spec

\* The report has a block for each file, and the tallies of all.
LEMMA ReportOfFiles ==
  ASSUME ReportIInv
  PROVE  /\ DOMAIN results = 1..Len(results) /\ Len(results) \in Nat
         /\ Len(corpus.files) = Len(results)
         /\ \A i \in DOMAIN results :
              /\ IsFindings(results[i])
              /\ corpus.files[i] = FileBlock(results[i], options)
         /\ corpus.totals = CombineAll([i \in DOMAIN results |-> SummaryOf(results[i])])
<1> DEFINE files == [i \in DOMAIN results |-> FileBlock(results[i], options)]
<1>1. DOMAIN results = 1..Len(results) /\ Len(results) \in Nat
  BY DEF ReportIInv
<1>2. corpus.files = files /\ corpus.totals = CombineAll([i \in DOMAIN files |-> files[i].summary])
  BY DEF ReportIInv, BuildCorpusModel
<1>3. \A i \in DOMAIN results : IsFindings(results[i])
  <2>1. Seq(Samples) \subseteq Seq(Findings(Nat))
    BY SamplesAssumption
  <2> QED BY <2>1 DEF ReportIInv, IsFindings
<1>4. Len(files) = Len(results)
  BY <1>1
<1>5. [i \in DOMAIN files |-> files[i].summary] = [i \in DOMAIN results |-> SummaryOf(results[i])]
  BY DEF FileBlock, BuildReportModel
<1>6. \A i \in DOMAIN results : files[i] = FileBlock(results[i], options)
  OBVIOUS
<1> HIDE DEF files
<1> QED BY <1>1, <1>2, <1>3, <1>4, <1>5, <1>6

\* A list shows a finding as often as the file has it.
LEMMA ListsOccurrences ==
  ASSUME NEW list, NEW findings, IsFindings(findings), IsFindings(list),
         NEW D \in SUBSET DOMAIN findings, NEW at, Lists(list, findings, D, at), NEW f
  PROVE  Occurrences(list, f) = Cardinality({i \in D : findings[i] = f})
<1> DEFINE P == {p \in DOMAIN list : list[p] = f}
           Q == {i \in D : findings[i] = f}
           to == [p \in P |-> at[p]]
<1>0. DOMAIN list = 1..Len(list) /\ Len(list) \in Nat
  BY DEF IsFindings
<1>1. /\ at \in [1..Len(list) -> D]
      /\ \A i \in D : \E p \in 1..Len(list) : at[p] = i
      /\ \A p \in 1..Len(list) : list[p] = findings[at[p]]
      /\ \A p, q \in 1..Len(list) : p < q => Earlier(findings, at[p], at[q])
  BY DEF Lists
<1>2. ASSUME NEW p \in P, NEW q \in P, at[p] = at[q] PROVE p = q
  <2>1. ~Earlier(findings, at[p], at[q]) /\ ~Earlier(findings, at[q], at[p])
    BY <1>0, <1>1, <1>2, Strict
  <2> QED BY <1>0, <1>1, <2>1
<1>3. to \in Bijection(P, Q)
  <2>1. to \in [P -> Q]
    BY <1>0, <1>1
  <2>2. \A i \in Q : \E p \in P : to[p] = i
    BY <1>0, <1>1
  <2>3. \A p, q \in P : to[p] = to[q] => p = q
    BY <1>2
  <2> HIDE DEF to, P, Q
  <2> QED BY <2>1, <2>2, <2>3 DEF Bijection, Injection, Surjection, IsInjective
<1>4. IsFiniteSet(P)
  <2>1. IsFiniteSet(1..Len(list))
    BY <1>0, FS_Interval
  <2> QED BY <1>0, <2>1, FS_Subset
<1> HIDE DEF to, P, Q
<1>5. Cardinality(Q) = Cardinality(P)
  BY <1>3, <1>4, FS_Bijection DEF ExistsBijection
<1> QED BY <1>5 DEF Occurrences, P, Q

\* The report of a file shows each finding that the options do not hide as often as it
\* was produced and no other, and all in the order of groups, registry and scopes, for
\* any lists of findings in any order and any registry (build_corpus_model,
\* build_report_model).
THEOREM ReportShowsAll == Spec => []ReportIsWhole
<1>1. ASSUME ReportIInv PROVE ReportIsWhole
  <2>1. ASSUME NEW i \in DOMAIN results
        PROVE  /\ \A f \in Samples :
                    Occurrences(corpus.files[i].findings, f) =
                      IF IsHidden(f, options) THEN 0 ELSE Occurrences(results[i], f)
               /\ LET list == corpus.files[i].findings
                  IN  \A p, q \in DOMAIN list : p < q => InReportOrder(list[p], list[q])
    <3> DEFINE produced == results[i]
               list == corpus.files[i].findings
               D == Shown(produced, options)
    <3>1. IsFindings(produced) /\ list = FileBlock(produced, options).findings
      BY <1>1, ReportOfFiles
    <3> HIDE DEF produced, list
    <3>2. IsFindings(list) /\ \E at : Lists(list, produced, D, at)
      BY <3>1, FileLists DEF IsFindings
    <3>3. PICK at : Lists(list, produced, D, at)
      BY <3>2
    <3>4. D \in SUBSET DOMAIN produced
      BY DEF Shown
    <3>5. ASSUME NEW f \in Samples
          PROVE  Occurrences(list, f) = IF IsHidden(f, options) THEN 0 ELSE Occurrences(produced, f)
      <4>1. Occurrences(list, f) = Cardinality({k \in D : produced[k] = f})
        BY <3>1, <3>2, <3>3, <3>4, ListsOccurrences
      <4>2. CASE IsHidden(f, options)
        <5>1. {k \in D : produced[k] = f} = {}
          BY <4>2 DEF Shown
        <5> QED BY <4>1, <4>2, <5>1, FS_EmptySet
      <4>3. CASE ~IsHidden(f, options)
        <5>1. {k \in D : produced[k] = f} = {k \in DOMAIN produced : produced[k] = f}
          BY <4>3 DEF Shown
        <5> QED BY <4>1, <4>3, <5>1 DEF Occurrences
      <4> QED BY <4>2, <4>3
    <3>6. ASSUME NEW p \in DOMAIN list, NEW q \in DOMAIN list, p < q
          PROVE  InReportOrder(list[p], list[q])
      <4>1. DOMAIN list = 1..Len(list)
        BY <3>2 DEF IsFindings
      <4>2. Earlier(produced, at[p], at[q]) /\ at[p] \in D /\ at[q] \in D
        BY <3>3, <3>6, <4>1 DEF Lists
      <4>3. list[p] = produced[at[p]] /\ list[q] = produced[at[q]]
        BY <3>3, <4>1 DEF Lists
      <4>4. produced[at[p]].scope \in Nat /\ produced[at[q]].scope \in Nat
        <5>1. produced[at[p]] \in Findings(Nat) /\ produced[at[q]] \in Findings(Nat)
          BY <3>1, <3>4, <4>2 DEF IsFindings
        <5> QED BY <5>1 DEF Findings
      <4> QED BY <4>2, <4>3, <4>4 DEF Earlier, Precedes, InReportOrder
    <3> QED BY <3>5, <3>6 DEF produced, list
  <2> QED BY <1>1, <2>1, ReportOfFiles DEF ReportIsWhole, NothingElseIsHidden, OrderOfReport
<1> QED BY <1>1, ReportInvariant, PTL

-------------------------------------------------------------------------------
(* The totals.                                                             *)

\* The worst severity of the totals is that of the worst gating finding.
WorstIsWorst ==
  LET worst == corpus.totals.worst_gating
      gating == {q \in Places : Gates(FindingAt(q).status)}
  IN  /\ worst \in Severities
      /\ \A p \in gating : FindingAt(p).severity \in Ignore..worst
      /\ worst = Ignore \/ \E p \in gating : FindingAt(p).severity = worst

CountsAreCounts ==
  \A s \in Statuses :
    corpus.totals.count[s] = Cardinality({p \in Places : FindingAt(p).status = s})

\* The totals of the report are those of the findings of all files.
LEMMA TotalsOfPlaces == ReportIInv => WorstIsWorst /\ CountsAreCounts
<1> SUFFICES ASSUME ReportIInv PROVE WorstIsWorst /\ CountsAreCounts
  OBVIOUS
<1> DEFINE n == Len(results)
           total == CombineAll([i \in DOMAIN results |-> SummaryOf(results[i])])
<1>1. /\ DOMAIN results = 1..n /\ corpus.totals = total
      /\ \A i \in 1..n : IsFindings(results[i])
  BY ReportOfFiles
<1>2. \A i \in 1..n : DOMAIN results[i] = 1..Len(results[i]) /\ IsJudged(results[i])
  <2>1. ASSUME NEW i \in 1..n
        PROVE  /\ DOMAIN results[i] = 1..Len(results[i])
               /\ \A k \in DOMAIN results[i] : results[i][k] \in Findings(Nat)
    BY <1>1 DEF IsFindings
  <2> QED BY <2>1 DEF IsJudged, Findings
<1>3. results \in Seq(Seq(Findings(Nat)))
  BY <1>1 DEF ReportIInv, IsFindings
<1>4. total \in Summaries /\ IsTotal(total, results, n)
  BY <1>1, <1>2, <1>3, TotalsAreTally
<1>5. \A i \in 1..n : IsTally(SummaryOf(results[i]), results[i], Len(results[i]))
                      /\ SummaryOf(results[i]) \in Summaries
  BY <1>1, <1>2, SummaryIsTally DEF IsFindings
<1>6. \A p : p \in Places <=> \E i \in 1..n : \E k \in DOMAIN results[i] : p = <<i, k>>
  BY <1>1 DEF Places
<1> HIDE DEF total, n
<1>7. WorstIsWorst
  <2>1. total.worst_gating \in Severities /\ total.worst_gating \in Int
    BY <1>4 DEF Summaries, Severities, Ignore, Fail
  <2>2. ASSUME NEW p \in Places, Gates(FindingAt(p).status)
        PROVE  FindingAt(p).severity \in Ignore..total.worst_gating
    <3>1. PICK i \in 1..n : \E k \in DOMAIN results[i] : p = <<i, k>>
      BY <1>6
    <3>0. PICK k \in DOMAIN results[i] : p = <<i, k>>
      BY <3>1
    <3>2. FindingAt(p) = results[i][k] /\ k \in 1..Len(results[i])
      BY <1>2, <3>0 DEF FindingAt
    <3>3. results[i][k].severity <= SummaryOf(results[i]).worst_gating
      BY <1>5, <2>2, <3>2 DEF IsTally, GatingAt
    <3>4. SummaryOf(results[i]).worst_gating <= total.worst_gating
      BY <1>4 DEF IsTotal
    <3>5. /\ results[i][k].severity \in Severities
          /\ SummaryOf(results[i]).worst_gating \in Severities
      BY <1>2, <1>5 DEF IsJudged, Summaries
    <3> QED BY <2>1, <3>2, <3>3, <3>4, <3>5 DEF Severities, Ignore, Fail
  <2>3. ASSUME total.worst_gating # Ignore
        PROVE  \E p \in Places : Gates(FindingAt(p).status) /\ FindingAt(p).severity = total.worst_gating
    <3>1. PICK i \in 1..n : SummaryOf(results[i]).worst_gating = total.worst_gating
      BY <1>4, <2>3 DEF IsTotal
    <3>2. PICK k \in 1..Len(results[i]) :
            GatingAt(results[i], k) /\ results[i][k].severity = total.worst_gating
      BY <1>5, <2>3, <3>1 DEF IsTally
    <3>3. <<i, k>> \in Places /\ FindingAt(<<i, k>>) = results[i][k]
      BY <1>2, <1>6 DEF FindingAt
    <3> QED BY <3>2, <3>3 DEF GatingAt
  <2> QED BY <1>1, <2>1, <2>2, <2>3 DEF WorstIsWorst
<1>8. ASSUME NEW s \in Statuses
      PROVE  total.count[s] = Cardinality({p \in Places : FindingAt(p).status = s})
  <2>1. \A p : p \in PlacesOf(results, n, s) <=> p \in Places /\ FindingAt(p).status = s
    <3>1. ASSUME NEW p, p \in Places PROVE p \in (1..n) \X Nat /\ p[2] \in DOMAIN results[p[1]]
      BY <1>1, <1>2, <1>6, <3>1 DEF IsFindings
    <3>2. ASSUME NEW p \in (1..n) \X Nat, p[2] \in DOMAIN results[p[1]] PROVE p \in Places
      BY <1>6, <3>2
    <3> QED BY <3>1, <3>2 DEF PlacesOf, FindingAt
  <2>2. PlacesOf(results, n, s) = {p \in Places : FindingAt(p).status = s}
    BY <2>1
  <2> QED BY <1>4, <2>2 DEF IsTotal
<1> QED BY <1>1, <1>7, <1>8 DEF CountsAreCounts

\* So they are at all times.
LEMMA TotalsInvariant == Spec => [](ReportIInv /\ WorstIsWorst /\ CountsAreCounts)
BY TotalsOfPlaces, ReportInvariant, PTL

\* The totals of a corpus count all findings of all files, hidden or not, wherever
\* the files divide them, and the worst severity is that of the worst finding that
\* gates (report/model.cpp, accumulate and combine_summary).
THEOREM TotalsCountAll == Spec => []TotalsCountEverything
<1>1. ASSUME WorstIsWorst, CountsAreCounts PROVE TotalsCountEverything
  <2> DEFINE worst == corpus.totals.worst_gating
             told == {Ignore} \cup {FindingAt(p).severity : p \in {q \in Places : Gates(FindingAt(q).status)}}
  <2>1. worst \in told /\ worst \in Nat /\ \A s \in told : s <= worst
    BY <1>1 DEF WorstIsWorst, Severities, Ignore, Fail
  <2>4. told \subseteq Int
    BY <1>1 DEF WorstIsWorst, Ignore
  <2> HIDE DEF told, worst
  <2>2. \A s \in told : (\A r \in told : s >= r) => s = worst
    <3> SUFFICES ASSUME NEW s \in told, \A r \in told : s >= r PROVE s = worst
      OBVIOUS
    <3>1. s <= worst /\ s >= worst
      BY <2>1
    <3>2. s \in Int
      BY <2>4
    <3> QED BY <2>1, <3>1, <3>2
  <2>3. Max(told) = worst
    BY <2>1, <2>2 DEF Max
  <2> QED BY <1>1, <2>3 DEF TotalsCountEverything, CountsAreCounts, told, worst
<1> QED BY <1>1, TotalsInvariant, PTL

\* One finding more, or one file more, never makes the exit code milder, with
\* --strict or without, for any findings (cli/exit_code.h).
LEMMA RankGrows ==
  ASSUME NEW a, NEW b, a.worst_gating \in Severities, b.worst_gating \in Severities,
         a.worst_gating <= b.worst_gating, NEW strict \in BOOLEAN
  PROVE  Rank(ExitCodeForFindings(a, strict)) <= Rank(ExitCodeForFindings(b, strict))
<1>1. \A c : c.worst_gating \in Severities =>
        Rank(ExitCodeForFindings(c, strict)) =
          IF c.worst_gating = Fail THEN 2 ELSE IF c.worst_gating = Warn /\ strict THEN 1 ELSE 0
  BY DEF ExitCodeForFindings, Rank, Severities, ExitClean, ExitFail, ExitWarnStrict, Fail, Warn, Ignore
<1> QED BY <1>1 DEF Severities, Fail, Warn, Ignore

\* A finding that is in a corpus stays at its place.
LEMMA PlacesStay ==
  ASSUME ReportIInv, Next, NEW p \in Places
  PROVE  p \in Places' /\ FindingAt(p)' = FindingAt(p)
<1>0. DOMAIN results = 1..Len(results) /\ Len(results) \in Nat
  BY DEF ReportIInv
<1>1. PICK i \in DOMAIN results : \E k \in DOMAIN results[i] : p = <<i, k>>
  BY DEF Places
<1>3. PICK k \in DOMAIN results[i] : p = <<i, k>>
  BY <1>1
<1>2. /\ i \in DOMAIN results' /\ k \in DOMAIN results'[i]
      /\ results'[i][k] = results[i][k]
  <2>1. CASE NewFile
    <3>1. i \in DOMAIN results' /\ results'[i] = results[i]
      BY <1>0, <2>1 DEF NewFile, ReportIInv
    <3> QED BY <3>1
  <2>2. ASSUME NEW f \in Samples, NewFinding(f)
        PROVE  i \in DOMAIN results' /\ k \in DOMAIN results'[i] /\ results'[i][k] = results[i][k]
    <3> DEFINE n == Len(results)
    <3>1. results' = [results EXCEPT ![n] = Append(results[n], f)]
      BY <2>2 DEF NewFinding
    <3>2. results[i] \in Seq(Samples)
      BY DEF ReportIInv
    <3> HIDE DEF n
    <3>3. i \in DOMAIN results' /\ results'[i] = IF i = n THEN Append(results[n], f) ELSE results[i]
      BY <3>1
    <3>4. k \in DOMAIN Append(results[i], f) /\ Append(results[i], f)[k] = results[i][k]
      BY <3>2
    <3> QED BY <3>3, <3>4
  <2> QED BY <2>1, <2>2 DEF Next
<1> QED BY <1>2, <1>3 DEF Places, FindingAt

\* No finding that comes in and no file that does makes the verdict milder, with
\* --strict or without: whatever is counted, the exit code of the totals never ranks
\* lower than it did (exit_code_for_findings, accumulate, combine_summary).
THEOREM VerdictOnlyHardens == Spec => VerdictNeverImproves
<1> DEFINE Harder == \A strict \in BOOLEAN :
                       Rank(ExitCodeForFindings(corpus.totals, strict))
                         <= Rank(ExitCodeForFindings(corpus'.totals, strict))
<1>1. ASSUME ReportIInv, WorstIsWorst, WorstIsWorst', [Next]_CorpusVars PROVE [Harder]_CorpusVars
  <2> SUFFICES ASSUME Next PROVE Harder
    BY <1>1
  <2> DEFINE before == corpus.totals.worst_gating
             after == corpus'.totals.worst_gating
  <2>1. before \in Severities /\ after \in Severities
    BY <1>1 DEF WorstIsWorst
  <2>2. before <= after
    <3>1. CASE before = Ignore
      BY <2>1, <3>1 DEF Severities, Ignore, Fail
    <3>2. CASE before # Ignore
      <4>1. PICK p \in Places : Gates(FindingAt(p).status) /\ FindingAt(p).severity = before
        BY <1>1, <3>2 DEF WorstIsWorst
      <4>2. p \in Places' /\ FindingAt(p)' = FindingAt(p)
        BY <1>1, PlacesStay
      <4>3. FindingAt(p)'.severity <= after
        BY <1>1, <4>1, <4>2 DEF WorstIsWorst
      <4> QED BY <4>1, <4>2, <4>3
    <3> QED BY <3>1, <3>2
  <2> QED BY <2>1, <2>2, RankGrows
<1> QED BY <1>1, TotalsInvariant, PTL DEF Spec, VerdictNeverImproves
===============================================================================
