----------------------------- MODULE CompareProofs -----------------------------
(***************************************************************************)
(* For every registry, policy and pair of fingerprints: the findings come  *)
(* in the order of their keys, each key once, and nothing goes missing;    *)
(* what is reported is what the comparators say; and what the comparators  *)
(* say of one file, of two files that change places, of an estimate, of    *)
(* the time that spans cover and of the blocks of two chains.              *)
(***************************************************************************)
EXTENDS ComparePromises, ReportProofs

-------------------------------------------------------------------------------
(* What the comparators return.                                            *)
LEMMA EscalateStatus == ASSUME NEW severity PROVE Escalate(severity) \in Statuses
BY DEF Escalate, Statuses

\* Whatever a comparator is given, its verdict is one of the statuses.
LEMMA CompareStatus ==
  ASSUME NEW c \in Checks, NEW b, NEW m, NEW severity, NEW profile, NEW expectation
  PROVE  Compare(c, b, m, severity, profile, expectation).status \in Statuses
<1> DEFINE t == ToleranceFor(Registry[c], profile)
<1> USE EscalateStatus DEF Judged, Skips, Aborts, Statuses
<1>1. CompareExact(Registry[c], b, m, severity, profile, expectation).status \in Statuses
  BY DEF CompareExact, CompareToExpectation
<1>2. CompareTol(b, m, severity, t).status \in Statuses
  BY DEF CompareTol, ZoneStatus
<1>3. CompareSet(b, m, severity).status \in Statuses
  BY DEF CompareSet
<1>4. ComparePresence(b, m, severity).status \in Statuses
  BY DEF ComparePresence
<1>5. CompareHash(b, m, severity).status \in Statuses
  BY DEF CompareHash
<1>6. CompareDist(b, m, severity, t).status \in Statuses
  BY DEF CompareDist
<1>7. CompareSpan(b, m, severity).status \in Statuses
  BY DEF CompareSpan
<1>8. CompareState(Registry[c], b, m, severity).status \in Statuses
  BY DEF CompareState
<1>9. Registry[c].semantic \in Semantics
  BY RegistryAssumption
<1> HIDE DEF t
<1> QED
  BY <1>1, <1>2, <1>3, <1>4, <1>5, <1>6, <1>7, <1>8, <1>9 DEF Compare, Semantics, t

-------------------------------------------------------------------------------
(* The three ways in which a step treats the list of findings.             *)

\* Everything that the steps preserve.
EngineIInv ==
  /\ EngineInv
  /\ NothingUnaccounted
  /\ stage = "resolve" => error = "none"

\* The loop starts with no findings and every key still to visit.
LEMMA InitIInv == EngineInit => EngineIInv
<1> SUFFICES ASSUME EngineInit PROVE EngineIInv
  OBVIOUS
<1> USE DEF EngineInit
<1>1. Keys(world) \subseteq Checks \X ScopeKinds \X Nat
  BY WorldsAssumption
<1>2. EngineTypeOK
  BY <1>1 DEF EngineTypeOK, Range
<1> QED
  BY <1>2 DEF EngineIInv, EngineInv, FindingsInOrder, LoopIsPastFindings, NothingUnaccounted

\* A finding appended for the key of the loop is behind all the others and ahead
\* of all that the loop has still to visit.
LEMMA EmitIInv ==
  ASSUME NEW key \in Keys(world), NEW severity, NEW outcome,
         EngineIInv, Visits(key), Emit(key, severity, outcome), outcome.status \in Statuses
  PROVE  EngineIInv'
<1> DEFINE f == [key |-> key, severity |-> severity, status |-> outcome.status,
                 skip |-> outcome.skip, divergence |-> outcome.divergence]
           n == Len(findings)
<1>0. /\ stage = "pair" /\ key \in remaining
      /\ findings' = Append(findings, f)
      /\ remaining' = remaining \ {key}
      /\ UNCHANGED <<world, stage, policy, error>>
  BY DEF Visits, Emit
<1>1. Keys(world)' = Keys(world)
  BY <1>0 DEF Keys, KeysOf
<1>2. f.key = key /\ f.status \in Statuses
  OBVIOUS
<1>3. findings \in Seq(Range(findings)) /\ n \in Nat /\ DOMAIN findings = 1..n
  BY DEF EngineIInv, EngineInv, EngineTypeOK
<1> HIDE DEF f
<1>4. /\ DOMAIN findings' = 1..(n + 1)
      /\ \A i \in 1..n : findings'[i] = findings[i]
      /\ findings'[n + 1] = f
      /\ findings' \in Seq(Range(findings) \cup {f})
  BY <1>0, <1>3
<1>5. EngineTypeOK'
  <2>1. findings' \in Seq(Range(findings'))
    BY <1>4 DEF Range
  <2>2. \A i \in 1..(n + 1) : findings'[i].key \in Keys(world) /\ findings'[i].status \in Statuses
    <3>1. \A i \in 1..n : findings'[i].key \in Keys(world) /\ findings'[i].status \in Statuses
      BY <1>3, <1>4 DEF EngineIInv, EngineInv, EngineTypeOK
    <3>2. findings'[n + 1].key \in Keys(world) /\ findings'[n + 1].status \in Statuses
      BY <1>2, <1>4
    <3> QED BY <1>3, <3>1, <3>2
  <2> QED
    BY <1>0, <1>1, <1>4, <2>1, <2>2 DEF EngineIInv, EngineInv, EngineTypeOK
<1>6. \A i \in 1..n : Before(findings[i].key, key)
  BY <1>0, <1>3 DEF EngineIInv, EngineInv, LoopIsPastFindings
<1>7. FindingsInOrder'
  <2> SUFFICES ASSUME NEW i \in 1..(n + 1), NEW j \in 1..(n + 1), i < j
               PROVE  Before(findings'[i].key, findings'[j].key)
    BY <1>4 DEF FindingsInOrder, Before
  <2>1. CASE j = n + 1
    BY <1>2, <1>3, <1>4, <1>6, <2>1
  <2>2. CASE j # n + 1
    <3>1. i \in 1..n /\ j \in 1..n
      BY <1>3, <2>2
    <3> QED BY <1>3, <1>4, <3>1 DEF EngineIInv, EngineInv, FindingsInOrder
  <2> QED BY <2>1, <2>2
<1>8. LoopIsPastFindings'
  <2> SUFFICES ASSUME NEW i \in 1..(n + 1), NEW other \in remaining \ {key}
               PROVE  Before(findings'[i].key, other)
    BY <1>0, <1>4 DEF LoopIsPastFindings, Before
  <2>1. CASE i = n + 1
    BY <1>2, <1>4, <2>1 DEF Visits
  <2>2. CASE i # n + 1
    <3>1. i \in 1..n
      BY <1>3, <2>2
    <3> QED BY <1>3, <1>4, <3>1 DEF EngineIInv, EngineInv, LoopIsPastFindings
  <2> QED BY <2>1, <2>2
<1>9. NothingUnaccounted'
  <2> SUFFICES ASSUME error = "none", NEW other \in Keys(world) \ (remaining \ {key}),
                      MustBeFound(other)'
               PROVE  \E i \in 1..(n + 1) : findings'[i].key = other
    BY <1>0, <1>1, <1>4 DEF NothingUnaccounted, Found
  <2>1. CASE other = key
    BY <1>2, <1>3, <1>4, <2>1
  <2>2. CASE other # key
    <3>1. MustBeFound(other)
      BY <1>0 DEF MustBeFound, Paired, Demoted, CrossContainer
    <3>2. PICK i \in 1..n : findings[i].key = other
      BY <1>3, <2>2, <3>1 DEF EngineIInv, NothingUnaccounted, Found
    <3> QED BY <1>3, <1>4, <3>2
  <2> QED BY <2>1, <2>2
<1> QED
  BY <1>0, <1>5, <1>7, <1>8, <1>9 DEF EngineIInv, EngineInv

\* What leaves the findings alone and passes over no key that must be found.
LEMMA QuietIInv ==
  ASSUME EngineIInv, UNCHANGED <<world, findings>>,
         stage' \in {"pair", "done"},
         error' = "none" => error = "none",
         remaining' \subseteq remaining,
         \A key \in remaining \ remaining' : ~MustBeFound(key),
         stage' = "done" /\ error' = "none" => remaining' = {}
  PROVE  EngineIInv'
<1>1. Keys(world)' = Keys(world)
  BY DEF Keys, KeysOf
<1>2. EngineTypeOK'
  BY <1>1 DEF EngineIInv, EngineInv, EngineTypeOK, Range
<1>3. FindingsInOrder' /\ LoopIsPastFindings'
  BY DEF EngineIInv, EngineInv, FindingsInOrder, LoopIsPastFindings, Before
<1>4. NothingUnaccounted'
  <2>1. ASSUME error' = "none", NEW key \in Keys(world) \ remaining', MustBeFound(key)'
        PROVE  Found(key)'
    <3>1. MustBeFound(key)
      BY <2>1 DEF MustBeFound, Paired, Demoted, CrossContainer
    <3>2. Found(key)
      BY <2>1, <3>1 DEF EngineIInv, NothingUnaccounted
    <3> QED BY <3>2 DEF Found
  <2> QED BY <1>1, <2>1 DEF NothingUnaccounted
<1> QED
  BY <1>2, <1>3, <1>4 DEF EngineIInv, EngineInv

\* An error empties the findings, and nothing is claimed of them any longer.
LEMMA AbortIInv == ASSUME NEW key \in Keys(world), EngineIInv, Abort(key) PROVE EngineIInv'
<1>0. /\ findings' = <<>> /\ stage' = "done" /\ error' # "none"
      /\ UNCHANGED <<world, policy, remaining>>
  BY DEF Abort
<1>1. Keys(world)' = Keys(world)
  BY <1>0 DEF Keys, KeysOf
<1>2. EngineTypeOK'
  BY <1>0, <1>1 DEF EngineIInv, EngineInv, EngineTypeOK, Range
<1> QED
  BY <1>0, <1>2
     DEF EngineIInv, EngineInv, FindingsInOrder, LoopIsPastFindings, NothingUnaccounted

-------------------------------------------------------------------------------
(* One case for each action.                                               *)
LEMMA ResolveIInv == EngineIInv /\ Resolve => EngineIInv'
<1> SUFFICES ASSUME EngineIInv, Resolve PROVE EngineIInv'
  OBVIOUS
<1>1. /\ UNCHANGED <<world, remaining, findings>>
      /\ stage' \in {"pair", "done"}
      /\ stage' = "done" => error' # "none"
  BY DEF Resolve
<1>2. error = "none"
  BY DEF Resolve, EngineIInv
<1> QED
  BY <1>1, <1>2, QuietIInv

\* A visit of a key adds at most one finding, of that key, behind all others.
LEMMA PairIInv == ASSUME NEW key \in Keys(world), EngineIInv, Pair(key) PROVE EngineIInv'
<1>1. CASE Demote(key)
  BY <1>1, EmitIInv DEF Demote, Skips, Judged, Statuses
<1>2. CASE ProgramOfOneSide(key)
  BY <1>2, EmitIInv DEF ProgramOfOneSide, Judged, Statuses
<1>3. CASE PassOver(key)
  <2>1. ~MustBeFound(key)
    BY <1>3 DEF PassOver, MustBeFound
  <2>2. /\ UNCHANGED <<world, stage, error, findings>>
        /\ stage = "pair" /\ remaining' = remaining \ {key}
    BY <1>3 DEF PassOver, Visits
  <2> QED BY <2>1, <2>2, QuietIInv
<1>4. CASE Skip(key)
  BY <1>4, EmitIInv DEF Skip, Skips, Judged, Statuses
<1>5. CASE KindMismatch(key)
  BY <1>5, EmitIInv DEF KindMismatch, Judged, Statuses
<1>6. CASE Judge(key)
  <2>1. key[1] \in Checks
    BY DEF EngineIInv, EngineInv, EngineTypeOK
  <2>2. Verdict(key).status \in Statuses
    BY <2>1, CompareStatus DEF Verdict
  <2> QED BY <1>6, <2>2, EmitIInv DEF Judge
<1>7. CASE Abort(key)
  BY <1>7, AbortIInv
<1> QED
  BY <1>1, <1>2, <1>3, <1>4, <1>5, <1>6, <1>7 DEF Pair

\* The end of the loop changes no finding.
LEMMA ReturnIInv == EngineIInv /\ Return => EngineIInv'
<1> SUFFICES ASSUME EngineIInv, Return PROVE EngineIInv'
  OBVIOUS
<1> QED
  BY QuietIInv DEF Return

\* Steps that change nothing keep the engine's invariant.
LEMMA StutterIInv == EngineIInv /\ UNCHANGED vars => EngineIInv'
<1> SUFFICES ASSUME EngineIInv, UNCHANGED vars PROVE EngineIInv'
  OBVIOUS
<1>1. UNCHANGED <<world, stage, remaining, findings, error>>
  BY DEF vars
<1>2. Keys(world)' = Keys(world)
  BY <1>1 DEF Keys, KeysOf
<1>3. EngineTypeOK'
  BY <1>1, <1>2 DEF EngineIInv, EngineInv, EngineTypeOK, Range
<1>4. FindingsInOrder' /\ LoopIsPastFindings'
  BY <1>1 DEF EngineIInv, EngineInv, FindingsInOrder, LoopIsPastFindings, Before
<1>5. \A key : (MustBeFound(key)' <=> MustBeFound(key)) /\ (Found(key)' <=> Found(key))
  BY <1>1 DEF MustBeFound, Paired, Demoted, CrossContainer, Found
<1>6. NothingUnaccounted'
  BY <1>1, <1>2, <1>5 DEF EngineIInv, NothingUnaccounted
<1> QED
  BY <1>1, <1>3, <1>4, <1>6 DEF EngineIInv, EngineInv

\* The strengthened invariant of the loop of compare().
THEOREM EngineInvariant == EngineSpec => []EngineIInv
<1>1. EngineInit => EngineIInv
  BY InitIInv
<1>2. EngineIInv /\ [EngineNext]_vars => EngineIInv'
  BY ResolveIInv, PairIInv, ReturnIInv, StutterIInv DEF EngineNext
<1> QED
  BY <1>1, <1>2, PTL DEF EngineSpec

\* However the fingerprints were ordered and whatever they hold, the findings are in
\* the order of the registry and then of the scopes (engine.cpp:223).
THEOREM EngineOrdered == EngineSpec => []EngineInv
<1>1. EngineIInv => EngineInv
  BY DEF EngineIInv
<1> QED
  BY <1>1, EngineInvariant, PTL

\* No pairing key has two findings: a summary counts nothing twice.
THEOREM EachKeyOnce ==
  EngineSpec => [](\A i, j \in DOMAIN findings : findings[i].key = findings[j].key => i = j)
<1>1. ASSUME EngineInv PROVE \A i, j \in DOMAIN findings : findings[i].key = findings[j].key => i = j
  <2> SUFFICES ASSUME NEW i \in DOMAIN findings, NEW j \in DOMAIN findings, i < j,
                      findings[i].key = findings[j].key
               PROVE  FALSE
    BY <1>1 DEF EngineInv, EngineTypeOK
  <2>1. Before(findings[i].key, findings[i].key)
    BY <1>1 DEF EngineInv, FindingsInOrder
  <2>2. findings[i].key \in Nat \X ScopeKinds \X Nat
    BY <1>1, RegistryAssumption DEF EngineInv, EngineTypeOK
  <2> QED BY <2>1, <2>2 DEF Before, ScopeKinds
<1> QED
  BY <1>1, EngineOrdered, PTL

\* What both files measured, what a migration demotes and what names a program has
\* its finding, in every comparison that does not end in an error (engine.cpp:274).
THEOREM EngineComplete == EngineSpec => []NothingUnaccounted
<1>1. EngineIInv => NothingUnaccounted
  BY DEF EngineIInv
<1> QED
  BY <1>1, EngineInvariant, PTL

-------------------------------------------------------------------------------
(* The arithmetic of tol.                                                  *)
Fraction == [num : Int, den : Nat \ {0}]

IsTolerance(t) ==
  t.num \in Nat /\ t.den \in Nat \ {0} /\ t.is_relative \in BOOLEAN /\ t.warn \in Seq(Nat)

\* Products by one natural number keep the order.
LEMMA ProductOrder ==
  ASSUME NEW p \in Nat, NEW v \in Nat, NEW w \in Nat, v <= w
  PROVE  v * p \in Nat /\ w * p \in Nat /\ v * p <= w * p
<1>1. PICK d \in Nat : w = v + d
  <2>1. w - v \in Nat /\ w = v + (w - v)
    OBVIOUS
  <2> QED BY <2>1
<1>2. w * p = v * p + d * p
  BY <1>1
<1>3. d * p \in Nat /\ v * p \in Nat /\ w * p \in Nat
  OBVIOUS
<1> QED BY <1>2, <1>3

\* A wider band holds all that a narrower one does.
LEMMA WithinWidens ==
  ASSUME NEW b \in Fraction, NEW c \in Fraction, NEW t, IsTolerance(t), NEW n \in Nat,
         NEW v \in Nat, NEW w \in Nat, v <= w, Within(n, b, c, t, v)
  PROVE  Within(n, b, c, t, w)
<1> DEFINE delta == Magnitude(c.num * b.den - b.num * c.den)
           p == n * Magnitude(b.num) * c.den
           q == n * b.den * c.den
<1>0. b.num \in Int /\ b.den \in Nat /\ c.num \in Int /\ c.den \in Nat
  BY DEF Fraction
<1>1. Magnitude(b.num) \in Nat
  BY <1>0 DEF Magnitude
<1>2. p \in Nat /\ q \in Nat
  BY <1>0, <1>1
<1>3. delta \in Nat
  <2>1. c.num * b.den - b.num * c.den \in Int
    BY <1>0
  <2> QED BY <2>1 DEF Magnitude
<1>4. delta * t.den \in Int /\ delta * t.den * 100 \in Int
  BY <1>3 DEF IsTolerance
<1>5. \A u \in Nat : n * u * Magnitude(b.num) * c.den = u * p /\ n * u * b.den * c.den = u * q
  BY <1>0, <1>1
<1> HIDE DEF delta, p, q
<1>6. v * p <= w * p /\ v * q <= w * q /\ v * p \in Nat /\ w * p \in Nat /\ v * q \in Nat /\ w * q \in Nat
  BY <1>2, ProductOrder
<1>7. \A u \in Nat : Within(n, b, c, t, u) <=>
        IF t.is_relative THEN delta * t.den * 100 <= u * p ELSE delta * t.den <= u * q
  BY <1>5 DEF Within, delta
<1> QED BY <1>4, <1>6, <1>7

\* So a wider band is no stricter, in either form of the tolerance.
LEMMA ZoneWidens ==
  ASSUME NEW b \in Fraction, NEW c \in Fraction, NEW t, IsTolerance(t), NEW severity,
         NEW v \in Nat, NEW w \in Nat, v <= w
  PROVE  Strictness(ZoneStatus(b, c, severity, t, w)) <= Strictness(ZoneStatus(b, c, severity, t, v))
<1>1. Within(t.num, b, c, t, v) => Within(t.num, b, c, t, w)
  BY WithinWidens DEF IsTolerance
<1>2. t.warn # <<>> => t.warn[1] \in Nat
  BY DEF IsTolerance
<1>3. t.warn # <<>> /\ Within(t.warn[1], b, c, t, v) => Within(t.warn[1], b, c, t, w)
  BY <1>2, WithinWidens
<1>4. Escalate(severity) \in {"fail", "warn", "info"}
  BY DEF Escalate
<1> QED
  BY <1>1, <1>3, <1>4 DEF ZoneStatus, Strictness

\* A basis is a fraction whenever both measurements are of numbers.
LEMMA BasisIsFraction ==
  ASSUME NEW m, NEW other, Measurable(m), HasMagnitude(m.value)
  PROVE  Basis(m, other) \in Fraction
<1>1. m.value.num \in Int /\ m.value.den \in Nat \ {0}
  BY DEF Measurable
<1>2. ASSUME m.adjusted # <<>>
      PROVE  /\ m.adjusted[1] \in Int
             /\ Len(m.adjusted) = 2 => m.adjusted[2] \in Nat \ {0}
  BY <1>2 DEF Measurable
<1> QED
  BY <1>1, <1>2 DEF Basis, Fraction

\* Taking the baseline for an estimate does not make tol stricter.
LEMMA TolEstimated ==
  ASSUME NEW b, NEW c, NEW severity, NEW t, IsTolerance(t), Measurable(b), Measurable(c),
         EstimatedFactor \in Nat \ {0}
  PROVE  Strictness(CompareTol([b EXCEPT !.estimated = TRUE], c, severity, t).status)
           <= Strictness(CompareTol(b, c, severity, t).status)
<1> DEFINE e == [b EXCEPT !.estimated = TRUE]
           x == Basis(b, c)
           y == Basis(c, b)
           narrow == IF b.estimated \/ c.estimated THEN EstimatedFactor ELSE 1
<1>1. /\ e.value = b.value /\ e.adjusted = b.adjusted /\ e.end_delta = b.end_delta
      /\ e.ceiling = b.ceiling /\ e.estimated
  BY DEF Measurable
<1> HIDE DEF e
<1>2. Basis(e, c) = x /\ Basis(c, e) = y
  BY <1>1 DEF Basis
<1>3. /\ GatedByEndDelta(e, c) <=> GatedByEndDelta(b, c)
      /\ EndDeltaMoved(e, c) = EndDeltaMoved(b, c)
      /\ CrossesCeiling(e, c, x, y) <=> CrossesCeiling(b, c, x, y)
  BY <1>1 DEF GatedByEndDelta, EndDeltaMoved, CrossesCeiling
<1>4. CASE ~HasMagnitude(b.value) \/ ~HasMagnitude(c.value)
  BY <1>1, <1>4 DEF CompareTol, Aborts, Judged, Strictness
<1>5. CASE /\ HasMagnitude(b.value) /\ HasMagnitude(c.value)
           /\ GatedByEndDelta(b, c) /\ ~Representable(EndDeltaMoved(b, c))
  BY <1>1, <1>3, <1>5 DEF CompareTol, Judged, Strictness
<1>6. CASE /\ HasMagnitude(b.value) /\ HasMagnitude(c.value)
           /\ ~(GatedByEndDelta(b, c) /\ ~Representable(EndDeltaMoved(b, c)))
  <2>1. x \in Fraction /\ y \in Fraction
    BY <1>6, BasisIsFraction
  <2>2. narrow \in Nat /\ narrow <= EstimatedFactor
    OBVIOUS
  <2> HIDE DEF narrow, x, y
  <2>3. Strictness(ZoneStatus(x, y, severity, t, EstimatedFactor))
          <= Strictness(ZoneStatus(x, y, severity, t, narrow))
    BY <2>1, <2>2, ZoneWidens
  <2>4. CompareTol(b, c, severity, t).status =
          IF CrossesCeiling(b, c, x, y) THEN "fail"
          ELSE IF GatedByEndDelta(b, c) /\ Magnitude(EndDeltaMoved(b, c)) < EndDeltaEpsilon
            THEN "pass"
          ELSE ZoneStatus(x, y, severity, t, narrow)
    BY <1>6 DEF CompareTol, Judged, x, y, narrow
  <2>5. CompareTol(e, c, severity, t).status =
          IF CrossesCeiling(b, c, x, y) THEN "fail"
          ELSE IF GatedByEndDelta(b, c) /\ Magnitude(EndDeltaMoved(b, c)) < EndDeltaEpsilon
            THEN "pass"
          ELSE ZoneStatus(x, y, severity, t, EstimatedFactor)
    BY <1>1, <1>2, <1>3, <1>6 DEF CompareTol, Judged
  <2>6. Strictness("fail") <= Strictness("fail") /\ Strictness("pass") <= Strictness("pass")
    BY DEF Strictness
  <2> QED BY <2>3, <2>4, <2>5, <2>6 DEF e
<1> QED
  BY <1>4, <1>5, <1>6 DEF e

-------------------------------------------------------------------------------
(* What is reported.                                                       *)

\* A finding of two comparable measurements has the comparator's status and its
\* divergent ranges, and the comparator had no error.
ReportedAsCompared ==
  \A f \in JudgedFindings :
    LET outcome == Rejudged(f, Baseline(f), Candidate(f))
    IN  f.status = outcome.status /\ f.divergence = outcome.divergence /\ outcome.error = "none"

WorldReported == world \in Worlds /\ ReportedAsCompared

PromisesIInv == EngineIInv /\ WorldReported

\* A step that adds no finding keeps each of them as its comparator has it.
LEMMA QuietReport ==
  ASSUME ReportedAsCompared, UNCHANGED world, findings' = findings \/ findings' = <<>>
  PROVE  ReportedAsCompared'
<1>1. CASE findings' = <<>>
  BY <1>1 DEF ReportedAsCompared, JudgedFindings
<1>2. CASE findings' = findings
  <2>1. \A k : Comparable(k)' <=> Comparable(k)
    BY DEF Comparable, Paired, Demoted, CrossContainer
  <2>2. ASSUME NEW f \in JudgedFindings' PROVE f \in JudgedFindings
    BY <1>2, <2>1, <2>2 DEF JudgedFindings, Baseline, Candidate
  <2> QED
    BY <2>2 DEF ReportedAsCompared, Rejudged, Baseline, Candidate
<1> QED BY <1>1, <1>2

\* A finding that is emitted as its comparator has it keeps the report true.
LEMMA EmitReport ==
  ASSUME NEW key \in Keys(world), NEW severity, NEW outcome,
         EngineIInv, ReportedAsCompared, Emit(key, severity, outcome),
         LET b == Measured(world.baseline, key)
             c == Measured(world.candidate, key)
         IN  Comparable(key) /\ OfKind(b, key) /\ OfKind(c, key) =>
               /\ outcome = Compare(key[1], b, c, severity, world.profile, world.expectation)
               /\ outcome.error = "none"
  PROVE  ReportedAsCompared'
<1> DEFINE g == [key |-> key, severity |-> severity, status |-> outcome.status,
                 skip |-> outcome.skip, divergence |-> outcome.divergence]
<1>1. UNCHANGED world /\ findings' = Append(findings, g)
  BY DEF Emit
<1>2. /\ g.key = key /\ g.severity = severity
      /\ g.status = outcome.status /\ g.divergence = outcome.divergence
  OBVIOUS
<1> HIDE DEF g
<1>3. findings \in Seq(Range(findings))
  BY DEF EngineIInv, EngineInv, EngineTypeOK
<1>4. {findings'[i] : i \in DOMAIN findings'} \subseteq
        {findings[i] : i \in DOMAIN findings} \cup {g}
  BY <1>1, <1>3
<1>5. \A k : Comparable(k)' <=> Comparable(k)
  BY <1>1 DEF Comparable, Paired, Demoted, CrossContainer
<1>6. ASSUME NEW f \in JudgedFindings'
      PROVE  LET verdict == Compare(f.key[1], Measured(world.baseline, f.key),
                                    Measured(world.candidate, f.key), f.severity,
                                    world.profile, world.expectation)
             IN  f.status = verdict.status /\ f.divergence = verdict.divergence /\ verdict.error = "none"
  <2>1. /\ f \in {findings'[i] : i \in DOMAIN findings'}
        /\ Comparable(f.key)
        /\ OfKind(Measured(world.baseline, f.key), f.key)
        /\ OfKind(Measured(world.candidate, f.key), f.key)
    BY <1>1, <1>5, <1>6 DEF JudgedFindings, Baseline, Candidate
  <2>2. CASE f = g
    BY <1>2, <2>1, <2>2
  <2>3. CASE f # g
    <3>1. f \in JudgedFindings
      BY <1>4, <2>1, <2>3 DEF JudgedFindings, Baseline, Candidate
    <3> QED BY <3>1 DEF ReportedAsCompared, Rejudged, Baseline, Candidate
  <2> QED BY <2>2, <2>3
<1> QED
  BY <1>1, <1>6 DEF ReportedAsCompared, Rejudged, Baseline, Candidate

\* Each way out of the loop body emits what the comparator says, or no comparison.
LEMMA PairReport ==
  ASSUME NEW key \in Keys(world), EngineIInv, ReportedAsCompared, Pair(key)
  PROVE  ReportedAsCompared'
<1>1. CASE Demote(key)
  BY <1>1, EmitReport DEF Demote, Comparable
<1>2. CASE ProgramOfOneSide(key)
  BY <1>2, EmitReport DEF ProgramOfOneSide, Comparable
<1>3. CASE PassOver(key) \/ Abort(key)
  BY <1>3, QuietReport DEF PassOver, Abort
<1>4. CASE Skip(key)
  BY <1>4, EmitReport DEF Skip, Comparable
<1>5. CASE KindMismatch(key)
  BY <1>5, EmitReport DEF KindMismatch
<1>6. CASE Judge(key)
  BY <1>6, EmitReport DEF Judge, Verdict
<1> QED
  BY <1>1, <1>2, <1>3, <1>4, <1>5, <1>6 DEF Pair

\* `compare_fingerprints`: a finding on two comparable measurements is what the
\* comparator of its check's semantic returns for them, at the severity it carries.
THEOREM PromisesInvariant == EngineSpec => []PromisesIInv
<1>1. EngineInit => WorldReported
  BY DEF EngineInit, WorldReported, ReportedAsCompared, JudgedFindings
<1>2. EngineIInv /\ WorldReported /\ [EngineNext]_vars => WorldReported'
  <2> SUFFICES ASSUME EngineIInv, WorldReported, [EngineNext]_vars
               PROVE  world' \in Worlds /\ ReportedAsCompared'
    BY DEF WorldReported
  <2> USE DEF WorldReported
  <2>1. CASE Resolve \/ Return
    BY <2>1, QuietReport DEF Resolve, Return
  <2>2. CASE \E key \in Keys(world) : Pair(key)
    <3>1. UNCHANGED world
      BY <2>2 DEF Pair, Demote, ProgramOfOneSide, PassOver, Skip, KindMismatch, Judge, Abort, Emit
    <3> QED BY <2>2, <3>1, PairReport
  <2>3. CASE UNCHANGED vars
    BY <2>3, QuietReport DEF vars
  <2> QED BY <2>1, <2>2, <2>3 DEF EngineNext
<1> QED
  BY <1>1, <1>2, EngineInvariant, PTL DEF EngineSpec, PromisesIInv

\* An estimate is judged no more strictly than a measurement, whatever the numbers,
\* the tolerance and its form, and the policy (tol.cpp:432).
THEOREM EstimatesLenient == EngineSpec => []EstimatesAreJudgedLeniently
<1>1. ASSUME PromisesIInv PROVE EstimatesAreJudgedLeniently
  <2> SUFFICES ASSUME NEW f \in JudgedFindings, CheckOf(f).semantic = "tol"
               PROVE  Strictness(Rejudged(f, [Baseline(f) EXCEPT !.estimated = TRUE],
                                          Candidate(f)).status)
                        <= Strictness(f.status)
    BY DEF EstimatesAreJudgedLeniently
  <2> DEFINE t == ToleranceFor(CheckOf(f), world.profile)
  <2>1. /\ f.status = Rejudged(f, Baseline(f), Candidate(f)).status
        /\ world \in Worlds
    BY <1>1 DEF PromisesIInv, WorldReported, ReportedAsCompared
  <2>2. f.key[1] \in Checks
    BY <1>1 DEF JudgedFindings, PromisesIInv, EngineIInv, EngineInv, EngineTypeOK
  <2>3. IsTolerance(t)
    BY <2>1, <2>2, PromisesAssumption DEF IsTolerance, Tolerances, CheckOf
  <2>4. f.key \in KeysOf(world.baseline) /\ f.key \in KeysOf(world.candidate)
    BY DEF JudgedFindings, Comparable, Paired
  <2>5. Measurable(Baseline(f)) /\ Measurable(Candidate(f))
    BY <2>1, <2>4, PromisesAssumption DEF Baseline, Candidate
  <2>6. \A b, c : Rejudged(f, b, c) = CompareTol(b, c, f.severity, t)
    BY DEF Rejudged, Compare, CheckOf
  <2> HIDE DEF t
  <2> QED
    BY <2>1, <2>3, <2>5, <2>6, TolEstimated, PromisesAssumption
<1> QED
  BY <1>1, PromisesInvariant, PTL
-------------------------------------------------------------------------------
(* Two files that change places.                                           *)
LEMMA MagnitudeSwaps ==
  ASSUME NEW m \in Int, NEW n \in Int PROVE Magnitude(m - n) = Magnitude(n - m)
BY DEF Magnitude

\* The counts of a histogram add up to a count.
IsHistogram(bins) == IsFiniteSet(DOMAIN bins) /\ \A name \in DOMAIN bins : bins[name] \in Nat

\* `TotalOf` is a recursive function over the subsets of the bins' names.
LEMMA TotalRuns ==
  ASSUME NEW bins, IsHistogram(bins)
  PROVE  \E fold, pick :
           /\ IsPick(pick, DOMAIN bins)
           /\ \A s \in SUBSET DOMAIN bins : pick[s] = CHOOSE x \in s : TRUE
           /\ fold \in [SUBSET DOMAIN bins -> Nat]
           /\ fold[{}] = 0
           /\ \A s \in SUBSET DOMAIN bins :
                s # {} => fold[s] = bins[pick[s]] + fold[s \ {pick[s]}]
           /\ TotalOf(bins) = fold[DOMAIN bins]
<1> DEFINE S == DOMAIN bins
           Folds(iter) == iter = [s \in SUBSET S |->
                                 IF s = {} THEN 0
                                 ELSE bins[CHOOSE x \in s : TRUE] + iter[s \ {CHOOSE x \in s : TRUE}]]
           fold == CHOOSE iter : Folds(iter)
           pick == [s \in SUBSET S |-> CHOOSE x \in s : TRUE]
           step == [p \in Nat \X S |-> bins[p[2]] + p[1]]
<1>0. IsFiniteSet(S) /\ \A x \in S : bins[x] \in Nat
  BY DEF IsHistogram
<1>1. IsPick(pick, S) /\ \A s \in SUBSET S : pick[s] = CHOOSE x \in s : TRUE
  BY DEF IsPick
<1>2. step \in [Nat \X S -> Nat] /\ \A a \in Nat, x \in S : step[<<a, x>>] = bins[x] + a
  BY <1>0
<1>3. TotalOf(bins) = fold[S]
  BY Zenon DEF TotalOf, FoldFunction, FoldFunctionOnSet, MapThenFoldSet
<1> HIDE DEF pick, step, S
<1>4. Folds(fold)
  <2> HIDE DEF Folds, fold
  <2>1. PICK g : IsSetFold(g, Nat, 0, S, pick, step)
    BY <1>0, <1>1, <1>2, SetFoldExists
  <2>2. ASSUME NEW s \in SUBSET S, s # {}
        PROVE  g[s] = bins[CHOOSE x \in s : TRUE] + g[s \ {CHOOSE x \in s : TRUE}]
    <3>1. pick[s] \in S /\ s \ {pick[s]} \in SUBSET S
      BY <1>1, <2>2 DEF IsPick
    <3>2. g[s \ {pick[s]}] \in Nat
      BY <2>1, <3>1 DEF IsSetFold
    <3>3. g[s] = step[<<g[s \ {pick[s]}], pick[s]>>]
      BY <2>1, <2>2 DEF IsSetFold
    <3>4. step[<<g[s \ {pick[s]}], pick[s]>>] = bins[pick[s]] + g[s \ {pick[s]}]
      BY <1>2, <3>1, <3>2
    <3>5. pick[s] = CHOOSE x \in s : TRUE
      BY <1>1
    <3> QED BY <3>3, <3>4, <3>5
  <2>3. Folds(g)
    BY <2>1, <2>2 DEF Folds, IsSetFold
  <2> QED BY <2>3 DEF fold
<1> HIDE DEF fold
<1>5. /\ fold \in [SUBSET S -> {fold[s] : s \in SUBSET S}]
      /\ fold[{}] = 0
      /\ \A s \in SUBSET S : s # {} => fold[s] = bins[pick[s]] + fold[s \ {pick[s]}]
  BY <1>1, <1>4
<1> HIDE DEF Folds
<1>6. ASSUME NEW s \in SUBSET S, s # {}, fold[s \ {pick[s]}] \in Nat
      PROVE  fold[s] = step[<<fold[s \ {pick[s]}], pick[s]>>]
  <2>1. pick[s] \in S
    BY <1>1, <1>6 DEF IsPick
  <2> QED BY <1>2, <1>5, <1>6, <2>1
<1>7. SetUnfolds(fold, Nat, 0, S, pick, step)
  BY <1>5, <1>6 DEF SetUnfolds
<1>8. IsSetFold(fold, Nat, 0, S, pick, step)
  BY <1>0, <1>1, <1>2, <1>7, SetFoldRuns
<1>9. fold \in [SUBSET S -> Nat]
  BY <1>8 DEF IsSetFold
<1> QED BY <1>1, <1>3, <1>5, <1>9 DEF S

\* A total is a count, and a divisor never zero (`dist.cpp` takes one for none).
LEMMA ProportionTotalIsCount ==
  ASSUME NEW bins, IsHistogram(bins)
  PROVE  TotalOf(bins) \in Nat /\ ProportionTotal(bins) \in Nat \ {0}
<1>1. TotalOf(bins) \in Nat
  <2>1. PICK fold : fold \in [SUBSET DOMAIN bins -> Nat] /\ TotalOf(bins) = fold[DOMAIN bins]
    BY TotalRuns
  <2> QED BY <2>1
<1> QED BY <1>1 DEF ProportionTotal

\* The bins' differences change no size when the sides are exchanged.
LEMMA DifferencesSwap ==
  ASSUME NEW b, NEW c, IsHistogram(b), IsHistogram(c)
  PROVE  Differences(b, c) = Differences(c, b)
<1> DEFINE B == ProportionTotal(b)
           C == ProportionTotal(c)
<1>1. B \in Nat /\ C \in Nat
  BY ProportionTotalIsCount
<1> HIDE DEF B, C
<1>2. ASSUME NEW name
      PROVE  BinDifference(BinCount(b, name), B, BinCount(c, name), C)
               = BinDifference(BinCount(c, name), C, BinCount(b, name), B)
  <2> DEFINE x == BinCount(b, name)
             y == BinCount(c, name)
  <2>1. x \in Nat /\ y \in Nat
    BY DEF BinCount, IsHistogram
  <2> HIDE DEF x, y
  <2>2. Magnitude(x * C - y * B) = Magnitude(y * B - x * C) /\ B * C = C * B
    <3>1. x * C \in Int /\ y * B \in Int
      BY <1>1, <2>1
    <3> QED BY <1>1, <3>1, MagnitudeSwaps
  <2>3. BinDifference(x, B, y, C) = BinDifference(y, C, x, B)
    BY <2>2 DEF BinDifference
  <2> QED BY <2>3 DEF x, y
<1>3. DOMAIN b \cup DOMAIN c = DOMAIN c \cup DOMAIN b
  OBVIOUS
<1> QED BY <1>2, <1>3 DEF Differences, B, C

\* Histograms are judged the same in either direction.
LEMMA DistSwaps ==
  ASSUME NEW b, NEW c, NEW severity, NEW t, IsHistogram(Bins(b.value)), IsHistogram(Bins(c.value))
  PROVE  CompareDist(b, c, severity, t) = CompareDist(c, b, severity, t)
<1>1. Differences(Bins(b.value), Bins(c.value)) = Differences(Bins(c.value), Bins(b.value))
  BY DifferencesSwap
<1> QED BY <1>1 DEF CompareDist

\* An absolute tolerance holds in either direction, and no ceiling is crossed
\* where the candidate has none.
LEMMA WithinSwaps ==
  ASSUME NEW x \in Fraction, NEW y \in Fraction, NEW t, IsTolerance(t), ~t.is_relative,
         NEW n \in Nat, NEW w \in Nat
  PROVE  Within(n, x, y, t, w) <=> Within(n, y, x, t, w)
<1>0. x.num \in Int /\ x.den \in Nat /\ y.num \in Int /\ y.den \in Nat
  BY DEF Fraction
<1>1. Magnitude(y.num * x.den - x.num * y.den) = Magnitude(x.num * y.den - y.num * x.den)
  <2>1. y.num * x.den \in Int /\ x.num * y.den \in Int
    BY <1>0
  <2> QED BY <2>1, MagnitudeSwaps
<1>2. n * w * x.den * y.den = n * w * y.den * x.den
  <2>1. n * w \in Nat
    OBVIOUS
  <2> QED BY <1>0, <2>1
<1> QED BY <1>1, <1>2 DEF Within

\* Within an absolute tolerance numbers are judged the same in either direction.
LEMMA TolSwaps ==
  ASSUME NEW b, NEW c, NEW severity, NEW t, IsTolerance(t), ~t.is_relative,
         Measurable(b), Measurable(c), c.ceiling = "none",
         EstimatedFactor \in Nat \ {0}, MaxInt \in Nat
  PROVE  CompareTol(c, b, severity, t).status = CompareTol(b, c, severity, t).status
<1> DEFINE x == Basis(b, c)
           y == Basis(c, b)
           widening == IF b.estimated \/ c.estimated THEN EstimatedFactor ELSE 1
           moved == EndDeltaMoved(b, c)
           back == EndDeltaMoved(c, b)
<1>1. GatedByEndDelta(b, c) <=> GatedByEndDelta(c, b)
  BY DEF GatedByEndDelta
<1>2. ASSUME GatedByEndDelta(b, c)
      PROVE  /\ Representable(moved) <=> Representable(back)
             /\ Magnitude(moved) = Magnitude(back)
  <2>1. b.end_delta[1] \in Int /\ c.end_delta[1] \in Int
    BY <1>2 DEF GatedByEndDelta, Measurable
  <2>2. moved \in Int /\ back = -moved
    BY <2>1 DEF EndDeltaMoved
  <2> HIDE DEF moved, back
  <2> QED BY <2>2 DEF Representable, Magnitude
<1>3. ~CrossesCeiling(b, c, x, y) /\ ~CrossesCeiling(c, b, y, x)
  BY DEF CrossesCeiling
<1>4. widening = IF c.estimated \/ b.estimated THEN EstimatedFactor ELSE 1
  OBVIOUS
<1>5. CASE ~HasMagnitude(b.value) \/ ~HasMagnitude(c.value)
  BY <1>5 DEF CompareTol
<1>6. CASE HasMagnitude(b.value) /\ HasMagnitude(c.value)
  <2>1. x \in Fraction /\ y \in Fraction /\ widening \in Nat
    BY <1>6, BasisIsFraction
  <2> HIDE DEF x, y, widening, moved, back
  <2>2. ZoneStatus(x, y, severity, t, widening) = ZoneStatus(y, x, severity, t, widening)
    <3>1. Within(t.num, x, y, t, widening) <=> Within(t.num, y, x, t, widening)
      BY <2>1, WithinSwaps DEF IsTolerance
    <3>2. ASSUME t.warn # <<>>
          PROVE  Within(t.warn[1], x, y, t, widening) <=> Within(t.warn[1], y, x, t, widening)
      <4>1. t.warn[1] \in Nat
        BY <3>2 DEF IsTolerance
      <4> QED BY <2>1, <4>1, WithinSwaps
    <3> QED BY <3>1, <3>2 DEF ZoneStatus
  <2>3. CompareTol(b, c, severity, t).status =
          IF GatedByEndDelta(b, c) /\ ~Representable(moved) THEN "error"
          ELSE IF GatedByEndDelta(b, c) /\ Magnitude(moved) < EndDeltaEpsilon THEN "pass"
          ELSE ZoneStatus(x, y, severity, t, widening)
    BY <1>3, <1>6 DEF CompareTol, Judged, x, y, widening, moved
  <2>4. CompareTol(c, b, severity, t).status =
          IF GatedByEndDelta(c, b) /\ ~Representable(back) THEN "error"
          ELSE IF GatedByEndDelta(c, b) /\ Magnitude(back) < EndDeltaEpsilon THEN "pass"
          ELSE ZoneStatus(y, x, severity, t, widening)
    BY <1>3, <1>4, <1>6 DEF CompareTol, Judged, x, y, widening, back
  <2> QED BY <1>1, <1>2, <2>2, <2>3, <2>4
<1> QED BY <1>5, <1>6

\* A comparison of two comparable measurements whose semantic has no direction.
LEMMA UndirectedSwaps ==
  ASSUME PromisesIInv, NEW f \in JudgedFindings, Undirected(f)
  PROVE  Rejudged(f, Candidate(f), Baseline(f)).status = Rejudged(f, Baseline(f), Candidate(f)).status
<1> DEFINE b == Baseline(f)
           c == Candidate(f)
           check == CheckOf(f)
           t == ToleranceFor(check, world.profile)
<1>1. world \in Worlds
  BY DEF PromisesIInv, WorldReported
<1>2. f.key[1] \in Checks
  BY DEF JudgedFindings, PromisesIInv, EngineIInv, EngineInv, EngineTypeOK
<1>3. IsTolerance(t)
  BY <1>1, <1>2, PromisesAssumption DEF IsTolerance, Tolerances, CheckOf
<1>4. f.key \in KeysOf(world.baseline) /\ f.key \in KeysOf(world.candidate)
  BY DEF JudgedFindings, Comparable, Paired
<1>5. Measurable(b) /\ Measurable(c)
  BY <1>1, <1>4, PromisesAssumption DEF Baseline, Candidate
<1>6. IsHistogram(Bins(b.value)) /\ IsHistogram(Bins(c.value))
  BY <1>5 DEF Measurable, IsHistogram
<1>7. EstimatedFactor \in Nat \ {0} /\ MaxInt \in Nat
  BY PromisesAssumption
<1> HIDE DEF b, c, t, check
<1>8. \A x, y : Rejudged(f, x, y) =
        Compare(f.key[1], x, y, f.severity, world.profile, world.expectation)
  BY DEF Rejudged
<1> DEFINE Said(x, y) == Rejudged(f, x, y).status
<1>9. CASE check.semantic = "exact" /\ ~Expecting(f)
  <2>1. \A x, y : Rejudged(f, x, y) =
          IF x.value = y.value THEN Judged("pass") ELSE Judged(Escalate(f.severity))
    BY <1>8, <1>9 DEF Compare, CompareExact, CheckOf, Expecting, check
  <2> QED BY <2>1 DEF b, c
<1>10. CASE check.semantic = "set"
  <2>1. \A x, y : Rejudged(f, x, y) = CompareSet(x, y, f.severity)
    BY <1>8, <1>10 DEF Compare, CheckOf, check
  <2> QED BY <2>1 DEF CompareSet, b, c
<1>11. CASE check.semantic = "presence"
  <2>1. \A x, y : Rejudged(f, x, y) = ComparePresence(x, y, f.severity)
    BY <1>8, <1>11 DEF Compare, CheckOf, check
  <2> QED BY <2>1 DEF ComparePresence, b, c
<1>12. CASE check.semantic = "state"
  <2>1. \A x, y : Rejudged(f, x, y) = CompareState(check, x, y, f.severity)
    BY <1>8, <1>12 DEF Compare, CheckOf, check
  <2> QED BY <2>1 DEF CompareState, b, c
<1>13. CASE check.semantic = "hash"
  <2>1. \A x, y : Rejudged(f, x, y) = CompareHash(x, y, f.severity)
    BY <1>8, <1>13 DEF Compare, CheckOf, check
  <2>2. CompareHash(b, c, f.severity).status = CompareHash(c, b, f.severity).status
    BY DEF CompareHash, Judged, Skips
  <2> QED BY <2>1, <2>2 DEF b, c
<1>14. CASE check.semantic = "dist"
  <2>1. \A x, y : Rejudged(f, x, y) = CompareDist(x, y, f.severity, t)
    BY <1>8, <1>14 DEF Compare, CheckOf, check, t
  <2>2. CompareDist(b, c, f.severity, t) = CompareDist(c, b, f.severity, t)
    BY <1>6, DistSwaps
  <2> QED BY <2>1, <2>2 DEF b, c
<1>15. CASE check.semantic = "tol" /\ ~t.is_relative /\ c.ceiling = "none"
  <2>1. \A x, y : Rejudged(f, x, y) = CompareTol(x, y, f.severity, t)
    BY <1>8, <1>15 DEF Compare, CheckOf, check, t
  <2>2. CompareTol(c, b, f.severity, t).status = CompareTol(b, c, f.severity, t).status
    BY <1>3, <1>5, <1>7, <1>15, TolSwaps
  <2> QED BY <2>1, <2>2 DEF b, c
<1> QED
  BY <1>9, <1>10, <1>11, <1>12, <1>13, <1>14, <1>15 DEF Undirected, check, t, c

\* Where a semantic speaks of a difference and not of a direction, the status of a
\* finding is that of the same two files the other way round: for any histograms,
\* chains, sets and texts, and for tol with an absolute tolerance and no ceiling,
\* estimates, adjusted bases and end deltas included (dist.cpp:126, tol.cpp:437).
THEOREM DifferencesUndirected == EngineSpec => []DifferencesHaveNoDirection
<1>1. ASSUME PromisesIInv PROVE DifferencesHaveNoDirection
  <2> SUFFICES ASSUME NEW f \in JudgedFindings, Undirected(f)
               PROVE  Rejudged(f, Candidate(f), Baseline(f)).status = f.status
    BY DEF DifferencesHaveNoDirection
  <2>1. f.status = Rejudged(f, Baseline(f), Candidate(f)).status
    BY <1>1 DEF PromisesIInv, WorldReported, ReportedAsCompared
  <2> QED BY <1>1, <2>1, UndirectedSwaps
<1> QED
  BY <1>1, PromisesInvariant, PTL

-------------------------------------------------------------------------------
(* Folds over rules, blocks and overrides stay in a set that their steps   *)
(* stay in.                                                                *)
LEMMA SeveritiesStay ==
  ASSUME NEW A, NEW base \in A, NEW S, NEW list \in Seq(S),
         \A p \in A, k \in DOMAIN list : WriteConfigSeverity(p, list[k]) \in A
  PROVE  WriteSeverities(base, list) \in A
<1> DEFINE n == Len(list)
           Step(p, x) == WriteConfigSeverity(p, x)
           Folds(iter) == iter = [s \in SUBSET DOMAIN list |->
                                 IF s = {} THEN base ELSE Step(iter[s \ {Max(s)}], list[Max(s)])]
           fold == CHOOSE iter : Folds(iter)
           step == [p \in A \X (1..n) |-> Step(p[1], list[p[2]])]
<1>0. n \in Nat /\ DOMAIN list = 1..n
  OBVIOUS
<1>1. WriteSeverities(base, list) = fold[DOMAIN list]
  BY Zenon DEF WriteSeverities, FoldLeft, MapThenFoldSet
<1>2. \A p \in A, k \in 1..n : Step(p, list[k]) \in A
  BY <1>0
<1> HIDE DEF Step
<1>3. step \in [A \X (1..n) -> A] /\ \A p \in A, k \in 1..n : step[<<p, k>>] = Step(p, list[k])
  BY <1>2
<1> HIDE DEF step, n
<1>4. Folds(fold)
  <2> HIDE DEF Folds, fold
  <2>1. PICK g : IsFold(g, A, base, n, step)
    BY <1>0, <1>3, FoldExists
  <2>2. ASSUME NEW s \in SUBSET (1..n), s # {}
        PROVE  g[s] = Step(g[s \ {Max(s)}], list[Max(s)])
    <3>1. Max(s) \in 1..n /\ g[s \ {Max(s)}] \in A
      BY <2>1, <2>2 DEF IsFold
    <3> QED BY <1>3, <2>1, <2>2, <3>1 DEF IsFold
  <2>3. Folds(g)
    BY <1>0, <2>1, <2>2 DEF Folds, IsFold
  <2> QED BY <2>3 DEF fold
<1> HIDE DEF fold
<1>5. /\ fold[{}] = base
      /\ \A s \in SUBSET (1..n) : s # {} => fold[s] = Step(fold[s \ {Max(s)}], list[Max(s)])
  BY <1>0, <1>4
<1> HIDE DEF Folds
<1>6. Unfolds(fold, A, base, n, step)
  <2>1. ASSUME NEW s \in SUBSET (1..n), s # {}, fold[s \ {Max(s)}] \in A
        PROVE  fold[s] = step[<<fold[s \ {Max(s)}], Max(s)>>]
    <3>1. Max(s) \in 1..n
      BY <1>0, <2>1, MaxOfPositions
    <3> QED BY <1>3, <1>5, <2>1, <3>1
  <2> QED BY <1>5, <2>1 DEF Unfolds
<1>7. fold[1..n] \in A
  BY <1>0, <1>3, <1>6, FoldStays
<1> QED BY <1>0, <1>1, <1>7

\* What every tolerance rule of a table keeps, the table keeps.
LEMMA TolerancesStay ==
  ASSUME NEW A, NEW base \in A, NEW S, NEW list \in Seq(S),
         \A p \in A, k \in DOMAIN list : WriteTolerance(p, list[k]) \in A
  PROVE  WriteTolerances(base, list) \in A
<1> DEFINE n == Len(list)
           Step(p, x) == WriteTolerance(p, x)
           Folds(iter) == iter = [s \in SUBSET DOMAIN list |->
                                 IF s = {} THEN base ELSE Step(iter[s \ {Max(s)}], list[Max(s)])]
           fold == CHOOSE iter : Folds(iter)
           step == [p \in A \X (1..n) |-> Step(p[1], list[p[2]])]
<1>0. n \in Nat /\ DOMAIN list = 1..n
  OBVIOUS
<1>1. WriteTolerances(base, list) = fold[DOMAIN list]
  BY Zenon DEF WriteTolerances, FoldLeft, MapThenFoldSet
<1>2. \A p \in A, k \in 1..n : Step(p, list[k]) \in A
  BY <1>0
<1> HIDE DEF Step
<1>3. step \in [A \X (1..n) -> A] /\ \A p \in A, k \in 1..n : step[<<p, k>>] = Step(p, list[k])
  BY <1>2
<1> HIDE DEF step, n
<1>4. Folds(fold)
  <2> HIDE DEF Folds, fold
  <2>1. PICK g : IsFold(g, A, base, n, step)
    BY <1>0, <1>3, FoldExists
  <2>2. ASSUME NEW s \in SUBSET (1..n), s # {}
        PROVE  g[s] = Step(g[s \ {Max(s)}], list[Max(s)])
    <3>1. Max(s) \in 1..n /\ g[s \ {Max(s)}] \in A
      BY <2>1, <2>2 DEF IsFold
    <3> QED BY <1>3, <2>1, <2>2, <3>1 DEF IsFold
  <2>3. Folds(g)
    BY <1>0, <2>1, <2>2 DEF Folds, IsFold
  <2> QED BY <2>3 DEF fold
<1> HIDE DEF fold
<1>5. /\ fold[{}] = base
      /\ \A s \in SUBSET (1..n) : s # {} => fold[s] = Step(fold[s \ {Max(s)}], list[Max(s)])
  BY <1>0, <1>4
<1> HIDE DEF Folds
<1>6. Unfolds(fold, A, base, n, step)
  <2>1. ASSUME NEW s \in SUBSET (1..n), s # {}, fold[s \ {Max(s)}] \in A
        PROVE  fold[s] = step[<<fold[s \ {Max(s)}], Max(s)>>]
    <3>1. Max(s) \in 1..n
      BY <1>0, <2>1, MaxOfPositions
    <3> QED BY <1>3, <1>5, <2>1, <3>1
  <2> QED BY <1>5, <2>1 DEF Unfolds
<1>7. fold[1..n] \in A
  BY <1>0, <1>3, <1>6, FoldStays
<1> QED BY <1>0, <1>1, <1>7

\* What every argument of a command line keeps, the command line keeps.
LEMMA OverridesStay ==
  ASSUME NEW A, NEW base \in A, NEW S, NEW list \in Seq(S),
         \A p \in A, k \in DOMAIN list : WriteOverride(p, list[k]) \in A
  PROVE  ApplyCli(base, list) \in A
<1> DEFINE n == Len(list)
           Step(p, x) == WriteOverride(p, x)
           Folds(iter) == iter = [s \in SUBSET DOMAIN list |->
                                 IF s = {} THEN base ELSE Step(iter[s \ {Max(s)}], list[Max(s)])]
           fold == CHOOSE iter : Folds(iter)
           step == [p \in A \X (1..n) |-> Step(p[1], list[p[2]])]
<1>0. n \in Nat /\ DOMAIN list = 1..n
  OBVIOUS
<1>1. ApplyCli(base, list) = fold[DOMAIN list]
  BY Zenon DEF ApplyCli, FoldLeft, MapThenFoldSet
<1>2. \A p \in A, k \in 1..n : Step(p, list[k]) \in A
  BY <1>0
<1> HIDE DEF Step
<1>3. step \in [A \X (1..n) -> A] /\ \A p \in A, k \in 1..n : step[<<p, k>>] = Step(p, list[k])
  BY <1>2
<1> HIDE DEF step, n
<1>4. Folds(fold)
  <2> HIDE DEF Folds, fold
  <2>1. PICK g : IsFold(g, A, base, n, step)
    BY <1>0, <1>3, FoldExists
  <2>2. ASSUME NEW s \in SUBSET (1..n), s # {}
        PROVE  g[s] = Step(g[s \ {Max(s)}], list[Max(s)])
    <3>1. Max(s) \in 1..n /\ g[s \ {Max(s)}] \in A
      BY <2>1, <2>2 DEF IsFold
    <3> QED BY <1>3, <2>1, <2>2, <3>1 DEF IsFold
  <2>3. Folds(g)
    BY <1>0, <2>1, <2>2 DEF Folds, IsFold
  <2> QED BY <2>3 DEF fold
<1> HIDE DEF fold
<1>5. /\ fold[{}] = base
      /\ \A s \in SUBSET (1..n) : s # {} => fold[s] = Step(fold[s \ {Max(s)}], list[Max(s)])
  BY <1>0, <1>4
<1> HIDE DEF Folds
<1>6. Unfolds(fold, A, base, n, step)
  <2>1. ASSUME NEW s \in SUBSET (1..n), s # {}, fold[s \ {Max(s)}] \in A
        PROVE  fold[s] = step[<<fold[s \ {Max(s)}], Max(s)>>]
    <3>1. Max(s) \in 1..n
      BY <1>0, <2>1, MaxOfPositions
    <3> QED BY <1>3, <1>5, <2>1, <3>1
  <2> QED BY <1>5, <2>1 DEF Unfolds
<1>7. fold[1..n] \in A
  BY <1>0, <1>3, <1>6, FoldStays
<1> QED BY <1>0, <1>1, <1>7

\* What every override block keeps, all of them keep.
LEMMA BlocksStay ==
  ASSUME NEW A, NEW base \in A, NEW S, NEW list \in Seq(S),
         \A p \in A, k \in DOMAIN list : WriteRules(p, list[k]) \in A
  PROVE  FoldLeft(WriteRules, base, list) \in A
<1> DEFINE n == Len(list)
           Step(p, x) == WriteRules(p, x)
           Folds(iter) == iter = [s \in SUBSET DOMAIN list |->
                                 IF s = {} THEN base ELSE Step(iter[s \ {Max(s)}], list[Max(s)])]
           fold == CHOOSE iter : Folds(iter)
           step == [p \in A \X (1..n) |-> Step(p[1], list[p[2]])]
<1>0. n \in Nat /\ DOMAIN list = 1..n
  OBVIOUS
<1>1. FoldLeft(WriteRules, base, list) = fold[DOMAIN list]
  BY Zenon DEF FoldLeft, MapThenFoldSet
<1>2. \A p \in A, k \in 1..n : Step(p, list[k]) \in A
  BY <1>0
<1> HIDE DEF Step
<1>3. step \in [A \X (1..n) -> A] /\ \A p \in A, k \in 1..n : step[<<p, k>>] = Step(p, list[k])
  BY <1>2
<1> HIDE DEF step, n
<1>4. Folds(fold)
  <2> HIDE DEF Folds, fold
  <2>1. PICK g : IsFold(g, A, base, n, step)
    BY <1>0, <1>3, FoldExists
  <2>2. ASSUME NEW s \in SUBSET (1..n), s # {}
        PROVE  g[s] = Step(g[s \ {Max(s)}], list[Max(s)])
    <3>1. Max(s) \in 1..n /\ g[s \ {Max(s)}] \in A
      BY <2>1, <2>2 DEF IsFold
    <3> QED BY <1>3, <2>1, <2>2, <3>1 DEF IsFold
  <2>3. Folds(g)
    BY <1>0, <2>1, <2>2 DEF Folds, IsFold
  <2> QED BY <2>3 DEF fold
<1> HIDE DEF fold
<1>5. /\ fold[{}] = base
      /\ \A s \in SUBSET (1..n) : s # {} => fold[s] = Step(fold[s \ {Max(s)}], list[Max(s)])
  BY <1>0, <1>4
<1> HIDE DEF Folds
<1>6. Unfolds(fold, A, base, n, step)
  <2>1. ASSUME NEW s \in SUBSET (1..n), s # {}, fold[s \ {Max(s)}] \in A
        PROVE  fold[s] = step[<<fold[s \ {Max(s)}], Max(s)>>]
    <3>1. Max(s) \in 1..n
      BY <1>0, <2>1, MaxOfPositions
    <3> QED BY <1>3, <1>5, <2>1, <3>1
  <2> QED BY <1>5, <2>1 DEF Unfolds
<1>7. fold[1..n] \in A
  BY <1>0, <1>3, <1>6, FoldStays
<1> QED BY <1>0, <1>1, <1>7

\* What keeping or dropping a block preserves, the matching blocks have.
LEMMA MatchingStays ==
  ASSUME NEW A, NEW S, NEW list \in Seq(S), NEW path, <<>> \in A,
         \A p \in A, k \in DOMAIN list : KeepMatching(p, list[k], path) \in A
  PROVE  Matching(list, path) \in A
<1> DEFINE n == Len(list)
           Step(p, x) == KeepMatching(p, x, path)
           Folds(iter) == iter = [s \in SUBSET DOMAIN list |->
                                 IF s = {} THEN <<>> ELSE Step(iter[s \ {Max(s)}], list[Max(s)])]
           fold == CHOOSE iter : Folds(iter)
           step == [p \in A \X (1..n) |-> Step(p[1], list[p[2]])]
<1>0. n \in Nat /\ DOMAIN list = 1..n
  OBVIOUS
<1>1. Matching(list, path) = fold[DOMAIN list]
  BY Zenon DEF Matching, FoldLeft, MapThenFoldSet
<1>2. \A p \in A, k \in 1..n : Step(p, list[k]) \in A
  BY <1>0
<1> HIDE DEF Step
<1>3. step \in [A \X (1..n) -> A] /\ \A p \in A, k \in 1..n : step[<<p, k>>] = Step(p, list[k])
  BY <1>2
<1> HIDE DEF step, n
<1>4. Folds(fold)
  <2> HIDE DEF Folds, fold
  <2>1. PICK g : IsFold(g, A, <<>>, n, step)
    BY <1>0, <1>3, FoldExists
  <2>2. ASSUME NEW s \in SUBSET (1..n), s # {}
        PROVE  g[s] = Step(g[s \ {Max(s)}], list[Max(s)])
    <3>1. Max(s) \in 1..n /\ g[s \ {Max(s)}] \in A
      BY <2>1, <2>2 DEF IsFold
    <3> QED BY <1>3, <2>1, <2>2, <3>1 DEF IsFold
  <2>3. Folds(g)
    BY <1>0, <2>1, <2>2 DEF Folds, IsFold
  <2> QED BY <2>3 DEF fold
<1> HIDE DEF fold
<1>5. /\ fold[{}] = <<>>
      /\ \A s \in SUBSET (1..n) : s # {} => fold[s] = Step(fold[s \ {Max(s)}], list[Max(s)])
  BY <1>0, <1>4
<1> HIDE DEF Folds
<1>6. Unfolds(fold, A, <<>>, n, step)
  <2>1. ASSUME NEW s \in SUBSET (1..n), s # {}, fold[s \ {Max(s)}] \in A
        PROVE  fold[s] = step[<<fold[s \ {Max(s)}], Max(s)>>]
    <3>1. Max(s) \in 1..n
      BY <1>0, <2>1, MaxOfPositions
    <3> QED BY <1>3, <1>5, <2>1, <3>1
  <2> QED BY <1>5, <2>1 DEF Unfolds
<1>7. fold[1..n] \in A
  BY <1>0, <1>3, <1>6, FoldStays
<1> QED BY <1>0, <1>1, <1>7

-------------------------------------------------------------------------------
(* The order of the blocks.                                                *)
Sorts(place, keys, n) ==
  /\ place \in [1..n -> 1..n]
  /\ \A i \in 1..n : \E k \in 1..n : place[k] = i
  /\ \A k, l \in 1..n : k < l => keys[place[k]] <= keys[place[l]]

\* A new key goes behind those that are not larger.
LEMMA InsertionPoint ==
  ASSUME NEW n \in Nat, NEW sorted \in [1..n -> Int], NEW x \in Int,
         \A k, l \in 1..n : k < l => sorted[k] <= sorted[l]
  PROVE  \E m \in 0..n : /\ \A k \in 1..m : sorted[k] <= x
                         /\ \A k \in (m + 1)..n : x <= sorted[k]
<1> DEFINE lower == {k \in 1..n : sorted[k] <= x}
<1>1. CASE lower = {}
  <2>1. 0 \in 0..n /\ \A k \in (0 + 1)..n : x <= sorted[k]
    BY <1>1
  <2>2. \A k \in 1..0 : sorted[k] <= x
    OBVIOUS
  <2> QED BY <2>1, <2>2
<1>2. CASE lower # {}
  <2>1. lower \in SUBSET (1..n)
    OBVIOUS
  <2> DEFINE m == Max(lower)
  <2>2. m \in lower /\ \A k \in lower : k <= m
    <3> HIDE DEF lower
    <3> QED BY <1>2, <2>1, MaxOfPositions
  <2> HIDE DEF m
  <2>3. m \in 0..n /\ m \in 1..n /\ sorted[m] <= x
    BY <2>2
  <2>4. ASSUME NEW k \in 1..m PROVE sorted[k] <= x
    <3>1. k \in 1..n /\ (k = m \/ k < m)
      BY <2>3
    <3>2. k < m => sorted[k] <= sorted[m]
      BY <2>3, <3>1
    <3>3. sorted[k] \in Int /\ sorted[m] \in Int
      BY <2>3, <3>1
    <3> QED BY <2>3, <3>1, <3>2, <3>3
  <2>5. ASSUME NEW k \in (m + 1)..n PROVE x <= sorted[k]
    <3>1. k \in 1..n /\ ~(k <= m)
      BY <2>3
    <3>2. k \notin lower
      BY <2>2, <3>1
    <3> QED BY <3>1, <3>2
  <2> QED BY <2>3, <2>4, <2>5
<1> QED BY <1>1, <1>2

\* A sorted list takes one more key at its place.
LEMMA SortInserts ==
  ASSUME NEW n \in Nat, NEW keys \in [1..(n + 1) -> Int], NEW place, Sorts(place, keys, n)
  PROVE  \E longer : Sorts(longer, keys, n + 1)
<1> DEFINE sorted == [k \in 1..n |-> keys[place[k]]]
<1>0. place \in [1..n -> 1..n] /\ n + 1 \in 1..(n + 1) /\ \A k \in 1..n : place[k] \in 1..(n + 1)
  <2>1. place \in [1..n -> 1..n]
    BY DEF Sorts
  <2>2. \A i \in 1..n : i \in 1..(n + 1)
    OBVIOUS
  <2>3. n + 1 \in 1..(n + 1)
    OBVIOUS
  <2> QED BY <2>1, <2>2, <2>3
<1>1. sorted \in [1..n -> Int] /\ \A k, l \in 1..n : k < l => sorted[k] <= sorted[l]
  BY <1>0 DEF Sorts
<1>2. keys[n + 1] \in Int
  BY <1>0
<1> HIDE DEF sorted
<1>3. PICK m \in 0..n : /\ \A k \in 1..m : sorted[k] <= keys[n + 1]
                        /\ \A k \in (m + 1)..n : keys[n + 1] <= sorted[k]
  BY <1>1, <1>2, InsertionPoint
<1> DEFINE longer == [k \in 1..(n + 1) |-> IF k <= m THEN place[k]
                                           ELSE IF k = m + 1 THEN n + 1 ELSE place[k - 1]]
<1>4. m \in Nat /\ m <= n
  OBVIOUS
<1>5. \A k \in 1..(n + 1) :
        /\ k <= m => k \in 1..n /\ longer[k] = place[k]
        /\ k = m + 1 => longer[k] = n + 1
        /\ k > m + 1 => k - 1 \in 1..n /\ k - 1 \in (m + 1)..n /\ longer[k] = place[k - 1]
        /\ k <= m \/ k = m + 1 \/ k > m + 1
  BY <1>4
<1>6. longer \in [1..(n + 1) -> 1..(n + 1)]
  BY <1>0, <1>4
<1> HIDE DEF longer
<1>7. ASSUME NEW i \in 1..(n + 1) PROVE \E k \in 1..(n + 1) : longer[k] = i
  <2>1. CASE i = n + 1
    <3>1. m + 1 \in 1..(n + 1)
      BY <1>4
    <3> QED BY <1>5, <2>1, <3>1
  <2>2. CASE i # n + 1
    <3>1. PICK k \in 1..n : place[k] = i
      <4>1. i \in 1..n
        BY <2>2
      <4> QED BY <4>1 DEF Sorts
    <3>2. CASE k <= m
      <4>1. k \in 1..(n + 1)
        OBVIOUS
      <4> QED BY <1>5, <3>1, <3>2, <4>1
    <3>3. CASE k > m
      <4>1. k + 1 \in 1..(n + 1) /\ k + 1 > m + 1 /\ (k + 1) - 1 = k
        BY <1>4, <3>3
      <4> QED BY <1>5, <3>1, <4>1
    <3> QED BY <1>4, <3>2, <3>3
  <2> QED BY <2>1, <2>2
<1>8. ASSUME NEW k \in 1..(n + 1)
      PROVE  keys[longer[k]] = IF k <= m THEN sorted[k]
                               ELSE IF k = m + 1 THEN keys[n + 1] ELSE sorted[k - 1]
  BY <1>5 DEF sorted
<1>9. ASSUME NEW k \in 1..(n + 1), NEW l \in 1..(n + 1), k < l
      PROVE  keys[longer[k]] <= keys[longer[l]]
  <2>1. CASE l <= m
    <3>1. k \in 1..n /\ l \in 1..n /\ k <= m
      BY <1>4, <1>9, <2>1
    <3> QED BY <1>1, <1>8, <1>9, <2>1, <3>1
  <2>2. CASE l = m + 1
    <3>1. k \in 1..m /\ k <= m /\ ~(l <= m)
      BY <1>4, <1>9, <2>2
    <3> QED BY <1>3, <1>8, <2>2, <3>1
  <2>3. CASE l > m + 1 /\ k <= m
    <3>1. k \in 1..n /\ l - 1 \in 1..n /\ ~(l <= m) /\ l # m + 1 /\ k \in 1..m /\ l - 1 \in (m + 1)..n
      BY <1>4, <2>3
    <3>2. sorted[k] <= sorted[l - 1]
      <4>1. k < l - 1
        BY <1>4, <2>3
      <4> QED BY <1>1, <3>1, <4>1
    <3> QED BY <1>8, <2>3, <3>1, <3>2
  <2>4. CASE l > m + 1 /\ k = m + 1
    <3>1. l - 1 \in (m + 1)..n /\ ~(l <= m) /\ l # m + 1 /\ ~(k <= m)
      BY <1>4, <2>4
    <3> QED BY <1>3, <1>8, <2>4, <3>1
  <2>5. CASE l > m + 1 /\ k > m + 1
    <3>1. /\ k - 1 \in 1..n /\ l - 1 \in 1..n /\ k - 1 < l - 1
          /\ ~(l <= m) /\ l # m + 1 /\ ~(k <= m) /\ k # m + 1
      BY <1>4, <1>9, <2>5
    <3>2. sorted[k - 1] <= sorted[l - 1]
      BY <1>1, <3>1
    <3> QED BY <1>8, <3>1, <3>2
  <2> QED BY <1>4, <1>9, <2>1, <2>2, <2>3, <2>4, <2>5
<1>10. Sorts(longer, keys, n + 1)
  BY <1>6, <1>7, <1>9 DEF Sorts
<1> QED BY <1>10

\* Every list of keys has a permutation that sorts it.
LEMMA SortExists ==
  ASSUME NEW n \in Nat, NEW keys \in [1..n -> Int]
  PROVE  \E place : Sorts(place, keys, n)
<1> DEFINE Good == {k \in Nat : k <= n => \E place : Sorts(place, keys, k)}
<1>1. 0 \in Good
  <2> DEFINE none == [k \in 1..0 |-> k]
  <2>1. Sorts(none, keys, 0)
    BY DEF Sorts
  <2> HIDE DEF none
  <2> QED BY <2>1
<1>2. ASSUME NEW k \in Nat, k \in Good PROVE k + 1 \in Good
  <2> SUFFICES ASSUME k + 1 <= n PROVE \E place : Sorts(place, keys, k + 1)
    OBVIOUS
  <2>1. PICK place : Sorts(place, keys, k)
    BY <1>2
  <2> DEFINE first == [i \in 1..(k + 1) |-> keys[i]]
  <2>2. first \in [1..(k + 1) -> Int]
    OBVIOUS
  <2>3. \A i \in 1..(k + 1) : first[i] = keys[i]
    OBVIOUS
  <2> HIDE DEF first
  <2>4. Sorts(place, first, k)
    <3>1. \A i \in 1..k : place[i] \in 1..k /\ place[i] \in 1..(k + 1)
      BY <2>1 DEF Sorts
    <3> QED BY <2>1, <2>3, <3>1 DEF Sorts
  <2>5. PICK longer : Sorts(longer, first, k + 1)
    BY <2>2, <2>4, SortInserts
  <2>6. Sorts(longer, keys, k + 1)
    <3>1. \A i \in 1..(k + 1) : longer[i] \in 1..(k + 1)
      BY <2>5 DEF Sorts
    <3> QED BY <2>3, <2>5, <3>1 DEF Sorts
  <2> QED BY <2>6
<1> HIDE DEF Good
<1>3. n \in Good
  BY <1>1, <1>2, SetInduction
<1> QED BY <1>3 DEF Good

\* Ascending sorts keys of any number, whatever of equal keys comes first.
LEMMA AscendingSorts ==
  ASSUME NEW n \in Nat, NEW keys \in [1..n -> Int]
  PROVE  Sorts(Ascending(keys), keys, n)
<1> DEFINE Rises(place) == /\ \A i \in DOMAIN keys : \E k \in DOMAIN keys : place[k] = i
                        /\ \A k, l \in DOMAIN keys : k < l => keys[place[k]] <= keys[place[l]]
<1>1. DOMAIN keys = 1..n
  OBVIOUS
<1>2. PICK place : Sorts(place, keys, n)
  BY SortExists
<1>3. place \in [DOMAIN keys -> DOMAIN keys] /\ Rises(place)
  BY <1>1, <1>2 DEF Sorts
<1>4. Ascending(keys) = CHOOSE p \in [DOMAIN keys -> DOMAIN keys] : Rises(p)
  BY DEF Ascending
<1> HIDE DEF Rises
<1>5. Ascending(keys) \in [DOMAIN keys -> DOMAIN keys] /\ Rises(Ascending(keys))
  BY <1>3, <1>4
<1> QED BY <1>1, <1>5 DEF Sorts, Rises

\* Blocks in file order are blocks.
LEMMA FileOrderHasTheBlocks ==
  ASSUME NEW blocks \in Seq(OverrideBlocks)
  PROVE  InFileOrder(blocks) \in Seq(OverrideBlocks)
<1> DEFINE n == Len(blocks)
           keys == [i \in DOMAIN blocks |-> blocks[i].file_order]
<1>1. n \in Nat /\ DOMAIN blocks = 1..n /\ \A i \in 1..n : blocks[i] \in OverrideBlocks
  OBVIOUS
<1>2. keys \in [1..n -> Int]
  BY <1>1 DEF OverrideBlocks
<1> HIDE DEF n, keys
<1>3. Ascending(keys) \in [1..n -> 1..n]
  BY <1>1, <1>2, AscendingSorts DEF Sorts
<1>4. InFileOrder(blocks) = [i \in 1..n |-> blocks[Ascending(keys)[i]]]
  BY <1>1 DEF InFileOrder, keys
<1> QED BY <1>1, <1>3, <1>4

-------------------------------------------------------------------------------
(* The chain of a check through the four layers.                           *)
LayersTo(top) == {Layers[l] : l \in 1..top}

Entries ==
  [severity : Severities, tolerance : Tolerances,
   chain : Seq([layer : LayersTo(4), value : Severities])]

\* No layer above top has written, and the chain says what it should.
ChainExplains(chain, severity, top) ==
  /\ chain # <<>> /\ chain[1].layer = "builtin"
  /\ chain[Len(chain)].value = severity
  /\ \A i \in DOMAIN chain : chain[i].layer \in LayersTo(top)
  /\ \A i, j \in DOMAIN chain :
       i < j => \E l, m \in 1..4 : l <= m /\ chain[i].layer = Layers[l] /\ chain[j].layer = Layers[m]
Explains(entry, top) == ChainExplains(entry.chain, entry.severity, top)

PoliciesTo(top) ==
  {p \in [error : {"none", "usage"}, per_check : [Checks -> Entries]] :
     \A c \in Checks : Explains(p.per_check[c], top)}

\* A chain that reaches up to a layer reaches up to the next one.
LEMMA PoliciesGrow == PoliciesTo(2) \subseteq PoliciesTo(3) /\ PoliciesTo(3) \subseteq PoliciesTo(4)
<1>1. LayersTo(2) \subseteq LayersTo(3) /\ LayersTo(3) \subseteq LayersTo(4)
  BY DEF LayersTo
<1>2. \A entry : (Explains(entry, 2) => Explains(entry, 3)) /\ (Explains(entry, 3) => Explains(entry, 4))
  BY <1>1 DEF Explains, ChainExplains
<1> QED BY <1>2 DEF PoliciesTo

\* What `Append` leaves of a list and adds to it.
LEMMA AppendedEntry ==
  ASSUME NEW T, NEW list \in Seq(T), NEW x \in T
  PROVE  /\ Append(list, x) \in Seq(T) /\ Append(list, x) # <<>>
         /\ Len(Append(list, x)) = Len(list) + 1
         /\ DOMAIN Append(list, x) = 1..(Len(list) + 1)
         /\ \A i \in 1..Len(list) : Append(list, x)[i] = list[i]
         /\ Append(list, x)[Len(list) + 1] = x
OBVIOUS

\* A chain with an entry more, of a layer that nothing in it is above.
LEMMA ChainGrows ==
  ASSUME NEW top \in 3..4, NEW entry \in Entries, Explains(entry, top), NEW severity \in Severities
  PROVE  LET longer == [entry EXCEPT !.severity = severity,
                                     !.chain = Append(@, Wrote(Layers[top], severity))]
         IN  longer \in Entries /\ Explains(longer, top)
<1> DEFINE chain == entry.chain
           last == Wrote(Layers[top], severity)
           more == Append(chain, last)
           longer == [entry EXCEPT !.severity = severity, !.chain = more]
           n == Len(chain)
<1>1. Layers[top] \in LayersTo(top) /\ Layers[top] \in LayersTo(4) /\ top \in 1..4
  BY DEF LayersTo
<1>2. last.layer = Layers[top] /\ last.value = severity /\ last \in [layer : LayersTo(4), value : Severities]
  BY <1>1 DEF Wrote
<1>3. chain \in Seq([layer : LayersTo(4), value : Severities]) /\ n \in Nat /\ DOMAIN chain = 1..n
  BY DEF Entries
<1> HIDE DEF last, chain
<1>4. /\ more \in Seq([layer : LayersTo(4), value : Severities])
      /\ DOMAIN more = 1..(n + 1) /\ Len(more) = n + 1 /\ more # <<>>
      /\ \A i \in 1..n : more[i] = chain[i]
      /\ more[n + 1] = last
  <2> HIDE DEF longer
  <2> QED BY <1>2, <1>3, AppendedEntry
<1>5. longer.severity = severity /\ longer.chain = more /\ longer \in Entries
  BY <1>4 DEF Entries, chain
<1>6. /\ n \in 1..n /\ 1 \in 1..n
      /\ chain[1].layer = "builtin"
      /\ \A i \in 1..n : chain[i].layer \in LayersTo(top)
      /\ \A i, j \in 1..n :
           i < j => \E l, m \in 1..4 : l <= m /\ chain[i].layer = Layers[l] /\ chain[j].layer = Layers[m]
  <2> DEFINE C == DOMAIN chain
  <2>1. /\ chain # <<>> /\ chain[1].layer = "builtin"
        /\ \A i \in C : chain[i].layer \in LayersTo(top)
        /\ \A i, j \in C :
             i < j => \E l, m \in 1..4 : l <= m /\ chain[i].layer = Layers[l] /\ chain[j].layer = Layers[m]
    BY Zenon DEF Explains, ChainExplains, chain
  <2>2. n # 0
    BY <1>3, <2>1
  <2>3. n \in 1..n /\ 1 \in 1..n /\ C = 1..n
    BY <1>3, <2>2
  <2> HIDE DEF C
  <2> QED BY <2>1, <2>3, Zenon
<1> HIDE DEF more, longer
<1>7. \A i \in 1..(n + 1) : i = n + 1 \/ i \in 1..n
  BY <1>3
<1>8. \A i \in 1..(n + 1) : more[i].layer \in LayersTo(top)
  BY <1>1, <1>2, <1>4, <1>6, <1>7
<1>9. ASSUME NEW i \in 1..(n + 1), NEW j \in 1..(n + 1), i < j
      PROVE  \E l, m \in 1..4 : l <= m /\ more[i].layer = Layers[l] /\ more[j].layer = Layers[m]
  <2>1. i \in 1..n
    BY <1>3, <1>7, <1>9
  <2>2. CASE j \in 1..n
    BY <1>4, <1>6, <1>9, <2>1, <2>2
  <2>3. CASE j = n + 1
    <3>1. PICK l \in 1..top : chain[i].layer = Layers[l]
      BY <1>6, <2>1 DEF LayersTo
    <3>2. l \in 1..4 /\ l <= top
      OBVIOUS
    <3> QED BY <1>1, <1>2, <1>4, <2>1, <2>3, <3>1, <3>2
  <2> QED BY <1>7, <2>2, <2>3
<1>10. more[1].layer = "builtin" /\ more[n + 1].value = severity
  BY <1>2, <1>4, <1>6
<1>11. ChainExplains(more, severity, top)
  BY <1>4, <1>8, <1>9, <1>10 DEF ChainExplains
<1>12. longer \in Entries /\ Explains(longer, top)
  BY <1>5, <1>11 DEF Explains
<1> QED BY <1>12 DEF longer, more, chain, last

\* A severity rule of a layer leaves a chain that explains the severity.
LEMMA SeverityKeepsChains ==
  ASSUME NEW top \in 3..4, NEW p \in PoliciesTo(top), NEW rule, rule.severity \in Severities
  PROVE  WriteSeverity(p, rule, Layers[top]) \in PoliciesTo(top)
<1> DEFINE written == [c \in Checks |-> [p.per_check[c] EXCEPT
                         !.severity = rule.severity,
                         !.chain = Append(@, Wrote(Layers[top], rule.severity))]]
           selected == GlobSelect(rule.glob)
           q == WriteSeverity(p, rule, Layers[top])
           New(c) == IF c \in selected THEN written[c] ELSE p.per_check[c]
<1>1. p.per_check \in [Checks -> Entries] /\ p.error \in {"none", "usage"}
  BY DEF PoliciesTo
<1>2. \A c \in Checks : p.per_check[c] \in Entries /\ Explains(p.per_check[c], top)
  BY <1>1 DEF PoliciesTo
<1>3. ASSUME NEW c \in Checks PROVE written[c] \in Entries /\ Explains(written[c], top)
  <2>1. p.per_check[c] \in Entries /\ Explains(p.per_check[c], top)
    BY <1>2
  <2> QED BY <2>1, ChainGrows
<1>4. q = [p EXCEPT !.per_check = [c \in Checks |-> New(c)]]
  BY DEF WriteSeverity, Override
<1> HIDE DEF written, selected
<1>5. ASSUME NEW c \in Checks PROVE New(c) \in Entries /\ Explains(New(c), top)
  <2>1. CASE c \in selected
    BY <1>3, <2>1
  <2>2. CASE c \notin selected
    BY <1>2, <2>2
  <2> QED BY <2>1, <2>2
<1> HIDE DEF New, q
<1>6. p \in [error : {"none", "usage"}, per_check : [Checks -> Entries]]
  BY DEF PoliciesTo
<1>7. q \in [error : {"none", "usage"}, per_check : [Checks -> Entries]]
  BY <1>4, <1>5, <1>6
<1>8. \A c \in Checks : q.per_check[c] = New(c)
  BY <1>4, <1>6
<1> QED BY <1>5, <1>7, <1>8 DEF PoliciesTo, q

\* A tolerance rule leaves the chain of severities alone.
LEMMA ToleranceKeepsChains ==
  ASSUME NEW top, NEW p \in PoliciesTo(top), NEW rule, rule.tolerance \in Tolerances
  PROVE  WriteTolerance(p, rule) \in PoliciesTo(top)
<1> DEFINE Type == [error : {"none", "usage"}, per_check : [Checks -> Entries]]
           selected == GlobSelect(rule.glob)
           written == [c \in Checks |-> [p.per_check[c] EXCEPT !.tolerance = rule.tolerance]]
           New(c) == IF c \in selected THEN written[c] ELSE p.per_check[c]
           q == [p EXCEPT !.per_check = [c \in Checks |-> New(c)]]
           failed == [p EXCEPT !.error = "usage"]
<1>1. p \in Type /\ \A c \in Checks : p.per_check[c] \in Entries /\ Explains(p.per_check[c], top)
  BY DEF PoliciesTo
<1>2. WriteTolerance(p, rule) \in {failed, q}
  BY DEF WriteTolerance, Override
<1>3. failed \in PoliciesTo(top)
  <2>1. failed \in Type /\ failed.per_check = p.per_check
    BY <1>1
  <2> QED BY <1>1, <2>1 DEF PoliciesTo
<1>4. ASSUME NEW c \in Checks PROVE written[c] \in Entries /\ Explains(written[c], top)
  <2>1. written[c] = [p.per_check[c] EXCEPT !.tolerance = rule.tolerance]
    OBVIOUS
  <2>2. /\ written[c] \in Entries
        /\ written[c].severity = p.per_check[c].severity /\ written[c].chain = p.per_check[c].chain
    BY <1>1, <2>1 DEF Entries
  <2>3. Explains(p.per_check[c], top)
    BY <1>1
  <2> QED BY <2>2, <2>3 DEF Explains
<1> HIDE DEF written, selected
<1>5. \A c \in Checks : New(c) \in Entries /\ Explains(New(c), top)
  BY <1>1, <1>4
<1> HIDE DEF New
<1>6. q \in PoliciesTo(top)
  <2>1. q \in Type /\ \A c \in Checks : q.per_check[c] = New(c)
    BY <1>1, <1>5
  <2> QED BY <1>5, <2>1 DEF PoliciesTo
<1> QED BY <1>2, <1>3, <1>6

\* So do all rules of a configuration file's tables.
LEMMA RulesKeepChains ==
  ASSUME NEW p \in PoliciesTo(3), NEW rules,
         rules.severity \in Seq(SeverityRules), rules.tolerance \in Seq(ToleranceRules)
  PROVE  WriteRules(p, rules) \in PoliciesTo(3)
<1> DEFINE s == rules.severity
           t == rules.tolerance
           q == WriteSeverities(p, s)
<1>1. ASSUME NEW r \in PoliciesTo(3), NEW k \in DOMAIN s
      PROVE  WriteConfigSeverity(r, s[k]) \in PoliciesTo(3)
  <2>1. s[k].severity \in Severities
    <3>1. s \in Seq(SeverityRules)
      OBVIOUS
    <3> HIDE DEF s
    <3>2. s[k] \in SeverityRules
      BY <3>1
    <3> QED BY <3>2 DEF SeverityRules
  <2>2. 3 \in 3..4 /\ Layers[3] = "config"
    BY DEF Layers
  <2>3. WriteSeverity(r, s[k], Layers[3]) \in PoliciesTo(3)
    BY <2>1, <2>2, SeverityKeepsChains
  <2> QED BY <2>2, <2>3 DEF WriteConfigSeverity
<1>2. ASSUME NEW r \in PoliciesTo(3), NEW k \in DOMAIN t
      PROVE  WriteTolerance(r, t[k]) \in PoliciesTo(3)
  <2>1. t[k].tolerance \in Tolerances
    <3>1. t \in Seq(ToleranceRules)
      OBVIOUS
    <3> HIDE DEF t
    <3>2. t[k] \in ToleranceRules
      BY <3>1
    <3> QED BY <3>2 DEF ToleranceRules
  <2> QED BY <2>1, ToleranceKeepsChains
<1>3. s \in Seq(SeverityRules) /\ t \in Seq(ToleranceRules)
  OBVIOUS
<1>4. WriteRules(p, rules) = WriteTolerances(q, t)
  BY DEF WriteRules
<1> HIDE DEF s, t, q
<1>5. q \in PoliciesTo(3)
  BY <1>1, <1>3, SeveritiesStay DEF q
<1>6. WriteTolerances(q, t) \in PoliciesTo(3)
  BY <1>2, <1>3, <1>5, TolerancesStay
<1> QED BY <1>4, <1>6

\* So do override blocks, which write on the file's layer.
LEMMA BlocksKeepChains ==
  ASSUME NEW p \in PoliciesTo(3), NEW blocks \in Seq(OverrideBlocks)
  PROVE  ApplyBlocks(p, blocks) \in PoliciesTo(3)
<1> DEFINE list == InFileOrder(blocks)
<1>1. list \in Seq(OverrideBlocks)
  BY FileOrderHasTheBlocks
<1> HIDE DEF list
<1>2. ASSUME NEW r \in PoliciesTo(3), NEW k \in DOMAIN list
      PROVE  WriteRules(r, list[k]) \in PoliciesTo(3)
  <2>1. list[k].severity \in Seq(SeverityRules) /\ list[k].tolerance \in Seq(ToleranceRules)
    <3>1. list[k] \in OverrideBlocks
      BY <1>1
    <3> QED BY <3>1 DEF OverrideBlocks
  <2> QED BY <2>1, RulesKeepChains
<1>3. FoldLeft(WriteRules, p, list) \in PoliciesTo(3)
  BY <1>1, <1>2, BlocksStay
<1> QED BY <1>3 DEF ApplyBlocks, list

\* So do the arguments of the command line, the uppermost layer.
LEMMA CliKeepsChains ==
  ASSUME NEW p \in PoliciesTo(4), NEW cli \in CommandLines
  PROVE  ApplyCli(p, cli) \in PoliciesTo(4)
<1>1. ASSUME NEW r \in PoliciesTo(4), NEW k \in DOMAIN cli
      PROVE  WriteOverride(r, cli[k]) \in PoliciesTo(4)
  <2>1. cli[k] \in SeverityRules \cup ToleranceRules
    BY DEF CommandLines
  <2>2. CASE "severity" \in DOMAIN cli[k]
    <3>1. cli[k].severity \in Severities
      BY <2>1, <2>2 DEF SeverityRules, ToleranceRules
    <3>2. 4 \in 3..4 /\ Layers[4] = "cli"
      BY DEF Layers
    <3>3. WriteSeverity(r, cli[k], Layers[4]) \in PoliciesTo(4)
      BY <3>1, <3>2, SeverityKeepsChains
    <3> QED BY <2>2, <3>2, <3>3 DEF WriteOverride
  <2>3. CASE "severity" \notin DOMAIN cli[k]
    <3>1. cli[k].tolerance \in Tolerances
      BY <2>1, <2>3 DEF SeverityRules, ToleranceRules
    <3>2. WriteTolerance(r, cli[k]) \in PoliciesTo(4)
      BY <3>1, ToleranceKeepsChains
    <3> QED BY <2>3, <3>2 DEF WriteOverride
  <2> QED BY <2>2, <2>3
<1>2. cli \in Seq(SeverityRules \cup ToleranceRules)
  BY DEF CommandLines
<1> QED BY <1>1, <1>2, OverridesStay

\* What the layers of the defaults write.
LEMMA BuiltinExplained == ASSUME NEW profile \in Profiles PROVE Builtin(profile) \in PoliciesTo(2)
<1>1. ASSUME NEW c \in Checks
      PROVE  /\ BuiltinEntry(Registry[c], profile) \in Entries
             /\ Explains(BuiltinEntry(Registry[c], profile), 2)
  <2> DEFINE check == Registry[c]
             builtin == IF check.is_volatile THEN Ignore ELSE check.default_severity
             resolved == IF check.is_volatile THEN Ignore ELSE SeverityFor(check, profile)
             entry == BuiltinEntry(check, profile)
             Written == [layer : LayersTo(4), value : Severities]
  <2>1. builtin \in Severities /\ resolved \in Severities /\ ToleranceFor(check, profile) \in Tolerances
    BY PromisesAssumption DEF Severities, Ignore, Fail
  <2>2. /\ Layers[1] = "builtin" /\ Layers[2] = "profile"
        /\ "builtin" \in LayersTo(4) /\ "profile" \in LayersTo(4)
        /\ "builtin" \in LayersTo(2) /\ "profile" \in LayersTo(2)
    <3>1. Layers[1] = "builtin" /\ Layers[2] = "profile"
      BY DEF Layers
    <3>2. 1 \in 1..4 /\ 2 \in 1..4 /\ 1 \in 1..2 /\ 2 \in 1..2
      OBVIOUS
    <3> QED BY <3>1, <3>2 DEF LayersTo
  <2>3. /\ entry.severity = resolved /\ entry.tolerance = ToleranceFor(check, profile)
        /\ entry = [severity |-> resolved, tolerance |-> ToleranceFor(check, profile), chain |-> entry.chain]
        /\ entry.chain = IF resolved = builtin THEN <<Wrote("builtin", builtin)>>
                         ELSE <<Wrote("builtin", builtin), Wrote("profile", resolved)>>
    BY DEF BuiltinEntry
  <2> HIDE DEF builtin, resolved, entry
  <2>4. /\ Wrote("builtin", builtin) \in Written /\ Wrote("profile", resolved) \in Written
        /\ Wrote("builtin", builtin).layer = "builtin" /\ Wrote("builtin", builtin).value = builtin
        /\ Wrote("profile", resolved).layer = "profile" /\ Wrote("profile", resolved).value = resolved
    BY <2>1, <2>2 DEF Wrote
  <2>5. entry.chain \in Seq(Written) /\ entry \in Entries
    <3>1. \A x, y \in Written : <<x>> \in Seq(Written) /\ <<x, y>> \in Seq(Written)
      <4> HIDE DEF Written
      <4> QED OBVIOUS
    <3>2. entry.chain \in Seq(Written)
      <4> HIDE DEF Written
      <4>1. CASE resolved = builtin
        BY <2>3, <2>4, <3>1, <4>1
      <4>2. CASE resolved # builtin
        BY <2>3, <2>4, <3>1, <4>2
      <4> QED BY <4>1, <4>2
    <3> QED BY <2>1, <2>3, <3>2 DEF Entries
  <2>6. ASSUME resolved = builtin PROVE Explains(entry, 2)
    <3>1. /\ entry.chain # <<>> /\ Len(entry.chain) = 1 /\ DOMAIN entry.chain = {1}
          /\ entry.chain[1] = Wrote("builtin", builtin)
      BY <2>3, <2>6
    <3>2. entry.chain[1].layer \in LayersTo(2) /\ entry.chain[Len(entry.chain)].value = entry.severity
      BY <2>2, <2>3, <2>4, <2>6, <3>1
    <3>3. \A i, j \in DOMAIN entry.chain : ~(i < j)
      BY <3>1
    <3> QED BY <2>2, <2>4, <3>1, <3>2, <3>3 DEF Explains, ChainExplains
  <2>7. ASSUME resolved # builtin PROVE Explains(entry, 2)
    <3>1. /\ entry.chain # <<>> /\ Len(entry.chain) = 2 /\ DOMAIN entry.chain = {1, 2}
          /\ entry.chain[1] = Wrote("builtin", builtin) /\ entry.chain[2] = Wrote("profile", resolved)
      BY <2>3, <2>7
    <3>2. \A i, j \in {1, 2} : i < j =>
            \E l, m \in 1..4 : l <= m /\ entry.chain[i].layer = Layers[l] /\ entry.chain[j].layer = Layers[m]
      <4>1. \A i, j \in {1, 2} : i < j => i = 1 /\ j = 2
        OBVIOUS
      <4>2. 1 \in 1..4 /\ 2 \in 1..4 /\ 1 <= 2
        OBVIOUS
      <4> QED BY <2>2, <2>4, <3>1, <4>1, <4>2
    <3>3. \A i \in {1, 2} : entry.chain[i].layer \in LayersTo(2)
      BY <2>2, <2>4, <3>1
    <3>4. entry.chain[Len(entry.chain)].value = entry.severity /\ entry.chain[1].layer = "builtin"
      BY <2>3, <2>4, <3>1
    <3> QED BY <3>1, <3>2, <3>3, <3>4 DEF Explains, ChainExplains
  <2>8. Explains(entry, 2)
    BY <2>6, <2>7
  <2> QED BY <2>5, <2>8 DEF entry
<1> QED BY <1>1 DEF Builtin, PoliciesTo

\* Nothing is written by no rules.
LEMMA NoOverride == ASSUME NEW p PROVE ApplyCli(p, <<>>) = p
<1> DEFINE Folds(iter) == iter = [s \in SUBSET DOMAIN <<>> |->
                                    IF s = {} THEN p
                                    ELSE WriteOverride(iter[s \ {Max(s)}], <<>>[Max(s)])]
           fold == CHOOSE iter : Folds(iter)
           none == [s \in {{}} |-> p]
<1>1. ApplyCli(p, <<>>) = fold[DOMAIN <<>>]
  BY Zenon DEF ApplyCli, FoldLeft, MapThenFoldSet
<1>2. DOMAIN <<>> = {} /\ SUBSET DOMAIN <<>> = {{}}
  OBVIOUS
<1>3. Folds(none)
  BY <1>2
<1> HIDE DEF Folds, none
<1>4. Folds(fold)
  BY <1>3
<1> HIDE DEF fold
<1>5. fold[{}] = p
  BY <1>2, <1>4 DEF Folds
<1> QED BY <1>1, <1>2, <1>5

\* Without override blocks a policy is left alone.
LEMMA NoBlock == ASSUME NEW p PROVE ApplyBlocks(p, <<>>) = p
<1> DEFINE Folds(iter) == iter = [s \in SUBSET DOMAIN <<>> |->
                                    IF s = {} THEN p
                                    ELSE WriteRules(iter[s \ {Max(s)}], <<>>[Max(s)])]
           fold == CHOOSE iter : Folds(iter)
           none == [s \in {{}} |-> p]
<1>0. InFileOrder(<<>>) = <<>>
  BY DEF InFileOrder
<1>1. FoldLeft(WriteRules, p, <<>>) = fold[DOMAIN <<>>]
  BY Zenon DEF FoldLeft, MapThenFoldSet
<1>2. DOMAIN <<>> = {} /\ SUBSET DOMAIN <<>> = {{}}
  OBVIOUS
<1>3. Folds(none)
  BY <1>2
<1> HIDE DEF Folds, none
<1>4. Folds(fold)
  BY <1>3
<1> HIDE DEF fold
<1>5. fold[{}] = p
  BY <1>2, <1>4 DEF Folds
<1>6. ApplyBlocks(p, <<>>) = FoldLeft(WriteRules, p, <<>>)
  BY <1>0, Zenon DEF ApplyBlocks
<1> QED BY <1>1, <1>2, <1>5, <1>6

\* The blocks that match a path are blocks of the file.
LEMMA MatchingAreBlocks ==
  ASSUME NEW blocks \in Seq(OverrideBlocks), NEW path
  PROVE  Matching(blocks, path) \in Seq(OverrideBlocks)
<1> DEFINE A == Seq(OverrideBlocks)
<1>1. ASSUME NEW kept \in A, NEW k \in DOMAIN blocks PROVE KeepMatching(kept, blocks[k], path) \in A
  <2>1. blocks[k] \in OverrideBlocks
    OBVIOUS
  <2> QED BY <2>1, AppendedEntry DEF KeepMatching
<1>2. <<>> \in A
  OBVIOUS
<1> HIDE DEF A
<1>3. Matching(blocks, path) \in A
  BY <1>1, <1>2, MatchingStays
<1> QED BY <1>3 DEF A

\* The base of dir is what the defaults and the tables of the file have written.
LEMMA BaseIsOfTables ==
  ASSUME NEW profile, NEW config \in ConfigFiles
  PROVE  BasePolicy(profile, config) = WriteRules(Builtin(profile), config)
<1> DEFINE bare == [config EXCEPT !.overrides = <<>>]
<1>1. bare.overrides = <<>> /\ bare.severity = config.severity /\ bare.tolerance = config.tolerance
  BY DEF ConfigFiles
<1> HIDE DEF bare
<1>2. WriteRules(Builtin(profile), bare) = WriteRules(Builtin(profile), config)
  BY <1>1, Zenon DEF WriteRules
<1>3. ResolvePolicy(profile, bare, <<>>) = WriteRules(Builtin(profile), bare)
  BY <1>1, NoBlock, NoOverride, Zenon DEF ResolvePolicy
<1> QED BY <1>2, <1>3, Zenon DEF BasePolicy, bare

\* The tables of the file over the profile's values are explained.
LEMMA TablesExplained ==
  ASSUME NEW w \in Worlds PROVE WriteRules(Builtin(w.profile), w.config) \in PoliciesTo(3)
<1>1. w.profile \in Profiles /\ w.config \in ConfigFiles
  BY PromisesAssumption
<1>2. Builtin(w.profile) \in PoliciesTo(3)
  BY <1>1, BuiltinExplained, PoliciesGrow
<1>3. w.config.severity \in Seq(SeverityRules) /\ w.config.tolerance \in Seq(ToleranceRules)
  BY <1>1 DEF ConfigFiles
<1> QED BY <1>2, <1>3, RulesKeepChains

\* So is the policy that `compare` ends up with.
LEMMA PolicyExplained == ASSUME NEW w \in Worlds PROVE PolicyOf(w) \in PoliciesTo(4)
<1> DEFINE tables == WriteRules(Builtin(w.profile), w.config)
<1>1. w.config \in ConfigFiles /\ w.cli \in CommandLines /\ w.config.overrides \in Seq(OverrideBlocks)
  <2>1. w.config \in ConfigFiles /\ w.cli \in CommandLines
    BY PromisesAssumption
  <2> QED BY <2>1 DEF ConfigFiles
<1>2. tables \in PoliciesTo(3)
  BY TablesExplained
<1> HIDE DEF tables
<1>3. \A blocks \in Seq(OverrideBlocks) : ApplyCli(ApplyBlocks(tables, blocks), w.cli) \in PoliciesTo(4)
  BY <1>1, <1>2, BlocksKeepChains, CliKeepsChains, PoliciesGrow
<1>4. CASE w.command = "compare"
  <2>1. PolicyOf(w) = ApplyCli(ApplyBlocks(tables, w.config.overrides), w.cli)
    BY <1>4, Zenon DEF PolicyOf, ResolvePolicy, tables
  <2> QED BY <1>1, <1>3, <2>1
<1>5. CASE w.command # "compare"
  <2> DEFINE blocks == Matching(w.config.overrides, w.path)
  <2>1. blocks \in Seq(OverrideBlocks)
    BY <1>1, MatchingAreBlocks
  <2>2. BasePolicy(w.profile, w.config) = tables
    BY <1>1, BaseIsOfTables DEF tables
  <2>3. PolicyOf(w) = ApplyCli(ApplyBlocks(tables, blocks), w.cli)
    BY <1>5, <2>2, Zenon DEF PolicyOf, ResolvePolicyForFile
  <2> HIDE DEF blocks
  <2> QED BY <1>3, <2>1, <2>3
<1> QED BY <1>4, <1>5

\* What dir resolves for a file, compare resolves from the blocks that match it.
LEMMA SamePolicy ==
  ASSUME NEW w \in Worlds, NEW config, w.command = "dir",
         config = [w.config EXCEPT !.overrides = Matching(@, w.path)]
  PROVE  PolicyOf(w) = ResolvePolicy(w.profile, config, w.cli)
<1> DEFINE blocks == Matching(w.config.overrides, w.path)
<1>1. w.config \in ConfigFiles
  BY PromisesAssumption
<1>2. config.overrides = blocks /\ config.severity = w.config.severity /\ config.tolerance = w.config.tolerance
  BY <1>1 DEF ConfigFiles
<1>3. WriteRules(Builtin(w.profile), config) = WriteRules(Builtin(w.profile), w.config)
  BY <1>2, Zenon DEF WriteRules
<1>4. BasePolicy(w.profile, w.config) = WriteRules(Builtin(w.profile), w.config)
  BY <1>1, BaseIsOfTables
<1>5. w.command # "compare"
  OBVIOUS
<1> HIDE DEF blocks
<1> QED BY <1>2, <1>3, <1>4, <1>5, Zenon DEF PolicyOf, ResolvePolicyForFile, ResolvePolicy, blocks

\* The policy that the findings are made under is the one that was resolved.
PolicyIsResolved ==
  /\ world \in Worlds
  /\ policy \in {<<>>, PolicyOf(world).per_check}
  /\ stage = "pair" => policy = PolicyOf(world).per_check

\* Whenever pairs are compared, it is under that policy.
LEMMA PolicyInvariant == EngineSpec => []PolicyIsResolved
<1>1. EngineInit => PolicyIsResolved
  BY DEF EngineInit, PolicyIsResolved
<1>2. PolicyIsResolved /\ [EngineNext]_vars => PolicyIsResolved'
  <2> SUFFICES ASSUME PolicyIsResolved, [EngineNext]_vars PROVE PolicyIsResolved'
    OBVIOUS
  <2>1. CASE Resolve
    BY <2>1 DEF Resolve, PolicyIsResolved
  <2>2. ASSUME UNCHANGED <<world, policy>>, stage' = "pair" => stage = "pair" PROVE PolicyIsResolved'
    BY <2>2 DEF PolicyIsResolved
  <2>3. CASE \E key \in Keys(world) : Pair(key)
    <3>1. UNCHANGED <<world, policy>> /\ stage = "pair"
      BY <2>3
         DEF Pair, Demote, ProgramOfOneSide, PassOver, Skip, KindMismatch, Judge, Abort, Emit, Visits
    <3> QED BY <2>2, <3>1
  <2>4. CASE Return
    BY <2>2, <2>4 DEF Return
  <2>5. CASE UNCHANGED vars
    BY <2>2, <2>5 DEF vars
  <2> QED BY <2>1, <2>3, <2>4, <2>5 DEF EngineNext
<1> QED
  BY <1>1, <1>2, PTL DEF EngineSpec

\* However many rules, blocks and overrides there are and whatever their order: dir
\* judges a file under the policy that compare would resolve from the blocks that
\* match its path, and the chain of every check starts at the defaults, never goes
\* back to a lower layer and ends in the severity that holds (policy.cpp:127, 221).
THEOREM PolicyExplains == EngineSpec => []PolicyIsExplained
<1>1. ASSUME PolicyIsResolved PROVE PolicyIsExplained
  <2>1. FilePolicyIsComparePolicy
    <3> SUFFICES ASSUME world.command = "dir", stage = "pair"
                 PROVE  policy = ResolvePolicy(world.profile, ForThePath(world.config), world.cli).per_check
      BY DEF FilePolicyIsComparePolicy
    <3>1. ForThePath(world.config) = [world.config EXCEPT !.overrides = Matching(@, world.path)]
      BY DEF ForThePath
    <3>2. world \in Worlds /\ policy = PolicyOf(world).per_check
      BY <1>1 DEF PolicyIsResolved
    <3>3. PolicyOf(world) = ResolvePolicy(world.profile, ForThePath(world.config), world.cli)
      BY <3>1, <3>2, SamePolicy
    <3> QED BY <3>2, <3>3
  <2>2. ChainExplainsSeverity
    <3>1. CASE policy = <<>>
      BY <3>1 DEF ChainExplainsSeverity
    <3>2. CASE policy = PolicyOf(world).per_check
      <4>1. PolicyOf(world) \in PoliciesTo(4)
        BY <1>1, PolicyExplained DEF PolicyIsResolved
      <4>2. DOMAIN policy = Checks /\ \A c \in Checks : Explains(policy[c], 4)
        BY <3>2, <4>1 DEF PoliciesTo
      <4> QED BY <4>2 DEF ChainExplainsSeverity, Explains, ChainExplains, Last
    <3> QED BY <1>1, <3>1, <3>2 DEF PolicyIsResolved
  <2> QED BY <2>1, <2>2 DEF PolicyIsExplained
<1> QED
  BY <1>1, PolicyInvariant, PTL
-------------------------------------------------------------------------------
(* Merged spans: they cover what the spans cover, and holes of a tick.     *)
\* Merging leaves no span empty.
TrueSpans == {span \in Int \X Int : StartOf(span) < EndOf(span)}

\* The larger of two ends is one of them and before neither.
LEMMA LargerEnd ==
  ASSUME NEW x \in Int, NEW y \in Int
  PROVE  Max({x, y}) \in {x, y} /\ x <= Max({x, y}) /\ y <= Max({x, y})
<1>1. \E m \in {x, y} : \A z \in {x, y} : m >= z
  OBVIOUS
<1> QED BY <1>1 DEF Max

\* Merging one more span leaves spans that are not empty.
LEMMA AbsorbKeepsSpans ==
  ASSUME NEW merged \in Seq(TrueSpans), NEW span \in TrueSpans
  PROVE  Absorb(merged, span) \in Seq(TrueSpans)
<1> DEFINE n == Len(merged)
           last == merged[n]
           longer == <<StartOf(last), Max({EndOf(last), EndOf(span)})>>
           joined == [merged EXCEPT ![n] = longer]
<1>1. Append(merged, span) \in Seq(TrueSpans)
  BY AppendedEntry
<1>2. ASSUME merged # <<>> PROVE joined \in Seq(TrueSpans)
  <2>1. n \in 1..n /\ n \in Nat /\ DOMAIN merged = 1..n
    BY <1>2
  <2>2. last \in TrueSpans
    BY <2>1
  <2> HIDE DEF last
  <2>3. StartOf(last) \in Int /\ EndOf(last) \in Int /\ EndOf(span) \in Int /\ StartOf(last) < EndOf(last)
    BY <2>2 DEF TrueSpans, StartOf, EndOf
  <2>4. Max({EndOf(last), EndOf(span)}) \in Int /\ EndOf(last) <= Max({EndOf(last), EndOf(span)})
    BY <2>3, LargerEnd
  <2>5. longer \in Int \X Int /\ longer[1] < longer[2]
    BY <2>3, <2>4
  <2> HIDE DEF longer
  <2>6. longer \in TrueSpans
    BY <2>5 DEF TrueSpans, StartOf, EndOf
  <2> HIDE DEF n
  <2>7. \A k \in 1..n : joined[k] \in TrueSpans
    <3>1. \A k \in 1..n : merged[k] \in TrueSpans
      BY <2>1
    <3> QED BY <2>1, <2>6, <3>1
  <2>8. joined = [k \in 1..n |-> joined[k]]
    BY <2>1
  <2> HIDE DEF joined
  <2> QED BY <2>1, <2>7, <2>8
<1>3. Absorb(merged, span) = IF merged # <<>> /\ StartOf(span) <= EndOf(last) + 1 THEN joined
                            ELSE Append(merged, span)
  BY Zenon DEF Absorb, Last
<1> HIDE DEF joined, last
<1> QED BY <1>1, <1>2, <1>3

\* The spans merged so far, span by span.
LEMMA SpansRun ==
  ASSUME NEW A, NEW S, NEW list \in Seq(S), <<>> \in A,
         \A p \in A, k \in DOMAIN list : Absorb(p, list[k]) \in A
  PROVE  \E run : /\ run \in [0..Len(list) -> A]
                  /\ run[0] = <<>>
                  /\ \A k \in 1..Len(list) : run[k] = Absorb(run[k - 1], list[k])
                  /\ FoldLeft(Absorb, <<>>, list) = run[Len(list)]
<1> DEFINE n == Len(list)
           Step(p, x) == Absorb(p, x)
           Folds(iter) == iter = [s \in SUBSET DOMAIN list |->
                                 IF s = {} THEN <<>> ELSE Step(iter[s \ {Max(s)}], list[Max(s)])]
           fold == CHOOSE iter : Folds(iter)
           step == [p \in A \X (1..n) |-> Step(p[1], list[p[2]])]
<1>0. n \in Nat /\ DOMAIN list = 1..n
  OBVIOUS
<1>1. FoldLeft(Absorb, <<>>, list) = fold[DOMAIN list]
  BY Zenon DEF FoldLeft, MapThenFoldSet
<1>2. \A p \in A, k \in 1..n : Step(p, list[k]) \in A
  BY <1>0
<1> HIDE DEF Step
<1>3. step \in [A \X (1..n) -> A] /\ \A p \in A, k \in 1..n : step[<<p, k>>] = Step(p, list[k])
  BY <1>2
<1> HIDE DEF step, n
<1>4. Folds(fold)
  <2> HIDE DEF Folds, fold
  <2>1. PICK g : IsFold(g, A, <<>>, n, step)
    BY <1>0, <1>3, FoldExists
  <2>2. ASSUME NEW s \in SUBSET (1..n), s # {}
        PROVE  g[s] = Step(g[s \ {Max(s)}], list[Max(s)])
    <3>1. Max(s) \in 1..n /\ g[s \ {Max(s)}] \in A
      BY <2>1, <2>2 DEF IsFold
    <3> QED BY <1>3, <2>1, <2>2, <3>1 DEF IsFold
  <2>3. Folds(g)
    BY <1>0, <2>1, <2>2 DEF Folds, IsFold
  <2> QED BY <2>3 DEF fold
<1> HIDE DEF fold
<1>5. /\ fold[{}] = <<>>
      /\ \A s \in SUBSET (1..n) : s # {} => fold[s] = Step(fold[s \ {Max(s)}], list[Max(s)])
  BY <1>0, <1>4
<1> HIDE DEF Folds
<1>6. Unfolds(fold, A, <<>>, n, step)
  <2>1. ASSUME NEW s \in SUBSET (1..n), s # {}, fold[s \ {Max(s)}] \in A
        PROVE  fold[s] = step[<<fold[s \ {Max(s)}], Max(s)>>]
    <3>1. Max(s) \in 1..n
      BY <1>0, <2>1, MaxOfPositions
    <3> QED BY <1>3, <1>5, <2>1, <3>1
  <2> QED BY <1>5, <2>1 DEF Unfolds
<1>7. PICK run : IsRun(run, A, <<>>, n, step, fold)
  BY <1>0, <1>3, <1>6, FoldRuns
<1>8. \A k \in 1..n : run[k] = Step(run[k - 1], list[k])
  <2> SUFFICES ASSUME NEW k \in 1..n PROVE run[k] = Step(run[k - 1], list[k])
    OBVIOUS
  <2>1. k - 1 \in 0..n /\ run \in [0..n -> A]
    BY <1>0, <1>7 DEF IsRun
  <2>2. run[k - 1] \in A
    BY <2>1
  <2> QED BY <1>3, <1>7, <2>2 DEF IsRun
<1>9. run \in [0..n -> A] /\ run[0] = <<>> /\ FoldLeft(Absorb, <<>>, list) = run[n]
  BY <1>0, <1>1, <1>7 DEF IsRun
<1> QED BY <1>8, <1>9 DEF Step, n

\* The sorted list has the spans of the list, by their starts.
LEMMA ByStartSorts ==
  ASSUME NEW spans \in Seq(TrueSpans)
  PROVE  LET list == ByStart(spans)
         IN  /\ list \in Seq(TrueSpans) /\ Len(list) = Len(spans)
             /\ \A i \in 1..Len(list) : \E k \in 1..Len(spans) : list[i] = spans[k]
             /\ \A k \in 1..Len(spans) : \E i \in 1..Len(list) : list[i] = spans[k]
             /\ \A i, j \in 1..Len(list) : i < j => StartOf(list[i]) <= StartOf(list[j])
<1> DEFINE n == Len(spans)
           keys == [i \in DOMAIN spans |-> StartOf(spans[i])]
           list == ByStart(spans)
<1>1. n \in Nat /\ DOMAIN spans = 1..n /\ \A i \in 1..n : spans[i] \in TrueSpans
  OBVIOUS
<1>2. keys \in [1..n -> Int] /\ \A i \in 1..n : keys[i] = StartOf(spans[i])
  <2>1. \A i \in 1..n : StartOf(spans[i]) \in Int
    BY <1>1 DEF TrueSpans, StartOf
  <2> QED BY <1>1, <2>1
<1>3. list = [i \in 1..n |-> spans[Ascending(keys)[i]]]
  BY <1>1 DEF ByStart
<1> HIDE DEF n, keys, list
<1>4. Sorts(Ascending(keys), keys, n)
  BY <1>1, <1>2, AscendingSorts
<1> DEFINE place == Ascending(keys)
<1> HIDE DEF place
<1>5. place \in [1..n -> 1..n] /\ \A i \in 1..n : list[i] = spans[place[i]]
  BY <1>3, <1>4 DEF Sorts, place
<1>6. list \in Seq(TrueSpans) /\ Len(list) = n
  <2>1. list = [i \in 1..n |-> spans[place[i]]]
    BY <1>3 DEF place
  <2> QED BY <1>1, <1>5, <2>1
<1>7. \A k \in 1..n : \E i \in 1..n : list[i] = spans[k]
  <2> SUFFICES ASSUME NEW k \in 1..n PROVE \E i \in 1..n : list[i] = spans[k]
    OBVIOUS
  <2>1. PICK i \in 1..n : place[i] = k
    BY <1>4 DEF Sorts, place
  <2> QED BY <1>5, <2>1
<1>8. \A i, j \in 1..n : i < j => StartOf(list[i]) <= StartOf(list[j])
  <2> SUFFICES ASSUME NEW i \in 1..n, NEW j \in 1..n, i < j
               PROVE  StartOf(list[i]) <= StartOf(list[j])
    OBVIOUS
  <2>1. keys[place[i]] <= keys[place[j]]
    BY <1>4 DEF Sorts, place
  <2>2. keys[place[i]] = StartOf(list[i]) /\ keys[place[j]] = StartOf(list[j])
    BY <1>2, <1>5
  <2> QED BY <2>1, <2>2
<1>9. \A i \in 1..n : \E k \in 1..n : list[i] = spans[k]
  BY <1>5
<1> QED BY <1>6, <1>7, <1>8, <1>9 DEF n, list

Holds(span, t) == StartOf(span) <= t /\ t < EndOf(span)
\* A tick of one of the first k spans.
TickBy(list, k, t) == \E l \in 1..k : Holds(list[l], t)

\* There is more than a tick between any two spans.
Separated(list) == \A i, j \in 1..Len(list) : i < j => EndOf(list[i]) + 1 < StartOf(list[j])

\* A true span starts before it ends.
LEMMA EndsOfSpan ==
  ASSUME NEW span \in TrueSpans
  PROVE  StartOf(span) \in Int /\ EndOf(span) \in Int /\ StartOf(span) < EndOf(span)
BY DEF TrueSpans, StartOf, EndOf

\* What the merged spans are of the first k of a list: none of them begins behind what
\* is to come, they hold those spans, and nothing but their ticks and holes of a tick.
MergedUpTo(merged, list, k) ==
  /\ merged \in Seq(TrueSpans) /\ Separated(merged)
  /\ \A i \in 1..Len(merged), j \in (k + 1)..Len(list) : StartOf(merged[i]) <= StartOf(list[j])
  /\ \A l \in 1..k : \E i \in 1..Len(merged) :
       StartOf(merged[i]) <= StartOf(list[l]) /\ EndOf(list[l]) <= EndOf(merged[i])
  /\ \A i \in 1..Len(merged), t \in Int :
       Holds(merged[i], t) => TickBy(list, k, t) \/ (TickBy(list, k, t - 1) /\ TickBy(list, k, t + 1))
  /\ \A i \in 1..Len(merged) : TickBy(list, k, EndOf(merged[i]) - 1)

\* What is covered by the first spans is covered by one more.
LEMMA TicksGrow ==
  ASSUME NEW list, NEW k \in Nat, NEW t
  PROVE  /\ TickBy(list, k, t) => TickBy(list, k + 1, t)
         /\ Holds(list[k + 1], t) => TickBy(list, k + 1, t)
<1>1. k + 1 \in 1..(k + 1) /\ \A l \in 1..k : l \in 1..(k + 1)
  OBVIOUS
<1> QED BY <1>1 DEF TickBy

\* A span past the last merged one becomes one of its own.
LEMMA AppendedMerges ==
  ASSUME NEW list \in Seq(TrueSpans), \A i, j \in 1..Len(list) : i < j => StartOf(list[i]) <= StartOf(list[j]),
         NEW k \in Nat, k + 1 <= Len(list), NEW merged, MergedUpTo(merged, list, k),
         merged # <<>> => EndOf(merged[Len(merged)]) + 1 < StartOf(list[k + 1])
  PROVE  MergedUpTo(Append(merged, list[k + 1]), list, k + 1)
<1> DEFINE n == Len(merged)
           x == list[k + 1]
           longer == Append(merged, x)
<1>1. merged \in Seq(TrueSpans) /\ n \in Nat /\ x \in TrueSpans /\ k + 1 \in 1..Len(list)
  BY DEF MergedUpTo
<1>2. /\ longer \in Seq(TrueSpans) /\ Len(longer) = n + 1 /\ longer[n + 1] = x
      /\ \A i \in 1..n : longer[i] = merged[i] /\ i \in 1..(n + 1)
  BY <1>1, AppendedEntry
<1>3. /\ \A i \in 1..n : StartOf(merged[i]) \in Int /\ EndOf(merged[i]) \in Int /\ StartOf(merged[i]) < EndOf(merged[i])
      /\ StartOf(x) \in Int /\ EndOf(x) \in Int /\ StartOf(x) < EndOf(x)
  <2>1. \A i \in 1..n : merged[i] \in TrueSpans
    BY <1>1
  <2> QED BY <1>1, <2>1, EndsOfSpan
<1>4. n > 0 => EndOf(merged[n]) + 1 < StartOf(x)
  BY <1>1
<1>5. \A i \in 1..(n + 1) : i \in 1..n \/ i = n + 1
  BY <1>1
<1> HIDE DEF longer, x, n
<1>6. Separated(longer)
  <2> SUFFICES ASSUME NEW i \in 1..(n + 1), NEW j \in 1..(n + 1), i < j
               PROVE  EndOf(longer[i]) + 1 < StartOf(longer[j])
    BY <1>2 DEF Separated
  <2>1. i \in 1..n /\ longer[i] = merged[i]
    BY <1>1, <1>2
  <2>2. CASE j \in 1..n
    BY <1>2, <2>1, <2>2 DEF MergedUpTo, Separated, n
  <2>3. CASE j = n + 1
    <3>1. i = n \/ (i < n /\ n \in 1..n)
      BY <1>1, <2>1
    <3>2. i < n => EndOf(merged[i]) + 1 < StartOf(merged[n])
      BY <1>1, <2>1, <3>1 DEF MergedUpTo, Separated, n
    <3>3. EndOf(merged[i]) + 1 < StartOf(x)
      BY <1>1, <1>3, <1>4, <2>1, <3>1, <3>2
    <3> QED BY <1>2, <2>1, <2>3, <3>3
  <2> QED BY <1>1, <2>2, <2>3
<1>7. ASSUME NEW i \in 1..(n + 1), NEW j \in (k + 2)..Len(list) PROVE StartOf(longer[i]) <= StartOf(list[j])
  <2>1. j \in (k + 1)..Len(list) /\ j \in 1..Len(list) /\ k + 1 < j
    BY <1>1
  <2>2. StartOf(x) <= StartOf(list[j])
    BY <1>1, <2>1 DEF x
  <2>3. i \in 1..n => StartOf(merged[i]) <= StartOf(list[j])
    BY <2>1 DEF MergedUpTo, n
  <2> QED BY <1>2, <1>5, <2>2, <2>3
<1>8. ASSUME NEW l \in 1..(k + 1)
      PROVE  \E i \in 1..(n + 1) : StartOf(longer[i]) <= StartOf(list[l]) /\ EndOf(list[l]) <= EndOf(longer[i])
  <2>1. CASE l = k + 1
    <3>1. n + 1 \in 1..(n + 1) /\ longer[n + 1] = list[l]
      BY <1>1, <1>2, <2>1 DEF x
    <3> QED BY <1>3, <2>1, <3>1 DEF x
  <2>2. CASE l # k + 1
    <3>1. PICK i \in 1..n : StartOf(merged[i]) <= StartOf(list[l]) /\ EndOf(list[l]) <= EndOf(merged[i])
      BY <2>2 DEF MergedUpTo, n
    <3> QED BY <1>2, <3>1
  <2> QED BY <2>1, <2>2
<1>9. ASSUME NEW i \in 1..(n + 1), NEW t \in Int, Holds(longer[i], t)
      PROVE  TickBy(list, k + 1, t) \/ (TickBy(list, k + 1, t - 1) /\ TickBy(list, k + 1, t + 1))
  <2>1. CASE i \in 1..n
    <3>1. TickBy(list, k, t) \/ (TickBy(list, k, t - 1) /\ TickBy(list, k, t + 1))
      BY <1>2, <1>9, <2>1 DEF MergedUpTo, n
    <3> QED BY <3>1, TicksGrow
  <2>2. CASE i = n + 1
    BY <1>2, <1>9, <2>2, TicksGrow DEF x
  <2> QED BY <1>5, <2>1, <2>2
<1>10. ASSUME NEW i \in 1..(n + 1) PROVE TickBy(list, k + 1, EndOf(longer[i]) - 1)
  <2>1. CASE i \in 1..n
    <3>1. TickBy(list, k, EndOf(merged[i]) - 1)
      BY <2>1 DEF MergedUpTo, n
    <3> QED BY <1>2, <2>1, <3>1, TicksGrow
  <2>2. CASE i = n + 1
    <3>1. Holds(x, EndOf(x) - 1)
      BY <1>3 DEF Holds
    <3> QED BY <1>2, <2>2, <3>1, TicksGrow DEF x
  <2> QED BY <1>5, <2>1, <2>2
<1>11. (k + 1) + 1 = k + 2
  OBVIOUS
<1>12. MergedUpTo(longer, list, k + 1)
  BY <1>2, <1>6, <1>7, <1>8, <1>9, <1>10, <1>11 DEF MergedUpTo
<1> QED BY <1>12 DEF longer, x

\* A span that touches the last merged one extends it.
LEMMA JoinedMerges ==
  ASSUME NEW list \in Seq(TrueSpans), \A i, j \in 1..Len(list) : i < j => StartOf(list[i]) <= StartOf(list[j]),
         NEW k \in Nat, k + 1 <= Len(list), NEW merged, MergedUpTo(merged, list, k), merged # <<>>,
         StartOf(list[k + 1]) <= EndOf(merged[Len(merged)]) + 1,
         NEW joined \in Seq(TrueSpans), Len(joined) = Len(merged),
         \A i \in 1..(Len(merged) - 1) : joined[i] = merged[i],
         StartOf(joined[Len(merged)]) = StartOf(merged[Len(merged)]),
         LET last == EndOf(merged[Len(merged)])
             end == EndOf(joined[Len(merged)])
         IN  last <= end /\ EndOf(list[k + 1]) <= end /\ end \in {last, EndOf(list[k + 1])}
  PROVE  MergedUpTo(joined, list, k + 1)
<1> DEFINE n == Len(merged)
           x == list[k + 1]
           last == merged[n]
           end == EndOf(joined[n])
<1>1. merged \in Seq(TrueSpans) /\ n \in Nat \ {0} /\ n \in 1..n /\ x \in TrueSpans /\ k + 1 \in 1..Len(list)
  BY DEF MergedUpTo
<1>2. /\ \A i \in 1..n : StartOf(merged[i]) \in Int /\ EndOf(merged[i]) \in Int /\ StartOf(merged[i]) < EndOf(merged[i])
      /\ StartOf(x) \in Int /\ EndOf(x) \in Int /\ StartOf(x) < EndOf(x)
  <2>1. \A i \in 1..n : merged[i] \in TrueSpans
    BY <1>1
  <2> QED BY <1>1, <2>1, EndsOfSpan
<1>3. \A i \in 1..n : i = n \/ (i \in 1..(n - 1) /\ i < n)
  BY <1>1
<1>4. /\ \A i \in 1..(n - 1) : joined[i] = merged[i] /\ i \in 1..n
      /\ StartOf(joined[n]) = StartOf(last)
      /\ EndOf(last) <= end /\ EndOf(x) <= end /\ end \in {EndOf(last), EndOf(x)}
      /\ StartOf(x) <= EndOf(last) + 1
      /\ Len(joined) = n
  BY <1>1
<1>5. StartOf(last) <= StartOf(x)
  <2>1. k + 1 \in (k + 1)..Len(list)
    BY <1>1
  <2> QED BY <1>1, <2>1 DEF MergedUpTo
<1> HIDE DEF x, n, last, end
<1>6. \A i \in 1..n : StartOf(joined[i]) = StartOf(merged[i]) /\ EndOf(merged[i]) <= EndOf(joined[i])
  <2> SUFFICES ASSUME NEW i \in 1..n
               PROVE  StartOf(joined[i]) = StartOf(merged[i]) /\ EndOf(merged[i]) <= EndOf(joined[i])
    OBVIOUS
  <2>1. CASE i = n
    BY <1>4, <2>1 DEF last, end
  <2>2. CASE i # n
    <3>1. EndOf(merged[i]) \in Int /\ joined[i] = merged[i]
      BY <1>2, <1>3, <1>4, <2>2
    <3> QED BY <3>1
  <2> QED BY <2>1, <2>2
<1>7. Separated(joined)
  <2> SUFFICES ASSUME NEW i \in 1..n, NEW j \in 1..n, i < j
               PROVE  EndOf(joined[i]) + 1 < StartOf(joined[j])
    BY <1>4 DEF Separated
  <2>1. i \in 1..(n - 1)
    BY <1>1
  <2>2. EndOf(merged[i]) + 1 < StartOf(merged[j])
    BY DEF MergedUpTo, Separated, n
  <2> QED BY <1>4, <1>6, <2>1, <2>2
<1>8. ASSUME NEW i \in 1..n, NEW j \in (k + 2)..Len(list) PROVE StartOf(joined[i]) <= StartOf(list[j])
  <2>1. j \in (k + 1)..Len(list)
    BY <1>1
  <2>2. StartOf(merged[i]) <= StartOf(list[j])
    BY <2>1 DEF MergedUpTo, n
  <2> QED BY <1>6, <2>2
<1>9. ASSUME NEW l \in 1..(k + 1)
      PROVE  \E i \in 1..n : StartOf(joined[i]) <= StartOf(list[l]) /\ EndOf(list[l]) <= EndOf(joined[i])
  <2>1. CASE l = k + 1
    <3>1. StartOf(joined[n]) <= StartOf(list[l]) /\ EndOf(list[l]) <= EndOf(joined[n])
      BY <1>4, <1>5, <2>1 DEF x, end
    <3> QED BY <1>1, <3>1
  <2>2. CASE l # k + 1
    <3>1. PICK i \in 1..n : StartOf(merged[i]) <= StartOf(list[l]) /\ EndOf(list[l]) <= EndOf(merged[i])
      BY <2>2 DEF MergedUpTo, n
    <3>2. l \in 1..Len(list)
      BY <1>1
    <3>3. list[l] \in TrueSpans
      BY <3>2
    <3>4. EndOf(list[l]) \in Int /\ EndOf(merged[i]) \in Int /\ EndOf(joined[i]) \in Int
      <4>1. joined[i] \in TrueSpans
        BY <1>4
      <4> QED BY <1>2, <3>3, <4>1, EndsOfSpan
    <3> QED BY <1>6, <3>1, <3>4
  <2> QED BY <2>1, <2>2
<1>10. ASSUME NEW i \in 1..n, NEW t \in Int, Holds(joined[i], t)
       PROVE  TickBy(list, k + 1, t) \/ (TickBy(list, k + 1, t - 1) /\ TickBy(list, k + 1, t + 1))
  <2>1. CASE Holds(merged[i], t)
    <3>1. TickBy(list, k, t) \/ (TickBy(list, k, t - 1) /\ TickBy(list, k, t + 1))
      BY <2>1 DEF MergedUpTo, n
    <3> QED BY <3>1, TicksGrow
  <2>2. CASE ~Holds(merged[i], t)
    <3>1. i = n /\ EndOf(last) <= t /\ t < EndOf(x)
      <4>1. i = n
        BY <1>3, <1>4, <1>10, <2>2
      <4>2. StartOf(last) <= t /\ t < end
        BY <1>4, <1>10, <4>1 DEF Holds, end
      <4>3. EndOf(last) \in Int /\ EndOf(last) <= t
        BY <1>1, <1>2, <2>2, <4>1, <4>2 DEF Holds, last
      <4> QED BY <1>2, <1>4, <4>1, <4>2, <4>3
    <3>2. CASE StartOf(x) <= t
      BY <3>1, <3>2, TicksGrow DEF Holds, x
    <3>3. CASE t < StartOf(x)
      <4>1. t = EndOf(last) /\ StartOf(x) = t + 1
        BY <1>1, <1>2, <1>4, <3>1, <3>3 DEF last
      <4>2. TickBy(list, k, t - 1)
        BY <1>1, <4>1 DEF MergedUpTo, n, last
      <4>3. Holds(x, t + 1)
        BY <1>2, <4>1 DEF Holds
      <4> QED BY <4>2, <4>3, TicksGrow DEF x
    <3> QED BY <1>2, <3>2, <3>3
  <2> QED BY <2>1, <2>2
<1>11. ASSUME NEW i \in 1..n PROVE TickBy(list, k + 1, EndOf(joined[i]) - 1)
  <2>1. TickBy(list, k, EndOf(merged[i]) - 1)
    BY DEF MergedUpTo, n
  <2>2. CASE EndOf(joined[i]) = EndOf(merged[i])
    BY <2>1, <2>2, TicksGrow
  <2>3. CASE EndOf(joined[i]) # EndOf(merged[i])
    <3>1. EndOf(joined[i]) = EndOf(x)
      BY <1>3, <1>4, <2>3 DEF end, last
    <3>2. Holds(x, EndOf(x) - 1)
      BY <1>2 DEF Holds
    <3> QED BY <3>1, <3>2, TicksGrow DEF x
  <2> QED BY <2>2, <2>3
<1>12. (k + 1) + 1 = k + 2
  OBVIOUS
<1> QED
  BY <1>4, <1>7, <1>8, <1>9, <1>10, <1>11, <1>12 DEF MergedUpTo

\* So `Absorb` keeps the merged spans those of the list so far.
LEMMA AbsorbMerges ==
  ASSUME NEW list \in Seq(TrueSpans), \A i, j \in 1..Len(list) : i < j => StartOf(list[i]) <= StartOf(list[j]),
         NEW k \in Nat, k + 1 <= Len(list), NEW merged, MergedUpTo(merged, list, k)
  PROVE  MergedUpTo(Absorb(merged, list[k + 1]), list, k + 1)
<1> DEFINE n == Len(merged)
           x == list[k + 1]
           last == merged[n]
           longer == <<StartOf(last), Max({EndOf(last), EndOf(x)})>>
           joined == [merged EXCEPT ![n] = longer]
<1>1. merged \in Seq(TrueSpans) /\ n \in Nat /\ x \in TrueSpans
  <2>1. k + 1 \in 1..Len(list)
    OBVIOUS
  <2> QED BY <2>1 DEF MergedUpTo
<1>2. Absorb(merged, x) = IF merged # <<>> /\ StartOf(x) <= EndOf(last) + 1 THEN joined
                          ELSE Append(merged, x)
  BY Zenon DEF Absorb, Last
<1>3. CASE merged # <<>> /\ StartOf(x) <= EndOf(last) + 1
  <2>1. n \in 1..n /\ last \in TrueSpans
    BY <1>1, <1>3
  <2>2. EndOf(last) \in Int /\ EndOf(x) \in Int
    BY <1>1, <2>1, EndsOfSpan
  <2>3. /\ Max({EndOf(last), EndOf(x)}) \in {EndOf(last), EndOf(x)}
        /\ EndOf(last) <= Max({EndOf(last), EndOf(x)}) /\ EndOf(x) <= Max({EndOf(last), EndOf(x)})
    BY <2>2, LargerEnd
  <2>4. joined \in Seq(TrueSpans)
    BY <1>1, <1>2, <1>3, AbsorbKeepsSpans
  <2>5. longer[1] = StartOf(last) /\ longer[2] = Max({EndOf(last), EndOf(x)})
    OBVIOUS
  <2> HIDE DEF longer, last
  <2>6. /\ Len(joined) = n
        /\ joined[n] = longer
        /\ \A i \in 1..(n - 1) : joined[i] = merged[i]
    BY <1>1, <2>1
  <2>7. StartOf(joined[n]) = StartOf(last) /\ EndOf(joined[n]) = Max({EndOf(last), EndOf(x)})
    BY <2>5, <2>6 DEF StartOf, EndOf
  <2> HIDE DEF joined
  <2>8. MergedUpTo(joined, list, k + 1)
    BY <1>3, <2>3, <2>4, <2>6, <2>7, JoinedMerges DEF last
  <2> QED BY <1>2, <1>3, <2>8
<1>4. CASE ~(merged # <<>> /\ StartOf(x) <= EndOf(last) + 1)
  <2>1. merged # <<>> => n \in 1..n /\ last \in TrueSpans
    BY <1>1
  <2>2. merged # <<>> => EndOf(last) \in Int /\ StartOf(x) \in Int
    BY <1>1, <2>1, EndsOfSpan
  <2>3. merged # <<>> => EndOf(last) + 1 < StartOf(x)
    BY <1>4, <2>2
  <2>4. MergedUpTo(Append(merged, x), list, k + 1)
    BY <2>3, AppendedMerges
  <2> QED BY <1>2, <1>4, <2>4
<1> QED BY <1>3, <1>4

\* All spans of a sorted list merged cover what the list covers.
LEMMA ListMerges ==
  ASSUME NEW list \in Seq(TrueSpans), \A i, j \in 1..Len(list) : i < j => StartOf(list[i]) <= StartOf(list[j])
  PROVE  MergedUpTo(FoldLeft(Absorb, <<>>, list), list, Len(list))
<1> DEFINE n == Len(list)
           A == Seq(TrueSpans)
<1>1. \A merged \in A, k \in DOMAIN list : Absorb(merged, list[k]) \in A
  BY AbsorbKeepsSpans
<1>2. <<>> \in A /\ n \in Nat
  OBVIOUS
<1> HIDE DEF A
<1>3. PICK run : /\ run \in [0..n -> A] /\ run[0] = <<>>
                 /\ \A k \in 1..n : run[k] = Absorb(run[k - 1], list[k])
                 /\ FoldLeft(Absorb, <<>>, list) = run[n]
  BY <1>1, <1>2, SpansRun
<1> DEFINE Good == {k \in Nat : k <= n => MergedUpTo(run[k], list, k)}
<1>4. 0 \in Good
  <2>1. <<>> \in Seq(TrueSpans) /\ Len(<<>>) = 0 /\ 1..0 = {}
    OBVIOUS
  <2>2. MergedUpTo(<<>>, list, 0)
    BY <2>1 DEF MergedUpTo, Separated
  <2> QED BY <1>3, <2>2
<1>5. ASSUME NEW k \in Nat, k \in Good PROVE k + 1 \in Good
  <2> SUFFICES ASSUME k + 1 <= n PROVE MergedUpTo(run[k + 1], list, k + 1)
    OBVIOUS
  <2>1. MergedUpTo(run[k], list, k)
    BY <1>2, <1>5
  <2>2. k + 1 \in 1..n /\ (k + 1) - 1 = k
    BY <1>2
  <2>3. run[k + 1] = Absorb(run[k], list[k + 1])
    BY <1>3, <2>2
  <2> QED BY <2>1, <2>3, AbsorbMerges
<1> HIDE DEF Good, n
<1>6. Nat \subseteq Good
  BY <1>4, <1>5, SetInduction
<1>7. MergedUpTo(run[n], list, n)
  BY <1>2, <1>6 DEF Good
<1> QED BY <1>3, <1>7 DEF n

\* A tick of one of some spans.
HasTick(spans, t) == \E i \in 1..Len(spans) : Holds(spans[i], t)

\* The ticks of spans are the integers that one of them holds.
LEMMA TicksAreHeld ==
  ASSUME NEW spans \in Seq(TrueSpans), NEW t
  PROVE  t \in Ticks(spans) <=> t \in Int /\ HasTick(spans, t)
<1>1. DOMAIN spans = 1..Len(spans) /\ \A i \in 1..Len(spans) : spans[i] \in TrueSpans
  OBVIOUS
<1>2. \A i \in 1..Len(spans) : StartOf(spans[i]) \in Int /\ EndOf(spans[i]) \in Int
  BY <1>1, EndsOfSpan
<1>3. \A i \in 1..Len(spans) :
        t \in StartOf(spans[i])..(EndOf(spans[i]) - 1) <=> t \in Int /\ Holds(spans[i], t)
  BY <1>2 DEF Holds
<1> QED BY <1>1, <1>3 DEF Ticks, HasTick

\* Merging tells the time that is covered.
LEMMA MergedCovers ==
  ASSUME NEW spans \in Seq(TrueSpans)
  PROVE  /\ MergeSpans(spans) \in Seq(TrueSpans) /\ Separated(MergeSpans(spans))
         /\ Covered(spans) = {t \in Int : HasTick(MergeSpans(spans), t)}
<1> DEFINE list == ByStart(spans)
           merged == MergeSpans(spans)
           n == Len(list)
<1>1. /\ list \in Seq(TrueSpans) /\ n = Len(spans)
      /\ \A i \in 1..n : \E k \in 1..Len(spans) : list[i] = spans[k]
      /\ \A k \in 1..Len(spans) : \E i \in 1..n : list[i] = spans[k]
      /\ \A i, j \in 1..n : i < j => StartOf(list[i]) <= StartOf(list[j])
  BY ByStartSorts
<1>2. merged = FoldLeft(Absorb, <<>>, list)
  BY DEF MergeSpans
<1> HIDE DEF list, merged
<1>3. MergedUpTo(merged, list, n)
  BY <1>1, <1>2, ListMerges
<1>4. merged \in Seq(TrueSpans) /\ Separated(merged)
  BY <1>3 DEF MergedUpTo
<1>5. ASSUME NEW t PROVE TickBy(list, n, t) <=> HasTick(spans, t)
  BY <1>1 DEF TickBy, HasTick
<1>6. ASSUME NEW t PROVE t \in Ticks(spans) <=> t \in Int /\ TickBy(list, n, t)
  BY <1>5, TicksAreHeld
<1> HIDE DEF n
<1>7. ASSUME NEW t \in Int, TickBy(list, n, t) PROVE HasTick(merged, t)
  <2>1. PICK l \in 1..n : Holds(list[l], t)
    BY <1>7 DEF TickBy
  <2>2. PICK i \in 1..Len(merged) : StartOf(merged[i]) <= StartOf(list[l]) /\ EndOf(list[l]) <= EndOf(merged[i])
    BY <1>3, <2>1 DEF MergedUpTo
  <2>3. list[l] \in TrueSpans /\ merged[i] \in TrueSpans
    <3>1. list \in Seq(TrueSpans) /\ l \in 1..Len(list)
      BY <1>1, <2>1 DEF n
    <3> QED BY <1>4, <2>2, <3>1
  <2>4. /\ StartOf(list[l]) \in Int /\ EndOf(list[l]) \in Int
        /\ StartOf(merged[i]) \in Int /\ EndOf(merged[i]) \in Int
    BY <2>3, EndsOfSpan
  <2>5. Holds(merged[i], t)
    BY <2>1, <2>2, <2>4 DEF Holds
  <2> QED BY <2>5 DEF HasTick
<1>8. ASSUME NEW t \in Int, HasTick(merged, t - 1), HasTick(merged, t + 1) PROVE HasTick(merged, t)
  <2>1. PICK i \in 1..Len(merged) : Holds(merged[i], t - 1)
    BY <1>8 DEF HasTick
  <2>2. PICK j \in 1..Len(merged) : Holds(merged[j], t + 1)
    BY <1>8 DEF HasTick
  <2>3. merged[i] \in TrueSpans /\ merged[j] \in TrueSpans
    BY <1>4
  <2>4. /\ StartOf(merged[i]) \in Int /\ EndOf(merged[i]) \in Int
        /\ StartOf(merged[j]) \in Int /\ EndOf(merged[j]) \in Int
        /\ StartOf(merged[i]) < EndOf(merged[i]) /\ StartOf(merged[j]) < EndOf(merged[j])
    BY <2>3, EndsOfSpan
  <2>5. ~(i < j) /\ ~(j < i)
    <3>1. i < j => EndOf(merged[i]) + 1 < StartOf(merged[j])
      BY <1>4 DEF Separated
    <3>2. j < i => EndOf(merged[j]) + 1 < StartOf(merged[i])
      BY <1>4 DEF Separated
    <3> QED BY <2>1, <2>2, <2>4, <3>1, <3>2 DEF Holds
  <2>6. i = j
    BY <2>5
  <2>7. Holds(merged[i], t)
    BY <2>1, <2>2, <2>4, <2>6 DEF Holds
  <2> QED BY <2>7 DEF HasTick
<1>9. ASSUME NEW t PROVE t \in Covered(spans) <=> t \in Int /\ HasTick(merged, t)
  <2>1. t \in Covered(spans) <=>
          t \in Int /\ (TickBy(list, n, t) \/ (TickBy(list, n, t - 1) /\ TickBy(list, n, t + 1)))
    <3>1. t \in Covered(spans) <=>
            t \in Ticks(spans) \/ (\E u \in Ticks(spans) : t = u + 1 /\ t + 1 \in Ticks(spans))
      BY DEF Covered
    <3>2. \A u \in Ticks(spans) : u \in Int
      BY TicksAreHeld
    <3>3. (\E u \in Ticks(spans) : t = u + 1 /\ t + 1 \in Ticks(spans)) <=>
            t \in Int /\ t - 1 \in Ticks(spans) /\ t + 1 \in Ticks(spans)
      <4>1. ASSUME NEW u \in Ticks(spans), t = u + 1 PROVE t \in Int /\ t - 1 = u
        BY <3>2, <4>1
      <4>2. ASSUME t \in Int PROVE t = (t - 1) + 1
        BY <4>2
      <4> QED BY <4>1, <4>2
    <3>4. t \in Int => t - 1 \in Int /\ t + 1 \in Int
      OBVIOUS
    <3> QED BY <1>6, <3>1, <3>3, <3>4
  <2>2. t \in Int => t - 1 \in Int /\ t + 1 \in Int
    OBVIOUS
  <2>3. ASSUME t \in Int, HasTick(merged, t)
        PROVE  TickBy(list, n, t) \/ (TickBy(list, n, t - 1) /\ TickBy(list, n, t + 1))
    BY <1>3, <2>3 DEF MergedUpTo, HasTick
  <2> QED BY <1>7, <1>8, <2>1, <2>2, <2>3
<1>10. Covered(spans) = {t \in Int : HasTick(merged, t)}
  BY <1>9
<1> QED BY <1>4, <1>10 DEF merged
-------------------------------------------------------------------------------
(* A file compared with itself.                                            *)
LEMMA TolItself ==
  ASSUME NEW b, NEW severity, NEW t, IsTolerance(t), Measurable(b), HasMagnitude(b.value),
         EstimatedFactor \in Nat \ {0}, MaxInt \in Nat
  PROVE  CompareTol(b, b, severity, t).status = "pass"
<1> DEFINE x == Basis(b, b)
           widening == IF b.estimated \/ b.estimated THEN EstimatedFactor ELSE 1
           moved == EndDeltaMoved(b, b)
<1>1. ~CrossesCeiling(b, b, x, x)
  BY DEF CrossesCeiling
<1>2. GatedByEndDelta(b, b) => Representable(moved)
  <2> SUFFICES ASSUME GatedByEndDelta(b, b) PROVE Representable(moved)
    OBVIOUS
  <2>1. b.end_delta[1] \in Int
    BY DEF GatedByEndDelta, Measurable
  <2>2. moved = 0
    BY <2>1 DEF EndDeltaMoved
  <2> QED BY <2>2 DEF Representable
<1>3. x.num \in Int /\ x.den \in Nat /\ widening \in Nat
  BY BasisIsFraction DEF Fraction
<1> HIDE DEF x, widening, moved
<1>4. ASSUME NEW n \in Nat PROVE Within(n, x, x, t, widening)
  <2>1. Magnitude(x.num * x.den - x.num * x.den) = 0
    <3>1. x.num * x.den \in Int
      BY <1>3
    <3> QED BY <3>1 DEF Magnitude
  <2>2. t.den \in Nat
    BY DEF IsTolerance
  <2>3. 0 * t.den * 100 = 0 /\ 0 * t.den = 0
    BY <2>2
  <2>4. n * widening * Magnitude(x.num) * x.den \in Nat /\ n * widening * x.den * x.den \in Nat
    <3>1. Magnitude(x.num) \in Nat /\ n * widening \in Nat
      BY <1>3 DEF Magnitude
    <3>2. n * widening * Magnitude(x.num) \in Nat /\ n * widening * x.den \in Nat
      BY <1>3, <3>1
    <3> QED BY <1>3, <3>2
  <2> QED BY <2>1, <2>3, <2>4 DEF Within
<1>5. ZoneStatus(x, x, severity, t, widening) = "pass"
  <2>1. t.num \in Nat /\ (t.warn # <<>> => t.warn[1] \in Nat)
    BY DEF IsTolerance
  <2> QED BY <1>4, <2>1 DEF ZoneStatus
<1>6. CompareTol(b, b, severity, t).status =
        IF GatedByEndDelta(b, b) /\ Magnitude(moved) < EndDeltaEpsilon THEN "pass"
        ELSE ZoneStatus(x, x, severity, t, widening)
  BY <1>1, <1>2 DEF CompareTol, Judged, x, widening, moved
<1> QED BY <1>5, <1>6

\* No bin counts more than all the bins.
LEMMA CountsWithinTotal ==
  ASSUME NEW bins, IsHistogram(bins), NEW name \in DOMAIN bins
  PROVE  bins[name] <= TotalOf(bins)
<1> DEFINE S == DOMAIN bins
<1>1. PICK fold, pick :
        /\ IsPick(pick, S)
        /\ fold \in [SUBSET S -> Nat]
        /\ fold[{}] = 0
        /\ \A s \in SUBSET S : s # {} => fold[s] = bins[pick[s]] + fold[s \ {pick[s]}]
        /\ TotalOf(bins) = fold[S]
  BY TotalRuns
<1>0. IsFiniteSet(S) /\ \A x \in S : bins[x] \in Nat
  BY DEF IsHistogram
<1> HIDE DEF S
<1> DEFINE Good == {k \in Nat : \A s \in SUBSET S : Cardinality(s) = k =>
                                  \A x \in s : bins[x] <= fold[s]}
<1>2. 0 \in Good
  <2>1. \A s \in SUBSET S : Cardinality(s) = 0 => s = {}
    BY <1>0, FS_Subset, FS_EmptySet
  <2> QED BY <2>1
<1>3. ASSUME NEW k \in Nat, k \in Good PROVE k + 1 \in Good
  <2> SUFFICES ASSUME NEW s \in SUBSET S, Cardinality(s) = k + 1, NEW x \in s
               PROVE  bins[x] <= fold[s]
    OBVIOUS
  <2>1. pick[s] \in s
    BY <1>1 DEF IsPick
  <2>2. s \ {pick[s]} \in SUBSET S /\ Cardinality(s \ {pick[s]}) = k
    BY <1>0, <2>1, SmallerWithout
  <2>3. fold[s] = bins[pick[s]] + fold[s \ {pick[s]}]
    BY <1>1, <2>1
  <2>4. bins[pick[s]] \in Nat /\ bins[x] \in Nat /\ fold[s \ {pick[s]}] \in Nat
    BY <1>0, <1>1, <2>1, <2>2
  <2>5. x # pick[s] => bins[x] <= fold[s \ {pick[s]}]
    BY <1>3, <2>2
  <2> QED BY <2>3, <2>4, <2>5
<1> HIDE DEF Good
<1>4. Nat \subseteq Good
  BY <1>2, <1>3, SetInduction
<1>5. Cardinality(S) \in Nat
  BY <1>0, FS_CardinalityType
<1>6. name \in S
  BY DEF S
<1> QED BY <1>1, <1>4, <1>5, <1>6 DEF Good

\* The worst of no bin.
NoWorst == [any |-> FALSE, overflowed |-> FALSE, num |-> 0, den |-> 1]

\* The worst of some bins is found bin by bin.
LEMMA WorstRuns ==
  ASSUME NEW bins, IsFiniteSet(DOMAIN bins), NEW A, NoWorst \in A,
         \A a \in A, x \in DOMAIN bins : AgainstWorst(bins[x], a) \in A
  PROVE  \E fold, pick :
           /\ IsPick(pick, DOMAIN bins)
           /\ fold \in [SUBSET DOMAIN bins -> A]
           /\ fold[{}] = NoWorst
           /\ \A s \in SUBSET DOMAIN bins :
                s # {} => fold[s] = AgainstWorst(bins[pick[s]], fold[s \ {pick[s]}])
           /\ WorstOf(bins) = fold[DOMAIN bins]
<1> DEFINE S == DOMAIN bins
           Folds(iter) == iter = [s \in SUBSET S |->
                                 IF s = {} THEN NoWorst
                                 ELSE AgainstWorst(bins[CHOOSE x \in s : TRUE],
                                                   iter[s \ {CHOOSE x \in s : TRUE}])]
           fold == CHOOSE iter : Folds(iter)
           pick == [s \in SUBSET S |-> CHOOSE x \in s : TRUE]
           step == [p \in A \X S |-> AgainstWorst(bins[p[2]], p[1])]
<1>1. IsPick(pick, S) /\ \A s \in SUBSET S : pick[s] = CHOOSE x \in s : TRUE
  BY DEF IsPick
<1>3. /\ step \in [A \X S -> A]
      /\ \A a \in A, x \in S : step[<<a, x>>] = AgainstWorst(bins[x], a)
  OBVIOUS
<1>4. WorstOf(bins) = fold[S]
  BY Zenon DEF WorstOf, FoldFunction, FoldFunctionOnSet, MapThenFoldSet, NoWorst
<1>5. NoWorst \in A /\ IsFiniteSet(S)
  OBVIOUS
<1> HIDE DEF pick, step, S
<1>8. Folds(fold)
  <2> HIDE DEF Folds, fold
  <2>1. PICK g : IsSetFold(g, A, NoWorst, S, pick, step)
    BY <1>1, <1>3, <1>5, SetFoldExists
  <2>2. ASSUME NEW s \in SUBSET S, s # {}
        PROVE  g[s] = AgainstWorst(bins[CHOOSE x \in s : TRUE], g[s \ {CHOOSE x \in s : TRUE}])
    <3>1. pick[s] \in S /\ s \ {pick[s]} \in SUBSET S
      BY <1>1, <2>2 DEF IsPick
    <3>2. g[s \ {pick[s]}] \in A
      BY <2>1, <3>1 DEF IsSetFold
    <3>3. g[s] = step[<<g[s \ {pick[s]}], pick[s]>>]
      BY <2>1, <2>2 DEF IsSetFold
    <3>4. step[<<g[s \ {pick[s]}], pick[s]>>] = AgainstWorst(bins[pick[s]], g[s \ {pick[s]}])
      BY <1>3, <3>1, <3>2
    <3>5. pick[s] = CHOOSE x \in s : TRUE
      BY <1>1
    <3> QED BY <3>3, <3>4, <3>5, Zenon
  <2>3. Folds(g)
    BY <2>1, <2>2 DEF Folds, IsSetFold
  <2> QED BY <2>3 DEF fold
<1> HIDE DEF fold
<1>9. /\ fold \in [SUBSET S -> {fold[s] : s \in SUBSET S}]
      /\ fold[{}] = NoWorst
      /\ \A s \in SUBSET S : s # {} => fold[s] = AgainstWorst(bins[pick[s]], fold[s \ {pick[s]}])
  BY <1>1, <1>8
<1> HIDE DEF Folds
<1>10. SetUnfolds(fold, A, NoWorst, S, pick, step)
  <2>1. ASSUME NEW s \in SUBSET S, s # {}, fold[s \ {pick[s]}] \in A
        PROVE  fold[s] = step[<<fold[s \ {pick[s]}], pick[s]>>]
    <3>1. pick[s] \in S
      BY <1>1, <2>1 DEF IsPick
    <3> QED BY <1>3, <1>9, <2>1, <3>1
  <2> QED BY <1>9, <2>1 DEF SetUnfolds
<1>11. IsSetFold(fold, A, NoWorst, S, pick, step)
  BY <1>1, <1>3, <1>5, <1>10, SetFoldRuns
<1>12. fold \in [SUBSET S -> A]
  BY <1>11 DEF IsSetFold
<1> QED BY <1>1, <1>4, <1>9, <1>12 DEF S

\* Bins without a difference leave the worst at none.
LEMMA WorstOfNoDifference ==
  ASSUME NEW bins, IsFiniteSet(DOMAIN bins), NEW d \in Nat, MaxInt \in Nat, d <= MaxInt,
         \A name \in DOMAIN bins : bins[name].fits /\ bins[name].num = 0 /\ bins[name].den = d
  PROVE  /\ ~WorstOf(bins).overflowed /\ WorstOf(bins).num = 0
         /\ WorstOf(bins).any => WorstOf(bins).den = d
<1> DEFINE same == [any |-> TRUE, overflowed |-> FALSE, num |-> 0, den |-> d]
           A == {NoWorst, same}
           S == DOMAIN bins
<1>1. ASSUME NEW a \in A, NEW x \in S PROVE AgainstWorst(bins[x], a) \in A
  <2>1. bins[x].fits /\ bins[x].num = 0 /\ bins[x].den = d
    OBVIOUS
  <2>2. ~a.overflowed /\ a.num = 0 /\ a.den \in Nat /\ (a.any => a = same)
    BY DEF NoWorst
  <2>3. bins[x].num * a.den = 0 /\ a.num * bins[x].den = 0 /\ Representable(0)
    BY <2>1, <2>2 DEF Representable
  <2>4. AgainstWorst(bins[x], a) = IF a.any THEN a ELSE same
    BY <2>1, <2>2, <2>3 DEF AgainstWorst
  <2> QED BY <2>2, <2>4
<1>2. \A a \in A : ~a.overflowed /\ a.num = 0 /\ (a.any => a.den = d)
  BY DEF NoWorst
<1>3. NoWorst \in A /\ S \in SUBSET S
  OBVIOUS
<1> HIDE DEF A
<1>4. PICK fold : fold \in [SUBSET S -> A] /\ WorstOf(bins) = fold[S]
  BY <1>1, <1>3, WorstRuns
<1>5. WorstOf(bins) \in A
  BY <1>3, <1>4
<1> QED BY <1>2, <1>5

\* A histogram against itself passes while its products fit.
LEMMA DistItself ==
  ASSUME NEW b, NEW severity, NEW t, IsTolerance(t), MaxInt \in Nat,
         IsHistogram(Bins(b.value)),
         LET total == ProportionTotal(Bins(b.value))
         IN  total * total * Larger(1, t.num) <= MaxInt
  PROVE  CompareDist(b, b, severity, t).status = "pass"
<1> DEFINE bins == Bins(b.value)
           T == ProportionTotal(bins)
           total == TotalOf(bins)
           m == Larger(1, t.num)
           diff == Differences(bins, bins)
           d == T * T
<1>1. total \in Nat /\ T \in Nat \ {0} /\ total <= T
  BY ProportionTotalIsCount DEF ProportionTotal
<1>2. t.num \in Nat /\ t.den \in Nat
  BY DEF IsTolerance
<1>3. m \in Nat /\ 1 <= m /\ t.num <= m
  BY <1>2 DEF Larger
<1>4. T * T * m <= MaxInt
  OBVIOUS
<1>5. \A name \in DOMAIN bins : bins[name] \in Nat /\ bins[name] <= T
  BY <1>1, CountsWithinTotal DEF IsHistogram
<1>6. IsFiniteSet(DOMAIN bins)
  BY DEF IsHistogram
<1>7. diff = [name \in DOMAIN bins |-> BinDifference(bins[name], T, bins[name], T)]
  BY DEF Differences, BinCount
<1>8. CompareDist(b, b, severity, t) =
        LET worst == WorstOf(diff)
            scaled == worst.num * t.den
        IN  IF ~Representable(total) THEN Judged("error")
            ELSE IF worst.overflowed THEN Judged("error")
            ELSE IF ~worst.any THEN Judged("pass")
            ELSE IF ~Representable(scaled) \/ ~Representable(scaled * 100)
                      \/ ~Representable(t.num * worst.den)
              THEN Judged("error")
            ELSE IF scaled * 100 <= t.num * worst.den THEN Judged("pass")
            ELSE Judged(Escalate(severity))
  BY DEF CompareDist
<1> HIDE DEF bins, T, total, m, diff
<1>9. d \in Nat /\ 1 * d <= m * d /\ t.num * d <= m * d /\ m * d <= MaxInt /\ t.num * d \in Nat
  <2>1. d \in Nat
    BY <1>1
  <2>2. m * d = T * T * m
    BY <1>1, <1>3
  <2> HIDE DEF d
  <2>3. 1 * d <= m * d /\ t.num * d <= m * d /\ t.num * d \in Nat
    BY <1>2, <1>3, <2>1, ProductOrder
  <2> QED BY <1>4, <2>1, <2>2, <2>3
<1>10. T <= d
  <2>1. 1 * T <= T * T
    BY <1>1, ProductOrder
  <2> QED BY <1>1, <2>1
<1>11. d <= MaxInt /\ t.num * d <= MaxInt /\ total <= MaxInt
  <2> HIDE DEF d
  <2>1. m * d \in Int
    BY <1>3, <1>9
  <2> QED BY <1>1, <1>2, <1>9, <1>10, <2>1
<1>12. ASSUME NEW name \in DOMAIN bins
       PROVE  diff[name].fits /\ diff[name].num = 0 /\ diff[name].den = d
  <2> DEFINE n == bins[name]
  <2>1. n \in Nat /\ n <= T
    BY <1>5
  <2> HIDE DEF n
  <2>2. n * T <= T * T /\ n * T \in Nat
    BY <1>1, <2>1, ProductOrder
  <2>3. n * T <= MaxInt /\ Magnitude(n * T - n * T) = 0
    BY <1>9, <1>11, <2>2 DEF Magnitude
  <2>4. \A k \in {n * T, n * T, 0, d} : Representable(k)
    BY <1>9, <1>11, <2>2, <2>3 DEF Representable
  <2>5. diff[name] = BinDifference(n, T, n, T)
    BY <1>7 DEF n
  <2> QED BY <2>3, <2>4, <2>5 DEF BinDifference
<1> HIDE DEF d
<1>13. DOMAIN diff = DOMAIN bins
  BY <1>7
<1>14. /\ ~WorstOf(diff).overflowed /\ WorstOf(diff).num = 0
       /\ WorstOf(diff).any => WorstOf(diff).den = d
  BY <1>6, <1>9, <1>11, <1>12, <1>13, WorstOfNoDifference
<1>15. Representable(total) /\ Representable(0) /\ Representable(t.num * d)
  BY <1>1, <1>9, <1>11 DEF Representable
<1>16. 0 * t.den = 0 /\ 0 * 100 = 0 /\ 0 <= t.num * d
  BY <1>2, <1>9
<1> QED BY <1>8, <1>14, <1>15, <1>16 DEF Judged

-------------------------------------------------------------------------------
(* Spans whose times fit never overflow.                                   *)
FitSpans == {span \in TrueSpans : /\ TickFits(StartOf(span)) /\ TickFits(EndOf(span))
                                  /\ Representable(EndOf(span) + 1)}
FitEnds == {e \in Int : TickFits(e) /\ Representable(e + 1)}
SpansOverflow(b, c) ==
  \/ MergeOverflows(SpansOf(b.value)) \/ MergeOverflows(SpansOf(c.value))
  \/ MatchOverflows(MergeSpans(SpansOf(c.value)), MergeSpans(SpansOf(b.value)))
  \/ MatchOverflows(MergeSpans(SpansOf(b.value)), MergeSpans(SpansOf(c.value)))

\* A span made of the start of one and the later end of two fits as they do.
LEMMA LongerFits ==
  ASSUME NEW x \in FitSpans, NEW y \in FitSpans
  PROVE  <<StartOf(x), Max({EndOf(x), EndOf(y)})>> \in FitSpans
<1> DEFINE end == Max({EndOf(x), EndOf(y)})
<1>1. /\ x \in TrueSpans /\ y \in TrueSpans
      /\ TickFits(StartOf(x)) /\ EndOf(x) \in FitEnds /\ EndOf(y) \in FitEnds
  BY DEF FitSpans, FitEnds, TrueSpans, EndOf
<1>2. StartOf(x) \in Int /\ EndOf(x) \in Int /\ EndOf(y) \in Int /\ StartOf(x) < EndOf(x)
  BY <1>1 DEF TrueSpans, StartOf, EndOf
<1>3. end \in {EndOf(x), EndOf(y)} /\ EndOf(x) <= end
  BY <1>2, LargerEnd
<1> HIDE DEF end
<1>4. end \in FitEnds /\ end \in Int /\ StartOf(x) < end
  BY <1>1, <1>2, <1>3
<1> DEFINE long == <<StartOf(x), end>>
<1>5. long \in Int \X Int /\ StartOf(long) = StartOf(x) /\ EndOf(long) = end
  BY <1>2, <1>4 DEF StartOf, EndOf
<1> HIDE DEF long
<1>6. long \in TrueSpans
  BY <1>2, <1>4, <1>5 DEF TrueSpans
<1>7. long \in FitSpans
  BY <1>1, <1>4, <1>5, <1>6 DEF FitSpans, FitEnds
<1> QED BY <1>7 DEF long, end

\* Merging one more span that fits leaves spans that fit, at least one of them.
LEMMA AbsorbKeepsFit ==
  ASSUME NEW merged \in Seq(FitSpans), NEW span \in FitSpans
  PROVE  Absorb(merged, span) \in Seq(FitSpans) /\ Absorb(merged, span) # <<>>
<1> DEFINE n == Len(merged)
           last == merged[n]
           longer == <<StartOf(last), Max({EndOf(last), EndOf(span)})>>
           joined == [merged EXCEPT ![n] = longer]
<1>1. Append(merged, span) \in Seq(FitSpans) /\ Append(merged, span) # <<>>
  BY AppendedEntry
<1>2. ASSUME merged # <<>> PROVE joined \in Seq(FitSpans) /\ joined # <<>>
  <2>1. n \in 1..n /\ n \in Nat /\ DOMAIN merged = 1..n
    BY <1>2
  <2>2. last \in FitSpans
    BY <2>1
  <2>3. longer \in FitSpans
    BY <2>2, LongerFits
  <2> HIDE DEF longer, n
  <2>4. \A k \in 1..n : joined[k] \in FitSpans
    <3>1. \A k \in 1..n : merged[k] \in FitSpans
      BY <2>1
    <3> QED BY <2>1, <2>3, <3>1
  <2>5. joined = [k \in 1..n |-> joined[k]]
    BY <2>1
  <2> HIDE DEF joined
  <2>6. joined \in Seq(FitSpans)
    BY <2>1, <2>4, <2>5
  <2>7. Len(joined) = n
    BY <2>1, <2>5
  <2> QED BY <2>1, <2>6, <2>7
<1>3. Absorb(merged, span) = IF merged # <<>> /\ StartOf(span) <= EndOf(last) + 1 THEN joined
                            ELSE Append(merged, span)
  BY Zenon DEF Absorb, Last
<1> HIDE DEF joined, last
<1> QED BY <1>1, <1>2, <1>3

\* So spans that fit merge to spans that fit.
LEMMA FitMerges ==
  ASSUME NEW list \in Seq(FitSpans)
  PROVE  /\ FoldLeft(Absorb, <<>>, list) \in Seq(FitSpans)
         /\ list # <<>> => FoldLeft(Absorb, <<>>, list) # <<>>
<1> DEFINE A == Seq(FitSpans)
<1>1. <<>> \in A /\ \A p \in A, k \in DOMAIN list : Absorb(p, list[k]) \in A
  BY AbsorbKeepsFit
<1>2. PICK run : /\ run \in [0..Len(list) -> A]
                 /\ run[0] = <<>>
                 /\ \A k \in 1..Len(list) : run[k] = Absorb(run[k - 1], list[k])
                 /\ FoldLeft(Absorb, <<>>, list) = run[Len(list)]
  <2> HIDE DEF A
  <2> QED BY <1>1, SpansRun
<1>3. Len(list) \in Nat /\ DOMAIN list = 1..Len(list) /\ (list # <<>> => Len(list) \in 1..Len(list))
  OBVIOUS
<1>4. run[Len(list)] \in A
  BY <1>2, <1>3
<1>5. ASSUME list # <<>> PROVE run[Len(list)] # <<>>
  <2>1. Len(list) - 1 \in 0..Len(list) /\ list[Len(list)] \in FitSpans
    BY <1>3, <1>5
  <2>2. run[Len(list) - 1] \in Seq(FitSpans)
    BY <1>2, <2>1
  <2> QED BY <1>2, <1>3, <1>5, <2>1, <2>2, AbsorbKeepsFit
<1> QED BY <1>2, <1>4, <1>5

\* Merging spans that fit compares no times that overflow.
LEMMA FitSpansMerge ==
  ASSUME NEW spans \in Seq(FitSpans)
  PROVE  ~MergeOverflows(spans) /\ MergeSpans(spans) \in Seq(FitSpans)
<1> DEFINE list == ByStart(spans)
           MergedBefore(i) == FoldLeft(Absorb, <<>>, SubSeq(list, 1, i - 1))
<1>1. spans \in Seq(TrueSpans)
  BY DEF FitSpans
<1>2. /\ list \in Seq(TrueSpans) /\ Len(list) = Len(spans)
      /\ \A i \in 1..Len(list) : \E k \in 1..Len(spans) : list[i] = spans[k]
  BY <1>1, ByStartSorts
<1> HIDE DEF list
<1>3. list \in Seq(FitSpans)
  <2>1. \A i \in 1..Len(list) : list[i] \in FitSpans
    BY <1>2
  <2>2. list = [i \in 1..Len(list) |-> list[i]] /\ Len(list) \in Nat
    BY <1>2
  <2> QED BY <2>1, <2>2
<1>4. MergeSpans(spans) \in Seq(FitSpans)
  BY <1>3, FitMerges DEF MergeSpans, list
<1>5. \A i \in DOMAIN spans : TickFits(StartOf(spans[i]))
  <2>1. \A i \in DOMAIN spans : spans[i] \in FitSpans
    OBVIOUS
  <2> QED BY <2>1 DEF FitSpans
<1>6. ASSUME NEW i \in 2..Len(spans) PROVE ~AbsorbOverflows(Last(MergedBefore(i)), list[i])
  <2>1. i \in Int /\ i - 1 \in 1..Len(list) /\ i \in 1..Len(list)
    BY <1>2, <1>6
  <2>2. SubSeq(list, 1, i - 1) \in Seq(FitSpans) /\ SubSeq(list, 1, i - 1) # <<>>
    <3>1. \A k \in 1..(i - 1) : list[k] \in FitSpans
      BY <1>3, <2>1
    <3>2. SubSeq(list, 1, i - 1) = [k \in 1..(i - 1) |-> list[k]]
      BY <1>3, <2>1
    <3> QED BY <2>1, <3>1, <3>2
  <2>3. MergedBefore(i) \in Seq(FitSpans) /\ MergedBefore(i) # <<>>
    BY <2>2, FitMerges
  <2> HIDE DEF MergedBefore
  <2>4. Last(MergedBefore(i)) \in FitSpans /\ list[i] \in FitSpans
    BY <1>3, <2>1, <2>3 DEF Last
  <2> QED BY <2>4 DEF AbsorbOverflows, FitSpans
<1>7. MergeOverflows(spans) =
        (\/ Len(spans) > 1 /\ \E i \in DOMAIN spans : ~TickFits(StartOf(spans[i]))
         \/ \E i \in 2..Len(spans) : AbsorbOverflows(Last(MergedBefore(i)), list[i]))
  BY DEF MergeOverflows, list
<1> HIDE DEF MergedBefore
<1> QED BY <1>4, <1>5, <1>6, <1>7

\* Nor does holding such spans against each other.
LEMMA FitSpansMatch ==
  ASSUME NEW merged \in Seq(FitSpans), NEW others \in Seq(FitSpans)
  PROVE  ~MatchOverflows(merged, others)
<1>1. \A i \in DOMAIN merged, k \in DOMAIN others : merged[i] \in FitSpans /\ others[k] \in FitSpans
  OBVIOUS
<1>2. \A i \in DOMAIN merged, k \in DOMAIN others : ~OverlapOverflows(merged[i], others[k])
  BY <1>1 DEF OverlapOverflows, FitSpans
<1> QED BY <1>2 DEF MatchOverflows

\* So only times that do not fit can overflow, and nothing else is an error.
LEMMA FitSpansAreJudged ==
  ASSUME NEW b, NEW c, SpansOf(b.value) \in Seq(TrueSpans), SpansOf(c.value) \in Seq(TrueSpans),
         EndsFit(b), EndsFit(c)
  PROVE  ~SpansOverflow(b, c)
<1>1. ASSUME NEW m, SpansOf(m.value) \in Seq(TrueSpans), EndsFit(m) PROVE SpansOf(m.value) \in Seq(FitSpans)
  <2> DEFINE spans == SpansOf(m.value)
  <2>1. \A k \in 1..Len(spans) : spans[k] \in TrueSpans /\ spans[k] \in Range(spans)
    BY <1>1 DEF Range
  <2>2. \A span \in Range(spans) : /\ TickFits(StartOf(span)) /\ TickFits(EndOf(span))
                                  /\ Representable(EndOf(span) + 1)
    BY <1>1, Zenon DEF EndsFit
  <2> HIDE DEF spans
  <2>3. \A k \in 1..Len(spans) : spans[k] \in FitSpans
    BY <2>1, <2>2 DEF FitSpans
  <2>4. spans = [k \in 1..Len(spans) |-> spans[k]] /\ Len(spans) \in Nat
    BY <1>1 DEF spans
  <2>5. spans \in Seq(FitSpans)
    BY <2>3, <2>4
  <2> QED BY <2>5 DEF spans
<1>2. SpansOf(b.value) \in Seq(FitSpans) /\ SpansOf(c.value) \in Seq(FitSpans)
  BY <1>1
<1> QED BY <1>2, FitSpansMerge, FitSpansMatch DEF SpansOverflow

\* Spans against themselves pass, unless their times overflow.
LEMMA SpanItself ==
  ASSUME NEW b, NEW severity, SpansOf(b.value) \in Seq(TrueSpans)
  PROVE  \/ CompareSpan(b, b, severity).status = "pass"
         \/ CompareSpan(b, b, severity).status = "error" /\ ~EndsFit(b)
<1> DEFINE merged == MergeSpans(SpansOf(b.value))
<1>1. merged \in Seq(TrueSpans)
  BY MergedCovers
<1> HIDE DEF merged
<1>2. \A x \in Range(merged) : Overlaps(x, x)
  BY <1>1 DEF Range, TrueSpans, Overlaps
<1>3. Unmatched(merged, merged) = {}
  BY <1>2 DEF Unmatched
<1>4. CompareSpan(b, b, severity).status = IF SpansOverflow(b, b) THEN "error" ELSE "pass"
  BY <1>3 DEF CompareSpan, Judged, merged, SpansOverflow
<1>5. EndsFit(b) => ~SpansOverflow(b, b)
  BY FitSpansAreJudged
<1> QED BY <1>4, <1>5

\* What the comparators make of a measurement and itself.
LEMMA JudgedItself ==
  ASSUME PromisesIInv, NEW f \in JudgedFindings, Candidate(f) = Baseline(f),
         CheckOf(f).semantic # "state", ~Expecting(f),
         CheckOf(f).semantic = "dist" => CountsFit(f)
  PROVE  \/ f.status \in {"pass", "skipped"}
         \/ CheckOf(f).semantic = "span" /\ ~EndsFit(Baseline(f)) /\ f.status = "error"
<1> DEFINE b == Baseline(f)
           check == CheckOf(f)
           t == ToleranceFor(check, world.profile)
<1>1. world \in Worlds
  BY DEF PromisesIInv, WorldReported
<1>2. f.key[1] \in Checks
  BY DEF JudgedFindings, PromisesIInv, EngineIInv, EngineInv, EngineTypeOK
<1>3. IsTolerance(t)
  BY <1>1, <1>2, PromisesAssumption DEF IsTolerance, Tolerances, CheckOf
<1>4. f.key \in KeysOf(world.baseline) /\ b.skip = "none"
  BY DEF JudgedFindings, Comparable, Paired, Baseline
<1>5. Measurable(b) /\ (check.semantic = "hash" => Is(b.value, "hash_chain"))
  BY <1>1, <1>4, PromisesAssumption DEF Baseline, CheckOf
<1>6. IsHistogram(Bins(b.value)) /\ SpansOf(b.value) \in Seq(TrueSpans)
  BY <1>5 DEF Measurable, IsHistogram, TrueSpans
<1>7. EstimatedFactor \in Nat \ {0} /\ MaxInt \in Nat
  BY PromisesAssumption
<1>8. check.semantic \in Semantics
  BY <1>2, RegistryAssumption DEF CheckOf
<1>9. f.status = Rejudged(f, b, b).status /\ Rejudged(f, b, b).error = "none"
  BY DEF PromisesIInv, WorldReported, ReportedAsCompared
<1>10. check.semantic = "dist" =>
         LET total == ProportionTotal(Bins(b.value))
         IN  total * total * Larger(1, t.num) <= MaxInt
  BY DEF CountsFit
<1>11. check.semantic # "state" /\ ~Expecting(f)
  OBVIOUS
<1> HIDE DEF b, t, check
<1>12. Rejudged(f, b, b) =
         Compare(f.key[1], b, b, f.severity, world.profile, world.expectation)
  BY DEF Rejudged
<1>13. CASE check.semantic = "exact"
  <2>1. Rejudged(f, b, b) = Judged("pass")
    BY <1>11, <1>12, <1>13 DEF Compare, CompareExact, CheckOf, Expecting, check
  <2> QED BY <1>9, <2>1 DEF Judged
<1>14. CASE check.semantic = "tol"
  <2>1. Rejudged(f, b, b) = CompareTol(b, b, f.severity, t)
    BY <1>12, <1>14 DEF Compare, CheckOf, check, t
  <2>2. HasMagnitude(b.value)
    BY <1>9, <2>1 DEF CompareTol, Aborts, Judged
  <2>3. CompareTol(b, b, f.severity, t).status = "pass"
    BY <1>3, <1>5, <1>7, <2>2, TolItself
  <2> QED BY <1>9, <2>1, <2>3
<1>15. CASE check.semantic = "set"
  <2>1. Rejudged(f, b, b) = CompareSet(b, b, f.severity)
    BY <1>12, <1>15 DEF Compare, CheckOf, check
  <2> QED BY <1>9, <2>1 DEF CompareSet, Judged
<1>16. CASE check.semantic = "presence"
  <2>1. Rejudged(f, b, b) = ComparePresence(b, b, f.severity)
    BY <1>12, <1>16 DEF Compare, CheckOf, check
  <2> QED BY <1>9, <2>1 DEF ComparePresence, Judged
<1>17. CASE check.semantic = "hash"
  <2>1. Rejudged(f, b, b) = CompareHash(b, b, f.severity)
    BY <1>12, <1>17 DEF Compare, CheckOf, check
  <2>2. Is(b.value, "hash_chain")
    BY <1>5, <1>17
  <2>3. CompareHash(b, b, f.severity).status \in {"pass", "skipped"}
    BY <2>2 DEF CompareHash, Judged, Skips
  <2> QED BY <1>9, <2>1, <2>3
<1>18. CASE check.semantic = "dist"
  <2>1. Rejudged(f, b, b) = CompareDist(b, b, f.severity, t)
    BY <1>12, <1>18 DEF Compare, CheckOf, check, t
  <2>2. CompareDist(b, b, f.severity, t).status = "pass"
    BY <1>3, <1>6, <1>7, <1>10, <1>18, DistItself
  <2> QED BY <1>9, <2>1, <2>2
<1>19. CASE check.semantic = "span"
  <2>1. Rejudged(f, b, b) = CompareSpan(b, b, f.severity)
    BY <1>12, <1>19 DEF Compare, CheckOf, check
  <2>2. \/ CompareSpan(b, b, f.severity).status = "pass"
        \/ CompareSpan(b, b, f.severity).status = "error" /\ ~EndsFit(b)
    BY <1>6, SpanItself
  <2> QED BY <1>9, <1>19, <2>1, <2>2 DEF b, check
<1> QED
  BY <1>8, <1>11, <1>13, <1>14, <1>15, <1>16, <1>17, <1>18, <1>19 DEF Semantics

\* A file compared with itself passes on every check that is not of the state
\* semantic and has no expectation of the transform to meet: whatever it measures,
\* whatever the policy, for dist as long as the squares of its counts stay in 64
\* bits; spans whose times do not pass or give an error (01-core-concepts.md:71,
\* span.cpp:60, 165, dist.cpp:126).
THEOREM SelfClean == EngineSpec => []SelfComparisonIsClean
<1>1. ASSUME PromisesIInv PROVE SelfComparisonIsClean
  <2> SUFFICES ASSUME world.baseline = world.candidate, NEW f \in JudgedFindings,
                      CheckOf(f).semantic # "state", ~Expecting(f),
                      CheckOf(f).semantic = "dist" => CountsFit(f)
               PROVE  \/ f.status \in {"pass", "skipped"}
                      \/ CheckOf(f).semantic = "span" /\ ~EndsFit(Baseline(f)) /\ f.status = "error"
    BY DEF SelfComparisonIsClean
  <2>1. Candidate(f) = Baseline(f)
    BY DEF Candidate, Baseline
  <2> QED BY <1>1, <2>1, JudgedItself
<1> QED
  BY <1>1, PromisesInvariant, PTL
-------------------------------------------------------------------------------
(* Stretches of time and of blocks.                                        *)
LEMMA BetweenTwo ==
  ASSUME NEW t \in Int, NEW u \in Int, NEW p
  PROVE  p \in Min({t, u})..Max({t, u}) <=> p \in Int /\ ((t <= p /\ p <= u) \/ (u <= p /\ p <= t))
<1>1. \E m \in {t, u} : \A z \in {t, u} : m <= z
  OBVIOUS
<1>2. Min({t, u}) \in {t, u} /\ Min({t, u}) <= t /\ Min({t, u}) <= u
  BY <1>1 DEF Min
<1>3. Max({t, u}) \in {t, u} /\ t <= Max({t, u}) /\ u <= Max({t, u})
  BY LargerEnd
<1> QED BY <1>2, <1>3

\* The tick after a span, of several that are apart, is nobody's.
LEMMA EndIsFree ==
  ASSUME NEW a \in Seq(TrueSpans), Separated(a), NEW i \in 1..Len(a)
  PROVE  ~HasTick(a, EndOf(a[i]))
<1> SUFFICES ASSUME NEW j \in 1..Len(a), Holds(a[j], EndOf(a[i])) PROVE FALSE
  BY DEF HasTick
<1>1. a[i] \in TrueSpans /\ a[j] \in TrueSpans
  OBVIOUS
<1>2. /\ StartOf(a[i]) \in Int /\ EndOf(a[i]) \in Int /\ StartOf(a[j]) \in Int /\ EndOf(a[j]) \in Int
      /\ StartOf(a[i]) < EndOf(a[i]) /\ StartOf(a[j]) < EndOf(a[j])
  BY <1>1, EndsOfSpan
<1>3. i < j => EndOf(a[i]) + 1 < StartOf(a[j])
  BY DEF Separated
<1>4. j < i => EndOf(a[j]) + 1 < StartOf(a[i])
  BY DEF Separated
<1>5. i < j \/ j < i \/ i = j
  OBVIOUS
<1> QED BY <1>2, <1>3, <1>4, <1>5 DEF Holds

\* A span overlaps one of the others where the stretch that it is shares a tick with
\* them.
LEMMA MeetsIsOverlap ==
  ASSUME NEW a \in Seq(TrueSpans), Separated(a), NEW b \in Seq(TrueSpans)
  PROVE  Meets({t \in Int : HasTick(a, t)}, {t \in Int : HasTick(b, t)}) <=> Unmatched(a, b) = {}
<1> DEFINE C == {t \in Int : HasTick(a, t)}
           D == {t \in Int : HasTick(b, t)}
<1>1. /\ DOMAIN a = 1..Len(a) /\ DOMAIN b = 1..Len(b)
      /\ \A i \in 1..Len(a) : a[i] \in TrueSpans
      /\ \A j \in 1..Len(b) : b[j] \in TrueSpans
  OBVIOUS
<1>2. /\ \A i \in 1..Len(a) : StartOf(a[i]) \in Int /\ EndOf(a[i]) \in Int /\ StartOf(a[i]) < EndOf(a[i])
      /\ \A j \in 1..Len(b) : StartOf(b[j]) \in Int /\ EndOf(b[j]) \in Int /\ StartOf(b[j]) < EndOf(b[j])
  BY <1>1, EndsOfSpan
<1>3. Unmatched(a, b) = {} <=> \A i \in 1..Len(a) : \E j \in 1..Len(b) : Overlaps(a[i], b[j])
  BY <1>1 DEF Unmatched, Range
<1>4. ASSUME NEW t \in C, NEW u
      PROVE  u \in Stretch(t, C) <=>
               u \in C /\ \A p \in Int : (t <= p /\ p <= u) \/ (u <= p /\ p <= t) => p \in C
  <2>1. t \in Int /\ (u \in C => u \in Int)
    OBVIOUS
  <2> HIDE DEF C
  <2>2. u \in Stretch(t, C) <=> u \in C /\ \A p \in Min({t, u})..Max({t, u}) : p \in C
    BY DEF Stretch
  <2> QED BY <2>1, <2>2, BetweenTwo
<1>5. ASSUME NEW i \in 1..Len(a), NEW t \in Int, Holds(a[i], t), NEW u \in Stretch(t, C)
      PROVE  Holds(a[i], u)
  <2>1. t \in C
    BY <1>5 DEF HasTick
  <2>2. u \in Int /\ \A p \in Int : (t <= p /\ p <= u) \/ (u <= p /\ p <= t) => p \in C
    BY <1>4, <1>5, <2>1
  <2>3. u < EndOf(a[i])
    <3> SUFFICES ASSUME EndOf(a[i]) <= u PROVE FALSE
      BY <1>2, <2>2
    <3>1. t <= EndOf(a[i]) /\ EndOf(a[i]) \in Int
      BY <1>2, <1>5 DEF Holds
    <3>2. EndOf(a[i]) \in C
      BY <2>2, <3>1
    <3> QED BY <3>2, EndIsFree
  <2>4. StartOf(a[i]) <= u
    <3> SUFFICES ASSUME u < StartOf(a[i]) PROVE FALSE
      BY <1>2, <2>2
    <3>1. StartOf(a[i]) - 1 \in Int /\ u <= StartOf(a[i]) - 1 /\ StartOf(a[i]) - 1 <= t
      BY <1>2, <1>5, <2>2 DEF Holds
    <3>2. StartOf(a[i]) - 1 \in C
      BY <2>2, <3>1
    <3>3. PICK k \in 1..Len(a) : Holds(a[k], StartOf(a[i]) - 1)
      BY <3>2 DEF HasTick
    <3>4. i < k => EndOf(a[i]) + 1 < StartOf(a[k])
      BY DEF Separated
    <3>5. k < i => EndOf(a[k]) + 1 < StartOf(a[i])
      BY DEF Separated
    <3>6. i < k \/ k < i \/ i = k
      OBVIOUS
    <3> QED BY <1>2, <3>3, <3>4, <3>5, <3>6 DEF Holds
  <2> QED BY <2>3, <2>4 DEF Holds
<1>6. ASSUME Meets(C, D), NEW i \in 1..Len(a) PROVE \E j \in 1..Len(b) : Overlaps(a[i], b[j])
  <2> DEFINE t == StartOf(a[i])
  <2>1. t \in Int /\ Holds(a[i], t)
    BY <1>2 DEF Holds
  <2>2. t \in C
    BY <2>1 DEF HasTick
  <2>3. PICK u \in Stretch(t, C) : u \in D
    BY <1>6, <2>2 DEF Meets
  <2>4. Holds(a[i], u)
    BY <1>5, <2>1, <2>3
  <2>5. PICK j \in 1..Len(b) : Holds(b[j], u)
    BY <2>3 DEF HasTick
  <2>6. Overlaps(a[i], b[j])
    BY <1>2, <2>3, <2>4, <2>5 DEF Holds, Overlaps
  <2> QED BY <2>6
<1>7. ASSUME \A i \in 1..Len(a) : \E j \in 1..Len(b) : Overlaps(a[i], b[j]), NEW t \in C
      PROVE  Stretch(t, C) \cap D # {}
  <2>1. PICK i \in 1..Len(a) : Holds(a[i], t)
    BY <1>7 DEF HasTick
  <2>2. PICK j \in 1..Len(b) : Overlaps(a[i], b[j])
    BY <1>7
  <2> DEFINE u == IF StartOf(a[i]) <= StartOf(b[j]) THEN StartOf(b[j]) ELSE StartOf(a[i])
  <2>3. u \in Int /\ Holds(a[i], u) /\ Holds(b[j], u)
    BY <1>2, <2>2 DEF Holds, Overlaps
  <2> HIDE DEF u
  <2>4. ASSUME NEW p \in Int, (t <= p /\ p <= u) \/ (u <= p /\ p <= t) PROVE p \in C
    <3>1. Holds(a[i], p)
      BY <1>2, <2>1, <2>3, <2>4 DEF Holds
    <3> QED BY <3>1 DEF HasTick
  <2>5. u \in C /\ u \in D
    BY <2>3 DEF HasTick
  <2>6. u \in Stretch(t, C)
    BY <1>4, <2>4, <2>5
  <2> QED BY <2>5, <2>6
<1>8. Meets(C, D) <=> \A i \in 1..Len(a) : \E j \in 1..Len(b) : Overlaps(a[i], b[j])
  BY <1>6, <1>7 DEF Meets
<1> QED BY <1>3, <1>8

\* `compare_span` judges by the covered time: what is new, what is gone, what stayed.
LEMMA SpansByTime ==
  ASSUME NEW b, NEW c, NEW severity, SpansOf(b.value) \in Seq(TrueSpans), SpansOf(c.value) \in Seq(TrueSpans)
  PROVE  LET before == Covered(SpansOf(b.value))
             after == Covered(SpansOf(c.value))
         IN  \/ CompareSpan(b, c, severity).status =
                  IF ~Meets(after, before) THEN Escalate(severity)
                  ELSE IF Meets(before, after) THEN "pass" ELSE "info"
             \/ CompareSpan(b, c, severity).status = "error" /\ ~(EndsFit(b) /\ EndsFit(c))
<1> DEFINE x == MergeSpans(SpansOf(b.value))
           y == MergeSpans(SpansOf(c.value))
<1>1. x \in Seq(TrueSpans) /\ Separated(x) /\ Covered(SpansOf(b.value)) = {t \in Int : HasTick(x, t)}
  BY MergedCovers
<1>2. y \in Seq(TrueSpans) /\ Separated(y) /\ Covered(SpansOf(c.value)) = {t \in Int : HasTick(y, t)}
  BY MergedCovers
<1>3. CompareSpan(b, c, severity).status =
        IF SpansOverflow(b, c) THEN "error"
        ELSE IF Unmatched(y, x) # {} THEN Escalate(severity)
        ELSE IF Unmatched(x, y) # {} THEN "info" ELSE "pass"
  BY DEF CompareSpan, Judged, SpansOverflow
<1>6. EndsFit(b) /\ EndsFit(c) => ~SpansOverflow(b, c)
  BY FitSpansAreJudged
<1> HIDE DEF x, y
<1>4. Meets({t \in Int : HasTick(y, t)}, {t \in Int : HasTick(x, t)}) <=> Unmatched(y, x) = {}
  BY <1>1, <1>2, MeetsIsOverlap
<1>5. Meets({t \in Int : HasTick(x, t)}, {t \in Int : HasTick(y, t)}) <=> Unmatched(x, y) = {}
  BY <1>1, <1>2, MeetsIsOverlap
<1> QED BY <1>1, <1>2, <1>3, <1>4, <1>5, <1>6
-------------------------------------------------------------------------------
(* Chains of blocks.                                                       *)
Walks == [run : {<<>>} \cup {<<k>> : k \in Nat}, ranges : Seq(Nat \X Nat)]
NoWalk == [run |-> <<>>, ranges |-> <<>>]

\* What closing the open run makes of a walk.
LEMMA WalkKinds ==
  ASSUME NEW walk \in Walks, NEW end \in Nat
  PROVE  /\ CloseRun(walk, end) \in Walks /\ CloseRun(walk, end).run = <<>>
         /\ walk.run = <<>> => CloseRun(walk, end) = walk
         /\ walk.run # <<>> => /\ walk.run[1] \in Nat
                               /\ CloseRun(walk, end).ranges = Append(walk.ranges, <<walk.run[1], end>>)
<1>1. walk.ranges \in Seq(Nat \X Nat) /\ walk.run \in {<<>>} \cup {<<k>> : k \in Nat}
  BY DEF Walks
<1>2. CASE walk.run = <<>>
  BY <1>2 DEF CloseRun
<1>3. CASE walk.run # <<>>
  <2>1. walk.run[1] \in Nat
    BY <1>1, <1>3
  <2>2. <<walk.run[1], end>> \in Nat \X Nat
    BY <2>1
  <2>3. Append(walk.ranges, <<walk.run[1], end>>) \in Seq(Nat \X Nat)
    BY <1>1, <2>2, AppendedEntry
  <2> QED BY <1>3, <2>1, <2>3 DEF CloseRun, Walks
<1> QED BY <1>2, <1>3

\* A block leaves a walk a walk.
LEMMA WalkStays ==
  ASSUME NEW b, NEW c, NEW walk \in Walks, NEW i \in Nat \ {0}
  PROVE  WalkBlock(b, c, walk, i) \in Walks
<1>1. i - 1 \in Nat
  OBVIOUS
<1>2. CASE b[i] = c[i]
  BY <1>1, <1>2, WalkKinds DEF WalkBlock
<1>3. CASE b[i] # c[i]
  BY <1>1, <1>3 DEF WalkBlock, Walks
<1> QED BY <1>2, <1>3

\* The walk of the first n blocks, block by block.
WalkRuns(run, b, c, n) ==
  /\ run \in [0..n -> Walks]
  /\ run[0] = NoWalk
  /\ \A k \in 1..n : run[k] = WalkBlock(b, c, run[k - 1], k)

\* The walk over n blocks is reached block by block.
LEMMA BlocksRun ==
  ASSUME NEW b, NEW c, NEW n \in Nat
  PROVE  \E run : WalkRuns(run, b, c, n) /\ WalkBlocks(b, c, n) = run[n]
<1> DEFINE list == [i \in 1..n |-> i]
           Folds(iter) == iter = [s \in SUBSET DOMAIN list |->
                                 IF s = {} THEN NoWalk ELSE WalkBlock(b, c, iter[s \ {Max(s)}], list[Max(s)])]
           fold == CHOOSE iter : Folds(iter)
           step == [p \in Walks \X (1..n) |-> WalkBlock(b, c, p[1], p[2])]
<1>0. DOMAIN list = 1..n /\ \A k \in 1..n : list[k] = k
  OBVIOUS
<1>1. WalkBlocks(b, c, n) = fold[DOMAIN list]
  BY Zenon DEF WalkBlocks, FoldLeft, MapThenFoldSet, NoWalk
<1>2. \A p \in Walks, k \in 1..n : WalkBlock(b, c, p, k) \in Walks
  BY WalkStays
<1>3. step \in [Walks \X (1..n) -> Walks] /\ \A p \in Walks, k \in 1..n : step[<<p, k>>] = WalkBlock(b, c, p, k)
  BY <1>2
<1>4. NoWalk \in Walks
  BY DEF NoWalk, Walks
<1> HIDE DEF step, list
<1>5. Folds(fold)
  <2> HIDE DEF Folds, fold
  <2>1. PICK g : IsFold(g, Walks, NoWalk, n, step)
    BY <1>3, <1>4, FoldExists
  <2>2. ASSUME NEW s \in SUBSET (1..n), s # {}
        PROVE  g[s] = WalkBlock(b, c, g[s \ {Max(s)}], list[Max(s)])
    <3>1. Max(s) \in 1..n /\ g[s \ {Max(s)}] \in Walks
      BY <2>1, <2>2 DEF IsFold
    <3> QED BY <1>0, <1>3, <2>1, <2>2, <3>1 DEF IsFold
  <2>3. Folds(g)
    BY <1>0, <2>1, <2>2 DEF Folds, IsFold
  <2> QED BY <2>3 DEF fold
<1> HIDE DEF fold
<1>6. /\ fold[{}] = NoWalk
      /\ \A s \in SUBSET (1..n) : s # {} => fold[s] = WalkBlock(b, c, fold[s \ {Max(s)}], list[Max(s)])
  BY <1>0, <1>5
<1> HIDE DEF Folds
<1>7. Unfolds(fold, Walks, NoWalk, n, step)
  <2>1. ASSUME NEW s \in SUBSET (1..n), s # {}, fold[s \ {Max(s)}] \in Walks
        PROVE  fold[s] = step[<<fold[s \ {Max(s)}], Max(s)>>]
    <3>1. Max(s) \in 1..n
      BY <2>1, MaxOfPositions
    <3>2. fold[s] = WalkBlock(b, c, fold[s \ {Max(s)}], Max(s))
      BY <1>0, <1>6, <2>1, <3>1
    <3> QED BY <1>3, <2>1, <3>1, <3>2
  <2> QED BY <1>6, <2>1 DEF Unfolds
<1>8. PICK run : IsRun(run, Walks, NoWalk, n, step, fold)
  BY <1>3, <1>4, <1>7, FoldRuns
<1>9. \A k \in 1..n : run[k] = WalkBlock(b, c, run[k - 1], k)
  <2> SUFFICES ASSUME NEW k \in 1..n PROVE run[k] = WalkBlock(b, c, run[k - 1], k)
    OBVIOUS
  <2>1. k - 1 \in 0..n /\ run \in [0..n -> Walks]
    BY <1>8 DEF IsRun
  <2>2. run[k - 1] \in Walks
    BY <2>1
  <2> QED BY <1>3, <1>8, <2>2 DEF IsRun
<1>10. run \in [0..n -> Walks] /\ run[0] = NoWalk /\ WalkBlocks(b, c, n) = run[n]
  BY <1>0, <1>1, <1>8 DEF IsRun
<1> QED BY <1>9, <1>10 DEF WalkRuns

\* The block is in one of the ranges.
InRanges(ranges, x) == \E i \in 1..Len(ranges) : ranges[i][1] <= x /\ x < ranges[i][2]

EndBy(ranges, end) == \A i \in 1..Len(ranges) : ranges[i][2] <= end
InOrder(ranges) == \A i, j \in 1..Len(ranges) : i < j => ranges[i][2] <= ranges[j][1]

\* Of the first k blocks, those that differ are in the ranges or in the open run.
WalkTells(walk, b, c, k) ==
  /\ walk \in Walks
  /\ walk.run # <<>> => walk.run[1] < k
  /\ EndBy(walk.ranges, IF walk.run = <<>> THEN k ELSE walk.run[1])
  /\ InOrder(walk.ranges)
  /\ \A x \in 0..(k - 1) :
       b[x + 1] # c[x + 1] <=> InRanges(walk.ranges, x) \/ (walk.run # <<>> /\ walk.run[1] <= x)

\* The ends of a range are block numbers.
LEMMA RangesOf ==
  ASSUME NEW ranges \in Seq(Nat \X Nat)
  PROVE  \A i \in 1..Len(ranges) : ranges[i][1] \in Nat /\ ranges[i][2] \in Nat
<1>1. \A i \in 1..Len(ranges) : ranges[i] \in Nat \X Nat
  OBVIOUS
<1> QED BY <1>1

\* Ranges that end by a block end by any later one.
LEMMA EndsStay ==
  ASSUME NEW ranges \in Seq(Nat \X Nat), NEW end \in Nat, NEW later \in Nat, end <= later, EndBy(ranges, end)
  PROVE  EndBy(ranges, later) /\ \A x \in Nat : InRanges(ranges, x) => x < end
<1>1. \A i \in 1..Len(ranges) : ranges[i][2] \in Nat /\ ranges[i][2] <= end
  BY RangesOf DEF EndBy
<1> QED BY <1>1 DEF EndBy, InRanges

\* One range more, at the end.
LEMMA RangesGrow ==
  ASSUME NEW ranges \in Seq(Nat \X Nat), NEW from \in Nat, NEW to \in Nat, from <= to,
         EndBy(ranges, from), InOrder(ranges)
  PROVE  LET longer == Append(ranges, <<from, to>>)
         IN  /\ longer \in Seq(Nat \X Nat) /\ EndBy(longer, to) /\ InOrder(longer)
             /\ \A x : InRanges(longer, x) <=> InRanges(ranges, x) \/ (from <= x /\ x < to)
<1> DEFINE n == Len(ranges)
           longer == Append(ranges, <<from, to>>)
<1>1. <<from, to>> \in Nat \X Nat /\ <<from, to>>[1] = from /\ <<from, to>>[2] = to
  OBVIOUS
<1>2. /\ longer \in Seq(Nat \X Nat) /\ Len(longer) = n + 1 /\ longer[n + 1] = <<from, to>>
      /\ \A i \in 1..n : longer[i] = ranges[i]
  BY <1>1, AppendedEntry
<1>3. n \in Nat /\ EndBy(ranges, to)
  BY EndsStay
<1> HIDE DEF n, longer
<1>4. \A i \in 1..(n + 1) : i \in 1..n \/ i = n + 1
  BY <1>3
<1>5. EndBy(longer, to)
  <2>1. ASSUME NEW i \in 1..(n + 1) PROVE longer[i][2] <= to
    <3>1. CASE i \in 1..n
      BY <1>2, <1>3, <3>1 DEF n, EndBy
    <3>2. CASE i = n + 1
      BY <1>1, <1>2, <3>2
    <3> QED BY <1>4, <3>1, <3>2
  <2> QED BY <1>2, <2>1 DEF EndBy
<1>6. InOrder(longer)
  <2>0. ASSUME NEW i \in 1..(n + 1), NEW j \in 1..(n + 1), i < j PROVE longer[i][2] <= longer[j][1]
    <3>1. i \in 1..n
      BY <1>3, <2>0
    <3>2. CASE j \in 1..n
      BY <1>2, <2>0, <3>1, <3>2 DEF n, InOrder
    <3>3. CASE j = n + 1
      BY <1>1, <1>2, <3>1, <3>3 DEF n, EndBy
    <3> QED BY <1>4, <3>2, <3>3
  <2> QED BY <1>2, <2>0 DEF InOrder
<1>7. ASSUME NEW x PROVE InRanges(longer, x) <=> InRanges(ranges, x) \/ (from <= x /\ x < to)
  <2>1. n + 1 \in 1..(n + 1) /\ \A i \in 1..n : i \in 1..(n + 1)
    BY <1>3
  <2>2. InRanges(longer, x) <=> \E i \in 1..(n + 1) : longer[i][1] <= x /\ x < longer[i][2]
    BY <1>2 DEF InRanges
  <2>3. InRanges(ranges, x) <=> \E i \in 1..n : longer[i][1] <= x /\ x < longer[i][2]
    BY <1>2 DEF InRanges, n
  <2> QED BY <1>1, <1>2, <1>4, <2>1, <2>2, <2>3
<1> QED BY <1>2, <1>5, <1>6, <1>7 DEF longer

\* Closing the run keeps what the walk tells of the blocks so far.
LEMMA CloseTells ==
  ASSUME NEW b, NEW c, NEW k \in Nat, NEW walk, WalkTells(walk, b, c, k)
  PROVE  WalkTells(CloseRun(walk, k), b, c, k) /\ CloseRun(walk, k).run = <<>>
<1>1. /\ walk \in Walks /\ walk.ranges \in Seq(Nat \X Nat)
      /\ CloseRun(walk, k) \in Walks /\ CloseRun(walk, k).run = <<>>
  BY WalkKinds DEF WalkTells, Walks
<1>2. CASE walk.run = <<>>
  <2>1. CloseRun(walk, k) = walk
    BY <1>1, <1>2, WalkKinds
  <2> QED BY <1>2, <2>1
<1>3. CASE walk.run # <<>>
  <2> DEFINE from == walk.run[1]
             longer == CloseRun(walk, k).ranges
  <2>1. from \in Nat /\ from < k /\ longer = Append(walk.ranges, <<from, k>>)
    BY <1>1, <1>3, WalkKinds DEF WalkTells
  <2>2. EndBy(walk.ranges, from) /\ InOrder(walk.ranges)
    BY <1>3 DEF WalkTells
  <2> HIDE DEF from, longer
  <2>3. from <= k
    BY <2>1
  <2>4. /\ longer \in Seq(Nat \X Nat) /\ EndBy(longer, k) /\ InOrder(longer)
        /\ \A x : InRanges(longer, x) <=> InRanges(walk.ranges, x) \/ (from <= x /\ x < k)
    BY <1>1, <2>1, <2>2, <2>3, RangesGrow
  <2>5. \A x \in 0..(k - 1) : b[x + 1] # c[x + 1] <=> InRanges(longer, x)
    <3> SUFFICES ASSUME NEW x \in 0..(k - 1) PROVE b[x + 1] # c[x + 1] <=> InRanges(longer, x)
      OBVIOUS
    <3>1. b[x + 1] # c[x + 1] <=> InRanges(walk.ranges, x) \/ from <= x
      BY <1>3 DEF WalkTells, from
    <3>2. x < k
      OBVIOUS
    <3> QED BY <2>4, <3>1, <3>2
  <2> QED BY <1>1, <2>4, <2>5 DEF WalkTells, longer
<1> QED BY <1>1, <1>2, <1>3

\* One more block, equal or not, is told of.
LEMMA BlockTells ==
  ASSUME NEW b, NEW c, NEW k \in Nat, NEW walk, WalkTells(walk, b, c, k)
  PROVE  WalkTells(WalkBlock(b, c, walk, k + 1), b, c, k + 1)
<1>0. /\ (k + 1) - 1 = k /\ k \in Nat /\ k + 1 \in Nat \ {0}
      /\ \A x \in 0..k : x \in 0..(k - 1) \/ x = k
  OBVIOUS
<1>1. walk \in Walks /\ walk.ranges \in Seq(Nat \X Nat)
  BY DEF WalkTells, Walks
<1>2. CASE b[k + 1] = c[k + 1]
  <2> DEFINE t == CloseRun(walk, k)
  <2>1. WalkBlock(b, c, walk, k + 1) = t
    BY <1>0, <1>2 DEF WalkBlock
  <2>2. WalkTells(t, b, c, k) /\ t.run = <<>>
    BY CloseTells
  <2> HIDE DEF t
  <2>3. t \in Walks /\ t.ranges \in Seq(Nat \X Nat)
    BY <2>2 DEF WalkTells, Walks
  <2>4. EndBy(t.ranges, k)
    BY <2>2 DEF WalkTells
  <2>5. ~InRanges(t.ranges, k) /\ EndBy(t.ranges, k + 1)
    BY <1>0, <2>3, <2>4, EndsStay
  <2>6. \A x \in 0..k : b[x + 1] # c[x + 1] <=> InRanges(t.ranges, x)
    BY <1>0, <1>2, <2>2, <2>5 DEF WalkTells
  <2>7. WalkTells(t, b, c, k + 1)
    BY <1>0, <2>2, <2>5, <2>6 DEF WalkTells
  <2> QED BY <2>1, <2>7
<1>3. CASE b[k + 1] # c[k + 1] /\ walk.run = <<>>
  <2> DEFINE t == [walk EXCEPT !.run = <<k>>]
  <2>1. WalkBlock(b, c, walk, k + 1) = t
    BY <1>0, <1>3 DEF WalkBlock
  <2>2. t \in Walks /\ t.run = <<k>> /\ t.run[1] = k /\ t.run # <<>> /\ t.ranges = walk.ranges
    BY <1>1 DEF Walks
  <2> HIDE DEF t
  <2>3. \A x \in 0..k : b[x + 1] # c[x + 1] <=> InRanges(t.ranges, x) \/ k <= x
    <3> SUFFICES ASSUME NEW x \in 0..k PROVE b[x + 1] # c[x + 1] <=> InRanges(t.ranges, x) \/ k <= x
      OBVIOUS
    <3>1. CASE x = k
      BY <1>3, <3>1
    <3>2. CASE x \in 0..(k - 1)
      BY <1>3, <2>2, <3>2 DEF WalkTells
    <3> QED BY <1>0, <3>1, <3>2
  <2>4. WalkTells(t, b, c, k + 1)
    BY <1>0, <1>3, <2>2, <2>3 DEF WalkTells
  <2> QED BY <2>1, <2>4
<1>4. CASE b[k + 1] # c[k + 1] /\ walk.run # <<>>
  <2>1. WalkBlock(b, c, walk, k + 1) = walk
    BY <1>4 DEF WalkBlock
  <2>2. walk.run[1] \in Nat /\ walk.run[1] < k
    BY <1>1, <1>4, WalkKinds DEF WalkTells
  <2>3. \A x \in 0..k : b[x + 1] # c[x + 1] <=> InRanges(walk.ranges, x) \/ walk.run[1] <= x
    <3> SUFFICES ASSUME NEW x \in 0..k
                 PROVE  b[x + 1] # c[x + 1] <=> InRanges(walk.ranges, x) \/ walk.run[1] <= x
      OBVIOUS
    <3>1. CASE x = k
      BY <1>4, <2>2, <3>1
    <3>2. CASE x \in 0..(k - 1)
      BY <1>4, <3>2 DEF WalkTells
    <3> QED BY <1>0, <3>1, <3>2
  <2>4. WalkTells(walk, b, c, k + 1)
    BY <1>0, <1>4, <2>2, <2>3 DEF WalkTells
  <2> QED BY <2>1, <2>4
<1> QED BY <1>2, <1>3, <1>4

\* So the walk tells of all the blocks that both chains have.
LEMMA BlocksTell ==
  ASSUME NEW b, NEW c, NEW n \in Nat
  PROVE  WalkTells(WalkBlocks(b, c, n), b, c, n)
<1>1. PICK run : WalkRuns(run, b, c, n) /\ WalkBlocks(b, c, n) = run[n]
  BY BlocksRun
<1> DEFINE Good == {k \in Nat : k <= n => WalkTells(run[k], b, c, k)}
<1>2. 0 \in Good
  <2>1. NoWalk \in Walks /\ NoWalk.run = <<>> /\ NoWalk.ranges = <<>> /\ Len(<<>>) = 0
    BY DEF NoWalk, Walks
  <2>2. 1..0 = {} /\ 0..(0 - 1) = {}
    OBVIOUS
  <2>3. WalkTells(NoWalk, b, c, 0)
    BY <2>1, <2>2 DEF WalkTells, EndBy, InOrder
  <2> QED BY <1>1, <2>3 DEF WalkRuns
<1>3. ASSUME NEW k \in Nat, k \in Good PROVE k + 1 \in Good
  <2> SUFFICES ASSUME k + 1 <= n PROVE WalkTells(run[k + 1], b, c, k + 1)
    OBVIOUS
  <2>1. WalkTells(run[k], b, c, k)
    BY <1>3
  <2>2. k + 1 \in 1..n /\ (k + 1) - 1 = k
    OBVIOUS
  <2>3. run[k + 1] = WalkBlock(b, c, run[k], k + 1)
    BY <1>1, <2>2 DEF WalkRuns
  <2> QED BY <2>1, <2>3, BlockTells
<1> HIDE DEF Good
<1>4. Nat \subseteq Good
  BY <1>2, <1>3, SetInduction
<1> QED BY <1>1, <1>4 DEF Good

\* The ranges of two chains are their differing blocks, in order.
LEMMA DivergenceTold ==
  ASSUME NEW b, NEW c, b \in Seq(Range(b)), c \in Seq(Range(c))
  PROVE  LET ranges == DivergentRanges(b, c)
         IN  /\ b # <<>> /\ c # <<>> => Differ(b, c) = UNION {r[1]..(r[2] - 1) : r \in Range(ranges)}
             /\ \A i, j \in DOMAIN ranges : i < j => ranges[i][2] <= ranges[j][1]
<1> DEFINE common == Min({Len(b), Len(c)})
           total == Max({Len(b), Len(c)})
           walk == CloseRun(WalkBlocks(b, c, common), common)
           tail == IF common < total THEN <<<<common, total>>>> ELSE <<>>
           ranges == DivergentRanges(b, c)
<1>1. CASE b = <<>> \/ c = <<>>
  <2>1. ranges = <<>>
    BY <1>1 DEF DivergentRanges
  <2> QED BY <1>1, <2>1
<1>2. CASE b # <<>> /\ c # <<>>
  <2>1. ranges = walk.ranges \o tail
    BY <1>2 DEF DivergentRanges
  <2>2. Len(b) \in Nat \ {0} /\ Len(c) \in Nat \ {0}
    BY <1>2
  <2>3. /\ common \in Nat /\ total \in Nat /\ common <= total
        /\ common <= Len(b) /\ common <= Len(c)
        /\ \A x \in common..(total - 1) : x >= Len(b) \/ x >= Len(c)
    <3>0. Len(b) \in Int /\ Len(c) \in Int
      BY <2>2
    <3>1. total \in {Len(b), Len(c)} /\ Len(b) <= total /\ Len(c) <= total
      BY <3>0, LargerEnd, Zenon
    <3>2. common \in {Len(b), Len(c)} /\ common <= Len(b) /\ common <= Len(c)
      BY <2>2, LeastOf
    <3> HIDE DEF common, total
    <3> QED BY <2>2, <3>1, <3>2
  <2> HIDE DEF common, total
  <2>4. WalkTells(walk, b, c, common) /\ walk.run = <<>>
    BY <2>3, BlocksTell, CloseTells
  <2> HIDE DEF walk
  <2>5. walk.ranges \in Seq(Nat \X Nat)
    BY <2>4 DEF WalkTells, Walks
  <2>6. /\ EndBy(walk.ranges, common) /\ InOrder(walk.ranges)
        /\ \A x \in 0..(common - 1) : b[x + 1] # c[x + 1] <=> InRanges(walk.ranges, x)
    BY <2>4 DEF WalkTells
  <2>7. /\ ranges \in Seq(Nat \X Nat) /\ InOrder(ranges)
        /\ \A x \in Nat : InRanges(ranges, x) <=> InRanges(walk.ranges, x) \/ (common <= x /\ x < total)
    <3>1. CASE common < total
      <4>1. ranges = Append(walk.ranges, <<common, total>>)
        BY <2>1, <2>5, <3>1
      <4> HIDE DEF ranges
      <4> QED BY <2>3, <2>5, <2>6, <4>1, RangesGrow
    <3>2. CASE ~(common < total)
      <4>1. ranges = walk.ranges
        BY <2>1, <2>5, <3>2
      <4> HIDE DEF ranges
      <4>2. \A x \in Nat : ~(common <= x /\ x < total)
        BY <2>3, <3>2
      <4> QED BY <2>5, <2>6, <4>1, <4>2
    <3> QED BY <3>1, <3>2
  <2> HIDE DEF ranges, tail
  <2>8. ASSUME NEW x
        PROVE  x \in UNION {r[1]..(r[2] - 1) : r \in Range(ranges)} <=> x \in Nat /\ InRanges(ranges, x)
    <3>1. \A i \in 1..Len(ranges) : ranges[i][1] \in Nat /\ ranges[i][2] \in Nat
      BY <2>7, RangesOf
    <3>2. \A i \in 1..Len(ranges) :
            x \in ranges[i][1]..(ranges[i][2] - 1) <=> x \in Nat /\ ranges[i][1] <= x /\ x < ranges[i][2]
      BY <3>1
    <3>3. DOMAIN ranges = 1..Len(ranges)
      BY <2>7
    <3> QED BY <3>2, <3>3 DEF Range, InRanges
  <2>9. ASSUME NEW x \in Nat
        PROVE  InRanges(ranges, x) <=>
                 x < total /\ (x >= Len(b) \/ x >= Len(c) \/ b[x + 1] # c[x + 1])
    <3>1. CASE x < common
      <4>1. x \in 0..(common - 1) /\ x < total /\ ~(x >= Len(b)) /\ ~(x >= Len(c)) /\ ~(common <= x)
        BY <2>2, <2>3, <3>1
      <4> QED BY <2>6, <2>7, <4>1
    <3>2. CASE common <= x /\ x < total
      <4>1. x \in common..(total - 1)
        BY <2>3, <3>2
      <4> QED BY <2>3, <2>7, <3>2, <4>1
    <3>3. CASE total <= x
      <4>1. ~(x < total)
        BY <2>3, <3>3
      <4>2. ~InRanges(walk.ranges, x)
        BY <2>3, <2>5, <2>6, <3>3, EndsStay
      <4> QED BY <2>7, <4>1, <4>2
    <3> QED BY <2>3, <3>1, <3>2, <3>3
  <2>10. ASSUME NEW x
         PROVE  x \in Differ(b, c) <=>
                  x \in Nat /\ x < total /\ (x >= Len(b) \/ x >= Len(c) \/ b[x + 1] # c[x + 1])
    <3>1. x \in 0..(total - 1) <=> x \in Nat /\ x < total
      BY <2>3
    <3> QED BY <3>1 DEF Differ, total
  <2>11. Differ(b, c) = UNION {r[1]..(r[2] - 1) : r \in Range(ranges)}
    BY <2>8, <2>9, <2>10
  <2>12. DOMAIN ranges = 1..Len(ranges)
    BY <2>7
  <2> QED BY <2>7, <2>11, <2>12 DEF ranges, InOrder
<1> QED BY <1>1, <1>2

\* Only chains have a divergence.
LEMMA DivergenceOfOthers ==
  ASSUME NEW id \in Checks, NEW b, NEW c, NEW severity, NEW profile, NEW expectation,
         Registry[id].semantic # "hash"
  PROVE  Compare(id, b, c, severity, profile, expectation).divergence = <<>>
<1> DEFINE check == Registry[id]
           t == ToleranceFor(check, profile)
<1>1. /\ \A status : Judged(status).divergence = <<>>
      /\ \A e : Aborts(e).divergence = <<>> /\ Skips(e).divergence = <<>>
  BY DEF Judged, Aborts, Skips
<1>2. check.semantic \in Semantics /\ check.semantic # "hash"
  BY RegistryAssumption
<1>3. CompareExact(check, b, c, severity, profile, expectation).divergence = <<>>
  BY <1>1, Zenon DEF CompareExact, CompareToExpectation
<1>4. CompareTol(b, c, severity, t).divergence = <<>>
  BY <1>1, Zenon DEF CompareTol
<1>5. CompareSet(b, c, severity).divergence = <<>> /\ ComparePresence(b, c, severity).divergence = <<>>
  BY <1>1, Zenon DEF CompareSet, ComparePresence
<1>6. CompareDist(b, c, severity, t).divergence = <<>>
  BY <1>1, Zenon DEF CompareDist
<1>7. CompareSpan(b, c, severity).divergence = <<>> /\ CompareState(check, b, c, severity).divergence = <<>>
  BY <1>1, Zenon DEF CompareSpan, CompareState
<1> HIDE DEF t
<1> QED BY <1>2, <1>3, <1>4, <1>5, <1>6, <1>7 DEF Compare, Semantics, t

\* What the files measured, where a comparator was asked.
LEMMA JudgedMeasures ==
  ASSUME PromisesIInv, NEW f \in JudgedFindings
  PROVE  /\ f.key[1] \in Checks
         /\ \A m \in {Baseline(f), Candidate(f)} :
              Measurable(m) /\ (CheckOf(f).semantic = "hash" => Is(m.value, "hash_chain"))
<1>1. world \in Worlds
  BY DEF PromisesIInv, WorldReported
<1>2. f.key[1] \in Checks
  BY DEF JudgedFindings, PromisesIInv, EngineIInv, EngineInv, EngineTypeOK
<1>3. /\ f.key \in KeysOf(world.baseline) /\ Baseline(f).skip = "none"
      /\ f.key \in KeysOf(world.candidate) /\ Candidate(f).skip = "none"
  BY DEF JudgedFindings, Comparable, Paired, Baseline, Candidate
<1> QED BY <1>1, <1>2, <1>3, PromisesAssumption DEF Baseline, Candidate, CheckOf

\* A finding on spans tells of the covered time of both files.
LEMMA SpanTold ==
  ASSUME PromisesIInv, NEW f \in JudgedFindings, CheckOf(f).semantic = "span"
  PROVE  LET before == Covered(SpansOf(Baseline(f).value))
             after == Covered(SpansOf(Candidate(f).value))
         IN  \/ f.status = IF ~Meets(after, before) THEN Escalate(f.severity)
                           ELSE IF Meets(before, after) THEN "pass" ELSE "info"
             \/ f.status = "error" /\ ~(EndsFit(Baseline(f)) /\ EndsFit(Candidate(f)))
<1>1. SpansOf(Baseline(f).value) \in Seq(TrueSpans) /\ SpansOf(Candidate(f).value) \in Seq(TrueSpans)
  BY JudgedMeasures DEF Measurable, TrueSpans
<1>2. f.status = Rejudged(f, Baseline(f), Candidate(f)).status
  BY DEF PromisesIInv, WorldReported, ReportedAsCompared
<1>3. Rejudged(f, Baseline(f), Candidate(f)) = CompareSpan(Baseline(f), Candidate(f), f.severity)
  BY DEF Rejudged, Compare, CheckOf
<1> QED BY <1>1, <1>2, <1>3, SpansByTime

\* A finding on chains names exactly the blocks that differ, in order.
LEMMA ChainTold ==
  ASSUME PromisesIInv, NEW f \in JudgedFindings
  PROVE  LET b == BlocksOf(f, Baseline(f))
             c == BlocksOf(f, Candidate(f))
             ranges == f.divergence
         IN  /\ CheckOf(f).semantic = "hash" /\ f.status \notin {"pass", "skipped"}
                  /\ b # <<>> /\ c # <<>> =>
                Differ(b, c) = UNION {r[1]..(r[2] - 1) : r \in Range(ranges)}
             /\ \A i, j \in DOMAIN ranges : i < j => ranges[i][2] <= ranges[j][1]
<1> DEFINE b == BlocksOf(f, Baseline(f))
           c == BlocksOf(f, Candidate(f))
           outcome == Rejudged(f, Baseline(f), Candidate(f))
<1>1. f.status = outcome.status /\ f.divergence = outcome.divergence
  BY DEF PromisesIInv, WorldReported, ReportedAsCompared
<1>2. ASSUME f.divergence = <<>>
      PROVE  \A i, j \in DOMAIN f.divergence : i < j => f.divergence[i][2] <= f.divergence[j][1]
  BY <1>2
<1>3. CASE CheckOf(f).semantic # "hash"
  <2>1. f.divergence = <<>>
    BY <1>1, <1>3, JudgedMeasures, DivergenceOfOthers DEF Rejudged, CheckOf
  <2> QED BY <1>2, <1>3, <2>1
<1>4. CASE CheckOf(f).semantic = "hash"
  <2>1. Is(Baseline(f).value, "hash_chain") /\ Is(Candidate(f).value, "hash_chain")
    BY <1>4, JudgedMeasures
  <2>2. b = Baseline(f).value.blocks /\ c = Candidate(f).value.blocks
    BY <2>1 DEF BlocksOf
  <2>3. b \in Seq(Range(b)) /\ c \in Seq(Range(c))
    BY <2>1, <2>2, JudgedMeasures DEF Measurable
  <2>4. outcome = CompareHash(Baseline(f), Candidate(f), f.severity)
    BY <1>4 DEF Rejudged, Compare, CheckOf
  <2>5. \/ outcome.divergence = <<>> /\ outcome.status \in {"pass", "skipped"}
        \/ outcome.divergence = DivergentRanges(b, c)
    BY <2>1, <2>2, <2>4 DEF CompareHash, Judged, Skips
  <2> HIDE DEF b, c, outcome
  <2>6. CASE outcome.divergence = <<>> /\ outcome.status \in {"pass", "skipped"}
    BY <1>1, <1>2, <2>6
  <2>7. CASE outcome.divergence = DivergentRanges(b, c)
    <3>1. f.divergence = DivergentRanges(b, c)
      BY <1>1, <2>7
    <3> QED BY <2>3, <3>1, DivergenceTold DEF b, c
  <2> QED BY <2>5, <2>6, <2>7
<1> QED BY <1>3, <1>4

\* Spans are judged by the time they cover, however the files cut it up, and the
\* divergent ranges of two chains are the blocks that differ, each once and in order:
\* for every list of spans and every chain (span.cpp:60, hash.cpp:72).
THEOREM StretchesExact == EngineSpec => []StretchesAreExact
<1>1. ASSUME PromisesIInv PROVE SpansAreJudgedByTheirTime
  BY <1>1, SpanTold DEF SpansAreJudgedByTheirTime
<1>2. ASSUME PromisesIInv PROVE DivergenceIsExact
  BY <1>2, ChainTold DEF DivergenceIsExact
<1> QED
  BY <1>1, <1>2, PromisesInvariant, PTL DEF StretchesAreExact
-------------------------------------------------------------------------------
(* Numbers and their ratios.                                               *)

\* Doubling both terms of a fraction.
Twice(x) == [num |-> 2 * x.num, den |-> 2 * x.den]

\* Twice a number is twice as far from zero.
LEMMA MagnitudeDoubles ==
  ASSUME NEW n \in Int
  PROVE  Magnitude(n) \in Nat /\ Magnitude(2 * n) = 2 * Magnitude(n)
BY DEF Magnitude

\* A fraction can be doubled on either side of a tolerance.
LEMMA WithinDoubles ==
  ASSUME NEW x \in Fraction, NEW y \in Fraction, NEW t, IsTolerance(t), NEW n \in Nat, NEW w \in Nat
  PROVE  /\ Within(n, Twice(x), y, t, w) <=> Within(n, x, y, t, w)
         /\ Within(n, x, Twice(y), t, w) <=> Within(n, x, y, t, w)
<1> DEFINE apart == y.num * x.den - x.num * y.den
           delta == Magnitude(apart)
           p == n * w * Magnitude(x.num) * y.den
           q == n * w * x.den * y.den
<1>0. x.num \in Int /\ x.den \in Nat /\ y.num \in Int /\ y.den \in Nat /\ t.den \in Nat
  BY DEF Fraction, IsTolerance
<1>1. apart \in Int /\ Magnitude(x.num) \in Nat /\ Magnitude(2 * x.num) = 2 * Magnitude(x.num)
  BY <1>0, MagnitudeDoubles
<1>2. /\ y.num * (2 * x.den) - (2 * x.num) * y.den = 2 * apart
      /\ (2 * y.num) * x.den - x.num * (2 * y.den) = 2 * apart
  BY <1>0
<1>3. delta \in Nat /\ Magnitude(2 * apart) = 2 * delta
  BY <1>1, MagnitudeDoubles
<1>4. /\ n * w * (2 * Magnitude(x.num)) * y.den = 2 * p
      /\ n * w * Magnitude(x.num) * (2 * y.den) = 2 * p
      /\ n * w * (2 * x.den) * y.den = 2 * q
      /\ n * w * x.den * (2 * y.den) = 2 * q
      /\ p \in Nat /\ q \in Nat
  <2> DEFINE k == n * w
             m == Magnitude(x.num)
  <2>1. k \in Nat /\ m \in Nat
    BY <1>1
  <2> HIDE DEF k, m
  <2>2. /\ k * (2 * m) * y.den = 2 * (k * m * y.den) /\ k * m * (2 * y.den) = 2 * (k * m * y.den)
        /\ k * m * y.den \in Nat
    BY <1>0, <2>1
  <2>3. /\ k * (2 * x.den) * y.den = 2 * (k * x.den * y.den) /\ k * x.den * (2 * y.den) = 2 * (k * x.den * y.den)
        /\ k * x.den * y.den \in Nat
    BY <1>0, <2>1
  <2> QED BY <2>2, <2>3 DEF k, m
<1>5. /\ (2 * delta) * t.den * 100 = 2 * (delta * t.den * 100)
      /\ (2 * delta) * t.den = 2 * (delta * t.den)
      /\ delta * t.den * 100 \in Nat /\ delta * t.den \in Nat
  BY <1>0, <1>3
<1>6. Within(n, x, y, t, w) <=> IF t.is_relative THEN delta * t.den * 100 <= p ELSE delta * t.den <= q
  BY DEF Within
<1>7. /\ Twice(x).num = 2 * x.num /\ Twice(x).den = 2 * x.den
      /\ Twice(y).num = 2 * y.num /\ Twice(y).den = 2 * y.den
  BY DEF Twice
<1>8. Within(n, Twice(x), y, t, w) <=>
        IF t.is_relative THEN (2 * delta) * t.den * 100 <= 2 * p ELSE (2 * delta) * t.den <= 2 * q
  <2>1. Within(n, Twice(x), y, t, w) <=>
          IF t.is_relative
            THEN Magnitude(y.num * (2 * x.den) - (2 * x.num) * y.den) * t.den * 100
                   <= n * w * Magnitude(2 * x.num) * y.den
            ELSE Magnitude(y.num * (2 * x.den) - (2 * x.num) * y.den) * t.den
                   <= n * w * (2 * x.den) * y.den
    BY <1>7 DEF Within
  <2> HIDE DEF apart, delta, p, q
  <2> QED BY <1>1, <1>2, <1>3, <1>4, <2>1
<1>9. Within(n, x, Twice(y), t, w) <=>
        IF t.is_relative THEN (2 * delta) * t.den * 100 <= 2 * p ELSE (2 * delta) * t.den <= 2 * q
  <2>1. Within(n, x, Twice(y), t, w) <=>
          IF t.is_relative
            THEN Magnitude((2 * y.num) * x.den - x.num * (2 * y.den)) * t.den * 100
                   <= n * w * Magnitude(x.num) * (2 * y.den)
            ELSE Magnitude((2 * y.num) * x.den - x.num * (2 * y.den)) * t.den
                   <= n * w * x.den * (2 * y.den)
    BY <1>7 DEF Within
  <2> HIDE DEF apart, delta, p, q
  <2> QED BY <1>2, <1>3, <1>4, <2>1
<1> HIDE DEF p, q, delta
<1> DEFINE near == delta * t.den
           far == delta * t.den * 100
<1>10. near \in Nat /\ far \in Nat /\ (2 * delta) * t.den * 100 = 2 * far /\ (2 * delta) * t.den = 2 * near
  BY <1>5
<1>11. /\ Within(n, x, y, t, w) <=> IF t.is_relative THEN far <= p ELSE near <= q
       /\ Within(n, Twice(x), y, t, w) <=> IF t.is_relative THEN 2 * far <= 2 * p ELSE 2 * near <= 2 * q
       /\ Within(n, x, Twice(y), t, w) <=> IF t.is_relative THEN 2 * far <= 2 * p ELSE 2 * near <= 2 * q
  BY <1>6, <1>8, <1>9, <1>10
<1> HIDE DEF near, far
<1>12. (2 * far <= 2 * p <=> far <= p) /\ (2 * near <= 2 * q <=> near <= q)
  BY <1>4, <1>10
<1> QED BY <1>11, <1>12

\* So the zone is that of the ratio.
LEMMA ZoneDoubles ==
  ASSUME NEW x \in Fraction, NEW y \in Fraction, NEW t, IsTolerance(t), NEW severity, NEW w \in Nat
  PROVE  /\ ZoneStatus(Twice(x), y, severity, t, w) = ZoneStatus(x, y, severity, t, w)
         /\ ZoneStatus(x, Twice(y), severity, t, w) = ZoneStatus(x, y, severity, t, w)
<1>1. t.num \in Nat /\ (t.warn # <<>> => t.warn[1] \in Nat)
  BY DEF IsTolerance
<1>2. /\ Within(t.num, Twice(x), y, t, w) <=> Within(t.num, x, y, t, w)
      /\ Within(t.num, x, Twice(y), t, w) <=> Within(t.num, x, y, t, w)
  BY <1>1, WithinDoubles
<1>3. ASSUME t.warn # <<>>
      PROVE  /\ Within(t.warn[1], Twice(x), y, t, w) <=> Within(t.warn[1], x, y, t, w)
             /\ Within(t.warn[1], x, Twice(y), t, w) <=> Within(t.warn[1], x, y, t, w)
  BY <1>1, <1>3, WithinDoubles
<1> QED BY <1>2, <1>3 DEF ZoneStatus

\* And so is the rise over a ceiling.
LEMMA CeilingDoubles ==
  ASSUME NEW b, NEW c, NEW d, NEW e, d.ceiling = b.ceiling, e.ceiling = c.ceiling,
         NEW x \in Fraction, NEW y \in Fraction, CeilingDeadband \in Nat \X (Nat \ {0})
  PROVE  /\ CrossesCeiling(d, e, Twice(x), y) <=> CrossesCeiling(b, c, x, y)
         /\ CrossesCeiling(d, e, x, Twice(y)) <=> CrossesCeiling(b, c, x, y)
<1> DEFINE rise == y.num * x.den - x.num * y.den
           least == CeilingDeadband[1] * x.den * y.den
           k == CeilingDeadband[1]
           l == CeilingDeadband[2]
<1>0. /\ x.num \in Int /\ x.den \in Nat /\ y.num \in Int /\ y.den \in Nat
      /\ k \in Nat /\ l \in Nat
  BY DEF Fraction
<1>1. /\ Twice(x).num = 2 * x.num /\ Twice(x).den = 2 * x.den
      /\ Twice(y).num = 2 * y.num /\ Twice(y).den = 2 * y.den
  BY DEF Twice
<1>2. /\ CrossesCeiling(b, c, x, y) <=> b.ceiling = "under" /\ c.ceiling = "above" /\ rise * l >= least
      /\ CrossesCeiling(d, e, Twice(x), y) <=>
           /\ b.ceiling = "under" /\ c.ceiling = "above"
           /\ (y.num * (2 * x.den) - (2 * x.num) * y.den) * l >= k * (2 * x.den) * y.den
      /\ CrossesCeiling(d, e, x, Twice(y)) <=>
           /\ b.ceiling = "under" /\ c.ceiling = "above"
           /\ ((2 * y.num) * x.den - x.num * (2 * y.den)) * l >= k * x.den * (2 * y.den)
  BY <1>1 DEF CrossesCeiling
<1> HIDE DEF k, l
<1>3. /\ y.num * (2 * x.den) - (2 * x.num) * y.den = 2 * rise
      /\ (2 * y.num) * x.den - x.num * (2 * y.den) = 2 * rise
      /\ rise \in Int
  BY <1>0
<1>4. /\ k * (2 * x.den) * y.den = 2 * (k * x.den * y.den)
      /\ k * x.den * (2 * y.den) = 2 * (k * x.den * y.den)
      /\ k * x.den * y.den \in Int
  BY <1>0
<1>5. least = k * x.den * y.den
  BY DEF k
<1> HIDE DEF rise, least
<1>6. (2 * rise) * l = 2 * (rise * l) /\ rise * l \in Int /\ least \in Int
  BY <1>0, <1>3, <1>4, <1>5
<1>7. (2 * rise) * l >= 2 * least <=> rise * l >= least
  <2> DEFINE r == rise * l
  <2>1. r \in Int /\ (2 * rise) * l = 2 * r
    BY <1>6
  <2> HIDE DEF r
  <2>2. 2 * r >= 2 * least <=> r >= least
    BY <1>6, <2>1
  <2> QED BY <2>1, <2>2 DEF r
<1> QED BY <1>2, <1>3, <1>4, <1>5, <1>7

\* Doubling a measurement doubles its basis, if it is a fraction, and leaves the
\* rest as it is.
LEMMA DoubledBasis ==
  ASSUME NEW m, Measurable(m)
  PROVE  LET d == Doubled(m)
         IN  /\ d.value.kind = m.value.kind /\ d.estimated = m.estimated
             /\ d.end_delta = m.end_delta /\ d.ceiling = m.ceiling
             /\ HasMagnitude(m.value) =>
                  \A o : /\ Basis(d, o) \in {Basis(m, o), Twice(Basis(m, o))}
                         /\ Basis(o, d) = Basis(o, m)
<1> DEFINE d == Doubled(m)
<1>1. CASE Is(m.value, "rational")
  <2> DEFINE half == [m.value EXCEPT !.num = 2 * @, !.den = 2 * @]
             more == [i \in DOMAIN m.adjusted |-> 2 * m.adjusted[i]]
  <2>1. d = [m EXCEPT !.value.num = 2 * @, !.value.den = 2 * @, !.adjusted = [i \in DOMAIN @ |-> 2 * @[i]]]
    BY <1>1 DEF Doubled, Is
  <2>2. {"value", "estimated", "adjusted", "end_delta", "ceiling"} \subseteq DOMAIN m
    BY DEF Measurable
  <2>3. /\ d.value = half /\ d.adjusted = more
        /\ d.estimated = m.estimated /\ d.end_delta = m.end_delta /\ d.ceiling = m.ceiling
    BY <2>1, <2>2
  <2>4. {"kind", "num", "den"} \subseteq DOMAIN m.value
    BY <1>1 DEF Measurable, HasMagnitude, Is
  <2>5. half.kind = m.value.kind /\ half.num = 2 * m.value.num /\ half.den = 2 * m.value.den
    BY <2>4
  <2>6. m.adjusted \in Seq(Int)
    BY DEF Measurable
  <2>7. /\ more \in Seq(Int) /\ Len(more) = Len(m.adjusted)
        /\ \A i \in DOMAIN m.adjusted : more[i] = 2 * m.adjusted[i]
        /\ more = <<>> <=> m.adjusted = <<>>
    <3>1. PICK n \in Nat : m.adjusted \in [1..n -> Int]
      BY <2>6
    <3>2. more \in [1..n -> Int] /\ DOMAIN more = 1..n /\ DOMAIN m.adjusted = 1..n
      BY <3>1
    <3>3. Len(more) = n /\ Len(m.adjusted) = n /\ more \in Seq(Int)
      BY <3>1, <3>2
    <3>4. \A i \in DOMAIN m.adjusted : more[i] = 2 * m.adjusted[i]
      BY <3>2
    <3> HIDE DEF more
    <3> QED BY <2>6, <3>3, <3>4
  <2> HIDE DEF d, half, more
  <2>8. ASSUME NEW o
        PROVE  Basis(d, o) = Twice(Basis(m, o)) /\ Basis(o, d) = Basis(o, m)
    <3>1. Basis(o, d) = Basis(o, m)
      BY <2>3, <2>7 DEF Basis
    <3>2. CASE m.adjusted = <<>> \/ o.adjusted = <<>>
      BY <2>3, <2>5, <2>7, <3>2 DEF Basis, Twice
    <3>3. CASE ~(m.adjusted = <<>> \/ o.adjusted = <<>>)
      <4>1. 1 \in DOMAIN m.adjusted /\ (Len(m.adjusted) = 2 => 2 \in DOMAIN m.adjusted)
        BY <2>6, <3>3
      <4> QED BY <2>3, <2>5, <2>7, <3>3, <4>1 DEF Basis, Twice
    <3> QED BY <3>1, <3>2, <3>3
  <2>9. d.value.kind = m.value.kind
    BY <2>3, <2>5
  <2> QED BY <2>3, <2>8, <2>9 DEF d
<1>2. CASE Is(m.value, "histogram")
  <2>1. d = [m EXCEPT !.value.bins = [n \in DOMAIN @ |-> 2 * @[n]]]
    BY <1>2 DEF Doubled, Is
  <2>2. {"value", "estimated", "adjusted", "end_delta", "ceiling"} \subseteq DOMAIN m /\ "kind" \in DOMAIN m.value
    BY DEF Measurable
  <2>3. ~HasMagnitude(m.value)
    BY <1>2 DEF Is, HasMagnitude
  <2>4. /\ d.estimated = m.estimated /\ d.end_delta = m.end_delta /\ d.ceiling = m.ceiling
        /\ d.value.kind = m.value.kind
    BY <2>1, <2>2
  <2> HIDE DEF d
  <2> QED BY <2>3, <2>4 DEF d
<1>3. CASE ~Is(m.value, "rational") /\ ~Is(m.value, "histogram")
  <2>1. d = m
    BY <1>3 DEF Doubled
  <2> QED BY <2>1
<1> QED BY <1>1, <1>2, <1>3

\* tol looks at the ratios only: what it says of two measurements it says of any
\* whose bases are the same fractions.
LEMMA TolOfRatios ==
  ASSUME NEW b, NEW c, NEW d, NEW e, NEW severity, NEW t, IsTolerance(t), Measurable(b), Measurable(c),
         EstimatedFactor \in Nat \ {0}, CeilingDeadband \in Nat \X (Nat \ {0}),
         d.value.kind = b.value.kind, d.estimated = b.estimated, d.end_delta = b.end_delta, d.ceiling = b.ceiling,
         e.value.kind = c.value.kind, e.estimated = c.estimated, e.end_delta = c.end_delta, e.ceiling = c.ceiling,
         HasMagnitude(b.value) /\ HasMagnitude(c.value) =>
           \/ Basis(d, e) \in {Basis(b, c), Twice(Basis(b, c))} /\ Basis(e, d) = Basis(c, b)
           \/ Basis(d, e) = Basis(b, c) /\ Basis(e, d) \in {Basis(c, b), Twice(Basis(c, b))}
  PROVE  CompareTol(d, e, severity, t).status = CompareTol(b, c, severity, t).status
<1> DEFINE x == Basis(b, c)
           y == Basis(c, b)
           u == Basis(d, e)
           v == Basis(e, d)
           widening == IF b.estimated \/ c.estimated THEN EstimatedFactor ELSE 1
           moved == EndDeltaMoved(b, c)
<1>1. /\ HasMagnitude(d.value) <=> HasMagnitude(b.value)
      /\ HasMagnitude(e.value) <=> HasMagnitude(c.value)
      /\ GatedByEndDelta(d, e) <=> GatedByEndDelta(b, c)
      /\ EndDeltaMoved(d, e) = moved
  BY DEF HasMagnitude, GatedByEndDelta, EndDeltaMoved
<1>2. CASE ~HasMagnitude(b.value) \/ ~HasMagnitude(c.value)
  BY <1>1, <1>2 DEF CompareTol
<1>3. CASE HasMagnitude(b.value) /\ HasMagnitude(c.value)
  <2>1. x \in Fraction /\ y \in Fraction /\ widening \in Nat
    BY <1>3, BasisIsFraction
  <2>2. CompareTol(b, c, severity, t).status =
          IF GatedByEndDelta(b, c) /\ ~Representable(moved) THEN "error"
          ELSE IF CrossesCeiling(b, c, x, y) THEN "fail"
          ELSE IF GatedByEndDelta(b, c) /\ Magnitude(moved) < EndDeltaEpsilon THEN "pass"
          ELSE ZoneStatus(x, y, severity, t, widening)
    BY <1>3 DEF CompareTol, Judged, x, y, widening, moved
  <2>3. CompareTol(d, e, severity, t).status =
          IF GatedByEndDelta(b, c) /\ ~Representable(moved) THEN "error"
          ELSE IF CrossesCeiling(d, e, u, v) THEN "fail"
          ELSE IF GatedByEndDelta(b, c) /\ Magnitude(moved) < EndDeltaEpsilon THEN "pass"
          ELSE ZoneStatus(u, v, severity, t, widening)
    <3>1. widening = IF d.estimated \/ e.estimated THEN EstimatedFactor ELSE 1
      OBVIOUS
    <3> HIDE DEF moved, widening
    <3> QED BY <1>1, <1>3, <3>1 DEF CompareTol, Judged, u, v
  <2>4. (u \in {x, Twice(x)} /\ v = y) \/ (u = x /\ v \in {y, Twice(y)})
    BY <1>3
  <2> HIDE DEF x, y, u, v, widening, moved
  <2>5. ZoneStatus(u, v, severity, t, widening) = ZoneStatus(x, y, severity, t, widening)
    BY <2>1, <2>4, ZoneDoubles
  <2>6. CrossesCeiling(d, e, u, v) <=> CrossesCeiling(b, c, x, y)
    <3>1. CASE u = x /\ v = y
      BY <3>1 DEF CrossesCeiling
    <3>2. CASE u = Twice(x) /\ v = y
      BY <2>1, <3>2, CeilingDoubles
    <3>3. CASE u = x /\ v = Twice(y)
      BY <2>1, <3>3, CeilingDoubles
    <3> QED BY <2>4, <3>1, <3>2, <3>3
  <2> QED BY <2>2, <2>3, <2>5, <2>6
<1> QED BY <1>2, <1>3

\* A bin against the worst before it, where all have one denominator.
LEMMA AgainstGreatest ==
  ASSUME NEW d \in Nat \ {0}, MaxInt \in Nat, d * d <= MaxInt,
         NEW bin, bin.fits, bin.num \in 0..d, bin.den = d,
         NEW worst, ~worst.overflowed, worst.num \in 0..d, worst.den \in {1, d}, worst.any => worst.den = d
  PROVE  AgainstWorst(bin, worst) =
           IF worst.any /\ bin.num <= worst.num THEN worst
           ELSE [any |-> TRUE, overflowed |-> FALSE, num |-> bin.num, den |-> d]
<1> DEFINE n == bin.num
           w == worst.num
<1>1. n \in Nat /\ n <= d /\ w \in Nat /\ w <= d /\ worst.den \in Nat /\ worst.den <= d
  OBVIOUS
<1> HIDE DEF n, w
<1>2. n * d <= d * d /\ w * d <= d * d /\ n * d \in Nat /\ w * d \in Nat /\ d * d \in Nat
  BY <1>1, ProductOrder
<1>3. n * worst.den <= n * d /\ n * worst.den \in Nat
  <2>1. worst.den * n <= d * n
    BY <1>1, ProductOrder
  <2> QED BY <1>1, <2>1
<1>4. Representable(n * worst.den) /\ Representable(w * d)
  BY <1>2, <1>3 DEF Representable
<1>5. n * d <= w * d <=> n <= w
  <2>1. n <= w => n * d <= w * d
    BY <1>1, ProductOrder
  <2>2. ASSUME w + 1 <= n PROVE ~(n * d <= w * d)
    <3>1. (w + 1) * d <= n * d
      BY <1>1, <2>2, ProductOrder
    <3>2. (w + 1) * d = w * d + d
      BY <1>1
    <3> QED BY <1>1, <1>2, <3>1, <3>2
  <2> QED BY <1>1, <2>1, <2>2
<1>6. AgainstWorst(bin, worst) =
        IF worst.any /\ n * worst.den <= w * d THEN worst
        ELSE [any |-> TRUE, overflowed |-> FALSE, num |-> n, den |-> d]
  BY <1>4 DEF AgainstWorst, n, w
<1>7. worst.any /\ n * worst.den <= w * d <=> worst.any /\ n <= w
  BY <1>5
<1> QED BY <1>6, <1>7 DEF n, w

\* The worst of some bins is the greatest of their differences.
LEMMA WorstIsGreatest ==
  ASSUME NEW bins, IsFiniteSet(DOMAIN bins), NEW d \in Nat \ {0}, MaxInt \in Nat, d * d <= MaxInt,
         \A name \in DOMAIN bins : bins[name].fits /\ bins[name].num \in 0..d /\ bins[name].den = d
  PROVE  /\ ~WorstOf(bins).overflowed
         /\ WorstOf(bins).any <=> DOMAIN bins # {}
         /\ WorstOf(bins).any =>
              /\ WorstOf(bins).den = d /\ WorstOf(bins).num \in 0..d
              /\ \A name \in DOMAIN bins : bins[name].num <= WorstOf(bins).num
              /\ \E name \in DOMAIN bins : bins[name].num = WorstOf(bins).num
<1> DEFINE Of(n) == [any |-> TRUE, overflowed |-> FALSE, num |-> n, den |-> d]
           A == {NoWorst} \cup {Of(n) : n \in 0..d}
           S == DOMAIN bins
<1>1. \A a \in A : /\ ~a.overflowed /\ a.num \in 0..d /\ a.den \in {1, d} /\ (a.any => a.den = d)
                   /\ a.any => a # NoWorst
  BY DEF NoWorst
<1>2. ASSUME NEW a \in A, NEW x \in S
      PROVE  /\ AgainstWorst(bins[x], a) = IF a.any /\ bins[x].num <= a.num THEN a ELSE Of(bins[x].num)
             /\ AgainstWorst(bins[x], a) \in A
  <2>1. AgainstWorst(bins[x], a) = IF a.any /\ bins[x].num <= a.num THEN a ELSE Of(bins[x].num)
    BY <1>1, AgainstGreatest
  <2> QED BY <2>1
<1>3. NoWorst \in A /\ S \in SUBSET S /\ ~NoWorst.any
  BY DEF NoWorst
<1>4. \A n \in 0..d : Of(n).any /\ Of(n).num = n
  OBVIOUS
<1>5. \A x \in S : bins[x].num \in 0..d
  OBVIOUS
<1>0. IsFiniteSet(S)
  OBVIOUS
<1> HIDE DEF A, Of
<1>6. PICK fold, pick :
        /\ IsPick(pick, S)
        /\ fold \in [SUBSET S -> A]
        /\ fold[{}] = NoWorst
        /\ \A s \in SUBSET S : s # {} => fold[s] = AgainstWorst(bins[pick[s]], fold[s \ {pick[s]}])
        /\ WorstOf(bins) = fold[S]
  BY <1>0, <1>2, <1>3, WorstRuns
<1> HIDE DEF S
<1> DEFINE IsGreatest(s) ==
             /\ fold[s].any <=> s # {}
             /\ \A x \in s : bins[x].num <= fold[s].num
             /\ s # {} => \E x \in s : bins[x].num = fold[s].num
           Good == {k \in Nat : \A s \in SUBSET S : Cardinality(s) = k => IsGreatest(s)}
<1>7. 0 \in Good
  <2>1. \A s \in SUBSET S : Cardinality(s) = 0 => s = {}
    BY <1>0, FS_Subset, FS_EmptySet
  <2>2. IsGreatest({})
    BY <1>3, <1>6
  <2> HIDE DEF IsGreatest
  <2> QED BY <2>1, <2>2
<1>8. ASSUME NEW k \in Nat, k \in Good PROVE k + 1 \in Good
  <2> SUFFICES ASSUME NEW s \in SUBSET S, Cardinality(s) = k + 1
               PROVE  IsGreatest(s)
    OBVIOUS
  <2>0. s # {}
    BY FS_EmptySet
  <2> DEFINE x == pick[s]
             rest == s \ {x}
  <2>1. x \in s
    BY <1>6, <2>0 DEF IsPick
  <2>2. rest \in SUBSET S /\ Cardinality(rest) = k
    BY <1>0, <2>1, SmallerWithout
  <2>3. IsGreatest(rest)
    BY <1>8, <2>2
  <2>4. fold[s] = AgainstWorst(bins[x], fold[rest])
    BY <1>6, <2>0
  <2>5. x \in S /\ fold[rest] \in A /\ fold[s] \in A /\ bins[x].num \in 0..d
    BY <1>5, <1>6, <2>1, <2>2
  <2>6. fold[s] = IF fold[rest].any /\ bins[x].num <= fold[rest].num THEN fold[rest] ELSE Of(bins[x].num)
    BY <1>2, <2>4, <2>5
  <2>7. fold[rest].num \in 0..d /\ \A z \in rest : z \in s /\ bins[z].num \in 0..d
    BY <1>1, <1>5, <2>2, <2>5
  <2>8. \A z \in s : z = x \/ z \in rest
    OBVIOUS
  <2> HIDE DEF x, rest
  <2>9. CASE fold[rest].any /\ bins[x].num <= fold[rest].num
    <3>1. fold[s] = fold[rest]
      BY <2>6, <2>9
    <3> QED BY <2>0, <2>1, <2>3, <2>7, <2>8, <2>9, <3>1
  <2>10. CASE ~(fold[rest].any /\ bins[x].num <= fold[rest].num)
    <3>1. fold[s].any /\ fold[s].num = bins[x].num
      BY <1>4, <2>5, <2>6, <2>10
    <3>2. \A z \in rest : bins[z].num <= bins[x].num
      BY <2>3, <2>5, <2>7, <2>10
    <3>3. bins[x].num <= bins[x].num
      BY <2>5
    <3> QED BY <2>0, <2>1, <2>8, <3>1, <3>2, <3>3
  <2> QED BY <2>9, <2>10
<1>9. IsGreatest(S)
  <2> HIDE DEF IsGreatest
  <2>1. Cardinality(S) \in Nat
    BY <1>0, FS_CardinalityType
  <2>2. Nat \subseteq Good
    <3> HIDE DEF Good
    <3> QED BY <1>7, <1>8, SetInduction
  <2> QED BY <1>3, <2>1, <2>2
<1>10. fold[S] \in A
  BY <1>3, <1>6
<1> QED BY <1>1, <1>6, <1>9, <1>10 DEF S

\* A histogram's count of any name is one of its total.
LEMMA BinCountWithin ==
  ASSUME NEW bins, IsHistogram(bins), NEW name
  PROVE  BinCount(bins, name) \in Nat /\ BinCount(bins, name) <= ProportionTotal(bins)
<1>1. TotalOf(bins) \in Nat /\ ProportionTotal(bins) \in Nat /\ TotalOf(bins) <= ProportionTotal(bins)
  BY ProportionTotalIsCount DEF ProportionTotal
<1>2. CASE name \in DOMAIN bins
  BY <1>1, <1>2, CountsWithinTotal DEF BinCount, IsHistogram
<1>3. CASE name \notin DOMAIN bins
  BY <1>1, <1>3 DEF BinCount
<1> QED BY <1>2, <1>3

\* dist passes what is within the tolerance in every proportion, and nothing else,
\* as long as the products fit.
LEMMA DistByProportion ==
  ASSUME NEW b, NEW c, NEW severity, NEW t, IsTolerance(t), MaxInt \in Nat,
         IsHistogram(Bins(b.value)), IsHistogram(Bins(c.value)),
         ProductsFit(ProportionTotal(Bins(b.value)) * ProportionTotal(Bins(c.value)), t)
  PROVE  CompareDist(b, c, severity, t) =
           IF WithinProportion(Bins(b.value), Bins(c.value), t) THEN Judged("pass") ELSE Judged(Escalate(severity))
<1> DEFINE x == Bins(b.value)
           y == Bins(c.value)
           B == ProportionTotal(x)
           C == ProportionTotal(y)
           d == B * C
           diff == Differences(x, y)
           worst == WorstOf(diff)
           names == DOMAIN x \cup DOMAIN y
<1>0. t.num \in Nat /\ t.den \in Nat \ {0}
  BY DEF IsTolerance
<1>1. /\ TotalOf(x) \in Nat /\ TotalOf(y) \in Nat /\ B \in Nat \ {0} /\ C \in Nat \ {0}
      /\ TotalOf(x) <= B /\ TotalOf(y) <= C
  BY ProportionTotalIsCount DEF ProportionTotal
<1>2. IsHistogram(x) /\ IsHistogram(y) /\ ProductsFit(d, t)
  OBVIOUS
<1>3. IsFiniteSet(names)
  BY <1>2, FS_Union DEF IsHistogram
<1>4. CompareDist(b, c, severity, t) =
        LET scaled == worst.num * t.den
        IN  IF ~Representable(TotalOf(x)) \/ ~Representable(TotalOf(y)) THEN Judged("error")
            ELSE IF worst.overflowed THEN Judged("error")
            ELSE IF ~worst.any THEN Judged("pass")
            ELSE IF ~Representable(scaled) \/ ~Representable(scaled * 100)
                      \/ ~Representable(t.num * worst.den)
              THEN Judged("error")
            ELSE IF scaled * 100 <= t.num * worst.den THEN Judged("pass")
            ELSE Judged(Escalate(severity))
  BY DEF CompareDist
<1> HIDE DEF x, y
<1>5. /\ DOMAIN diff = names
      /\ \A name \in names : diff[name] = BinDifference(BinCount(x, name), B, BinCount(y, name), C)
  BY DEF Differences
<1>6. /\ WithinProportion(x, y, t) <=>
           \A name \in names : Magnitude(BinCount(x, name) * C - BinCount(y, name) * B) * t.den * 100
                                 <= t.num * B * C
  BY DEF WithinProportion
<1> HIDE DEF B, C, diff, worst, names
<1>7. d \in Nat \ {0} /\ B <= d /\ C <= d /\ t.num * B * C = t.num * d
  <2>1. 1 * B <= C * B /\ 1 * C <= B * C /\ C * B \in Nat /\ B * C \in Nat
    BY <1>1, ProductOrder
  <2>2. 1 * B = B /\ 1 * C = C /\ C * B = d /\ d \in Nat
    BY <1>1
  <2>3. t.num * B * C = t.num * d
    BY <1>0, <1>1
  <2> HIDE DEF d
  <2>4. B <= d /\ C <= d
    BY <2>1, <2>2 DEF d
  <2>5. d # 0
    BY <1>1, <2>2, <2>4
  <2> QED BY <2>2, <2>3, <2>4, <2>5
<1> HIDE DEF d
<1>8. d * d <= MaxInt /\ d * (100 * t.den) <= MaxInt /\ t.num * d <= MaxInt /\ d <= MaxInt
  <2> DEFINE most == Larger(d, Larger(100 * t.den, t.num))
             cents == 100 * t.den
  <2>1. cents \in Nat
    BY <1>0
  <2> HIDE DEF cents
  <2>2. /\ Larger(cents, t.num) \in Nat /\ Larger(cents, t.num) >= cents /\ Larger(cents, t.num) >= t.num
    BY <1>0, <2>1 DEF Larger
  <2>3. most = Larger(d, Larger(cents, t.num))
    BY DEF cents
  <2>4. most \in Nat /\ most >= d /\ most >= cents /\ most >= t.num
    BY <1>0, <1>7, <2>1, <2>2, <2>3 DEF Larger
  <2>5. d * most <= MaxInt
    BY <1>2 DEF ProductsFit
  <2> HIDE DEF most
  <2>6. d * d <= most * d /\ cents * d <= most * d /\ t.num * d <= most * d /\ d * d \in Nat
        /\ most * d \in Nat /\ cents * d \in Nat /\ t.num * d \in Nat
    BY <1>0, <1>7, <2>1, <2>4, ProductOrder
  <2>7. 1 * d <= d * d
    BY <1>7, ProductOrder
  <2>8. most * d = d * most /\ d * cents = cents * d
    BY <1>7, <2>1, <2>4
  <2>9. d * d <= MaxInt /\ d * cents <= MaxInt /\ t.num * d <= MaxInt
    BY <2>5, <2>6, <2>8
  <2>10. d <= MaxInt
    BY <1>7, <2>6, <2>7, <2>9
  <2> QED BY <2>9, <2>10 DEF cents
<1>9. ASSUME NEW name \in names
      PROVE  /\ diff[name].fits /\ diff[name].num \in 0..d /\ diff[name].den = d
             /\ diff[name].num = Magnitude(BinCount(x, name) * C - BinCount(y, name) * B)
  <2> DEFINE p == BinCount(x, name)
             q == BinCount(y, name)
  <2>1. p \in Nat /\ p <= B /\ q \in Nat /\ q <= C
    BY <1>2, BinCountWithin DEF B, C
  <2>2. diff[name] = BinDifference(p, B, q, C)
    BY <1>5
  <2> HIDE DEF p, q
  <2>3. p * C <= B * C /\ q * B <= C * B /\ p * C \in Nat /\ q * B \in Nat /\ C * B = B * C
    BY <1>1, <2>1, ProductOrder
  <2> DEFINE apart == p * C - q * B
  <2>4. Magnitude(apart) \in Nat /\ Magnitude(apart) <= d
    <3>1. apart \in Int /\ apart <= d /\ -apart <= d
      <4> DEFINE u == p * C
                 v == q * B
      <4>1. u \in Nat /\ v \in Nat /\ u <= d /\ v <= d
        BY <2>3 DEF d
      <4> HIDE DEF u, v
      <4>2. u - v \in Int /\ u - v <= d /\ -(u - v) <= d
        BY <1>7, <4>1
      <4> QED BY <4>2 DEF u, v
    <3> HIDE DEF apart
    <3> QED BY <3>1 DEF Magnitude
  <2>5. p * C <= d /\ q * B <= d
    BY <2>3 DEF d
  <2>6. \A n \in {p * C, q * B, Magnitude(apart), d} : Representable(n)
    <3>1. \A n \in {p * C, q * B, Magnitude(apart), d} : n \in Nat /\ n <= MaxInt
      BY <1>7, <1>8, <2>3, <2>4, <2>5
    <3> QED BY <3>1 DEF Representable
  <2>7. /\ diff[name].num = Magnitude(apart) /\ diff[name].den = d
        /\ diff[name].fits <=> \A n \in {p * C, q * B, Magnitude(apart), d} : Representable(n)
    BY <2>2 DEF BinDifference, d
  <2> QED BY <2>4, <2>6, <2>7 DEF p, q
<1>10. /\ ~worst.overflowed
       /\ worst.any <=> names # {}
       /\ worst.any =>
            /\ worst.den = d /\ worst.num \in 0..d
            /\ \A name \in names : diff[name].num <= worst.num
            /\ \E name \in names : diff[name].num = worst.num
  BY <1>3, <1>5, <1>7, <1>8, <1>9, WorstIsGreatest DEF worst
<1>11. Representable(TotalOf(x)) /\ Representable(TotalOf(y))
  BY <1>1, <1>7, <1>8 DEF Representable
<1>12. CASE names = {}
  BY <1>4, <1>6, <1>10, <1>11, <1>12 DEF x, y
<1>13. CASE names # {}
  <2> DEFINE n == worst.num
             limit == t.num * d
  <2>1. n \in Nat /\ n <= d /\ worst.den = d /\ worst.any
    BY <1>7, <1>10, <1>13
  <2> HIDE DEF n
  <2>2. n * t.den \in Nat /\ (n * t.den) * 100 \in Nat /\ n * t.den <= (n * t.den) * 100
    BY <1>0, <2>1
  <2>3. (n * t.den) * 100 <= MaxInt
    <3> DEFINE cents == 100 * t.den
    <3>1. cents \in Nat /\ (n * t.den) * 100 = n * cents
      BY <1>0, <2>1
    <3>2. d * cents <= MaxInt
      BY <1>8
    <3> HIDE DEF cents
    <3>3. n * cents <= d * cents /\ n * cents \in Nat /\ d * cents \in Nat
      BY <1>7, <2>1, <3>1, ProductOrder
    <3> QED BY <3>1, <3>2, <3>3
  <2>4. limit \in Nat /\ limit <= MaxInt
    BY <1>0, <1>7, <1>8
  <2>5. Representable(n * t.den) /\ Representable((n * t.den) * 100) /\ Representable(t.num * d)
    BY <2>2, <2>3, <2>4 DEF Representable
  <2>6. CompareDist(b, c, severity, t) =
          IF (n * t.den) * 100 <= t.num * d THEN Judged("pass") ELSE Judged(Escalate(severity))
    BY <1>4, <1>10, <1>11, <2>1, <2>5 DEF n
  <2>7. WithinProportion(x, y, t) <=> \A name \in names : diff[name].num * t.den * 100 <= limit
    BY <1>6, <1>7, <1>9
  <2> HIDE DEF limit
  <2>8. (\A name \in names : diff[name].num * t.den * 100 <= limit) <=> (n * t.den) * 100 <= limit
    <3>1. ASSUME NEW name \in names, (n * t.den) * 100 <= limit
          PROVE  diff[name].num * t.den * 100 <= limit
      <4> DEFINE k == diff[name].num
                 cents == t.den * 100
      <4>1. k \in Nat /\ k <= n
        BY <1>7, <1>9, <1>10, <2>1 DEF n
      <4>2. cents \in Nat /\ k * t.den * 100 = k * cents /\ (n * t.den) * 100 = n * cents
        BY <1>0, <2>1, <4>1
      <4> HIDE DEF k, cents
      <4>3. k * cents <= n * cents /\ k * cents \in Nat /\ n * cents \in Nat
        BY <2>1, <4>1, <4>2, ProductOrder
      <4>4. k * t.den * 100 <= limit
        BY <2>4, <3>1, <4>2, <4>3
      <4> QED BY <4>4 DEF k
    <3>2. PICK name \in names : diff[name].num = n
      BY <1>10, <2>1 DEF n
    <3> QED BY <3>1, <3>2
  <2> QED BY <2>6, <2>7, <2>8 DEF x, y, limit
<1> QED BY <1>12, <1>13

\* A histogram with every count doubled has twice the total.
LEMMA TotalDoubles ==
  ASSUME NEW bins, IsHistogram(bins)
  PROVE  LET more == [n \in DOMAIN bins |-> 2 * bins[n]]
         IN  IsHistogram(more) /\ TotalOf(more) = 2 * TotalOf(bins)
<1> DEFINE S == DOMAIN bins
           more == [n \in S |-> 2 * bins[n]]
<1>1. IsFiniteSet(S) /\ \A n \in S : bins[n] \in Nat
  BY DEF IsHistogram
<1>2. DOMAIN more = S /\ \A n \in S : more[n] = 2 * bins[n] /\ more[n] \in Nat
  BY <1>1
<1>3. IsHistogram(more)
  BY <1>1, <1>2 DEF IsHistogram
<1> HIDE DEF more
<1>4. PICK fold, pick :
        /\ IsPick(pick, S)
        /\ \A s \in SUBSET S : pick[s] = CHOOSE x \in s : TRUE
        /\ fold \in [SUBSET S -> Nat]
        /\ fold[{}] = 0
        /\ \A s \in SUBSET S : s # {} => fold[s] = bins[pick[s]] + fold[s \ {pick[s]}]
        /\ TotalOf(bins) = fold[S]
  BY TotalRuns
<1>a. PICK fold2, pick2 :
        /\ IsPick(pick2, DOMAIN more)
        /\ \A s \in SUBSET DOMAIN more : pick2[s] = CHOOSE x \in s : TRUE
        /\ fold2 \in [SUBSET DOMAIN more -> Nat]
        /\ fold2[{}] = 0
        /\ \A s \in SUBSET DOMAIN more : s # {} => fold2[s] = more[pick2[s]] + fold2[s \ {pick2[s]}]
        /\ TotalOf(more) = fold2[DOMAIN more]
  BY <1>3, TotalRuns
<1>5. /\ \A s \in SUBSET S : pick2[s] = CHOOSE x \in s : TRUE
      /\ fold2 \in [SUBSET S -> Nat]
      /\ fold2[{}] = 0
      /\ \A s \in SUBSET S : s # {} => fold2[s] = more[pick2[s]] + fold2[s \ {pick2[s]}]
      /\ TotalOf(more) = fold2[S]
  <2> HIDE DEF S
  <2> QED BY <1>2, <1>a
<1>6. \A s \in SUBSET S : pick2[s] = pick[s]
  BY <1>4, <1>5
<1> HIDE DEF S
<1> DEFINE Good == {k \in Nat : \A s \in SUBSET S : Cardinality(s) = k => fold2[s] = 2 * fold[s]}
<1>7. 0 \in Good
  <2>1. \A s \in SUBSET S : Cardinality(s) = 0 => s = {}
    BY <1>1, FS_Subset, FS_EmptySet
  <2>2. fold2[{}] = 2 * fold[{}]
    BY <1>4, <1>5
  <2> QED BY <2>1, <2>2
<1>8. ASSUME NEW k \in Nat, k \in Good PROVE k + 1 \in Good
  <2> SUFFICES ASSUME NEW s \in SUBSET S, Cardinality(s) = k + 1
               PROVE  fold2[s] = 2 * fold[s]
    OBVIOUS
  <2>0. s # {}
    BY FS_EmptySet
  <2> DEFINE x == pick[s]
             rest == s \ {x}
  <2>1. x \in s
    BY <1>4, <2>0 DEF IsPick
  <2>2. rest \in SUBSET S /\ Cardinality(rest) = k
    BY <1>1, <2>1, SmallerWithout
  <2>3. fold[s] = bins[x] + fold[rest] /\ fold2[s] = more[x] + fold2[rest]
    BY <1>4, <1>5, <1>6, <2>0
  <2>4. fold2[rest] = 2 * fold[rest]
    BY <1>8, <2>2
  <2>5. more[x] = 2 * bins[x] /\ bins[x] \in Nat /\ fold[rest] \in Nat
    BY <1>1, <1>2, <1>4, <2>1, <2>2
  <2> HIDE DEF x, rest
  <2> QED BY <2>3, <2>4, <2>5
<1>9. fold2[S] = 2 * fold[S]
  <2>1. Cardinality(S) \in Nat
    BY <1>1, FS_CardinalityType
  <2>2. Nat \subseteq Good
    <3> HIDE DEF Good
    <3> QED BY <1>7, <1>8, SetInduction
  <2> QED BY <2>1, <2>2
<1> QED BY <1>3, <1>4, <1>5, <1>9 DEF more, S

\* One histogram is another with every count multiplied by k, and so is its total.
IsMultiple(more, bins, k) ==
  /\ IsHistogram(more) /\ DOMAIN more = DOMAIN bins
  /\ ProportionTotal(more) = k * ProportionTotal(bins)
  /\ \A name : BinCount(more, name) = k * BinCount(bins, name)

\* A doubled measurement's histogram is the same or twice the same.
LEMMA DoubledIsMultiple ==
  ASSUME NEW m, Measurable(m)
  PROVE  \E k \in {1, 2} : IsMultiple(Bins(Doubled(m).value), Bins(m.value), k)
<1> DEFINE bins == Bins(m.value)
           d == Doubled(m)
           more == [n \in DOMAIN bins |-> 2 * bins[n]]
<1>0. IsHistogram(bins)
  BY DEF Measurable, IsHistogram
<1>1. ProportionTotal(bins) \in Nat /\ TotalOf(bins) \in Nat
  BY <1>0, ProportionTotalIsCount
<1>2. \A name : BinCount(bins, name) \in Nat
  BY <1>0, BinCountWithin
<1>3. IsMultiple(bins, bins, 1)
  <2> HIDE DEF bins
  <2> QED BY <1>0, <1>1, <1>2 DEF IsMultiple
<1>4. CASE Is(m.value, "histogram")
  <2>1. d = [m EXCEPT !.value.bins = [n \in DOMAIN @ |-> 2 * @[n]]]
    BY <1>4 DEF Doubled, Is
  <2>2. "value" \in DOMAIN m /\ "kind" \in DOMAIN m.value /\ "bins" \in DOMAIN m.value
    BY <1>4 DEF Measurable
  <2>3. bins = m.value.bins
    BY <1>4 DEF Bins
  <2>4. d.value = [m.value EXCEPT !.bins = more]
    BY <2>1, <2>2, <2>3
  <2>5. d.value.bins = more /\ d.value.kind = "histogram"
    BY <1>4, <2>2, <2>4 DEF Is
  <2>6. Bins(d.value) = more
    BY <2>5 DEF Bins, Is
  <2> HIDE DEF d, bins
  <2>7. IsHistogram(more) /\ TotalOf(more) = 2 * TotalOf(bins)
    BY <1>0, TotalDoubles
  <2>8. DOMAIN more = DOMAIN bins /\ \A n \in DOMAIN bins : more[n] = 2 * bins[n]
    OBVIOUS
  <2> HIDE DEF more
  <2>9. CASE TotalOf(bins) = 0
    <3>1. \A n \in DOMAIN bins : more[n] = 1 * bins[n]
      <4> SUFFICES ASSUME NEW n \in DOMAIN bins PROVE more[n] = 1 * bins[n]
        OBVIOUS
      <4>1. bins[n] \in Nat /\ bins[n] <= 0
        BY <1>0, <2>9, CountsWithinTotal DEF IsHistogram
      <4> QED BY <2>8, <4>1
    <3>2. ProportionTotal(more) = 1 * ProportionTotal(bins)
      BY <2>7, <2>9 DEF ProportionTotal
    <3>3. \A name : BinCount(more, name) = 1 * BinCount(bins, name)
      BY <2>8, <3>1 DEF BinCount
    <3>4. IsMultiple(more, bins, 1)
      BY <2>7, <2>8, <3>2, <3>3 DEF IsMultiple
    <3> QED BY <2>6, <3>4 DEF d, bins
  <2>10. CASE TotalOf(bins) # 0
    <3>1. ProportionTotal(more) = 2 * ProportionTotal(bins)
      BY <1>1, <2>7, <2>10 DEF ProportionTotal
    <3>2. \A name : BinCount(more, name) = 2 * BinCount(bins, name)
      BY <2>8 DEF BinCount
    <3>3. IsMultiple(more, bins, 2)
      BY <2>7, <2>8, <3>1, <3>2 DEF IsMultiple
    <3> QED BY <2>6, <3>3 DEF d, bins
  <2> QED BY <2>9, <2>10
<1>5. CASE ~Is(m.value, "histogram")
  <2>1. ~Is(d.value, "histogram")
    <3>1. d.value.kind = m.value.kind
      BY DoubledBasis
    <3> QED BY <1>5, <3>1 DEF Is
  <2>2. Bins(d.value) = bins
    BY <1>5, <2>1 DEF Bins
  <2> QED BY <1>3, <2>2
<1> QED BY <1>4, <1>5

\* Multiplying the counts of either side leaves the proportions as they are.
LEMMA ProportionsOfMultiples ==
  ASSUME NEW b, NEW c, NEW x, NEW y, NEW t, IsTolerance(t), IsHistogram(b), IsHistogram(c),
         NEW k \in {1, 2}, NEW l \in {1, 2}, k = 1 \/ l = 1, IsMultiple(x, b, k), IsMultiple(y, c, l)
  PROVE  WithinProportion(x, y, t) <=> WithinProportion(b, c, t)
<1> DEFINE B == ProportionTotal(b)
           C == ProportionTotal(c)
           names == DOMAIN b \cup DOMAIN c
<1>0. t.num \in Nat /\ t.den \in Nat
  BY DEF IsTolerance
<1>1. B \in Nat /\ C \in Nat
  BY ProportionTotalIsCount
<1>2. WithinProportion(b, c, t) <=>
        \A name \in names : Magnitude(BinCount(b, name) * C - BinCount(c, name) * B) * t.den * 100
                              <= t.num * B * C
  BY DEF WithinProportion
<1>3. WithinProportion(x, y, t) <=>
        \A name \in names :
          Magnitude((k * BinCount(b, name)) * (l * C) - (l * BinCount(c, name)) * (k * B)) * t.den * 100
            <= t.num * (k * B) * (l * C)
  BY DEF WithinProportion, IsMultiple
<1> HIDE DEF B, C, names
<1>4. ASSUME NEW name \in names
      PROVE  Magnitude((k * BinCount(b, name)) * (l * C) - (l * BinCount(c, name)) * (k * B)) * t.den * 100
               <= t.num * (k * B) * (l * C)
             <=> Magnitude(BinCount(b, name) * C - BinCount(c, name) * B) * t.den * 100 <= t.num * B * C
  <2> DEFINE p == BinCount(b, name)
             q == BinCount(c, name)
             apart == p * C - q * B
             delta == Magnitude(apart)
             near == delta * t.den * 100
             limit == t.num * B * C
  <2>1. p \in Nat /\ q \in Nat
    BY BinCountWithin
  <2> HIDE DEF p, q
  <2>2. apart \in Int
    BY <1>1, <2>1
  <2>3. delta \in Nat /\ Magnitude(2 * apart) = 2 * delta
    BY <2>2, MagnitudeDoubles
  <2>4. /\ (1 * p) * (1 * C) - (1 * q) * (1 * B) = apart
        /\ (2 * p) * (1 * C) - (1 * q) * (2 * B) = 2 * apart
        /\ (1 * p) * (2 * C) - (2 * q) * (1 * B) = 2 * apart
    BY <1>1, <2>1
  <2>5. /\ t.num * (1 * B) * (1 * C) = limit
        /\ t.num * (2 * B) * (1 * C) = 2 * limit
        /\ t.num * (1 * B) * (2 * C) = 2 * limit
        /\ limit \in Nat
    BY <1>0, <1>1
  <2> HIDE DEF apart, delta
  <2>6. (2 * delta) * t.den * 100 = 2 * near /\ near \in Nat
    BY <1>0, <2>3
  <2> DEFINE Told(i, j) == Magnitude((i * p) * (j * C) - (j * q) * (i * B)) * t.den * 100
             Most(i, j) == t.num * (i * B) * (j * C)
  <2>7. /\ Told(1, 1) = near /\ Most(1, 1) = limit
        /\ Told(2, 1) = 2 * near /\ Most(2, 1) = 2 * limit
        /\ Told(1, 2) = 2 * near /\ Most(1, 2) = 2 * limit
    BY <2>3, <2>4, <2>5, <2>6 DEF delta
  <2> HIDE DEF Told, Most
  <2>8. near \in Nat /\ limit \in Nat
    BY <2>5, <2>6
  <2> HIDE DEF near, limit
  <2>9. 2 * near <= 2 * limit <=> near <= limit
    BY <2>8
  <2>10. Told(k, l) <= Most(k, l) <=> near <= limit
    <3>1. (k = 1 /\ l = 1) \/ (k = 2 /\ l = 1) \/ (k = 1 /\ l = 2)
      OBVIOUS
    <3> QED BY <2>7, <2>9, <3>1
  <2> QED BY <2>10 DEF Told, Most, near, limit, delta, apart, p, q
<1> QED BY <1>2, <1>3, <1>4

\* Products that fit for a denominator fit for half of it.
LEMMA LessFits ==
  ASSUME NEW den \in Nat, NEW t, IsTolerance(t), MaxInt \in Nat, ProductsFit(2 * den, t)
  PROVE  ProductsFit(den, t)
<1> DEFINE twice == 2 * den
           rest == Larger(100 * t.den, t.num)
<1>1. rest \in Nat /\ twice \in Nat /\ den <= twice
  BY DEF Larger, IsTolerance
<1>2. twice * Larger(twice, rest) <= MaxInt
  BY DEF ProductsFit
<1> HIDE DEF rest, twice
<1>3. /\ Larger(den, rest) \in Nat /\ Larger(twice, rest) \in Nat
      /\ Larger(den, rest) <= Larger(twice, rest)
  BY <1>1 DEF Larger
<1> DEFINE m == Larger(den, rest)
           n == Larger(twice, rest)
<1>4. m \in Nat /\ n \in Nat /\ m <= n
  BY <1>3
<1> HIDE DEF m, n
<1>5. den * m <= twice * m /\ m * twice <= n * twice /\ den * m \in Nat /\ twice * m \in Nat
      /\ m * twice = twice * m /\ n * twice = twice * n /\ twice * n \in Nat
  BY <1>1, <1>4, ProductOrder
<1>6. den * m <= MaxInt
  BY <1>2, <1>5 DEF n
<1> QED BY <1>6 DEF ProductsFit, m, rest
-------------------------------------------------------------------------------
(* The ratios decide.                                                      *)

\* What the comparators make of a finding's two measurements and of the same with
\* one of them doubled.
LEMMA JudgedByRatios ==
  ASSUME PromisesIInv, NEW f \in JudgedFindings,
         \/ CheckOf(f).semantic = "tol"
         \/ /\ CheckOf(f).semantic = "dist"
            /\ ProductsFit(2 * CommonTotal(f), ToleranceFor(CheckOf(f), world.profile))
  PROVE  /\ Rejudged(f, Doubled(Baseline(f)), Candidate(f)).status = f.status
         /\ Rejudged(f, Baseline(f), Doubled(Candidate(f))).status = f.status
<1> DEFINE b == Baseline(f)
           c == Candidate(f)
           d == Doubled(b)
           e == Doubled(c)
           t == ToleranceFor(CheckOf(f), world.profile)
<1>1. world \in Worlds /\ f.status = Rejudged(f, b, c).status
  BY DEF PromisesIInv, WorldReported, ReportedAsCompared
<1>2. f.key[1] \in Checks /\ Measurable(b) /\ Measurable(c)
  BY JudgedMeasures
<1>3. IsTolerance(t)
  BY <1>1, <1>2, PromisesAssumption DEF IsTolerance, Tolerances, CheckOf
<1>4. EstimatedFactor \in Nat \ {0} /\ MaxInt \in Nat /\ CeilingDeadband \in Nat \X (Nat \ {0})
  BY PromisesAssumption
<1> HIDE DEF b, c, d, e, t
<1>5. CASE CheckOf(f).semantic = "tol"
  <2>1. \A x, y : Rejudged(f, x, y) = CompareTol(x, y, f.severity, t)
    BY <1>5 DEF Rejudged, Compare, CheckOf, t
  <2>2. /\ d.value.kind = b.value.kind /\ d.estimated = b.estimated
        /\ d.end_delta = b.end_delta /\ d.ceiling = b.ceiling
        /\ HasMagnitude(b.value) => Basis(d, c) \in {Basis(b, c), Twice(Basis(b, c))} /\ Basis(c, d) = Basis(c, b)
    BY <1>2, DoubledBasis DEF d
  <2>3. /\ e.value.kind = c.value.kind /\ e.estimated = c.estimated
        /\ e.end_delta = c.end_delta /\ e.ceiling = c.ceiling
        /\ HasMagnitude(c.value) => Basis(e, b) \in {Basis(c, b), Twice(Basis(c, b))} /\ Basis(b, e) = Basis(b, c)
    BY <1>2, DoubledBasis DEF e
  <2>4. CompareTol(d, c, f.severity, t).status = CompareTol(b, c, f.severity, t).status
    BY <1>2, <1>3, <1>4, <2>2, TolOfRatios
  <2>5. CompareTol(b, e, f.severity, t).status = CompareTol(b, c, f.severity, t).status
    BY <1>2, <1>3, <1>4, <2>3, TolOfRatios
  <2> QED BY <1>1, <2>1, <2>4, <2>5 DEF b, c, d, e
<1>6. CASE /\ CheckOf(f).semantic = "dist"
           /\ ProductsFit(2 * CommonTotal(f), ToleranceFor(CheckOf(f), world.profile))
  <2> DEFINE x == Bins(b.value)
             y == Bins(c.value)
             B == ProportionTotal(x)
             C == ProportionTotal(y)
             Said(p, q) == IF WithinProportion(p, q, t) THEN Judged("pass") ELSE Judged(Escalate(f.severity))
  <2>1. \A p, q : Rejudged(f, p, q) = CompareDist(p, q, f.severity, t)
    BY <1>6 DEF Rejudged, Compare, CheckOf, t
  <2>2. IsHistogram(x) /\ IsHistogram(y)
    BY <1>2 DEF Measurable, IsHistogram
  <2>3. B \in Nat \ {0} /\ C \in Nat \ {0}
    BY <2>2, ProportionTotalIsCount
  <2>4. PICK k \in {1, 2} : IsMultiple(Bins(d.value), x, k)
    BY <1>2, DoubledIsMultiple DEF d
  <2>5. PICK l \in {1, 2} : IsMultiple(Bins(e.value), y, l)
    BY <1>2, DoubledIsMultiple DEF e
  <2>6. IsMultiple(x, x, 1) /\ IsMultiple(y, y, 1)
    <3>1. \A name : BinCount(x, name) \in Nat /\ BinCount(y, name) \in Nat
      BY <2>2, BinCountWithin
    <3> HIDE DEF x, y
    <3> QED BY <2>2, <2>3, <3>1 DEF IsMultiple
  <2>7. ProductsFit(2 * (B * C), t)
    BY <1>6 DEF CommonTotal, t, b, c
  <2>8. ProductsFit(B * C, t) /\ ProductsFit((k * B) * C, t) /\ ProductsFit(B * (l * C), t)
    <3>1. B * C \in Nat
      BY <2>3
    <3>2. (1 * B) * C = B * C /\ (2 * B) * C = 2 * (B * C) /\ B * (1 * C) = B * C /\ B * (2 * C) = 2 * (B * C)
      BY <2>3
    <3>3. ProductsFit(B * C, t)
      BY <1>3, <1>4, <2>7, <3>1, LessFits
    <3> QED BY <2>4, <2>5, <2>7, <3>2, <3>3
  <2>9. CompareDist(b, c, f.severity, t) = Said(x, y)
    BY <1>3, <1>4, <2>2, <2>8, DistByProportion
  <2>10. CompareDist(d, c, f.severity, t) = Said(x, y)
    <3> DEFINE z == Bins(d.value)
    <3>1. IsHistogram(z) /\ ProportionTotal(z) = k * B
      BY <2>4 DEF IsMultiple
    <3>2. CompareDist(d, c, f.severity, t) = Said(z, y)
      BY <1>3, <1>4, <2>2, <2>8, <3>1, DistByProportion
    <3>3. WithinProportion(z, y, t) <=> WithinProportion(x, y, t)
      <4> HIDE DEF x, y, z
      <4>1. IsMultiple(z, x, k)
        BY <2>4 DEF z
      <4> QED BY <1>3, <2>2, <2>6, <4>1, ProportionsOfMultiples
    <3> HIDE DEF x, y, z
    <3> QED BY <3>2, <3>3
  <2>11. CompareDist(b, e, f.severity, t) = Said(x, y)
    <3> DEFINE z == Bins(e.value)
    <3>1. IsHistogram(z) /\ ProportionTotal(z) = l * C
      BY <2>5 DEF IsMultiple
    <3>2. CompareDist(b, e, f.severity, t) = Said(x, z)
      BY <1>3, <1>4, <2>2, <2>8, <3>1, DistByProportion
    <3>3. WithinProportion(x, z, t) <=> WithinProportion(x, y, t)
      <4> HIDE DEF x, y, z
      <4>1. IsMultiple(z, y, l)
        BY <2>5 DEF z
      <4> QED BY <1>3, <2>2, <2>6, <4>1, ProportionsOfMultiples
    <3> HIDE DEF x, y, z
    <3> QED BY <3>2, <3>3
  <2> HIDE DEF Said
  <2> QED BY <1>1, <2>1, <2>9, <2>10, <2>11 DEF b, c, d, e
<1> QED BY <1>5, <1>6

\* What dist says of a finding.
LEMMA JudgedByProportions ==
  ASSUME PromisesIInv, NEW f \in JudgedFindings, CheckOf(f).semantic = "dist",
         ProductsFit(CommonTotal(f), ToleranceFor(CheckOf(f), world.profile))
  PROVE  f.status = IF WithinProportion(Bins(Baseline(f).value), Bins(Candidate(f).value),
                                        ToleranceFor(CheckOf(f), world.profile))
                      THEN "pass" ELSE Escalate(f.severity)
<1> DEFINE b == Baseline(f)
           c == Candidate(f)
           t == ToleranceFor(CheckOf(f), world.profile)
<1>1. world \in Worlds /\ f.status = Rejudged(f, b, c).status
  BY DEF PromisesIInv, WorldReported, ReportedAsCompared
<1>2. f.key[1] \in Checks /\ Measurable(b) /\ Measurable(c)
  BY JudgedMeasures
<1>3. IsTolerance(t)
  BY <1>1, <1>2, PromisesAssumption DEF IsTolerance, Tolerances, CheckOf
<1>4. MaxInt \in Nat
  BY PromisesAssumption
<1>5. ProductsFit(ProportionTotal(Bins(b.value)) * ProportionTotal(Bins(c.value)), t)
  BY DEF CommonTotal
<1> HIDE DEF b, c, t
<1>6. Rejudged(f, b, c) = CompareDist(b, c, f.severity, t)
  BY DEF Rejudged, Compare, CheckOf, t
<1>7. IsHistogram(Bins(b.value)) /\ IsHistogram(Bins(c.value))
  BY <1>2 DEF Measurable, IsHistogram
<1>8. CompareDist(b, c, f.severity, t) =
        IF WithinProportion(Bins(b.value), Bins(c.value), t) THEN Judged("pass") ELSE Judged(Escalate(f.severity))
  BY <1>3, <1>4, <1>5, <1>7, DistByProportion
<1> QED BY <1>1, <1>6, <1>8 DEF Judged, b, c, t

\* A verdict on numbers is one on their ratios, whatever terms they are given in and
\* however long the files: a fraction or a histogram can be doubled on either side,
\* and histograms pass exactly if every proportion is within the tolerance.  For dist
\* this holds as long as its products stay in 64 bits (tol.cpp:456, dist.cpp:101, 154).
THEOREM RatiosAreJudged == EngineSpec => []RatiosDecide
<1>1. ASSUME PromisesIInv PROVE RatiosDecide
  <2>1. OnlyRatiosMatter
    BY <1>1, JudgedByRatios DEF OnlyRatiosMatter
  <2>2. ProportionsDecide
    BY <1>1, JudgedByProportions DEF ProportionsDecide
  <2> QED BY <2>1, <2>2 DEF RatiosDecide
<1> QED
  BY <1>1, PromisesInvariant, PTL
===============================================================================
