------------------------------ MODULE ReportProofs -----------------------------
(***************************************************************************)
(* Proofs about what a run says, for findings and reports of any number:   *)
(* the tallies of Verdict and the destinations of RunOutput.  A fold over  *)
(* a sequence is a recursive function: what it computes is proved by       *)
(* induction on the prefixes of the sequence, the induction principle      *)
(* itself following from the well-foundedness of < on Nat (WFMin).         *)
(***************************************************************************)
EXTENDS RunOutput, WellFoundedInduction, FiniteSetTheorems, TLAPS

\* Induction on a set: one that holds 0 and is closed under successor holds Nat.
LEMMA SetInduction ==
  ASSUME NEW S, 0 \in S, \A n \in Nat : n \in S => n + 1 \in S
  PROVE  Nat \subseteq S
<1> SUFFICES ASSUME NEW m \in Nat, m \notin S PROVE FALSE
  OBVIOUS
<1> DEFINE T == Nat \ S
           R == OpToRel(<, Nat)
<1>1. IsWellFoundedOn(R, Nat)
  BY NatLessThanWellFounded
<1>2. T \subseteq Nat /\ T # {}
  OBVIOUS
<1> HIDE DEF R
<1>3. PICK x \in T : \A y \in T : ~(<<y, x>> \in R)
  BY <1>1, <1>2, WFMin
<1>4. \A y \in Nat : y < x => <<y, x>> \in R
  BY DEF R, OpToRel
<1>5. x # 0 /\ x - 1 \in Nat /\ x - 1 < x
  OBVIOUS
<1>6. x - 1 \notin T
  BY <1>3, <1>4, <1>5
<1> QED BY <1>5, <1>6

\* A non-empty set of natural numbers has a least one.
LEMMA LeastOf ==
  ASSUME NEW S \in SUBSET Nat, S # {}
  PROVE  Min(S) \in S /\ \A y \in S : Min(S) <= y
<1> DEFINE R == OpToRel(<, Nat)
<1>1. IsWellFoundedOn(R, Nat)
  BY NatLessThanWellFounded
<1> HIDE DEF R
<1>2. PICK x \in S : \A y \in S : ~(<<y, x>> \in R)
  BY <1>1, WFMin
<1>3. \A y \in Nat : y < x => <<y, x>> \in R
  BY DEF R, OpToRel
<1>4. ASSUME NEW y \in S PROVE x <= y
  <2>1. ~(y < x)
    BY <1>2, <1>3
  <2> QED BY <2>1
<1>5. x \in S /\ \A y \in S : x <= y
  BY <1>4
<1> QED BY <1>5 DEF Min

\* A non-empty set of positions has a last one.
LEMMA MaxOfPositions ==
  ASSUME NEW n \in Nat, NEW s \in SUBSET (1..n), s # {}
  PROVE  Max(s) \in s /\ \A x \in s : x <= Max(s)
<1> DEFINE HasLast(k) == \A t \in SUBSET (1..k) : t # {} => \E m \in t : \A x \in t : x <= m
           Good == {k \in Nat : HasLast(k)}
<1>1. HasLast(0)
  <2>1. 1..0 = {}
    OBVIOUS
  <2> QED BY <2>1
<1>2. ASSUME NEW k \in Nat, HasLast(k) PROVE HasLast(k + 1)
  <2> SUFFICES ASSUME NEW t \in SUBSET (1..(k + 1)), t # {} PROVE \E m \in t : \A x \in t : x <= m
    OBVIOUS
  <2>1. CASE k + 1 \in t
    BY <2>1
  <2>2. CASE k + 1 \notin t
    <3>1. t \in SUBSET (1..k)
      BY <2>2
    <3> QED BY <1>2, <3>1
  <2> QED BY <2>1, <2>2
<1> HIDE DEF HasLast
<1>3. HasLast(n)
  <2>1. 0 \in Good /\ \A k \in Nat : k \in Good => k + 1 \in Good
    BY <1>1, <1>2
  <2> HIDE DEF Good
  <2>2. n \in Good
    BY <2>1, SetInduction
  <2> QED BY <2>2 DEF Good
<1>4. \E m \in s : \A x \in s : x <= m
  BY <1>3 DEF HasLast
<1>5. \E m \in s : \A x \in s : m >= x
  BY <1>4
<1> QED BY <1>5 DEF Max

\* The largest index of a prefix is its length.
LEMMA LastOfPrefix ==
  ASSUME NEW k \in Nat \ {0}
  PROVE  Max(1..k) = k /\ (1..k) \ {k} = 1..(k - 1) /\ 1..k # {}
<1>1. 1..k # {} /\ (1..k) \ {k} = 1..(k - 1) /\ k \in 1..k
  OBVIOUS
<1>2. Max(1..k) \in 1..k /\ \A x \in 1..k : x <= Max(1..k)
  BY <1>1, MaxOfPositions
<1> QED BY <1>1, <1>2

\* What the recursive function behind a fold over the positions 1..n is.
IsFold(g, A, base, n, step) ==
  /\ g \in [SUBSET (1..n) -> A]
  /\ g[{}] = base
  /\ \A s \in SUBSET (1..n) : s # {} =>
       Max(s) \in 1..n /\ g[s] = step[<<g[s \ {Max(s)}], Max(s)>>]

\* A fold whose step stays within a set exists as a function on sets of positions.
LEMMA FoldExists ==
  ASSUME NEW A, NEW base \in A, NEW n \in Nat, NEW step \in [A \X (1..n) -> A]
  PROVE  \E g : IsFold(g, A, base, n, step)
<1> DEFINE Folds(g, k) ==
             /\ g \in [SUBSET (1..k) -> A]
             /\ g[{}] = base
             /\ \A s \in SUBSET (1..k) : s # {} =>
                  Max(s) \in 1..k /\ g[s] = step[<<g[s \ {Max(s)}], Max(s)>>]
           Reaches(k) == k <= n => \E g : Folds(g, k)
           Good == {k \in Nat : Reaches(k)}
<1>1. Reaches(0)
  <2> DEFINE g == [s \in SUBSET (1..0) |-> base]
  <2>0. SUBSET (1..0) = {{}}
    OBVIOUS
  <2>1. g \in [SUBSET (1..0) -> A] /\ g[{}] = base
    BY <2>0
  <2>2. \A s \in SUBSET (1..0) : s = {}
    BY <2>0
  <2>3. Folds(g, 0)
    BY <2>1, <2>2
  <2> HIDE DEF Folds, g
  <2> QED BY <2>3
<1>2. ASSUME NEW k \in Nat, Reaches(k) PROVE Reaches(k + 1)
  <2> SUFFICES ASSUME k + 1 <= n PROVE \E h : Folds(h, k + 1)
    OBVIOUS
  <2>1. PICK g : Folds(g, k)
    <3>1. k <= n
      OBVIOUS
    <3> HIDE DEF Folds
    <3> QED BY <1>2, <3>1
  <2> DEFINE h == [s \in SUBSET (1..(k + 1)) |->
                     IF k + 1 \in s THEN step[<<g[s \ {k + 1}], k + 1>>] ELSE g[s]]
  <2>2. \A s \in SUBSET (1..(k + 1)) : s \ {k + 1} \in SUBSET (1..k)
    OBVIOUS
  <2>3. \A s \in SUBSET (1..(k + 1)) : k + 1 \notin s => s \in SUBSET (1..k)
    OBVIOUS
  <2>4. k + 1 \in 1..n
    OBVIOUS
  <2>5. h \in [SUBSET (1..(k + 1)) -> A]
    BY <2>1, <2>2, <2>3, <2>4
  <2>6. h[{}] = base
    BY <2>1
  <2>7. ASSUME NEW s \in SUBSET (1..(k + 1)), s # {}
        PROVE  Max(s) \in 1..(k + 1) /\ h[s] = step[<<h[s \ {Max(s)}], Max(s)>>]
    <3>1. Max(s) \in s /\ (\A x \in s : x <= Max(s)) /\ Max(s) \in Nat
      <4>1. k + 1 \in Nat /\ \A m : m = k + 1 => m \in Nat /\ s \in SUBSET (1..m)
        OBVIOUS
      <4>2. Max(s) \in s /\ \A x \in s : x <= Max(s)
        BY <2>7, <4>1, MaxOfPositions
      <4>3. \A x \in s : x \in Nat
        OBVIOUS
      <4> QED BY <4>2, <4>3
    <3>2. CASE k + 1 \in s
      <4>1. Max(s) = k + 1
        <5>1. Max(s) <= k + 1 /\ k + 1 <= Max(s)
          BY <3>1, <3>2
        <5> QED BY <3>1, <5>1
      <4>2. h[s \ {k + 1}] = g[s \ {k + 1}]
        BY <2>2
      <4> QED BY <3>2, <4>1, <4>2
    <3>3. CASE k + 1 \notin s
      <4>1. s \in SUBSET (1..k) /\ s \ {Max(s)} \in SUBSET (1..k)
        BY <2>3, <3>3
      <4>2. k + 1 \notin s \ {Max(s)}
        BY <3>3
      <4>3. h[s] = g[s] /\ h[s \ {Max(s)}] = g[s \ {Max(s)}]
        BY <3>3, <4>1, <4>2
      <4> QED BY <2>1, <2>7, <3>1, <4>1, <4>3
    <3> QED BY <3>2, <3>3
  <2> HIDE DEF h
  <2> QED BY <2>5, <2>6, <2>7
<1> HIDE DEF Reaches
<1>3. Reaches(n)
  <2>1. 0 \in Good /\ \A k \in Nat : k \in Good => k + 1 \in Good
    BY <1>1, <1>2
  <2> HIDE DEF Good
  <2>2. n \in Good
    BY <2>1, SetInduction
  <2> QED BY <2>2 DEF Good
<1>4. \E g : Folds(g, n)
  <2> HIDE DEF Folds
  <2>1. n <= n
    OBVIOUS
  <2> QED BY <1>3, <2>1 DEF Reaches
<1> QED BY <1>4 DEF IsFold

\* The values of a fold on the prefixes of its sequence, one step apart.
IsRun(run, A, base, n, step, fold) ==
  /\ run[n] = fold[1..n]
  /\ run \in [0..n -> A]
  /\ run[0] = base
  /\ \A k \in 1..n : run[k] = step[<<run[k - 1], k>>]

\* The equations of a recursive function of which no type is known yet.
Unfolds(fold, A, base, n, step) ==
  /\ fold[{}] = base
  /\ \A s \in SUBSET (1..n) : s # {} /\ fold[s \ {Max(s)}] \in A
       => fold[s] = step[<<fold[s \ {Max(s)}], Max(s)>>]

\* A fold over a sequence is reached element by element.
LEMMA FoldRuns ==
  ASSUME NEW A, NEW base \in A, NEW n \in Nat, NEW step \in [A \X (1..n) -> A], NEW fold,
         Unfolds(fold, A, base, n, step)
  PROVE  \E run : IsRun(run, A, base, n, step, fold)
<1> DEFINE run == [k \in 0..n |-> fold[1..k]]
<1>1. run[0] = base
  <2>1. 1..0 = {} /\ 0 \in 0..n
    OBVIOUS
  <2> QED BY <2>1 DEF Unfolds
<1>2. ASSUME NEW k \in 1..n, run[k - 1] \in A PROVE run[k] = step[<<run[k - 1], k>>]
  <2>0. k \in Nat \ {0}
    OBVIOUS
  <2>1. Max(1..k) = k /\ (1..k) \ {k} = 1..(k - 1) /\ 1..k # {}
    BY <2>0, LastOfPrefix
  <2>2. 1..k \in SUBSET (1..n) /\ k \in 0..n /\ k - 1 \in 0..n
    OBVIOUS
  <2>3. run[k] = fold[1..k] /\ run[k - 1] = fold[1..(k - 1)]
    BY <2>2
  <2> HIDE DEF run
  <2>4. fold[(1..k) \ {Max(1..k)}] \in A
    BY <1>2, <2>1, <2>3
  <2>5. fold[1..k] = step[<<fold[(1..k) \ {Max(1..k)}], Max(1..k)>>]
    BY <2>1, <2>2, <2>4 DEF Unfolds
  <2> QED BY <2>1, <2>3, <2>5
<1>3. run[n] = fold[1..n]
  OBVIOUS
<1> DEFINE Good == {k \in Nat : k <= n => run[k] \in A}
<1> HIDE DEF run
<1>5. 0 \in Good
  BY <1>1
<1>6. ASSUME NEW k \in Nat, k \in Good PROVE k + 1 \in Good
  <2> SUFFICES ASSUME k + 1 <= n PROVE run[k + 1] \in A
    OBVIOUS
  <2>1. k + 1 \in 1..n /\ (k + 1) - 1 = k /\ run[k] \in A
    BY <1>6
  <2>2. run[k + 1] = step[<<run[k], k + 1>>]
    BY <1>2, <2>1
  <2> QED BY <2>1, <2>2
<1> HIDE DEF Good
<1>7. Nat \subseteq Good
  BY <1>5, <1>6, SetInduction
<1>8. \A k \in 0..n : run[k] \in A
  BY <1>7 DEF Good
<1>9. run \in [0..n -> A]
  BY <1>8 DEF run
<1>10. \A k \in 1..n : run[k] = step[<<run[k - 1], k>>]
  BY <1>2, <1>8
<1> QED BY <1>1, <1>3, <1>9, <1>10 DEF IsRun

\* A set that every step of a fold stays in holds what the fold returns.
LEMMA FoldStays ==
  ASSUME NEW A, NEW base \in A, NEW n \in Nat, NEW step \in [A \X (1..n) -> A], NEW fold,
         Unfolds(fold, A, base, n, step)
  PROVE  fold[1..n] \in A
<1>1. PICK run : IsRun(run, A, base, n, step, fold)
  BY FoldRuns
<1> QED BY <1>1 DEF IsRun

\* What the recursive function behind a fold over a finite set is.
IsSetFold(g, A, base, S, pick, step) ==
  /\ g \in [SUBSET S -> A]
  /\ g[{}] = base
  /\ \A s \in SUBSET S : s # {} => g[s] = step[<<g[s \ {pick[s]}], pick[s]>>]

\* A function that takes an element of every non-empty subset.
IsPick(pick, S) == \A s \in SUBSET S : s # {} => pick[s] \in s

\* A finite set without an element has one less.
LEMMA SmallerWithout ==
  ASSUME NEW S, IsFiniteSet(S), NEW s \in SUBSET S, NEW x \in s
  PROVE  /\ Cardinality(s) \in Nat \ {0}
         /\ s \ {x} \in SUBSET S
         /\ Cardinality(s \ {x}) = Cardinality(s) - 1
<1>1. IsFiniteSet(s)
  BY FS_Subset
<1>2. Cardinality(s) \in Nat /\ Cardinality(s) # 0
  BY <1>1, FS_CardinalityType, FS_EmptySet
<1>3. Cardinality(s \ {x}) = Cardinality(s) - 1
  BY <1>1, FS_RemoveElement
<1> QED BY <1>2, <1>3

\* A fold over a finite set, by any order of picking, is a function on its subsets.
LEMMA SetFoldExists ==
  ASSUME NEW A, NEW base \in A, NEW S, IsFiniteSet(S), NEW pick, IsPick(pick, S),
         NEW step \in [A \X S -> A]
  PROVE  \E g : IsSetFold(g, A, base, S, pick, step)
<1> DEFINE Small(k) == {s \in SUBSET S : Cardinality(s) <= k}
           Folds(g, k) ==
             /\ g \in [Small(k) -> A]
             /\ g[{}] = base
             /\ \A s \in Small(k) : s # {} => g[s] = step[<<g[s \ {pick[s]}], pick[s]>>]
           Good == {k \in Nat : \E g : Folds(g, k)}
<1>0. /\ Cardinality({}) = 0
      /\ \A s \in SUBSET S : Cardinality(s) \in Nat
      /\ \A s \in SUBSET S : s # {} =>
           /\ pick[s] \in s /\ s \ {pick[s]} \in SUBSET S
           /\ Cardinality(s) # 0 /\ Cardinality(s \ {pick[s]}) = Cardinality(s) - 1
  <2>1. \A s \in SUBSET S : Cardinality(s) \in Nat
    BY FS_Subset, FS_CardinalityType
  <2>2. Cardinality({}) = 0
    BY FS_EmptySet
  <2>3. ASSUME NEW s \in SUBSET S, s # {}
        PROVE  /\ pick[s] \in s /\ s \ {pick[s]} \in SUBSET S
               /\ Cardinality(s) # 0 /\ Cardinality(s \ {pick[s]}) = Cardinality(s) - 1
    <3>1. pick[s] \in s
      BY <2>3 DEF IsPick
    <3> QED BY <3>1, SmallerWithout
  <2> QED BY <2>1, <2>2, <2>3
<1>1. 0 \in Good
  <2> DEFINE g == [s \in Small(0) |-> base]
  <2>1. {} \in Small(0) /\ \A s \in Small(0) : s = {}
    <3>1. \A s \in SUBSET S : s # {} => Cardinality(s) # 0
      BY <1>0
    <3>2. \A s \in SUBSET S : Cardinality(s) <= 0 => Cardinality(s) = 0
      BY <1>0
    <3> QED BY <1>0, <3>1, <3>2
  <2>2. Folds(g, 0)
    BY <2>1
  <2> HIDE DEF Folds, g
  <2> QED BY <2>2
<1>2. ASSUME NEW k \in Nat, k \in Good PROVE k + 1 \in Good
  <2>1. PICK g : Folds(g, k)
    <3> HIDE DEF Folds
    <3> QED BY <1>2
  <2> DEFINE h == [s \in Small(k + 1) |-> IF s = {} THEN base
                                          ELSE step[<<g[s \ {pick[s]}], pick[s]>>]]
  <2>2. ASSUME NEW s \in Small(k + 1), s # {}
        PROVE  s \ {pick[s]} \in Small(k) /\ s \ {pick[s]} \in Small(k + 1) /\ pick[s] \in S
    <3>1. s \in SUBSET S /\ Cardinality(s) <= k + 1
      OBVIOUS
    <3>2. /\ pick[s] \in s /\ s \ {pick[s]} \in SUBSET S
          /\ Cardinality(s) \in Nat /\ Cardinality(s \ {pick[s]}) = Cardinality(s) - 1
      BY <1>0, <2>2, <3>1
    <3>3. Cardinality(s \ {pick[s]}) <= k /\ Cardinality(s \ {pick[s]}) <= k + 1
      BY <3>1, <3>2
    <3> QED BY <3>2, <3>3
  <2>3. {} \in Small(k + 1) /\ {} \in Small(k)
    BY <1>0
  <2> HIDE DEF Small
  <2>4. h \in [Small(k + 1) -> A]
    <3>1. ASSUME NEW s \in Small(k + 1), s # {} PROVE step[<<g[s \ {pick[s]}], pick[s]>>] \in A
      <4>1. g[s \ {pick[s]}] \in A
        BY <2>1, <2>2, <3>1
      <4> QED BY <2>2, <3>1, <4>1
    <3> QED BY <3>1
  <2>5. \A s \in Small(k) : s \in Small(k + 1) /\ h[s] = g[s]
    <3>1. \A s \in Small(k) : s \in Small(k + 1)
      BY <1>0 DEF Small
    <3> QED BY <2>1, <3>1
  <2>6. ASSUME NEW s \in Small(k + 1), s # {} PROVE h[s] = step[<<h[s \ {pick[s]}], pick[s]>>]
    <3>1. h[s \ {pick[s]}] = g[s \ {pick[s]}]
      BY <2>2, <2>5, <2>6
    <3> QED BY <2>6, <3>1
  <2>7. h[{}] = base
    BY <2>3
  <2>8. Folds(h, k + 1)
    <3> HIDE DEF h
    <3> QED BY <2>4, <2>6, <2>7
  <2> HIDE DEF Folds, h
  <2> QED BY <2>8
<1>3. Nat \subseteq Good
  <2> HIDE DEF Good
  <2> QED BY <1>1, <1>2, SetInduction
<1>4. Cardinality(S) \in Nat /\ Small(Cardinality(S)) = SUBSET S
  BY FS_CardinalityType, FS_Subset
<1>5. PICK g : Folds(g, Cardinality(S))
  <2> HIDE DEF Folds, Small
  <2> QED BY <1>3, <1>4
<1> QED BY <1>4, <1>5 DEF IsSetFold

\* The equations of a recursive function of which no type is known yet.
SetUnfolds(fold, A, base, S, pick, step) ==
  /\ fold \in [SUBSET S -> {fold[s] : s \in SUBSET S}]
  /\ fold[{}] = base
  /\ \A s \in SUBSET S : s # {} /\ fold[s \ {pick[s]}] \in A
       => fold[s] = step[<<fold[s \ {pick[s]}], pick[s]>>]

\* What unfolds like that fold is that fold.
LEMMA SetFoldRuns ==
  ASSUME NEW A, NEW base \in A, NEW S, IsFiniteSet(S), NEW pick, IsPick(pick, S),
         NEW step \in [A \X S -> A], NEW fold, SetUnfolds(fold, A, base, S, pick, step)
  PROVE  IsSetFold(fold, A, base, S, pick, step)
<1> DEFINE Good == {k \in Nat : \A s \in SUBSET S : Cardinality(s) = k => fold[s] \in A}
<1>1. 0 \in Good
  <2>1. \A s \in SUBSET S : Cardinality(s) = 0 => s = {}
    BY FS_Subset, FS_EmptySet
  <2> QED BY <2>1 DEF SetUnfolds
<1>2. ASSUME NEW k \in Nat, k \in Good PROVE k + 1 \in Good
  <2> SUFFICES ASSUME NEW s \in SUBSET S, Cardinality(s) = k + 1 PROVE fold[s] \in A
    OBVIOUS
  <2>1. s # {}
    BY FS_EmptySet
  <2>2. pick[s] \in s
    BY <2>1 DEF IsPick
  <2>3. s \ {pick[s]} \in SUBSET S /\ Cardinality(s \ {pick[s]}) = k
    BY <2>2, SmallerWithout
  <2>4. fold[s \ {pick[s]}] \in A
    BY <1>2, <2>3
  <2>5. fold[s] = step[<<fold[s \ {pick[s]}], pick[s]>>]
    BY <2>1, <2>4 DEF SetUnfolds
  <2> QED BY <2>2, <2>4, <2>5
<1> HIDE DEF Good
<1>3. Nat \subseteq Good
  BY <1>1, <1>2, SetInduction
<1>4. \A s \in SUBSET S : fold[s] \in A
  BY <1>3, FS_Subset, FS_CardinalityType DEF Good
<1>5. ASSUME NEW s \in SUBSET S, s # {} PROVE fold[s] = step[<<fold[s \ {pick[s]}], pick[s]>>]
  <2>1. s \ {pick[s]} \in SUBSET S
    OBVIOUS
  <2> QED BY <1>4, <1>5, <2>1 DEF SetUnfolds
<1> QED BY <1>4, <1>5 DEF IsSetFold, SetUnfolds

-------------------------------------------------------------------------------
(* The tally of a list of findings, each of whatever further shape.        *)
Summaries == [count : [Statuses -> Nat], worst_gating : Severities]
IsJudged(findings) ==
  \A k \in DOMAIN findings : findings[k].status \in Statuses /\ findings[k].severity \in Severities

\* The empty tally is one.
LEMMA EmptyIsSummary == EmptySummary \in Summaries
BY DEF EmptySummary, Summaries, Severities, Ignore, Fail

\* A finding keeps a tally a tally.
LEMMA AccumulateIsSummary ==
  ASSUME NEW summary \in Summaries, NEW finding,
         finding.status \in Statuses, finding.severity \in Severities
  PROVE  Accumulate(summary, finding) \in Summaries
BY DEF Accumulate, Summaries, Larger

\* Two tallies combined are one.
LEMMA CombineIsSummary ==
  ASSUME NEW a \in Summaries, NEW b \in Summaries PROVE CombineSummary(a, b) \in Summaries
BY DEF CombineSummary, Summaries, Larger

\* SummaryOf goes through the list from its first finding to its last.
LEMMA SummaryRuns ==
  ASSUME NEW S, NEW findings \in Seq(S), IsJudged(findings)
  PROVE  \E run \in [0..Len(findings) -> Summaries] :
           /\ run[0] = EmptySummary
           /\ \A k \in 1..Len(findings) : run[k] = Accumulate(run[k - 1], findings[k])
           /\ SummaryOf(findings) = run[Len(findings)]
<1> DEFINE n == Len(findings)
           Is(iter) == iter = [s \in SUBSET DOMAIN findings |->
                                 IF s = {} THEN EmptySummary
                                 ELSE Accumulate(iter[s \ {Max(s)}], findings[Max(s)])]
           fold == CHOOSE iter : Is(iter)
           step == [p \in Summaries \X (1..n) |-> Accumulate(p[1], findings[p[2]])]
<1>0. n \in Nat /\ DOMAIN findings = 1..n
  OBVIOUS
<1>1. step \in [Summaries \X (1..n) -> Summaries]
  BY <1>0, AccumulateIsSummary DEF IsJudged
<1>2. \A a \in Summaries, k \in 1..n : step[<<a, k>>] = Accumulate(a, findings[k])
  OBVIOUS
<1> HIDE DEF step
<1>3. Is(fold)
  <2> HIDE DEF n, Is, fold
  <2>1. PICK g : IsFold(g, Summaries, EmptySummary, n, step)
    BY <1>0, <1>1, EmptyIsSummary, FoldExists
  <2>2. \A s \in SUBSET (1..n) : s # {} => g[s] = Accumulate(g[s \ {Max(s)}], findings[Max(s)])
    BY <1>2, <2>1 DEF IsFold
  <2>3. Is(g)
    BY <1>0, <2>1, <2>2 DEF Is, IsFold
  <2> QED BY <2>3 DEF fold
<1>4. SummaryOf(findings) = fold[DOMAIN findings]
  BY Zenon DEF SummaryOf, FoldLeft, MapThenFoldSet
<1> HIDE DEF fold, n
<1>5. fold[{}] = EmptySummary
  BY <1>3
<1>6. ASSUME NEW s \in SUBSET (1..n), s # {}, fold[s \ {Max(s)}] \in Summaries
      PROVE  fold[s] = step[<<fold[s \ {Max(s)}], Max(s)>>]
  <2>1. Max(s) \in 1..n
    BY <1>0, <1>6, MaxOfPositions
  <2> QED BY <1>0, <1>2, <1>3, <1>6, <2>1
<1> HIDE DEF Is
<1>7. Unfolds(fold, Summaries, EmptySummary, n, step)
  BY <1>5, <1>6 DEF Unfolds
<1>8. PICK run : IsRun(run, Summaries, EmptySummary, n, step, fold)
  BY <1>0, <1>1, <1>7, EmptyIsSummary, FoldRuns
<1>9. ASSUME NEW k \in 1..n PROVE run[k] = Accumulate(run[k - 1], findings[k])
  <2>1. k - 1 \in 0..n
    BY <1>0
  <2>2. run[k - 1] \in Summaries
    BY <1>8, <2>1 DEF IsRun
  <2> QED BY <1>2, <1>8, <2>2 DEF IsRun
<1> QED BY <1>0, <1>4, <1>8, <1>9 DEF IsRun, n

-------------------------------------------------------------------------------
\* The tally of the first k findings says of them what it should.
GatingAt(findings, k) == Gates(findings[k].status)
IsTally(summary, findings, k) ==
  /\ \A i \in 1..k : GatingAt(findings, i) => findings[i].severity <= summary.worst_gating
  /\ \/ summary.worst_gating = Ignore
     \/ \E i \in 1..k : GatingAt(findings, i) /\ findings[i].severity = summary.worst_gating
  /\ \A s \in Statuses : summary.count[s] = Cardinality({i \in 1..k : findings[i].status = s})

\* The empty tally is that of no finding.
LEMMA TallyOfNone == ASSUME NEW findings PROVE IsTally(EmptySummary, findings, 0)
<1>1. \A s \in Statuses : {i \in 1..0 : findings[i].status = s} = {}
  OBVIOUS
<1>2. Cardinality({}) = 0
  BY FS_EmptySet
<1> QED BY <1>1, <1>2 DEF IsTally, EmptySummary

\* One more finding accumulated is the tally of one more finding.
LEMMA TallyGrows ==
  ASSUME NEW summary \in Summaries, NEW findings, NEW k \in Nat \ {0},
         findings[k].status \in Statuses, findings[k].severity \in Severities,
         \A i \in 1..(k - 1) : findings[i].severity \in Severities,
         IsTally(summary, findings, k - 1)
  PROVE  IsTally(Accumulate(summary, findings[k]), findings, k)
<1> DEFINE more == Accumulate(summary, findings[k])
<1>1. \A i \in 1..k : i = k \/ i \in 1..(k - 1)
  OBVIOUS
<1>2. /\ more.worst_gating = IF GatingAt(findings, k) THEN Larger(findings[k].severity, summary.worst_gating)
                             ELSE summary.worst_gating
      /\ more.count = [summary.count EXCEPT ![findings[k].status] = @ + 1]
  BY DEF Accumulate, GatingAt
<1>3. summary.worst_gating \in Severities /\ summary.count \in [Statuses -> Nat]
  BY DEF Summaries
<1> HIDE DEF more
<1>4. \A i \in 1..k : GatingAt(findings, i) => findings[i].severity <= more.worst_gating
  BY <1>1, <1>2, <1>3 DEF IsTally, Larger, Severities, Ignore, Fail
<1>5. \/ more.worst_gating = Ignore
      \/ \E i \in 1..k : GatingAt(findings, i) /\ findings[i].severity = more.worst_gating
  <2>1. k \in 1..k /\ \A i \in 1..(k - 1) : i \in 1..k
    OBVIOUS
  <2>2. CASE GatingAt(findings, k) /\ more.worst_gating = findings[k].severity
    BY <2>1, <2>2
  <2>3. CASE more.worst_gating = summary.worst_gating
    BY <2>1, <2>3 DEF IsTally
  <2> QED BY <1>2, <2>2, <2>3 DEF Larger
<1>6. ASSUME NEW s \in Statuses PROVE more.count[s] = Cardinality({i \in 1..k : findings[i].status = s})
  <2> DEFINE before == {i \in 1..(k - 1) : findings[i].status = s}
             upto == {i \in 1..k : findings[i].status = s}
  <2>1. IsFiniteSet(before)
    <3>1. IsFiniteSet(1..(k - 1))
      BY FS_Interval
    <3> QED BY <3>1, FS_Subset
  <2>2. summary.count[s] = Cardinality(before)
    BY DEF IsTally
  <2>3. CASE findings[k].status = s
    <3>1. upto = before \cup {k} /\ k \notin before
      BY <1>1, <2>3
    <3>2. Cardinality(before \cup {k}) = Cardinality(before) + 1
      BY <2>1, <3>1, FS_AddElement
    <3> QED BY <1>2, <1>3, <2>2, <2>3, <3>1, <3>2
  <2>4. CASE findings[k].status # s
    <3>1. upto = before
      BY <1>1, <2>4
    <3> QED BY <1>2, <1>3, <2>2, <2>4, <3>1
  <2> QED BY <2>3, <2>4
<1> QED BY <1>4, <1>5, <1>6 DEF IsTally, more

\* The summary of a list of findings, however long: the worst gating severity is
\* that of its worst gating finding, and each count that of its findings of the
\* status (report/model.cpp, accumulate_summary).
THEOREM SummaryIsTally ==
  ASSUME NEW S, NEW findings \in Seq(S), IsJudged(findings)
  PROVE  SummaryOf(findings) \in Summaries /\ IsTally(SummaryOf(findings), findings, Len(findings))
<1> DEFINE n == Len(findings)
<1>0. n \in Nat /\ DOMAIN findings = 1..n
  OBVIOUS
<1>1. PICK run \in [0..n -> Summaries] :
        /\ run[0] = EmptySummary
        /\ \A k \in 1..n : run[k] = Accumulate(run[k - 1], findings[k])
        /\ SummaryOf(findings) = run[n]
  BY SummaryRuns
<1> HIDE DEF n
<1> DEFINE Good == {k \in Nat : k <= n => IsTally(run[k], findings, k)}
<1>2. 0 \in Good
  BY <1>1, TallyOfNone
<1>3. ASSUME NEW k \in Nat, k \in Good PROVE k + 1 \in Good
  <2> SUFFICES ASSUME k + 1 <= n PROVE IsTally(run[k + 1], findings, k + 1)
    OBVIOUS
  <2>1. k + 1 \in 1..n /\ k \in 0..n /\ (k + 1) - 1 = k /\ k + 1 \in Nat \ {0}
    BY <1>0
  <2>2. IsTally(run[k], findings, k) /\ run[k] \in Summaries
    BY <1>1, <1>3, <2>1
  <2>3. run[k + 1] = Accumulate(run[k], findings[k + 1])
    BY <1>1, <2>1
  <2>4. \A i \in 1..(k + 1) : findings[i].status \in Statuses /\ findings[i].severity \in Severities
    BY <1>0, <2>1 DEF IsJudged
  <2>5. IsTally(Accumulate(run[k], findings[k + 1]), findings, k + 1)
    BY <2>1, <2>2, <2>4, TallyGrows
  <2> QED BY <2>3, <2>5
<1> HIDE DEF Good
<1>4. Nat \subseteq Good
  BY <1>2, <1>3, SetInduction
<1>5. IsTally(run[n], findings, n)
  BY <1>0, <1>4 DEF Good
<1> QED BY <1>0, <1>1, <1>5 DEF n
-------------------------------------------------------------------------------
(* The totals of a corpus.                                                 *)

\* CombineAll goes through the files in their order.
LEMMA CombineRuns ==
  ASSUME NEW summaries \in Seq(Summaries)
  PROVE  \E run \in [0..Len(summaries) -> Summaries] :
           /\ run[0] = EmptySummary
           /\ \A k \in 1..Len(summaries) : run[k] = CombineSummary(run[k - 1], summaries[k])
           /\ CombineAll(summaries) = run[Len(summaries)]
<1> DEFINE n == Len(summaries)
           Is(iter) == iter = [s \in SUBSET DOMAIN summaries |->
                                 IF s = {} THEN EmptySummary
                                 ELSE CombineSummary(iter[s \ {Max(s)}], summaries[Max(s)])]
           fold == CHOOSE iter : Is(iter)
           step == [p \in Summaries \X (1..n) |-> CombineSummary(p[1], summaries[p[2]])]
<1>0. n \in Nat /\ DOMAIN summaries = 1..n /\ \A k \in 1..n : summaries[k] \in Summaries
  OBVIOUS
<1>1. step \in [Summaries \X (1..n) -> Summaries]
  BY <1>0, CombineIsSummary
<1>2. \A a \in Summaries, k \in 1..n : step[<<a, k>>] = CombineSummary(a, summaries[k])
  OBVIOUS
<1> HIDE DEF step
<1>3. Is(fold)
  <2> HIDE DEF n, Is, fold
  <2>1. PICK g : IsFold(g, Summaries, EmptySummary, n, step)
    BY <1>0, <1>1, EmptyIsSummary, FoldExists
  <2>2. \A s \in SUBSET (1..n) : s # {} => g[s] = CombineSummary(g[s \ {Max(s)}], summaries[Max(s)])
    BY <1>2, <2>1 DEF IsFold
  <2>3. Is(g)
    BY <1>0, <2>1, <2>2 DEF Is, IsFold
  <2> QED BY <2>3 DEF fold
<1>4. CombineAll(summaries) = fold[DOMAIN summaries]
  BY Zenon DEF CombineAll, FoldLeft, MapThenFoldSet
<1> HIDE DEF fold, n
<1>5. fold[{}] = EmptySummary
  BY <1>3
<1>6. ASSUME NEW s \in SUBSET (1..n), s # {}, fold[s \ {Max(s)}] \in Summaries
      PROVE  fold[s] = step[<<fold[s \ {Max(s)}], Max(s)>>]
  <2>1. Max(s) \in 1..n
    BY <1>0, <1>6, MaxOfPositions
  <2> QED BY <1>0, <1>2, <1>3, <1>6, <2>1
<1> HIDE DEF Is
<1>7. Unfolds(fold, Summaries, EmptySummary, n, step)
  BY <1>5, <1>6 DEF Unfolds
<1>8. PICK run : IsRun(run, Summaries, EmptySummary, n, step, fold)
  BY <1>0, <1>1, <1>7, EmptyIsSummary, FoldRuns
<1>9. ASSUME NEW k \in 1..n PROVE run[k] = CombineSummary(run[k - 1], summaries[k])
  <2>1. k - 1 \in 0..n
    BY <1>0
  <2>2. run[k - 1] \in Summaries
    BY <1>8, <2>1 DEF IsRun
  <2> QED BY <1>2, <1>8, <2>2 DEF IsRun
<1> QED BY <1>0, <1>4, <1>8, <1>9 DEF IsRun, n

\* The places, file and position, of the findings of one status in the first k files.
PlacesOf(results, k, s) ==
  {p \in (1..k) \X Nat : p[2] \in DOMAIN results[p[1]] /\ results[p[1]][p[2]].status = s}

IsTotal(total, results, k) ==
  /\ \A i \in 1..k : SummaryOf(results[i]).worst_gating <= total.worst_gating
  /\ \/ total.worst_gating = Ignore
     \/ \E i \in 1..k : SummaryOf(results[i]).worst_gating = total.worst_gating
  /\ \A s \in Statuses : /\ IsFiniteSet(PlacesOf(results, k, s))
                         /\ total.count[s] = Cardinality(PlacesOf(results, k, s))

\* The empty tally is that of no file.
LEMMA TotalOfNone == ASSUME NEW results PROVE IsTotal(EmptySummary, results, 0)
<1>1. \A s \in Statuses : PlacesOf(results, 0, s) = {}
  BY DEF PlacesOf
<1>2. Cardinality({}) = 0 /\ IsFiniteSet({})
  BY FS_EmptySet
<1> QED BY <1>1, <1>2 DEF IsTotal, EmptySummary

\* One more file combined is the tally of one more file.
LEMMA TotalGrows ==
  ASSUME NEW total \in Summaries, NEW S, NEW results, NEW k \in Nat \ {0},
         \A i \in 1..k : results[i] \in Seq(S) /\ IsJudged(results[i]),
         IsTotal(total, results, k - 1)
  PROVE  IsTotal(CombineSummary(total, SummaryOf(results[k])), results, k)
<1> DEFINE file == SummaryOf(results[k])
           more == CombineSummary(total, file)
<1>1. \A i \in 1..k : i = k \/ i \in 1..(k - 1)
  OBVIOUS
<1>2. k \in 1..k /\ \A i \in 1..(k - 1) : i \in 1..k
  OBVIOUS
<1>3. file \in Summaries /\ IsTally(file, results[k], Len(results[k]))
  BY <1>2, SummaryIsTally
<1>4. /\ more.worst_gating = Larger(total.worst_gating, file.worst_gating)
      /\ \A s \in Statuses : more.count[s] = total.count[s] + file.count[s]
  BY DEF CombineSummary
<1>5. /\ total.worst_gating \in Severities /\ file.worst_gating \in Severities
      /\ \A i \in 1..k : SummaryOf(results[i]).worst_gating \in Severities
  BY <1>3, SummaryIsTally DEF Summaries
<1>6. \A i \in 1..k : SummaryOf(results[i]).worst_gating <= more.worst_gating
  <2> HIDE DEF more
  <2> QED BY <1>1, <1>4, <1>5 DEF IsTotal, Larger, Severities, Ignore, Fail
<1>7. \/ more.worst_gating = Ignore
      \/ \E i \in 1..k : SummaryOf(results[i]).worst_gating = more.worst_gating
  <2> HIDE DEF more
  <2> QED BY <1>2, <1>4 DEF IsTotal, Larger
<1>8. ASSUME NEW s \in Statuses
      PROVE  /\ IsFiniteSet(PlacesOf(results, k, s))
             /\ more.count[s] = Cardinality(PlacesOf(results, k, s))
  <2> DEFINE here == {j \in 1..Len(results[k]) : results[k][j].status = s}
             before == PlacesOf(results, k - 1, s)
  <2>1. results[k] \in Seq(S) /\ DOMAIN results[k] = 1..Len(results[k]) /\ Len(results[k]) \in Nat
    BY <1>2
  <2>2. IsFiniteSet(here)
    <3>1. IsFiniteSet(1..Len(results[k]))
      BY <2>1, FS_Interval
    <3> QED BY <3>1, FS_Subset
  <2>3. file.count[s] = Cardinality(here)
    BY <1>3 DEF IsTally
  <2>4. IsFiniteSet(before) /\ total.count[s] = Cardinality(before)
    BY DEF IsTotal
  <2>5. IsFiniteSet({k} \X here) /\ Cardinality({k} \X here) = Cardinality(here)
    <3>1. IsFiniteSet({k}) /\ Cardinality({k}) = 1
      BY FS_Singleton
    <3>2. Cardinality(here) \in Nat
      BY <2>2, FS_CardinalityType
    <3> HIDE DEF here
    <3>3. IsFiniteSet({k} \X here) /\ Cardinality({k} \X here) = Cardinality({k}) * Cardinality(here)
      BY <2>2, <3>1, FS_Product
    <3> QED BY <3>1, <3>2, <3>3
  <2>6. PlacesOf(results, k, s) = before \cup ({k} \X here)
    BY <1>1, <1>2, <2>1 DEF PlacesOf
  <2>7. before \cap ({k} \X here) = {}
    BY DEF PlacesOf
  <2> HIDE DEF before, here
  <2>8. /\ IsFiniteSet(before \cup ({k} \X here))
        /\ Cardinality(before \cup ({k} \X here))
             = Cardinality(before) + Cardinality({k} \X here) - Cardinality(before \cap ({k} \X here))
    BY <2>4, <2>5, FS_Union
  <2>9. Cardinality(before) \in Nat /\ Cardinality(here) \in Nat /\ Cardinality({}) = 0
    BY <2>2, <2>4, FS_CardinalityType, FS_EmptySet
  <2>10. Cardinality(PlacesOf(results, k, s)) = Cardinality(before) + Cardinality(here)
    <3> HIDE DEF more, file
    <3>1. Cardinality(before \cap ({k} \X here)) = 0
      BY <2>7, <2>9
    <3>2. Cardinality(PlacesOf(results, k, s)) = Cardinality(before) + Cardinality(here) - 0
      BY <2>5, <2>6, <2>8, <3>1
    <3> QED BY <2>9, <3>2
  <2>11. more.count[s] = Cardinality(before) + Cardinality(here)
    BY <1>4, <2>3, <2>4
  <2> HIDE DEF more, file
  <2> QED BY <2>6, <2>8, <2>10, <2>11
<1> HIDE DEF more, file
<1>9. IsTotal(more, results, k)
  BY <1>6, <1>7, <1>8 DEF IsTotal
<1> QED BY <1>9 DEF more, file

\* The totals of a corpus, whatever its files and their findings: each count is that
\* of the findings of the status in all the files together, and the worst severity that
\* of the worst file (report/model.cpp, build_corpus_model).
THEOREM TotalsAreTally ==
  ASSUME NEW S, NEW results \in Seq(Seq(S)), \A i \in DOMAIN results : IsJudged(results[i])
  PROVE  LET total == CombineAll([i \in DOMAIN results |-> SummaryOf(results[i])])
         IN  total \in Summaries /\ IsTotal(total, results, Len(results))
<1> DEFINE n == Len(results)
           summaries == [i \in DOMAIN results |-> SummaryOf(results[i])]
<1>0. /\ n \in Nat /\ DOMAIN results = 1..n
      /\ \A i \in 1..n : results[i] \in Seq(S) /\ IsJudged(results[i])
  OBVIOUS
<1>1. \A i \in 1..n : SummaryOf(results[i]) \in Summaries
  BY <1>0, SummaryIsTally
<1>2. summaries \in Seq(Summaries) /\ Len(summaries) = n
  BY <1>0, <1>1
<1>3. PICK run \in [0..n -> Summaries] :
        /\ run[0] = EmptySummary
        /\ \A k \in 1..n : run[k] = CombineSummary(run[k - 1], summaries[k])
        /\ CombineAll(summaries) = run[n]
  <2> HIDE DEF summaries, n
  <2> QED BY <1>2, CombineRuns
<1>4. \A k \in 1..n : run[k] = CombineSummary(run[k - 1], SummaryOf(results[k]))
  BY <1>0, <1>3
<1> HIDE DEF n
<1> DEFINE Good == {k \in Nat : k <= n => IsTotal(run[k], results, k)}
<1>5. 0 \in Good
  BY <1>3, TotalOfNone
<1>6. ASSUME NEW k \in Nat, k \in Good PROVE k + 1 \in Good
  <2> SUFFICES ASSUME k + 1 <= n PROVE IsTotal(run[k + 1], results, k + 1)
    OBVIOUS
  <2>1. k + 1 \in 1..n /\ k \in 0..n /\ (k + 1) - 1 = k /\ k + 1 \in Nat \ {0}
    BY <1>0
  <2>2. IsTotal(run[k], results, k) /\ run[k] \in Summaries
    BY <1>3, <1>6, <2>1
  <2>3. \A i \in 1..(k + 1) : results[i] \in Seq(S) /\ IsJudged(results[i])
    BY <1>0, <2>1
  <2>4. IsTotal(CombineSummary(run[k], SummaryOf(results[k + 1])), results, k + 1)
    BY <2>1, <2>2, <2>3, TotalGrows
  <2> QED BY <1>4, <2>1, <2>4
<1> HIDE DEF Good
<1>7. Nat \subseteq Good
  BY <1>5, <1>6, SetInduction
<1>8. IsTotal(run[n], results, n) /\ run[n] \in Summaries
  BY <1>0, <1>3, <1>7 DEF Good
<1> QED BY <1>3, <1>8 DEF n

-------------------------------------------------------------------------------
(* The code a tally is turned into.                                        *)
LEMMA CodeOfTally ==
  ASSUME NEW summary \in Summaries, NEW strict, NEW gating \in SUBSET Severities,
         \A s \in gating : s <= summary.worst_gating,
         summary.worst_gating = Ignore \/ summary.worst_gating \in gating
  PROVE  ExitCodeForFindings(summary, strict) =
           IF Fail \in gating THEN ExitFail
           ELSE IF Warn \in gating /\ strict THEN ExitWarnStrict ELSE ExitClean
<1> DEFINE worst == summary.worst_gating
<1>1. worst \in {Ignore, Info, Warn, Fail} /\ \A s \in gating : s \in {Ignore, Info, Warn, Fail}
  BY DEF Summaries, Severities, Ignore, Info, Warn, Fail
<1> HIDE DEF worst
<1>2. worst = Fail <=> Fail \in gating
  BY <1>1 DEF Ignore, Info, Warn, Fail, worst
<1>3. worst = Warn <=> Warn \in gating /\ Fail \notin gating
  BY <1>1 DEF Ignore, Info, Warn, Fail, worst
<1> QED BY <1>1, <1>2, <1>3 DEF ExitCodeForFindings, Ignore, Info, Warn, Fail, worst

\* The severities of the gating findings of a list.
GatingOf(findings) ==
  {findings[k].severity : k \in {n \in DOMAIN findings : Gates(findings[n].status)}}

\* The exit code follows from which severities gate.
LEMMA CodeOfFindings ==
  ASSUME NEW S, NEW findings \in Seq(S), IsJudged(findings), NEW strict
  PROVE  ExitCodeForFindings(SummaryOf(findings), strict) =
           IF Fail \in GatingOf(findings) THEN ExitFail
           ELSE IF Warn \in GatingOf(findings) /\ strict THEN ExitWarnStrict ELSE ExitClean
<1>1. DOMAIN findings = 1..Len(findings)
  OBVIOUS
<1>2. SummaryOf(findings) \in Summaries /\ IsTally(SummaryOf(findings), findings, Len(findings))
  BY SummaryIsTally
<1>3. GatingOf(findings) \subseteq Severities
  BY DEF GatingOf, IsJudged
<1>4. \A s \in GatingOf(findings) : s <= SummaryOf(findings).worst_gating
  BY <1>1, <1>2 DEF GatingOf, IsTally, GatingAt
<1>5. \/ SummaryOf(findings).worst_gating = Ignore
      \/ SummaryOf(findings).worst_gating \in GatingOf(findings)
  BY <1>1, <1>2 DEF GatingOf, IsTally, GatingAt
<1> QED BY <1>2, <1>3, <1>4, <1>5, CodeOfTally

-------------------------------------------------------------------------------
(* The output.                                                             *)
LEMMA DestinationsCount ==
  ASSUME NEW r \in CommandLine
  PROVE  Destinations(r) \in Seq({"stdout", "file"})
<1>1. r.reports \in Nat /\ r.json \in {"none", "stdout", "file"} /\ r.quiet \in BOOLEAN
  BY DEF CommandLine
<1>2. [k \in 1..r.reports |-> "file"] \in Seq({"stdout", "file"})
  BY <1>1
<1>3. CASE r.json = "none" /\ r.quiet
  BY <1>2, <1>3 DEF Destinations
<1>4. CASE r.json = "none" /\ ~r.quiet
  <2>1. <<"stdout">> \in Seq({"stdout", "file"})
    OBVIOUS
  <2> QED BY <1>2, <1>4, <2>1 DEF Destinations
<1>5. CASE r.json # "none"
  <2>1. <<r.json>> \in Seq({"stdout", "file"})
    BY <1>1, <1>5
  <2>2. Destinations(r) = <<r.json>> \o [k \in 1..r.reports |-> "file"]
    BY <1>5 DEF Destinations
  <2> QED BY <1>2, <2>1, <2>2
<1> QED BY <1>3, <1>4, <1>5

\* A destination written, or failed, keeps the destinations' invariant.
LEMMA WriteKeeps == OutputInv /\ Write => OutputInv'
<1> SUFFICES ASSUME OutputInv, Write PROVE OutputInv'
  OBVIOUS
<1> DEFINE n == Len(out)
           all == Len(Destinations(request))
<1>1. /\ UNCHANGED request /\ n \in Nat /\ n < all /\ all \in Nat
      /\ \E fate \in {"complete", "short", "unopened"} : out' = Append(out, fate)
      /\ phase = "output"
  BY DestinationsCount DEF OutputInv, Write, EmitStdout, WriteFile, Leave
<1>2. PICK fate \in {"complete", "short", "unopened"} : out' = Append(out, fate)
  BY <1>1
<1>3. /\ out' \in Seq({"complete", "short", "unopened"}) /\ Len(out') = n + 1
      /\ \A k \in 1..n : out'[k] = out[k]
      /\ out'[n + 1] = fate /\ DOMAIN out' = 1..(n + 1) /\ DOMAIN out = 1..n
  BY <1>2 DEF OutputInv
<1>4. exit = NotYet
  BY <1>1 DEF OutputInv
<1> HIDE DEF n, all
<1>5. Len(out') <= Len(Destinations(request))
  BY <1>1, <1>3 DEF all
<1>6. exit'.from # "verdict" /\ (phase' # "over" => exit' = NotYet)
  BY <1>1, <1>4 DEF Write, EmitStdout, WriteFile, Leave, NotYet
<1>7. ASSUME exit'.from # "write", NEW k \in DOMAIN out', Destinations(request)[k] = "file"
      PROVE  out'[k] = "complete"
  <2>1. CASE k \in 1..n
    BY <1>3, <1>4, <1>7, <2>1 DEF OutputInv, NotYet
  <2>2. CASE k = n + 1
    <3>1. out' = Append(out, "complete")
      BY <1>7, <2>2 DEF Write, EmitStdout, WriteFile, Leave, Current, n
    <3>2. fate = "complete"
      <4>1. out \in Seq({"complete", "short", "unopened"})
        BY DEF OutputInv
      <4>2. Append(out, "complete")[n + 1] = "complete"
        BY <4>1 DEF n
      <4> QED BY <1>3, <3>1, <4>2
    <3> QED BY <1>3, <2>2, <3>2
  <2> QED BY <1>1, <1>3, <1>7, <2>1, <2>2
<1> QED BY <1>1, <1>3, <1>5, <1>6, <1>7 DEF OutputInv

\* Whatever ends a run without a word on the output leaves the output as it is.
LEMMA LeaveKeeps ==
  ASSUME NEW code, NEW from, OutputInv, Leave(code, from), UNCHANGED out,
         from = "verdict" => Len(out) = Len(Destinations(request)), phase # "over"
  PROVE  OutputInv'
BY DEF OutputInv, Leave, NotYet

\* So does a step that writes nothing.
LEMMA QuietKeeps ==
  ASSUME OutputInv, UNCHANGED <<request, out, exit>>, phase' # "over" => phase # "over"
  PROVE  OutputInv'
BY DEF OutputInv

\* A verdict means that every report was written.
LEMMA WrittenFromInv == OutputInv => VerdictMeansReportsWritten
<1> SUFFICES ASSUME OutputInv, exit.from = "verdict",
                    NEW k \in DOMAIN Destinations(request), Destinations(request)[k] = "file"
             PROVE  out[k] = "complete"
  BY DEF VerdictMeansReportsWritten
<1>1. DOMAIN Destinations(request) = 1..Len(Destinations(request)) /\ DOMAIN out = 1..Len(out)
  BY DestinationsCount DEF OutputInv
<1> QED BY <1>1 DEF OutputInv
===============================================================================
