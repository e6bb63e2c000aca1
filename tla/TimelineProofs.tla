----------------------------- MODULE TimelineProofs ----------------------------
(***************************************************************************)
(* Proofs about the timeline checks, for every modulus and files of any    *)
(* length: a sort by time is a bijection onto the places, unwrapping       *)
(* carries the era of the packet before, and what is told of gaps, jumps,  *)
(* cadence and the origin is what was sent.                                *)
(***************************************************************************)
EXTENDS Timeline, ReportProofs

-------------------------------------------------------------------------------
(* Places in turn.                                                         *)

\* Some places and what they are ranked by.
AreRanked(places, keys) ==
    /\ IsFiniteSet(places) /\ places \subseteq Int
    /\ \A i \in places : keys[i] \in Int

\* A rank is a place in the count.
LEMMA RankInRange ==
  ASSUME NEW places, NEW keys, AreRanked(places, keys), NEW i \in places
  PROVE  Rank(places, keys, i) \in 1..Cardinality(places)
<1> DEFINE below == {j \in places : Before(keys, j, i)}
<1>1. below \in SUBSET (places \ {i})
  BY DEF Before, AreRanked
<1>2. IsFiniteSet(places \ {i}) /\ Cardinality(places \ {i}) = Cardinality(places) - 1
  BY FS_RemoveElement DEF AreRanked
<1>3. IsFiniteSet(below) /\ Cardinality(below) <= Cardinality(places) - 1
  BY <1>1, <1>2, FS_Subset
<1>4. Cardinality(below) \in Nat /\ Cardinality(places) \in Nat
  BY <1>3, FS_CardinalityType DEF AreRanked
<1>5. Rank(places, keys, i) = Cardinality(below) + 1
  BY DEF Rank
<1> HIDE DEF below
<1> QED BY <1>3, <1>4, <1>5

\* What comes before another has the lower rank.
LEMMA RankGrows ==
  ASSUME NEW places, NEW keys, AreRanked(places, keys), NEW i \in places, NEW k \in places, Before(keys, i, k)
  PROVE  Rank(places, keys, i) < Rank(places, keys, k)
<1> DEFINE below(x) == {j \in places : Before(keys, j, x)}
<1>1. below(i) \cup {i} \in SUBSET below(k) /\ i \notin below(i)
  <2>1. \A x \in places : x \in Int /\ keys[x] \in Int
    BY DEF AreRanked
  <2>2. \A x \in below(i) : x \in places /\ Before(keys, x, k)
    BY <2>1 DEF Before
  <2>3. i \notin below(i)
    BY <2>1 DEF Before
  <2> QED BY <2>2, <2>3
<1>2. below(i) \in SUBSET places /\ below(k) \in SUBSET places
  OBVIOUS
<1>3. IsFiniteSet(below(i)) /\ IsFiniteSet(below(k))
  BY <1>2, FS_Subset DEF AreRanked
<1>4. Cardinality(below(i) \cup {i}) = Cardinality(below(i)) + 1
  BY <1>1, <1>3, FS_AddElement
<1>5. Cardinality(below(i) \cup {i}) <= Cardinality(below(k))
  BY <1>1, <1>3, FS_Subset
<1>6. Cardinality(below(i)) \in Nat /\ Cardinality(below(k)) \in Nat
  BY <1>3, FS_CardinalityType
<1>7. Rank(places, keys, i) = Cardinality(below(i)) + 1 /\ Rank(places, keys, k) = Cardinality(below(k)) + 1
  BY DEF Rank
<1> HIDE DEF below
<1> QED BY <1>4, <1>5, <1>6, <1>7

\* Of two places one comes before the other.
LEMMA OneIsBefore ==
  ASSUME NEW places, NEW keys, AreRanked(places, keys), NEW i \in places, NEW k \in places, i # k
  PROVE  Before(keys, i, k) \/ Before(keys, k, i)
<1>1. i \in Int /\ k \in Int /\ keys[i] \in Int /\ keys[k] \in Int
  BY DEF AreRanked
<1> QED BY <1>1 DEF Before

\* Every place has a rank of its own, and every rank its place.
LEMMA RankedIs ==
  ASSUME NEW places, NEW keys, AreRanked(places, keys)
  PROVE  /\ \A n \in 1..Cardinality(places) : /\ Ranked(places, keys, n) \in places
                                              /\ Rank(places, keys, Ranked(places, keys, n)) = n
         /\ \A i \in places : Ranked(places, keys, Rank(places, keys, i)) = i
<1> DEFINE ranks == [i \in places |-> Rank(places, keys, i)]
           size == Cardinality(places)
<1>0. IsFiniteSet(places) /\ size \in Nat
  BY FS_CardinalityType DEF AreRanked
<1>1. \A i \in places : Rank(places, keys, i) \in 1..size
  BY RankInRange
<1>2. ASSUME NEW i \in places, NEW k \in places, i # k
      PROVE  Rank(places, keys, i) # Rank(places, keys, k)
  <2>1. Rank(places, keys, i) < Rank(places, keys, k) \/ Rank(places, keys, k) < Rank(places, keys, i)
    BY <1>2, OneIsBefore, RankGrows
  <2>2. Rank(places, keys, i) \in 1..size /\ Rank(places, keys, k) \in 1..size
    BY <1>1
  <2> HIDE DEF size
  <2> QED BY <2>1, <2>2
<1>3. ranks \in Injection(places, 1..size)
  <2>1. ranks \in [places -> 1..size]
    BY <1>1
  <2> QED BY <1>2, <2>1 DEF Injection, IsInjective
<1>4. IsFiniteSet(1..size) /\ Cardinality(1..size) = size
  BY <1>0, FS_Interval
<1>5. ranks \in Surjection(places, 1..size)
  BY <1>0, <1>3, <1>4, FS_Injection
<1>6. \A n \in 1..size : \E i \in places : Rank(places, keys, i) = n
  BY <1>5 DEF Surjection
<1>7. ASSUME NEW n \in 1..size
      PROVE  Ranked(places, keys, n) \in places /\ Rank(places, keys, Ranked(places, keys, n)) = n
  BY <1>6 DEF Ranked
<1>8. ASSUME NEW i \in places PROVE Ranked(places, keys, Rank(places, keys, i)) = i
  <2> DEFINE n == Rank(places, keys, i)
  <2>1. n \in 1..size
    BY <1>1
  <2>2. Ranked(places, keys, n) \in places /\ Rank(places, keys, Ranked(places, keys, n)) = n
    BY <1>7, <2>1
  <2> QED BY <1>2, <2>2
<1> QED BY <1>7, <1>8

\* A lower rank comes before a higher one.
LEMMA RankedInOrder ==
  ASSUME NEW places, NEW keys, AreRanked(places, keys),
         NEW m \in 1..Cardinality(places), NEW n \in 1..Cardinality(places), m < n
  PROVE  Before(keys, Ranked(places, keys, m), Ranked(places, keys, n))
<1> DEFINE i == Ranked(places, keys, m)
           k == Ranked(places, keys, n)
<1>1. i \in places /\ k \in places /\ Rank(places, keys, i) = m /\ Rank(places, keys, k) = n
  BY RankedIs
<1>2. m \in Int /\ n \in Int
  OBVIOUS
<1> HIDE DEF i, k
<1>3. i # k /\ ~Before(keys, k, i)
  BY <1>1, <1>2, RankGrows
<1>4. Before(keys, i, k)
  BY <1>1, <1>3, OneIsBefore
<1> QED BY <1>4 DEF i, k

\* Where the places are 1..n and already in order, each has its own rank.
LEMMA RankedInPlace ==
  ASSUME NEW n \in Nat, NEW keys, \A i \in 1..n : keys[i] \in Int,
         \A i, j \in 1..n : i < j => keys[i] <= keys[j], NEW k \in 1..n
  PROVE  Ranked(1..n, keys, k) = k
<1>1. AreRanked(1..n, keys)
  BY FS_Interval DEF AreRanked
<1>2. {j \in 1..n : Before(keys, j, k)} = 1..(k - 1)
  BY DEF Before
<1>3. Cardinality(1..(k - 1)) = k - 1
  BY FS_Interval
<1>4. Rank(1..n, keys, k) = k
  <2>1. Rank(1..n, keys, k) = Cardinality(1..(k - 1)) + 1
    BY <1>2 DEF Rank
  <2> QED BY <1>3, <2>1
<1> QED BY <1>1, <1>4, RankedIs

-------------------------------------------------------------------------------
(* Sequences by their places.                                              *)

\* A sequence of some length.
IsList(seq, n) == seq = [i \in 1..n |-> seq[i]]

\* Computing the elements once changes nothing.
LEMMA EvaluatedIs ==
  ASSUME NEW n \in Nat, NEW seq, IsList(seq, n)
  PROVE  Evaluated(seq) = seq
<1>1. seq \in Seq({seq[i] : i \in 1..n}) /\ Len(seq) = n
  BY DEF IsList
<1>2. SubSeq(seq, 1, n) = [i \in 1..n |-> seq[i]]
  BY <1>1
<1> QED BY <1>1, <1>2 DEF Evaluated, IsList

\* What is kept has the places' number of elements, each from its place.
LEMMA KeptIs ==
  ASSUME NEW seq, NEW places, IsFiniteSet(places)
  PROVE  /\ IsList(Kept(seq, places), Cardinality(places))
         /\ \A n \in 1..Cardinality(places) : Kept(seq, places)[n] = seq[Nth(places, n)]
<1> DEFINE list == [n \in 1..Cardinality(places) |-> seq[Nth(places, n)]]
<1>1. Cardinality(places) \in Nat
  BY FS_CardinalityType
<1>2. IsList(list, Cardinality(places))
  BY DEF IsList
<1>3. \A n \in 1..Cardinality(places) : list[n] = seq[Nth(places, n)]
  OBVIOUS
<1>4. Kept(seq, places) = Evaluated(list)
  BY DEF Kept
<1> HIDE DEF list
<1>5. Evaluated(list) = list
  BY <1>1, <1>2, EvaluatedIs
<1> QED BY <1>2, <1>3, <1>4, <1>5

\* An arrangement has every element once, by its rank.
LEMMA AscendingIs ==
  ASSUME NEW L \in Nat, NEW seq, DOMAIN seq = 1..L, NEW keys
  PROVE  /\ IsList(Ascending(seq, keys), L)
         /\ \A n \in 1..L : Ascending(seq, keys)[n] = seq[Ranked(1..L, keys, n)]
<1> DEFINE list == [n \in 1..L |-> seq[Ranked(1..L, keys, n)]]
<1>1. IsList(list, L)
  BY DEF IsList
<1>2. \A n \in 1..L : list[n] = seq[Ranked(1..L, keys, n)]
  OBVIOUS
<1>3. Ascending(seq, keys) = Evaluated(list)
  BY DEF Ascending
<1> HIDE DEF list
<1>4. Evaluated(list) = list
  BY <1>1, EvaluatedIs
<1> QED BY <1>1, <1>2, <1>3, <1>4

\* The places of a set in turn: each once.
LEMMA NthIs ==
  ASSUME NEW places, IsFiniteSet(places), places \subseteq Int
  PROVE  /\ \A n \in 1..Cardinality(places) : Nth(places, n) \in places
         /\ \A i \in places : \E n \in 1..Cardinality(places) : Nth(places, n) = i
         /\ \A m, n \in 1..Cardinality(places) : m < n => Nth(places, m) < Nth(places, n)
<1> DEFINE keys == [i \in places |-> i]
<1>1. AreRanked(places, keys)
  BY DEF AreRanked
<1>2. \A n : Nth(places, n) = Ranked(places, keys, n)
  BY DEF Nth
<1>3. \A i \in places : keys[i] = i
  OBVIOUS
<1> HIDE DEF keys
<1>4. \A n \in 1..Cardinality(places) : Nth(places, n) \in places
  BY <1>1, <1>2, RankedIs
<1>5. \A i \in places : \E n \in 1..Cardinality(places) : Nth(places, n) = i
  BY <1>1, <1>2, RankedIs, RankInRange
<1>6. ASSUME NEW m \in 1..Cardinality(places), NEW n \in 1..Cardinality(places), m < n
      PROVE  Nth(places, m) < Nth(places, n)
  <2>1. Before(keys, Nth(places, m), Nth(places, n))
    BY <1>1, <1>2, <1>6, RankedInOrder
  <2> QED BY <1>3, <1>4, <2>1 DEF Before
<1> QED BY <1>4, <1>5, <1>6

\* The n-th of all places is n.
LEMMA NthOfAll ==
  ASSUME NEW L \in Nat, NEW n \in 1..L
  PROVE  Nth(1..L, n) = n
<1> DEFINE keys == [i \in 1..L |-> i]
<1>1. /\ \A i \in 1..L : keys[i] \in Int
      /\ \A i, j \in 1..L : i < j => keys[i] <= keys[j]
  OBVIOUS
<1>2. Nth(1..L, n) = Ranked(1..L, keys, n)
  BY DEF Nth
<1> HIDE DEF keys
<1> QED BY <1>1, <1>2, RankedInPlace

\* Keeping every place keeps the sequence.
LEMMA KeptAll ==
  ASSUME NEW L \in Nat, NEW seq, IsList(seq, L)
  PROVE  Kept(seq, 1..L) = seq
<1>1. IsFiniteSet(1..L) /\ Cardinality(1..L) = L
  BY FS_Interval
<1>2. IsList(Kept(seq, 1..L), L) /\ \A n \in 1..L : Kept(seq, 1..L)[n] = seq[Nth(1..L, n)]
  BY <1>1, KeptIs
<1>3. \A n \in 1..L : Nth(1..L, n) = n
  BY NthOfAll
<1> QED BY <1>2, <1>3 DEF IsList

\* A sequence in order of its keys is its own arrangement.
LEMMA AscendingInPlace ==
  ASSUME NEW L \in Nat, NEW seq, IsList(seq, L),
         NEW keys, \A i \in 1..L : keys[i] \in Int, \A i, j \in 1..L : i < j => keys[i] <= keys[j]
  PROVE  Ascending(seq, keys) = seq
<1>1. \A n \in 1..L : Ranked(1..L, keys, n) = n
  BY RankedInPlace
<1>2. DOMAIN seq = 1..L
  BY DEF IsList
<1>3. /\ IsList(Ascending(seq, keys), L)
      /\ \A n \in 1..L : Ascending(seq, keys)[n] = seq[Ranked(1..L, keys, n)]
  BY <1>2, AscendingIs
<1> QED BY <1>1, <1>3 DEF IsList

-------------------------------------------------------------------------------
(* The unwrap of an axis.                                                  *)

Epochs == [prev : Int, offset : Int, wraps : Int, overflowed : BOOLEAN, unwrapped : Seq(Int)]

\* The sizes of the numbers.
LEMMA Numbers ==
  /\ MaxInt \in Nat /\ Modulus \in Nat /\ HalfRange \in Nat /\ Missing \in Int
  /\ 0 < Modulus /\ Modulus = 2 * HalfRange /\ Modulus < MaxInt /\ Missing = -MaxInt - 1
BY TimelineAssumption DEF HalfRange, Missing

\* A step of the unwrap stays in the unwrap's states.
LEMMA UnwrapStepStays ==
  ASSUME NEW u \in Epochs, NEW raw \in Int
  PROVE  UnwrapStep(u, raw) \in Epochs
<1>1. /\ u.prev \in Int /\ u.offset \in Int /\ u.wraps \in Int /\ u.overflowed \in BOOLEAN
      /\ u.unwrapped \in Seq(Int)
  BY DEF Epochs
<1> DEFINE falls == u.prev # Missing /\ Fits(raw - u.prev) /\ raw - u.prev < -HalfRange
           offset == IF falls /\ Fits(u.offset + Modulus) THEN u.offset + Modulus ELSE u.offset
           value == IF Fits(raw + offset) THEN raw + offset ELSE raw
           wraps == IF offset # u.offset THEN u.wraps + 1 ELSE u.wraps
           exact == /\ u.prev # Missing => Fits(raw - u.prev)
                    /\ falls => offset # u.offset
                    /\ Fits(raw + offset)
<1>2. offset \in Int /\ exact \in BOOLEAN
  BY <1>1, Numbers
<1>3. value \in Int /\ wraps \in Int
  BY <1>1, <1>2
<1>4. UnwrapStep(u, raw) = [prev |-> raw, offset |-> offset, wraps |-> wraps,
                            overflowed |-> u.overflowed \/ ~exact, unwrapped |-> Append(u.unwrapped, value)]
  BY DEF UnwrapStep
<1> HIDE DEF offset, value, wraps, exact
<1>5. (u.overflowed \/ ~exact) \in BOOLEAN
  BY Zenon
<1>6. Append(u.unwrapped, value) \in Seq(Int)
  BY <1>1, <1>3
<1> QED BY <1>2, <1>3, <1>4, <1>5, <1>6 DEF Epochs

UnwrapRun(run, raws) ==
  /\ run \in [0..Len(raws) -> Epochs]
  /\ run[0] = NoEpoch
  /\ \A k \in 1..Len(raws) : run[k] = UnwrapStep(run[k - 1], raws[k])
  /\ UnwrapTimestamps(raws) = run[Len(raws)]

\* The unwrap of a list is a run of its steps.
LEMMA UnwrapRuns ==
  ASSUME NEW raws \in Seq(Int)
  PROVE  \E run : UnwrapRun(run, raws)
<1> DEFINE n == Len(raws)
           Folds(iter) == iter = [s \in SUBSET DOMAIN raws |->
                                 IF s = {} THEN NoEpoch ELSE UnwrapStep(iter[s \ {Max(s)}], raws[Max(s)])]
           fold == CHOOSE iter : Folds(iter)
           step == [p \in Epochs \X (1..n) |-> UnwrapStep(p[1], raws[p[2]])]
<1>0. n \in Nat /\ DOMAIN raws = 1..n /\ \A k \in 1..n : raws[k] \in Int
  OBVIOUS
<1>1. UnwrapTimestamps(raws) = fold[DOMAIN raws]
  BY Zenon DEF UnwrapTimestamps, FoldLeft, MapThenFoldSet
<1>2. \A p \in Epochs, k \in 1..n : UnwrapStep(p, raws[k]) \in Epochs
  BY <1>0, UnwrapStepStays
<1>3. step \in [Epochs \X (1..n) -> Epochs] /\ \A p \in Epochs, k \in 1..n : step[<<p, k>>] = UnwrapStep(p, raws[k])
  BY <1>2
<1>4. NoEpoch \in Epochs
  BY Numbers DEF NoEpoch, Epochs
<1> HIDE DEF step, n
<1>5. Folds(fold)
  <2> HIDE DEF Folds, fold
  <2>1. PICK g : IsFold(g, Epochs, NoEpoch, n, step)
    BY <1>0, <1>3, <1>4, FoldExists
  <2>2. ASSUME NEW s \in SUBSET (1..n), s # {}
        PROVE  g[s] = UnwrapStep(g[s \ {Max(s)}], raws[Max(s)])
    <3>1. Max(s) \in 1..n /\ g[s \ {Max(s)}] \in Epochs
      BY <2>1, <2>2 DEF IsFold
    <3> QED BY <1>3, <2>1, <2>2, <3>1 DEF IsFold
  <2>3. Folds(g)
    BY <1>0, <2>1, <2>2 DEF Folds, IsFold
  <2> QED BY <2>3 DEF fold
<1> HIDE DEF fold
<1>6. /\ fold[{}] = NoEpoch
      /\ \A s \in SUBSET (1..n) : s # {} => fold[s] = UnwrapStep(fold[s \ {Max(s)}], raws[Max(s)])
  BY <1>0, <1>5
<1> HIDE DEF Folds
<1>7. Unfolds(fold, Epochs, NoEpoch, n, step)
  <2>1. ASSUME NEW s \in SUBSET (1..n), s # {}, fold[s \ {Max(s)}] \in Epochs
        PROVE  fold[s] = step[<<fold[s \ {Max(s)}], Max(s)>>]
    <3>1. Max(s) \in 1..n
      BY <1>0, <2>1, MaxOfPositions
    <3>2. fold[s] = UnwrapStep(fold[s \ {Max(s)}], raws[Max(s)])
      BY <1>6, <2>1
    <3> QED BY <1>3, <2>1, <3>1, <3>2
  <2> QED BY <1>6, <2>1 DEF Unfolds
<1>8. PICK run : IsRun(run, Epochs, NoEpoch, n, step, fold)
  BY <1>0, <1>3, <1>4, <1>7, FoldRuns
<1>9. \A k \in 1..n : run[k] = UnwrapStep(run[k - 1], raws[k])
  <2> SUFFICES ASSUME NEW k \in 1..n PROVE run[k] = UnwrapStep(run[k - 1], raws[k])
    OBVIOUS
  <2>1. k - 1 \in 0..n /\ run \in [0..n -> Epochs]
    BY <1>0, <1>8 DEF IsRun
  <2>2. run[k - 1] \in Epochs
    BY <2>1
  <2> QED BY <1>3, <1>8, <2>2 DEF IsRun
<1>10. run \in [0..n -> Epochs] /\ run[0] = NoEpoch /\ UnwrapTimestamps(raws) = run[n]
  BY <1>0, <1>1, <1>8 DEF IsRun
<1> QED BY <1>9, <1>10 DEF UnwrapRun, n

\* Division with a remainder.
LEMMA RestIs ==
  ASSUME NEW t \in Nat, NEW m \in Nat \ {0}, NEW q \in Nat, NEW r \in Nat, r < m, t = m * q + r
  PROVE  t \div m = q /\ t % m = r
<1>1. t \div m = q
  BY Z3
<1>2. t % m = r
  BY Z3
<1> QED BY <1>1, <1>2

\* Division leaves a remainder below the divisor.
LEMMA Division ==
  ASSUME NEW t \in Nat, NEW m \in Nat \ {0}
  PROVE  /\ t \div m \in Nat /\ m * (t \div m) \in Nat
         /\ t % m \in Nat /\ t % m < m /\ t = m * (t \div m) + (t % m)
<1> DEFINE q == t \div m
           p == m * q
           r == t - p
<1>1. q \in Nat /\ p \in Nat /\ p <= t /\ t < p + m
  BY Z3
<1>2. r \in Nat /\ r < m /\ t = p + r
  <2> HIDE DEF p
  <2> QED BY <1>1
<1>3. t % m = r
  <2>1. t = m * q + r
    BY <1>2 DEF p
  <2> HIDE DEF q, r
  <2> QED BY <1>1, <1>2, <2>1, RestIs
<1> HIDE DEF q, p, r
<1>4. q \in Nat /\ p \in Nat /\ t % m \in Nat /\ t % m < m /\ t = p + (t % m)
  BY <1>1, <1>2, <1>3
<1> QED BY Zenon, <1>4 DEF p, q

\* Where the era of a time begins.
Base(t) == t - (t % Modulus)

\* A time is its era and its place in it.
LEMMA EraOf ==
  ASSUME NEW t \in Nat
  PROVE  /\ Era(t) \in Nat /\ t % Modulus \in Nat /\ t % Modulus < Modulus
         /\ t = Base(t) + (t % Modulus) /\ Base(t) = Modulus * Era(t) /\ Base(t) \in Nat
<1>1. Modulus \in Nat \ {0}
  BY Numbers
<1> DEFINE p == Modulus * Era(t)
           r == t % Modulus
<1>2. Era(t) \in Nat /\ p \in Nat /\ r \in Nat /\ r < Modulus /\ t = p + r
  BY <1>1, Division DEF Era
<1>3. Base(t) = t - r
  BY Zenon DEF Base
<1> HIDE DEF p, r
<1>4. Base(t) = p /\ t = Base(t) + r
  BY <1>2, <1>3
<1> QED BY Zenon, <1>2, <1>4 DEF p, r

\* A time is the start of its era and what the 33 bits carry.
LEMMA ErasAndBases ==
  ASSUME NEW a \in Nat, NEW b \in Nat
  PROVE  /\ Era(a) = Era(b) => Base(a) = Base(b)
         /\ Era(a) = Era(b) + 1 => Base(a) = Base(b) + Modulus
         /\ Era(a) < Era(b) => Base(a) + Modulus <= Base(b)
<1>1. /\ Era(a) \in Nat /\ Era(b) \in Nat /\ Modulus \in Nat
      /\ Base(a) = Modulus * Era(a) /\ Base(b) = Modulus * Era(b)
  BY EraOf, Numbers
<1>2. \A x, y, m \in Nat : m * (x + 1) = m * x + m /\ (x < y => m * x + m <= m * y)
  <2> SUFFICES ASSUME NEW x \in Nat, NEW y \in Nat, NEW m \in Nat
               PROVE  m * (x + 1) = m * x + m /\ (x < y => m * x + m <= m * y)
    OBVIOUS
  <2>1. m * (x + 1) = m * x + m
    OBVIOUS
  <2>2. ASSUME x < y PROVE m * (x + 1) <= m * y
    <3>1. y - (x + 1) \in Nat /\ m * y = m * (x + 1) + m * (y - (x + 1))
      BY <2>2
    <3>2. m * (y - (x + 1)) \in Nat
      BY <3>1
    <3>3. m * (x + 1) \in Nat
      OBVIOUS
    <3> QED BY <3>1, <3>2, <3>3
  <2> QED BY <2>1, <2>2
<1> HIDE DEF Era
<1>3. Modulus * (Era(b) + 1) = Modulus * Era(b) + Modulus
  BY <1>1, <1>2
<1>4. Era(a) < Era(b) => Modulus * Era(a) + Modulus <= Modulus * Era(b)
  BY <1>1, <1>2
<1> QED BY <1>1, <1>3, <1>4

\* The times of an axis, what a transport stream carries of them, and what is to be read.
AreTimes(vals, n) == vals \in [1..n -> Moments]
Turned(vals) == [k \in DOMAIN vals |-> vals[k] % Modulus]
FromFirst(vals) == [k \in DOMAIN vals |-> vals[k] - Base(vals[1])]

\* After k times, every one of them is read as it was meant.
IsReadTo(u, vals, k) ==
  /\ u \in Epochs
  /\ u.overflowed = FALSE
  /\ u.prev = IF k = 0 THEN Missing ELSE vals[k] % Modulus
  /\ u.offset = IF k = 0 THEN 0 ELSE Base(vals[k]) - Base(vals[1])
  /\ Len(u.unwrapped) = k
  /\ \A n \in 1..k : u.unwrapped[n] = vals[n] - Base(vals[1])
  /\ k # 0 => Base(vals[1]) <= Base(vals[k])

\* One step of the unwrap reads the next time from the first one's era.
LEMMA ReadToNext ==
  ASSUME NEW n \in Nat, NEW vals, AreTimes(vals, n), IsPlain(vals), NEW k \in 1..n, NEW u,
         IsReadTo(u, vals, k - 1)
  PROVE  IsReadTo(UnwrapStep(u, vals[k] % Modulus), vals, k)
<1> DEFINE raw == vals[k] % Modulus
           first == Base(vals[1])
           falls == u.prev # Missing /\ Fits(raw - u.prev) /\ raw - u.prev < -HalfRange
           offset == IF falls /\ Fits(u.offset + Modulus) THEN u.offset + Modulus ELSE u.offset
           value == IF Fits(raw + offset) THEN raw + offset ELSE raw
           wraps == IF offset # u.offset THEN u.wraps + 1 ELSE u.wraps
           exact == /\ u.prev # Missing => Fits(raw - u.prev)
                    /\ falls => offset # u.offset
                    /\ Fits(raw + offset)
<1>0. /\ 1 \in 1..n /\ k \in 1..n
      /\ \A j \in 1..n : vals[j] \in Nat /\ vals[j] + Modulus <= MaxInt
  BY Numbers DEF AreTimes, Moments
<1>1. \A j \in 1..n : vals[j] % Modulus \in Nat /\ vals[j] % Modulus < Modulus /\ Base(vals[j]) \in Nat
                      /\ vals[j] = Base(vals[j]) + (vals[j] % Modulus)
  <2> SUFFICES ASSUME NEW j \in 1..n
               PROVE  vals[j] % Modulus \in Nat /\ vals[j] % Modulus < Modulus /\ Base(vals[j]) \in Nat
                      /\ vals[j] = Base(vals[j]) + (vals[j] % Modulus)
    OBVIOUS
  <2>1. vals[j] \in Nat
    BY <1>0
  <2> QED BY <2>1, EraOf
<1>2. UnwrapStep(u, raw) = [prev |-> raw, offset |-> offset, wraps |-> wraps,
                            overflowed |-> u.overflowed \/ ~exact, unwrapped |-> Append(u.unwrapped, value)]
  BY DEF UnwrapStep
<1>3. /\ u.prev \in Int /\ u.offset \in Int /\ u.unwrapped \in Seq(Int) /\ raw \in Nat
  BY <1>0, <1>1 DEF IsReadTo, Epochs
<1>4. /\ offset = Base(vals[k]) - first
      /\ exact = TRUE
      /\ first <= Base(vals[k])
  <2>1. CASE k = 1
    <3>1. u.prev = Missing /\ u.offset = 0
      BY <2>1 DEF IsReadTo
    <3>2. falls = FALSE
      BY <3>1
    <3>3. offset = 0
      BY <3>1, <3>2
    <3>4. Fits(raw)
      BY <1>1, Numbers DEF Fits
    <3> HIDE DEF falls, raw
    <3>5. raw + offset = raw
      BY <1>3, <3>3
    <3>6. exact = TRUE
      BY <3>1, <3>2, <3>4, <3>5
    <3>7. offset = Base(vals[k]) - first /\ first <= Base(vals[k])
      BY <2>1, <1>0, <1>1, <3>3
    <3> QED BY <3>6, <3>7
  <2>2. CASE k # 1
    <3>0. k \in 2..n /\ k - 1 \in 1..n /\ k - 1 # 0 /\ Len(vals) = n
      BY <2>2 DEF AreTimes
    <3> DEFINE v == vals[k]
               w == vals[k - 1]
               dv == v % Modulus
               dw == w % Modulus
    <3>1. u.prev = dw /\ u.offset = Base(w) - first /\ first <= Base(w)
      BY <3>0 DEF IsReadTo
    <3>2. /\ v \in Nat /\ w \in Nat /\ v + Modulus <= MaxInt /\ dv \in Nat /\ dw \in Nat /\ dv < Modulus /\ dw < Modulus
          /\ Base(v) \in Nat /\ Base(w) \in Nat /\ first \in Nat /\ v = Base(v) + dv /\ w = Base(w) + dw
      <4>1. v \in Nat /\ v + Modulus <= MaxInt /\ dv \in Nat /\ dv < Modulus /\ Base(v) \in Nat /\ v = Base(v) + dv
        BY Zenon, <1>0, <1>1 DEF v, dv
      <4>2. w \in Nat /\ dw \in Nat /\ dw < Modulus /\ Base(w) \in Nat /\ w = Base(w) + dw
        BY Zenon, <1>0, <1>1, <3>0 DEF w, dw
      <4>3. first \in Nat
        BY <1>0, <1>1
      <4> QED BY <4>1, <4>2, <4>3
    <3>3. \/ Base(v) = Base(w) /\ v - w >= -HalfRange
          \/ Base(v) = Base(w) + Modulus /\ v - w < HalfRange
      <4>1. \/ Era(v) = Era(w) /\ v - w >= -HalfRange
            \/ Era(v) = Era(w) + 1 /\ v - w < HalfRange
        BY <3>0 DEF IsPlain
      <4> QED BY <4>1, <3>2, ErasAndBases
    <3>4. raw = dv
      OBVIOUS
    <3> HIDE DEF v, w, dv, dw, first, raw
    <3>5. u.prev # Missing /\ Fits(raw - u.prev)
      BY <3>1, <3>2, <3>4, Numbers DEF Fits
    <3>6. CASE Base(v) = Base(w) /\ v - w >= -HalfRange
      <4>1. falls = FALSE
        BY <3>1, <3>2, <3>4, <3>6, Numbers
      <4>2. offset = u.offset
        BY <4>1
      <4>3. Fits(raw + offset)
        BY <3>1, <3>2, <3>4, <3>6, <4>2, Numbers DEF Fits
      <4>4. exact = TRUE
        BY <3>5, <4>1, <4>3
      <4>5. offset = Base(v) - first /\ first <= Base(v)
        BY <3>1, <3>6, <4>2
      <4> QED BY <4>4, <4>5 DEF v
    <3>7. CASE Base(v) = Base(w) + Modulus /\ v - w < HalfRange
      <4>1. falls
        BY <3>1, <3>2, <3>4, <3>5, <3>7, Numbers
      <4>2. Fits(u.offset + Modulus)
        BY <3>1, <3>2, <3>7, Numbers DEF Fits
      <4>3. offset = u.offset + Modulus
        BY <4>1, <4>2
      <4>4. Fits(raw + offset) /\ offset # u.offset
        <5>1. u.offset \in Int /\ offset \in Int /\ offset # u.offset
          BY <1>3, <4>3, Numbers
        <5>2. raw + offset = v - first
          BY <3>1, <3>2, <3>4, <3>7, <4>3, Numbers
        <5>3. Fits(v - first)
          BY <3>1, <3>2, <3>7, Numbers DEF Fits
        <5> QED BY <5>1, <5>2, <5>3
      <4>5. exact = TRUE
        BY <3>5, <4>4
      <4>6. offset = Base(v) - first /\ first <= Base(v)
        BY <3>1, <3>2, <3>7, <4>3, Numbers
      <4> QED BY <4>5, <4>6 DEF v
    <3> QED BY <3>3, <3>6, <3>7
  <2> QED BY <2>1, <2>2
<1>5. value = vals[k] - first
  <2>1. Fits(raw + offset)
    BY <1>4
  <2>2. value = raw + offset
    BY <2>1
  <2> HIDE DEF offset, value, raw
  <2>3. vals[k] = Base(vals[k]) + raw /\ raw \in Nat /\ Base(vals[k]) \in Nat /\ first \in Nat
    BY Zenon, <1>0, <1>1 DEF raw
  <2> HIDE DEF first
  <2> QED BY <1>0, <1>4, <2>2, <2>3
<1>6. (u.overflowed \/ ~exact) = FALSE
  <2> HIDE DEF exact
  <2> QED BY <1>4 DEF IsReadTo
<1>7. UnwrapStep(u, raw) \in Epochs
  BY <1>3, UnwrapStepStays DEF IsReadTo
<1>8. Len(u.unwrapped) = k - 1
  BY DEF IsReadTo
<1> HIDE DEF offset, value, wraps, exact, falls, raw
<1>9. value \in Int
  BY <1>0, <1>1, <1>5
<1>10. /\ Len(Append(u.unwrapped, value)) = k
       /\ \A j \in 1..k : Append(u.unwrapped, value)[j] = vals[j] - Base(vals[1])
  <2>1. Len(Append(u.unwrapped, value)) = k
    BY <1>3, <1>8, <1>9
  <2>2. ASSUME NEW j \in 1..k PROVE Append(u.unwrapped, value)[j] = vals[j] - Base(vals[1])
    <3>1. CASE j = k
      BY <1>3, <1>5, <1>8, <1>9, <3>1
    <3>2. CASE j # k
      <4>1. j \in 1..(k - 1)
        BY <3>2
      <4>2. Append(u.unwrapped, value)[j] = u.unwrapped[j]
        BY <1>3, <1>8, <1>9, <4>1
      <4> QED BY <4>1, <4>2 DEF IsReadTo
    <3> QED BY <3>1, <3>2
  <2> QED BY <2>1, <2>2
<1>11. k # 0
  OBVIOUS
<1> HIDE DEF first
<1> DEFINE t == UnwrapStep(u, raw)
<1>12. t.prev = raw /\ t.offset = offset /\ t.overflowed = FALSE /\ t.unwrapped = Append(u.unwrapped, value)
  <2>1. t = [prev |-> raw, offset |-> offset, wraps |-> wraps, overflowed |-> FALSE,
             unwrapped |-> Append(u.unwrapped, value)]
    BY Zenon, <1>2, <1>6
  <2> HIDE DEF raw, offset, wraps, value, t
  <2> QED BY <2>1
<1> HIDE DEF t
<1>13. IsReadTo(t, vals, k)
  BY <1>4, <1>7, <1>10, <1>11, <1>12 DEF IsReadTo, raw, first, t
<1> QED BY <1>13 DEF t, raw

\* An axis of plain times is unwrapped from where its first one is.
LEMMA UnwrapIsExact ==
  ASSUME NEW n \in Nat, NEW vals, AreTimes(vals, n), IsPlain(vals)
  PROVE  /\ UnwrapTimestamps(Turned(vals)).overflowed = FALSE
         /\ UnwrapTimestamps(Turned(vals)).unwrapped = FromFirst(vals)
<1> DEFINE raws == Turned(vals)
<1>0. /\ DOMAIN vals = 1..n /\ \A k \in 1..n : vals[k] \in Nat
  BY Numbers DEF AreTimes, Moments
<1>1. \A k \in 1..n : raws[k] = vals[k] % Modulus /\ raws[k] \in Nat
  BY <1>0, EraOf DEF Turned
<1>2. raws \in Seq(Int) /\ Len(raws) = n
  <2>1. raws \in [1..n -> Int]
    <3>1. raws = [k \in 1..n |-> raws[k]]
      BY <1>0 DEF Turned
    <3> HIDE DEF raws
    <3> QED BY <1>1, <3>1
  <2> HIDE DEF raws
  <2> QED BY <2>1
<1> HIDE DEF raws
<1>3. PICK run : UnwrapRun(run, raws)
  BY <1>2, UnwrapRuns
<1> DEFINE Good == {k \in Nat : k <= n => IsReadTo(run[k], vals, k)}
<1>4. 0 \in Good
  <2>1. run[0] = NoEpoch /\ NoEpoch \in Epochs
    BY <1>2, <1>3 DEF UnwrapRun
  <2>2. Len(NoEpoch.unwrapped) = 0 /\ NoEpoch.prev = Missing /\ NoEpoch.offset = 0 /\ NoEpoch.overflowed = FALSE
    BY DEF NoEpoch
  <2>3. IsReadTo(NoEpoch, vals, 0)
    BY <2>1, <2>2 DEF IsReadTo
  <2> QED BY <2>1, <2>3
<1>5. ASSUME NEW k \in Nat, k \in Good PROVE k + 1 \in Good
  <2> SUFFICES ASSUME k + 1 <= n PROVE IsReadTo(run[k + 1], vals, k + 1)
    OBVIOUS
  <2>1. k + 1 \in 1..n /\ (k + 1) - 1 = k
    OBVIOUS
  <2>2. IsReadTo(run[(k + 1) - 1], vals, (k + 1) - 1)
    BY <1>5, <2>1
  <2>3. run[k + 1] = UnwrapStep(run[(k + 1) - 1], vals[k + 1] % Modulus)
    BY <1>1, <1>2, <1>3, <2>1 DEF UnwrapRun
  <2> QED BY <2>1, <2>2, <2>3, ReadToNext
<1> HIDE DEF Good
<1>6. n \in Good
  BY <1>4, <1>5, SetInduction
<1> DEFINE u == run[n]
<1>7. IsReadTo(u, vals, n) /\ UnwrapTimestamps(raws) = u
  BY <1>2, <1>3, <1>6 DEF Good, UnwrapRun
<1> HIDE DEF u
<1>8. u.unwrapped = FromFirst(vals)
  <2>1. u.unwrapped \in Seq(Int) /\ Len(u.unwrapped) = n
    BY <1>7 DEF IsReadTo, Epochs
  <2>2. u.unwrapped = [k \in 1..n |-> u.unwrapped[k]]
    BY <2>1
  <2>3. \A k \in 1..n : u.unwrapped[k] = vals[k] - Base(vals[1])
    BY <1>7 DEF IsReadTo
  <2>4. FromFirst(vals) = [k \in 1..n |-> vals[k] - Base(vals[1])]
    BY <1>0 DEF FromFirst
  <2> QED BY <2>2, <2>3, <2>4
<1>9. u.overflowed = FALSE
  BY <1>7 DEF IsReadTo
<1> QED BY <1>7, <1>8, <1>9 DEF raws

-------------------------------------------------------------------------------
(* The axes of packets that all have their times.                          *)

\* The samples of packets at some times.
Sampled(vals, packets) ==
  [k \in DOMAIN packets |-> [index |-> k, value |-> vals[k], pos |-> packets[k].pos]]
AxisOf(packets, axis) == [k \in DOMAIN packets |-> packets[k][axis]]
\* Packets on an axis of which none is missing.
HasAxis(packets, n, axis) ==
  /\ IsList(packets, n)
  /\ \A k \in 1..n : packets[k][axis] # Missing

\* Where no packet lacks a time every packet is a sample.
LEMMA SamplesOfAll ==
  ASSUME NEW n \in Nat, NEW axis, NEW packets, HasAxis(packets, n, axis)
  PROVE  Samples(packets, axis) = Sampled(AxisOf(packets, axis), packets)
<1> DEFINE all == [i \in DOMAIN packets |-> [index |-> i, value |-> packets[i][axis], pos |-> packets[i].pos]]
<1>1. DOMAIN packets = 1..n
  BY DEF HasAxis, IsList
<1>2. {i \in DOMAIN packets : packets[i][axis] # Missing} = 1..n
  BY <1>1 DEF HasAxis
<1>3. IsList(all, n)
  BY <1>1 DEF IsList
<1>4. all = Sampled(AxisOf(packets, axis), packets)
  BY DEF Sampled, AxisOf
<1>5. Samples(packets, axis) = Kept(all, 1..n)
  BY <1>2 DEF Samples
<1> HIDE DEF all
<1>6. Kept(all, 1..n) = all
  BY <1>3, KeptAll
<1> QED BY <1>4, <1>5, <1>6

\* The values of samples.
LEMMA ValuesOfSampled ==
  ASSUME NEW packets, NEW vals, NEW n \in Nat, IsList(vals, n), IsList(packets, n)
  PROVE  Values(Sampled(vals, packets)) = vals /\ DOMAIN Sampled(vals, packets) = 1..n
<1>1. DOMAIN packets = 1..n /\ vals = [k \in 1..n |-> vals[k]]
  BY DEF IsList
<1>2. /\ DOMAIN Sampled(vals, packets) = 1..n
      /\ \A k \in 1..n : Sampled(vals, packets)[k].value = vals[k]
  BY <1>1 DEF Sampled
<1>3. Values(Sampled(vals, packets)) = [k \in 1..n |-> vals[k]]
  BY <1>2 DEF Values
<1> QED BY <1>1, <1>2, <1>3

\* The samples of plain times, unwrapped.
LEMMA UnwrapAxisIsExact ==
  ASSUME NEW n \in Nat, NEW packets, IsList(packets, n), NEW vals, AreTimes(vals, n), IsPlain(vals)
  PROVE  UnwrapAxis(Sampled(Turned(vals), packets)) = <<Sampled(FromFirst(vals), packets)>>
<1> DEFINE raws == Turned(vals)
           read == FromFirst(vals)
           samples == Sampled(raws, packets)
<1>0. DOMAIN vals = 1..n /\ DOMAIN packets = 1..n
  BY DEF AreTimes, IsList
<1>1. IsList(raws, n) /\ IsList(read, n)
  BY <1>0 DEF IsList, Turned, FromFirst
<1>2. /\ UnwrapTimestamps(raws).overflowed = FALSE
      /\ UnwrapTimestamps(raws).unwrapped = read
  BY UnwrapIsExact
<1> HIDE DEF raws, read
<1>3. Values(samples) = raws /\ DOMAIN samples = 1..n
  BY <1>1, ValuesOfSampled
<1>4. UnwrapAxis(samples) = <<[i \in 1..n |-> [samples[i] EXCEPT !.value = read[i]]]>>
  BY <1>2, <1>3 DEF UnwrapAxis
<1>5. \A i \in 1..n : [samples[i] EXCEPT !.value = read[i]] = Sampled(read, packets)[i]
  BY <1>0 DEF Sampled
<1>6. Sampled(read, packets) = [i \in 1..n |-> Sampled(read, packets)[i]]
  BY <1>0 DEF Sampled
<1> HIDE DEF samples
<1>7. [i \in 1..n |-> [samples[i] EXCEPT !.value = read[i]]] = Sampled(read, packets)
  BY <1>5, <1>6
<1> QED BY <1>4, <1>7 DEF samples, raws, read

-------------------------------------------------------------------------------
(* What is read of packets that are sent.                                  *)

Packets == [pts : Moments, dts : Moments, duration : Nat, pos : Nat]
AreSent(packets, n) == packets \in [1..n -> Packets]
Axes == {"pts", "dts"}

\* The axes of packets that are sent are times, none of them missing.
LEMMA SentAxes ==
  ASSUME NEW n \in Nat, NEW packets, AreSent(packets, n), NEW axis \in Axes
  PROVE  /\ AreTimes(AxisOf(packets, axis), n)
         /\ HasAxis(packets, n, axis)
         /\ HasAxis(Wrapped(packets), n, axis)
         /\ AxisOf(Wrapped(packets), axis) = Turned(AxisOf(packets, axis))
         /\ \A vals : Sampled(vals, Wrapped(packets)) = Sampled(vals, packets)
<1> DEFINE wrapped == Wrapped(packets)
<1>0. DOMAIN packets = 1..n /\ DOMAIN wrapped = 1..n
  BY DEF AreSent, Wrapped
<1>1. ASSUME NEW k \in 1..n
      PROVE  /\ packets[k][axis] \in Moments
             /\ wrapped[k][axis] = packets[k][axis] % Modulus
             /\ wrapped[k].pos = packets[k].pos
  <2>1. packets[k] \in Packets
    BY DEF AreSent
  <2>2. wrapped[k] = [packets[k] EXCEPT !.pts = @ % Modulus, !.dts = @ % Modulus]
    BY <1>0 DEF Wrapped
  <2>3. /\ packets[k].pts \in Moments /\ packets[k].dts \in Moments
        /\ wrapped[k].pts = packets[k].pts % Modulus /\ wrapped[k].dts = packets[k].dts % Modulus
        /\ wrapped[k].pos = packets[k].pos
    BY <2>1, <2>2 DEF Packets
  <2>4. axis = "pts" \/ axis = "dts"
    BY DEF Axes
  <2> HIDE DEF wrapped
  <2> QED BY <2>3, <2>4
<1>2. IsList(packets, n) /\ IsList(wrapped, n)
  <2>1. IsList(packets, n)
    BY DEF AreSent, IsList
  <2>2. wrapped = [k \in 1..n |-> wrapped[k]]
    BY <1>0 DEF Wrapped
  <2> QED BY <2>1, <2>2 DEF IsList
<1> HIDE DEF wrapped
<1>3. \A k \in 1..n : packets[k][axis] \in Nat
  BY <1>1, Numbers DEF Moments
<1>4. \A k \in 1..n : packets[k][axis] # Missing /\ wrapped[k][axis] # Missing
  <2> SUFFICES ASSUME NEW k \in 1..n PROVE packets[k][axis] # Missing /\ wrapped[k][axis] # Missing
    OBVIOUS
  <2>1. packets[k][axis] \in Nat /\ wrapped[k][axis] \in Nat
    BY <1>1, <1>3, EraOf
  <2> QED BY <2>1, Numbers
<1>5. HasAxis(packets, n, axis) /\ HasAxis(wrapped, n, axis)
  BY <1>2, <1>4 DEF HasAxis
<1>6. AreTimes(AxisOf(packets, axis), n)
  BY <1>0, <1>1 DEF AreTimes, AxisOf
<1>7. AxisOf(wrapped, axis) = Turned(AxisOf(packets, axis))
  BY <1>0, <1>1 DEF AxisOf, Turned
<1>8. \A vals : Sampled(vals, wrapped) = Sampled(vals, packets)
  BY <1>0, <1>1 DEF Sampled
<1> QED BY <1>5, <1>6, <1>7, <1>8 DEF wrapped

\* An axis of a transport stream is judged as it was meant, from where its first time is.
LEMMA PreparedIs ==
  ASSUME NEW n \in Nat, NEW packets, AreSent(packets, n), NEW axis \in Axes, IsPlain(AxisOf(packets, axis))
  PROVE  PrepareAxis(Wrapped(packets), axis, TRUE) = <<Sampled(FromFirst(AxisOf(packets, axis)), packets)>>
<1> DEFINE vals == AxisOf(packets, axis)
           samples == Sampled(Turned(vals), packets)
<1>1. Samples(Wrapped(packets), axis) = samples
  BY SentAxes, SamplesOfAll
<1>2. IsList(packets, n) /\ AreTimes(vals, n) /\ DOMAIN packets = 1..n
  BY SentAxes DEF AreSent, HasAxis
<1>3. UnwrapAxis(samples) = <<Sampled(FromFirst(vals), packets)>>
  BY <1>2, UnwrapAxisIsExact
<1>4. PrepareAxis(Wrapped(packets), axis, TRUE) = IF samples # <<>> THEN UnwrapAxis(samples) ELSE <<samples>>
  BY <1>1 DEF PrepareAxis
<1>5. samples = <<>> => Sampled(FromFirst(vals), packets) = <<>>
  <2>1. DOMAIN samples = DOMAIN packets
    BY DEF Sampled
  <2> HIDE DEF samples, vals
  <2>2. SUFFICES ASSUME samples = <<>> PROVE Sampled(FromFirst(vals), packets) = <<>>
    OBVIOUS
  <2>3. DOMAIN packets = {}
    BY <2>1, <2>2
  <2> QED BY <2>3 DEF Sampled
<1> HIDE DEF samples, vals
<1> QED BY <1>3, <1>4, <1>5 DEF vals

\* In other containers it is judged as it is.
LEMMA PreparedElsewhere ==
  ASSUME NEW n \in Nat, NEW packets, NEW axis, HasAxis(packets, n, axis)
  PROVE  PrepareAxis(packets, axis, FALSE) = <<Sampled(AxisOf(packets, axis), packets)>>
<1>1. Samples(packets, axis) = Sampled(AxisOf(packets, axis), packets)
  BY SamplesOfAll
<1> QED BY <1>1 DEF PrepareAxis

\* The packets with other times.
AtTimes(packets, axis, vals) == [k \in DOMAIN packets |-> [packets[k] EXCEPT ![axis] = vals[k]]]

\* Putting every value back gives each packet its own.
LEMMA WithAxisIs ==
  ASSUME NEW n \in Nat, NEW packets, IsList(packets, n), NEW others, IsList(others, n), NEW axis, NEW vals
  PROVE  WithAxis(packets, axis, Sampled(vals, others)) = AtTimes(packets, axis, vals)
<1> DEFINE samples == Sampled(vals, others)
           Own(i) == {m \in DOMAIN samples : samples[m].index = i}
<1>0. DOMAIN packets = 1..n /\ DOMAIN samples = 1..n
  BY DEF IsList, Sampled
<1>1. \A m \in 1..n : samples[m].index = m /\ samples[m].value = vals[m]
  BY <1>0 DEF Sampled
<1> HIDE DEF samples
<1>2. ASSUME NEW i \in 1..n PROVE Own(i) # {} /\ samples[Min(Own(i))].value = vals[i]
  <2>1. Own(i) = {i}
    BY <1>0, <1>1
  <2>2. Min(Own(i)) = i
    BY <2>1 DEF Min
  <2> QED BY <1>1, <2>1, <2>2
<1>3. WithAxis(packets, axis, samples) =
        [i \in 1..n |-> IF Own(i) = {} THEN packets[i] ELSE [packets[i] EXCEPT ![axis] = samples[Min(Own(i))].value]]
  BY <1>0 DEF WithAxis
<1> HIDE DEF Own
<1>4. AtTimes(packets, axis, vals) = [i \in 1..n |-> [packets[i] EXCEPT ![axis] = vals[i]]]
  BY <1>0 DEF AtTimes
<1>5. WithAxis(packets, axis, samples) = AtTimes(packets, axis, vals)
  BY <1>2, <1>3, <1>4
<1> QED BY <1>5 DEF samples

-------------------------------------------------------------------------------
(* Packets that differ in their decoding times only.                       *)

AreAlike(a, b, n) ==
  /\ \A axis \in Axes : HasAxis(a, n, axis) /\ HasAxis(b, n, axis)
  /\ AxisOf(a, "pts") = AxisOf(b, "pts")
  /\ \A k \in 1..n : a[k].pts \in Int /\ a[k].pos = b[k].pos /\ a[k].duration = b[k].duration

\* Packets of the same presentation times have the same samples.
LEMMA AlikeSamples ==
  ASSUME NEW n \in Nat, NEW a, NEW b, AreAlike(a, b, n)
  PROVE  /\ Samples(a, "pts") = Sampled(AxisOf(a, "pts"), a)
         /\ Samples(b, "pts") = Samples(a, "pts")
         /\ DOMAIN Samples(a, "pts") = 1..n
         /\ \A k \in 1..n : /\ Samples(a, "pts")[k].index = k
                            /\ Samples(a, "pts")[k].value = a[k].pts
                            /\ Samples(a, "pts")[k].value \in Int
         /\ DOMAIN Samples(a, "dts") = 1..n /\ DOMAIN Samples(b, "dts") = 1..n
<1>0. DOMAIN a = 1..n /\ DOMAIN b = 1..n
  BY DEF AreAlike, HasAxis, IsList, Axes
<1>1. \A axis \in Axes : /\ Samples(a, axis) = Sampled(AxisOf(a, axis), a)
                         /\ Samples(b, axis) = Sampled(AxisOf(b, axis), b)
  BY SamplesOfAll DEF AreAlike
<1>2. "pts" \in Axes /\ "dts" \in Axes
  BY DEF Axes
<1> DEFINE vals == AxisOf(a, "pts")
<1>3. \A k \in 1..n : vals[k] = a[k].pts
  BY <1>0 DEF AxisOf
<1>4. Sampled(vals, a) = Sampled(vals, b)
  <2> HIDE DEF vals
  <2> QED BY <1>0 DEF AreAlike, Sampled
<1>5. Samples(a, "pts") = Sampled(vals, a) /\ Samples(b, "pts") = Sampled(vals, b)
  BY <1>1, <1>2 DEF AreAlike
<1>6. DOMAIN Samples(a, "dts") = 1..n /\ DOMAIN Samples(b, "dts") = 1..n
  BY <1>0, <1>1, <1>2 DEF Sampled
<1> HIDE DEF vals
<1>7. DOMAIN Sampled(vals, a) = 1..n /\ \A k \in 1..n : Sampled(vals, a)[k].index = k /\ Sampled(vals, a)[k].value = vals[k]
  BY <1>0 DEF Sampled
<1>8. \A k \in 1..n : a[k].pts \in Int
  BY DEF AreAlike
<1> QED BY <1>3, <1>4, <1>5, <1>6, <1>7, <1>8 DEF vals

\* They are first presented at the same time.
LEMMA AlikeFirst ==
  ASSUME NEW n \in Nat, NEW a, NEW b, AreAlike(a, b, n)
  PROVE  FirstPresented(a) = FirstPresented(b)
<1>1. Samples(a, "pts") = Samples(b, "pts")
  BY AlikeSamples
<1> QED BY <1>1 DEF FirstPresented

\* They have the same cadence.
LEMMA AlikeCadence ==
  ASSUME NEW n \in Nat, NEW a, NEW b, AreAlike(a, b, n), NEW tb
  PROVE  DeriveCadence(a, tb) = DeriveCadence(b, tb)
<1> DEFINE pts == Values(Samples(a, "pts"))
           da == Values(Samples(a, "dts"))
           db == Values(Samples(b, "dts"))
<1>1. /\ Values(Samples(b, "pts")) = pts
      /\ DOMAIN pts = 1..n /\ DOMAIN da = 1..n /\ DOMAIN db = 1..n
  BY AlikeSamples DEF Values
<1>2. pts = [k \in 1..n |-> pts[k]] /\ da = [k \in 1..n |-> da[k]] /\ db = [k \in 1..n |-> db[k]]
  BY AlikeSamples DEF Values
<1> DEFINE Cadence(dts) ==
             LET axis == IF Len(pts) >= 2 THEN "pts" ELSE "dts"
                 values == IF axis = "pts" THEN pts ELSE dts
             IN IF tb.num <= 0 \/ tb.den <= 0 THEN NoCadence("insufficient_data")
                ELSE IF pts = <<>> /\ dts = <<>> THEN NoCadence("no_timing_data")
                ELSE IF Len(values) < 2 THEN NoCadence("insufficient_data")
                ELSE CadenceOf(axis, Ascending(values, values))
<1>3. DeriveCadence(a, tb) = Cadence(da) /\ DeriveCadence(b, tb) = Cadence(db)
  BY <1>1 DEF DeriveCadence
<1> HIDE DEF pts, da, db
<1>4. Len(pts) = n /\ Len(da) = n /\ Len(db) = n
  BY <1>1, <1>2
<1>5. da = <<>> <=> db = <<>>
  BY <1>1
<1>6. CASE n >= 2
  <2>1. Len(pts) >= 2
    BY <1>4, <1>6
  <2>2. Cadence(da) = Cadence(db)
    BY <1>5, <2>1
  <2> QED BY <1>3, <2>2
<1>7. CASE n < 2
  <2>1. ~(Len(pts) >= 2)
    BY <1>4, <1>7
  <2>2. Len(da) < 2 /\ Len(db) < 2
    BY <1>4, <1>7
  <2>3. Cadence(da) = Cadence(db)
    BY <1>5, <2>1, <2>2
  <2> QED BY <1>3, <2>3
<1> QED BY <1>3, <1>6, <1>7

\* The packets in presentation order.
LEMMA AlikeOrder ==
  ASSUME NEW n \in Nat, NEW a, NEW b, AreAlike(a, b, n)
  PROVE  LET order == Presented(Samples(a, "pts"))
         IN  /\ Presented(Samples(b, "pts")) = order
             /\ IsList(order, n)
             /\ \A j \in 1..n : /\ order[j].index \in 1..n
                                /\ order[j].value = a[order[j].index].pts
                                /\ a[order[j].index].duration = b[order[j].index].duration
<1> DEFINE samples == Samples(a, "pts")
           keys == Values(samples)
           order == Presented(samples)
<1>1. /\ Samples(b, "pts") = samples /\ DOMAIN samples = 1..n
      /\ \A k \in 1..n : samples[k].index = k /\ samples[k].value = a[k].pts /\ samples[k].value \in Int
  BY AlikeSamples
<1> HIDE DEF samples
<1>2. \A k \in 1..n : keys[k] \in Int
  BY <1>1 DEF Values
<1> HIDE DEF keys
<1>3. AreRanked(1..n, keys)
  BY <1>2, FS_Interval DEF AreRanked
<1>4. Cardinality(1..n) = n
  BY FS_Interval
<1>5. \A j \in 1..n : Ranked(1..n, keys, j) \in 1..n
  BY <1>3, <1>4, RankedIs
<1>6. IsList(order, n) /\ \A j \in 1..n : order[j] = samples[Ranked(1..n, keys, j)]
  BY <1>1, AscendingIs DEF Presented, keys
<1> HIDE DEF order
<1>7. \A j \in 1..n : /\ order[j].index \in 1..n
                      /\ order[j].value = a[order[j].index].pts
                      /\ a[order[j].index].duration = b[order[j].index].duration
  BY <1>1, <1>5, <1>6 DEF AreAlike
<1> QED BY <1>1, <1>6, <1>7 DEF order, samples

\* They have the same durations.
LEMMA AlikeReconstructed ==
  ASSUME NEW n \in Nat, NEW a, NEW b, AreAlike(a, b, n), NEW tb
  PROVE  Reconstructed(a, tb) = Reconstructed(b, tb)
<1> DEFINE order == Presented(Samples(a, "pts"))
           cadence == DeriveCadence(a, tb)
<1>1. /\ Presented(Samples(b, "pts")) = order
      /\ IsList(order, n)
      /\ \A j \in 1..n : /\ order[j].index \in 1..n
                         /\ a[order[j].index].duration = b[order[j].index].duration
  BY AlikeOrder
<1>2. DeriveCadence(b, tb) = cadence
  BY AlikeCadence
<1>3. DOMAIN order = 1..n
  BY <1>1 DEF IsList
<1> DEFINE Delta(j) == order[j + 1].value - order[j].value
           Ends(j) == IF j < Len(order) THEN Fits(Delta(j)) ELSE cadence.status = "ok"
           Lasting(D(_)) ==
             IF order = <<>> \/ \E j \in DOMAIN order : D(j) <= 0 /\ ~Ends(j) THEN <<>>
             ELSE <<[j \in DOMAIN order |->
                       [pts |-> order[j].value,
                        duration |-> IF D(j) > 0 THEN D(j) ELSE IF j < Len(order) THEN Delta(j) ELSE cadence.nominal,
                        declared |-> D(j) > 0]]>>
           Da(j) == a[order[j].index].duration
           Db(j) == b[order[j].index].duration
<1>4. Reconstructed(a, tb) = Lasting(Da)
  BY DEF Reconstructed
<1>5. Reconstructed(b, tb) = Lasting(Db)
  BY <1>1, <1>2 DEF Reconstructed
<1>6. \A j \in DOMAIN order : Da(j) = Db(j)
  BY <1>1, <1>3
<1> HIDE DEF order, cadence, Delta, Ends, Da, Db
<1>7. Lasting(Da) = Lasting(Db)
  BY <1>6
<1> QED BY <1>4, <1>5, <1>7

\* They have the same span.
LEMMA AlikeSpan ==
  ASSUME NEW n \in Nat, NEW a, NEW b, AreAlike(a, b, n)
  PROVE  PtsSpan(a) = PtsSpan(b)
<1> DEFINE order == Presented(Samples(a, "pts"))
<1>1. /\ Presented(Samples(b, "pts")) = order
      /\ IsList(order, n)
      /\ \A j \in 1..n : /\ order[j].index \in 1..n
                         /\ a[order[j].index].duration = b[order[j].index].duration
  BY AlikeOrder
<1>2. DOMAIN order = 1..n
  BY <1>1 DEF IsList
<1>3. \A j \in DOMAIN order : EffectiveDuration(order, a, j) = EffectiveDuration(order, b, j)
  BY <1>1, <1>2 DEF EffectiveDuration
<1> DEFINE da == [j \in DOMAIN order |-> EffectiveDuration(order, a, j)]
           db == [j \in DOMAIN order |-> EffectiveDuration(order, b, j)]
<1>4. da = db
  BY <1>3
<1> DEFINE Over(pts, durations) ==
             LET end == Last(pts) + Last(durations)
                 covered == /\ Len(pts) >= 2
                            /\ Fits(end) /\ Fits(end - pts[1]) /\ end > pts[1]
             IN [pts |-> pts, durations |-> durations,
                 nominal |-> Median(Kept(durations, {j \in DOMAIN durations : durations[j] > 0})),
                 span |-> IF covered THEN <<end - pts[1]>> ELSE <<>>]
<1>5. PtsSpan(a) = Over(Values(order), da)
  BY DEF PtsSpan
<1>6. PtsSpan(b) = Over(Values(order), db)
  BY <1>1 DEF PtsSpan
<1> HIDE DEF da, db
<1> QED BY <1>4, <1>5, <1>6

-------------------------------------------------------------------------------
(* The streams that begin after the wrap.                                  *)

\* The extremes of one number and of two.
LEMMA MaxMinOf ==
  ASSUME NEW x \in Int, NEW y \in Int
  PROVE  /\ Max({x}) = x /\ Min({x}) = x
         /\ x <= y => Max({x, y}) = y /\ Min({x, y}) = x
         /\ y <= x => Max({x, y}) = x /\ Min({x, y}) = y
<1>1. Max({x}) = x /\ Min({x}) = x
  BY DEF Max, Min
<1>2. x <= y => Max({x, y}) = y /\ Min({x, y}) = x
  BY DEF Max, Min
<1>3. y <= x => Max({x, y}) = x /\ Min({x, y}) = y
  BY DEF Max, Min
<1> QED BY <1>1, <1>2, <1>3

\* The greater of two in order.
LEMMA GreaterOf ==
  ASSUME NEW x \in Int, NEW y \in Int, x <= y
  PROVE  Max({x, y}) = y
BY DEF Max

\* The greater of two is no less than either.
LEMMA NoLessThanEither ==
  ASSUME NEW x \in Int, NEW y \in Int
  PROVE  Max({x, y}) \in Int /\ Max({x, y}) >= x /\ Max({x, y}) >= y
<1> DEFINE most == Max({x, y})
<1>1. (x <= y => most = y) /\ (y <= x => most = x)
  BY MaxMinOf
<1> HIDE DEF most
<1>2. most \in Int /\ most >= x /\ most >= y
  BY <1>1
<1> QED BY <1>2 DEF most

\* Times of the first two eras.
LEMMA FirstEras ==
  ASSUME NEW t \in Nat
  PROVE  /\ t < Modulus => Base(t) = 0 /\ t % Modulus = t
         /\ Modulus <= t /\ t < 2 * Modulus => Base(t) = Modulus /\ t % Modulus = t - Modulus
<1>0. Modulus \in Nat \ {0}
  BY Numbers
<1>1. ASSUME t < Modulus PROVE Base(t) = 0 /\ t % Modulus = t
  <2>1. t = Modulus * 0 + t
    BY <1>0
  <2>2. t % Modulus = t
    BY <1>0, <1>1, <2>1, RestIs
  <2>3. Base(t) = t - t
    BY <2>2 DEF Base
  <2> QED BY <2>2, <2>3
<1>2. ASSUME Modulus <= t, t < 2 * Modulus PROVE Base(t) = Modulus /\ t % Modulus = t - Modulus
  <2> DEFINE r == t - Modulus
  <2>1. r \in Nat /\ r < Modulus /\ t = Modulus * 1 + r /\ t - r = Modulus
    BY <1>0, <1>2
  <2> HIDE DEF r
  <2>2. t % Modulus = r
    BY <1>0, <2>1, RestIs
  <2>3. Base(t) = t - r
    BY <2>2 DEF Base
  <2> QED BY <2>1, <2>2, <2>3 DEF r
<1> QED BY <1>1, <1>2

\* They are found by the first times of both.
IsApart(apart, r1, r2, spread) ==
  IF spread <= HalfRange THEN apart = {}
  ELSE /\ 1 \in apart <=> r1 # Missing /\ r1 < HalfRange
       /\ 2 \in apart <=> r2 # Missing /\ r2 < HalfRange

\* The streams apart are those that begin in the lower half.
LEMMA EpochApartOf ==
  ASSUME NEW streams, DOMAIN streams = Media,
         NEW r1, FirstRawPts(streams[1].packets) = r1, NEW r2, FirstRawPts(streams[2].packets) = r2,
         NEW known, known = {r1, r2} \ {Missing}, NEW spread, known # {} => spread = Max(known) - Min(known) /\ Fits(spread)
  PROVE  /\ known = {} => EpochApart(streams) = {}
         /\ known # {} => IsApart(EpochApart(streams), r1, r2, spread)
<1> DEFINE firsts == [i \in DOMAIN streams |-> FirstRawPts(streams[i].packets)]
           first == [i \in Media |-> IF i = 1 THEN r1 ELSE r2]
           all == ToSet(first) \ {Missing}
<1>1. firsts = first
  BY DEF Media
<1>2. EpochApart(streams) = IF all = {} \/ ~Fits(Max(all) - Min(all)) \/ Max(all) - Min(all) <= HalfRange THEN {}
                            ELSE {i \in DOMAIN streams : first[i] # Missing /\ first[i] < HalfRange}
  <2>1. EpochApart(streams) = (LET got == ToSet(firsts) \ {Missing}
                                   width == Max(got) - Min(got)
                               IN IF got = {} \/ ~Fits(width) \/ width <= HalfRange THEN {}
                                  ELSE {i \in DOMAIN streams : firsts[i] # Missing /\ firsts[i] < HalfRange})
    BY DEF EpochApart
  <2> HIDE DEF firsts, first
  <2> QED BY <1>1, <2>1
<1>3. all = known
  BY DEF ToSet, Media
<1>4. first[1] = r1 /\ first[2] = r2 /\ 1 \in Media /\ 2 \in Media
  BY DEF Media
<1> HIDE DEF firsts, first, all
<1> QED BY <1>2, <1>3, <1>4 DEF IsApart

\* Of two streams that begin together, those that begin after the wrap are found.
LEMMA ApartOfTwo ==
  ASSUME NEW streams, DOMAIN streams = Media, NEW f \in Nat, NEW g \in Nat,
         FirstRawPts(streams[1].packets) = f % Modulus, FirstRawPts(streams[2].packets) = g % Modulus,
         f - g < HalfRange, g - f < HalfRange, f < Modulus \/ g < Modulus
  PROVE  /\ \/ Base(f) = 0 /\ 1 \notin EpochApart(streams)
            \/ Base(f) = Modulus /\ 1 \in EpochApart(streams)
         /\ \/ Base(g) = 0 /\ 2 \notin EpochApart(streams)
            \/ Base(g) = Modulus /\ 2 \in EpochApart(streams)
<1> DEFINE x == f % Modulus
           y == g % Modulus
           known == {x, y} \ {Missing}
           spread == IF x <= y THEN y - x ELSE x - y
           apart == EpochApart(streams)
<1>0. f < 2 * Modulus /\ g < 2 * Modulus
  BY Numbers
<1>1. /\ \/ f < Modulus /\ Base(f) = 0 /\ x = f
         \/ f >= Modulus /\ Base(f) = Modulus /\ x = f - Modulus
      /\ \/ g < Modulus /\ Base(g) = 0 /\ y = g
         \/ g >= Modulus /\ Base(g) = Modulus /\ y = g - Modulus
  BY <1>0, FirstEras, Numbers
<1>2. x \in Nat /\ y \in Nat /\ x < Modulus /\ y < Modulus
  BY EraOf
<1>3. FirstRawPts(streams[1].packets) = x /\ FirstRawPts(streams[2].packets) = y
  OBVIOUS
<1> HIDE DEF x, y
<1>5. x # Missing /\ y # Missing
  BY <1>2, Numbers
<1>6. known = {x, y} /\ known # {}
  BY <1>5
<1>7. spread = Max(known) - Min(known)
  <2> HIDE DEF known
  <2>1. CASE x <= y
    <3>1. Max({x, y}) = y /\ Min({x, y}) = x
      <4>1. x \in Int /\ y \in Int
        BY <1>2
      <4> QED BY Zenon, <2>1, <4>1, MaxMinOf
    <3> QED BY <1>6, <2>1, <3>1
  <2>2. CASE ~(x <= y)
    <3>1. Max({x, y}) = x /\ Min({x, y}) = y
      <4>1. y <= x /\ x \in Int /\ y \in Int
        BY <1>2, <2>2
      <4> QED BY Zenon, <4>1, MaxMinOf
    <3> QED BY <1>6, <2>2, <3>1
  <2> QED BY <2>1, <2>2
<1>8. Fits(spread)
  BY <1>2, Numbers DEF Fits
<1>9. IsApart(apart, x, y, spread)
  <2>1. known = {x, y} \ {Missing}
    OBVIOUS
  <2> HIDE DEF known, spread
  <2> QED BY <1>3, <1>6, <1>7, <1>8, <2>1, EpochApartOf
<1> HIDE DEF apart, known
<1>10. \/ Base(f) = 0 /\ Base(g) = 0 /\ spread <= HalfRange
       \/ Base(f) = 0 /\ Base(g) = Modulus /\ ~(spread <= HalfRange) /\ y < HalfRange /\ ~(x < HalfRange)
       \/ Base(f) = Modulus /\ Base(g) = 0 /\ ~(spread <= HalfRange) /\ x < HalfRange /\ ~(y < HalfRange)
  <2>1. f < Modulus /\ g < Modulus => spread <= HalfRange
    BY <1>1, <1>2, Numbers
  <2>2. f < Modulus /\ g >= Modulus => ~(spread <= HalfRange) /\ y < HalfRange /\ ~(x < HalfRange)
    BY <1>1, <1>2, Numbers
  <2>3. f >= Modulus /\ g < Modulus => ~(spread <= HalfRange) /\ x < HalfRange /\ ~(y < HalfRange)
    BY <1>1, <1>2, Numbers
  <2> HIDE DEF spread
  <2>4. Base(f) = 0 \/ Base(g) = 0
    BY <1>1, Numbers
  <2>5. CASE f < Modulus /\ g < Modulus
    BY <1>1, <2>1, <2>5, Numbers
  <2>6. CASE f < Modulus /\ g >= Modulus
    BY <1>1, <2>2, <2>6, Numbers
  <2>7. CASE f >= Modulus /\ g < Modulus
    BY <1>1, <2>3, <2>7, Numbers
  <2> QED BY <2>5, <2>6, <2>7, Numbers
<1> HIDE DEF spread
<1>11. \/ Base(f) = 0 /\ Base(g) = 0 /\ apart = {}
       \/ Base(f) = 0 /\ Base(g) = Modulus /\ 1 \notin apart /\ 2 \in apart
       \/ Base(f) = Modulus /\ Base(g) = 0 /\ 1 \in apart /\ 2 \notin apart
  BY Zenon, <1>5, <1>9, <1>10 DEF IsApart
<1> QED BY Zenon, <1>11 DEF apart

\* One stream alone is not apart.
LEMMA ApartOfOne ==
  ASSUME NEW streams, DOMAIN streams = Media, NEW r \in Int, NEW i \in Media,
         FirstRawPts(streams[i].packets) = r,
         \A j \in Media : j # i => FirstRawPts(streams[j].packets) = Missing
  PROVE  EpochApart(streams) = {}
<1> DEFINE r1 == FirstRawPts(streams[1].packets)
           r2 == FirstRawPts(streams[2].packets)
           known == {r1, r2} \ {Missing}
<1>1. known = {} \/ known = {r}
  BY DEF Media
<1>2. known # {} => 0 = Max(known) - Min(known) /\ Fits(0)
  <2> HIDE DEF known
  <2> QED BY <1>1, MaxMinOf, Numbers DEF Fits
<1>3. /\ known = {} => EpochApart(streams) = {}
      /\ known # {} => IsApart(EpochApart(streams), r1, r2, 0)
  <2>1. known = {r1, r2} \ {Missing}
    OBVIOUS
  <2> HIDE DEF known
  <2> QED BY <1>2, <2>1, EpochApartOf
<1>4. 0 <= HalfRange
  BY Numbers
<1> HIDE DEF known
<1> QED BY <1>3, <1>4 DEF IsApart

-------------------------------------------------------------------------------
(* What the cross-stream checks read of a transport stream.                *)

IsPacket(r, pts, dts, duration, pos) == r = [pts |-> pts, dts |-> dts, duration |-> duration, pos |-> pos]

\* The fields of a packet that is read.
LEMMA FieldsOf ==
  ASSUME NEW r, NEW a, NEW b, NEW c, NEW d, IsPacket(r, a, b, c, d)
  PROVE  /\ r.pts = a /\ r.dts = b /\ r.duration = c /\ r.pos = d
         /\ r["pts"] = a /\ r["dts"] = b
BY DEF IsPacket

\* A packet moved by an epoch.
LEMMA MovedPacket ==
  ASSUME NEW r, NEW a, NEW b, NEW c, NEW d, IsPacket(r, a, b, c, d), NEW pts, NEW dts, NEW moved,
         moved = [r EXCEPT !.pts = pts, !.dts = dts]
  PROVE  IsPacket(moved, pts, dts, c, d)
BY DEF IsPacket

\* Packets at other times, the rest of them as it is.
AreAt(view, packets, n, pts, dts) ==
  /\ IsList(view, n)
  /\ \A k \in 1..n : /\ view[k]["pts"] = pts[k] /\ view[k].pts = pts[k]
                     /\ view[k]["dts"] = dts[k] /\ view[k].dts = dts[k]
                     /\ view[k].duration = packets[k].duration /\ view[k].pos = packets[k].pos
                     /\ IsPacket(view[k], pts[k], dts[k], packets[k].duration, packets[k].pos)

\* The view of a wrapped stream, from its first packet's era.
LEMMA UnwrappedIs ==
  ASSUME NEW n \in Nat, NEW packets, AreSent(packets, n), \A axis \in Axes : IsPlain(AxisOf(packets, axis))
  PROVE  \E view : /\ UnwrappedView(Wrapped(packets)) = <<view>>
                   /\ AreAt(view, packets, n, FromFirst(AxisOf(packets, "pts")), FromFirst(AxisOf(packets, "dts")))
<1> DEFINE wrapped == Wrapped(packets)
           pts == FromFirst(AxisOf(packets, "pts"))
           dts == FromFirst(AxisOf(packets, "dts"))
           one == AtTimes(wrapped, "pts", pts)
           view == AtTimes(one, "dts", dts)
<1>0. "pts" \in Axes /\ "dts" \in Axes
  BY DEF Axes
<1>1. /\ PrepareAxis(wrapped, "pts", TRUE) = <<Sampled(pts, packets)>>
      /\ PrepareAxis(wrapped, "dts", TRUE) = <<Sampled(dts, packets)>>
  BY <1>0, PreparedIs
<1>2. IsList(packets, n) /\ IsList(wrapped, n)
  BY <1>0, SentAxes DEF HasAxis
<1>3. DOMAIN wrapped = 1..n /\ DOMAIN packets = 1..n
  BY <1>2 DEF IsList
<1>4. \A k \in 1..n : /\ wrapped[k] = [packets[k] EXCEPT !.pts = @ % Modulus, !.dts = @ % Modulus]
                      /\ packets[k] \in Packets
  BY <1>3 DEF Wrapped, AreSent
<1> HIDE DEF pts, dts, wrapped
<1>5. IsList(one, n) /\ DOMAIN one = 1..n
  BY <1>3 DEF AtTimes, IsList
<1>6. UnwrappedView(wrapped) = <<WithAxis(WithAxis(wrapped, "pts", Sampled(pts, packets)), "dts", Sampled(dts, packets))>>
  <2> DEFINE a == Sampled(pts, packets)
             b == Sampled(dts, packets)
  <2>1. UnwrappedView(wrapped) =
          IF <<a>> = <<>> \/ <<b>> = <<>> THEN <<>> ELSE <<WithAxis(WithAxis(wrapped, "pts", <<a>>[1]), "dts", <<b>>[1])>>
    BY <1>1 DEF UnwrappedView
  <2>2. <<a>> # <<>> /\ <<b>> # <<>> /\ <<a>>[1] = a /\ <<b>>[1] = b
    OBVIOUS
  <2> HIDE DEF a, b
  <2>3. UnwrappedView(wrapped) = <<WithAxis(WithAxis(wrapped, "pts", a), "dts", b)>>
    BY <2>1, <2>2
  <2> QED BY <2>3 DEF a, b
<1>7. WithAxis(wrapped, "pts", Sampled(pts, packets)) = one
  BY <1>2, WithAxisIs
<1>8. WithAxis(one, "dts", Sampled(dts, packets)) = view
  <2> HIDE DEF one
  <2> QED BY <1>2, <1>5, WithAxisIs
<1>9. AreAt(view, packets, n, pts, dts)
  <2>1. IsList(view, n)
    <3> HIDE DEF one
    <3> QED BY <1>5 DEF AtTimes, IsList
  <2>2. ASSUME NEW k \in 1..n
        PROVE  view[k] = [pts |-> pts[k], dts |-> dts[k], duration |-> packets[k].duration, pos |-> packets[k].pos]
    <3>1. one[k] = [wrapped[k] EXCEPT !["pts"] = pts[k]]
      BY <1>3 DEF AtTimes
    <3>2. view[k] = [one[k] EXCEPT !["dts"] = dts[k]]
      <4> HIDE DEF one
      <4> QED BY <1>5 DEF AtTimes
    <3> HIDE DEF one, view
    <3>3. wrapped[k] = [pts |-> packets[k].pts % Modulus, dts |-> packets[k].dts % Modulus,
                        duration |-> packets[k].duration, pos |-> packets[k].pos]
      BY <1>4 DEF Packets
    <3>4. one[k] = [pts |-> pts[k], dts |-> packets[k].dts % Modulus,
                    duration |-> packets[k].duration, pos |-> packets[k].pos]
      BY <3>1, <3>3
    <3> QED BY <3>2, <3>4
  <2> HIDE DEF view
  <2>3. ASSUME NEW k \in 1..n
        PROVE  /\ view[k]["pts"] = pts[k] /\ view[k].pts = pts[k]
               /\ view[k]["dts"] = dts[k] /\ view[k].dts = dts[k]
               /\ view[k].duration = packets[k].duration /\ view[k].pos = packets[k].pos
    <3>1. IsPacket(view[k], pts[k], dts[k], packets[k].duration, packets[k].pos)
      BY <2>2 DEF IsPacket
    <3> QED BY <3>1, FieldsOf
  <2>4. ASSUME NEW k \in 1..n
        PROVE  IsPacket(view[k], pts[k], dts[k], packets[k].duration, packets[k].pos)
    BY <2>2 DEF IsPacket
  <2> QED BY <2>1, <2>3, <2>4 DEF AreAt
<1>10. UnwrappedView(wrapped) = <<view>>
  <2> HIDE DEF one, view
  <2> QED BY <1>6, <1>7, <1>8
<1> QED BY <1>9, <1>10 DEF pts, dts, wrapped

\* A stream that begins after the wrap is moved by a turn.
MovedIf(own, late) == IF late /\ own # <<>> THEN Later(own[1]) ELSE own

\* The view moved by an epoch.
LEMMA LaterIs ==
  ASSUME NEW n \in Nat, NEW packets, AreSent(packets, n), NEW view, NEW pts, NEW dts, AreAt(view, packets, n, pts, dts),
         \A k \in 1..n : /\ pts[k] \in Int /\ pts[k] # Missing /\ Fits(pts[k] + Modulus)
                         /\ dts[k] \in Int /\ dts[k] # Missing /\ Fits(dts[k] + Modulus),
         NEW ps, NEW ds, \A k \in 1..n : ps[k] = pts[k] + Modulus /\ ds[k] = dts[k] + Modulus
  PROVE  \E later : Later(view) = <<later>> /\ AreAt(later, packets, n, ps, ds)
<1> DEFINE Shift(t) == IF t = Missing THEN Missing ELSE t + Modulus
           later == [i \in DOMAIN view |-> [view[i] EXCEPT !.pts = Shift(view[i].pts), !.dts = Shift(view[i].dts)]]
<1>1. DOMAIN view = 1..n
  BY DEF AreAt, IsList
<1>2. \A k \in 1..n : Shift(view[k].pts) = pts[k] + Modulus /\ Shift(view[k].dts) = dts[k] + Modulus
  BY DEF AreAt
<1>3. \A k \in DOMAIN view : Fits(Shift(view[k].pts)) /\ Fits(Shift(view[k].dts))
  BY <1>1, <1>2
<1>4. Later(view) = <<later>>
  BY <1>3 DEF Later
<1>5. ASSUME NEW k \in 1..n
      PROVE  IsPacket(later[k], ps[k], ds[k], packets[k].duration, packets[k].pos)
  <2>1. later[k] = [view[k] EXCEPT !.pts = pts[k] + Modulus, !.dts = dts[k] + Modulus]
    BY <1>1, <1>2
  <2>2. IsPacket(view[k], pts[k], dts[k], packets[k].duration, packets[k].pos)
    BY DEF AreAt
  <2>3. later[k] = [view[k] EXCEPT !.pts = ps[k], !.dts = ds[k]]
    BY <2>1
  <2> HIDE DEF later
  <2> QED BY <2>2, <2>3, MovedPacket
<1>6. IsList(later, n)
  BY <1>1 DEF IsList
<1> HIDE DEF later
<1>7. ASSUME NEW k \in 1..n
      PROVE  /\ later[k]["pts"] = ps[k] /\ later[k].pts = ps[k]
             /\ later[k]["dts"] = ds[k] /\ later[k].dts = ds[k]
             /\ later[k].duration = packets[k].duration /\ later[k].pos = packets[k].pos
  BY <1>5, FieldsOf
<1>8. AreAt(later, packets, n, ps, ds)
  BY <1>5, <1>6, <1>7 DEF AreAt
<1> QED BY <1>4, <1>8

\* The view of what was sent is alike to it.
LEMMA AtIsAlike ==
  ASSUME NEW n \in Nat, NEW packets, AreSent(packets, n), NEW view, NEW pts, NEW dts, AreAt(view, packets, n, pts, dts),
         \A k \in 1..n : pts[k] = packets[k].pts /\ dts[k] # Missing
  PROVE  AreAlike(view, packets, n)
<1>1. IsList(view, n) /\ IsList(packets, n) /\ DOMAIN view = 1..n /\ DOMAIN packets = 1..n
  BY DEF AreAt, IsList, AreSent
<1>2. \A k \in 1..n : packets[k] \in Packets
  BY DEF AreSent
<1>3. \A k \in 1..n : packets[k].pts \in Int /\ packets[k].pts # Missing /\ packets[k]["pts"] = packets[k].pts
  BY <1>2, Numbers DEF Packets, Moments
<1>4. \A k \in 1..n : packets[k]["dts"] \in Int /\ packets[k]["dts"] # Missing
  BY <1>2, Numbers DEF Packets, Moments
<1>5. \A axis \in Axes : HasAxis(packets, n, axis)
  BY <1>1, <1>3, <1>4 DEF Axes, HasAxis
<1>6. \A k \in 1..n : /\ view[k]["pts"] = packets[k]["pts"] /\ view[k]["dts"] # Missing
                      /\ view[k].pts = packets[k].pts /\ view[k].pos = packets[k].pos
                      /\ view[k].duration = packets[k].duration
  BY <1>3 DEF AreAt
<1>7. \A axis \in Axes : HasAxis(view, n, axis)
  BY <1>1, <1>3, <1>6 DEF Axes, HasAxis
<1>8. AxisOf(view, "pts") = AxisOf(packets, "pts")
  BY <1>1, <1>6 DEF AxisOf
<1> QED BY <1>3, <1>5, <1>6, <1>7, <1>8 DEF AreAlike

\* A stream is read with its own presentation times, moved where it begins late.
LEMMA ViewIs ==
  ASSUME NEW n \in Nat, NEW packets, AreSent(packets, n), \A axis \in Axes : IsPlain(AxisOf(packets, axis)),
         NEW late \in BOOLEAN, n > 0 => Base(packets[1].pts) = (IF late THEN Modulus ELSE 0)
  PROVE  \E view : MovedIf(UnwrappedView(Wrapped(packets)), late) = <<view>> /\ AreAlike(view, packets, n)
<1> DEFINE pts == FromFirst(AxisOf(packets, "pts"))
           dts == FromFirst(AxisOf(packets, "dts"))
<1>1. PICK view : UnwrappedView(Wrapped(packets)) = <<view>> /\ AreAt(view, packets, n, pts, dts)
  BY UnwrappedIs
<1>2. DOMAIN packets = 1..n /\ \A k \in 1..n : packets[k] \in Packets
  BY DEF AreSent
<1>3. \A k \in 1..n : /\ packets[k].pts \in Moments /\ packets[k].dts \in Moments
                      /\ packets[k]["pts"] = packets[k].pts /\ packets[k]["dts"] = packets[k].dts
  BY <1>2 DEF Packets
<1>4. \A k \in 1..n : /\ pts[k] = packets[k].pts - Base(packets[1].pts)
                      /\ dts[k] = packets[k].dts - Base(packets[1].dts)
  <2>1. DOMAIN AxisOf(packets, "pts") = 1..n /\ DOMAIN AxisOf(packets, "dts") = 1..n
    BY <1>2 DEF AxisOf
  <2>2. \A k \in 1..n : AxisOf(packets, "pts")[k] = packets[k].pts /\ AxisOf(packets, "dts")[k] = packets[k].dts
    BY <1>2, <1>3 DEF AxisOf
  <2> QED BY <2>1, <2>2 DEF FromFirst
<1> HIDE DEF pts, dts
<1>5. ASSUME NEW k \in 1..n
      PROVE  /\ pts[k] \in Int /\ pts[k] = packets[k].pts - (IF late THEN Modulus ELSE 0) /\ pts[k] # Missing
             /\ dts[k] \in Int /\ dts[k] # Missing /\ Fits(pts[k] + Modulus) /\ Fits(dts[k] + Modulus)
             /\ late => dts[k] + Modulus # Missing
  <2>1. 1 \in 1..n /\ n > 0
    BY <1>5
  <2>2. /\ packets[k].pts \in 0..(MaxInt - Modulus) /\ packets[k].dts \in 0..(MaxInt - Modulus)
        /\ packets[1].dts \in 0..(MaxInt - Modulus)
    BY <1>3, <2>1 DEF Moments
  <2> DEFINE b == Base(packets[1].dts)
  <2>3. b \in Nat /\ b <= packets[1].dts
    BY <2>2, EraOf
  <2>4. pts[k] = packets[k].pts - (IF late THEN Modulus ELSE 0) /\ dts[k] = packets[k].dts - b
    BY <1>4, <2>1
  <2> HIDE DEF b
  <2>5. pts[k] \in Int /\ dts[k] \in Int /\ dts[k] >= -MaxInt + Modulus /\ dts[k] <= MaxInt - Modulus
    BY <2>2, <2>3, <2>4, Numbers
  <2>6. pts[k] >= -Modulus /\ pts[k] <= MaxInt - Modulus
    BY <2>2, <2>4, Numbers
  <2> QED BY <2>4, <2>5, <2>6, Numbers DEF Fits
<1>6. CASE late
  <2> DEFINE ps == [k \in 1..n |-> pts[k] + Modulus]
             ds == [k \in 1..n |-> dts[k] + Modulus]
  <2>0. \A k \in 1..n : ps[k] = pts[k] + Modulus /\ ds[k] = dts[k] + Modulus
    OBVIOUS
  <2> HIDE DEF ps, ds
  <2>1. PICK later : Later(view) = <<later>> /\ AreAt(later, packets, n, ps, ds)
    BY <1>1, <1>5, <2>0, LaterIs
  <2>2. \A k \in 1..n : ps[k] = packets[k].pts /\ ds[k] # Missing
    <3> TAKE k \in 1..n
    <3>1. packets[k].pts \in Int
      BY <1>3 DEF Moments
    <3> QED BY <1>5, <1>6, <2>0, <3>1, Numbers
  <2>3. AreAlike(later, packets, n)
    BY <2>1, <2>2, AtIsAlike
  <2>4. MovedIf(UnwrappedView(Wrapped(packets)), late) = <<later>>
    <3>1. <<view>> # <<>> /\ <<view>>[1] = view
      OBVIOUS
    <3> QED BY <1>1, <1>6, <2>1, <3>1 DEF MovedIf
  <2> QED BY <2>3, <2>4
<1>7. CASE ~late
  <2>1. \A k \in 1..n : pts[k] = packets[k].pts /\ dts[k] # Missing
    <3> TAKE k \in 1..n
    <3>1. packets[k].pts \in Int
      BY <1>3 DEF Moments
    <3> QED BY <1>5, <1>7, <3>1, Numbers
  <2>2. AreAlike(view, packets, n)
    BY <1>1, <2>1, AtIsAlike
  <2>3. MovedIf(UnwrappedView(Wrapped(packets)), late) = <<view>>
    BY <1>1, <1>7 DEF MovedIf
  <2> QED BY <2>2, <2>3
<1> QED BY <1>6, <1>7

-------------------------------------------------------------------------------
(* Files that differ in their decoding times only have the same reports.   *)

AreAlikeStreams(a, b) ==
  /\ a.type = b.type /\ a.tb = b.tb /\ a.declared = b.declared /\ a.sample_rate = b.sample_rate
  /\ a.skip_samples = b.skip_samples /\ a.initial_padding = b.initial_padding /\ a.discard_padding = b.discard_padding
AreAlikeViews(a, b) ==
  /\ a # <<>> /\ b # <<>>
  /\ \E n \in Nat : AreAlike(a[1], b[1], n)
AreAlikeFiles(f, g, va, vb) ==
  /\ f.partial = FALSE /\ g.partial = FALSE /\ f.duration = g.duration
  /\ DOMAIN f.streams = Media /\ DOMAIN g.streams = Media /\ DOMAIN va = Media /\ DOMAIN vb = Media
  /\ \A i \in Media : AreAlikeStreams(f.streams[i], g.streams[i]) /\ AreAlikeViews(va[i], vb[i])

\* Alike files have the same streams in every scope.
LEMMA AlikeScopes ==
  ASSUME NEW f, NEW g, NEW va, NEW vb, AreAlikeFiles(f, g, va, vb)
  PROVE  /\ Scoped(f) = Scoped(g) /\ Timed(f) = Timed(g) /\ \A type : Of(f, type) = Of(g, type)
         /\ Scoped(f) \subseteq Media /\ Timed(f) \subseteq Media /\ \A type : Of(f, type) \subseteq Media
<1>1. Scoped(f) = Scoped(g) /\ Scoped(f) \subseteq Media
  BY DEF Scoped, AreAlikeFiles, AreAlikeStreams
<1>2. Timed(f) = Timed(g) /\ Timed(f) \subseteq Media
  BY <1>1 DEF Timed, AreAlikeFiles, AreAlikeStreams
<1>3. \A type : Of(f, type) = Of(g, type) /\ Of(f, type) \subseteq Media
  BY DEF Of, AreAlikeFiles, AreAlikeStreams
<1> QED BY <1>1, <1>2, <1>3

\* What alike views agree on.
LEMMA AlikeViewsSay ==
  ASSUME NEW a, NEW b, AreAlikeViews(a, b)
  PROVE  /\ a # <<>> /\ b # <<>> /\ FirstPresented(a[1]) = FirstPresented(b[1]) /\ PtsSpan(a[1]) = PtsSpan(b[1])
         /\ \A tb : /\ DeriveCadence(a[1], tb) = DeriveCadence(b[1], tb)
                    /\ Reconstructed(a[1], tb) = Reconstructed(b[1], tb)
<1>1. PICK n \in Nat : AreAlike(a[1], b[1], n)
  BY DEF AreAlikeViews
<1>2. FirstPresented(a[1]) = FirstPresented(b[1]) /\ PtsSpan(a[1]) = PtsSpan(b[1])
  BY <1>1, AlikeFirst, AlikeSpan
<1>3. \A tb : /\ DeriveCadence(a[1], tb) = DeriveCadence(b[1], tb)
              /\ Reconstructed(a[1], tb) = Reconstructed(b[1], tb)
  BY <1>1, AlikeCadence, AlikeReconstructed
<1> QED BY <1>2, <1>3 DEF AreAlikeViews

\* Alike files start alike (start_duration.cpp).
LEMMA AlikeStarts ==
  ASSUME NEW f, NEW g, NEW va, NEW vb, AreAlikeFiles(f, g, va, vb)
  PROVE  Starts(f, va) = Starts(g, vb)
<1> DEFINE fa == [i \in DOMAIN f.streams |-> IF va[i] = <<>> THEN <<>> ELSE FirstPresented(va[i][1])]
           fb == [i \in DOMAIN g.streams |-> IF vb[i] = <<>> THEN <<>> ELSE FirstPresented(vb[i][1])]
           ca == Kept([i \in DOMAIN f.streams |-> [first |-> fa[i][1], tb |-> f.streams[i].tb]],
                      {i \in Scoped(f) : fa[i] # <<>>})
           cb == Kept([i \in DOMAIN g.streams |-> [first |-> fb[i][1], tb |-> g.streams[i].tb]],
                      {i \in Scoped(g) : fb[i] # <<>>})
           Origin(candidates) == IF candidates = <<>> THEN <<>> ELSE GlobalOrigin(candidates)
           OriginMs(origin) == IF origin = <<>> THEN <<>> ELSE TicksToMs(origin[1].first, origin[1].tb)
<1>1. Starts(f, va) = StartsFrom(f, va, fa, OriginMs(Origin(ca)))
  BY DEF Starts
<1>2. Starts(g, vb) = StartsFrom(g, vb, fb, OriginMs(Origin(cb)))
  BY DEF Starts
<1>3. Scoped(f) = Scoped(g) /\ Scoped(f) \subseteq Media
  BY AlikeScopes
<1>4. \A i \in Media : va[i] # <<>> /\ vb[i] # <<>> /\ FirstPresented(va[i][1]) = FirstPresented(vb[i][1])
  BY AlikeViewsSay DEF AreAlikeFiles
<1>5. DOMAIN f.streams = Media /\ DOMAIN g.streams = Media
  BY DEF AreAlikeFiles
<1>6. fa = fb
  BY <1>4, <1>5
<1>7. \A i \in Media : f.streams[i].tb = g.streams[i].tb
  BY DEF AreAlikeFiles, AreAlikeStreams
<1> DEFINE first == fa
<1>8. ca = cb
  <2> DEFINE sa == [i \in DOMAIN f.streams |-> [first |-> fa[i][1], tb |-> f.streams[i].tb]]
             sb == [i \in DOMAIN g.streams |-> [first |-> fb[i][1], tb |-> g.streams[i].tb]]
             pa == {i \in Scoped(f) : fa[i] # <<>>}
             pb == {i \in Scoped(g) : fb[i] # <<>>}
  <2> HIDE DEF fa, fb
  <2>1. sa = sb
    BY <1>5, <1>6, <1>7
  <2>2. pa = pb
    BY <1>3, <1>6
  <2>3. ca = Kept(sa, pa) /\ cb = Kept(sb, pb)
    OBVIOUS
  <2> HIDE DEF sa, sb, pa, pb, ca, cb
  <2> QED BY <2>1, <2>2, <2>3
<1> HIDE DEF fa, fb, ca, cb, first
<1>9. ASSUME NEW ms PROVE StartsFrom(f, va, fa, ms) = StartsFrom(g, vb, fa, ms)
  <2> DEFINE Why == "no_timing_data"
             Relative(own) == IF own # <<>> /\ Fits(own[1] - ms[1]) THEN Reports(own[1] - ms[1])
                              ELSE Skips("insufficient_data")
             Out(S, Tb(_)) ==
               CASE \A i \in S : fa[i] = <<>> ->
                      [origin |-> Skips("no_timing_data"), streams |-> [i \in S |-> Skips("no_timing_data")]]
                 [] OTHER ->
                      IF ms = <<>>
                      THEN [origin |-> Skips("insufficient_data"),
                            streams |-> [i \in S |-> Skips(IF fa[i] # <<>> THEN "insufficient_data" ELSE "no_timing_data")]]
                      ELSE [origin |-> Reports(ms[1]),
                            streams |-> [i \in S |-> IF fa[i] = <<>> THEN Skips("no_timing_data")
                                                     ELSE Relative(TicksToMs(fa[i][1], Tb(i)))]]
             Tf(i) == f.streams[i].tb
             Tg(i) == g.streams[i].tb
  <2>1. StartsFrom(f, va, fa, ms) = Out(Scoped(f), Tf)
    BY <1>3, <1>4 DEF StartsFrom
  <2>2. StartsFrom(g, vb, fa, ms) = Out(Scoped(g), Tg)
    BY <1>3, <1>4 DEF StartsFrom
  <2>3. \A i \in Scoped(f) : Tf(i) = Tg(i)
    BY <1>3, <1>7
  <2> HIDE DEF Relative, Tf, Tg
  <2>4. Out(Scoped(f), Tf) = Out(Scoped(f), Tg)
    BY <2>3
  <2> HIDE DEF Out
  <2> QED BY <1>3, <2>1, <2>2, <2>4
<1> HIDE DEF Origin, OriginMs
<1> QED BY <1>1, <1>2, <1>6, <1>8, <1>9

\* Alike streams last alike (start_duration.cpp).
LEMMA AlikeDurations ==
  ASSUME NEW f, NEW g, f.duration = g.duration, NEW a, NEW b, AreAlikeStreams(a, b),
         NEW va, NEW vb, AreAlikeViews(va, vb)
  PROVE  Duration(f, a, va) = Duration(g, b, vb)
<1> DEFINE first == FirstPresented(va[1])
           durations == Reconstructed(va[1], a.tb)
<1>1. /\ va # <<>> /\ vb # <<>> /\ FirstPresented(vb[1]) = first
      /\ Reconstructed(vb[1], b.tb) = durations
  BY AlikeViewsSay DEF AreAlikeStreams
<1>2. ASSUME NEW d, NEW t PROVE DurationOver(f, a, d, t) = DurationOver(g, b, d, t)
  <2>1. a.tb = b.tb /\ a.declared = b.declared
    BY DEF AreAlikeStreams
  <2> QED BY <2>1 DEF DurationOver
<1> DEFINE Over(D(_, _)) ==
             IF first = <<>> THEN NoDuration("no_timing_data")
             ELSE IF durations = <<>> THEN NoDuration("insufficient_data")
             ELSE D(durations[1], first[1])
           Da(d, t) == DurationOver(f, a, d, t)
           Db(d, t) == DurationOver(g, b, d, t)
<1>3. Duration(f, a, va) = Over(Da)
  BY <1>1 DEF Duration
<1>4. Duration(g, b, vb) = Over(Db)
  BY <1>1 DEF Duration
<1>5. Da(durations[1], first[1]) = Db(durations[1], first[1])
  BY <1>2
<1> HIDE DEF first, durations, Da, Db
<1>6. Over(Da) = Over(Db)
  BY <1>5
<1> QED BY <1>3, <1>4, <1>6

\* Alike files get the same starts and durations.
LEMMA AlikeStartDuration ==
  ASSUME NEW f, NEW g, AreAlikeFiles(f, g, PacketViews(f.streams, f.is_ts), PacketViews(g.streams, g.is_ts))
  PROVE  StartDuration(f) = StartDuration(g)
<1> DEFINE va == PacketViews(f.streams, f.is_ts)
           vb == PacketViews(g.streams, g.is_ts)
           da == [i \in Scoped(f) |-> Duration(f, f.streams[i], va[i])]
           db == [i \in Scoped(g) |-> Duration(g, g.streams[i], vb[i])]
<1>1. f.partial = FALSE /\ g.partial = FALSE
  BY DEF AreAlikeFiles
<1>2. StartDuration(f) = [starts |-> Starts(f, va), durations |-> da]
  BY <1>1 DEF StartDuration
<1>3. StartDuration(g) = [starts |-> Starts(g, vb), durations |-> db]
  BY <1>1 DEF StartDuration
<1> HIDE DEF va, vb
<1>4. AreAlikeFiles(f, g, va, vb)
  BY DEF va, vb
<1>5. Scoped(f) = Scoped(g) /\ Scoped(f) \subseteq Media
  BY <1>4, AlikeScopes
<1>6. \A i \in Media : AreAlikeStreams(f.streams[i], g.streams[i]) /\ AreAlikeViews(va[i], vb[i])
  BY <1>4 DEF AreAlikeFiles
<1>7. f.duration = g.duration
  BY <1>4 DEF AreAlikeFiles
<1>8. \A i \in Media : Duration(f, f.streams[i], va[i]) = Duration(g, g.streams[i], vb[i])
  BY <1>6, <1>7, AlikeDurations
<1>9. da = db
  BY <1>5, <1>8
<1>10. Starts(f, va) = Starts(g, vb)
  BY <1>4, AlikeStarts
<1> HIDE DEF da, db
<1> QED BY <1>2, <1>3, <1>9, <1>10

\* Alike files get the same jitter and profile.
LEMMA AlikeJitterVfr ==
  ASSUME NEW f, NEW g, AreAlikeFiles(f, g, PacketViews(f.streams, f.is_ts), PacketViews(g.streams, g.is_ts))
  PROVE  JitterVfr(f) = JitterVfr(g)
<1> DEFINE va == PacketViews(f.streams, f.is_ts)
           vb == PacketViews(g.streams, g.is_ts)
           Neither(reason) == [jitter |-> Skips(reason), profile |-> Skips(reason)]
           OfCadence(cadence) ==
             IF cadence.status # "ok" THEN Neither(cadence.status)
             ELSE [jitter |-> IF cadence.cfr THEN Jitter(cadence) ELSE Skips("vfr"), profile |-> Profile(cadence)]
           OfView(view, tb) == IF view = <<>> THEN Neither("insufficient_data") ELSE OfCadence(DeriveCadence(view[1], tb))
           ja == [i \in Timed(f) |-> OfView(va[i], f.streams[i].tb)]
           jb == [i \in Timed(g) |-> OfView(vb[i], g.streams[i].tb)]
<1>1. f.partial = FALSE /\ g.partial = FALSE
  BY DEF AreAlikeFiles
<1>2. JitterVfr(f) = ja
  BY <1>1 DEF JitterVfr
<1>3. JitterVfr(g) = jb
  BY <1>1 DEF JitterVfr
<1> HIDE DEF va, vb, OfCadence, Neither
<1>4. AreAlikeFiles(f, g, va, vb)
  BY DEF va, vb
<1>5. Timed(f) = Timed(g) /\ Timed(f) \subseteq Media
  BY <1>4, AlikeScopes
<1>6. \A i \in Media : /\ va[i] # <<>> /\ vb[i] # <<>> /\ f.streams[i].tb = g.streams[i].tb
                       /\ DeriveCadence(va[i][1], f.streams[i].tb) = DeriveCadence(vb[i][1], g.streams[i].tb)
  <2> TAKE i \in Media
  <2>1. AreAlikeViews(va[i], vb[i]) /\ f.streams[i].tb = g.streams[i].tb
    BY <1>4 DEF AreAlikeFiles, AreAlikeStreams
  <2>2. va[i] # <<>> /\ vb[i] # <<>> /\ \A tb : DeriveCadence(va[i][1], tb) = DeriveCadence(vb[i][1], tb)
    BY <2>1, AlikeViewsSay
  <2> QED BY <2>1, <2>2
<1>7. \A i \in Media : OfView(va[i], f.streams[i].tb) = OfView(vb[i], g.streams[i].tb)
  BY <1>6
<1> HIDE DEF OfView
<1>8. ja = jb
  BY <1>5, <1>7
<1> QED BY <1>2, <1>3, <1>8

\* Alike streams drift alike between two checkpoints (av_sync.cpp).
LEMMA AlikeDriftBetween ==
  ASSUME NEW va, NEW vb, va.tb = vb.tb, NEW a, NEW b, a.tb = b.tb, NEW covered, NEW videoBasis,
         NEW heard, NEW audioBasis, NEW adjusted, NEW priming
  PROVE  DriftBetween(va, covered, videoBasis, a, heard, audioBasis, adjusted, priming)
           = DriftBetween(vb, covered, videoBasis, b, heard, audioBasis, adjusted, priming)
<1> DEFINE trimmed == audioBasis.trimmed
           Seen(tb) == [start |-> covered.pts[1], span |-> SpanOf(videoBasis, trimmed), covered |-> covered, tb |-> tb]
           Played(tb) == [start |-> IF trimmed THEN adjusted ELSE heard.pts[1],
                          shift |-> IF trimmed THEN priming[1] ELSE 0,
                          span |-> SpanOf(audioBasis, trimmed), covered |-> heard, tb |-> tb]
           Says(points, fit) ==
             IF fit = <<>> THEN Skips("insufficient_data")
             ELSE Reports([fit |-> fit[1], basis |-> IF trimmed THEN "adjusted" ELSE "raw",
                           magnitude |-> IF trimmed THEN Rescaled(fit[1].rate) ELSE <<>>,
                           points |-> points])
           Fitted(points) == Says(points, FitDrift(points))
           Through(points) == IF \E n \in DOMAIN points : points[n] = <<>> THEN Skips("insufficient_data")
                              ELSE Fitted([n \in DOMAIN points |-> points[n][1]])
           Along(picture, sound) == Through([n \in 1 .. Checkpoints |-> Checkpoint(n - 1, picture, sound)])
           Bare(basis) == basis.raw = <<>> /\ basis.declared = <<>>
           Between(picture, sound) ==
             IF Bare(videoBasis) \/ Bare(audioBasis) THEN Skips("insufficient_data") ELSE Along(picture, sound)
<1>1. DriftBetween(va, covered, videoBasis, a, heard, audioBasis, adjusted, priming) = Between(Seen(va.tb), Played(a.tb))
  BY DEF DriftBetween
<1>2. DriftBetween(vb, covered, videoBasis, b, heard, audioBasis, adjusted, priming) = Between(Seen(vb.tb), Played(b.tb))
  BY DEF DriftBetween
<1>3. Seen(va.tb) = Seen(vb.tb) /\ Played(a.tb) = Played(b.tb)
  OBVIOUS
<1> HIDE DEF Seen, Played, Between
<1> QED BY <1>1, <1>2, <1>3

\* Alike streams drift alike.
LEMMA AlikeDrift ==
  ASSUME NEW va, NEW vb, AreAlikeStreams(va, vb), NEW a, NEW b, AreAlikeStreams(a, b), NEW covered,
         NEW wa, NEW wb, PtsSpan(wa) = PtsSpan(wb), NEW adjusted, NEW priming, NEW padding
  PROVE  Drift(va, covered, a, wa, adjusted, priming, padding) = Drift(vb, covered, b, wb, adjusted, priming, padding)
<1>0. va.tb = vb.tb /\ a.tb = b.tb /\ va.declared = vb.declared /\ a.declared = b.declared
  BY DEF AreAlikeStreams
<1> DEFINE heard == PtsSpan(wa)
           seenBasis == SpanBasis(va.declared, covered, <<>>, <<>>)
           heardBasis == SpanBasis(a.declared, heard, priming, padding)
<1>1. Drift(va, covered, a, wa, adjusted, priming, padding)
        = DriftBetween(va, covered, seenBasis, a, heard, heardBasis, adjusted, priming)
  BY DEF Drift
<1>2. Drift(vb, covered, b, wb, adjusted, priming, padding)
        = DriftBetween(vb, covered, seenBasis, b, heard, heardBasis, adjusted, priming)
  BY <1>0 DEF Drift
<1> HIDE DEF heard, seenBasis, heardBasis
<1> QED BY <1>0, <1>1, <1>2, AlikeDriftBetween

\* Alike sound from a first presentation is reported alike.
LEMMA AlikeAudioFrom ==
  ASSUME NEW first, NEW va, NEW vb, AreAlikeStreams(va, vb), NEW ya, NEW yb, PtsSpan(ya) = PtsSpan(yb), NEW videoMs,
         NEW a, NEW b, AreAlikeStreams(a, b), NEW wa, NEW wb, PtsSpan(wa) = PtsSpan(wb), NEW priming
  PROVE  OfAudioFrom(first, va, ya, videoMs, a, wa, priming) = OfAudioFrom(first, vb, yb, videoMs, b, wb, priming)
<1>0. a.tb = b.tb /\ a.discard_padding = b.discard_padding /\ a.sample_rate = b.sample_rate
  BY DEF AreAlikeStreams
<1> DEFINE padding == SamplesToTicks(a.discard_padding, a.sample_rate, a.tb)
           covered == PtsSpan(ya)
           adjusted == first + (IF priming = <<>> THEN 0 ELSE priming[1])
           rawMs == TicksToMs(first, a.tb)
           adjustedMs == TicksToMs(adjusted, a.tb)
           exact == /\ Fits(adjusted) /\ rawMs # <<>> /\ adjustedMs # <<>>
                    /\ Fits(rawMs[1] - videoMs[1]) /\ Fits(adjustedMs[1] - videoMs[1])
           Says(drift) ==
             IF ~exact THEN OnlyOffset("insufficient_data")
             ELSE [offset |-> Reports([raw |-> rawMs[1] - videoMs[1], adjusted |-> adjustedMs[1] - videoMs[1],
                                       basis |-> IF priming = <<>> THEN "raw" ELSE "adjusted"]),
                   drift |-> <<drift>>]
<1>1. OfAudioFrom(first, va, ya, videoMs, a, wa, priming) = Says(Drift(va, covered, a, wa, adjusted, priming, padding))
  BY DEF OfAudioFrom
<1>2. OfAudioFrom(first, vb, yb, videoMs, b, wb, priming) = Says(Drift(vb, covered, b, wb, adjusted, priming, padding))
  BY <1>0 DEF OfAudioFrom
<1>3. Drift(va, covered, a, wa, adjusted, priming, padding) = Drift(vb, covered, b, wb, adjusted, priming, padding)
  <2> HIDE DEF covered, adjusted, padding
  <2> QED BY AlikeDrift
<1> HIDE DEF Says, covered, adjusted, padding
<1> QED BY <1>1, <1>2, <1>3

\* Alike sound is reported alike.
LEMMA AlikeAudio ==
  ASSUME NEW va, NEW vb, AreAlikeStreams(va, vb), NEW ya, NEW yb, AreAlikeViews(ya, yb),
         NEW a, NEW b, AreAlikeStreams(a, b), NEW wa, NEW wb, AreAlikeViews(wa, wb)
  PROVE  OfAudio(va, ya[1], a, wa) = OfAudio(vb, yb[1], b, wb)
<1>0. /\ a.tb = b.tb /\ a.sample_rate = b.sample_rate /\ va.tb = vb.tb
      /\ PrimingSamples(a) = PrimingSamples(b)
  BY DEF AreAlikeStreams, PrimingSamples
<1>1. /\ wa # <<>> /\ wb # <<>> /\ FirstPresented(wa[1]) = FirstPresented(wb[1])
      /\ PtsSpan(wa[1]) = PtsSpan(wb[1])
      /\ FirstPresented(ya[1]) = FirstPresented(yb[1]) /\ PtsSpan(ya[1]) = PtsSpan(yb[1])
  BY AlikeViewsSay
<1> DEFINE priming == SamplesToTicks(PrimingSamples(a), a.sample_rate, a.tb)
           first == FirstPresented(wa[1])
           videoMs == TicksToMs(FirstPresented(ya[1])[1], va.tb)
           From(drift) == IF first = <<>> THEN OnlyOffset("insufficient_data") ELSE drift
<1>2. OfAudio(va, ya[1], a, wa) = From(OfAudioFrom(first[1], va, ya[1], videoMs, a, wa[1], priming))
  BY <1>1 DEF OfAudio
<1>3. OfAudio(vb, yb[1], b, wb) = From(OfAudioFrom(first[1], vb, yb[1], videoMs, b, wb[1], priming))
  BY <1>0, <1>1 DEF OfAudio
<1> HIDE DEF priming, first, videoMs, From
<1>4. OfAudioFrom(first[1], va, ya[1], videoMs, a, wa[1], priming) = OfAudioFrom(first[1], vb, yb[1], videoMs, b, wb[1], priming)
  BY <1>1, AlikeAudioFrom
<1> QED BY <1>2, <1>3, <1>4

\* Alike files get the same synchronisation.
LEMMA AlikeAvSync ==
  ASSUME NEW f, NEW g, AreAlikeFiles(f, g, PacketViews(f.streams, f.is_ts), PacketViews(g.streams, g.is_ts))
  PROVE  AvSyncReports(f) = AvSyncReports(g)
<1> DEFINE va == PacketViews(f.streams, f.is_ts)
           vb == PacketViews(g.streams, g.is_ts)
           audio == Of(f, "audio")
           video == PrimaryVideo(f)
           Each(report) == [i \in audio |-> report]
           Untimed(first, tb) == IF first = <<>> THEN TRUE ELSE TicksToMs(first[1], tb) = <<>>
           Beside(h, views, v) ==
             IF views[v] = <<>> THEN Each(AllSkip("insufficient_data"))
             ELSE IF Untimed(FirstPresented(views[v][1]), h.streams[v].tb)
             THEN Each(OnlyOffset("insufficient_data"))
             ELSE [i \in audio |-> OfAudio(h.streams[v], views[v][1], h.streams[i], views[i])]
           Says(beside) ==
             CASE audio = {} -> OfTheFile(OnlyOffset("insufficient_data"))
               [] audio # {} /\ Of(f, "video") = {} -> Each(OnlyOffset("insufficient_data"))
               [] OTHER -> beside
<1>1. f.partial = FALSE /\ g.partial = FALSE
  BY DEF AreAlikeFiles
<1>2. \A type : Of(f, type) = Of(g, type) /\ Of(f, type) \subseteq Media
  BY AlikeScopes
<1>3. PrimaryVideo(g) = video
  BY <1>2 DEF PrimaryVideo
<1>4. AvSyncReports(f) = Says(Beside(f, va, video))
  BY <1>1 DEF AvSyncReports
<1>5. AvSyncReports(g) = Says(Beside(g, vb, video))
  BY <1>1, <1>2, <1>3 DEF AvSyncReports
<1>6. ASSUME Of(f, "video") # {} PROVE video \in Media
  <2>1. Of(f, "video") \in SUBSET {1, 2}
    BY <1>2 DEF Media
  <2>2. Of(f, "video") \in {{1}, {2}, {1, 2}}
    BY <1>6, <2>1
  <2>3. video = Min(Of(f, "video"))
    BY DEF PrimaryVideo
  <2>4. Min({1}) = 1 /\ Min({2}) = 2 /\ Min({1, 2}) = 1
    BY MaxMinOf
  <2> HIDE DEF video
  <2> QED BY <2>2, <2>3, <2>4 DEF Media
<1> HIDE DEF va, vb, video
<1>7. AreAlikeFiles(f, g, va, vb)
  BY DEF va, vb
<1>8. ASSUME video \in Media PROVE Beside(f, va, video) = Beside(g, vb, video)
  <2>1. /\ AreAlikeStreams(f.streams[video], g.streams[video]) /\ AreAlikeViews(va[video], vb[video])
        /\ \A i \in audio : AreAlikeStreams(f.streams[i], g.streams[i]) /\ AreAlikeViews(va[i], vb[i])
    BY <1>2, <1>7, <1>8 DEF AreAlikeFiles
  <2>2. /\ va[video] # <<>> /\ vb[video] # <<>> /\ f.streams[video].tb = g.streams[video].tb
        /\ FirstPresented(va[video][1]) = FirstPresented(vb[video][1])
    BY <2>1, AlikeViewsSay DEF AreAlikeStreams
  <2>3. \A i \in audio : OfAudio(f.streams[video], va[video][1], f.streams[i], va[i])
                           = OfAudio(g.streams[video], vb[video][1], g.streams[i], vb[i])
    BY <2>1, AlikeAudio
  <2> HIDE DEF audio, Untimed
  <2> QED BY <2>2, <2>3
<1> HIDE DEF Beside, Each, audio
<1>9. Says(Beside(f, va, video)) = Says(Beside(g, vb, video))
  BY <1>6, <1>8
<1> HIDE DEF Says
<1> QED BY <1>4, <1>5, <1>9

-------------------------------------------------------------------------------
(* The file that is carried and the same content whole.                    *)

Sent(i) == sent[i].packets
AllPlain == \A i \in Media : IsPlain(Pts(i)) /\ IsPlain(Dts(i))

\* What the type invariant says of a stream's packets.
LEMMA WhatIsSent ==
  ASSUME TimelineTypeOK, NEW i \in Media
  PROVE  /\ Len(Sent(i)) \in Nat /\ AreSent(Sent(i), Len(Sent(i)))
         /\ Heard(i) <=> Len(Sent(i)) > 0
         /\ Pts(i) = AxisOf(Sent(i), "pts") /\ Dts(i) = AxisOf(Sent(i), "dts")
<1>1. Sent(i) \in Seq(Packets)
  BY DEF TimelineTypeOK, Sent, Packets
<1>2. Len(Sent(i)) \in Nat /\ Sent(i) \in [1..Len(Sent(i)) -> Packets]
  BY <1>1
<1>3. Heard(i) <=> Len(Sent(i)) > 0
  BY <1>1 DEF Heard, Sent
<1>4. Pts(i) = AxisOf(Sent(i), "pts") /\ Dts(i) = AxisOf(Sent(i), "dts")
  BY <1>2 DEF Pts, Dts, Sent, AxisOf, Packets
<1> QED BY <1>2, <1>3, <1>4 DEF AreSent

\* Files of this system, with the packets given.
IsStreamWith(s, own, kind) ==
  s.packets = own /\ s.dts_source = "demuxer" /\ s.flags_truncated = FALSE /\ s.tb = kind.tb

\* The file's streams have the packets given.
LEMMA FileIs ==
  ASSUME NEW is_ts, NEW packets
  PROVE  /\ DOMAIN FileOf(is_ts, packets).streams = Media
         /\ FileOf(is_ts, packets).is_ts = is_ts /\ FileOf(is_ts, packets).partial = FALSE
         /\ FileOf(is_ts, packets).ts_complete = TRUE /\ FileOf(is_ts, packets).duration = <<>>
         /\ \A i \in Media : IsStreamWith(FileOf(is_ts, packets).streams[i], packets[i], shape.streams[i])
<1> DEFINE streams == <<StreamOf("video", shape.streams[1], sent[1], packets[1]),
                        StreamOf("audio", shape.streams[2], sent[2], packets[2])>>
<1>1. FileOf(is_ts, packets) = [is_ts |-> is_ts, partial |-> FALSE, ts_complete |-> TRUE, duration |-> <<>>, streams |-> streams]
  BY DEF FileOf
<1>2. ASSUME NEW type, NEW kind, NEW stream, NEW own
      PROVE  IsStreamWith(StreamOf(type, kind, stream, own), own, kind)
  BY DEF StreamOf, IsStreamWith
<1>3. /\ DOMAIN streams = Media
      /\ streams[1] = StreamOf("video", shape.streams[1], sent[1], packets[1])
      /\ streams[2] = StreamOf("audio", shape.streams[2], sent[2], packets[2])
  BY DEF Media
<1> HIDE DEF streams
<1>4. \A i \in Media : IsStreamWith(streams[i], packets[i], shape.streams[i])
  <2> TAKE i \in Media
  <2>1. CASE i = 1
    <3>1. streams[i] = StreamOf("video", shape.streams[i], sent[i], packets[i])
      BY <1>3, <2>1
    <3> QED BY <1>2, <3>1
  <2>2. CASE i = 2
    <3>1. streams[i] = StreamOf("audio", shape.streams[i], sent[i], packets[i])
      BY <1>3, <2>2
    <3> QED BY <1>2, <3>1
  <2> QED BY <2>1, <2>2 DEF Media
<1> QED BY <1>1, <1>3, <1>4

\* Two files made of one content differ in nothing but their packets.
LEMMA FilesDifferInPackets ==
  ASSUME NEW is_ts, NEW packets, NEW ists, NEW others, NEW i \in Media
  PROVE  AreAlikeStreams(FileOf(is_ts, packets).streams[i], FileOf(ists, others).streams[i])
<1>1. ASSUME NEW type, NEW kind, NEW stream, NEW own, NEW other
      PROVE  AreAlikeStreams(StreamOf(type, kind, stream, own), StreamOf(type, kind, stream, other))
  BY DEF StreamOf, AreAlikeStreams
<1>2. ASSUME NEW ts, NEW ps
      PROVE  /\ FileOf(ts, ps).streams[1] = StreamOf("video", shape.streams[1], sent[1], ps[1])
             /\ FileOf(ts, ps).streams[2] = StreamOf("audio", shape.streams[2], sent[2], ps[2])
  BY DEF FileOf
<1> QED BY <1>1, <1>2 DEF Media

\* The first raw time of a wrapped stream.
LEMMA FirstOfWrapped ==
  ASSUME NEW n \in Nat, NEW packets, AreSent(packets, n)
  PROVE  FirstRawPts(Wrapped(packets)) = IF n = 0 THEN Missing ELSE packets[1].pts % Modulus
<1> DEFINE raws == Turned(AxisOf(packets, "pts"))
           wrapped == Wrapped(packets)
<1>0. "pts" \in Axes
  BY DEF Axes
<1>1. HasAxis(wrapped, n, "pts") /\ AxisOf(wrapped, "pts") = raws /\ AreTimes(AxisOf(packets, "pts"), n)
  BY <1>0, SentAxes
<1> HIDE DEF wrapped
<1>2. Samples(wrapped, "pts") = Sampled(raws, wrapped)
  BY <1>1, SamplesOfAll
<1>3. DOMAIN Sampled(raws, wrapped) = 1..n /\ \A k \in 1..n : Sampled(raws, wrapped)[k].value = raws[k]
  BY <1>1 DEF HasAxis, IsList, Sampled
<1>4. DOMAIN packets = 1..n /\ \A k \in 1..n : raws[k] = packets[k].pts % Modulus
  BY DEF AreSent, Packets, AxisOf, Turned
<1>5. FirstRawPts(wrapped) = IF Sampled(raws, wrapped) = <<>> THEN Missing ELSE Sampled(raws, wrapped)[1].value
  BY <1>2 DEF FirstRawPts
<1> DEFINE samples == Sampled(raws, wrapped)
<1>6. samples = <<>> <=> n = 0
  BY <1>3 DEF Sampled
<1> HIDE DEF samples
<1> QED BY <1>3, <1>4, <1>5, <1>6 DEF wrapped, samples

\* The wrapped file and the whole one.
LEMMA CarriedIs ==
  ASSUME shape.is_ts
  PROVE  /\ Carried.is_ts = TRUE /\ DOMAIN Carried.streams = Media
         /\ \A i \in Media : Carried.streams[i].packets = Wrapped(Sent(i))
         /\ Whole.is_ts = FALSE /\ DOMAIN Whole.streams = Media
         /\ \A i \in Media : Whole.streams[i].packets = Sent(i)
<1> DEFINE packets == [i \in Media |-> IF shape.is_ts THEN Wrapped(sent[i].packets) ELSE sent[i].packets]
           all == [i \in Media |-> sent[i].packets]
<1>1. \A i \in Media : packets[i] = Wrapped(Sent(i)) /\ all[i] = Sent(i)
  BY DEF Sent
<1>2. Carried = FileOf(shape.is_ts, packets) /\ Whole = FileOf(FALSE, all)
  BY DEF Carried, Whole
<1> HIDE DEF packets, all
<1>3. Carried.is_ts = shape.is_ts /\ Whole.is_ts = FALSE
  BY <1>2, FileIs
<1>4. DOMAIN Carried.streams = Media /\ DOMAIN Whole.streams = Media
  BY <1>2, FileIs
<1>5. \A i \in Media : Carried.streams[i].packets = packets[i] /\ Whole.streams[i].packets = all[i]
  <2>1. \A i \in Media : /\ IsStreamWith(FileOf(shape.is_ts, packets).streams[i], packets[i], shape.streams[i])
                         /\ IsStreamWith(FileOf(FALSE, all).streams[i], all[i], shape.streams[i])
    BY FileIs
  <2> QED BY <1>2, <2>1 DEF IsStreamWith
<1>6. shape.is_ts = TRUE
  BY <1>3, FileIs DEF Carried
<1> QED BY <1>1, <1>3, <1>4, <1>5, <1>6

\* A stream is late as a whole exactly when it begins after the wrap.
LEMMA LateAfterTheWrap ==
  ASSUME TimelineTypeOK, shape.is_ts, BeginTogether, NEW i \in Media, Heard(i)
  PROVE  Base(Sent(i)[1].pts) = IF i \in EpochApart(Carried.streams) THEN Modulus ELSE 0
<1> DEFINE firsts == {Pts(k)[1] : k \in {j \in Media : Heard(j)}}
           streams == Carried.streams
<1>1. \A j \in Media : /\ Heard(j) => /\ FirstRawPts(streams[j].packets) = Sent(j)[1].pts % Modulus
                                      /\ Sent(j)[1].pts \in Nat /\ Pts(j)[1] = Sent(j)[1].pts
                       /\ ~Heard(j) => FirstRawPts(streams[j].packets) = Missing
  <2> TAKE j \in Media
  <2> DEFINE n == Len(Sent(j))
  <2>1. /\ n \in Nat /\ AreSent(Sent(j), n)
        /\ Heard(j) <=> n > 0
        /\ Pts(j) = AxisOf(Sent(j), "pts")
    BY WhatIsSent
  <2>2. streams[j].packets = Wrapped(Sent(j))
    BY CarriedIs
  <2> HIDE DEF n, streams
  <2>3. FirstRawPts(streams[j].packets) = IF n = 0 THEN Missing ELSE Sent(j)[1].pts % Modulus
    BY <2>1, <2>2, FirstOfWrapped
  <2>4. n > 0 => Sent(j)[1].pts \in Nat /\ Pts(j)[1] = Sent(j)[1].pts
    BY <2>1 DEF AreSent, Packets, Moments, AxisOf
  <2> QED BY <2>1, <2>3, <2>4
<1>2. DOMAIN streams = Media
  BY CarriedIs
<1>3. firsts # {} => Max(firsts) - Min(firsts) < HalfRange /\ Min(firsts) < Modulus
  BY DEF BeginTogether
<1> HIDE DEF streams
<1>4. ASSUME Heard(1), Heard(2)
      PROVE  /\ Base(Sent(1)[1].pts) = IF 1 \in EpochApart(streams) THEN Modulus ELSE 0
             /\ Base(Sent(2)[1].pts) = IF 2 \in EpochApart(streams) THEN Modulus ELSE 0
  <2> DEFINE f == Sent(1)[1].pts
             g == Sent(2)[1].pts
  <2>1. f \in Nat /\ g \in Nat
    BY <1>1, <1>4 DEF Media
  <2>2. firsts = {f, g}
    BY <1>1, <1>4 DEF Media
  <2>3. FirstRawPts(streams[1].packets) = f % Modulus /\ FirstRawPts(streams[2].packets) = g % Modulus
    BY <1>1, <1>4 DEF Media
  <2> HIDE DEF f, g, firsts
  <2>4. f - g < HalfRange /\ g - f < HalfRange /\ (f < Modulus \/ g < Modulus)
    <3>1. CASE f <= g
      <4>1. Max({f, g}) = g /\ Min({f, g}) = f
        <5>1. f \in Int /\ g \in Int
          BY <2>1
        <5> QED BY Zenon, <3>1, <5>1, MaxMinOf
      <4> QED BY <1>3, <2>1, <2>2, <3>1, <4>1, Numbers
    <3>2. CASE g <= f
      <4>1. Max({f, g}) = f /\ Min({f, g}) = g
        <5>1. f \in Int /\ g \in Int
          BY <2>1
        <5> QED BY Zenon, <3>2, <5>1, MaxMinOf
      <4> QED BY <1>3, <2>1, <2>2, <3>2, <4>1, Numbers
    <3> QED BY <2>1, <3>1, <3>2
  <2>5. /\ \/ Base(f) = 0 /\ 1 \notin EpochApart(streams)
           \/ Base(f) = Modulus /\ 1 \in EpochApart(streams)
        /\ \/ Base(g) = 0 /\ 2 \notin EpochApart(streams)
           \/ Base(g) = Modulus /\ 2 \in EpochApart(streams)
    BY <1>2, <2>1, <2>3, <2>4, ApartOfTwo
  <2> QED BY <2>5 DEF f, g
<1>5. ASSUME NEW j \in Media, Heard(j), \A k \in Media : k # j => ~Heard(k)
      PROVE  Base(Sent(j)[1].pts) = IF j \in EpochApart(streams) THEN Modulus ELSE 0
  <2> DEFINE f == Sent(j)[1].pts
  <2>1. f \in Nat /\ FirstRawPts(streams[j].packets) = f % Modulus
    BY <1>1, <1>5
  <2>2. firsts = {f}
    BY <1>1, <1>5
  <2>3. \A k \in Media : k # j => FirstRawPts(streams[k].packets) = Missing
    BY <1>1, <1>5
  <2> HIDE DEF f, firsts
  <2>4. Min({f}) = f
    <3>1. f \in Int
      BY <2>1
    <3> QED BY Zenon, <3>1, MaxMinOf
  <2>5. f < Modulus
    BY <1>3, <2>2, <2>4
  <2>6. Base(f) = 0
    BY <2>1, <2>5, FirstEras
  <2>7. EpochApart(streams) = {}
    <3>1. (f % Modulus) \in Int
      BY <2>1, EraOf
    <3> DEFINE r == f % Modulus
    <3>2. FirstRawPts(streams[j].packets) = r /\ r \in Int
      BY <2>1, <3>1
    <3> HIDE DEF r
    <3> QED BY <1>2, <2>3, <3>2, ApartOfOne
  <2> QED BY <2>6, <2>7 DEF f
<1> HIDE DEF firsts
<1>6. Base(Sent(i)[1].pts) = IF i \in EpochApart(streams) THEN Modulus ELSE 0
  <2>1. CASE Heard(1) /\ Heard(2)
    BY <1>4, <2>1 DEF Media
  <2>2. CASE \A k \in Media : k # i => ~Heard(k)
    BY <1>5, <2>2
  <2> QED BY <2>1, <2>2 DEF Media
<1> QED BY <1>6 DEF streams

\* Both files are read with the same presentation times.
LEMMA CarriedIsAlike ==
  ASSUME TimelineTypeOK, shape.is_ts, BeginTogether, AllPlain
  PROVE  AreAlikeFiles(Carried, Whole, PacketViews(Carried.streams, Carried.is_ts), PacketViews(Whole.streams, Whole.is_ts))
<1> DEFINE apart == EpochApart(Carried.streams)
           va == PacketViews(Carried.streams, TRUE)
           vb == PacketViews(Whole.streams, FALSE)
<1>1. /\ Carried.is_ts = TRUE /\ DOMAIN Carried.streams = Media
      /\ \A i \in Media : Carried.streams[i].packets = Wrapped(Sent(i))
      /\ Whole.is_ts = FALSE /\ DOMAIN Whole.streams = Media
      /\ \A i \in Media : Whole.streams[i].packets = Sent(i)
  BY CarriedIs
<1>2. va = [i \in Media |-> MovedIf(UnwrappedView(Carried.streams[i].packets), i \in apart)]
  BY <1>1 DEF PacketViews, MovedIf
<1>3. vb = [i \in Media |-> <<Whole.streams[i].packets>>]
  BY <1>1 DEF PacketViews
<1>4. ASSUME NEW i \in Media PROVE AreAlikeViews(va[i], vb[i])
  <2> DEFINE n == Len(Sent(i))
             late == i \in apart
  <2>1. /\ n \in Nat /\ AreSent(Sent(i), n)
        /\ Heard(i) <=> n > 0
        /\ Pts(i) = AxisOf(Sent(i), "pts") /\ Dts(i) = AxisOf(Sent(i), "dts")
    BY WhatIsSent
  <2>2. \A axis \in Axes : IsPlain(AxisOf(Sent(i), axis))
    BY <2>1 DEF Axes, AllPlain
  <2>3. n > 0 => Base(Sent(i)[1].pts) = IF late THEN Modulus ELSE 0
    BY <2>1, LateAfterTheWrap
  <2>4. va[i] = MovedIf(UnwrappedView(Wrapped(Sent(i))), late) /\ vb[i] = <<Sent(i)>>
    BY <1>1, <1>2, <1>3
  <2>5. late \in BOOLEAN
    OBVIOUS
  <2> HIDE DEF n, late, va, vb
  <2>6. PICK view : MovedIf(UnwrappedView(Wrapped(Sent(i))), late) = <<view>> /\ AreAlike(view, Sent(i), n)
    BY <2>1, <2>2, <2>3, <2>5, ViewIs
  <2>7. va[i] = <<view>> /\ va[i] # <<>> /\ vb[i] # <<>> /\ va[i][1] = view /\ vb[i][1] = Sent(i)
    BY <2>4, <2>6
  <2> QED BY <2>1, <2>6, <2>7 DEF AreAlikeViews
<1>5. DOMAIN va = Media /\ DOMAIN vb = Media
  BY <1>2, <1>3
<1>6. \A i \in Media : AreAlikeStreams(Carried.streams[i], Whole.streams[i])
  BY FilesDifferInPackets DEF Carried, Whole
<1>7. /\ Carried.partial = FALSE /\ Whole.partial = FALSE /\ Carried.duration = Whole.duration
  BY FileIs DEF Carried, Whole
<1> HIDE DEF va, vb
<1>8. AreAlikeFiles(Carried, Whole, va, vb)
  BY <1>1, <1>4, <1>5, <1>6, <1>7 DEF AreAlikeFiles
<1> QED BY <1>1, <1>8 DEF va, vb

\* The reports of the whole file are those of its content.
LEMMA WrapIsInvisibleInTheWhole ==
  ASSUME TimelineTypeOK, shape.is_ts, BeginTogether, AllPlain
  PROVE  OfTheWhole(Carried) = OfTheWhole(Whole)
<1>1. /\ StartDuration(Carried) = StartDuration(Whole)
      /\ JitterVfr(Carried) = JitterVfr(Whole)
      /\ AvSyncReports(Carried) = AvSyncReports(Whole)
  BY CarriedIsAlike, AlikeStartDuration, AlikeJitterVfr, AlikeAvSync
<1> QED BY <1>1 DEF OfTheWhole

-------------------------------------------------------------------------------
(* What each stream is told by itself.                                     *)

FirstEra(i) == IF Heard(i) THEN Modulus * Era(Pts(i)[1]) ELSE 0

\* The packets of a stream counted from its first era.
LEMMA FromFirstEraIs ==
  ASSUME TimelineTypeOK, NEW i \in Media, NEW n, n = Len(Sent(i))
  PROVE  /\ n \in Nat
         /\ IsList(FromFirstEra[i], n)
         /\ \A axis \in Axes : HasAxis(FromFirstEra[i], n, axis)
         /\ AxisOf(FromFirstEra[i], "pts") = FromFirst(Pts(i))
         /\ \A k \in 1..n : /\ FromFirstEra[i][k].pos = Sent(i)[k].pos
                            /\ FromFirstEra[i][k].duration = Sent(i)[k].duration
                            /\ FromFirstEra[i][k].pts = Sent(i)[k].pts - FirstEra(i)
                            /\ AxisOf(FromFirstEra[i], "dts")[k] = Dts(i)[k] - FirstEra(i)
                            /\ Dts(i)[k] \in Nat
         /\ DOMAIN AxisOf(FromFirstEra[i], "dts") = 1..n
         /\ FirstEra(i) \in Nat
         /\ \A k \in 1..n : IsPacket(FromFirstEra[i][k], Sent(i)[k].pts - FirstEra(i), Sent(i)[k].dts - FirstEra(i),
                                     Sent(i)[k].duration, Sent(i)[k].pos)
<1> DEFINE S == Sent(i)
           E == FromFirstEra[i]
           shift == FirstEra(i)
<1>1. /\ n \in Nat /\ AreSent(S, n)
      /\ Heard(i) <=> n > 0
      /\ Pts(i) = AxisOf(S, "pts") /\ Dts(i) = AxisOf(S, "dts")
  BY WhatIsSent
<1>2. /\ DOMAIN S = 1..n
      /\ \A k \in 1..n : S[k] \in Packets
  BY <1>1 DEF AreSent
<1>3. E = [k \in DOMAIN S |-> [S[k] EXCEPT !.pts = @ - shift, !.dts = @ - shift]]
  BY DEF FromFirstEra, FirstEra, Sent
<1>4. \A k \in 1..n : /\ S[k].pts \in 0..(MaxInt - Modulus) /\ S[k].dts \in 0..(MaxInt - Modulus)
                      /\ Pts(i)[k] = S[k].pts /\ Dts(i)[k] = S[k].dts
  BY <1>1, <1>2 DEF AxisOf, Packets, Moments
<1>5. n > 0 => shift = Base(Pts(i)[1]) /\ shift \in Nat /\ shift <= MaxInt - Modulus
  <2>1. SUFFICES ASSUME n > 0 PROVE shift = Base(Pts(i)[1]) /\ shift \in Nat /\ shift <= MaxInt - Modulus
    OBVIOUS
  <2> DEFINE t == Pts(i)[1]
  <2>2. t \in Nat /\ t <= MaxInt - Modulus
    BY <1>1, <1>4, <2>1, Numbers
  <2>3. shift = Modulus * Era(t)
    BY <1>1, <2>1 DEF FirstEra
  <2> HIDE DEF t, shift
  <2>4. shift = Base(t) /\ Base(t) \in Nat /\ Base(t) <= t
    BY <2>2, <2>3, EraOf
  <2>5. shift \in Nat /\ shift <= MaxInt - Modulus
    BY <2>2, <2>4, Numbers
  <2> QED BY <2>4, <2>5 DEF t
<1>6. shift \in Nat
  BY <1>1, <1>5 DEF FirstEra
<1> HIDE DEF S, E, shift
<1>7. ASSUME NEW k \in 1..n
      PROVE  IsPacket(E[k], S[k].pts - shift, S[k].dts - shift, S[k].duration, S[k].pos)
  <2> DEFINE p == S[k].pts - shift
             d == S[k].dts - shift
  <2>1. E[k] = [S[k] EXCEPT !.pts = p, !.dts = d]
    BY <1>2, <1>3
  <2>2. IsPacket(S[k], S[k].pts, S[k].dts, S[k].duration, S[k].pos)
    BY <1>2 DEF Packets, IsPacket
  <2> HIDE DEF p, d
  <2>3. IsPacket(E[k], p, d, S[k].duration, S[k].pos)
    BY <2>1, <2>2, MovedPacket
  <2> QED BY <2>3 DEF p, d
<1>8. \A k \in 1..n : /\ E[k].pts = S[k].pts - shift /\ E[k]["pts"] = S[k].pts - shift
                      /\ E[k]["dts"] = S[k].dts - shift
                      /\ E[k].duration = S[k].duration /\ E[k].pos = S[k].pos
  BY <1>7, FieldsOf
<1>9. IsList(E, n) /\ DOMAIN E = 1..n
  BY <1>2, <1>3 DEF IsList
<1>10. ASSUME NEW k \in 1..n
       PROVE  /\ E[k]["pts"] # Missing /\ E[k]["dts"] # Missing
  <2>1. n > 0 /\ k \in 1..n
    BY <1>1
  <2>2. shift \in Nat /\ shift <= MaxInt - Modulus
    BY <1>5, <2>1
  <2>3. S[k].pts - shift # Missing /\ S[k].dts - shift # Missing
    BY <1>4, <2>2, Numbers
  <2> QED BY <1>8, <2>3
<1>11. \A axis \in Axes : HasAxis(E, n, axis)
  BY <1>9, <1>10 DEF HasAxis, Axes
<1>12. AxisOf(E, "pts") = FromFirst(Pts(i))
  <2>1. AxisOf(E, "pts") = [k \in 1..n |-> E[k]["pts"]]
    BY <1>9 DEF AxisOf
  <2>2. FromFirst(Pts(i)) = [k \in 1..n |-> Pts(i)[k] - Base(Pts(i)[1])]
    BY <1>1, <1>2 DEF FromFirst, AxisOf
  <2>3. \A k \in 1..n : E[k]["pts"] = Pts(i)[k] - Base(Pts(i)[1])
    <3> TAKE k \in 1..n
    <3>1. n > 0
      BY <1>1
    <3> QED BY <1>4, <1>5, <1>8, <3>1
  <2> QED BY <2>1, <2>2, <2>3
<1>13. DOMAIN AxisOf(E, "dts") = 1..n /\ \A k \in 1..n : AxisOf(E, "dts")[k] = Dts(i)[k] - shift /\ Dts(i)[k] \in Nat
  <2>1. \A k \in 1..n : Dts(i)[k] \in Nat
    BY <1>4, Numbers
  <2> QED BY <1>4, <1>8, <1>9, <2>1 DEF AxisOf
<1> QED BY <1>1, <1>6, <1>7, <1>8, <1>9, <1>11, <1>12, <1>13 DEF S, E, shift

\* Both files have the same samples of the stream, in time; in decoding time all
\* are moved alike.
LEMMA SamplesFromFirstEra ==
  ASSUME TimelineTypeOK, AllPlain, NEW i \in Media, NEW n, n = Len(Sent(i))
  PROVE  /\ PrepareAxis(Wrapped(Sent(i)), "pts", TRUE) = <<Sampled(FromFirst(Pts(i)), Sent(i))>>
         /\ PrepareAxis(FromFirstEra[i], "pts", FALSE) = <<Sampled(FromFirst(Pts(i)), Sent(i))>>
         /\ PrepareAxis(Wrapped(Sent(i)), "dts", TRUE) = <<Sampled(FromFirst(Dts(i)), Sent(i))>>
         /\ PrepareAxis(FromFirstEra[i], "dts", FALSE) = <<Sampled(AxisOf(FromFirstEra[i], "dts"), Sent(i))>>
<1>1. /\ n \in Nat /\ AreSent(Sent(i), n)
      /\ Pts(i) = AxisOf(Sent(i), "pts") /\ Dts(i) = AxisOf(Sent(i), "dts")
  BY WhatIsSent
<1>2. "pts" \in Axes /\ "dts" \in Axes
  BY DEF Axes
<1>3. IsPlain(AxisOf(Sent(i), "pts")) /\ IsPlain(AxisOf(Sent(i), "dts"))
  BY <1>1 DEF AllPlain
<1>4. /\ PrepareAxis(Wrapped(Sent(i)), "pts", TRUE) = <<Sampled(FromFirst(Pts(i)), Sent(i))>>
      /\ PrepareAxis(Wrapped(Sent(i)), "dts", TRUE) = <<Sampled(FromFirst(Dts(i)), Sent(i))>>
  BY <1>1, <1>2, <1>3, PreparedIs
<1> DEFINE E == FromFirstEra[i]
<1>5. /\ \A axis \in Axes : HasAxis(E, n, axis)
      /\ AxisOf(E, "pts") = FromFirst(Pts(i))
      /\ \A k \in 1..n : E[k].pos = Sent(i)[k].pos
      /\ DOMAIN E = 1..n
  BY FromFirstEraIs DEF IsList
<1>6. DOMAIN Sent(i) = 1..n
  BY <1>1 DEF AreSent
<1> HIDE DEF E
<1>7. \A vals : Sampled(vals, E) = Sampled(vals, Sent(i))
  BY <1>5, <1>6 DEF Sampled
<1>8. \A axis \in Axes : PrepareAxis(E, axis, FALSE) = <<Sampled(AxisOf(E, axis), E)>>
  BY <1>1, <1>5, PreparedElsewhere
<1>9. /\ PrepareAxis(E, "pts", FALSE) = <<Sampled(AxisOf(E, "pts"), E)>>
      /\ PrepareAxis(E, "dts", FALSE) = <<Sampled(AxisOf(E, "dts"), E)>>
  BY <1>2, <1>8
<1>10. PrepareAxis(E, "pts", FALSE) = <<Sampled(FromFirst(Pts(i)), Sent(i))>>
  BY <1>5, <1>7, <1>9
<1>11. PrepareAxis(E, "dts", FALSE) = <<Sampled(AxisOf(E, "dts"), Sent(i))>>
  BY <1>7, <1>9
<1> QED BY <1>4, <1>10, <1>11 DEF E

\* Order is judged by differences: a shift of all times keeps it.
LEMMA ShiftedViolations ==
  ASSUME NEW n \in Nat, NEW a, NEW b, IsList(a, n), IsList(b, n), NEW d \in Int,
         \A k \in 1..n : a[k] \in Int /\ b[k] = a[k] - d
  PROVE  Violations(a) = Violations(b)
<1>1. DOMAIN a = 1..n /\ DOMAIN b = 1..n
  BY DEF IsList
<1>2. Len(a) = n /\ Len(b) = n
  BY DEF IsList
<1>3. {i \in 2 .. Len(a) : a[i] <= a[i - 1]} = {i \in 2 .. Len(b) : b[i] <= b[i - 1]}
  <2>1. \A i \in 2..n : a[i] <= a[i - 1] <=> b[i] <= b[i - 1]
    <3> TAKE i \in 2..n
    <3>1. i \in 1..n /\ i - 1 \in 1..n
      OBVIOUS
    <3>2. a[i] \in Int /\ a[i - 1] \in Int /\ b[i] = a[i] - d /\ b[i - 1] = a[i - 1] - d
      BY <3>1
    <3> QED BY <3>2
  <2> QED BY <1>2, <2>1
<1> QED BY <1>3 DEF Violations

Judgement(values) == IF values = <<>> THEN Skips("no_timing_data") ELSE Reports(Violations(values))

\* A stream of a transport stream, and the same one where timestamps have no end.
AreToldAlone(i, f, s, g, t) ==
  /\ f.is_ts = TRUE /\ f.partial = FALSE /\ f.ts_complete = TRUE
  /\ s.packets = Wrapped(Sent(i)) /\ s.dts_source = "demuxer" /\ s.flags_truncated = FALSE
  /\ g.is_ts = FALSE /\ g.partial = FALSE
  /\ t.packets = FromFirstEra[i] /\ t.dts_source = "demuxer" /\ s.tb = t.tb

\* Whether decoding times grow does not depend on where they begin.
LEMMA WrapIsInvisibleInOrder ==
  ASSUME TimelineTypeOK, AllPlain, NEW i \in Media, NEW f, NEW g, NEW s, NEW t,
         AreToldAlone(i, f, s, g, t)
  PROVE  DtsMonotonic(f, s) = DtsMonotonic(g, t)
<1> USE DEF AreToldAlone
<1> DEFINE n == Len(Sent(i))
           va == FromFirst(Dts(i))
           vb == AxisOf(FromFirstEra[i], "dts")
           sa == Sampled(va, Sent(i))
           sb == Sampled(vb, Sent(i))
           Judged(samples) == IF samples = <<>> THEN Skips("no_timing_data") ELSE Reports(Violations(Values(samples)))
<1>0. /\ n \in Nat /\ IsList(Sent(i), n)
      /\ DOMAIN Dts(i) = 1..n
  <2>1. /\ n \in Nat /\ AreSent(Sent(i), n)
        /\ Dts(i) = AxisOf(Sent(i), "dts")
    BY WhatIsSent
  <2> HIDE DEF n
  <2>2. IsList(Sent(i), n) /\ DOMAIN Sent(i) = 1..n
    BY <2>1 DEF AreSent, IsList
  <2> QED BY <2>1, <2>2 DEF AxisOf
<1>1. PrepareAxis(s.packets, "dts", f.is_ts) = <<sa>> /\ PrepareAxis(t.packets, "dts", g.is_ts) = <<sb>>
  BY SamplesFromFirstEra
<1>2. DtsMonotonic(f, s) = Judged(sa)
  <2>1. <<sa>> # <<>> /\ <<sa>>[1] = sa
    OBVIOUS
  <2> HIDE DEF sa
  <2> QED BY <1>1, <2>1 DEF DtsMonotonic
<1>3. DtsMonotonic(g, t) = Judged(sb)
  <2>1. <<sb>> # <<>> /\ <<sb>>[1] = sb
    OBVIOUS
  <2> HIDE DEF sb
  <2> QED BY <1>1, <2>1 DEF DtsMonotonic
<1>4. /\ DOMAIN vb = 1..n
      /\ FirstEra(i) \in Nat
      /\ \A k \in 1..n : vb[k] = Dts(i)[k] - FirstEra(i) /\ Dts(i)[k] \in Nat
  BY FromFirstEraIs
<1> HIDE DEF n
<1>5. IsList(va, n) /\ IsList(vb, n)
  <2>1. va = [k \in 1..n |-> Dts(i)[k] - Base(Dts(i)[1])]
    BY <1>0 DEF FromFirst
  <2>2. vb = [k \in 1..n |-> FromFirstEra[i][k]["dts"]]
    BY <1>4 DEF AxisOf
  <2> QED BY <2>1, <2>2 DEF IsList
<1>6. n > 0 => Violations(va) = Violations(vb)
  <2> SUFFICES ASSUME n > 0 PROVE Violations(va) = Violations(vb)
    OBVIOUS
  <2> DEFINE d == FirstEra(i) - Base(Dts(i)[1])
  <2>1. Base(Dts(i)[1]) \in Nat
    <3>1. 1 \in 1..n
      BY <1>0
    <3>2. Dts(i)[1] \in Nat
      BY <1>4, <3>1
    <3> QED BY <3>2, EraOf
  <2>2. d \in Int
    BY <1>4, <2>1
  <2>3. \A k \in 1..n : va[k] \in Int /\ vb[k] = va[k] - d
    <3> TAKE k \in 1..n
    <3>1. va[k] = Dts(i)[k] - Base(Dts(i)[1])
      BY <1>0 DEF FromFirst
    <3> HIDE DEF va, vb
    <3> QED BY <1>4, <2>1, <3>1
  <2> HIDE DEF va, vb, d
  <2> QED BY <1>0, <1>5, <2>2, <2>3, ShiftedViolations
<1>7. /\ Values(sa) = va /\ DOMAIN sa = 1..n
      /\ Values(sb) = vb /\ DOMAIN sb = 1..n
  <2> HIDE DEF va, vb
  <2> QED BY <1>0, <1>5, ValuesOfSampled
<1>8. (sa = <<>> <=> n = 0) /\ (sb = <<>> <=> n = 0)
  BY <1>0, <1>7 DEF Sampled
<1> HIDE DEF sa, sb, va, vb
<1> QED BY <1>0, <1>2, <1>3, <1>6, <1>7, <1>8

\* Duplicates are found the same.
LEMMA WrapIsInvisibleInDuplicates ==
  ASSUME TimelineTypeOK, AllPlain, NEW i \in Media, NEW f, NEW g, NEW s, NEW t,
         AreToldAlone(i, f, s, g, t)
  PROVE  PtsUnique(f, s) = PtsUnique(g, t)
<1> USE DEF AreToldAlone
<1>1. PrepareAxis(s.packets, "pts", f.is_ts) = PrepareAxis(t.packets, "pts", g.is_ts)
  BY SamplesFromFirstEra
<1> QED BY <1>1 DEF PtsUnique

\* A packet with the time of its place.
LEMMA RetimedPacket ==
  ASSUME NEW r, NEW a, NEW b, NEW c, NEW d, IsPacket(r, a, b, c, d), NEW pts, NEW moved,
         moved = [r EXCEPT !["pts"] = pts]
  PROVE  IsPacket(moved, pts, b, c, d)
BY DEF IsPacket

\* Packets that are given the same times are alike.
AreRetimed(n, a, b, vals, da, db, pa, pb) ==
  \A k \in 1..n : /\ vals[k] \in Int /\ vals[k] # Missing
                  /\ IsPacket(a[k], pa[k], da[k], a[k].duration, a[k].pos) /\ da[k] # Missing
                  /\ IsPacket(b[k], pb[k], db[k], b[k].duration, b[k].pos) /\ db[k] # Missing
                  /\ a[k].pos = b[k].pos /\ a[k].duration = b[k].duration

\* Packets given the same times are alike.
LEMMA AlikeAtTimes ==
  ASSUME NEW n \in Nat, NEW a, NEW b, IsList(a, n), IsList(b, n), NEW vals, NEW da, NEW db, NEW pa, NEW pb,
         AreRetimed(n, a, b, vals, da, db, pa, pb)
  PROVE  AreAlike(AtTimes(a, "pts", vals), AtTimes(b, "pts", vals), n)
<1> DEFINE x == AtTimes(a, "pts", vals)
           y == AtTimes(b, "pts", vals)
<1>1. DOMAIN a = 1..n /\ DOMAIN b = 1..n
  BY DEF IsList
<1>2. \A k \in 1..n : x[k] = [a[k] EXCEPT !["pts"] = vals[k]] /\ y[k] = [b[k] EXCEPT !["pts"] = vals[k]]
  BY <1>1 DEF AtTimes
<1>3. IsList(x, n) /\ DOMAIN x = 1..n /\ IsList(y, n) /\ DOMAIN y = 1..n
  BY <1>1 DEF AtTimes, IsList
<1> HIDE DEF x, y
<1>4. \A k \in 1..n : /\ IsPacket(x[k], vals[k], da[k], a[k].duration, a[k].pos)
                      /\ IsPacket(y[k], vals[k], db[k], b[k].duration, b[k].pos)
  BY <1>2, RetimedPacket DEF AreRetimed
<1>5. \A k \in 1..n : /\ x[k]["pts"] = vals[k] /\ x[k].pts = vals[k] /\ x[k]["dts"] = da[k]
                      /\ x[k].duration = a[k].duration /\ x[k].pos = a[k].pos
                      /\ y[k]["pts"] = vals[k] /\ y[k].pts = vals[k] /\ y[k]["dts"] = db[k]
                      /\ y[k].duration = b[k].duration /\ y[k].pos = b[k].pos
  BY <1>4, FieldsOf
<1>6. \A axis \in Axes : HasAxis(x, n, axis) /\ HasAxis(y, n, axis)
  BY <1>3, <1>5 DEF HasAxis, Axes, AreRetimed
<1>7. AxisOf(x, "pts") = AxisOf(y, "pts")
  BY <1>3, <1>5 DEF AxisOf
<1>8. \A k \in 1..n : x[k].pts \in Int /\ x[k].pos = y[k].pos /\ x[k].duration = y[k].duration
  BY <1>5 DEF AreRetimed
<1>9. AreAlike(x, y, n)
  BY <1>6, <1>7, <1>8 DEF AreAlike
<1> QED BY <1>9 DEF x, y

\* The packets a gap is looked for among.
LEMMA AlikeFromFirstEra ==
  ASSUME TimelineTypeOK, NEW i \in Media, NEW n, n = Len(Sent(i))
  PROVE  AreAlike(AtTimes(Wrapped(Sent(i)), "pts", FromFirst(Pts(i))),
                  AtTimes(FromFirstEra[i], "pts", FromFirst(Pts(i))), n)
<1> DEFINE S == Sent(i)
           W == Wrapped(S)
           E == FromFirstEra[i]
           vals == FromFirst(Pts(i))
           da == [k \in 1..n |-> S[k].dts % Modulus]
           pa == [k \in 1..n |-> S[k].pts % Modulus]
           db == [k \in 1..n |-> S[k].dts - FirstEra(i)]
           pb == [k \in 1..n |-> S[k].pts - FirstEra(i)]
<1>1. /\ n \in Nat /\ AreSent(S, n)
  BY WhatIsSent
<1>2. /\ DOMAIN S = 1..n
      /\ \A k \in 1..n : S[k] \in Packets
  BY <1>1 DEF AreSent
<1>3. IsList(W, n) /\ \A k \in 1..n : W[k] = [S[k] EXCEPT !.pts = pa[k], !.dts = da[k]]
  BY <1>2 DEF Wrapped, IsList
<1>4. /\ IsList(E, n)
      /\ \A axis \in Axes : HasAxis(E, n, axis)
      /\ AxisOf(E, "pts") = vals
      /\ \A k \in 1..n : /\ IsPacket(E[k], pb[k], db[k], S[k].duration, S[k].pos)
                         /\ E[k].pos = S[k].pos /\ E[k].duration = S[k].duration
                         /\ E[k].pts = S[k].pts - FirstEra(i)
      /\ FirstEra(i) \in Nat
  BY FromFirstEraIs
<1>5. \A k \in 1..n : da[k] # Missing
  <2> TAKE k \in 1..n
  <2>1. S[k].dts \in Nat
    BY <1>2, Numbers DEF Packets, Moments
  <2>2. (S[k].dts % Modulus) \in Nat
    BY <2>1, EraOf
  <2> QED BY <2>2, Numbers
<1>6. \A k \in 1..n : S[k].pts \in Int
  BY <1>2 DEF Packets, Moments
<1> HIDE DEF S, W, E, vals, da, pa, db, pb
<1>7. \A k \in 1..n : IsPacket(W[k], pa[k], da[k], S[k].duration, S[k].pos)
  <2> TAKE k \in 1..n
  <2>1. IsPacket(S[k], S[k].pts, S[k].dts, S[k].duration, S[k].pos)
    BY <1>2 DEF Packets, IsPacket
  <2> QED BY <1>3, <2>1, MovedPacket
<1>8. \A k \in 1..n : W[k].duration = S[k].duration /\ W[k].pos = S[k].pos
  BY <1>7, FieldsOf
<1>9. \A k \in 1..n : E[k].pts = E[k]["pts"] /\ db[k] = E[k]["dts"]
  BY <1>4, FieldsOf
<1>10. DOMAIN E = 1..n
  BY <1>4 DEF IsList
<1>11. \A k \in 1..n : vals[k] = E[k]["pts"] /\ E[k]["pts"] # Missing /\ E[k]["dts"] # Missing
  BY <1>4, <1>10 DEF AxisOf, HasAxis, Axes
<1>12. \A k \in 1..n : vals[k] \in Int /\ vals[k] # Missing /\ db[k] # Missing
  BY <1>4, <1>6, <1>9, <1>11
<1>13. AreRetimed(n, W, E, vals, da, db, pa, pb)
  BY <1>4, <1>5, <1>7, <1>8, <1>12 DEF AreRetimed
<1>14. IsList(W, n) /\ IsList(E, n) /\ n \in Nat
  BY <1>1, <1>3, <1>4
<1>15. AreAlike(AtTimes(W, "pts", vals), AtTimes(E, "pts", vals), n)
  BY <1>13, <1>14, AlikeAtTimes
<1> QED BY <1>15 DEF S, W, E, vals

\* Gaps are found the same.
LEMMA WrapIsInvisibleInGaps ==
  ASSUME TimelineTypeOK, AllPlain, NEW i \in Media, NEW f, NEW g, NEW s, NEW t,
         AreToldAlone(i, f, s, g, t)
  PROVE  Gaps(f, s) = Gaps(g, t)
<1> USE DEF AreToldAlone
<1> DEFINE n == Len(Sent(i))
           vals == FromFirst(Pts(i))
           samples == Sampled(vals, Sent(i))
           W == Wrapped(Sent(i))
           E == FromFirstEra[i]
           Among(cadence, durations) ==
             IF cadence.status # "ok" THEN Skips("insufficient_data")
             ELSE IF durations = <<>> THEN Reports(<<>>)
             ELSE IF Len(durations[1]) < 2 THEN Reports(<<>>)
             ELSE GapsAmong(durations[1], cadence, s.tb)
           OfPackets(packets) == IF samples = <<>> THEN Skips("no_timing_data")
                                 ELSE Among(DeriveCadence(packets, s.tb), Reconstructed(packets, s.tb))
<1>1. n \in Nat /\ AreSent(Sent(i), n)
  BY WhatIsSent
<1>2. PrepareAxis(W, "pts", TRUE) = <<samples>> /\ PrepareAxis(E, "pts", FALSE) = <<samples>>
  BY SamplesFromFirstEra
<1>3. <<samples>> # <<>> /\ <<samples>>[1] = samples
  OBVIOUS
<1>4. Gaps(f, s) = OfPackets(WithAxis(W, "pts", samples))
  <2> HIDE DEF samples, W, E
  <2> QED BY <1>2, <1>3 DEF Gaps, W
<1>5. Gaps(g, t) = OfPackets(WithAxis(E, "pts", samples))
  <2> HIDE DEF samples, W, E
  <2> QED BY <1>2, <1>3 DEF Gaps, E
<1>6. AreAlike(AtTimes(W, "pts", vals), AtTimes(E, "pts", vals), n)
  BY AlikeFromFirstEra
<1>7. IsList(W, n) /\ IsList(E, n) /\ IsList(Sent(i), n)
  <2>1. DOMAIN Sent(i) = 1..n /\ IsList(Sent(i), n)
    BY <1>1 DEF AreSent, IsList
  <2>2. IsList(E, n)
    BY FromFirstEraIs
  <2> QED BY <2>1, <2>2 DEF Wrapped, IsList
<1> HIDE DEF vals, W, E, n
<1>8. /\ WithAxis(W, "pts", samples) = AtTimes(W, "pts", vals)
      /\ WithAxis(E, "pts", samples) = AtTimes(E, "pts", vals)
  BY <1>1, <1>7, WithAxisIs
<1>9. /\ DeriveCadence(AtTimes(W, "pts", vals), s.tb) = DeriveCadence(AtTimes(E, "pts", vals), s.tb)
      /\ Reconstructed(AtTimes(W, "pts", vals), s.tb) = Reconstructed(AtTimes(E, "pts", vals), s.tb)
  BY <1>1, <1>6, AlikeCadence, AlikeReconstructed
<1> HIDE DEF samples, Among
<1> QED BY <1>4, <1>5, <1>8, <1>9

-------------------------------------------------------------------------------
(* Spans in milliseconds, of the steps at some places.                     *)

HasMs(step, tb) == TicksToMs(step[1], tb) # <<>> /\ TicksToMs(step[2], tb) # <<>>
AsSpan(step, tb) == <<TicksToMs(step[1], tb)[1], TicksToMs(step[2], tb)[1]>>
SpansAt(steps, places, tb) == {AsSpan(steps[j], tb) : j \in places}

\* Jumps are told with the milliseconds on either side.
LEMMA SpansOfSteps ==
  ASSUME NEW steps, NEW places, IsFiniteSet(places), places \subseteq Int, NEW tb
  PROVE  /\ SpansMs(Kept(steps, places), tb) # <<>> <=> \A j \in places : HasMs(steps[j], tb)
         /\ SpansMs(Kept(steps, places), tb) # <<>> =>
              ToSet(SpansMs(Kept(steps, places), tb)[1]) = SpansAt(steps, places, tb)
<1> DEFINE kept == Kept(steps, places)
           N == Cardinality(places)
           told == [k \in 1..N |-> <<TicksToMs(kept[k][1], tb)[1], TicksToMs(kept[k][2], tb)[1]>>]
<1>1. IsList(kept, N) /\ \A k \in 1..N : kept[k] = steps[Nth(places, k)]
  BY KeptIs
<1>2. /\ \A k \in 1..N : Nth(places, k) \in places
      /\ \A i \in places : \E k \in 1..N : Nth(places, k) = i
  BY NthIs
<1>3. DOMAIN kept = 1..N
  BY <1>1 DEF IsList
<1> HIDE DEF kept, N
<1>4. SpansMs(kept, tb) = IF \E k \in 1..N : ~HasMs(kept[k], tb) THEN <<>> ELSE <<told>>
  BY <1>3 DEF SpansMs, HasMs
<1>5. (\A k \in 1..N : HasMs(kept[k], tb)) <=> \A j \in places : HasMs(steps[j], tb)
  BY <1>1, <1>2
<1>6. ToSet(told) = SpansAt(steps, places, tb)
  <2>1. ToSet(told) = {told[k] : k \in 1..N}
    BY DEF ToSet
  <2>2. \A k \in 1..N : told[k] = AsSpan(steps[Nth(places, k)], tb)
    BY <1>1 DEF AsSpan
  <2> HIDE DEF told
  <2>3. \A x : x \in {told[k] : k \in 1..N} <=> x \in {AsSpan(steps[j], tb) : j \in places}
    <3> TAKE x
    <3>1. ASSUME x \in {told[k] : k \in 1..N} PROVE x \in {AsSpan(steps[j], tb) : j \in places}
      BY <1>2, <2>2, <3>1
    <3>2. ASSUME NEW j \in places, x = AsSpan(steps[j], tb) PROVE x \in {told[k] : k \in 1..N}
      <4>1. PICK k \in 1..N : Nth(places, k) = j
        BY <1>2
      <4> QED BY <2>2, <3>2, <4>1
    <3> QED BY <3>1, <3>2
  <2> QED BY <2>1, <2>3 DEF SpansAt
<1>7. <<told>> # <<>> /\ <<told>>[1] = told
  OBVIOUS
<1> HIDE DEF told
<1>8. SpansMs(kept, tb) # <<>> <=> \A k \in 1..N : HasMs(kept[k], tb)
  BY <1>4, <1>7
<1>9. SpansMs(kept, tb) # <<>> => SpansMs(kept, tb)[1] = told
  BY <1>4, <1>7
<1>10. /\ SpansMs(kept, tb) # <<>> <=> \A j \in places : HasMs(steps[j], tb)
       /\ SpansMs(kept, tb) # <<>> => ToSet(SpansMs(kept, tb)[1]) = SpansAt(steps, places, tb)
  BY <1>5, <1>6, <1>8, <1>9
<1> QED BY <1>10 DEF kept

\* The steps between samples in presentation order, and the jumps among them.
StepsOf(order) == [j \in DOMAIN order |-> <<order[Max({1, j - 1})].value, order[j].value>>]
FlaggedJumps(stream, order, jumps) == {j \in jumps : IsFlagged(stream, order[j])}

\* What both checks say of the jumps.
AreTold(report, is_ts, steps, jumps, flagged, tb) ==
  /\ report.discontinuities.skip = "none" /\ report.discontinuities.value # <<>>
  /\ ToSet(report.discontinuities.value[1]) = SpansAt(steps, jumps \ flagged, tb)
  /\ is_ts => /\ report.flagged.skip = "none" /\ report.flagged.value # <<>>
              /\ ToSet(report.flagged.value[1]) = SpansAt(steps, flagged, tb)
  /\ ~is_ts => report.flagged.value = <<>>

\* Jumps of which all is known.
AreJumps(file, stream, order, jumps, flagged) ==
  /\ file.is_ts \in BOOLEAN /\ IsFiniteSet(jumps) /\ jumps \subseteq Int
  /\ JumpsAreExact(order, stream.tb) /\ \A j \in jumps : HasMs(StepsOf(order)[j], stream.tb)
  /\ file.is_ts => flagged = FlaggedJumps(stream, order, jumps)
  /\ ~file.is_ts => flagged = {}

\* The jumps a file is told of are those of its times.
LEMMA JumpsAre ==
  ASSUME NEW file, NEW stream, NEW order, NEW jumps, NEW flagged, AreJumps(file, stream, order, jumps, flagged)
  PROVE  AreTold(JumpsAmong(file, stream, order, jumps), file.is_ts, StepsOf(order), jumps, flagged, stream.tb)
<1> USE DEF AreJumps
<1> DEFINE steps == StepsOf(order)
           Spans(some) == SpansMs(Kept(steps, some), stream.tb)
           report == JumpsAmong(file, stream, order, jumps)
           gating == {j \in jumps : ~(file.is_ts /\ IsFlagged(stream, order[j]))}
           told == {j \in jumps : file.is_ts /\ IsFlagged(stream, order[j])}
<1>1. ASSUME NEW some \in SUBSET jumps
      PROVE  Spans(some) # <<>> /\ ToSet(Spans(some)[1]) = SpansAt(steps, some, stream.tb)
  <2>1. IsFiniteSet(some) /\ some \subseteq Int
    BY FS_Subset
  <2>2. \A j \in some : HasMs(steps[j], stream.tb)
    OBVIOUS
  <2> HIDE DEF steps
  <2>3. Spans(some) # <<>>
    BY <2>1, <2>2, SpansOfSteps
  <2> QED BY <2>1, <2>3, SpansOfSteps
<1>2. gating = jumps \ flagged /\ (file.is_ts => told = flagged)
  BY DEF FlaggedJumps
<1>3. Spans(jumps) # <<>>
  BY <1>1
<1>4. report = Both(Reports(Spans(gating)[1]),
                    IF file.is_ts THEN Reports(Spans(told)[1]) ELSE Skips("not_applicable_container"))
  <2> DEFINE says == Both(Reports(Spans(gating)[1]),
                          IF file.is_ts THEN Reports(Spans(told)[1]) ELSE Skips("not_applicable_container"))
  <2>1. report = IF ~JumpsAreExact(order, stream.tb) \/ Spans(jumps) = <<>>
                 THEN Alike(file, Skips("insufficient_data")) ELSE says
    BY DEF JumpsAmong, StepsOf
  <2> HIDE DEF says, Spans, report
  <2>2. report = says
    BY <1>3, <2>1
  <2> QED BY <2>2 DEF says
<1>5. gating \in SUBSET jumps /\ told \in SUBSET jumps
  OBVIOUS
<1> HIDE DEF report, Spans, gating, told
<1>6. \A v : /\ Reports(v).skip = "none" /\ Reports(v).value # <<>> /\ Reports(v).value[1] = v
             /\ Skips(v).value = <<>>
  BY DEF Reports, Skips
<1>7. \A x, y : Both(x, y).discontinuities = x /\ Both(x, y).flagged = y
  BY DEF Both
<1>8. /\ report.discontinuities = Reports(Spans(gating)[1])
      /\ file.is_ts => report.flagged = Reports(Spans(told)[1])
      /\ ~file.is_ts => report.flagged = Skips("not_applicable_container")
  BY <1>4, <1>7
<1>9. /\ ToSet(Spans(gating)[1]) = SpansAt(steps, jumps \ flagged, stream.tb)
      /\ file.is_ts => ToSet(Spans(told)[1]) = SpansAt(steps, flagged, stream.tb)
  BY <1>1, <1>2, <1>5
<1>10. /\ report.discontinuities.skip = "none" /\ report.discontinuities.value # <<>>
       /\ report.discontinuities.value[1] = Spans(gating)[1]
       /\ file.is_ts => /\ report.flagged.skip = "none" /\ report.flagged.value # <<>>
                        /\ report.flagged.value[1] = Spans(told)[1]
       /\ ~file.is_ts => report.flagged.value = <<>>
  BY <1>6, <1>8
<1>11. /\ ToSet(report.discontinuities.value[1]) = SpansAt(steps, jumps \ flagged, stream.tb)
       /\ file.is_ts => ToSet(report.flagged.value[1]) = SpansAt(steps, flagged, stream.tb)
  BY <1>9, <1>10
<1> QED BY <1>10, <1>11 DEF report, steps, AreTold

\* What a stream's breaks are: why there is no answer, and the jumps, flagged or not.
SpansIn(part) == IF part.value = <<>> THEN {} ELSE ToSet(part.value[1])
BreaksOf(report) ==
  [skip |-> report.discontinuities.skip, spans |-> SpansIn(report.discontinuities) \union SpansIn(report.flagged)]

\* The breaks of a stream depend on its flags and its order only.
LEMMA BreaksOfAlike ==
  ASSUME NEW file, NEW reason
  PROVE  BreaksOf(Alike(file, Skips(reason))) = [skip |-> reason, spans |-> {}]
BY DEF BreaksOf, Alike, Both, Skips, SpansIn

JumpBreaks(order, jumps, tb) ==
  IF JumpsAreExact(order, tb) /\ \A j \in jumps : HasMs(StepsOf(order)[j], tb)
  THEN [skip |-> "none", spans |-> SpansAt(StepsOf(order), jumps, tb)]
  ELSE [skip |-> "insufficient_data", spans |-> {}]

\* Flagged jumps and the others together are all jumps.
LEMMA BreaksOfJumps ==
  ASSUME NEW n \in Nat, NEW samples, DOMAIN samples = 1..n, NEW stream, NEW file, file.is_ts \in BOOLEAN,
         NEW order, order = Presented(samples), NEW jumps, jumps = Jumps(order, stream.tb)
  PROVE  BreaksOf(JumpsAmong(file, stream, order, jumps)) = JumpBreaks(order, jumps, stream.tb)
<1>1. IsList(order, n)
  BY AscendingIs DEF Presented
<1>2. Len(order) = n
  BY <1>1 DEF IsList
<1>3. jumps \in SUBSET (2..n)
  BY <1>2 DEF Jumps
<1>4. IsFiniteSet(jumps) /\ jumps \subseteq Int
  <2>1. IsFiniteSet(2..n)
    BY FS_Interval
  <2> QED BY <1>3, <2>1, FS_Subset
<1> DEFINE report == JumpsAmong(file, stream, order, jumps)
           steps == StepsOf(order)
<1>5. CASE ~(JumpsAreExact(order, stream.tb) /\ \A j \in jumps : HasMs(steps[j], stream.tb))
  <2>1. SpansMs(Kept(steps, jumps), stream.tb) # <<>> <=> \A j \in jumps : HasMs(steps[j], stream.tb)
    <3> HIDE DEF steps
    <3> QED BY <1>4, SpansOfSteps
  <2>2. report = Alike(file, Skips("insufficient_data"))
    <3>1. ~JumpsAreExact(order, stream.tb) \/ SpansMs(Kept(steps, jumps), stream.tb) = <<>>
      BY <1>5, <2>1
    <3> QED BY <3>1 DEF JumpsAmong, StepsOf
  <2> HIDE DEF report
  <2>3. BreaksOf(report) = [skip |-> "insufficient_data", spans |-> {}]
    BY <2>2, BreaksOfAlike
  <2> QED BY <1>5, <2>3 DEF report, JumpBreaks
<1>6. CASE JumpsAreExact(order, stream.tb) /\ \A j \in jumps : HasMs(steps[j], stream.tb)
  <2> DEFINE flagged == IF file.is_ts THEN FlaggedJumps(stream, order, jumps) ELSE {}
  <2>1. flagged \in SUBSET jumps
    BY DEF FlaggedJumps
  <2>0. /\ file.is_ts => flagged = FlaggedJumps(stream, order, jumps)
        /\ ~file.is_ts => flagged = {}
    OBVIOUS
  <2> HIDE DEF report, steps, flagged
  <2>2. /\ report.discontinuities.skip = "none" /\ report.discontinuities.value # <<>>
        /\ ToSet(report.discontinuities.value[1]) = SpansAt(steps, jumps \ flagged, stream.tb)
        /\ file.is_ts => /\ report.flagged.skip = "none" /\ report.flagged.value # <<>>
                         /\ ToSet(report.flagged.value[1]) = SpansAt(steps, flagged, stream.tb)
        /\ ~file.is_ts => report.flagged.value = <<>>
    <3>0. AreJumps(file, stream, order, jumps, flagged)
      BY <1>4, <1>6, <2>0 DEF AreJumps, steps
    <3>1. AreTold(JumpsAmong(file, stream, order, jumps), file.is_ts, StepsOf(order), jumps, flagged, stream.tb)
      BY <3>0, JumpsAre
    <3> QED BY <3>1 DEF report, steps, AreTold
  <2>3. SpansAt(steps, jumps \ flagged, stream.tb) \union SpansAt(steps, flagged, stream.tb)
          = SpansAt(steps, jumps, stream.tb)
    BY <2>1 DEF SpansAt
  <2>4. ~file.is_ts => SpansAt(steps, flagged, stream.tb) = {}
    BY DEF flagged, SpansAt
  <2>5. SpansIn(report.discontinuities) \union SpansIn(report.flagged) = SpansAt(steps, jumps, stream.tb)
    <3>1. SpansIn(report.discontinuities) = SpansAt(steps, jumps \ flagged, stream.tb)
      BY <2>2 DEF SpansIn
    <3>2. SpansIn(report.flagged) = SpansAt(steps, flagged, stream.tb)
      BY <2>2, <2>4 DEF SpansIn
    <3> QED BY <2>3, <3>1, <3>2
  <2>6. BreaksOf(report) = [skip |-> "none", spans |-> SpansAt(steps, jumps, stream.tb)]
    BY <2>2, <2>5 DEF BreaksOf
  <2> QED BY <1>6, <2>6 DEF report, steps, JumpBreaks
<1> QED BY <1>5, <1>6 DEF steps

\* Breaks are found the same.
LEMMA WrapIsInvisibleInBreaks ==
  ASSUME TimelineTypeOK, AllPlain, NEW i \in Media, NEW f, NEW g, NEW s, NEW t,
         AreToldAlone(i, f, s, g, t)
  PROVE  BreaksOf(Discontinuities(f, s)) = BreaksOf(Discontinuities(g, t))
<1> USE DEF AreToldAlone
<1> DEFINE n == Len(Sent(i))
           vals == FromFirst(Pts(i))
           samples == Sampled(vals, Sent(i))
           order == Presented(samples)
           jumps == Jumps(order, s.tb)
<1>1. /\ n \in Nat /\ AreSent(Sent(i), n)
      /\ PrepareAxis(s.packets, "pts", f.is_ts) = <<samples>> /\ PrepareAxis(t.packets, "pts", g.is_ts) = <<samples>>
  BY WhatIsSent, SamplesFromFirstEra
<1>2. <<samples>> # <<>> /\ <<samples>>[1] = samples
  OBVIOUS
<1>3. DOMAIN samples = 1..n
  <2>1. DOMAIN Sent(i) = 1..n
    BY <1>1 DEF AreSent
  <2> QED BY <2>1 DEF Sampled
<1> HIDE DEF samples, n
<1>4. Discontinuities(f, s) = IF samples = <<>> THEN Alike(f, Skips("no_timing_data")) ELSE JumpsAmong(f, s, order, jumps)
  <2> DEFINE Among(o) == JumpsAmong(f, s, o, Jumps(o, s.tb))
             OfAxis(axis) ==
               IF (f.is_ts /\ s.flags_truncated) \/ axis = <<>> THEN Alike(f, Skips("insufficient_data"))
               ELSE IF axis[1] = <<>> THEN Alike(f, Skips("no_timing_data")) ELSE Among(Presented(axis[1]))
  <2>1. Discontinuities(f, s) = OfAxis(PrepareAxis(s.packets, "pts", f.is_ts))
    BY DEF Discontinuities
  <2>2. OfAxis(<<samples>>) = IF samples = <<>> THEN Alike(f, Skips("no_timing_data")) ELSE JumpsAmong(f, s, order, jumps)
    BY <1>2
  <2> HIDE DEF OfAxis
  <2> QED BY <1>1, <2>1, <2>2
<1>5. Discontinuities(g, t) = IF samples = <<>> THEN Alike(g, Skips("no_timing_data")) ELSE JumpsAmong(g, t, order, jumps)
  <2> DEFINE Among(o) == JumpsAmong(g, t, o, Jumps(o, t.tb))
             OfAxis(axis) ==
               IF (g.is_ts /\ t.flags_truncated) \/ axis = <<>> THEN Alike(g, Skips("insufficient_data"))
               ELSE IF axis[1] = <<>> THEN Alike(g, Skips("no_timing_data")) ELSE Among(Presented(axis[1]))
  <2>1. Discontinuities(g, t) = OfAxis(PrepareAxis(t.packets, "pts", g.is_ts))
    BY DEF Discontinuities
  <2>2. OfAxis(<<samples>>) = IF samples = <<>> THEN Alike(g, Skips("no_timing_data")) ELSE JumpsAmong(g, t, order, jumps)
    BY <1>2
  <2> HIDE DEF OfAxis
  <2> QED BY <1>1, <2>1, <2>2
<1>6. /\ f.is_ts \in BOOLEAN /\ g.is_ts \in BOOLEAN
      /\ order = Presented(samples) /\ jumps = Jumps(order, s.tb) /\ jumps = Jumps(order, t.tb)
  OBVIOUS
<1> HIDE DEF order, jumps
<1>7. CASE samples = <<>>
  BY <1>4, <1>5, <1>7, BreaksOfAlike
<1>8. CASE samples # <<>>
  <2>1. Discontinuities(f, s) = JumpsAmong(f, s, order, jumps) /\ Discontinuities(g, t) = JumpsAmong(g, t, order, jumps)
    BY <1>4, <1>5, <1>8
  <2>2. BreaksOf(JumpsAmong(f, s, order, jumps)) = JumpBreaks(order, jumps, s.tb)
    BY <1>1, <1>3, <1>6, BreaksOfJumps
  <2>3. BreaksOf(JumpsAmong(g, t, order, jumps)) = JumpBreaks(order, jumps, t.tb)
    BY <1>1, <1>3, <1>6, BreaksOfJumps
  <2> QED BY <2>1, <2>2, <2>3
<1> QED BY <1>7, <1>8

-------------------------------------------------------------------------------
(* The files of the system.                                                *)

\* What every reachable file satisfies.
LEMMA WrapIsInvisibleIn ==
  ASSUME TimelineTypeOK
  PROVE  WrapIsInvisible
<1> SUFFICES ASSUME shape.is_ts, BeginTogether, AllPlain
             PROVE  /\ OfTheWhole(Carried) = OfTheWhole(Whole)
                    /\ OfEachStream(Carried) = OfEachStream(FileOf(FALSE, FromFirstEra))
                    /\ Breaks(Carried) = Breaks(FileOf(FALSE, FromFirstEra))
  BY DEF WrapIsInvisible, AllPlain
<1> DEFINE f == Carried
           g == FileOf(FALSE, FromFirstEra)
           packets == [i \in Media |-> IF shape.is_ts THEN Wrapped(sent[i].packets) ELSE sent[i].packets]
<1>1. /\ f.is_ts = TRUE
      /\ \A i \in Media : f.streams[i].packets = Wrapped(Sent(i))
  BY CarriedIs
<1>2. /\ f.partial = FALSE /\ f.ts_complete = TRUE
      /\ \A i \in Media : IsStreamWith(f.streams[i], packets[i], shape.streams[i])
  <2> HIDE DEF packets
  <2>1. f = FileOf(shape.is_ts, packets)
    BY DEF Carried, packets
  <2> HIDE DEF f
  <2> QED BY <2>1, FileIs
<1>3. /\ g.is_ts = FALSE /\ g.partial = FALSE
      /\ \A i \in Media : IsStreamWith(g.streams[i], FromFirstEra[i], shape.streams[i])
  BY FileIs
<1> HIDE DEF f, g, packets
<1>4. \A i \in Media : /\ f.streams[i].packets = Wrapped(Sent(i)) /\ g.streams[i].packets = FromFirstEra[i]
                       /\ f.streams[i].dts_source = "demuxer" /\ g.streams[i].dts_source = "demuxer"
                       /\ f.streams[i].flags_truncated = FALSE
                       /\ f.streams[i].tb = g.streams[i].tb
  BY <1>1, <1>2, <1>3 DEF IsStreamWith
<1>5. ASSUME NEW i \in Media
      PROVE  /\ DtsMonotonic(f, f.streams[i]) = DtsMonotonic(g, g.streams[i])
             /\ PtsUnique(f, f.streams[i]) = PtsUnique(g, g.streams[i])
             /\ Gaps(f, f.streams[i]) = Gaps(g, g.streams[i])
             /\ BreaksOf(Discontinuities(f, f.streams[i])) = BreaksOf(Discontinuities(g, g.streams[i]))
  <2> DEFINE s == f.streams[i]
             t == g.streams[i]
  <2>1. /\ s.packets = Wrapped(Sent(i)) /\ t.packets = FromFirstEra[i]
        /\ s.dts_source = "demuxer" /\ t.dts_source = "demuxer"
        /\ s.flags_truncated = FALSE /\ s.tb = t.tb
    BY <1>4
  <2> HIDE DEF s, t
  <2>6. AreToldAlone(i, f, s, g, t)
    BY <1>1, <1>2, <1>3, <2>1 DEF AreToldAlone
  <2>2. DtsMonotonic(f, s) = DtsMonotonic(g, t)
    BY <2>6, WrapIsInvisibleInOrder
  <2>3. PtsUnique(f, s) = PtsUnique(g, t)
    BY <2>6, WrapIsInvisibleInDuplicates
  <2>4. Gaps(f, s) = Gaps(g, t)
    BY <2>6, WrapIsInvisibleInGaps
  <2>5. BreaksOf(Discontinuities(f, s)) = BreaksOf(Discontinuities(g, t))
    BY <2>6, WrapIsInvisibleInBreaks
  <2> QED BY <2>2, <2>3, <2>4, <2>5 DEF s, t
<1>6. OfEachStream(f) = OfEachStream(g)
  BY <1>5 DEF OfEachStream
<1>7. Breaks(f) = Breaks(g)
  <2>1. ASSUME NEW h
        PROVE  Breaks(h) = [i \in Media |-> BreaksOf(Discontinuities(h, h.streams[i]))]
    BY DEF Breaks, BreaksOf, SpansIn
  <2>2. /\ Breaks(f) = [i \in Media |-> BreaksOf(Discontinuities(f, f.streams[i]))]
        /\ Breaks(g) = [i \in Media |-> BreaksOf(Discontinuities(g, g.streams[i]))]
    BY <2>1
  <2> QED BY <1>5, <2>2
<1>8. OfTheWhole(f) = OfTheWhole(Whole)
  BY WrapIsInvisibleInTheWhole DEF f
<1> QED BY <1>6, <1>7, <1>8 DEF f, g

\* A packet more keeps the types.
LEMMA MuxKeepsTypes ==
  ASSUME TimelineTypeOK, NEW i \in Media, Mux(i)
  PROVE  TimelineTypeOK'
<1> DEFINE S == [clock : Nat, announced : SUBSET Nat, packets : Seq(Packets)]
           n == Len(sent[i].packets) + 1
<1>1. shape \in Shapes /\ shape' = shape /\ sent \in [Media -> S]
  BY DEF TimelineTypeOK, Mux, Packets
<1>2. shape.streams[i] \in Kinds
  BY <1>1, ShapesAssumption
<1>3. PICK hole \in shape.streams[i].holes, delay \in shape.streams[i].delays, duration \in shape.streams[i].durations,
           declares \in shape.streams[i].declares, announces \in shape.streams[i].announces :
        /\ sent[i].clock + hole + delay + duration \in Moments /\ PesBytes * (n + 1) <= MaxInt
        /\ announces => hole > 0
        /\ n = 1 => hole = 0
        /\ sent' = [sent EXCEPT
                      ![i].clock = sent[i].clock + hole + duration,
                      ![i].packets = Append(@, [pts |-> sent[i].clock + hole + delay, dts |-> sent[i].clock + hole,
                                                duration |-> IF declares THEN duration ELSE 0, pos |-> PesBytes * n]),
                      ![i].announced = IF announces THEN @ \union {n} ELSE @]
  BY DEF Mux
<1> DEFINE dts == sent[i].clock + hole
           packet == [pts |-> dts + delay, dts |-> dts, duration |-> IF declares THEN duration ELSE 0, pos |-> PesBytes * n]
           new == [clock |-> dts + duration, announced |-> IF announces THEN sent[i].announced \union {n} ELSE sent[i].announced,
                   packets |-> Append(sent[i].packets, packet)]
<1>4. hole \in Nat /\ delay \in Nat /\ duration \in Nat
  BY <1>2 DEF Kinds
<1>5. sent[i] \in S /\ sent[i].packets \in Seq(Packets) /\ sent[i].clock \in Nat /\ n \in Nat /\ n >= 1
      /\ sent[i].announced \in SUBSET Nat
  BY <1>1
<1>6. packet \in Packets
  <2>1. dts \in Nat /\ dts + delay \in Nat /\ dts + delay + duration \in 0..(MaxInt - Modulus)
    BY <1>3, <1>4, <1>5 DEF Moments
  <2>2. dts \in Moments /\ dts + delay \in Moments
    BY <1>4, <2>1, Numbers DEF Moments
  <2>3. PesBytes * n \in Nat
    BY <1>5 DEF PesBytes
  <2> QED BY <1>4, <2>2, <2>3 DEF Packets
<1>7. sent' = [sent EXCEPT ![i] = new]
  <2>1. sent[i] = [clock |-> sent[i].clock, announced |-> sent[i].announced, packets |-> sent[i].packets]
    BY <1>5
  <2>2. sent' = [sent EXCEPT
                   ![i].clock = sent[i].clock + hole + duration,
                   ![i].packets = Append(@, [pts |-> sent[i].clock + hole + delay, dts |-> sent[i].clock + hole,
                                             duration |-> IF declares THEN duration ELSE 0, pos |-> PesBytes * n]),
                   ![i].announced = IF announces THEN @ \union {n} ELSE @]
    BY <1>3
  <2> DEFINE c == dts + duration
             ps == Append(sent[i].packets, packet)
             as == IF announces THEN sent[i].announced \union {n} ELSE sent[i].announced
  <2>3. sent' = [sent EXCEPT ![i].clock = c, ![i].packets = ps, ![i].announced = as]
    <3> HIDE DEF n
    <3> QED BY <1>1, <2>2
  <2>4. new = [clock |-> c, announced |-> as, packets |-> ps]
    OBVIOUS
  <2> HIDE DEF c, ps, as, new
  <2>5. sent' = [sent EXCEPT ![i] = [sent[i] EXCEPT !.clock = c, !.packets = ps, !.announced = as]]
    <3>1. DOMAIN sent = Media
      BY <1>1
    <3> QED BY <2>3, <3>1
  <2>6. [sent[i] EXCEPT !.clock = c, !.packets = ps, !.announced = as] = new
    <3>1. PICK a, b, d : sent[i] = [clock |-> a, announced |-> b, packets |-> d]
      BY <2>1
    <3> DEFINE r == sent[i]
    <3>2. r = [clock |-> a, announced |-> b, packets |-> d]
      BY <3>1
    <3> DEFINE grown == [r EXCEPT !.clock = c, !.packets = ps, !.announced = as]
    <3> HIDE DEF r
    <3>3. grown = [r EXCEPT !.clock = c, !.packets = ps, !.announced = as]
      OBVIOUS
    <3> HIDE DEF grown
    <3>4. grown = [clock |-> c, announced |-> as, packets |-> ps]
      BY <3>2, <3>3
    <3> QED BY <2>4, <3>4 DEF r, grown
  <2> QED BY <2>5, <2>6
<1> HIDE DEF packet, dts, n
<1>8. new \in S
  <2>1. dts + duration \in Nat
    BY <1>4, <1>5 DEF dts
  <2> QED BY <1>5, <1>6, <2>1
<1>9. sent' \in [Media -> S]
  BY <1>1, <1>7, <1>8
<1>10. /\ sent'[i] = new
       /\ \A j \in Media : j # i => sent'[j] = sent[j]
  BY <1>1, <1>7
<1>11. /\ Len(new.packets) = n
       /\ \A k \in 1..(n - 1) : new.packets[k] = sent[i].packets[k]
       /\ new.packets[n] = packet
       /\ DOMAIN new.packets = 1..n
  BY <1>5, <1>6 DEF n
<1>12. new.announced \subseteq 2..n
  <2>1. sent[i].announced \subseteq 2..(n - 1)
    BY DEF TimelineTypeOK, n
  <2>2. announces => n >= 2
    BY <1>3, <1>4, <1>5
  <2> QED BY <1>5, <2>1, <2>2
<1>13. \A k \in DOMAIN new.packets : new.packets[k].pos = PesBytes * k /\ PesBytes * (k + 1) <= MaxInt
  <2>1. \A k \in 1..(n - 1) : sent[i].packets[k].pos = PesBytes * k /\ PesBytes * (k + 1) <= MaxInt
    <3>1. DOMAIN sent[i].packets = 1..(n - 1)
      BY <1>5 DEF n
    <3> QED BY <3>1 DEF TimelineTypeOK
  <2>2. packet.pos = PesBytes * n
    BY DEF packet
  <2> HIDE DEF new
  <2>3. \A k \in 1..n : k \in 1..(n - 1) \/ k = n
    BY <1>5
  <2> QED BY <1>3, <1>11, <2>1, <2>2, <2>3
<1> HIDE DEF new
<1>14. \A j \in Media : /\ sent'[j].announced \subseteq 2 .. Len(sent'[j].packets)
                        /\ \A k \in DOMAIN sent'[j].packets : /\ sent'[j].packets[k].pos = PesBytes * k
                                                               /\ PesBytes * (k + 1) <= MaxInt
  <2> TAKE j \in Media
  <2>1. CASE j = i
    BY <1>10, <1>11, <1>12, <1>13, <2>1
  <2>2. CASE j # i
    BY <1>10, <2>2 DEF TimelineTypeOK
  <2> QED BY <2>1, <2>2
<1> QED BY <1>1, <1>9, <1>14 DEF TimelineTypeOK, Packets

\* Every packet that is sent fits 64 bits, whatever the shapes of the files.
LEMMA TimelineTyped == TimelineSpec => []TimelineTypeOK
<1>1. TimelineInit => TimelineTypeOK
  <2> SUFFICES ASSUME TimelineInit PROVE TimelineTypeOK
    OBVIOUS
  <2>1. PICK v \in shape.streams[1].starts, a \in shape.streams[2].starts : sent = <<NewStream(v), NewStream(a)>>
    BY DEF TimelineInit
  <2>2. v \in Nat /\ a \in Nat
    BY ShapesAssumption DEF TimelineInit, Kinds, Media
  <2>3. /\ sent \in [Media -> {NewStream(v), NewStream(a)}]
        /\ \A i \in Media : sent[i] = NewStream(v) \/ sent[i] = NewStream(a)
    BY <2>1 DEF Media
  <2>4. ASSUME NEW t \in Nat
        PROVE  /\ NewStream(t) \in [clock : Nat, announced : SUBSET Nat, packets : Seq(Packets)]
               /\ NewStream(t).announced \subseteq 2 .. Len(NewStream(t).packets)
               /\ \A k \in DOMAIN NewStream(t).packets : /\ NewStream(t).packets[k].pos = PesBytes * k
                                                           /\ PesBytes * (k + 1) <= MaxInt
    BY DEF NewStream
  <2>5. sent \in [Media -> [clock : Nat, announced : SUBSET Nat, packets : Seq(Packets)]]
    BY <2>2, <2>3, <2>4
  <2>6. \A i \in Media : /\ sent[i].announced \subseteq 2 .. Len(sent[i].packets)
                         /\ \A k \in DOMAIN sent[i].packets : /\ sent[i].packets[k].pos = PesBytes * k
                                                               /\ PesBytes * (k + 1) <= MaxInt
    BY <2>2, <2>3, <2>4
  <2>7. shape \in Shapes
    BY DEF TimelineInit
  <2> QED BY <2>5, <2>6, <2>7 DEF TimelineTypeOK, Packets
<1>2. TimelineTypeOK /\ [TimelineNext]_TimelineVars => TimelineTypeOK'
  <2> SUFFICES ASSUME TimelineTypeOK, [TimelineNext]_TimelineVars PROVE TimelineTypeOK'
    OBVIOUS
  <2>1. CASE MuxVideo
    BY <2>1, MuxKeepsTypes DEF MuxVideo, Media
  <2>2. CASE MuxAudio
    BY <2>2, MuxKeepsTypes DEF MuxAudio, Media
  <2>3. CASE UNCHANGED TimelineVars
    BY <2>3 DEF TimelineTypeOK, TimelineVars
  <2> QED BY <2>1, <2>2, <2>3 DEF TimelineNext
<1> QED BY <1>1, <1>2, PTL DEF TimelineSpec

\* The 33-bit wrap leaves no trace in any report (unwrap.cpp), for every modulus, every
\* shape of file and files of any length.
THEOREM TheWrapIsInvisible == TimelineSpec => []WrapIsInvisible
<1>1. TimelineTypeOK => WrapIsInvisible
  BY WrapIsInvisibleIn
<1> QED BY <1>1, TimelineTyped, PTL

-------------------------------------------------------------------------------
(* The grid.                                                               *)

\* A product grows with its factor.
LEMMA ProductGrows ==
  ASSUME NEW m \in Nat, NEW x \in Int, NEW y \in Int, x <= y
  PROVE  m * x \in Int /\ m * y \in Int /\ m * x <= m * y
<1>1. (y - x) \in Nat
  OBVIOUS
<1>2. m * (y - x) \in Nat
  BY <1>1
<1>3. m * y = m * x + m * (y - x)
  OBVIOUS
<1> QED BY <1>2, <1>3

\* Twice a number against an odd multiple: above half way, and at it for even places.
LEMMA RoundedFrom ==
  ASSUME NEW b \in Nat \ {0}, NEW q \in Int, NEW rest \in Nat, rest < b, NEW r \in Int,
         r = IF 2 * rest > b \/ (2 * rest = b /\ q % 2 = 1) THEN q + 1 ELSE q,
         NEW low \in Int
  PROVE  /\ (2 * (b * q + rest) > b * (2 * low - 1)
              \/ (2 * (b * q + rest) = b * (2 * low - 1) /\ low % 2 = 0)) <=> r >= low
         /\ (2 * (b * q + rest) < b * (2 * low + 1)
              \/ (2 * (b * q + rest) = b * (2 * low + 1) /\ low % 2 = 0)) <=> r <= low
<1> DEFINE x == b * q
           y == b * low
<1>0. /\ x \in Int /\ y \in Int /\ 2 * (b * q + rest) = 2 * x + 2 * rest
      /\ b * (2 * low - 1) = 2 * y - b /\ b * (2 * low + 1) = 2 * y + b
  OBVIOUS
<1>1. /\ low <= q => y <= x
      /\ low = q + 1 => y = x + b
      /\ low >= q + 2 => y >= x + 2 * b
      /\ low = q => y = x
      /\ low <= q - 1 => y <= x - b
  <2>1. low <= q => y <= x
    BY ProductGrows
  <2>2. low = q + 1 => y = x + b
    OBVIOUS
  <2>3. low >= q + 2 => y >= x + 2 * b
    <3>1. b * (q + 2) = x + 2 * b
      OBVIOUS
    <3> QED BY <3>1, ProductGrows
  <2>4. low <= q - 1 => y <= x - b
    <3>1. b * (q - 1) = x - b
      OBVIOUS
    <3> QED BY <3>1, ProductGrows
  <2> QED BY <2>1, <2>2, <2>3, <2>4
<1>2. q % 2 = 1 \/ q % 2 = 0
  OBVIOUS
<1>3. (q + 1) % 2 = 0 <=> q % 2 = 1
  OBVIOUS
<1> HIDE DEF x, y
<1>4. r = q \/ r = q + 1
  OBVIOUS
<1>5. (2 * x + 2 * rest > 2 * y - b \/ (2 * x + 2 * rest = 2 * y - b /\ low % 2 = 0)) <=> r >= low
  <2>1. CASE low <= q
    BY <1>0, <1>1, <1>4, <2>1
  <2>2. CASE low = q + 1
    BY <1>0, <1>1, <1>2, <1>3, <1>4, <2>2
  <2>3. CASE low >= q + 2
    BY <1>0, <1>1, <1>4, <2>3
  <2> QED BY <2>1, <2>2, <2>3
<1>6. (2 * x + 2 * rest < 2 * y + b \/ (2 * x + 2 * rest = 2 * y + b /\ low % 2 = 0)) <=> r <= low
  <2>1. CASE low <= q - 1
    BY <1>0, <1>1, <1>4, <2>1
  <2>2. CASE low = q
    BY <1>0, <1>1, <1>2, <1>4, <2>2
  <2>3. CASE low >= q + 1
    <3>1. y >= x + b
      BY <1>0, <1>1, <2>3
    <3> QED BY <1>0, <1>4, <2>3, <3>1
  <2> QED BY <2>1, <2>2, <2>3
<1> QED BY <1>0, <1>5, <1>6

\* The code's comparison of products is distance from the rounded quotient.
LEMMA ConformsMeansNear ==
  ASSUME NEW a \in Nat, NEW b \in Nat \ {0}, NEW d \in Int
  PROVE  ConformsToGrid(a, b, d) <=> Abs(d - RoundHalfEven(a, b)) <= 1
<1> DEFINE q == a \div b
           rest == a % b
           r == RoundHalfEven(a, b)
           low == d - 1
           high == d + 1
<1>1. q \in Nat /\ rest \in Nat /\ rest < b /\ a = b * q + rest
  BY Division
<1>2. r = IF 2 * rest > b \/ (2 * rest = b /\ q % 2 = 1) THEN q + 1 ELSE q
  BY DEF RoundHalfEven
<1>3. ConformsToGrid(a, b, d) <=>
        /\ 2 * a > b * (2 * low - 1) \/ (2 * a = b * (2 * low - 1) /\ low % 2 = 0)
        /\ 2 * a < b * (2 * high + 1) \/ (2 * a = b * (2 * high + 1) /\ high % 2 = 0)
  BY DEF ConformsToGrid
<1>4. low \in Int /\ high \in Int /\ low = d - 1 /\ high = d + 1
  OBVIOUS
<1> HIDE DEF q, rest, r, low, high
<1>5. r \in Int
  BY <1>1, <1>2
<1>6. (2 * a > b * (2 * low - 1) \/ (2 * a = b * (2 * low - 1) /\ low % 2 = 0)) <=> r >= low
  BY <1>1, <1>2, <1>4, <1>5, RoundedFrom
<1>7. (2 * a < b * (2 * high + 1) \/ (2 * a = b * (2 * high + 1) /\ high % 2 = 0)) <=> r <= high
  BY <1>1, <1>2, <1>4, <1>5, RoundedFrom
<1>8. Abs(d - r) <= 1 <=> r >= low /\ r <= high
  BY <1>4, <1>5 DEF Abs
<1> QED BY <1>3, <1>6, <1>7, <1>8 DEF r

\* Times in order of themselves.
LEMMA TimesInOrder ==
  ASSUME NEW n \in Nat, NEW vals, vals \in [1..n -> Nat]
  PROVE  /\ IsList(Ascending(vals, vals), n) /\ Len(Ascending(vals, vals)) = n
         /\ \A k \in 1..n : Ascending(vals, vals)[k] \in Nat
         /\ \A j, k \in 1..n : j <= k => Ascending(vals, vals)[j] <= Ascending(vals, vals)[k]
<1> DEFINE times == Ascending(vals, vals)
<1>1. DOMAIN vals = 1..n /\ \A k \in 1..n : vals[k] \in Nat
  OBVIOUS
<1>2. /\ IsList(times, n)
      /\ \A k \in 1..n : times[k] = vals[Ranked(1..n, vals, k)]
  BY <1>1, AscendingIs
<1>3. AreRanked(1..n, vals) /\ Cardinality(1..n) = n
  BY <1>1, FS_Interval DEF AreRanked
<1>4. \A k \in 1..n : Ranked(1..n, vals, k) \in 1..n
  BY <1>3, RankedIs
<1>5. \A j, k \in 1..n : j < k => times[j] <= times[k]
  <2> SUFFICES ASSUME NEW j \in 1..n, NEW k \in 1..n, j < k
               PROVE  times[j] <= times[k]
    OBVIOUS
  <2>1. Before(vals, Ranked(1..n, vals, j), Ranked(1..n, vals, k))
    BY <1>3, RankedInOrder
  <2>2. vals[Ranked(1..n, vals, j)] <= vals[Ranked(1..n, vals, k)]
    <3> DEFINE a == Ranked(1..n, vals, j)
               b == Ranked(1..n, vals, k)
    <3>1. a \in 1..n /\ b \in 1..n /\ Before(vals, a, b)
      BY <1>4, <2>1
    <3> HIDE DEF a, b
    <3>2. vals[a] \in Nat /\ vals[b] \in Nat
      BY <1>1, <3>1
    <3>3. vals[a] <= vals[b]
      BY <3>1, <3>2 DEF Before
    <3> QED BY <3>3 DEF a, b
  <2> QED BY <1>2, <2>2
<1>6. \A k \in 1..n : times[k] \in Nat
  BY <1>1, <1>2, <1>4
<1> HIDE DEF times
<1>7. \A j, k \in 1..n : j <= k => times[j] <= times[k]
  BY <1>5, <1>6
<1>8. Len(times) = n
  BY <1>2 DEF IsList
<1> QED BY <1>2, <1>6, <1>7, <1>8 DEF times

\* All or not all of few.
LEMMA AllOfFew ==
  ASSUME NEW n \in Nat, 1 <= n, n < 200, NEW some, some \subseteq 1..n
  PROVE  Cardinality(some) * CfrProportion[2] >= n * CfrProportion[1] <=> some = 1..n
<1>1. IsFiniteSet(1..n) /\ Cardinality(1..n) = n
  BY FS_Interval
<1>a. some \in SUBSET (1..n)
  OBVIOUS
<1>2. IsFiniteSet(some) /\ Cardinality(some) \in Nat /\ Cardinality(some) <= n
  BY <1>1, <1>a, FS_Subset, FS_CardinalityType
<1>b. Cardinality(1..n) = Cardinality(some) => 1..n = some
  BY <1>1, <1>a, FS_Subset, Zenon
<1>3. some # 1..n => Cardinality(some) < n
  BY <1>1, <1>2, <1>b
<1>4. CfrProportion[2] = 1000 /\ CfrProportion[1] = 995
  BY DEF CfrProportion
<1> DEFINE c == Cardinality(some)
<1>5. some = 1..n => c = n
  BY <1>1
<1> HIDE DEF c
<1> QED
  <2>1. c \in Nat /\ c <= n /\ (some # 1..n => c < n) /\ (some = 1..n => c = n)
    BY <1>2, <1>3, <1>5 DEF c
  <2>2. c * 1000 >= n * 995 <=> some = 1..n
    BY <2>1
  <2> QED BY <1>4, <2>2 DEF c

\* Where a place of the grid is.
OnGrid(times, k, count) ==
  Abs(times[k] - times[1] - RoundHalfEven((k - 1) * (Last(times) - times[1]), count)) <= 1

\* Below 200 packets the proportion asked for is all of them.
LEMMA CfrIsOnGrid ==
  ASSUME NEW n \in Nat, 2 <= n, n < 200, NEW times, IsList(times, n), Len(times) = n,
         \A k \in 1..n : times[k] \in Nat,
         \A j, k \in 1..n : j <= k => times[j] <= times[k],
         NEW axis, CadenceOf(axis, times).status = "ok"
  PROVE  CadenceOf(axis, times).cfr <=> \A k \in 1..n : OnGrid(times, k, n - 1)
<1> DEFINE intervals == Intervals(times)
           span == Last(times) - times[1]
           grid == [k \in DOMAIN times |-> (k - 1) * span]
           near == {k \in DOMAIN times : ConformsToGrid(grid[k], Len(intervals), times[k] - times[1])}
<1>1. DOMAIN times = 1..n
  BY DEF IsList
<1>2. Len(intervals) = n - 1
  BY DEF Intervals
<1>3. Last(times) = times[n] /\ span \in Nat
  BY DEF Last
<1>4. CadenceOf(axis, times).cfr <=> Cardinality(near) * CfrProportion[2] >= n * CfrProportion[1]
  <2> DEFINE bool == Cardinality(near) * CfrProportion[2] >= Len(times) * CfrProportion[1]
  <2>1. CadenceOf(axis, times) = NoCadence("insufficient_data") \/ CadenceOf(axis, times).cfr = bool
    BY DEF CadenceOf
  <2>2. NoCadence("insufficient_data").status # "ok"
    BY DEF NoCadence
  <2> HIDE DEF bool
  <2>3. CadenceOf(axis, times).cfr = bool
    BY <2>1, <2>2
  <2>4. bool <=> Cardinality(near) * CfrProportion[2] >= n * CfrProportion[1]
    BY DEF bool
  <2> HIDE DEF near
  <2> QED BY <2>3, <2>4
<1>5. near \subseteq 1..n
  BY <1>1
<1>6. CadenceOf(axis, times).cfr <=> near = 1..n
  <2> HIDE DEF near
  <2>1. Cardinality(near) * CfrProportion[2] >= n * CfrProportion[1] <=> near = 1..n
    <3>1. 1 <= n
      OBVIOUS
    <3> QED BY <1>5, <3>1, AllOfFew, Zenon
  <2> QED BY <1>4, <2>1
<1>7. ASSUME NEW k \in 1..n
      PROVE  k \in near <=> OnGrid(times, k, n - 1)
  <2>1. (k - 1) * span \in Nat
    <3> HIDE DEF span
    <3> QED BY <1>3
  <2>2. times[k] - times[1] \in Int
    OBVIOUS
  <2>3. k \in near <=> ConformsToGrid((k - 1) * span, n - 1, times[k] - times[1])
    BY <1>1, <1>2
  <2>4. ConformsToGrid((k - 1) * span, n - 1, times[k] - times[1])
          <=> Abs(times[k] - times[1] - RoundHalfEven((k - 1) * span, n - 1)) <= 1
    <3> HIDE DEF span
    <3> QED BY <2>1, <2>2, ConformsMeansNear
  <2> QED BY <2>3, <2>4 DEF OnGrid
<1> HIDE DEF near
<1>8. near = 1..n <=> \A k \in 1..n : OnGrid(times, k, n - 1)
  BY <1>5, <1>7
<1> QED BY <1>6, <1>8

\* The cadence of packets that are all presented, on the axis of their presentation.
LEMMA CadenceIs ==
  ASSUME NEW n \in Nat, n >= 2, NEW packets, HasAxis(packets, n, "pts"), NEW tb,
         DeriveCadence(packets, tb).status = "ok"
  PROVE  DeriveCadence(packets, tb) = CadenceOf("pts", Ascending(AxisOf(packets, "pts"), AxisOf(packets, "pts")))
<1> DEFINE vals == AxisOf(packets, "pts")
           others == Values(Samples(packets, "dts"))
           Sorted(values) == Ascending(values, values)
           Chosen(pts, dts) ==
            LET axis == IF Len(pts) >= 2 THEN "pts" ELSE "dts"
                values == IF axis = "pts" THEN pts ELSE dts
            IN IF tb.num <= 0 \/ tb.den <= 0 THEN NoCadence("insufficient_data")
               ELSE IF pts = <<>> /\ dts = <<>> THEN NoCadence("no_timing_data")
               ELSE IF Len(values) < 2 THEN NoCadence("insufficient_data")
               ELSE CadenceOf(axis, Sorted(values))
<1>1. IsList(packets, n)
  BY DEF HasAxis
<1>2. IsList(vals, n)
  BY <1>1 DEF IsList, AxisOf
<1>3. Values(Samples(packets, "pts")) = vals
  BY <1>1, <1>2, SamplesOfAll, ValuesOfSampled
<1>4. DeriveCadence(packets, tb) = Chosen(vals, others)
  BY <1>3 DEF DeriveCadence
<1>5. Len(vals) = n
  <2> HIDE DEF vals
  <2> QED BY <1>2 DEF IsList
<1>6. \A why : NoCadence(why).status = why
  BY DEF NoCadence
<1>7. "insufficient_data" # "ok" /\ "no_timing_data" # "ok"
  OBVIOUS
<1> HIDE DEF others, vals
<1> DEFINE told == CadenceOf("pts", Sorted(vals))
<1>8. \/ Chosen(vals, others) = NoCadence("insufficient_data")
      \/ Chosen(vals, others) = NoCadence("no_timing_data")
      \/ Chosen(vals, others) = told
  BY <1>5
<1> HIDE DEF Chosen
<1>9. Chosen(vals, others) = told
  BY <1>4, <1>6, <1>7, <1>8
<1> QED BY <1>4, <1>9 DEF vals

\* What every file satisfies: the proportion against the grid.
LEMMA CfrMeansOnTheGridIn ==
  ASSUME TimelineTypeOK
  PROVE  CfrMeansOnTheGrid
<1> SUFFICES ASSUME NEW i \in Media, NEW times, times = Ascending(Pts(i), Pts(i)),
                    NEW cadence, cadence = DeriveCadence(sent[i].packets, shape.streams[i].tb),
                    Len(times) - 1 >= 1, Len(times) < 200, cadence.status = "ok"
             PROVE  cadence.cfr <=>
                      \A n \in DOMAIN times :
                         Abs(times[n] - times[1] - RoundHalfEven((n - 1) * (Last(times) - times[1]), Len(times) - 1)) <= 1
  BY DEF CfrMeansOnTheGrid
<1> DEFINE n == Len(Sent(i))
<1>1. n \in Nat /\ AreSent(Sent(i), n) /\ Pts(i) = AxisOf(Sent(i), "pts")
  BY WhatIsSent
<1> HIDE DEF n
<1>2. AreTimes(Pts(i), n) /\ HasAxis(Sent(i), n, "pts")
  BY <1>1, SentAxes DEF Axes
<1>3. Pts(i) \in [1..n -> Nat]
  BY <1>2, Numbers DEF AreTimes, Moments
<1>4. /\ IsList(times, n) /\ Len(times) = n
      /\ \A k \in 1..n : times[k] \in Nat
      /\ \A j, k \in 1..n : j <= k => times[j] <= times[k]
  BY <1>1, <1>3, TimesInOrder
<1>5. n >= 2 /\ 2 <= n /\ n < 200
  BY <1>1, <1>4
<1>6. cadence = CadenceOf("pts", times)
  BY <1>1, <1>2, <1>5, CadenceIs DEF Sent
<1>7. cadence.cfr <=> \A k \in 1..n : OnGrid(times, k, n - 1)
  BY <1>1, <1>4, <1>5, <1>6, CfrIsOnGrid
<1>8. DOMAIN times = 1..n
  BY <1>4 DEF IsList
<1> QED BY <1>4, <1>7, <1>8 DEF OnGrid

-------------------------------------------------------------------------------
(* The packets in presentation order, and the gaps between them.           *)

\* A usual interval there is.
LEMMA ModeIs ==
  ASSUME NEW m \in Nat \ {0}, NEW intervals, IsList(intervals, m), \A k \in 1..m : intervals[k] \in Nat
  PROVE  Mode(intervals) \in Nat
<1> DEFINE all == ToSet(intervals)
           times(x) == Count(intervals, x)
           lacks == {m - times(d) : d \in all}
           modes == {d \in all : \A e \in all : times(e) <= times(d)}
<1>1. DOMAIN intervals = 1..m
  BY DEF IsList
<1>2. all \subseteq Nat /\ all # {}
  <2>1. all = {intervals[k] : k \in 1..m}
    BY <1>1 DEF ToSet
  <2>2. intervals[1] \in all
    BY <2>1
  <2> QED BY <2>1, <2>2
<1>3. \A x : times(x) \in Nat /\ times(x) <= m
  <2> TAKE x
  <2> DEFINE at == {k \in 1..m : intervals[k] = x}
  <2>1. IsFiniteSet(1..m) /\ Cardinality(1..m) = m
    BY FS_Interval
  <2>2. at \in SUBSET (1..m)
    OBVIOUS
  <2>3. IsFiniteSet(at) /\ Cardinality(at) \in Nat /\ Cardinality(at) <= m
    <3> HIDE DEF at
    <3> QED BY <2>1, <2>2, FS_Subset, FS_CardinalityType
  <2>4. times(x) = Cardinality(at)
    BY <1>1 DEF Count
  <2> HIDE DEF at
  <2> QED BY <2>3, <2>4
<1> HIDE DEF all, times
<1>4. lacks \in SUBSET Nat /\ lacks # {}
  <2>1. \A x : m - times(x) \in Nat
    BY <1>3
  <2>2. lacks \subseteq Nat
    BY <2>1
  <2>3. PICK d \in all : TRUE
    BY <1>2
  <2>4. m - times(d) \in lacks
    BY <2>3
  <2> QED BY <2>2, <2>4
<1>5. PICK d \in all : \A y \in lacks : m - times(d) <= y
  <2> HIDE DEF lacks
  <2>1. Min(lacks) \in lacks /\ \A y \in lacks : Min(lacks) <= y
    BY <1>4, LeastOf
  <2>2. PICK d \in all : Min(lacks) = m - times(d)
    BY <2>1 DEF lacks
  <2> QED BY <2>1, <2>2
<1>6. \A e \in all : times(e) <= times(d)
  <2> TAKE e \in all
  <2>1. m - times(d) <= m - times(e)
    BY <1>5
  <2> QED BY <1>3, <2>1
<1>7. modes \in SUBSET Nat /\ modes # {}
  BY <1>2, <1>6
<1>8. Mode(intervals) = Min(modes)
  BY DEF Mode, all, times
<1> HIDE DEF modes
<1>9. Min(modes) \in modes
  BY <1>7, LeastOf
<1> QED BY <1>7, <1>8, <1>9

\* The usual interval of packets that are presented in order of some times.
LEMMA NominalIs ==
  ASSUME NEW n \in Nat, 2 <= n, NEW times, IsList(times, n), Len(times) = n,
         \A k \in 1..n : times[k] \in Nat,
         \A j, k \in 1..n : j <= k => times[j] <= times[k],
         NEW axis, CadenceOf(axis, times).status = "ok"
  PROVE  CadenceOf(axis, times).nominal \in Nat
<1> DEFINE intervals == Intervals(times)
           bool == CadenceOf(axis, times).nominal
<1>1. IsList(intervals, n - 1) /\ \A k \in 1..(n - 1) : intervals[k] = times[k + 1] - times[k]
  BY DEF Intervals, IsList
<1>2. \A k \in 1..(n - 1) : intervals[k] \in Nat
  <2> TAKE k \in 1..(n - 1)
  <2>1. times[k] <= times[k + 1] /\ times[k] \in Nat /\ times[k + 1] \in Nat
    OBVIOUS
  <2> QED BY <1>1, <2>1
<1>3. n - 1 \in Nat \ {0}
  OBVIOUS
<1>4. Mode(intervals) \in Nat
  <2> HIDE DEF intervals
  <2> QED BY <1>1, <1>2, <1>3, ModeIs
<1>5. CadenceOf(axis, times) = NoCadence("insufficient_data") \/ CadenceOf(axis, times).nominal = Mode(intervals)
  BY DEF CadenceOf
<1>6. NoCadence("insufficient_data").status # "ok"
  BY DEF NoCadence
<1> HIDE DEF intervals
<1> QED BY <1>4, <1>5, <1>6

\* Packets put in the order in which they are presented.
IsShowing(shown, packets, n) ==
  /\ IsList(shown, n) /\ Len(shown) = n
  /\ \A k \in 1..n : shown[k] \in Packets /\ \E m \in 1..n : shown[k] = packets[m]
  /\ \A m \in 1..n : \E k \in 1..n : shown[k] = packets[m]
  /\ \A j, k \in 1..n : j <= k => shown[j].pts <= shown[k].pts
\* The samples of these packets.
IsShownBy(order, shown, packets, n) ==
  /\ IsList(order, n) /\ Len(order) = n
  /\ \A k \in 1..n : /\ order[k].index \in 1..n /\ order[k].value = shown[k].pts
                     /\ packets[order[k].index] = shown[k]

\* Packets in presentation order are each shown once.
LEMMA ShowingIs ==
  ASSUME NEW n \in Nat, NEW packets, AreSent(packets, n)
  PROVE  /\ IsShowing(Ascending(packets, AxisOf(packets, "pts")), packets, n)
         /\ IsShownBy(Presented(Samples(packets, "pts")), Ascending(packets, AxisOf(packets, "pts")), packets, n)
<1> DEFINE keys == AxisOf(packets, "pts")
           shown == Ascending(packets, keys)
           samples == Sampled(keys, packets)
           order == Presented(Samples(packets, "pts"))
           at(k) == Ranked(1..n, keys, k)
<1>1. DOMAIN packets = 1..n /\ IsList(packets, n) /\ \A k \in 1..n : packets[k] \in Packets
  BY DEF AreSent, IsList
<1>2. HasAxis(packets, n, "pts") /\ AreTimes(keys, n)
  BY SentAxes DEF Axes
<1>3. IsList(keys, n) /\ \A k \in 1..n : keys[k] = packets[k].pts /\ keys[k] \in Int
  BY <1>1, <1>2, Numbers DEF AreTimes, Moments, AxisOf, IsList
<1>4. /\ IsList(shown, n)
      /\ \A k \in 1..n : shown[k] = packets[at(k)]
  BY <1>1, AscendingIs
<1>5. /\ DOMAIN samples = 1..n /\ Values(samples) = keys
      /\ \A k \in 1..n : samples[k].index = k /\ samples[k].value = keys[k]
  <2>1. DOMAIN samples = 1..n /\ Values(samples) = keys
    BY <1>1, <1>3, ValuesOfSampled
  <2> HIDE DEF keys
  <2>2. \A k \in 1..n : samples[k].index = k /\ samples[k].value = keys[k]
    BY <1>1 DEF Sampled
  <2> QED BY <2>1, <2>2
<1>6. Samples(packets, "pts") = samples
  BY <1>2, SamplesOfAll
<1>7. /\ IsList(order, n)
      /\ \A k \in 1..n : order[k] = samples[at(k)]
  <2>1. order = Ascending(samples, keys)
    BY <1>5, <1>6 DEF Presented
  <2> HIDE DEF order, samples, keys
  <2> QED BY <1>5, <2>1, AscendingIs
<1>8. AreRanked(1..n, keys) /\ Cardinality(1..n) = n
  <2> HIDE DEF keys
  <2>1. IsFiniteSet(1..n) /\ Cardinality(1..n) = n
    BY FS_Interval
  <2> QED BY <1>3, <2>1 DEF AreRanked
<1>9. /\ \A k \in 1..n : at(k) \in 1..n
      /\ \A m \in 1..n : \E k \in 1..n : at(k) = m
  <2>1. \A k \in 1..n : at(k) \in 1..n
    BY <1>8, RankedIs
  <2>2. \A m \in 1..n : Rank(1..n, keys, m) \in 1..n
    BY <1>8, RankInRange
  <2>3. \A m \in 1..n : at(Rank(1..n, keys, m)) = m
    BY <1>8, RankedIs
  <2> QED BY <2>1, <2>2, <2>3
<1>10. \A j, k \in 1..n : j < k => keys[at(j)] <= keys[at(k)]
  <2> SUFFICES ASSUME NEW j \in 1..n, NEW k \in 1..n, j < k PROVE keys[at(j)] <= keys[at(k)]
    OBVIOUS
  <2>1. Before(keys, at(j), at(k))
    BY <1>8, RankedInOrder
  <2> HIDE DEF at
  <2> QED BY <1>3, <1>9, <2>1 DEF Before
<1> HIDE DEF keys, shown, samples, order, at
<1>11. Len(shown) = n /\ Len(order) = n
  BY <1>4, <1>7 DEF IsList
<1>12. \A j, k \in 1..n : j <= k => shown[j].pts <= shown[k].pts
  <2> SUFFICES ASSUME NEW j \in 1..n, NEW k \in 1..n, j <= k PROVE shown[j].pts <= shown[k].pts
    OBVIOUS
  <2>1. shown[j].pts = keys[at(j)] /\ shown[k].pts = keys[at(k)] /\ keys[at(j)] \in Int
    BY <1>3, <1>4, <1>9
  <2>2. CASE j < k
    BY <1>10, <2>1, <2>2
  <2>3. CASE j = k
    BY <2>1, <2>3
  <2> QED BY <2>2, <2>3
<1>13. IsShowing(shown, packets, n)
  BY <1>1, <1>4, <1>9, <1>11, <1>12 DEF IsShowing
<1>14. IsShownBy(order, shown, packets, n)
  <2>1. \A k \in 1..n : /\ order[k].index = at(k) /\ order[k].value = keys[at(k)]
                        /\ shown[k] = packets[at(k)] /\ at(k) \in 1..n
    BY <1>4, <1>5, <1>7, <1>9
  <2>2. \A k \in 1..n : shown[k].pts = keys[at(k)]
    BY <1>3, <2>1
  <2>3. \A k \in 1..n : /\ order[k].index \in 1..n /\ order[k].value = shown[k].pts
                        /\ packets[order[k].index] = shown[k]
    BY <2>1, <2>2
  <2> QED BY <1>7, <1>11, <2>3 DEF IsShownBy
<1> QED BY <1>13, <1>14 DEF shown, order, keys

\* Packets that are given the times they have.
LEMMA AtOwnTimes ==
  ASSUME NEW n \in Nat, NEW packets, AreSent(packets, n)
  PROVE  AtTimes(packets, "pts", AxisOf(packets, "pts")) = packets
<1>1. DOMAIN packets = 1..n /\ IsList(packets, n) /\ \A k \in 1..n : packets[k] \in Packets
  BY DEF AreSent, IsList
<1> DEFINE vals == AxisOf(packets, "pts")
<1>2. \A k \in 1..n : vals[k] = packets[k].pts
  BY <1>1 DEF AxisOf
<1>3. ASSUME NEW k \in 1..n, NEW moved, moved = [packets[k] EXCEPT !["pts"] = vals[k]]
      PROVE  moved = packets[k]
  <2> DEFINE p == packets[k]
  <2>1. IsPacket(p, p.pts, p.dts, p.duration, p.pos)
    BY <1>1 DEF Packets, IsPacket
  <2> HIDE DEF p, vals
  <2>2. IsPacket(moved, vals[k], p.dts, p.duration, p.pos)
    BY <1>3, <2>1, RetimedPacket DEF p
  <2>3. vals[k] = p.pts
    BY <1>2 DEF p
  <2> QED BY <2>1, <2>2, <2>3 DEF IsPacket, p
<1> HIDE DEF vals
<1>4. AtTimes(packets, "pts", vals) = [k \in 1..n |-> packets[k]]
  <2>1. AtTimes(packets, "pts", vals) = [k \in 1..n |-> [packets[k] EXCEPT !["pts"] = vals[k]]]
    BY <1>1 DEF AtTimes
  <2>2. \A k \in 1..n : [packets[k] EXCEPT !["pts"] = vals[k]] = packets[k]
    BY <1>3
  <2> QED BY <2>1, <2>2
<1> QED BY <1>1, <1>4 DEF vals, IsList

\* How long the packets last, as far as the code can tell.
AreLasting(all, shown, n) ==
  /\ IsList(all, n) /\ Len(all) = n
  /\ \A k \in 1..n : all[k].pts = shown[k].pts
  /\ \A k \in 1..(n - 1) : all[k].duration = IF shown[k].duration > 0 THEN shown[k].duration
                                             ELSE shown[k + 1].pts - shown[k].pts
\* Durations the code puts back, in presentation order.
LEMMA ReconstructedIs ==
  ASSUME NEW n \in Nat, NEW packets, AreSent(packets, n), NEW shown, IsShowing(shown, packets, n),
         IsShownBy(Presented(Samples(packets, "pts")), shown, packets, n), NEW tb
  PROVE  \/ Reconstructed(packets, tb) = <<>>
         \/ \E all : Reconstructed(packets, tb) = <<all>> /\ AreLasting(all, shown, n)
<1> DEFINE order == Presented(Samples(packets, "pts"))
           cadence == DeriveCadence(packets, tb)
           D(j) == packets[order[j].index].duration
           Delta(j) == order[j + 1].value - order[j].value
           Ends(j) == IF j < Len(order) THEN Fits(Delta(j)) ELSE cadence.status = "ok"
           Lasts(j) == IF D(j) > 0 THEN D(j) ELSE IF j < Len(order) THEN Delta(j) ELSE cadence.nominal
           all == [j \in DOMAIN order |-> [pts |-> order[j].value, duration |-> Lasts(j), declared |-> D(j) > 0]]
<1>1. Reconstructed(packets, tb) = IF order = <<>> \/ \E j \in DOMAIN order : D(j) <= 0 /\ ~Ends(j) THEN <<>> ELSE <<all>>
  BY DEF Reconstructed
<1>2. /\ IsList(order, n) /\ Len(order) = n /\ DOMAIN order = 1..n
      /\ \A k \in 1..n : /\ order[k].value = shown[k].pts
                         /\ D(k) = shown[k].duration
  BY DEF IsShownBy, IsList
<1> HIDE DEF order, D
<1>3. \A k \in 1..n : all[k].pts = order[k].value /\ all[k].duration = Lasts(k)
  BY <1>2
<1>4. DOMAIN all = 1..n /\ all = [j \in 1..n |-> all[j]]
  BY <1>2
<1>5. \A k \in 1..(n - 1) : Lasts(k) = IF shown[k].duration > 0 THEN shown[k].duration
                                       ELSE shown[k + 1].pts - shown[k].pts
  <2> TAKE k \in 1..(n - 1)
  <2>1. k \in 1..n /\ k + 1 \in 1..n /\ k < Len(order)
    BY <1>2
  <2>2. D(k) = shown[k].duration /\ Delta(k) = shown[k + 1].pts - shown[k].pts
    BY <1>2, <2>1
  <2> HIDE DEF Delta
  <2> QED BY <2>1, <2>2
<1> HIDE DEF all, Lasts, Ends
<1>6. AreLasting(all, shown, n)
  <2>1. IsList(all, n) /\ Len(all) = n
    BY <1>4 DEF IsList
  <2>2. \A k \in 1..n : all[k].pts = shown[k].pts
    BY <1>2, <1>3
  <2>3. \A k \in 1..(n - 1) : all[k].duration = IF shown[k].duration > 0 THEN shown[k].duration
                                                ELSE shown[k + 1].pts - shown[k].pts
    <3> TAKE k \in 1..(n - 1)
    <3>1. k \in 1..n
      OBVIOUS
    <3>2. all[k].duration = Lasts(k)
      BY <1>3, <3>1
    <3> QED BY <1>5, <3>2
  <2> QED BY <2>1, <2>2, <2>3 DEF AreLasting
<1> QED BY <1>1, <1>6

\* What is told of a gap between two packets that are presented one after the other.
GapsBetween(shown, n, tb) ==
  {<<InMs(shown[j].pts, tb), InMs(shown[j + 1].pts, tb)>> :
     j \in {k \in 1..(n - 1) : shown[k].pts + shown[k].duration < shown[k + 1].pts}}

\* The gaps found between neighbours in presentation order.
LEMMA GapsAmongAre ==
  ASSUME NEW n \in Nat, n >= 2, NEW packets, NEW shown, IsShowing(shown, packets, n),
         NEW all, AreLasting(all, shown, n), NEW cadence, cadence.nominal \in Nat, NEW tb
  PROVE  Told(GapsAmong(all, cadence, tb)) \subseteq GapsBetween(shown, n, tb)
<1> DEFINE after == {j \in 1 .. Len(all) - 1 : IsGap(all[j], all[j + 1], cadence.nominal)}
           exact == Fits(GapNominalMultiplier * cadence.nominal) /\
                    \A j \in 1 .. Len(all) - 1 : /\ Fits(all[j + 1].pts - all[j].pts)
                                                 /\ Fits(all[j].duration + GapSlackTicks)
           steps == [j \in 1 .. Len(all) - 1 |-> <<all[j].pts, all[j + 1].pts>>]
           spans == SpansMs(Kept(steps, after), tb)
<1>1. GapsAmong(all, cadence, tb) = IF ~exact \/ spans = <<>> THEN Skips("insufficient_data") ELSE Reports(spans[1])
  BY DEF GapsAmong
<1>2. Len(all) = n
  BY DEF AreLasting
<1>3. IsFiniteSet(after) /\ after \subseteq 1..(n - 1) /\ after \subseteq Int
  <2>1. after \in SUBSET (1..(n - 1))
    BY <1>2
  <2>2. IsFiniteSet(1..(n - 1))
    BY FS_Interval
  <2> HIDE DEF after
  <2>3. IsFiniteSet(after)
    BY <2>1, <2>2, FS_Subset
  <2> QED BY <2>1, <2>3
<1>4. ASSUME NEW j \in after
      PROVE  /\ shown[j].pts + shown[j].duration < shown[j + 1].pts
             /\ steps[j] = <<shown[j].pts, shown[j + 1].pts>>
  <2>1. j \in 1..(n - 1) /\ j \in 1..n /\ j + 1 \in 1..n
    <3> HIDE DEF after
    <3>1. j \in 1..(n - 1)
      BY <1>3
    <3> QED BY <3>1
  <2>2. /\ all[j].pts = shown[j].pts /\ all[j + 1].pts = shown[j + 1].pts
        /\ all[j].duration = IF shown[j].duration > 0 THEN shown[j].duration
                             ELSE shown[j + 1].pts - shown[j].pts
    BY <2>1 DEF AreLasting
  <2>3. /\ shown[j].pts \in Nat /\ shown[j + 1].pts \in Nat /\ shown[j].duration \in Nat
    <3>1. shown[j] \in Packets /\ shown[j + 1] \in Packets
      BY <2>1 DEF IsShowing
    <3>2. \A p \in Packets : p.pts \in Nat /\ p.duration \in Nat
      BY Numbers DEF Packets, Moments
    <3> HIDE DEF after, exact, steps, spans
    <3> QED BY <3>1, <3>2
  <2>4. all[j].duration \in Int
    BY <2>2, <2>3
  <2> DEFINE twice == GapNominalMultiplier * cadence.nominal
             lasts == all[j].duration + GapSlackTicks
  <2>5. twice \in Int /\ lasts \in Int /\ lasts = all[j].duration + 1
    BY <2>4 DEF GapNominalMultiplier, GapSlackTicks
  <2>6. all[j + 1].pts - all[j].pts > Max({twice, lasts})
    BY DEF IsGap
  <2> HIDE DEF twice, lasts
  <2>7. Max({twice, lasts}) \in Int /\ Max({twice, lasts}) >= lasts
    BY <2>5, NoLessThanEither
  <2>8. shown[j + 1].pts - shown[j].pts > all[j].duration + 1
    <3> DEFINE most == Max({twice, lasts})
               apart == shown[j + 1].pts - shown[j].pts
    <3>1. most \in Int /\ most >= lasts /\ apart > most
      BY <2>2, <2>6, <2>7
    <3>2. apart \in Int
      BY <2>3
    <3> HIDE DEF after, exact, steps, spans, most, apart
    <3>3. apart > lasts
      BY <2>5, <3>1, <3>2
    <3>4. apart > all[j].duration + 1
      BY <2>5, <3>3
    <3> QED BY <3>4 DEF apart
  <2>9. steps[j] = <<shown[j].pts, shown[j + 1].pts>>
    BY <1>2, <2>1, <2>2
  <2> HIDE DEF after, exact, steps, spans
  <2>10. all[j].duration >= shown[j].duration
    <3>1. CASE shown[j].duration > 0
      BY <2>2, <2>3, <3>1
    <3>2. CASE shown[j].duration <= 0
      <4>1. all[j].duration = shown[j + 1].pts - shown[j].pts
        BY <2>2, <2>3, <3>2
      <4> QED BY <2>3, <2>4, <2>8, <3>2, <4>1
    <3> QED BY <2>3, <3>1, <3>2
  <2>11. shown[j].pts + shown[j].duration < shown[j + 1].pts
    BY <2>3, <2>4, <2>8, <2>10
  <2> QED BY <2>9, <2>11
<1> HIDE DEF after, exact, steps
<1>5. CASE ~exact \/ spans = <<>>
  <2>1. GapsAmong(all, cadence, tb) = Skips("insufficient_data")
    BY <1>1, <1>5
  <2>2. Told(Skips("insufficient_data")) = {}
    BY DEF Told, Skips
  <2> QED BY <2>1, <2>2
<1>6. CASE exact /\ spans # <<>>
  <2>1. GapsAmong(all, cadence, tb) = Reports(spans[1])
    BY <1>1, <1>6
  <2>2. Told(Reports(spans[1])) = ToSet(spans[1])
    <3> HIDE DEF spans
    <3> QED BY DEF Told, Reports
  <2>3. ToSet(spans[1]) = SpansAt(steps, after, tb) /\ \A j \in after : HasMs(steps[j], tb)
    BY <1>3, <1>6, SpansOfSteps
  <2>4. ASSUME NEW j \in after
        PROVE  AsSpan(steps[j], tb) \in GapsBetween(shown, n, tb)
    <3>1. steps[j] = <<shown[j].pts, shown[j + 1].pts>> /\ HasMs(steps[j], tb)
      BY <1>4, <2>3
    <3>2. /\ TicksToMs(shown[j].pts, tb) # <<>> /\ TicksToMs(shown[j + 1].pts, tb) # <<>>
          /\ AsSpan(steps[j], tb) = <<TicksToMs(shown[j].pts, tb)[1], TicksToMs(shown[j + 1].pts, tb)[1]>>
      BY <3>1 DEF HasMs, AsSpan
    <3>3. \A t : TicksToMs(t, tb) # <<>> => TicksToMs(t, tb)[1] = InMs(t, tb)
      BY DEF TicksToMs
    <3>4. AsSpan(steps[j], tb) = <<InMs(shown[j].pts, tb), InMs(shown[j + 1].pts, tb)>>
      BY <3>2, <3>3
    <3> QED BY <1>3, <1>4, <3>4 DEF GapsBetween
  <2>5. SpansAt(steps, after, tb) \subseteq GapsBetween(shown, n, tb)
    BY <2>4 DEF SpansAt
  <2> QED BY <2>1, <2>2, <2>3, <2>5
<1> QED BY <1>5, <1>6

\* The gaps of a whole stream are among the holes between its packets.
LEMMA GapsAre ==
  ASSUME TimelineTypeOK, NEW i \in Media, NEW n, n = Len(Sent(i)),
         NEW file, file.is_ts = FALSE, NEW s, s.packets = Sent(i)
  PROVE  Told(Gaps(file, s)) \subseteq GapsBetween(Shown(i), n, s.tb)
<1> DEFINE packets == Sent(i)
           shown == Shown(i)
           samples == Sampled(Pts(i), packets)
           cadence == DeriveCadence(packets, s.tb)
           durations == Reconstructed(packets, s.tb)
           Among == IF cadence.status # "ok" THEN Skips("insufficient_data")
                    ELSE IF durations = <<>> THEN Reports(<<>>)
                    ELSE IF Len(durations[1]) < 2 THEN Reports(<<>>)
                    ELSE GapsAmong(durations[1], cadence, s.tb)
<1>1. n \in Nat /\ AreSent(packets, n) /\ Pts(i) = AxisOf(packets, "pts")
  BY WhatIsSent
<1>2. HasAxis(packets, n, "pts") /\ AreTimes(Pts(i), n) /\ IsList(packets, n)
  BY <1>1, SentAxes DEF Axes, HasAxis
<1>3. PrepareAxis(packets, "pts", FALSE) = <<samples>>
  BY <1>1, <1>2, PreparedElsewhere
<1>4. WithAxis(packets, "pts", samples) = packets
  BY <1>1, <1>2, WithAxisIs, AtOwnTimes
<1>5. <<samples>> # <<>> /\ <<samples>>[1] = samples
  OBVIOUS
<1>6. Gaps(file, s) = IF samples = <<>> THEN Skips("no_timing_data") ELSE Among
  <2> HIDE DEF samples, packets
  <2> QED BY <1>3, <1>4, <1>5 DEF Gaps, packets
<1>7. IsShowing(shown, packets, n) /\ IsShownBy(Presented(Samples(packets, "pts")), shown, packets, n)
  BY <1>1, ShowingIs DEF Shown, Sent
<1>8. \A why : Told(Skips(why)) = {}
  BY DEF Told, Skips
<1>9. Told(Reports(<<>>)) = {}
  <2>1. ToSet(<<>>) = {}
    BY DEF ToSet
  <2> QED BY <2>1 DEF Told, Reports
<1>10. ASSUME cadence.status = "ok", durations # <<>>, ~(Len(durations[1]) < 2)
       PROVE  Told(GapsAmong(durations[1], cadence, s.tb)) \subseteq GapsBetween(shown, n, s.tb)
  <2>1. PICK all : durations = <<all>> /\ AreLasting(all, shown, n)
    BY <1>1, <1>7, <1>10, ReconstructedIs
  <2>2. durations[1] = all /\ Len(all) = n
    BY <2>1 DEF AreLasting
  <2>3. n >= 2 /\ 2 <= n
    BY <1>1, <1>10, <2>2
  <2> DEFINE times == Ascending(Pts(i), Pts(i))
  <2>4. cadence = CadenceOf("pts", times)
    BY <1>1, <1>2, <1>10, <2>3, CadenceIs
  <2>5. Pts(i) \in [1..n -> Nat]
    BY <1>2, Numbers DEF AreTimes, Moments
  <2>6. /\ IsList(times, n) /\ Len(times) = n
        /\ \A k \in 1..n : times[k] \in Nat
        /\ \A j, k \in 1..n : j <= k => times[j] <= times[k]
    BY <1>1, <2>5, TimesInOrder
  <2> HIDE DEF times, cadence, shown, packets
  <2>7. cadence.nominal \in Nat
    BY <1>1, <1>10, <2>3, <2>4, <2>6, NominalIs
  <2> QED BY <1>1, <1>7, <2>1, <2>2, <2>3, <2>7, GapsAmongAre
<1> HIDE DEF cadence, durations, samples, packets, shown
<1>11. Told(Gaps(file, s)) \subseteq GapsBetween(shown, n, s.tb)
  BY <1>6, <1>8, <1>9, <1>10
<1> QED BY <1>11 DEF shown

\* What every file satisfies: gaps against holes.
LEMMA GapsAreTheHolesIn ==
  ASSUME TimelineTypeOK
  PROVE  GapsAreTheHoles
<1> SUFFICES ASSUME NEW i \in Media, NEW gaps, gaps = Told(Gaps(Whole, Whole.streams[i])),
                    NEW packets, packets = ToSet(sent[i].packets), NEW tb, tb = shape.streams[i].tb
             PROVE  /\ IsContinuous(i) => gaps = {}
                    /\ \A gap \in gaps : \E p, q \in packets :
                         /\ gap = <<InMs(p.pts, tb), InMs(q.pts, tb)>> /\ p.pts + p.duration < q.pts
                         /\ \A other \in packets :
                              \/ other.pts >= q.pts
                              \/ other.pts <= p.pts /\ (Follows(i) => other.pts + other.duration < q.pts)
  BY DEF GapsAreTheHoles
<1> DEFINE n == Len(Sent(i))
           shown == Shown(i)
<1>1. n \in Nat /\ AreSent(Sent(i), n) /\ Pts(i) = AxisOf(Sent(i), "pts")
  BY WhatIsSent
<1>2. IsShowing(shown, Sent(i), n)
  BY <1>1, ShowingIs DEF Shown, Sent
<1>3. Whole.is_ts = FALSE /\ IsStreamWith(Whole.streams[i], Sent(i), shape.streams[i])
  <2> DEFINE all == [j \in Media |-> sent[j].packets]
  <2>1. all[i] = Sent(i)
    BY DEF Sent
  <2> HIDE DEF all
  <2>2. Whole = FileOf(FALSE, all)
    BY DEF Whole, all
  <2>3. FileOf(FALSE, all).is_ts = FALSE
    BY FileIs
  <2>4. IsStreamWith(FileOf(FALSE, all).streams[i], all[i], shape.streams[i])
    BY FileIs
  <2> QED BY <2>1, <2>2, <2>3, <2>4
<1>4. gaps \subseteq GapsBetween(shown, n, tb)
  BY <1>3, GapsAre DEF IsStreamWith
<1>5. Len(shown) = n /\ packets = {Sent(i)[k] : k \in 1..n}
  BY <1>1, <1>2 DEF IsShowing, AreSent, ToSet, Sent
<1> HIDE DEF n, shown
<1>6. \A k \in 1..n : shown[k] \in packets
  BY <1>2, <1>5 DEF IsShowing
<1>7. ASSUME NEW k \in 1..n
      PROVE  shown[k].pts \in Nat /\ shown[k].duration \in Nat
  <2>1. shown[k] \in Packets
    BY <1>2 DEF IsShowing
  <2> QED BY <2>1, Numbers DEF Packets, Moments
<1>8. IsContinuous(i) => gaps = {}
  <2> SUFFICES ASSUME IsContinuous(i) PROVE GapsBetween(shown, n, tb) = {}
    BY <1>4
  <2>1. ASSUME NEW j \in 1..(n - 1)
        PROVE  ~(shown[j].pts + shown[j].duration < shown[j + 1].pts)
    <3>1. j + 1 \in 2..Len(shown) /\ (j + 1) - 1 = j
      BY <1>1, <1>5
    <3>2. shown[j + 1].pts = shown[j].pts + shown[j].duration
      BY <3>1 DEF IsContinuous, shown
    <3>3. shown[j].pts + shown[j].duration \in Int
      BY <1>1, <1>7 DEF n
    <3> QED BY <3>2, <3>3
  <2> QED BY <2>1 DEF GapsBetween
<1>9. ASSUME NEW gap \in gaps
      PROVE  \E p, q \in packets :
                /\ gap = <<InMs(p.pts, tb), InMs(q.pts, tb)>> /\ p.pts + p.duration < q.pts
                /\ \A other \in packets :
                     \/ other.pts >= q.pts
                     \/ other.pts <= p.pts /\ (Follows(i) => other.pts + other.duration < q.pts)
  <2>1. PICK j \in 1..(n - 1) : /\ shown[j].pts + shown[j].duration < shown[j + 1].pts
                                /\ gap = <<InMs(shown[j].pts, tb), InMs(shown[j + 1].pts, tb)>>
    BY <1>4 DEF GapsBetween
  <2>2. j \in 1..n /\ j + 1 \in 1..n
    BY <1>1
  <2> DEFINE p == shown[j]
             q == shown[j + 1]
  <2>3. p \in packets /\ q \in packets
    BY <1>6, <2>2
  <2>4. ASSUME NEW other \in packets
        PROVE  \/ other.pts >= q.pts
               \/ other.pts <= p.pts /\ (Follows(i) => other.pts + other.duration < q.pts)
    <3>1. PICK k \in 1..n : other = shown[k]
      BY <1>2, <1>5 DEF IsShowing
    <3>2. CASE k > j
      <4>1. j + 1 <= k
        BY <2>2, <3>2
      <4>2. q.pts <= other.pts
        BY <1>2, <2>2, <3>1, <4>1 DEF IsShowing
      <4> QED BY <1>7, <2>2, <3>1, <4>2
    <3>3. CASE k = j
      BY <1>7, <2>1, <2>2, <3>1, <3>3
    <3>4. CASE k < j
      <4>1. other.pts <= p.pts
        <5>1. k <= j
          BY <2>2, <3>4
        <5> QED BY <1>2, <2>2, <3>1, <5>1 DEF IsShowing
      <4>2. ASSUME Follows(i) PROVE other.pts + other.duration < q.pts
        <5>1. k + 1 \in 2..Len(shown) /\ (k + 1) - 1 = k /\ k + 1 \in 1..n /\ k + 1 <= j
          BY <1>5, <2>2, <3>4
        <5>2. shown[k + 1].pts >= shown[k].pts + shown[k].duration
          BY <4>2, <5>1 DEF Follows, shown
        <5>3. shown[k + 1].pts <= p.pts
          BY <1>2, <2>2, <5>1 DEF IsShowing
        <5>4. /\ shown[k].pts \in Nat /\ shown[k].duration \in Nat /\ shown[k + 1].pts \in Nat
              /\ p.pts \in Nat /\ p.duration \in Nat /\ q.pts \in Nat
          BY <1>7, <2>2, <5>1
        <5>5. p.pts + p.duration < q.pts
          BY <2>1
        <5> HIDE DEF p, q
        <5> QED BY <3>1, <5>2, <5>3, <5>4, <5>5
      <4> QED BY <4>1, <4>2
    <3> QED BY <2>2, <3>2, <3>3, <3>4
  <2> HIDE DEF p, q
  <2>5. gap = <<InMs(p.pts, tb), InMs(q.pts, tb)>> /\ p.pts + p.duration < q.pts
    BY <2>1 DEF p, q
  <2> QED BY <2>3, <2>4, <2>5
<1> QED BY <1>8, <1>9

-------------------------------------------------------------------------------
(* Packets that are read in the order they are presented: which jumps are  *)
(* announced.                                                              *)

\* What never falls from one place to the next never falls.
LEMMA StepsUp ==
  ASSUME NEW n \in Nat, NEW vals, \A k \in 1..n : vals[k] \in Int,
         \A k \in 2..n : vals[k - 1] < vals[k]
  PROVE  \A j, k \in 1..n : j <= k => vals[j] <= vals[k]
<1> SUFFICES ASSUME NEW j \in 1..n
             PROVE  \A k \in 1..n : j <= k => vals[j] <= vals[k]
  OBVIOUS
<1> DEFINE Good == {d \in Nat : j + d <= n => vals[j] <= vals[j + d]}
<1>1. 0 \in Good
  BY DEF Good
<1>2. ASSUME NEW d \in Nat, d \in Good PROVE d + 1 \in Good
  <2> SUFFICES ASSUME j + (d + 1) <= n PROVE vals[j] <= vals[j + (d + 1)]
    OBVIOUS
  <2>1. j + (d + 1) \in 2..n /\ j + d \in 1..n /\ (j + (d + 1)) - 1 = j + d
    OBVIOUS
  <2>2. vals[j + d] < vals[j + (d + 1)]
    BY <2>1
  <2>3. vals[j] <= vals[j + d]
    BY <1>2, <2>1
  <2>4. j + (d + 1) \in 1..n
    BY <2>1
  <2> QED BY <2>1, <2>2, <2>3, <2>4
<1> HIDE DEF Good
<1>3. Nat \subseteq Good
  BY <1>1, <1>2, SetInduction
<1>4. ASSUME NEW k \in 1..n, j <= k PROVE vals[j] <= vals[k]
  <2>1. k - j \in Good /\ j + (k - j) = k
    BY <1>3, <1>4
  <2> QED BY <2>1 DEF Good
<1> QED BY <1>4

\* The packets that announce a hole, told by where they begin.
FlagsOf(places) == [m \in 1 .. Cardinality(places) |-> PesBytes * Nth(places, m) + 1]
\* The flags of a stream are just after the announced packets.
LEMMA FlagsAre ==
  ASSUME NEW places, IsFiniteSet(places), places \subseteq Int
  PROVE  ToSet(FlagsOf(places)) = {PesBytes * a + 1 : a \in places}
<1> DEFINE N == Cardinality(places)
           flags == FlagsOf(places)
<1>1. /\ \A k \in 1..N : Nth(places, k) \in places
      /\ \A a \in places : \E k \in 1..N : Nth(places, k) = a
  BY NthIs
<1>2. ToSet(flags) = {flags[k] : k \in 1..N}
  BY DEF ToSet, FlagsOf
<1>3. \A k \in 1..N : flags[k] = PesBytes * Nth(places, k) + 1
  BY DEF FlagsOf
<1> HIDE DEF flags, N
<1>4. \A x : x \in {flags[k] : k \in 1..N} <=> x \in {PesBytes * a + 1 : a \in places}
  <2> TAKE x
  <2>1. ASSUME x \in {flags[k] : k \in 1..N} PROVE x \in {PesBytes * a + 1 : a \in places}
    BY <1>1, <1>3, <2>1
  <2>2. ASSUME NEW a \in places, x = PesBytes * a + 1 PROVE x \in {flags[k] : k \in 1..N}
    <3>1. PICK k \in 1..N : Nth(places, k) = a
      BY <1>1
    <3> QED BY <1>3, <2>2, <3>1
  <2> QED BY <2>1, <2>2
<1> QED BY <1>2, <1>4 DEF flags

\* The flags of the file's stream.
LEMMA FlagsOfFile ==
  ASSUME NEW is_ts, NEW packets, NEW i \in Media
  PROVE  FileOf(is_ts, packets).streams[i].flags = FlagsOf(sent[i].announced)
<1> DEFINE streams == <<StreamOf("video", shape.streams[1], sent[1], packets[1]),
                        StreamOf("audio", shape.streams[2], sent[2], packets[2])>>
<1>1. FileOf(is_ts, packets).streams = streams
  BY DEF FileOf
<1>2. ASSUME NEW type, NEW kind, NEW stream, NEW own
      PROVE  StreamOf(type, kind, stream, own).flags = FlagsOf(stream.announced)
  BY DEF StreamOf, FlagsOf
<1>3. /\ streams[1] = StreamOf("video", shape.streams[1], sent[1], packets[1])
      /\ streams[2] = StreamOf("audio", shape.streams[2], sent[2], packets[2])
  OBVIOUS
<1> HIDE DEF streams
<1>4. CASE i = 1
  BY <1>1, <1>2, <1>3, <1>4
<1>5. CASE i = 2
  BY <1>1, <1>2, <1>3, <1>5
<1> QED BY <1>4, <1>5 DEF Media

\* The packet that announces a hole is the one in whose bytes the announcement lies.
LEMMA FlaggedIs ==
  ASSUME NEW n \in Nat, NEW stream, Len(stream.packets) = n,
         \A k \in 1..n : stream.packets[k].pos = PesBytes * k,
         PesBytes * (n + 1) <= MaxInt,
         NEW places, places \subseteq 1..n, ToSet(stream.flags) = {PesBytes * a + 1 : a \in places},
         NEW j \in 1..n, NEW sample, sample.index = j, sample.pos = PesBytes * j
  PROVE  IsFlagged(stream, sample) <=> j \in places
<1> DEFINE next == NextPos(stream.packets, j)
<1>1. IsFlagged(stream, sample) <=> \E a \in places : 10 * j <= 10 * a + 1 /\ 10 * a + 1 < next
  <2>1. IsFlagged(stream, sample) <=> \E offset \in ToSet(stream.flags) : sample.pos <= offset /\ offset < next
    BY DEF IsFlagged
  <2> HIDE DEF next
  <2> QED BY <2>1 DEF PesBytes
<1>2. /\ j < n => next = 10 * (j + 1)
      /\ j = n => next = MaxInt
  BY DEF NextPos, PesBytes
<1>3. MaxInt \in Nat /\ 10 * (n + 1) <= MaxInt
  BY Numbers DEF PesBytes
<1> HIDE DEF next
<1>4. ASSUME NEW a \in places, 10 * j <= 10 * a + 1, 10 * a + 1 < next PROVE j \in places
  <2>1. a \in 1..n /\ j <= a
    BY <1>4
  <2>2. CASE j < n
    <3>1. a <= j
      BY <1>2, <1>4, <2>1, <2>2
    <3> QED BY <2>1, <3>1
  <2>3. CASE j = n
    BY <2>1, <2>3
  <2> QED BY <2>2, <2>3
<1>5. ASSUME j \in places PROVE \E a \in places : 10 * j <= 10 * a + 1 /\ 10 * a + 1 < next
  <2>1. 10 * j <= 10 * j + 1 /\ 10 * j + 1 < next
    <3>1. CASE j < n
      BY <1>2, <3>1
    <3>2. CASE j = n
      BY <1>2, <1>3, <3>2
    <3> QED BY <3>1, <3>2
  <2> QED BY <1>5, <2>1
<1> QED BY <1>1, <1>4, <1>5

\* Times that fit in milliseconds, and the time between them.
StepFits(step, tb) == Fits(step) /\ Fits(step * tb.num) /\ Fits(step * tb.num * 1000)
\* Where times fit so do their steps.
LEMMA StepsFit ==
  ASSUME NEW tb, tb.num \in Nat, NEW a \in Nat, NEW b \in Nat, a <= b, TicksToMs(b, tb) # <<>>
  PROVE  StepFits(b - a, tb)
<1> DEFINE m == tb.num
           d == b - a
<1>1. m \in Nat /\ d \in Nat /\ d <= b /\ MaxInt \in Nat
  BY Numbers
<1>2. b * 1000 <= MaxInt /\ b * 1000 * m <= MaxInt
  BY DEF TicksToMs, Fits
<1>3. (b * 1000) * m = 1000 * (m * b) /\ m * b \in Nat
  BY <1>1
<1> HIDE DEF m, d
<1>4. m * d \in Nat /\ m * d <= m * b
  <2>1. m * d <= m * b
    BY <1>1, ProductGrows
  <2>2. m * d \in Nat
    BY <1>1
  <2> QED BY <2>1, <2>2
<1>5. d * m = m * d /\ (d * m) * 1000 = 1000 * (m * d)
  BY <1>1
<1> DEFINE x == m * d
           y == m * b
<1>6. x \in Nat /\ y \in Nat /\ x <= y /\ 1000 * y <= MaxInt /\ b * 1000 <= MaxInt
  BY <1>2, <1>3, <1>4
<1> HIDE DEF x, y
<1>7. x <= MaxInt /\ 1000 * x <= MaxInt /\ d <= MaxInt
  BY <1>1, <1>6
<1>8. Fits(d) /\ Fits(x) /\ Fits(1000 * x)
  BY <1>1, <1>6, <1>7 DEF Fits
<1> QED BY <1>5, <1>8 DEF x, d, m, StepFits

JumpsOf(vals, n, tb) == {j \in 2..n : IsJump(vals[j] - vals[j - 1], tb)}
SpansOf(vals, places, tb) == {<<InMs(vals[j - 1], tb), InMs(vals[j], tb)>> : j \in places}
\* What is said of jumps, some of which are announced.
AreSaid(report, vals, jumps, places, tb) ==
  /\ ToSet(report.flagged.value[1]) = SpansOf(vals, jumps \cap places, tb)
  /\ ToSet(report.discontinuities.value[1]) = SpansOf(vals, jumps \ places, tb)

\* The jumps of packets that are read in the order they are presented, by their places.
IsReadInOrder(vals, n, packets, stream, places) ==
  /\ IsList(packets, n) /\ IsList(vals, n)
  /\ \A k \in 1..n : vals[k] \in Nat /\ packets[k].pos = PesBytes * k /\ TicksToMs(vals[k], stream.tb) # <<>>
  /\ \A j, k \in 1..n : j <= k => vals[j] <= vals[k]
  /\ stream.tb.num \in Nat
  /\ Len(stream.packets) = n /\ \A k \in 1..n : stream.packets[k].pos = PesBytes * k
  /\ PesBytes * (n + 1) <= MaxInt
  /\ places \subseteq 1..n /\ ToSet(stream.flags) = {PesBytes * a + 1 : a \in places}

\* The jumps of a stream read in presentation order, by whether a flag precedes them.
LEMMA JumpsInOrder ==
  ASSUME NEW n \in Nat, NEW vals, NEW packets, NEW stream, NEW places, IsReadInOrder(vals, n, packets, stream, places),
         NEW file, file.is_ts = TRUE, NEW order, order = Presented(Sampled(vals, packets)),
         NEW report, report = JumpsAmong(file, stream, order, Jumps(order, stream.tb))
  PROVE  AreSaid(report, vals, JumpsOf(vals, n, stream.tb), places, stream.tb)
<1> USE DEF IsReadInOrder
<1> DEFINE samples == Sampled(vals, packets)
           tb == stream.tb
           jumps == JumpsOf(vals, n, tb)
           steps == StepsOf(order)
           flagged == FlaggedJumps(stream, order, jumps)
<1>1. /\ DOMAIN samples = 1..n /\ Values(samples) = vals
      /\ \A k \in 1..n : samples[k].index = k /\ samples[k].value = vals[k] /\ samples[k].pos = PesBytes * k
  <2>1. DOMAIN samples = 1..n /\ Values(samples) = vals
    BY ValuesOfSampled
  <2>2. DOMAIN packets = 1..n
    BY DEF IsList
  <2>3. \A k \in 1..n : samples[k].index = k /\ samples[k].value = vals[k] /\ samples[k].pos = PesBytes * k
    BY <2>2 DEF Sampled
  <2> QED BY <2>1, <2>3
<1>2. IsList(samples, n)
  BY <1>1 DEF IsList, Sampled
<1>3. order = samples
  <2>1. order = Ascending(samples, vals)
    BY <1>1 DEF Presented
  <2>2. \A k \in 1..n : vals[k] \in Int
    OBVIOUS
  <2>3. \A j, k \in 1..n : j < k => vals[j] <= vals[k]
    OBVIOUS
  <2> HIDE DEF samples
  <2> QED BY <1>2, <2>1, <2>2, <2>3, AscendingInPlace
<1> HIDE DEF samples
<1>4. /\ DOMAIN order = 1..n /\ Len(order) = n
      /\ \A k \in 1..n : order[k].index = k /\ order[k].value = vals[k] /\ order[k].pos = PesBytes * k
  <2>1. IsList(order, n)
    BY <1>2, <1>3
  <2>2. DOMAIN order = 1..n /\ Len(order) = n
    BY <2>1 DEF IsList
  <2> HIDE DEF IsReadInOrder
  <2> QED BY <1>1, <1>3, <2>2
<1>5. Jumps(order, tb) = jumps
  <2>1. \A j \in 2..n : order[j].value = vals[j] /\ order[j - 1].value = vals[j - 1]
    BY <1>4
  <2> QED BY <1>4, <2>1 DEF Jumps, JumpsOf
<1>6. jumps \subseteq 2..n /\ IsFiniteSet(jumps) /\ jumps \subseteq Int
  <2>1. jumps \in SUBSET (2..n)
    BY DEF JumpsOf
  <2>2. IsFiniteSet(2..n)
    BY FS_Interval
  <2> QED BY <2>1, <2>2, FS_Subset
<1>7. JumpsAreExact(order, tb)
  <2>1. ASSUME NEW j \in 2..n
        PROVE  /\ Fits(order[j].value - order[j - 1].value)
               /\ Fits((order[j].value - order[j - 1].value) * tb.num)
               /\ Fits((order[j].value - order[j - 1].value) * tb.num * 1000)
    <3>1. j \in 1..n /\ j - 1 \in 1..n /\ j - 1 <= j
      OBVIOUS
    <3>2. order[j].value = vals[j] /\ order[j - 1].value = vals[j - 1]
      BY <1>4, <3>1
    <3>3. /\ vals[j] \in Nat /\ vals[j - 1] \in Nat /\ vals[j - 1] <= vals[j]
          /\ tb.num \in Nat /\ TicksToMs(vals[j], tb) # <<>>
      BY <3>1
    <3>4. StepFits(vals[j] - vals[j - 1], tb)
      BY <3>3, StepsFit
    <3> QED BY <3>2, <3>4 DEF StepFits
  <2> QED BY <1>4, <2>1 DEF JumpsAreExact
<1>8. ASSUME NEW j \in jumps
      PROVE  /\ HasMs(steps[j], tb)
             /\ AsSpan(steps[j], tb) = <<InMs(vals[j - 1], tb), InMs(vals[j], tb)>>
             /\ j \in flagged <=> j \in places
  <2>1. j \in 2..n /\ j \in 1..n /\ j - 1 \in 1..n
    <3>1. j \in 2..n
      BY <1>6
    <3> QED BY <3>1
  <2>2. Max({1, j - 1}) = j - 1
    <3> DEFINE one == 1
               prev == j - 1
    <3>1. one \in Int /\ prev \in Int /\ one <= prev
      BY <2>1
    <3> HIDE DEF one, prev, jumps, steps, flagged, tb
    <3>2. Max({one, prev}) = prev
      BY <3>1, GreaterOf
    <3> QED BY <3>2 DEF one, prev
  <2>3. steps[j] = <<vals[j - 1], vals[j]>>
    BY <1>4, <2>1, <2>2 DEF StepsOf
  <2>4. TicksToMs(vals[j], tb) # <<>> /\ TicksToMs(vals[j - 1], tb) # <<>>
    BY <2>1
  <2>5. \A t : TicksToMs(t, tb) # <<>> => TicksToMs(t, tb)[1] = InMs(t, tb)
    BY DEF TicksToMs
  <2>6. HasMs(steps[j], tb) /\ AsSpan(steps[j], tb) = <<InMs(vals[j - 1], tb), InMs(vals[j], tb)>>
    <3> HIDE DEF steps
    <3> QED BY <2>3, <2>4, <2>5 DEF HasMs, AsSpan
  <2>7. IsFlagged(stream, order[j]) <=> j \in places
    BY <1>4, <2>1, FlaggedIs
  <2>8. j \in flagged <=> IsFlagged(stream, order[j])
    BY DEF FlaggedJumps
  <2> QED BY <2>6, <2>7, <2>8
<1>9. flagged = jumps \cap places /\ jumps \ flagged = jumps \ places
  <2>1. flagged \subseteq jumps
    BY DEF FlaggedJumps
  <2> HIDE DEF flagged, jumps
  <2> QED BY <1>8, <2>1
<1>10. AreTold(report, TRUE, steps, jumps, flagged, tb)
  <2>2. \A j \in jumps : HasMs(StepsOf(order)[j], tb)
    BY <1>8
  <2>3. flagged = FlaggedJumps(stream, order, jumps)
    OBVIOUS
  <2>4. report = JumpsAmong(file, stream, order, jumps)
    BY <1>5
  <2> HIDE DEF jumps, flagged
  <2>5. AreTold(JumpsAmong(file, stream, order, jumps), file.is_ts, StepsOf(order), jumps, flagged, tb)
    <3> HIDE DEF IsReadInOrder
    <3>1. AreJumps(file, stream, order, jumps, flagged)
      BY <1>6, <1>7, <2>2, <2>3 DEF AreJumps
    <3> QED BY <3>1, JumpsAre
  <2> QED BY <2>4, <2>5
<1> HIDE DEF flagged, jumps, steps
<1>11. \A some : some \subseteq jumps => SpansAt(steps, some, tb) = SpansOf(vals, some, tb)
  <2> SUFFICES ASSUME NEW some, some \subseteq jumps PROVE SpansAt(steps, some, tb) = SpansOf(vals, some, tb)
    OBVIOUS
  <2>1. \A j \in some : AsSpan(steps[j], tb) = <<InMs(vals[j - 1], tb), InMs(vals[j], tb)>>
    BY <1>8
  <2> QED BY <2>1 DEF SpansAt, SpansOf
<1>12. /\ SpansAt(steps, flagged, tb) = SpansOf(vals, jumps \cap places, tb)
       /\ SpansAt(steps, jumps \ flagged, tb) = SpansOf(vals, jumps \ places, tb)
  BY <1>9, <1>11
<1> QED BY <1>10, <1>12 DEF AreTold, AreSaid, jumps

\* The jumps of a stream, told from its first packet's era.
SaysJumps(i, which) ==
  {<<InMs(FromFirstEra[i][n - 1].pts, shape.streams[i].tb), InMs(FromFirstEra[i][n].pts, shape.streams[i].tb)>> :
     n \in {m \in 2 .. Len(Pts(i)) : IsJump(Pts(i)[m] - Pts(i)[m - 1], shape.streams[i].tb) /\ m \in which}}

\* What the property says of announced jumps, as the set of their spans.
LEMMA SaysJumpsIs ==
  ASSUME TimelineTypeOK, NEW i \in Media, NEW which
  PROVE  SaysJumps(i, which) =
           SpansOf(FromFirst(Pts(i)), JumpsOf(FromFirst(Pts(i)), Len(Sent(i)), shape.streams[i].tb) \cap which,
                   shape.streams[i].tb)
<1> DEFINE n == Len(Sent(i))
           vals == FromFirst(Pts(i))
           tb == shape.streams[i].tb
<1>1. n \in Nat /\ AreSent(Sent(i), n) /\ Pts(i) = AxisOf(Sent(i), "pts")
  BY WhatIsSent
<1>2. AreTimes(Pts(i), n)
  BY <1>1, SentAxes DEF Axes
<1>3. Len(Pts(i)) = n /\ \A k \in 1..n : Pts(i)[k] \in Nat
  BY <1>1, <1>2, Numbers DEF AreTimes, Moments
<1>4. \A k \in 1..n : FromFirstEra[i][k].pts = vals[k] /\ vals[k] = Pts(i)[k] - Base(Pts(i)[1])
  <2>1. /\ AxisOf(FromFirstEra[i], "pts") = vals /\ IsList(FromFirstEra[i], n)
    BY FromFirstEraIs
  <2>2. DOMAIN FromFirstEra[i] = 1..n
    BY <2>1 DEF IsList
  <2>3. DOMAIN Pts(i) = 1..n
    BY <1>2 DEF AreTimes
  <2>4. \A k \in 1..n : FromFirstEra[i][k].pts = vals[k]
    <3> DEFINE E == FromFirstEra[i]
    <3> HIDE DEF E
    <3>1. \A k \in 1..n : AxisOf(E, "pts")[k] = E[k].pts
      BY <2>2 DEF AxisOf, E
    <3> QED BY <2>1, <3>1 DEF E
  <2>5. \A k \in 1..n : vals[k] = Pts(i)[k] - Base(Pts(i)[1])
    BY <2>3 DEF FromFirst
  <2> QED BY <2>4, <2>5
<1>5. ASSUME NEW j \in 2..n
      PROVE  vals[j] - vals[j - 1] = Pts(i)[j] - Pts(i)[j - 1]
  <2>1. j \in 1..n /\ j - 1 \in 1..n /\ 1 \in 1..n
    BY <1>1
  <2>2. Base(Pts(i)[1]) \in Int
    <3>1. Pts(i)[1] \in Nat
      BY <1>3, <2>1
    <3>2. Base(Pts(i)[1]) \in Nat
      BY <3>1, EraOf, Zenon
    <3> QED BY <3>2
  <2> QED BY <1>3, <1>4, <2>1, <2>2
<1> DEFINE places == {m \in 2..n : IsJump(Pts(i)[m] - Pts(i)[m - 1], tb) /\ m \in which}
<1>6. places = JumpsOf(vals, n, tb) \cap which
  BY <1>5 DEF JumpsOf
<1>7. SaysJumps(i, which) = {<<InMs(FromFirstEra[i][m - 1].pts, tb), InMs(FromFirstEra[i][m].pts, tb)>> : m \in places}
  BY <1>3 DEF SaysJumps
<1>8. \A m \in places : m \in 1..n /\ m - 1 \in 1..n
  BY <1>1
<1> HIDE DEF places
<1>9. {<<InMs(FromFirstEra[i][m - 1].pts, tb), InMs(FromFirstEra[i][m].pts, tb)>> : m \in places} = SpansOf(vals, places, tb)
  BY <1>4, <1>8 DEF SpansOf
<1> QED BY <1>6, <1>7, <1>9

\* What every file satisfies: jumps against announcements.
LEMMA AnnouncedJumpsAreFlaggedIn ==
  ASSUME TimelineTypeOK
  PROVE  AnnouncedJumpsAreFlagged
<1> SUFFICES ASSUME NEW i \in Media, shape.is_ts, Heard(i), InOrder(i), IsPlain(Pts(i)),
                    \A p \in ToSet(FromFirstEra[i]) : TicksToMs(p.pts, shape.streams[i].tb) # <<>>,
                    NEW report, report = Discontinuities(Carried, Carried.streams[i])
             PROVE  /\ ToSet(report.flagged.value[1]) = SaysJumps(i, sent[i].announced)
                    /\ ToSet(report.discontinuities.value[1]) = SaysJumps(i, DOMAIN Pts(i) \ sent[i].announced)
  BY DEF AnnouncedJumpsAreFlagged, SaysJumps
<1> DEFINE packets == Sent(i)
           n == Len(packets)
           vals == FromFirst(Pts(i))
           tb == shape.streams[i].tb
           s == Carried.streams[i]
           places == sent[i].announced
           samples == Sampled(vals, packets)
           order == Presented(samples)
<1>1. n \in Nat /\ n >= 1 /\ AreSent(packets, n) /\ Pts(i) = AxisOf(packets, "pts")
  BY WhatIsSent
<1>2. AreTimes(Pts(i), n) /\ IsList(packets, n) /\ DOMAIN packets = 1..n /\ IsList(Pts(i), n)
  <2>1. AreTimes(Pts(i), n)
    BY <1>1, SentAxes DEF Axes
  <2>2. HasAxis(packets, n, "pts")
    BY <1>1, SentAxes DEF Axes
  <2>3. IsList(packets, n)
    BY <2>2 DEF HasAxis
  <2>4. DOMAIN packets = 1..n
    BY <1>1 DEF AreSent
  <2>5. IsList(Pts(i), n)
    <3> DEFINE own == Pts(i)
    <3> HIDE DEF own
    <3>1. AreTimes(own, n)
      BY <2>1 DEF own
    <3>2. IsList(own, n)
      BY <3>1 DEF AreTimes, IsList
    <3> QED BY <3>2 DEF own
  <2> QED BY <2>1, <2>3, <2>4, <2>5
<1>3. /\ Carried.is_ts = TRUE /\ Carried.partial = FALSE /\ Carried.ts_complete = TRUE
      /\ IsStreamWith(s, Wrapped(packets), shape.streams[i]) /\ s.flags = FlagsOf(places)
  <2> DEFINE all == [j \in Media |-> IF shape.is_ts THEN Wrapped(sent[j].packets) ELSE sent[j].packets]
             file == FileOf(shape.is_ts, all)
  <2>1. all[i] = Wrapped(packets)
    BY DEF Sent
  <2>2. Carried = file
    BY DEF Carried
  <2> HIDE DEF all, packets
  <2>3. /\ file.is_ts = shape.is_ts /\ file.partial = FALSE /\ file.ts_complete = TRUE
    BY FileIs
  <2>4. IsStreamWith(file.streams[i], all[i], shape.streams[i])
    BY FileIs
  <2>5. file.streams[i].flags = FlagsOf(places)
    BY FlagsOfFile
  <2>6. Carried.is_ts = TRUE
    BY CarriedIs
  <2> HIDE DEF file
  <2> QED BY <2>1, <2>2, <2>3, <2>4, <2>5, <2>6
<1>4. PrepareAxis(s.packets, "pts", Carried.is_ts) = <<samples>>
  <2>1. s.packets = Wrapped(packets)
    BY <1>3 DEF IsStreamWith
  <2>2. PrepareAxis(Wrapped(packets), "pts", TRUE) = <<samples>>
    BY <1>1, PreparedIs DEF Axes
  <2> QED BY <1>3, <2>1, <2>2
<1>5. DOMAIN samples = 1..n
  BY <1>2 DEF Sampled
<1>6. s.tb = tb /\ s.flags_truncated = FALSE /\ s.packets = Wrapped(packets)
  BY <1>3 DEF IsStreamWith
<1> HIDE DEF s
<1>7. report = JumpsAmong(Carried, s, order, Jumps(order, s.tb))
  <2> DEFINE Among(o) == JumpsAmong(Carried, s, o, Jumps(o, s.tb))
             OfAxis(axis) ==
               IF (Carried.is_ts /\ s.flags_truncated) \/ axis = <<>> THEN Alike(Carried, Skips("insufficient_data"))
               ELSE IF axis[1] = <<>> THEN Alike(Carried, Skips("no_timing_data")) ELSE Among(Presented(axis[1]))
  <2>1. report = OfAxis(PrepareAxis(s.packets, "pts", Carried.is_ts))
    BY <1>3 DEF Discontinuities, s
  <2>2. <<samples>> # <<>> /\ <<samples>>[1] = samples /\ samples # <<>>
    <3>1. 1 \in DOMAIN samples
      BY <1>1, <1>5
    <3> HIDE DEF samples
    <3> QED BY <3>1
  <2>3. OfAxis(<<samples>>) = Among(order)
    <3> HIDE DEF Among, samples
    <3> QED BY <1>6, <2>2
  <2> HIDE DEF OfAxis
  <2> QED BY <1>4, <2>1, <2>3
<1>8. places \subseteq 2..n /\ \A k \in 1..n : packets[k].pos = PesBytes * k /\ PesBytes * (k + 1) <= MaxInt
  BY <1>2 DEF TimelineTypeOK, Sent
<1>9. ToSet(s.flags) = {PesBytes * a + 1 : a \in places}
  <2>1. places \in SUBSET (2..n) /\ IsFiniteSet(2..n)
    BY <1>8, FS_Interval
  <2>2. IsFiniteSet(places) /\ places \subseteq Int
    BY <2>1, FS_Subset
  <2> HIDE DEF places
  <2> QED BY <1>3, <2>2, FlagsAre DEF s
<1>10. Len(s.packets) = n /\ \A k \in 1..n : s.packets[k].pos = PesBytes * k
  <2> DEFINE all == Wrapped(packets)
  <2>1. DOMAIN all = 1..n /\ all = [k \in 1..n |-> [packets[k] EXCEPT !.pts = @ % Modulus, !.dts = @ % Modulus]]
    BY <1>2 DEF Wrapped
  <2>2. \A k \in 1..n : all[k].pos = packets[k].pos
    <3> TAKE k \in 1..n
    <3>1. packets[k] \in Packets
      BY <1>1 DEF AreSent
    <3>2. all[k] = [packets[k] EXCEPT !.pts = @ % Modulus, !.dts = @ % Modulus]
      BY <2>1
    <3> HIDE DEF all
    <3> QED BY <3>1, <3>2 DEF Packets
  <2>3. Len(all) = n
    <3>1. all = [k \in 1..n |-> all[k]]
      BY <2>1
    <3> HIDE DEF all, n
    <3> QED BY <1>1, <3>1
  <2> HIDE DEF all
  <2> QED BY <1>6, <1>8, <2>2, <2>3 DEF all
<1>11. /\ \A k \in 1..n : vals[k] \in Nat /\ TicksToMs(vals[k], tb) # <<>>
       /\ \A j, k \in 1..n : j <= k => vals[j] <= vals[k]
       /\ IsList(vals, n)
  <2> DEFINE own == Pts(i)
  <2>1. \A k \in 1..n : own[k] \in Nat
    BY <1>2, Numbers DEF AreTimes, Moments
  <2>2. \A j, k \in 1..n : j <= k => own[j] <= own[k]
    <3>1. Len(own) = n
      BY <1>1, <1>2 DEF IsList
    <3>2. \A k \in 2..n : own[k - 1] < own[k]
      BY <3>1 DEF InOrder
    <3>3. \A k \in 1..n : own[k] \in Int
      BY <2>1
    <3> HIDE DEF own
    <3> QED BY <1>1, <3>2, <3>3, StepsUp
  <2>3. 1 \in 1..n
    BY <1>1
  <2>4. Base(own[1]) \in Nat /\ Base(own[1]) <= own[1]
    <3> DEFINE t == own[1]
    <3> HIDE DEF own
    <3>1. t \in Nat
      BY <2>1, <2>3
    <3> HIDE DEF t
    <3>2. /\ Base(t) \in Nat /\ t = Base(t) + (t % Modulus)
          /\ t % Modulus \in Nat
      BY <3>1, EraOf, Zenon
    <3>3. Base(t) <= t
      BY <3>1, <3>2
    <3> QED BY <3>2, <3>3 DEF t
  <2>5. IsList(vals, n) /\ \A k \in 1..n : vals[k] = own[k] - Base(own[1])
    <3>1. DOMAIN own = 1..n
      BY <1>2 DEF IsList
    <3> HIDE DEF own
    <3>2. vals = [k \in 1..n |-> own[k] - Base(own[1])]
      BY <3>1 DEF FromFirst, own
    <3> HIDE DEF vals
    <3> QED BY <3>2 DEF IsList
  <2>6. \A k \in 1..n : TicksToMs(vals[k], tb) # <<>>
    <3> DEFINE E == FromFirstEra[i]
    <3>1. AxisOf(E, "pts") = vals /\ DOMAIN E = 1..n
      BY FromFirstEraIs DEF IsList
    <3>2. \A k \in 1..n : E[k] \in ToSet(E)
      BY <3>1 DEF ToSet
    <3>3. \A k \in 1..n : TicksToMs(E[k].pts, tb) # <<>>
      BY <3>2
    <3> HIDE DEF E, vals
    <3>4. \A k \in 1..n : vals[k] = E[k].pts
      <4>1. \A k \in 1..n : AxisOf(E, "pts")[k] = E[k].pts
        BY <3>1 DEF AxisOf
      <4> QED BY <3>1, <4>1
    <3> QED BY <3>3, <3>4
  <2> HIDE DEF own, vals
  <2>7. \A k \in 1..n : vals[k] \in Nat
    <3> TAKE k \in 1..n
    <3>1. own[1] <= own[k]
      BY <2>2, <2>3
    <3> QED BY <2>1, <2>3, <2>4, <2>5, <3>1
  <2>8. \A j, k \in 1..n : j <= k => vals[j] <= vals[k]
    <3> TAKE j, k \in 1..n
    <3> HAVE j <= k
    <3>1. own[j] <= own[k]
      BY <2>2
    <3> QED BY <2>1, <2>4, <2>5, <3>1
  <2> QED BY <2>5, <2>6, <2>7, <2>8
<1>12. tb.num \in Nat
  <2>1. shape.streams[i] \in Kinds
    BY ShapesAssumption DEF TimelineTypeOK
  <2> QED BY <2>1 DEF Kinds
<1>13. IsReadInOrder(vals, n, packets, s, places)
  <2>1. PesBytes * (n + 1) <= MaxInt
    BY <1>1, <1>8
  <2>2. places \subseteq 1..n
    BY <1>8
  <2> HIDE DEF vals, n, packets, places, tb
  <2> QED BY <1>2, <1>6, <1>8, <1>9, <1>10, <1>11, <1>12, <2>1, <2>2 DEF IsReadInOrder
<1>14. /\ ToSet(report.flagged.value[1]) = SpansOf(vals, JumpsOf(vals, n, tb) \cap places, tb)
       /\ ToSet(report.discontinuities.value[1]) = SpansOf(vals, JumpsOf(vals, n, tb) \ places, tb)
  <2> HIDE DEF vals, n, packets, places, tb
  <2>1. order = Presented(Sampled(vals, packets))
    OBVIOUS
  <2> HIDE DEF order
  <2>2. Jumps(order, s.tb) = Jumps(order, tb)
    BY <1>6
  <2>3. n \in Nat
    BY <1>1 DEF n
  <2>4. AreSaid(report, vals, JumpsOf(vals, n, s.tb), places, s.tb)
    BY <1>3, <1>7, <1>13, <2>1, <2>3, JumpsInOrder
  <2> QED BY <1>6, <2>4 DEF AreSaid
<1>15. SaysJumps(i, places) = SpansOf(vals, JumpsOf(vals, n, tb) \cap places, tb)
  BY SaysJumpsIs
<1>16. SaysJumps(i, DOMAIN Pts(i) \ places) = SpansOf(vals, JumpsOf(vals, n, tb) \cap (DOMAIN Pts(i) \ places), tb)
  BY SaysJumpsIs
<1> HIDE DEF n, vals, tb
<1>17. JumpsOf(vals, n, tb) \cap (DOMAIN Pts(i) \ places) = JumpsOf(vals, n, tb) \ places
  <2>1. DOMAIN Pts(i) = 1..n
    BY <1>2 DEF IsList, n
  <2>2. JumpsOf(vals, n, tb) \subseteq 1..n
    BY DEF JumpsOf
  <2> HIDE DEF vals, n, tb, places
  <2> QED BY <2>1, <2>2
<1> QED BY <1>14, <1>15, <1>16, <1>17

-------------------------------------------------------------------------------
(* Where a file starts.                                                    *)

\* What is not later as a fraction is not later in whole milliseconds.
LEMMA NotLater ==
  ASSUME NEW a \in Nat, NEW p \in Nat, NEW s \in Nat \ {0},
         NEW b \in Nat, NEW q \in Nat, NEW t \in Nat \ {0},
         a * p * t <= b * q * s
  PROVE  (a * 1000 * p) \div s <= (b * 1000 * q) \div t
<1> DEFINE A == a * p
           B == b * q
           x == 1000 * A
           y == 1000 * B
           u == x \div s
           v == y \div t
<1>1. A \in Nat /\ B \in Nat /\ a * 1000 * p = x /\ b * 1000 * q = y /\ A * t <= B * s
  OBVIOUS
<1> HIDE DEF A, B
<1>2. x \in Nat /\ y \in Nat /\ t * x = 1000 * (A * t) /\ s * y = 1000 * (B * s) /\ A * t \in Nat /\ B * s \in Nat
  BY <1>1
<1>3. t * x <= s * y
  <2> DEFINE g == A * t
             h == B * s
  <2>1. g \in Nat /\ h \in Nat /\ g <= h
    BY <1>1, <1>2
  <2> HIDE DEF g, h
  <2>2. 1000 * g <= 1000 * h
    BY <2>1
  <2> QED BY <1>2, <2>2 DEF g, h
<1> HIDE DEF x, y
<1>4. u \in Nat /\ s * u \in Nat /\ s * u <= x
  <2>1. /\ x \div s \in Nat /\ s * (x \div s) \in Nat /\ x % s \in Nat
        /\ x = s * (x \div s) + (x % s)
    BY <1>2, Division
  <2> DEFINE w == s * (x \div s)
             r == x % s
  <2>2. w \in Nat /\ r \in Nat /\ x = w + r
    BY <2>1
  <2> HIDE DEF w, r
  <2>3. w <= x
    BY <2>2
  <2> QED BY <2>1, <2>3 DEF w
<1>5. v \in Nat /\ y < t * (v + 1)
  <2>1. /\ y \div t \in Nat /\ t * (y \div t) \in Nat /\ y % t \in Nat /\ y % t < t
        /\ y = t * (y \div t) + (y % t)
    BY <1>2, Division
  <2>2. t * ((y \div t) + 1) = t * (y \div t) + t
    BY <2>1
  <2> DEFINE w == t * (y \div t)
             r == y % t
  <2>3. w \in Nat /\ r \in Nat /\ r < t /\ y = w + r
    BY <2>1
  <2> HIDE DEF w, r
  <2>4. y < w + t
    BY <2>3
  <2> QED BY <2>1, <2>2, <2>4 DEF w
<1> HIDE DEF u, v
<1>6. ASSUME u > v PROVE FALSE
  <2>1. t * (v + 1) <= t * u /\ t * u \in Nat /\ t * (v + 1) \in Nat
    <3>1. v + 1 <= u /\ v + 1 \in Nat
      BY <1>4, <1>5, <1>6
    <3>2. t * (v + 1) <= t * u
      BY <1>4, <3>1, ProductGrows
    <3> QED BY <1>4, <3>1, <3>2
  <2> DEFINE m == t * u
  <2>2. m \in Nat /\ y + 1 <= m
    BY <1>2, <1>5, <2>1
  <2>3. t * (s * u) = s * m
    BY <1>4
  <2> HIDE DEF m
  <2>4. s * (y + 1) <= s * m
    BY <1>2, <2>2, ProductGrows
  <2>5. s * (y + 1) = s * y + s
    BY <1>2
  <2> DEFINE n == s * u
  <2>6. t * n <= t * x
    BY <1>2, <1>4, ProductGrows
  <2>7. t * n = s * m
    BY <2>3
  <2> HIDE DEF n
  <2> DEFINE c == s * m
             d == s * y
             e == t * x
  <2>8. c \in Nat /\ d \in Nat /\ e \in Nat /\ d + s <= c /\ c <= e /\ e <= d
    BY <1>2, <1>3, <2>2, <2>4, <2>5, <2>6, <2>7
  <2> HIDE DEF c, d, e
  <2> QED BY <2>8
<1> QED BY <1>1, <1>4, <1>5, <1>6 DEF u, v

\* Times in whole milliseconds.
LEMMA MsAre ==
  ASSUME NEW a \in Nat, NEW ta, ta.num \in Nat, ta.den \in Nat \ {0}, TicksToMs(a, ta) # <<>>
  PROVE  InMs(a, ta) \in Nat /\ InMs(a, ta) <= MaxInt /\ InMs(a, ta) = (a * 1000 * ta.num) \div ta.den
         /\ TicksToMs(a, ta)[1] = InMs(a, ta)
<1> DEFINE x == a * 1000 * ta.num
           w == x \div ta.den
<1>1. x \in Nat /\ x <= MaxInt
  <2>1. x \in Nat
    OBVIOUS
  <2> QED BY <2>1 DEF TicksToMs, Fits
<1>2. InMs(a, ta) = w
  <2>1. ~(x < 0)
    BY <1>1
  <2> HIDE DEF x
  <2> QED BY <2>1 DEF InMs, Quotient, x
<1> HIDE DEF x
<1>3. w \in Nat /\ w <= x
  <2> DEFINE m == ta.den
  <2>1. /\ x \div m \in Nat /\ m * (x \div m) \in Nat /\ x % m \in Nat
        /\ x = m * (x \div m) + (x % m)
    BY <1>1, Division
  <2>2. m * w = w + (m - 1) * w /\ (m - 1) * w \in Nat
    <3>1. w \in Nat /\ m - 1 \in Nat /\ m \in Nat
      BY <2>1
    <3> HIDE DEF w, m
    <3> QED BY <3>1
  <2> DEFINE y == m * w
             z == (m - 1) * w
             r == x % m
  <2>3. w \in Nat /\ y \in Nat /\ z \in Nat /\ r \in Nat /\ y = w + z /\ x = y + r
    BY <2>1, <2>2
  <2> HIDE DEF w, y, z, r
  <2>4. w <= x
    BY <2>3
  <2> QED BY <2>3, <2>4
<1>4. w <= MaxInt
  <2> HIDE DEF w
  <2> QED BY <1>1, <1>3, Numbers
<1>5. TicksToMs(a, ta)[1] = InMs(a, ta)
  BY DEF TicksToMs
<1> QED BY <1>2, <1>3, <1>4, <1>5 DEF x

\* A stream starts with its earliest packet.
LEMMA FirstIs ==
  ASSUME TimelineTypeOK, NEW i \in Media
  PROVE  /\ Heard(i) => \E p \in ToSet(Sent(i)) : /\ p.pts \in Nat /\ FirstPresented(Sent(i)) = <<p.pts>>
                                                  /\ \A k \in DOMAIN Sent(i) : p.pts <= Sent(i)[k].pts
         /\ ~Heard(i) => FirstPresented(Sent(i)) = <<>>
<1> DEFINE n == Len(Sent(i))
           own == AxisOf(Sent(i), "pts")
<1>1. n \in Nat /\ AreSent(Sent(i), n) /\ (Heard(i) <=> n > 0)
  BY WhatIsSent
<1>2. DOMAIN Sent(i) = 1..n /\ \A k \in 1..n : Sent(i)[k].pts \in Nat /\ Sent(i)[k] \in ToSet(Sent(i))
  BY <1>1, Numbers DEF AreSent, Packets, Moments, ToSet
<1>3. HasAxis(Sent(i), n, "pts") /\ IsList(Sent(i), n)
  BY <1>1, SentAxes DEF Axes, HasAxis
<1>4. IsList(own, n) /\ \A k \in 1..n : own[k] = Sent(i)[k].pts
  BY <1>2 DEF AxisOf, IsList
<1> HIDE DEF n, own
<1>5. Samples(Sent(i), "pts") = Sampled(own, Sent(i))
  BY <1>1, <1>3, SamplesOfAll DEF own
<1>6. Values(Samples(Sent(i), "pts")) = own
  BY <1>1, <1>3, <1>4, <1>5, ValuesOfSampled
<1> DEFINE all == ToSet(own)
<1>7. all = {own[k] : k \in 1..n}
  BY <1>4 DEF ToSet, IsList
<1>8. FirstPresented(Sent(i)) = IF all = {} THEN <<>> ELSE <<Min(all)>>
  BY <1>6 DEF FirstPresented
<1> HIDE DEF all
<1>9. CASE n > 0
  <2>1. all # {} /\ all \in SUBSET Nat
    BY <1>1, <1>2, <1>4, <1>7, <1>9
  <2>2. Min(all) \in all /\ \A x \in all : Min(all) <= x
    BY <2>1, LeastOf
  <2>3. PICK k \in 1..n : Min(all) = own[k]
    BY <1>7, <2>2
  <2>4. Sent(i)[k] \in ToSet(Sent(i)) /\ Sent(i)[k].pts \in Nat /\ FirstPresented(Sent(i)) = <<Sent(i)[k].pts>>
    BY <1>2, <1>4, <1>8, <2>1, <2>3
  <2>5. \A q \in DOMAIN Sent(i) : Sent(i)[k].pts <= Sent(i)[q].pts
    <3> TAKE q \in DOMAIN Sent(i)
    <3>1. own[q] \in all /\ own[q] = Sent(i)[q].pts
      BY <1>2, <1>4, <1>7
    <3> QED BY <1>4, <2>2, <2>3, <3>1
  <2> QED BY <1>1, <1>9, <2>4, <2>5
<1>10. CASE n = 0
  <2>1. all = {}
    BY <1>7, <1>10
  <2> QED BY <1>1, <1>8, <1>10, <2>1
<1> QED BY <1>1, <1>9, <1>10

\* The origin of one candidate and of two.
LEMMA OriginOfOne ==
  ASSUME NEW a
  PROVE  GlobalOrigin(<<a>>) = <<a>>
<1> DEFINE list == Tail(<<a>>)
           base == <<(<<a>>)[1]>>
           Folds(iter) == iter = [s \in SUBSET DOMAIN list |->
                                 IF s = {} THEN base ELSE Earlier(iter[s \ {Max(s)}], list[Max(s)])]
           fold == CHOOSE iter : Folds(iter)
           g == [s \in SUBSET {} |-> base]
<1>1. GlobalOrigin(<<a>>) = fold[DOMAIN list]
  BY Zenon DEF GlobalOrigin, FoldLeft, MapThenFoldSet
<1>2. DOMAIN list = {} /\ base = <<a>>
  OBVIOUS
<1> HIDE DEF list, base
<1>3. Folds(g)
  <2>1. g = [s \in SUBSET {} |-> IF s = {} THEN base ELSE Earlier(g[s \ {Max(s)}], list[Max(s)])]
    OBVIOUS
  <2> HIDE DEF g
  <2> QED BY <1>2, <2>1
<1> HIDE DEF g
<1>4. Folds(fold)
  <2> HIDE DEF Folds
  <2> QED BY <1>3
<1> HIDE DEF fold
<1>5. fold[{}] = base
  BY <1>2, <1>4
<1> QED BY <1>1, <1>2, <1>5

\* The origin of two candidates is the earlier.
LEMMA OriginOfTwo ==
  ASSUME NEW a, NEW b
  PROVE  GlobalOrigin(<<a, b>>) = Earlier(<<a>>, b)
<1> DEFINE list == Tail(<<a, b>>)
           base == <<(<<a, b>>)[1]>>
           Folds(iter) == iter = [s \in SUBSET DOMAIN list |->
                                 IF s = {} THEN base ELSE Earlier(iter[s \ {Max(s)}], list[Max(s)])]
           fold == CHOOSE iter : Folds(iter)
           g == [s \in SUBSET {1} |-> IF s = {} THEN base ELSE Earlier(base, b)]
<1>1. GlobalOrigin(<<a, b>>) = fold[DOMAIN list]
  BY Zenon DEF GlobalOrigin, FoldLeft, MapThenFoldSet
<1>2. DOMAIN list = {1} /\ list[1] = b /\ base = <<a>>
  OBVIOUS
<1>3. Max({1}) = 1 /\ {1} \ {1} = {} /\ \A s \in SUBSET {1} : s = {} \/ s = {1}
  <2> DEFINE one == 1
  <2>1. one \in Int
    OBVIOUS
  <2> HIDE DEF one
  <2>2. Max({one}) = one
    BY <2>1, MaxMinOf, Zenon
  <2> QED BY <2>2 DEF one
<1> HIDE DEF list, base
<1>4. Folds(g)
  <2>1. \A s \in SUBSET {1} : g[s] = IF s = {} THEN base ELSE Earlier(g[s \ {Max(s)}], list[Max(s)])
    <3>1. g[{}] = base /\ g[{1}] = Earlier(base, b)
      OBVIOUS
    <3> HIDE DEF g
    <3>2. g[{1}] = Earlier(g[{1} \ {Max({1})}], list[Max({1})])
      BY <1>2, <1>3, <3>1
    <3> QED BY <1>3, <3>1, <3>2
  <2>2. g = [s \in SUBSET {1} |-> g[s]]
    OBVIOUS
  <2> HIDE DEF g
  <2> QED BY <1>2, <2>1, <2>2
<1> HIDE DEF g
<1>5. Folds(fold)
  <2> HIDE DEF Folds
  <2> QED BY <1>4
<1> HIDE DEF fold
<1>6. fold[{}] = base /\ fold[{1}] = Earlier(fold[{1} \ {Max({1})}], list[Max({1})])
  BY <1>2, <1>5
<1> QED BY <1>1, <1>2, <1>3, <1>6

\* Keeping two places and keeping one.
LEMMA KeptOfTwo ==
  ASSUME NEW seq, IsList(seq, 2)
  PROVE  /\ Kept(seq, {1, 2}) = <<seq[1], seq[2]>>
         /\ \A k \in Media : Kept(seq, {k}) = <<seq[k]>>
<1>1. Kept(seq, {1, 2}) = <<seq[1], seq[2]>>
  <2>1. Kept(seq, 1..2) = seq
    BY KeptAll
  <2>2. 1..2 = {1, 2}
    OBVIOUS
  <2>3. seq = <<seq[1], seq[2]>>
    BY DEF IsList
  <2> QED BY <2>1, <2>2, <2>3
<1>2. ASSUME NEW k \in Media PROVE Kept(seq, {k}) = <<seq[k]>>
  <2> DEFINE places == {k}
  <2>1. places \subseteq Int
    BY DEF Media
  <2>2. IsFiniteSet(places) /\ Cardinality(places) = 1
    BY FS_Singleton
  <2> HIDE DEF places
  <2>3. Nth(places, 1) \in places
    <3>1. \A n \in 1..Cardinality(places) : Nth(places, n) \in places
      BY <2>1, <2>2, NthIs, Zenon
    <3> QED BY <2>2, <3>1
  <2>4. IsList(Kept(seq, places), 1) /\ Kept(seq, places)[1] = seq[Nth(places, 1)]
    BY <2>2, KeptIs
  <2>5. Kept(seq, places)[1] = seq[k]
    BY <2>3, <2>4 DEF places
  <2>6. Kept(seq, places) = <<Kept(seq, places)[1]>>
    BY <2>4 DEF IsList
  <2> QED BY <2>5, <2>6 DEF places
<1> QED BY <1>1, <1>2

\* Where the streams that are heard begin, and that their products are exact.
AreCandidates(c, heard) ==
  /\ IsList(c, 2)
  /\ heard \subseteq Media /\ heard # {}
  /\ \A k \in heard : c[k].first \in Nat /\ c[k].tb.num \in Nat /\ c[k].tb.den \in Nat \ {0}
  /\ \A j, k \in heard : Exact(c[j].first, c[j].tb, c[k].tb)
IsNotLater(a, b) == a.first * a.tb.num * b.tb.den <= b.first * b.tb.num * a.tb.den
IsTheOrigin(c, heard, j) ==
  /\ GlobalOrigin(Kept(c, heard)) = <<c[j]>> /\ Kept(c, heard) # <<>>
  /\ \A k \in heard : IsNotLater(c[j], c[k])

\* The origin is a candidate that none is earlier than.
LEMMA OriginIs ==
  ASSUME NEW c, NEW heard, AreCandidates(c, heard)
  PROVE  \E j \in heard : IsTheOrigin(c, heard, j)
<1>0. /\ IsList(c, 2) /\ heard \subseteq Media /\ heard # {}
      /\ \A k \in heard : c[k].first \in Nat /\ c[k].tb.num \in Nat /\ c[k].tb.den \in Nat
      /\ \A j, k \in heard : Exact(c[j].first, c[j].tb, c[k].tb)
  BY DEF AreCandidates
<1>1. ASSUME NEW k \in heard PROVE IsNotLater(c[k], c[k])
  <2>1. c[k].first * c[k].tb.num * c[k].tb.den \in Int
    BY <1>0
  <2> QED BY <2>1 DEF IsNotLater
<1>2. CASE \E k \in Media : heard = {k}
  <2>1. PICK k \in Media : heard = {k}
    BY <1>2
  <2>2. GlobalOrigin(Kept(c, heard)) = <<c[k]>> /\ Kept(c, heard) # <<>>
    BY <1>0, <2>1, KeptOfTwo, OriginOfOne
  <2> QED BY <1>1, <2>1, <2>2 DEF IsTheOrigin
<1>3. CASE heard = {1, 2}
  <2>1. Kept(c, heard) = <<c[1], c[2]>> /\ Kept(c, heard) # <<>>
    <3>1. Kept(c, {1, 2}) = <<c[1], c[2]>>
      BY <1>0, KeptOfTwo, Zenon
    <3>2. <<c[1], c[2]>> # <<>>
      OBVIOUS
    <3> QED BY <1>3, <3>1, <3>2
  <2>2. GlobalOrigin(Kept(c, heard)) = Earlier(<<c[1]>>, c[2])
    BY <2>1, OriginOfTwo
  <2>3. GlobalOrigin(Kept(c, heard)) = IF IsEarlier(c[2], c[1]) THEN <<c[2]>> ELSE <<c[1]>>
    <3> DEFINE a == c[1]
               b == c[2]
    <3>1. Exact(b.first, b.tb, a.tb) /\ Exact(a.first, a.tb, b.tb)
      BY <1>0, <1>3
    <3> HIDE DEF a, b
    <3>2. Earlier(<<a>>, b) = IF IsEarlier(b, a) THEN <<b>> ELSE <<a>>
      BY <3>1 DEF Earlier
    <3> QED BY <2>2, <3>2 DEF a, b
  <2>4. /\ IsEarlier(c[2], c[1]) => IsNotLater(c[2], c[1])
        /\ ~IsEarlier(c[2], c[1]) => IsNotLater(c[1], c[2])
    <3> DEFINE x == c[2].first * c[2].tb.num * c[1].tb.den
               y == c[1].first * c[1].tb.num * c[2].tb.den
    <3>1. x \in Int /\ y \in Int
      BY <1>0, <1>3
    <3>2. /\ IsEarlier(c[2], c[1]) <=> (x < y)
          /\ IsNotLater(c[2], c[1]) <=> (x <= y)
          /\ IsNotLater(c[1], c[2]) <=> (y <= x)
      BY Zenon DEF IsEarlier, IsNotLater
    <3> HIDE DEF x, y
    <3> QED BY <3>1, <3>2
  <2>5. CASE IsEarlier(c[2], c[1])
    <3>1. IsTheOrigin(c, heard, 2)
      BY <1>1, <1>3, <2>1, <2>3, <2>4, <2>5 DEF IsTheOrigin
    <3> QED BY <1>3, <3>1
  <2>6. CASE ~IsEarlier(c[2], c[1])
    <3>1. IsTheOrigin(c, heard, 1)
      BY <1>1, <1>3, <2>1, <2>3, <2>4, <2>6 DEF IsTheOrigin
    <3> QED BY <1>3, <3>1
  <2> QED BY <2>5, <2>6
<1>4. heard = {1, 2} \/ \E k \in Media : heard = {k}
  BY <1>0 DEF Media
<1> QED BY <1>2, <1>3, <1>4

\* Every stream of the file has a scope, and is read as it is sent.
LEMMA WholeIs ==
  /\ DOMAIN Whole.streams = Media /\ Scoped(Whole) = Media /\ Whole.partial = FALSE
  /\ \A i \in Media : Whole.streams[i].tb = shape.streams[i].tb
  /\ PacketViews(Whole.streams, Whole.is_ts) = [i \in Media |-> <<Sent(i)>>]
<1>1. /\ DOMAIN Whole.streams = Media /\ Whole.partial = FALSE /\ Whole.is_ts = FALSE
      /\ \A i \in Media : Whole.streams[i].packets = Sent(i)
      /\ \A i \in Media : Whole.streams[i].tb = shape.streams[i].tb
  <2> DEFINE packets == [i \in Media |-> sent[i].packets]
  <2>1. Whole = FileOf(FALSE, packets) /\ \A i \in Media : packets[i] = Sent(i)
    BY DEF Whole, Sent
  <2> HIDE DEF packets
  <2> DEFINE file == FileOf(FALSE, packets)
  <2>2. /\ DOMAIN file.streams = Media /\ file.partial = FALSE /\ file.is_ts = FALSE
        /\ \A i \in Media : IsStreamWith(file.streams[i], packets[i], shape.streams[i])
    BY FileIs
  <2> HIDE DEF file
  <2>3. Whole = file
    BY <2>1 DEF file
  <2> QED BY <2>1, <2>2, <2>3 DEF IsStreamWith
<1>2. \A i \in Media : Whole.streams[i].type # "attachment"
  <2>1. ASSUME NEW type, NEW kind, NEW stream, NEW own
        PROVE  StreamOf(type, kind, stream, own).type = type
    BY DEF StreamOf
  <2>2. /\ Whole.streams[1] = StreamOf("video", shape.streams[1], sent[1], [i \in Media |-> sent[i].packets][1])
        /\ Whole.streams[2] = StreamOf("audio", shape.streams[2], sent[2], [i \in Media |-> sent[i].packets][2])
    BY DEF Whole, FileOf
  <2>3. Whole.streams[1].type = "video" /\ Whole.streams[2].type = "audio"
    BY <2>1, <2>2
  <2> QED BY <2>3 DEF Media
<1>3. Scoped(Whole) = Media
  BY <1>1, <1>2 DEF Scoped
<1>4. PacketViews(Whole.streams, Whole.is_ts) = [i \in Media |-> <<Sent(i)>>]
  BY <1>1 DEF PacketViews
<1> QED BY <1>1, <1>3, <1>4

\* Where the streams start from the earliest of them.
AreTimed(c, heard) ==
  \A k \in heard : TicksToMs(c[k].first, c[k].tb) # <<>>

\* No stream starts before the origin in whole milliseconds either.
LEMMA NoneIsEarlier ==
  ASSUME NEW c, NEW heard, AreCandidates(c, heard), AreTimed(c, heard), NEW j \in heard,
         IsTheOrigin(c, heard, j), NEW k \in heard
  PROVE  /\ TicksToMs(c[k].first, c[k].tb) # <<>>
         /\ TicksToMs(c[k].first, c[k].tb)[1] - TicksToMs(c[j].first, c[j].tb)[1] \in Nat
         /\ Fits(TicksToMs(c[k].first, c[k].tb)[1] - TicksToMs(c[j].first, c[j].tb)[1])
<1> DEFINE a == c[j].first
           s == c[j].tb
           b == c[k].first
           t == c[k].tb
<1>1. /\ a \in Nat /\ s.num \in Nat /\ s.den \in Nat \ {0}
      /\ b \in Nat /\ t.num \in Nat /\ t.den \in Nat \ {0}
  BY DEF AreCandidates
<1>2. TicksToMs(a, s) # <<>> /\ TicksToMs(b, t) # <<>>
  BY DEF AreTimed
<1>3. a * s.num * t.den <= b * t.num * s.den
  BY DEF IsTheOrigin, IsNotLater
<1> HIDE DEF a, b, s, t
<1>4. /\ InMs(a, s) \in Nat /\ InMs(a, s) = (a * 1000 * s.num) \div s.den
      /\ TicksToMs(a, s)[1] = InMs(a, s)
  BY <1>1, <1>2, MsAre
<1>5. /\ InMs(b, t) \in Nat /\ InMs(b, t) <= MaxInt /\ InMs(b, t) = (b * 1000 * t.num) \div t.den
      /\ TicksToMs(b, t)[1] = InMs(b, t)
  BY <1>1, <1>2, MsAre
<1>6. InMs(a, s) <= InMs(b, t)
  BY <1>1, <1>3, <1>4, <1>5, NotLater
<1> DEFINE x == InMs(a, s)
           y == InMs(b, t)
<1>7. x \in Nat /\ y \in Nat /\ x <= y /\ y <= MaxInt
  BY <1>4, <1>5, <1>6
<1> HIDE DEF x, y
<1>8. y - x \in Nat /\ Fits(y - x)
  BY <1>7, Numbers DEF Fits
<1>9. TicksToMs(a, s)[1] = x /\ TicksToMs(b, t)[1] = y
  BY <1>4, <1>5 DEF x, y
<1> QED BY <1>2, <1>8, <1>9 DEF a, b, s, t

\* What every file satisfies: starts against the origin.
LEMMA OriginIsTheEarliestIn ==
  ASSUME TimelineTypeOK
  PROVE  OriginIsTheEarliest
<1> DEFINE views == [i \in Media |-> <<Sent(i)>>]
           firsts == [i \in Media |-> FirstPresented(Sent(i))]
           c == [i \in Media |-> [first |-> firsts[i][1], tb |-> shape.streams[i].tb]]
           heard == {i \in Media : Heard(i)}
           Origin(candidates) == IF candidates = <<>> THEN <<>> ELSE GlobalOrigin(candidates)
           OriginMs(origin) == IF origin = <<>> THEN <<>> ELSE TicksToMs(origin[1].first, origin[1].tb)
           originMs == OriginMs(Origin(Kept(c, heard)))
           starts == StartDuration(Whole).starts
           IsExact(i, p) == /\ TicksToMs(p.pts, shape.streams[i].tb) # <<>>
                            /\ \A j \in heard : Exact(p.pts, shape.streams[i].tb, shape.streams[j].tb)
<1> SUFFICES ASSUME heard # {}, \A i \in heard : \A p \in ToSet(sent[i].packets) : IsExact(i, p)
             PROVE  /\ \A i \in heard : starts.streams[i].skip = "none" /\ starts.streams[i].value[1] >= 0
                    /\ \E i \in heard : starts.streams[i].value[1] = 0
  BY DEF OriginIsTheEarliest
<1>1. /\ DOMAIN Whole.streams = Media /\ Scoped(Whole) = Media /\ Whole.partial = FALSE
      /\ \A i \in Media : Whole.streams[i].tb = shape.streams[i].tb
      /\ PacketViews(Whole.streams, Whole.is_ts) = views
  BY WholeIs
<1>2. \A i \in Media : /\ Heard(i) => \E p \in ToSet(Sent(i)) : p.pts \in Nat /\ firsts[i] = <<p.pts>>
                       /\ ~Heard(i) => firsts[i] = <<>>
  BY FirstIs
<1>3. \A i \in Media : views[i] # <<>> /\ FirstPresented(views[i][1]) = firsts[i]
  OBVIOUS
<1>4. \A i \in Media : shape.streams[i].tb.num \in Nat \ {0} /\ shape.streams[i].tb.den \in Nat \ {0}
  <2>1. \A i \in Media : shape.streams[i] \in Kinds
    BY ShapesAssumption DEF TimelineTypeOK
  <2> QED BY <2>1 DEF Kinds
<1>5. starts = StartsFrom(Whole, views, firsts, originMs)
  <2>1. starts = Starts(Whole, PacketViews(Whole.streams, Whole.is_ts))
    BY <1>1 DEF StartDuration
  <2>2. starts = Starts(Whole, views)
    BY <1>1, <2>1
  <2> DEFINE own == [i \in DOMAIN Whole.streams |-> IF views[i] = <<>> THEN <<>> ELSE FirstPresented(views[i][1])]
             list == [i \in DOMAIN Whole.streams |-> [first |-> own[i][1], tb |-> Whole.streams[i].tb]]
             places == {i \in Scoped(Whole) : own[i] # <<>>}
  <2>3. Starts(Whole, views) = StartsFrom(Whole, views, own, OriginMs(Origin(Kept(list, places))))
    BY Zenon DEF Starts
  <2>4. own = firsts
    BY <1>1, <1>3
  <2> HIDE DEF own, firsts, views
  <2>5. list = c
    BY <1>1, <2>4
  <2>6. places = heard
    <3>1. \A i \in Media : firsts[i] # <<>> <=> Heard(i)
      BY <1>2
    <3>2. places = {i \in Media : firsts[i] # <<>>}
      BY <1>1, <2>4
    <3> QED BY <3>1, <3>2
  <2> HIDE DEF list, places, c, heard, Origin, OriginMs
  <2> QED BY <2>2, <2>3, <2>4, <2>5, <2>6
<1>6. \A i \in heard : /\ c[i].first \in Nat /\ firsts[i] = <<c[i].first>> /\ c[i].tb = shape.streams[i].tb
                       /\ \E p \in ToSet(sent[i].packets) : c[i].first = p.pts
  <2> TAKE i \in heard
  <2>1. PICK p \in ToSet(Sent(i)) : p.pts \in Nat /\ firsts[i] = <<p.pts>>
    BY <1>2
  <2> HIDE DEF firsts
  <2>2. c[i].first = p.pts /\ c[i].tb = shape.streams[i].tb
    BY <2>1
  <2> QED BY <2>1, <2>2 DEF Sent
<1>7. IsList(c, 2)
  <2>1. Media = 1..2
    BY DEF Media
  <2> QED BY <2>1 DEF IsList
<1> HIDE DEF c, firsts, views
<1>8. AreCandidates(c, heard) /\ AreTimed(c, heard)
  <2>1. \A i \in heard : TicksToMs(c[i].first, c[i].tb) # <<>> /\ \A j \in heard : Exact(c[i].first, c[i].tb, c[j].tb)
    <3> TAKE i \in heard
    <3>1. PICK p \in ToSet(sent[i].packets) : c[i].first = p.pts
      BY <1>6
    <3>2. IsExact(i, p)
      OBVIOUS
    <3> QED BY <1>6, <3>1, <3>2
  <2>2. \A i \in heard : c[i].first \in Nat /\ c[i].tb.num \in Nat /\ c[i].tb.den \in Nat \ {0}
    BY <1>4, <1>6
  <2> QED BY <1>7, <2>1, <2>2 DEF AreCandidates, AreTimed
<1>9. PICK j \in heard : IsTheOrigin(c, heard, j)
  BY <1>8, OriginIs
<1> DEFINE ms == TicksToMs(c[j].first, c[j].tb)
<1>10. originMs = ms
  <2>1. Kept(c, heard) # <<>> /\ GlobalOrigin(Kept(c, heard)) = <<c[j]>>
    BY <1>9 DEF IsTheOrigin
  <2>2. Origin(Kept(c, heard)) = <<c[j]>>
    BY <2>1
  <2> HIDE DEF Origin
  <2> QED BY <2>2
<1> HIDE DEF originMs
<1>11. ms # <<>> /\ \A i \in heard : firsts[i] # <<>>
  <2>1. ms # <<>>
    BY <1>8 DEF AreTimed
  <2>2. \A i \in heard : <<c[i].first>> # <<>>
    OBVIOUS
  <2> HIDE DEF heard, ms
  <2> QED BY <1>6, <2>1, <2>2
<1>12. ASSUME NEW i \in heard
       PROVE  starts.streams[i] = Reports(TicksToMs(c[i].first, c[i].tb)[1] - ms[1])
  <2> DEFINE own == TicksToMs(firsts[i][1], Whole.streams[i].tb)
  <2>1. own = TicksToMs(c[i].first, c[i].tb)
    BY <1>1, <1>6
  <2>2. own # <<>> /\ Fits(own[1] - ms[1])
    BY <1>8, <1>9, <2>1, NoneIsEarlier
  <2>3. StartsFrom(Whole, views, firsts, ms).streams[i] = Reports(own[1] - ms[1])
    <3> HIDE DEF ms, own
    <3>1. StartsFrom(Whole, views, firsts, ms).streams[i]
            = IF firsts[i] = <<>> THEN Skips(IF views[i] = <<>> THEN "insufficient_data" ELSE "no_timing_data")
              ELSE IF own # <<>> /\ Fits(own[1] - ms[1]) THEN Reports(own[1] - ms[1]) ELSE Skips("insufficient_data")
      BY <1>1, <1>11 DEF StartsFrom, own
    <3> QED BY <1>11, <2>2, <3>1
  <2> HIDE DEF ms
  <2> QED BY <1>5, <1>10, <2>1, <2>3
<1>13. ASSUME NEW i \in heard
       PROVE  starts.streams[i].skip = "none" /\ starts.streams[i].value[1] >= 0
  <2> DEFINE x == TicksToMs(c[i].first, c[i].tb)[1] - ms[1]
  <2>1. x \in Nat
    BY <1>8, <1>9, NoneIsEarlier
  <2>2. starts.streams[i] = Reports(x)
    BY <1>12
  <2> HIDE DEF x, starts
  <2> QED BY <2>1, <2>2 DEF Reports
<1>14. starts.streams[j].value[1] = 0
  <2> DEFINE x == ms[1]
  <2>1. x \in Int
    BY <1>8, <1>9, MsAre DEF AreTimed, AreCandidates
  <2>2. starts.streams[j] = Reports(ms[1] - ms[1])
    BY <1>12
  <2>3. starts.streams[j] = Reports(x - x)
    BY <2>2
  <2> HIDE DEF x, starts, ms
  <2>4. x - x = 0
    BY <2>1
  <2> QED BY <2>3, <2>4 DEF Reports
<1> QED BY <1>13, <1>14

-------------------------------------------------------------------------------
(* The same of the specification.                                          *)

\* A stream of fewer than 200 packets is cfr exactly when it is on the grid of equal
\* intervals (cadence.cpp), in every file, however long its ticks.
THEOREM CfrIsTheGrid == TimelineSpec => []CfrMeansOnTheGrid
<1>1. TimelineTypeOK => CfrMeansOnTheGrid
  BY CfrMeansOnTheGridIn
<1> QED BY <1>1, TimelineTyped, PTL

\* A gap is reported where nothing is presented (emit_timeline_gaps), in every file,
\* in whatever order its packets are read.
THEOREM GapsAreHoles == TimelineSpec => []GapsAreTheHoles
<1>1. TimelineTypeOK => GapsAreTheHoles
  BY GapsAreTheHolesIn
<1> QED BY <1>1, TimelineTyped, PTL

\* A jump is told as announced exactly when a packet's flag announced it
\* (emit_timeline_discontinuities), on either side of the wrap.
THEOREM AnnouncementsAreHeard == TimelineSpec => []AnnouncedJumpsAreFlagged
<1>1. TimelineTypeOK => AnnouncedJumpsAreFlagged
  BY AnnouncedJumpsAreFlaggedIn
<1> QED BY <1>1, TimelineTyped, PTL

\* No stream starts before the file's origin and one starts at it (global_origin_ticks),
\* whatever the timebases.
THEOREM TheOriginIsTheEarliest == TimelineSpec => []OriginIsTheEarliest
<1>1. TimelineTypeOK => OriginIsTheEarliest
  BY OriginIsTheEarliestIn
<1> QED BY <1>1, TimelineTyped, PTL

-------------------------------------------------------------------------------
(* Sums over a set, in whatever order.                                     *)

\* A sum over each subset, whichever element is taken from it first.
IsSum(fold, S, v) ==
  /\ fold \in [SUBSET S -> Int] /\ fold[{}] = 0
  /\ \A s \in SUBSET S : \A x \in s : fold[s] = v[x] + fold[s \ {x}]

\* A sum that takes the elements as they are picked.
AddsUp(fold, S, v, pick) ==
  /\ fold \in [SUBSET S -> Int] /\ fold[{}] = 0
  /\ \A s \in SUBSET S : s # {} => fold[s] = v[pick[s]] + fold[s \ {pick[s]}]

\* The elements as CHOOSE picks them.
IsChoosing(pick, S) ==
  IsPick(pick, S) /\ \A s \in SUBSET S : pick[s] = CHOOSE x \in s : TRUE

\* A sum that takes the elements in one order is the sum in any.
LEMMA SumInAnyOrder ==
  ASSUME NEW S, IsFiniteSet(S), NEW v \in [S -> Int], NEW pick, IsPick(pick, S),
         NEW fold, AddsUp(fold, S, v, pick)
  PROVE  IsSum(fold, S, v)
<1> DEFINE Free(s) == \A x \in s : fold[s] = v[x] + fold[s \ {x}]
           Good == {n \in Nat : \A s \in SUBSET S : Cardinality(s) = n => Free(s)}
<1>1. 0 \in Good
  <2>1. \A s \in SUBSET S : Cardinality(s) = 0 => s = {}
    BY FS_Subset, FS_EmptySet
  <2> QED BY <2>1
<1>2. ASSUME NEW n \in Nat, n \in Good PROVE n + 1 \in Good
  <2> SUFFICES ASSUME NEW s \in SUBSET S, Cardinality(s) = n + 1, NEW x \in s
               PROVE  fold[s] = v[x] + fold[s \ {x}]
    OBVIOUS
  <2> DEFINE p == pick[s]
             both == (s \ {p}) \ {x}
  <2>1. p \in s /\ p \in S /\ x \in S
    BY DEF IsPick
  <2>2. fold[s] = v[p] + fold[s \ {p}]
    BY <2>1 DEF AddsUp
  <2>3. CASE x = p
    BY <2>2, <2>3
  <2>4. CASE x # p
    <3>0. ASSUME NEW e \in s
          PROVE  s \ {e} \in SUBSET S /\ Cardinality(s \ {e}) = n
      <4>1. Cardinality(s \ {e}) = Cardinality(s) - 1
        BY SmallerWithout
      <4> QED BY <4>1
    <3>1. /\ s \ {p} \in SUBSET S /\ s \ {x} \in SUBSET S
          /\ Cardinality(s \ {p}) = n /\ Cardinality(s \ {x}) = n
      BY <2>1, <3>0
    <3>2. Free(s \ {p}) /\ Free(s \ {x})
      BY <1>2, <3>1
    <3>3. x \in s \ {p} /\ p \in s \ {x} /\ (s \ {x}) \ {p} = both
      BY <2>1, <2>4
    <3>4. fold[s \ {p}] = v[x] + fold[both] /\ fold[s \ {x}] = v[p] + fold[both]
      BY <3>2, <3>3
    <3>5. both \in SUBSET S
      OBVIOUS
    <3>6. fold[both] \in Int /\ v[x] \in Int /\ v[p] \in Int
      BY <2>1, <3>5 DEF AddsUp
    <3> HIDE DEF both, p
    <3> QED BY <2>2, <3>4, <3>6
  <2> QED BY <2>3, <2>4
<1> HIDE DEF Good
<1>3. Nat \subseteq Good
  BY <1>1, <1>2, SetInduction
<1>4. \A s \in SUBSET S : Free(s)
  <2> TAKE s \in SUBSET S
  <2>1. Cardinality(s) \in Nat
    BY FS_Subset, FS_CardinalityType
  <2> QED BY <1>3, <2>1 DEF Good
<1> QED BY <1>4 DEF IsSum, AddsUp

\* The numbers of a function on a finite set have a sum.
LEMMA SumExists ==
  ASSUME NEW S, IsFiniteSet(S), NEW v \in [S -> Int]
  PROVE  \E g, pick : IsChoosing(pick, S) /\ AddsUp(g, S, v, pick)
<1> DEFINE pick == [s \in SUBSET S |-> CHOOSE x \in s : TRUE]
           step == [p \in Int \X S |-> v[p[2]] + p[1]]
<1>1. IsPick(pick, S) /\ \A s \in SUBSET S : pick[s] = CHOOSE x \in s : TRUE
  BY DEF IsPick
<1>2. step \in [Int \X S -> Int] /\ \A a \in Int, x \in S : step[<<a, x>>] = v[x] + a
  OBVIOUS
<1> HIDE DEF pick, step
<1>3. PICK g : IsSetFold(g, Int, 0, S, pick, step)
  <2> DEFINE A == Int
             base == 0
  <2>1. base \in A /\ step \in [A \X S -> A]
    BY <1>2
  <2> HIDE DEF A, base
  <2>2. \E g : IsSetFold(g, A, base, S, pick, step)
    BY <1>1, <2>1, SetFoldExists
  <2> QED BY <2>2 DEF A, base
<1>4. ASSUME NEW s \in SUBSET S, s # {}
      PROVE  g[s] = v[pick[s]] + g[s \ {pick[s]}]
  <2>1. pick[s] \in S /\ s \ {pick[s]} \in SUBSET S
    BY <1>1, <1>4 DEF IsPick
  <2>2. g[s \ {pick[s]}] \in Int
    BY <1>3, <2>1 DEF IsSetFold
  <2>3. g[s] = step[<<g[s \ {pick[s]}], pick[s]>>]
    BY <1>3, <1>4 DEF IsSetFold
  <2>4. step[<<g[s \ {pick[s]}], pick[s]>>] = v[pick[s]] + g[s \ {pick[s]}]
    BY <1>2, <2>1, <2>2
  <2> QED BY <2>3, <2>4
<1>5. g \in [SUBSET S -> Int] /\ g[{}] = 0
  BY <1>3 DEF IsSetFold
<1>6. AddsUp(g, S, v, pick)
  BY <1>4, <1>5 DEF AddsUp
<1>7. IsChoosing(pick, S)
  BY <1>1 DEF IsChoosing
<1> QED BY <1>6, <1>7

\* A function that takes an element's number and the sum of the others is that sum.
LEMMA SumIsOnlyOne ==
  ASSUME NEW S, IsFiniteSet(S), NEW v \in [S -> Int], NEW fold,
         fold = [s \in SUBSET S |-> IF s = {} THEN 0
                                    ELSE v[CHOOSE x \in s : TRUE] + fold[s \ {CHOOSE x \in s : TRUE}]]
  PROVE  IsSum(fold, S, v)
<1> DEFINE pick == [s \in SUBSET S |-> CHOOSE x \in s : TRUE]
           step == [p \in Int \X S |-> v[p[2]] + p[1]]
<1>1. IsPick(pick, S) /\ \A s \in SUBSET S : pick[s] = CHOOSE x \in s : TRUE
  BY DEF IsPick
<1>2. step \in [Int \X S -> Int] /\ \A a \in Int, x \in S : step[<<a, x>>] = v[x] + a
  OBVIOUS
<1> HIDE DEF pick, step
<1>3. /\ fold \in [SUBSET S -> {fold[s] : s \in SUBSET S}]
      /\ fold[{}] = 0
      /\ \A s \in SUBSET S : s # {} => fold[s] = v[pick[s]] + fold[s \ {pick[s]}]
  BY <1>1
<1>4. ASSUME NEW s \in SUBSET S, s # {}, fold[s \ {pick[s]}] \in Int
      PROVE  fold[s] = step[<<fold[s \ {pick[s]}], pick[s]>>]
  <2>1. pick[s] \in S
    BY <1>1, <1>4 DEF IsPick
  <2> QED BY <1>2, <1>3, <1>4, <2>1
<1>5. SetUnfolds(fold, Int, 0, S, pick, step)
  BY <1>3, <1>4 DEF SetUnfolds
<1>6. IsSetFold(fold, Int, 0, S, pick, step)
  <2> DEFINE A == Int
             base == 0
  <2>1. base \in A /\ step \in [A \X S -> A] /\ SetUnfolds(fold, A, base, S, pick, step)
    BY <1>2, <1>5
  <2> HIDE DEF A, base
  <2>2. IsSetFold(fold, A, base, S, pick, step)
    BY <1>1, <2>1, SetFoldRuns
  <2> QED BY <2>2 DEF A, base
<1>7. fold \in [SUBSET S -> Int]
  BY <1>6 DEF IsSetFold
<1>8. AddsUp(fold, S, v, pick)
  BY <1>3, <1>7 DEF AddsUp
<1> QED BY <1>1, <1>8, SumInAnyOrder

\* Total is the sum over the places.
LEMMA TotalIsSum ==
  ASSUME NEW S, IsFiniteSet(S), NEW v \in [S -> Int]
  PROVE  \E fold : IsSum(fold, S, v) /\ Total(v) = fold[S]
<1> DEFINE Folds(iter) == iter = [s \in SUBSET S |->
                                 IF s = {} THEN 0
                                 ELSE v[CHOOSE x \in s : TRUE] + iter[s \ {CHOOSE x \in s : TRUE}]]
           fold == CHOOSE iter : Folds(iter)
<1>1. DOMAIN v = S
  OBVIOUS
<1>2. Total(v) = fold[S]
  BY <1>1, Zenon DEF Total, FoldFunction, FoldFunctionOnSet, MapThenFoldSet
<1>3. Folds(fold)
  <2> HIDE DEF fold
  <2>1. PICK g, pick : IsChoosing(pick, S) /\ AddsUp(g, S, v, pick)
    BY SumExists
  <2>2. ASSUME NEW s \in SUBSET S, s # {}
        PROVE  g[s] = v[CHOOSE x \in s : TRUE] + g[s \ {CHOOSE x \in s : TRUE}]
    BY <2>1, <2>2 DEF AddsUp, IsChoosing
  <2>3. Folds(g)
    BY <2>1, <2>2 DEF AddsUp
  <2> HIDE DEF Folds
  <2> QED BY <2>3 DEF fold
<1> HIDE DEF fold
<1>4. IsSum(fold, S, v)
  BY <1>3, SumIsOnlyOne
<1> QED BY <1>2, <1>4

\* How far the points of each pair are from each other on one axis times how far
\* on the other.
RiseTogether(v, S, points, x, y) ==
  \A p \in S : v[p] = (points[p[2]][x] - points[p[1]][x]) * (points[p[2]][y] - points[p[1]][y])

\* The sum of products is the sum over the pairs.
LEMMA ProductsAreSum ==
  ASSUME NEW points, NEW x, NEW y, NEW S, S = Pairs(points), IsFiniteSet(S), NEW v \in [S -> Int],
         RiseTogether(v, S, points, x, y)
  PROVE  \E fold : IsSum(fold, S, v) /\ SumOfProducts(points, x, y) = fold[S]
<1> DEFINE at(s) == CHOOSE p \in s : TRUE
           Folds(iter) == iter = [s \in SUBSET S |->
                                 IF s = {} THEN 0
                                 ELSE (points[at(s)[2]][x] - points[at(s)[1]][x])
                                        * (points[at(s)[2]][y] - points[at(s)[1]][y]) + iter[s \ {at(s)}]]
           fold == CHOOSE iter : Folds(iter)
<1>2. SumOfProducts(points, x, y) = fold[S]
  BY Zenon DEF SumOfProducts, MapThenSumSet, MapThenFoldSet
<1>0. ASSUME NEW s \in SUBSET S, s # {}
      PROVE  v[at(s)] = (points[at(s)[2]][x] - points[at(s)[1]][x])
                          * (points[at(s)[2]][y] - points[at(s)[1]][y])
  <2>1. at(s) \in s
    BY <1>0
  <2> HIDE DEF at
  <2> QED BY <2>1 DEF RiseTogether
<1>3. Folds(fold)
  <2> HIDE DEF fold
  <2>1. PICK g, pick : IsChoosing(pick, S) /\ AddsUp(g, S, v, pick)
    BY SumExists
  <2>2. \A s \in SUBSET S : pick[s] = at(s)
    BY <2>1 DEF IsChoosing
  <2> HIDE DEF at
  <2>3. \A s \in SUBSET S : s # {} =>
          g[s] = (points[at(s)[2]][x] - points[at(s)[1]][x])
                   * (points[at(s)[2]][y] - points[at(s)[1]][y]) + g[s \ {at(s)}]
    <3> SUFFICES ASSUME NEW s \in SUBSET S, s # {}
                 PROVE  g[s] = (points[at(s)[2]][x] - points[at(s)[1]][x])
                                 * (points[at(s)[2]][y] - points[at(s)[1]][y]) + g[s \ {at(s)}]
      OBVIOUS
    <3>1. g[s] = v[at(s)] + g[s \ {at(s)}]
      BY <2>1, <2>2 DEF AddsUp
    <3>2. v[at(s)] = (points[at(s)[2]][x] - points[at(s)[1]][x])
                       * (points[at(s)[2]][y] - points[at(s)[1]][y])
      BY <1>0
    <3> QED BY <3>1, <3>2, Zenon
  <2>4. Folds(g)
    BY <2>1, <2>3 DEF AddsUp
  <2> HIDE DEF Folds
  <2> QED BY <2>4 DEF fold
<1> HIDE DEF fold
<1>4. fold = [s \in SUBSET S |-> IF s = {} THEN 0 ELSE v[at(s)] + fold[s \ {at(s)}]]
  <2> HIDE DEF at
  <2> QED BY <1>0, <1>3
<1>5. IsSum(fold, S, v)
  BY <1>4, SumIsOnlyOne
<1> QED BY <1>2, <1>5

-------------------------------------------------------------------------------
(* Sums over pairs from sums over places.                                  *)

\* The pairs of the first k places, and those of place k + 1 with the first m.
UpTo(k) == {p \in (1..k) \X (1..k) : p[1] < p[2]}
Beside(k, m) == UpTo(k) \union {<<i, k + 1>> : i \in 1..m}

\* Sums over the first places.
SumsTo(fold, v, n) ==
  /\ fold[1..0] = 0
  /\ \A k \in 0..n : fold[1..k] \in Int
  /\ \A k \in 0..(n - 1) : fold[1..(k + 1)] = v[k + 1] + fold[1..k]

\* A sum over n places is reached place by place.
LEMMA SumOfFirst ==
  ASSUME NEW n \in Nat, NEW v \in [1..n -> Int], NEW fold, IsSum(fold, 1..n, v)
  PROVE  SumsTo(fold, v, n)
<1>1. \A k \in 0..n : 1..k \in SUBSET (1..n)
  OBVIOUS
<1>2. 1..0 = {}
  OBVIOUS
<1>3. ASSUME NEW k \in 0..(n - 1) PROVE fold[1..(k + 1)] = v[k + 1] + fold[1..k]
  <2>1. 1..(k + 1) \in SUBSET (1..n) /\ k + 1 \in 1..(k + 1)
    BY <1>1
  <2>2. (1..(k + 1)) \ {k + 1} = 1..k
    OBVIOUS
  <2>3. fold[1..(k + 1)] = v[k + 1] + fold[(1..(k + 1)) \ {k + 1}]
    BY <2>1 DEF IsSum
  <2> QED BY <2>2, <2>3
<1>4. fold[1..0] = 0
  BY <1>2 DEF IsSum
<1>5. \A k \in 0..n : fold[1..k] \in Int
  BY <1>1 DEF IsSum
<1> QED BY <1>3, <1>4, <1>5 DEF SumsTo

\* The pairs come place by place, and those of a place partner by partner.
LEMMA PairsInTurn ==
  ASSUME NEW n \in Nat
  PROVE  /\ UpTo(0) = {} /\ IsFiniteSet(UpTo(n))
         /\ \A k \in 0..(n - 1) :
              /\ Beside(k, 0) = UpTo(k) /\ Beside(k, k) = UpTo(k + 1)
              /\ \A m \in 0..k : Beside(k, m) \in SUBSET UpTo(n)
              /\ \A m \in 0..(k - 1) : /\ <<m + 1, k + 1>> \in Beside(k, m + 1)
                                       /\ Beside(k, m + 1) \ {<<m + 1, k + 1>>} = Beside(k, m)
<1>1. UpTo(0) = {}
  BY DEF UpTo
<1>2. IsFiniteSet(UpTo(n))
  <2>0. IsFiniteSet(1..n)
    BY FS_Interval
  <2>1. IsFiniteSet((1..n) \X (1..n))
    BY <2>0, FS_Product
  <2> QED BY <2>1, FS_Subset DEF UpTo
<1>3. ASSUME NEW k \in 0..(n - 1)
      PROVE  /\ Beside(k, 0) = UpTo(k) /\ Beside(k, k) = UpTo(k + 1)
             /\ \A m \in 0..k : Beside(k, m) \in SUBSET UpTo(n)
             /\ \A m \in 0..(k - 1) : /\ <<m + 1, k + 1>> \in Beside(k, m + 1)
                                      /\ Beside(k, m + 1) \ {<<m + 1, k + 1>>} = Beside(k, m)
  <2>0. k \in Nat /\ k + 1 <= n
    OBVIOUS
  <2>1. Beside(k, 0) = UpTo(k)
    BY DEF Beside
  <2>2. Beside(k, k) = UpTo(k + 1)
    <3>1. \A p \in Beside(k, k) : p \in UpTo(k + 1)
      BY <2>0 DEF Beside, UpTo
    <3>2. \A p \in UpTo(k + 1) : p \in Beside(k, k)
      <4> TAKE p \in UpTo(k + 1)
      <4>1. p = <<p[1], p[2]>> /\ p[1] \in 1..(k + 1) /\ p[2] \in 1..(k + 1) /\ p[1] < p[2]
        BY DEF UpTo
      <4>2. CASE p[2] = k + 1
        <5>1. p[1] \in 1..k
          BY <2>0, <4>1, <4>2
        <5> QED BY <4>1, <4>2, <5>1 DEF Beside
      <4>3. CASE p[2] # k + 1
        <5>1. p[1] \in 1..k /\ p[2] \in 1..k
          BY <2>0, <4>1, <4>3
        <5> QED BY <4>1, <5>1 DEF Beside, UpTo
      <4> QED BY <4>2, <4>3
    <3> QED BY <3>1, <3>2
  <2>3. \A m \in 0..k : Beside(k, m) \in SUBSET UpTo(n)
    BY <2>0 DEF Beside, UpTo
  <2>4. ASSUME NEW m \in 0..(k - 1)
        PROVE  /\ <<m + 1, k + 1>> \in Beside(k, m + 1)
               /\ Beside(k, m + 1) \ {<<m + 1, k + 1>>} = Beside(k, m)
    <3>1. m + 1 \in 1..(m + 1) /\ m \in Nat
      BY <2>0
    <3>2. <<m + 1, k + 1>> \in Beside(k, m + 1)
      BY <3>1 DEF Beside
    <3>3. <<m + 1, k + 1>> \notin Beside(k, m)
      BY <2>0, <3>1 DEF Beside, UpTo
    <3>4. Beside(k, m + 1) = Beside(k, m) \union {<<m + 1, k + 1>>}
      <4>1. 1..(m + 1) = (1..m) \union {m + 1}
        BY <3>1
      <4> QED BY <4>1 DEF Beside
    <3> QED BY <3>2, <3>3, <3>4
  <2> QED BY <2>1, <2>2, <2>3, <2>4
<1> QED BY <1>1, <1>2, <1>3

\* The algebra of one more pair, and of one more place.
LEMMA OneMorePair ==
  ASSUME NEW a \in Int, NEW b \in Int, NEW t \in Int, NEW y \in Int, NEW m \in Int, NEW D \in Int,
         NEW T \in Int, NEW Y \in Int, NEW P \in Int
  PROVE  (a - t) * (b - y) + (D + m * (a * b) - a * Y - b * T + P)
           = D + (m + 1) * (a * b) - a * (y + Y) - b * (t + T) + (t * y + P)
OBVIOUS

\* One more place's pairs change the total by its products with the rest.
LEMMA OneMorePlace ==
  ASSUME NEW a \in Int, NEW b \in Int, NEW k \in Int, NEW T \in Int, NEW Y \in Int, NEW P \in Int
  PROVE  (k * P - T * Y) + k * (a * b) - a * Y - b * T + P = (k + 1) * (a * b + P) - (a + T) * (b + Y)
OBVIOUS

\* The products of two functions, and of their differences over pairs.
Multiplied(ty, S, t, y) == \A i \in S : ty[i] = t[i] * y[i]
OfRises(v, S, t, y) == \A p \in S : v[p] = (t[p[2]] - t[p[1]]) * (y[p[2]] - y[p[1]])

\* n times the sum of the products less the product of the sums.
IsByTotals(total, n, products, left, right) == total = n * products - left * right

\* Over all pairs the products of the differences are n times the sum of the products
\* less the product of the sums.
LEMMA PairsByTotals ==
  ASSUME NEW n \in Nat, NEW t \in [1..n -> Int], NEW y \in [1..n -> Int], NEW ty \in [1..n -> Int],
         Multiplied(ty, 1..n, t, y),
         NEW v \in [UpTo(n) -> Int], OfRises(v, UpTo(n), t, y),
         NEW D, IsSum(D, UpTo(n), v), NEW T, IsSum(T, 1..n, t), NEW Y, IsSum(Y, 1..n, y),
         NEW P, IsSum(P, 1..n, ty)
  PROVE  IsByTotals(D[UpTo(n)], n, P[1..n], T[1..n], Y[1..n])
<1>0. /\ \A i \in 1..n : ty[i] = t[i] * y[i]
      /\ \A p \in UpTo(n) : v[p] = (t[p[2]] - t[p[1]]) * (y[p[2]] - y[p[1]])
  BY DEF Multiplied, OfRises
<1>1. /\ T[1..0] = 0 /\ Y[1..0] = 0 /\ P[1..0] = 0
      /\ \A k \in 0..n : T[1..k] \in Int /\ Y[1..k] \in Int /\ P[1..k] \in Int
      /\ \A k \in 0..(n - 1) : /\ T[1..(k + 1)] = t[k + 1] + T[1..k]
                               /\ Y[1..(k + 1)] = y[k + 1] + Y[1..k]
                               /\ P[1..(k + 1)] = ty[k + 1] + P[1..k]
  <2>1. SumsTo(T, t, n) /\ SumsTo(Y, y, n) /\ SumsTo(P, ty, n)
    BY SumOfFirst, Zenon
  <2> QED BY <2>1 DEF SumsTo
<1>2. ASSUME NEW k \in 0..(n - 1), D[UpTo(k)] = k * P[1..k] - T[1..k] * Y[1..k]
      PROVE  D[UpTo(k + 1)] = (k + 1) * P[1..(k + 1)] - T[1..(k + 1)] * Y[1..(k + 1)]
  <2> DEFINE a == t[k + 1]
             b == y[k + 1]
             Says(m) == D[Beside(k, m)] = D[UpTo(k)] + m * (a * b) - a * Y[1..m] - b * T[1..m] + P[1..m]
             Good == {m \in Nat : m <= k => Says(m)}
  <2>0. k \in Nat /\ k + 1 \in 1..n /\ a \in Int /\ b \in Int /\ D[UpTo(k)] \in Int
    <3>1. k \in Nat /\ k + 1 \in 1..n
      OBVIOUS
    <3>2. UpTo(k) \in SUBSET UpTo(n)
      <4>1. 1..k \subseteq 1..n
        BY <3>1
      <4>2. (1..k) \X (1..k) \subseteq (1..n) \X (1..n)
        BY <4>1
      <4> QED BY <4>2, Zenon DEF UpTo
    <3>3. D[UpTo(k)] \in Int
      BY <3>2 DEF IsSum
    <3> QED BY <3>1, <3>3
  <2>1. /\ Beside(k, 0) = UpTo(k) /\ Beside(k, k) = UpTo(k + 1)
        /\ \A m \in 0..k : Beside(k, m) \in SUBSET UpTo(n)
        /\ \A m \in 0..(k - 1) : /\ <<m + 1, k + 1>> \in Beside(k, m + 1)
                                 /\ Beside(k, m + 1) \ {<<m + 1, k + 1>>} = Beside(k, m)
    BY PairsInTurn
  <2> HIDE DEF a, b
  <2>2. 0 \in Good
    <3>1. Says(0)
      <4> DEFINE d == D[UpTo(k)]
      <4>1. d \in Int /\ Beside(k, 0) = UpTo(k)
        BY <2>0, <2>1
      <4> HIDE DEF d
      <4>2. d = d + 0 * (a * b) - a * 0 - b * 0 + 0
        BY <2>0, <4>1
      <4> QED BY <1>1, <4>1, <4>2 DEF d
    <3> QED BY <3>1
  <2>3. ASSUME NEW m \in Nat, m \in Good PROVE m + 1 \in Good
    <3> SUFFICES ASSUME m + 1 <= k PROVE Says(m + 1)
      OBVIOUS
    <3>1. m \in 0..k /\ m \in 0..(k - 1) /\ m \in 0..n /\ m \in 0..(n - 1) /\ m + 1 \in 1..n /\ m + 1 \in 0..k
      <4>1. k \in Nat /\ k < n
        BY <2>0
      <4> QED BY <4>1
    <3>2. Says(m)
      BY <2>0, <2>3
    <3> DEFINE p == <<m + 1, k + 1>>
               s == t[m + 1]
               z == y[m + 1]
               d == D[UpTo(k)]
               TT == T[1..m]
               YY == Y[1..m]
               PP == P[1..m]
    <3>3. /\ Beside(k, m + 1) \in SUBSET UpTo(n) /\ p \in Beside(k, m + 1)
          /\ Beside(k, m + 1) \ {p} = Beside(k, m)
      BY <2>1, <3>1
    <3>4. D[Beside(k, m + 1)] = v[p] + D[Beside(k, m)]
      <4> HIDE DEF p
      <4>1. D[Beside(k, m + 1)] = v[p] + D[Beside(k, m + 1) \ {p}]
        BY <3>3 DEF IsSum
      <4> QED BY <3>3, <4>1
    <3>5. v[p] = (a - s) * (b - z)
      <4>1. p \in UpTo(n) /\ p[1] = m + 1 /\ p[2] = k + 1
        BY <3>3
      <4> HIDE DEF p
      <4> QED BY <1>0, <4>1 DEF a, b
    <3>6. s \in Int /\ z \in Int /\ d \in Int /\ TT \in Int /\ YY \in Int /\ PP \in Int
      BY <1>1, <2>0, <3>1
    <3>7. T[1..(m + 1)] = s + TT /\ Y[1..(m + 1)] = z + YY /\ P[1..(m + 1)] = s * z + PP
      BY <1>0, <1>1, <3>1
    <3>8. D[Beside(k, m)] = d + m * (a * b) - a * YY - b * TT + PP
      BY <3>2
    <3> HIDE DEF p, s, z, d, TT, YY, PP
    <3>9. D[Beside(k, m + 1)] = (a - s) * (b - z) + (d + m * (a * b) - a * YY - b * TT + PP)
      BY <3>4, <3>5, <3>8
    <3>10. m \in Int
      OBVIOUS
    <3>11. D[Beside(k, m + 1)] = d + (m + 1) * (a * b) - a * (z + YY) - b * (s + TT) + (s * z + PP)
      BY <2>0, <3>6, <3>9, <3>10, OneMorePair
    <3> QED BY <3>7, <3>11 DEF d
  <2>4. Says(k)
    <3> HIDE DEF Says
    <3>1. k \in Good
      BY <2>0, <2>2, <2>3, SetInduction
    <3> QED BY <2>0, <3>1
  <2> DEFINE TT == T[1..k]
             YY == Y[1..k]
             PP == P[1..k]
  <2>5. TT \in Int /\ YY \in Int /\ PP \in Int
    BY <1>1, <2>0
  <2>6. T[1..(k + 1)] = a + TT /\ Y[1..(k + 1)] = b + YY /\ P[1..(k + 1)] = a * b + PP
    BY <1>0, <1>1, <2>0 DEF a, b
  <2>7. D[UpTo(k + 1)] = D[UpTo(k)] + k * (a * b) - a * YY - b * TT + PP
    BY <2>1, <2>4
  <2>8. D[UpTo(k)] = k * PP - TT * YY
    BY <1>2
  <2> HIDE DEF TT, YY, PP, Says, Good
  <2>9. D[UpTo(k + 1)] = (k * PP - TT * YY) + k * (a * b) - a * YY - b * TT + PP
    BY <2>7, <2>8
  <2>10. D[UpTo(k + 1)] = (k + 1) * (a * b + PP) - (a + TT) * (b + YY)
    BY <2>0, <2>5, <2>9, OneMorePlace
  <2> QED BY <2>6, <2>10
<1> DEFINE Says(k) == D[UpTo(k)] = k * P[1..k] - T[1..k] * Y[1..k]
           Good == {k \in Nat : k <= n => Says(k)}
<1>3. 0 \in Good
  <2>1. D[UpTo(0)] = 0
    BY PairsInTurn DEF IsSum
  <2>2. Says(0)
    BY <1>1, <2>1
  <2> QED BY <2>2
<1>4. ASSUME NEW k \in Nat, k \in Good PROVE k + 1 \in Good
  <2> SUFFICES ASSUME k + 1 <= n PROVE Says(k + 1)
    OBVIOUS
  <2>1. k \in 0..(n - 1) /\ Says(k)
    BY <1>4
  <2> QED BY <1>2, <2>1
<1> HIDE DEF Says
<1>5. n \in Good
  <2> HIDE DEF Good
  <2> QED BY <1>3, <1>4, SetInduction
<1>6. Says(n)
  BY <1>5
<1> QED BY <1>6 DEF Says, IsByTotals

-------------------------------------------------------------------------------
(* Euclid's algorithm.                                                     *)

Common(a, b) == {d \in Nat \ {0} : (\E x \in Nat : a = d * x) /\ (\E y \in Nat : b = d * y)}
Greatest(divisors) == CHOOSE d \in divisors : \A e \in divisors : e <= d

\* Two numbers and the second with the rest have the same divisors.
LEMMA SameDivisors ==
  ASSUME NEW a \in Nat, NEW b \in Nat \ {0}
  PROVE  Common(a, b) = Common(b, a % b)
<1> DEFINE q == a \div b
           r == a % b
<1>1. q \in Nat /\ r \in Nat /\ a = b * q + r
  BY Division
<1> HIDE DEF q, r
<1>2. ASSUME NEW d \in Nat \ {0}, NEW x \in Nat, NEW y \in Nat, a = d * x, b = d * y
      PROVE  \E z \in Nat : r = d * z
  <2>1. d * x = d * y * q + r
    BY <1>1, <1>2
  <2>2. y * q \in Nat /\ x - y * q \in Int
    BY <1>1
  <2>3. r = d * (x - y * q)
    BY <1>1, <2>1
  <2>4. x - y * q >= 0
    <3> DEFINE z == x - y * q
    <3>1. z \in Int /\ r = d * z
      BY <2>2, <2>3
    <3> HIDE DEF z
    <3>2. z >= 0
      BY <1>1, <3>1
    <3> QED BY <3>2 DEF z
  <2> DEFINE z == x - y * q
  <2>5. z \in Nat /\ r = d * z
    BY <2>2, <2>3, <2>4
  <2> HIDE DEF z
  <2> QED BY <2>5
<1>3. ASSUME NEW d \in Nat \ {0}, NEW y \in Nat, NEW z \in Nat, b = d * y, r = d * z
      PROVE  \E x \in Nat : a = d * x
  <2>1. y * q + z \in Nat
    BY <1>1
  <2>2. a = d * y * q + d * z
    BY <1>1, <1>3
  <2>3. a = d * (y * q + z)
    BY <1>1, <2>2
  <2> QED BY <2>1, <2>3
<1>4. Common(a, b) = Common(b, r)
  BY <1>2, <1>3 DEF Common
<1> QED BY <1>4 DEF r

\* Euclid's recursion has a solution: the greatest common divisor.
LEMMA GcdUnfolds ==
  ASSUME NEW p \in Nat \X Nat
  PROVE  Gcd[p] = IF p[2] = 0 THEN p[1] ELSE Gcd[<<p[2], p[1] % p[2]>>]
<1> DEFINE Solves(f) == f = [o \in Nat \X Nat |-> IF o[2] = 0 THEN o[1] ELSE f[<<o[2], o[1] % o[2]>>]]
           g == [o \in Nat \X Nat |-> IF o[2] = 0 THEN o[1] ELSE Greatest(Common(o[1], o[2]))]
<1>1. ASSUME NEW o \in Nat \X Nat, o[2] # 0
      PROVE  Greatest(Common(o[1], o[2])) = g[<<o[2], o[1] % o[2]>>]
  <2> DEFINE a == o[1]
             b == o[2]
             r == a % b
  <2>1. a \in Nat /\ b \in Nat \ {0} /\ r \in Nat
    <3>1. a \in Nat /\ b \in Nat \ {0}
      BY <1>1
    <3> HIDE DEF a, b
    <3>2. r \in Nat
      BY <3>1, Division
    <3> QED BY <3>1, <3>2
  <2>2. g[<<b, r>>] = IF r = 0 THEN b ELSE Greatest(Common(b, r))
    <3> HIDE DEF a, b, r
    <3>1. <<b, r>> \in Nat \X Nat /\ <<b, r>>[1] = b /\ <<b, r>>[2] = r
      BY <2>1
    <3> QED BY <3>1
  <2>3. Common(a, b) = Common(b, r)
    <3> HIDE DEF a, b
    <3> QED BY <2>1, SameDivisors
  <2> HIDE DEF g, a, b, r
  <2>4. CASE r = 0
    <3>1. b \in Common(b, r)
      <4>1. b = b * 1 /\ r = b * 0
        BY <2>1, <2>4
      <4> QED BY <2>1, <4>1 DEF Common
    <3>2. \A e \in Common(b, r) : e <= b
      <4> TAKE e \in Common(b, r)
      <4>1. PICK x \in Nat : b = e * x
        BY DEF Common
      <4>2. e \in Nat \ {0}
        BY DEF Common
      <4>3. x # 0
        BY <2>1, <4>1, <4>2
      <4> QED BY <2>1, <4>1, <4>2, <4>3
    <3>3. \A d \in Common(b, r) : (\A e \in Common(b, r) : e <= d) => d = b
      <4> TAKE d \in Common(b, r)
      <4>1. d <= b /\ d \in Nat
        BY <3>2 DEF Common
      <4> QED BY <2>1, <3>1, <4>1
    <3> DEFINE C == Common(b, r)
               best == CHOOSE d \in C : \A e \in C : e <= d
    <3>4. best \in C /\ \A e \in C : e <= best
      <4> HIDE DEF C
      <4>1. \E d \in C : \A e \in C : e <= d
        BY <3>1, <3>2 DEF C
      <4> QED BY <4>1
    <3>5. Greatest(Common(a, b)) = best
      BY <2>3 DEF Greatest
    <3> HIDE DEF best
    <3>6. best = b
      BY <3>3, <3>4
    <3> QED BY <2>2, <2>4, <3>5, <3>6 DEF a, b, r
  <2>5. CASE r # 0
    BY <2>2, <2>3, <2>5 DEF a, b, r
  <2> QED BY <2>4, <2>5
<1>2. Solves(g)
  <2>1. g = [o \in Nat \X Nat |-> IF o[2] = 0 THEN o[1] ELSE g[<<o[2], o[1] % o[2]>>]]
    <3> DEFINE h == [o \in Nat \X Nat |-> IF o[2] = 0 THEN o[1] ELSE g[<<o[2], o[1] % o[2]>>]]
    <3>1. ASSUME NEW o \in Nat \X Nat PROVE g[o] = h[o]
      <4>1. g[o] = IF o[2] = 0 THEN o[1] ELSE Greatest(Common(o[1], o[2]))
        OBVIOUS
      <4>2. h[o] = IF o[2] = 0 THEN o[1] ELSE g[<<o[2], o[1] % o[2]>>]
        OBVIOUS
      <4> HIDE DEF g, h
      <4> QED BY <1>1, <4>1, <4>2
    <3>2. DOMAIN g = Nat \X Nat /\ DOMAIN h = Nat \X Nat /\ g = [o \in Nat \X Nat |-> g[o]] /\ h = [o \in Nat \X Nat |-> h[o]]
      OBVIOUS
    <3> HIDE DEF g, h
    <3>3. g = h
      BY <3>1, <3>2
    <3> QED BY <3>3 DEF h
  <2> HIDE DEF g
  <2> QED BY <2>1
<1> HIDE DEF g
<1>3. Gcd = CHOOSE f : Solves(f)
  BY Zenon DEF Gcd
<1> HIDE DEF Solves
<1>4. Solves(Gcd)
  BY <1>2, <1>3
<1> QED BY <1>4 DEF Solves

\* It divides both numbers.
LEMMA GcdDivides ==
  ASSUME NEW a \in Nat, NEW b \in Nat \ {0}
  PROVE  /\ Gcd[<<a, b>>] \in Nat \ {0}
         /\ \E x \in Nat : a = Gcd[<<a, b>>] * x
         /\ \E y \in Nat : b = Gcd[<<a, b>>] * y
<1> DEFINE Says(i, j) == Gcd[<<i, j>>] \in Common(i, j)
           Good == {n \in Nat : \A i \in Nat \ {0}, j \in 0..n : Says(i, j)}
<1>0. \A i, j \in Nat : Gcd[<<i, j>>] = IF j = 0 THEN i ELSE Gcd[<<j, i % j>>]
  <2> TAKE i, j \in Nat
  <2> DEFINE p == <<i, j>>
  <2>1. p \in Nat \X Nat /\ p[1] = i /\ p[2] = j
    OBVIOUS
  <2> HIDE DEF p
  <2>2. Gcd[p] = IF p[2] = 0 THEN p[1] ELSE Gcd[<<p[2], p[1] % p[2]>>]
    BY <2>1, GcdUnfolds
  <2>3. Gcd[p] = IF j = 0 THEN i ELSE Gcd[<<j, i % j>>]
    BY <2>1, <2>2
  <2> QED BY <2>3 DEF p
<1>1. \A i \in Nat \ {0} : Says(i, 0)
  <2> TAKE i \in Nat \ {0}
  <2>1. Gcd[<<i, 0>>] = i
    BY <1>0
  <2>2. i = i * 1 /\ 0 = i * 0
    OBVIOUS
  <2>3. i \in Common(i, 0)
    BY <2>2 DEF Common
  <2> QED BY <2>1, <2>3
<1>2. ASSUME NEW i \in Nat, NEW j \in Nat \ {0}, Says(j, i % j)
      PROVE  Says(i, j)
  <2>1. Gcd[<<i, j>>] = Gcd[<<j, i % j>>]
    BY <1>0
  <2>2. Common(i, j) = Common(j, i % j)
    BY SameDivisors
  <2> QED BY <1>2, <2>1, <2>2
<1>3. \A i \in Nat, j \in Nat \ {0} : i % j \in Nat /\ i % j < j
  BY Division
<1> HIDE DEF Says
<1>4. 0 \in Good
  BY <1>1
<1>5. ASSUME NEW n \in Nat, n \in Good PROVE n + 1 \in Good
  <2> SUFFICES ASSUME NEW i \in Nat \ {0}, NEW j \in 0..(n + 1) PROVE Says(i, j)
    OBVIOUS
  <2>1. CASE j = 0
    BY <1>1, <2>1
  <2>2. CASE j # 0
    <3>1. j \in Nat \ {0} /\ i \in Nat
      BY <2>2
    <3>2. i % j \in 0..n
      <4>1. i % j \in Nat /\ i % j < j
        BY <1>3, <3>1
      <4> QED BY <4>1
    <3>3. Says(j, i % j)
      BY <1>5, <3>1, <3>2
    <3> QED BY <1>2, <3>1, <3>3
  <2> QED BY <2>1, <2>2
<1> DEFINE r == a % b
<1>6. r \in Nat
  BY <1>3
<1>7. Says(b, r)
  <2>1. r \in Good
    <3> HIDE DEF Good, r
    <3> QED BY <1>4, <1>5, <1>6, SetInduction
  <2> QED BY <1>6, <2>1
<1>8. Gcd[<<a, b>>] \in Common(a, b)
  BY <1>2, <1>7 DEF Says
<1> QED BY <1>8 DEF Common

-------------------------------------------------------------------------------
(* The sums of the line of least squares.                                  *)

\* A sum of numbers that are not negative is not negative.
LEMMA SumNotNegative ==
  ASSUME NEW S, IsFiniteSet(S), NEW v \in [S -> Int], \A x \in S : v[x] >= 0,
         NEW fold, IsSum(fold, S, v)
  PROVE  fold[S] \in Nat
<1> DEFINE Good == {n \in Nat : \A s \in SUBSET S : Cardinality(s) = n => fold[s] \in Nat}
<1>1. 0 \in Good
  <2>1. \A s \in SUBSET S : Cardinality(s) = 0 => s = {}
    BY FS_Subset, FS_EmptySet
  <2>2. fold[{}] \in Nat
    BY DEF IsSum
  <2> QED BY <2>1, <2>2
<1>2. ASSUME NEW n \in Nat, n \in Good PROVE n + 1 \in Good
  <2> SUFFICES ASSUME NEW s \in SUBSET S, Cardinality(s) = n + 1
               PROVE  fold[s] \in Nat
    OBVIOUS
  <2>1. IsFiniteSet(s) /\ s # {}
    BY FS_Subset, FS_EmptySet
  <2>2. PICK x \in s : TRUE
    BY <2>1
  <2>3. s \ {x} \in SUBSET S /\ Cardinality(s \ {x}) = n
    <3>1. Cardinality(s \ {x}) = Cardinality(s) - 1
      BY SmallerWithout
    <3> QED BY <3>1
  <2>4. fold[s \ {x}] \in Nat
    BY <1>2, <2>3
  <2>5. v[x] \in Int /\ v[x] >= 0
    OBVIOUS
  <2>6. fold[s] = v[x] + fold[s \ {x}]
    BY DEF IsSum
  <2> QED BY <2>4, <2>5, <2>6
<1> HIDE DEF Good
<1>3. Cardinality(S) \in Good
  BY <1>1, <1>2, SetInduction, FS_CardinalityType
<1> QED BY <1>3 DEF Good

\* A square is not negative.
LEMMA SquareNotNegative ==
  ASSUME NEW a \in Int
  PROVE  a * a \in Nat
OBVIOUS

\* A multiple is divided without a rest.
LEMMA ExactQuotient ==
  ASSUME NEW g \in Nat \ {0}, NEW x \in Nat
  PROVE  (g * x) \div g = x
<1> DEFINE q == (g * x) \div g
           r == (g * x) % g
<1>1. g * x \in Nat
  OBVIOUS
<1>2. q \in Nat /\ r \in Nat /\ r < g /\ g * x = g * q + r
  BY <1>1, Division
<1> HIDE DEF q, r
<1>3. g * (x - q) = r
  BY <1>2
<1>4. x - q = 0
  <2> DEFINE z == x - q
  <2>1. z \in Int /\ g * z = r
    BY <1>2, <1>3
  <2> HIDE DEF z
  <2>2. ~(z >= 1)
    BY <1>2, <2>1
  <2>3. ~(z <= -1)
    BY <1>2, <2>1
  <2> QED BY <2>1, <2>2, <2>3 DEF z
<1> QED BY <1>2, <1>4 DEF q

\* A product of differences is a number.
LEMMA ProductOfDifferences ==
  ASSUME NEW a \in Int, NEW b \in Int, NEW c \in Int, NEW d \in Int
  PROVE  (a - b) * (c - d) \in Int
OBVIOUS

\* The function rises from place to place as the points do on an axis.
SameRises(f, points, axis) ==
  \A i, j \in DOMAIN points : f[j] - f[i] = points[j][axis] - points[i][axis]

\* The products of the differences of all pairs, from the totals.
LEMMA ProductsOfPairs ==
  ASSUME NEW n \in Nat, NEW points, DOMAIN points = 1..n, NEW x, NEW y,
         \A i \in 1..n : points[i][x] \in Int /\ points[i][y] \in Int,
         NEW f \in [1..n -> Int], NEW h \in [1..n -> Int], SameRises(f, points, x), SameRises(h, points, y)
  PROVE  /\ SumOfProducts(points, x, y) \in Int
         /\ IsByTotals(SumOfProducts(points, x, y), n, Total([i \in 1..n |-> f[i] * h[i]]), Total(f), Total(h))
<1> DEFINE S == UpTo(n)
           v == [p \in S |-> (points[p[2]][x] - points[p[1]][x]) * (points[p[2]][y] - points[p[1]][y])]
           fh == [i \in 1..n |-> f[i] * h[i]]
<1>1. S = Pairs(points) /\ IsFiniteSet(S)
  <2>2. IsFiniteSet(S)
    BY PairsInTurn
  <2> QED BY <2>2 DEF Pairs, UpTo
<1>2. \A p \in S : p[1] \in 1..n /\ p[2] \in 1..n
  BY DEF UpTo
<1>3. v \in [S -> Int]
  <2> SUFFICES ASSUME NEW p \in S
               PROVE  (points[p[2]][x] - points[p[1]][x]) * (points[p[2]][y] - points[p[1]][y]) \in Int
    OBVIOUS
  <2>1. p[1] \in 1..n /\ p[2] \in 1..n
    BY <1>2
  <2> HIDE DEF v, fh, S
  <2>3. /\ points[p[1]][x] \in Int /\ points[p[2]][x] \in Int
        /\ points[p[1]][y] \in Int /\ points[p[2]][y] \in Int
    BY <2>1
  <2> QED BY <2>3, ProductOfDifferences
<1>4. fh \in [1..n -> Int] /\ Multiplied(fh, 1..n, f, h)
  <2>1. \A i \in 1..n : f[i] * h[i] \in Int
    OBVIOUS
  <2>2. fh = [i \in 1..n |-> fh[i]] /\ \A i \in 1..n : fh[i] = f[i] * h[i]
    OBVIOUS
  <2> HIDE DEF fh
  <2> QED BY <2>1, <2>2 DEF Multiplied
<1>5. RiseTogether(v, S, points, x, y)
  BY DEF RiseTogether
<1>6. OfRises(v, S, f, h)
  BY <1>2, <1>5 DEF RiseTogether, OfRises, SameRises
<1> HIDE DEF v, fh, S
<1>7. PICK D : IsSum(D, S, v) /\ SumOfProducts(points, x, y) = D[S]
  BY <1>1, <1>3, <1>5, ProductsAreSum
<1>8. IsFiniteSet(1..n)
  BY FS_Interval
<1>9. PICK T : IsSum(T, 1..n, f) /\ Total(f) = T[1..n]
  BY <1>8, TotalIsSum
<1>10. PICK Y : IsSum(Y, 1..n, h) /\ Total(h) = Y[1..n]
  BY <1>8, TotalIsSum
<1>11. PICK P : IsSum(P, 1..n, fh) /\ Total(fh) = P[1..n]
  BY <1>4, <1>8, TotalIsSum
<1>12. D[S] = n * P[1..n] - T[1..n] * Y[1..n]
  <2>1. /\ v \in [UpTo(n) -> Int] /\ OfRises(v, UpTo(n), f, h) /\ IsSum(D, UpTo(n), v)
        /\ fh \in [1..n -> Int] /\ Multiplied(fh, 1..n, f, h)
        /\ IsSum(T, 1..n, f) /\ IsSum(Y, 1..n, h) /\ IsSum(P, 1..n, fh)
    BY <1>3, <1>4, <1>6, <1>7, <1>9, <1>10, <1>11 DEF S
  <2>2. IsByTotals(D[UpTo(n)], n, P[1..n], T[1..n], Y[1..n])
    BY <2>1, PairsByTotals
  <2> QED BY <2>2 DEF S, IsByTotals
<1>13. D[S] \in Int
  BY <1>7 DEF IsSum
<1> QED BY <1>7, <1>9, <1>10, <1>11, <1>12, <1>13 DEF fh, IsByTotals

\* The products of the differences with themselves are not negative.
LEMMA SquaresOfPairs ==
  ASSUME NEW n \in Nat, NEW points \in [1..n -> [t : Int, offset : Int]]
  PROVE  SumOfProducts(points, "t", "t") \in Nat
<1> DEFINE S == UpTo(n)
           v == [p \in S |-> (points[p[2]]["t"] - points[p[1]]["t"]) * (points[p[2]]["t"] - points[p[1]]["t"])]
<1>1. S = Pairs(points) /\ IsFiniteSet(S)
  <2>1. DOMAIN points = 1..n
    OBVIOUS
  <2>2. IsFiniteSet(S)
    BY PairsInTurn
  <2> QED BY <2>1, <2>2 DEF Pairs, UpTo
<1>2. ASSUME NEW p \in S
      PROVE  (points[p[2]]["t"] - points[p[1]]["t"]) * (points[p[2]]["t"] - points[p[1]]["t"]) \in Nat
  <2>1. p[1] \in 1..n /\ p[2] \in 1..n
    BY DEF UpTo
  <2>2. \A i \in 1..n : points[i]["t"] \in Int
    OBVIOUS
  <2>3. points[p[2]]["t"] - points[p[1]]["t"] \in Int
    BY <2>1, <2>2
  <2> QED BY <2>3, SquareNotNegative
<1>3. /\ v \in [S -> Int] /\ \A p \in S : v[p] >= 0
      /\ RiseTogether(v, S, points, "t", "t")
  <2>1. \A p \in S : v[p] = (points[p[2]]["t"] - points[p[1]]["t"]) * (points[p[2]]["t"] - points[p[1]]["t"])
    OBVIOUS
  <2>2. \A p \in S : v[p] \in Nat
    BY <1>2, <2>1
  <2>3. v = [p \in S |-> v[p]]
    OBVIOUS
  <2> HIDE DEF v, S
  <2> QED BY <2>1, <2>2, <2>3 DEF RiseTogether
<1> HIDE DEF v, S
<1>4. PICK D : IsSum(D, S, v) /\ SumOfProducts(points, "t", "t") = D[S]
  <2> DEFINE x == "t"
  <2>1. S = Pairs(points) /\ IsFiniteSet(S) /\ v \in [S -> Int] /\ RiseTogether(v, S, points, x, x)
    BY <1>1, <1>3
  <2> HIDE DEF x
  <2>2. \E D : IsSum(D, S, v) /\ SumOfProducts(points, x, x) = D[S]
    BY <2>1, ProductsAreSum
  <2> QED BY <2>2 DEF x
<1> QED BY <1>1, <1>3, <1>4, SumNotNegative

-------------------------------------------------------------------------------
(* The line of least squares.                                              *)

\* In lowest terms or not, the slope is the same.
LEMMA LowestTerms ==
  ASSUME NEW a \in Int, NEW b \in Nat \ {0}
  PROVE  LET g == Gcd[<<Abs(a), b>>]
         IN /\ b \div g \in Nat \ {0} /\ Quotient(a, g) \in Int
            /\ (b \div g) * a = Quotient(a, g) * b
<1> DEFINE c == Abs(a)
           g == Gcd[<<c, b>>]
<1>1. c \in Nat /\ a = (IF a < 0 THEN -c ELSE c) /\ (a < 0 => -a = c) /\ (a >= 0 => a = c)
  BY DEF Abs
<1> HIDE DEF c
<1>2. g \in Nat \ {0} /\ (\E x \in Nat : c = g * x) /\ (\E y \in Nat : b = g * y)
  BY <1>1, GcdDivides
<1> HIDE DEF g
<1>3. PICK x \in Nat : c = g * x
  BY <1>2
<1>4. PICK y \in Nat : b = g * y
  BY <1>2
<1>5. c \div g = x /\ b \div g = y
  BY <1>2, <1>3, <1>4, ExactQuotient
<1>6. y # 0
  BY <1>2, <1>4
<1> DEFINE q == Quotient(a, g)
<1>7. q = IF a < 0 THEN -x ELSE x
  BY <1>1, <1>5 DEF Quotient
<1> HIDE DEF q
<1>8. y * a = q * b
  <2>1. CASE a < 0
    <3>1. a = -(g * x) /\ q = -x
      BY <1>1, <1>3, <1>7, <2>1
    <3>2. y * (-(g * x)) = (-x) * (g * y)
      BY <1>2
    <3> QED BY <1>4, <3>1, <3>2
  <2>2. CASE ~(a < 0)
    <3>1. a = g * x /\ q = x
      BY <1>1, <1>3, <1>7, <2>2
    <3>2. y * (g * x) = x * (g * y)
      BY <1>2
    <3> QED BY <1>4, <3>1, <3>2
  <2> QED BY <2>1, <2>2
<1>9. y \in Nat \ {0} /\ q \in Int
  BY <1>6, <1>7
<1>10. b \div g \in Nat \ {0} /\ q \in Int /\ (b \div g) * a = q * b
  BY <1>5, <1>8, <1>9
<1> QED BY <1>10 DEF q, g, c

\* The line's slope is the ratio of the sums of products.
LEMMA FitLineIs ==
  ASSUME NEW points, NEW line, FitLine(points) # <<>>,
         SumOfProducts(points, "t", "t") \in Nat, SumOfProducts(points, "t", "offset") \in Int
  PROVE  /\ FitLine(points)[1].num \in Int /\ FitLine(points)[1].den \in Nat \ {0}
         /\ FitLine(points)[1].den * SumOfProducts(points, "t", "offset")
              = FitLine(points)[1].num * SumOfProducts(points, "t", "t")
<1> DEFINE b == SumOfProducts(points, "t", "t")
           a == SumOfProducts(points, "t", "offset")
           g == Gcd[<<Abs(a), b>>]
<1>1. b # 0 /\ FitLine(points) = <<[num |-> Quotient(a, g), den |-> b \div g]>>
  BY DEF FitLine
<1>2. b \in Nat \ {0} /\ a \in Int
  BY <1>1
<1> HIDE DEF a, b
<1>3. b \div g \in Nat \ {0} /\ Quotient(a, g) \in Int /\ (b \div g) * a = Quotient(a, g) * b
  BY <1>2, LowestTerms
<1> HIDE DEF g
<1>4. FitLine(points)[1].num = Quotient(a, g) /\ FitLine(points)[1].den = b \div g
  BY <1>1
<1> QED BY <1>3, <1>4 DEF a, b

\* The line is the one of least squares.
LEMMA FitLineIsOfLeastSquares ==
  ASSUME NEW n \in Nat \ {0}, NEW points \in [1..n -> [t : Int, offset : Int]], FitLine(points) # <<>>
  PROVE  LET line == FitLine(points)[1]
         IN IsLeastSquares(points, [num |-> line.num * MsPerMinute, den |-> line.den])
<1> DEFINE f == [i \in 1..n |-> points[i].t - points[1].t]
           h == [i \in 1..n |-> points[i].offset]
           x == "t"
           y == "offset"
           SS == SumOfProducts(points, "t", "t")
           SY == SumOfProducts(points, "t", "offset")
           num == FitLine(points)[1].num
           den == FitLine(points)[1].den
<1>1. f \in [1..n -> Int] /\ h \in [1..n -> Int]
  OBVIOUS
<1>2. SameRises(f, points, "t") /\ SameRises(h, points, "offset")
  BY DEF SameRises
<1>3. /\ DOMAIN points = 1..n
      /\ \A i \in 1..n : points[i]["t"] \in Int /\ points[i]["offset"] \in Int
  OBVIOUS
<1>4. Len(points) = n
  OBVIOUS
<1> HIDE DEF f, h
<1>5. SS \in Nat
  BY SquaresOfPairs
<1>6. /\ SS = n * Total([i \in 1..n |-> f[i] * f[i]]) - Total(f) * Total(f)
      /\ SY \in Int
      /\ SY = n * Total([i \in 1..n |-> f[i] * h[i]]) - Total(f) * Total(h)
  <2> DEFINE p == points
  <2>1. /\ DOMAIN p = 1..n
        /\ \A i \in 1..n : p[i][x] \in Int /\ p[i][y] \in Int
        /\ SameRises(f, p, x) /\ SameRises(h, p, y)
    BY <1>2, <1>3
  <2> HIDE DEF p, x, y
  <2>2. IsByTotals(SumOfProducts(p, x, x), n, Total([i \in 1..n |-> f[i] * f[i]]), Total(f), Total(f))
    BY <1>1, <2>1, ProductsOfPairs
  <2>3. /\ SumOfProducts(p, x, y) \in Int
        /\ IsByTotals(SumOfProducts(p, x, y), n, Total([i \in 1..n |-> f[i] * h[i]]), Total(f), Total(h))
    BY <1>1, <2>1, ProductsOfPairs
  <2> QED BY <2>2, <2>3 DEF p, x, y, IsByTotals
<1>7. num \in Int /\ den \in Nat \ {0} /\ den * SY = num * SS
  BY <1>5, <1>6, FitLineIs
<1> HIDE DEF SS, SY, num, den, x, y
<1>8. den * SY * MsPerMinute = (num * MsPerMinute) * SS
  BY <1>5, <1>6, <1>7, AvSyncAssumption
<1> DEFINE rate == [num |-> num * MsPerMinute, den |-> den]
<1>9. rate.num = num * MsPerMinute /\ rate.den = den
  OBVIOUS
<1> HIDE DEF rate
<1>10. IsLeastSquares(points, rate)
  <2>1. den * (n * Total([i \in 1..n |-> f[i] * h[i]]) - Total(f) * Total(h)) * MsPerMinute
          = (num * MsPerMinute) * (n * Total([i \in 1..n |-> f[i] * f[i]]) - Total(f) * Total(f))
    BY <1>6, <1>8
  <2> QED BY <1>3, <1>4, <1>9, <2>1, Zenon DEF IsLeastSquares, f, h
<1> QED BY <1>10 DEF rate, num, den

-------------------------------------------------------------------------------
(* The points a drift is read from.                                        *)

\* What packets cover: their times in order with a duration each, and their span.
IsCovered(c, n) ==
  /\ DOMAIN c.pts = 1..n /\ Len(c.pts) = n
  /\ \A k \in 1..n : c.pts[k] \in Int /\ c.durations[k] \in Int
  /\ c.span # <<>> => c.span[1] \in Nat \ {0}

\* A number that may be missing, and a timebase.
IsMaybe(x) == x # <<>> => x[1] \in Int
IsTimebase(tb) == tb.num \in Nat \ {0} /\ tb.den \in Nat \ {0}

\* A quotient is a number.
LEMMA QuotientIs ==
  ASSUME NEW a \in Int, NEW b \in Nat \ {0}
  PROVE  Quotient(a, b) \in Int
<1>1. CASE a < 0
  <2>1. -a \in Nat
    BY <1>1
  <2> DEFINE c == -a
             q == c \div b
  <2>2. q \in Nat
    <3> HIDE DEF c
    <3> QED BY <2>1, Division DEF c
  <2>3. Quotient(a, b) = -q
    BY <1>1 DEF Quotient
  <2> HIDE DEF q
  <2> QED BY <2>2, <2>3
<1>2. CASE ~(a < 0)
  <2>1. a \in Nat
    BY <1>2
  <2>2. a \div b \in Nat
    BY <2>1, Division
  <2>3. Quotient(a, b) = a \div b
    BY <1>2 DEF Quotient
  <2> QED BY <2>2, <2>3
<1> QED BY <1>1, <1>2

\* A time has milliseconds or none.
LEMMA MsOrNone ==
  ASSUME NEW t \in Int, NEW tb, IsTimebase(tb)
  PROVE  IsMaybe(TicksToMs(t, tb))
<1>1. t * 1000 * tb.num \in Int /\ tb.den \in Nat \ {0}
  BY DEF IsTimebase
<1>2. InMs(t, tb) \in Int
  BY <1>1, QuotientIs DEF InMs
<1> QED BY <1>2 DEF TicksToMs, IsMaybe

\* Samples have ticks or none.
LEMMA TicksOrNone ==
  ASSUME NEW samples, IsMaybe(samples), NEW rate, IsMaybe(rate), NEW tb, IsTimebase(tb)
  PROVE  IsMaybe(SamplesToTicks(samples, rate, tb))
<1> DEFINE num == samples[1] * tb.den
           den == rate[1] * tb.num
           some == samples # <<>> /\ rate # <<>> /\ ~(samples[1] < 0) /\ ~(rate[1] <= 0)
           ticks == (num + den \div 2) \div den
<1>1. SamplesToTicks(samples, rate, tb) # <<>> => some /\ SamplesToTicks(samples, rate, tb) = <<ticks>>
  BY DEF SamplesToTicks
<1>2. ASSUME some PROVE ticks \in Int
  <2>1. samples[1] \in Nat /\ rate[1] \in Nat \ {0} /\ tb.num \in Nat \ {0} /\ tb.den \in Nat \ {0}
    BY <1>2 DEF IsMaybe, IsTimebase
  <2>2. num \in Nat
    BY <2>1
  <2>3. den \in Nat \ {0}
    BY <2>1
  <2> HIDE DEF num, den
  <2>4. num + den \div 2 \in Nat
    BY <2>2, <2>3
  <2> DEFINE all == num + den \div 2
  <2> HIDE DEF all
  <2>5. all \div den \in Nat
    BY <2>3, <2>4, Division DEF all
  <2> QED BY <2>5 DEF all
<1> HIDE DEF ticks, some
<1> QED BY <1>1, <1>2 DEF IsMaybe

\* As many times as are below some time.
LEMMA BelowIs ==
  ASSUME NEW n \in Nat, NEW times, DOMAIN times = 1..n, NEW t
  PROVE  Below(times, t) \in 0..n
<1> DEFINE S == {j \in DOMAIN times : times[j] < t}
<1>1. S \in SUBSET (1..n) /\ IsFiniteSet(1..n) /\ Cardinality(1..n) = n
  BY FS_Interval
<1>2. Cardinality(S) \in Nat /\ Cardinality(S) <= n
  <2> HIDE DEF S
  <2>1. IsFiniteSet(S) /\ Cardinality(S) <= Cardinality(1..n)
    BY <1>1, FS_Subset
  <2>2. Cardinality(S) \in Nat
    BY <2>1, FS_CardinalityType
  <2> QED BY <1>1, <2>1, <2>2
<1>3. Below(times, t) = Cardinality(S)
  BY DEF Below
<1> HIDE DEF S
<1> QED BY <1>2, <1>3

\* The nearest of some times is a time.
LEMMA NearestTickIs ==
  ASSUME NEW n \in Nat \ {0}, NEW times, DOMAIN times = 1..n, Len(times) = n,
         \A k \in 1..n : times[k] \in Int, NEW t
  PROVE  NearestTick(times, t) \in Int
<1> DEFINE lower == Below(times, t)
<1>1. lower \in 0..n
  BY BelowIs
<1>2. \/ NearestTick(times, t) = times[1]
      \/ NearestTick(times, t) = times[n]
      \/ lower # 0 /\ lower # n /\ NearestTick(times, t) = times[lower + 1]
      \/ lower # 0 /\ lower # n /\ NearestTick(times, t) = times[lower]
  <2>1. Last(times) = times[n]
    BY DEF Last
  <2> QED BY <2>1, Zenon DEF NearestTick
<1> HIDE DEF lower
<1>3. lower # 0 /\ lower # n => lower \in 1..n /\ lower + 1 \in 1..n
  BY <1>1
<1> QED BY <1>2, <1>3

\* A time put into a packet is a time.
LEMMA ClampIs ==
  ASSUME NEW n \in Nat \ {0}, NEW covered, IsCovered(covered, n), NEW t \in Int
  PROVE  Clamp(covered, t) \in Int
<1> DEFINE below == Below(covered.pts, t)
           lower == IF below < n /\ covered.pts[below + 1] = t THEN below + 1 ELSE below
           end == covered.pts[lower] + covered.durations[lower]
<1>1. /\ DOMAIN covered.pts = 1..n /\ Len(covered.pts) = n
      /\ \A k \in 1..n : covered.pts[k] \in Int /\ covered.durations[k] \in Int
  BY DEF IsCovered
<1>2. below \in 0..n
  BY <1>1, BelowIs
<1>3. \/ lower = 0 /\ Clamp(covered, t) = covered.pts[below + 1]
      \/ lower # 0 /\ Clamp(covered, t) = t
      \/ lower # 0 /\ Clamp(covered, t) = end
      \/ lower # 0 /\ ~(below + 1 > n) /\ Clamp(covered, t) = covered.pts[below + 1]
  BY <1>1, Zenon DEF Clamp
<1> HIDE DEF below
<1>4. lower \in 0..n
  BY <1>2
<1>5. lower = 0 => below + 1 \in 1..n
  BY <1>2
<1>6. ~(below + 1 > n) => below + 1 \in 1..n
  BY <1>2
<1> HIDE DEF lower
<1>7. lower # 0 => end \in Int
  BY <1>1, <1>4
<1> QED BY <1>1, <1>3, <1>5, <1>6, <1>7

\* The time of a packet is a time.
LEMMA ByOrdinalIs ==
  ASSUME NEW n \in Nat \ {0}, NEW pts, DOMAIN pts = 1..n, Len(pts) = n, \A k \in 1..n : pts[k] \in Int,
         NEW delta \in Int, NEW span \in Nat \ {0}
  PROVE  ByOrdinal(pts, delta, span) \in Int
<1> DEFINE last == Len(pts) - 1
           num == delta * last + span \div 2
           index == Quotient(num, span)
           place == Max({0, Min({index, last})})
<1>1. last \in Nat /\ last = n - 1
  OBVIOUS
<1> HIDE DEF last
<1>2. num \in Int
  <2>1. delta * last \in Int /\ span \div 2 \in Int
    BY <1>1
  <2> QED BY <2>1
<1>3. ByOrdinal(pts, delta, span) = pts[1 + place] \/ ByOrdinal(pts, delta, span) = pts[1]
  BY Zenon DEF ByOrdinal, last
<1> HIDE DEF num
<1>4. index \in Int
  BY <1>2, QuotientIs
<1> HIDE DEF index
<1> DEFINE least == Min({index, last})
<1>5. least \in Int /\ least <= last
  <2>1. last \in Int
    BY <1>1
  <2>2. index <= last => Min({index, last}) = index
    BY <1>4, <2>1, MaxMinOf
  <2>3. last <= index => Min({index, last}) = last
    BY <1>4, <2>1, MaxMinOf
  <2> HIDE DEF least
  <2>4. (index <= last => least = index) /\ (last <= index => least = last)
    BY <2>2, <2>3 DEF least
  <2> QED BY <1>4, <2>1, <2>4
<1> HIDE DEF least
<1>6. Max({0, least}) \in 0..last
  <2> DEFINE zero == 0
             most == Max({zero, least})
  <2>1. zero \in Int
    OBVIOUS
  <2> HIDE DEF zero
  <2>2. (zero <= least => most = least) /\ (least <= zero => most = zero)
    BY <1>5, <2>1, MaxMinOf
  <2> HIDE DEF most
  <2>3. most \in 0..last
    BY <1>1, <1>5, <2>2 DEF zero
  <2> QED BY <2>3 DEF most, zero
<1>7. 1 + place \in 1..n
  BY <1>1, <1>6 DEF least
<1> HIDE DEF place
<1> QED BY <1>3, <1>7

\* The point of the audio is a time.
LEMMA AudioPointIs ==
  ASSUME NEW n \in Nat \ {0}, NEW covered, IsCovered(covered, n), NEW t \in Int, NEW delta \in Int,
         NEW span \in Nat \ {0}
  PROVE  AudioPoint(covered, t, delta, span) \in Int
<1>1. AudioPoint(covered, t, delta, span) \in {Clamp(covered, t), ByOrdinal(covered.pts, delta, span)}
  BY DEF AudioPoint
<1>2. Clamp(covered, t) \in Int
  BY ClampIs
<1>3. ByOrdinal(covered.pts, delta, span) \in Int
  BY ByOrdinalIs DEF IsCovered
<1> QED BY <1>1, <1>2, <1>3

-------------------------------------------------------------------------------
(* What packets cover.                                                     *)

\* What the packets of a stream cover.
LEMMA CoveredIs ==
  ASSUME NEW n \in Nat, NEW packets, AreSent(packets, n)
  PROVE  IsCovered(PtsSpan(packets), n)
<1> DEFINE order == Presented(Samples(packets, "pts"))
           shown == Ascending(packets, AxisOf(packets, "pts"))
           pts == Values(order)
           durations == [j \in DOMAIN order |-> EffectiveDuration(order, packets, j)]
           end == Last(pts) + Last(durations)
           covered == Len(pts) >= 2 /\ Fits(end) /\ Fits(end - pts[1]) /\ end > pts[1]
           span == IF covered THEN <<end - pts[1]>> ELSE <<>>
           c == PtsSpan(packets)
<1>1. IsShowing(shown, packets, n) /\ IsShownBy(order, shown, packets, n)
  BY ShowingIs
<1>2. c.pts = pts /\ c.durations = durations /\ c.span = span
  BY DEF PtsSpan
<1> HIDE DEF c, order, shown
<1>3. /\ DOMAIN order = 1..n /\ Len(order) = n
      /\ \A k \in 1..n : order[k].index \in 1..n /\ order[k].value \in Int /\ packets[order[k].index].duration \in Nat
  <2>1. DOMAIN order = 1..n /\ Len(order) = n
    BY <1>1 DEF IsShownBy, IsList
  <2>2. \A k \in 1..n : order[k].index \in 1..n /\ order[k].value = shown[k].pts /\ shown[k] \in Packets
    BY <1>1 DEF IsShownBy, IsShowing
  <2>3. \A k \in 1..n : shown[k].pts \in Int
    BY <2>2, Numbers DEF Packets, Moments
  <2>4. \A m \in 1..n : packets[m].duration \in Nat
    BY DEF AreSent, Packets
  <2> QED BY <2>1, <2>2, <2>3, <2>4
<1>4. DOMAIN pts = 1..n /\ Len(pts) = n /\ \A k \in 1..n : pts[k] \in Int
  BY <1>3 DEF Values
<1>5. DOMAIN durations = 1..n /\ Len(durations) = n /\ \A k \in 1..n : durations[k] \in Int
  <2>1. ASSUME NEW j \in 1..n PROVE EffectiveDuration(order, packets, j) \in Int
    <3> DEFINE declared == packets[order[j].index].duration
               interval == IF j < Len(order) THEN order[j + 1].value - order[j].value
                           ELSE IF j > 1 THEN order[j].value - order[j - 1].value ELSE 0
    <3>1. EffectiveDuration(order, packets, j) \in {declared, interval, 0}
      BY DEF EffectiveDuration
    <3>2. declared \in Int
      BY <1>3
    <3>3. interval \in Int
      <4>1. CASE j < n
        <5>1. j + 1 \in 1..n
          BY <4>1
        <5>2. order[j + 1].value \in Int /\ order[j].value \in Int
          BY <1>3, <5>1
        <5> QED BY <1>3, <4>1, <5>2
      <4>2. CASE ~(j < n) /\ j > 1
        <5>1. j - 1 \in 1..n
          BY <4>2
        <5>2. order[j - 1].value \in Int /\ order[j].value \in Int
          BY <1>3, <5>1
        <5> QED BY <1>3, <4>2, <5>2
      <4>3. CASE ~(j < n) /\ ~(j > 1)
        BY <1>3, <4>3
      <4> QED BY <4>1, <4>2, <4>3
    <3> HIDE DEF declared, interval
    <3> QED BY <3>1, <3>2, <3>3
  <2>2. DOMAIN durations = 1..n /\ Len(durations) = n
    BY <1>3
  <2> QED BY <1>3, <2>1, <2>2
<1> HIDE DEF pts, durations
<1>6. span # <<>> => span[1] \in Nat \ {0}
  <2> SUFFICES ASSUME covered PROVE end - pts[1] \in Nat \ {0}
    OBVIOUS
  <2>1. n >= 2 /\ end > pts[1]
    BY <1>4
  <2>2. Last(pts) = pts[n] /\ Last(durations) = durations[n]
    BY <1>4, <1>5 DEF Last
  <2>3. pts[1] \in Int /\ pts[n] \in Int /\ durations[n] \in Int
    BY <1>4, <1>5, <2>1
  <2>4. end \in Int
    BY <2>2, <2>3
  <2> HIDE DEF end
  <2> QED BY <2>1, <2>3, <2>4
<1> HIDE DEF span
<1> QED BY <1>2, <1>4, <1>5, <1>6 DEF IsCovered, c

\* Two spans, each positive or missing.
IsBasis(basis) ==
  /\ basis.raw # <<>> => basis.raw[1] \in Nat \ {0}
  /\ basis.declared # <<>> => basis.declared[1] \in Nat \ {0}
  /\ basis.trimmed => basis.raw # <<>> /\ basis.declared # <<>>

\* The spans of a stream, and what is trimmed has a priming.
LEMMA BasisIs ==
  ASSUME NEW n \in Nat, NEW covered, IsCovered(covered, n), NEW priming, IsMaybe(priming),
         NEW padding, IsMaybe(padding)
  PROVE  LET basis == SpanBasis(<<>>, covered, priming, padding)
         IN IsBasis(basis) /\ (basis.trimmed => priming # <<>>)
<1> DEFINE basis == SpanBasis(<<>>, covered, priming, padding)
           rest == covered.span[1] - priming[1] - padding[1]
           known == ~(covered.span = <<>> \/ priming = <<>> \/ padding = <<>>)
           trimmed == IF covered.span = <<>> \/ priming = <<>> \/ padding = <<>> THEN FALSE
                      ELSE Fits(covered.span[1] - priming[1]) /\ Fits(rest) /\ rest > 0
<1>1. /\ basis.raw = covered.span /\ basis.trimmed = trimmed
      /\ basis.declared = IF trimmed THEN <<rest>> ELSE <<>>
  BY DEF SpanBasis
<1>2. trimmed => known /\ rest > 0
  OBVIOUS
<1>3. ASSUME known, rest > 0 PROVE rest \in Nat \ {0}
  <2>1. covered.span[1] \in Nat \ {0} /\ priming[1] \in Int /\ padding[1] \in Int
    BY <1>3 DEF IsCovered, IsMaybe
  <2> QED BY <1>3, <2>1
<1> HIDE DEF rest, trimmed
<1>4. covered.span # <<>> => covered.span[1] \in Nat \ {0}
  BY DEF IsCovered
<1>5. IsBasis(basis) /\ (basis.trimmed => priming # <<>>)
  <2> HIDE DEF basis
  <2>1. CASE trimmed
    <3>1. known /\ rest \in Nat \ {0} /\ basis.declared = <<rest>> /\ basis.raw = covered.span
      BY <1>1, <1>2, <1>3, <2>1
    <3> QED BY <1>4, <3>1 DEF IsBasis
  <2>2. CASE ~trimmed
    <3>1. basis.declared = <<>> /\ basis.raw = covered.span /\ ~basis.trimmed
      BY <1>1, <2>2
    <3> QED BY <1>4, <3>1 DEF IsBasis
  <2> QED BY <2>1, <2>2
<1> QED BY <1>5 DEF basis

\* A basis that is not bare has a span.
LEMMA SpanOfIs ==
  ASSUME NEW basis, IsBasis(basis), ~(basis.raw = <<>> /\ basis.declared = <<>>), NEW prefers \in BOOLEAN
  PROVE  SpanOf(basis, prefers) \in Nat \ {0}
BY DEF IsBasis, SpanOf

-------------------------------------------------------------------------------
(* A drift is a line through checkpoints.                                  *)

\* What a checkpoint is computed from.
IsSide(side, n) ==
  /\ side.start \in Int /\ side.span \in Nat \ {0} /\ IsCovered(side.covered, n) /\ IsTimebase(side.tb)

\* A checkpoint is a point.
LEMMA CheckpointIs ==
  ASSUME NEW n \in Nat \ {0}, NEW video, IsSide(video, n),
         NEW m \in Nat \ {0}, NEW audio, IsSide(audio, m), audio.shift \in Int, NEW k
  PROVE  Checkpoint(k, video, audio) # <<>> => Checkpoint(k, video, audio)[1] \in [t : Int, offset : Int]
<1> DEFINE target == video.start + Quotient(k * video.span, Checkpoints - 1)
           t == NearestTick(video.covered.pts, target)
           delta == t - video.start
           aligned == audio.start + Quotient(delta * audio.span, video.span)
           put == AudioPoint(audio.covered, aligned - audio.shift, delta, video.span)
           point == put + audio.shift
           videoMs == TicksToMs(t, video.tb)
           audioMs == TicksToMs(point, audio.tb)
           told == [t |-> videoMs[1], offset |-> audioMs[1] - videoMs[1]]
           check == Checkpoint(k, video, audio)
<1>1. \/ check = <<>>
      \/ videoMs # <<>> /\ audioMs # <<>> /\ check = <<told>>
  <2> DEFINE all == {k * video.span, target, delta, delta * audio.span, aligned, aligned - audio.shift, point}
             exact == ~\E x \in all : ~Fits(x)
  <2>1. check = IF ~exact THEN <<>>
                ELSE IF videoMs = <<>> \/ audioMs = <<>> THEN <<>>
                ELSE IF ~Fits(audioMs[1] - videoMs[1]) THEN <<>> ELSE <<told>>
    BY Zenon DEF Checkpoint
  <2> HIDE DEF check, exact, videoMs, audioMs, told
  <2> QED BY <2>1
<1>2. /\ video.start \in Int /\ video.span \in Nat \ {0} /\ IsCovered(video.covered, n) /\ IsTimebase(video.tb)
      /\ audio.start \in Int /\ audio.span \in Nat \ {0} /\ IsCovered(audio.covered, m) /\ IsTimebase(audio.tb)
  BY DEF IsSide
<1> HIDE DEF check, target
<1>3. t \in Int
  BY <1>2, NearestTickIs DEF IsCovered
<1> HIDE DEF t
<1>4. delta \in Int
  BY <1>2, <1>3
<1> HIDE DEF delta
<1>5. aligned \in Int
  <2>1. delta * audio.span \in Int
    BY <1>2, <1>4
  <2>2. Quotient(delta * audio.span, video.span) \in Int
    BY <1>2, <2>1, QuotientIs
  <2> QED BY <1>2, <2>2
<1> HIDE DEF aligned
<1>6. put \in Int
  <2>1. aligned - audio.shift \in Int
    BY <1>5
  <2> QED BY <1>2, <1>4, <2>1, AudioPointIs
<1> HIDE DEF put
<1>7. point \in Int
  BY <1>6
<1> HIDE DEF point
<1>8. IsMaybe(videoMs) /\ IsMaybe(audioMs)
  BY <1>2, <1>3, <1>7, MsOrNone
<1> HIDE DEF videoMs, audioMs
<1>9. ASSUME videoMs # <<>>, audioMs # <<>> PROVE told \in [t : Int, offset : Int]
  <2>1. videoMs[1] \in Int /\ audioMs[1] \in Int
    BY <1>8, <1>9 DEF IsMaybe
  <2>2. audioMs[1] - videoMs[1] \in Int
    BY <2>1
  <2> QED BY <2>1, <2>2
<1> HIDE DEF told
<1>10. check # <<>> => check[1] \in [t : Int, offset : Int]
  BY <1>1, <1>9
<1> QED BY <1>10 DEF check

\* The fit is through the line.
LEMMA FitDriftIs ==
  ASSUME NEW points, FitDrift(points) # <<>>
  PROVE  /\ FitLine(points) # <<>>
         /\ FitDrift(points)[1].rate = [num |-> FitLine(points)[1].num * MsPerMinute, den |-> FitLine(points)[1].den]
BY Zenon DEF FitDrift

\* What a drift that is reported says.
IsLineThrough(told) ==
  /\ told.points \in [1..Checkpoints -> [t : Int, offset : Int]]
  /\ FitDrift(told.points) # <<>> /\ told.fit = FitDrift(told.points)[1]

\* Such a drift is by the line of least squares.
LEMMA DriftIsOfLeastSquares ==
  ASSUME NEW told, IsLineThrough(told)
  PROVE  IsLeastSquares(told.points, told.fit.rate)
<1> DEFINE p == told.points
           line == FitLine(p)[1]
<1>1. p \in [1..Checkpoints -> [t : Int, offset : Int]] /\ FitDrift(p) # <<>> /\ told.fit = FitDrift(p)[1]
  BY DEF IsLineThrough
<1> HIDE DEF p
<1>2. FitLine(p) # <<>> /\ told.fit.rate = [num |-> line.num * MsPerMinute, den |-> line.den]
  BY <1>1, FitDriftIs
<1>3. Checkpoints \in Nat \ {0}
  BY AvSyncAssumption
<1>4. IsLeastSquares(p, [num |-> line.num * MsPerMinute, den |-> line.den])
  BY <1>1, <1>2, <1>3, FitLineIsOfLeastSquares
<1> QED BY <1>2, <1>4 DEF p

\* The two sides of a drift between streams' spans.
PictureOf(video, covered, basis, trimmed) ==
  [start |-> covered.pts[1], span |-> SpanOf(basis, trimmed), covered |-> covered, tb |-> video.tb]
SoundOf(audio, heard, basis, adjusted, priming) ==
  [start |-> IF basis.trimmed THEN adjusted ELSE heard.pts[1], shift |-> IF basis.trimmed THEN priming[1] ELSE 0,
   span |-> SpanOf(basis, basis.trimmed), covered |-> heard, tb |-> audio.tb]
IsBare(basis) == basis.raw = <<>> /\ basis.declared = <<>>

\* A drift that is drawn through every checkpoint.
IsDrawn(told, picture, sound) ==
  /\ \A k \in 1..Checkpoints : Checkpoint(k - 1, picture, sound) # <<>>
  /\ told.points = [k \in 1..Checkpoints |-> Checkpoint(k - 1, picture, sound)[1]]
  /\ FitDrift(told.points) # <<>> /\ told.fit = FitDrift(told.points)[1]

\* A drift between two streams' spans is drawn, or skipped.
LEMMA DriftBetweenSays ==
  ASSUME NEW covered, NEW video, NEW videoBasis, NEW heard, NEW audio, NEW audioBasis, NEW adjusted, NEW priming,
         NEW told \in ToSet(DriftBetween(video, covered, videoBasis, audio, heard, audioBasis, adjusted, priming).value)
  PROVE  /\ ~IsBare(videoBasis) /\ ~IsBare(audioBasis)
         /\ IsDrawn(told, PictureOf(video, covered, videoBasis, audioBasis.trimmed),
                    SoundOf(audio, heard, audioBasis, adjusted, priming))
<1> DEFINE trimmed == audioBasis.trimmed
           seen == PictureOf(video, covered, videoBasis, trimmed)
           played == SoundOf(audio, heard, audioBasis, adjusted, priming)
           Says(points, fit) ==
             IF fit = <<>> THEN Skips("insufficient_data")
             ELSE Reports([fit |-> fit[1], basis |-> IF trimmed THEN "adjusted" ELSE "raw",
                           magnitude |-> IF trimmed THEN Rescaled(fit[1].rate) ELSE <<>>,
                           points |-> points])
           Fitted(points) == Says(points, FitDrift(points))
           Through(points) == IF \E k \in DOMAIN points : points[k] = <<>> THEN Skips("insufficient_data")
                              ELSE Fitted([k \in DOMAIN points |-> points[k][1]])
           checks == [k \in 1..Checkpoints |-> Checkpoint(k - 1, seen, played)]
           points == [k \in DOMAIN checks |-> checks[k][1]]
           drift == DriftBetween(video, covered, videoBasis, audio, heard, audioBasis, adjusted, priming)
<1>1. drift = IF IsBare(videoBasis) \/ IsBare(audioBasis) THEN Skips("insufficient_data") ELSE Through(checks)
  BY DEF DriftBetween, IsBare, PictureOf, SoundOf
<1>2. ToSet(Skips("insufficient_data").value) = {}
  BY DEF Skips, ToSet
<1>3. drift # Skips("insufficient_data")
  BY <1>2
<1>4. told \in ToSet(drift.value)
  OBVIOUS
<1>5. DOMAIN checks = 1..Checkpoints /\ \A k \in 1..Checkpoints : checks[k] = Checkpoint(k - 1, seen, played)
  OBVIOUS
<1> HIDE DEF drift, checks, seen, played
<1>6. /\ ~IsBare(videoBasis) /\ ~IsBare(audioBasis) /\ ~\E k \in DOMAIN checks : checks[k] = <<>>
      /\ drift = Says(points, FitDrift(points))
  BY <1>1, <1>3
<1>7. points = [k \in 1..Checkpoints |-> Checkpoint(k - 1, seen, played)[1]]
  BY <1>5
<1> HIDE DEF points
<1> DEFINE fit == FitDrift(points)
           line == [fit |-> fit[1], basis |-> IF trimmed THEN "adjusted" ELSE "raw",
                    magnitude |-> IF trimmed THEN Rescaled(fit[1].rate) ELSE <<>>, points |-> points]
<1>8. fit # <<>> /\ drift = Reports(line)
  BY <1>3, <1>6
<1>9. line.fit = fit[1] /\ line.points = points
  OBVIOUS
<1> HIDE DEF line
<1>10. told = line
  BY <1>4, <1>8 DEF Reports, ToSet
<1>11. IsDrawn(told, seen, played)
  BY <1>5, <1>6, <1>7, <1>8, <1>9, <1>10 DEF IsDrawn
<1> QED BY <1>6, <1>11 DEF seen, played

\* A drift that is drawn is a line through checkpoints.
LEMMA DrawnIsLine ==
  ASSUME NEW n \in Nat \ {0}, NEW picture, IsSide(picture, n),
         NEW m \in Nat \ {0}, NEW sound, IsSide(sound, m), sound.shift \in Int,
         NEW told, IsDrawn(told, picture, sound)
  PROVE  IsLineThrough(told)
<1>1. ASSUME NEW k \in 1..Checkpoints
      PROVE  Checkpoint(k - 1, picture, sound)[1] \in [t : Int, offset : Int]
  <2>1. Checkpoint(k - 1, picture, sound) # <<>>
    BY DEF IsDrawn
  <2> QED BY <2>1, CheckpointIs
<1> DEFINE points == [k \in 1..Checkpoints |-> Checkpoint(k - 1, picture, sound)[1]]
<1>2. points \in [1..Checkpoints -> [t : Int, offset : Int]]
  BY <1>1
<1> HIDE DEF points
<1>3. told.points = points /\ FitDrift(told.points) # <<>> /\ told.fit = FitDrift(told.points)[1]
  BY DEF IsDrawn, points
<1> QED BY <1>2, <1>3 DEF IsLineThrough

\* The sides of a drift between spans that are not bare.
LEMMA SidesAre ==
  ASSUME NEW n \in Nat \ {0}, NEW covered, IsCovered(covered, n), NEW video, IsTimebase(video.tb),
         NEW videoBasis, IsBasis(videoBasis), ~IsBare(videoBasis),
         NEW m \in Nat \ {0}, NEW heard, IsCovered(heard, m), NEW audio, IsTimebase(audio.tb),
         NEW audioBasis, IsBasis(audioBasis), ~IsBare(audioBasis), audioBasis.trimmed \in BOOLEAN,
         NEW adjusted \in Int, NEW priming, audioBasis.trimmed => priming # <<>>, IsMaybe(priming)
  PROVE  /\ IsSide(PictureOf(video, covered, videoBasis, audioBasis.trimmed), n)
         /\ IsSide(SoundOf(audio, heard, audioBasis, adjusted, priming), m)
         /\ SoundOf(audio, heard, audioBasis, adjusted, priming).shift \in Int
<1>1. /\ SpanOf(videoBasis, audioBasis.trimmed) \in Nat \ {0}
      /\ SpanOf(audioBasis, audioBasis.trimmed) \in Nat \ {0}
  BY SpanOfIs DEF IsBare
<1>2. covered.pts[1] \in Int /\ heard.pts[1] \in Int
  BY DEF IsCovered
<1>3. IsSide(PictureOf(video, covered, videoBasis, audioBasis.trimmed), n)
  BY <1>1, <1>2 DEF IsSide, PictureOf
<1>4. /\ IsSide(SoundOf(audio, heard, audioBasis, adjusted, priming), m)
      /\ SoundOf(audio, heard, audioBasis, adjusted, priming).shift \in Int
  BY <1>1, <1>2 DEF IsSide, IsMaybe, SoundOf
<1> QED BY <1>3, <1>4

-------------------------------------------------------------------------------
(* The drift of the sound.                                                 *)

\* What the synchronisation reads of the streams of the file.
LEMMA SoundAndPicture ==
  ASSUME TimelineTypeOK
  PROVE  /\ Of(Whole, "audio") = {2} /\ Of(Whole, "video") = {1}
         /\ Whole.streams[1].declared = <<>> /\ Whole.streams[2].declared = <<>>
         /\ \A i \in Media : IsTimebase(Whole.streams[i].tb)
         /\ IsMaybe(PrimingSamples(Whole.streams[2]))
         /\ IsMaybe(Whole.streams[2].sample_rate) /\ IsMaybe(Whole.streams[2].discard_padding)
<1> DEFINE own == [i \in Media |-> sent[i].packets]
           picture == StreamOf("video", shape.streams[1], sent[1], own[1])
           sound == StreamOf("audio", shape.streams[2], sent[2], own[2])
<1>1. DOMAIN Whole.streams = Media /\ \A i \in Media : Whole.streams[i].tb = shape.streams[i].tb
  BY WholeIs
<1>2. Whole.streams[1] = picture /\ Whole.streams[2] = sound
  BY DEF Whole, FileOf
<1>3. /\ picture.type = "video" /\ picture.declared = <<>>
      /\ sound.type = "audio" /\ sound.declared = <<>> /\ sound.skip_samples = 2 * shape.streams[2].priming
      /\ sound.initial_padding = 0 /\ sound.sample_rate = <<2000>> /\ sound.discard_padding = <<0>>
  BY DEF StreamOf
<1> HIDE DEF own, picture, sound
<1>4. ASSUME NEW i \in Media
      PROVE  /\ shape.streams[i].tb.num \in Nat \ {0} /\ shape.streams[i].tb.den \in Nat \ {0}
             /\ shape.streams[i].priming \in Nat
  <2>1. shape.streams[i] \in Kinds
    BY ShapesAssumption DEF TimelineTypeOK
  <2> DEFINE kind == shape.streams[i]
  <2> HIDE DEF kind
  <2>2. kind.tb \in [num : Nat \ {0}, den : Nat \ {0}] /\ kind.priming \in Nat
    BY <2>1 DEF Kinds, kind
  <2> QED BY <2>2 DEF kind
<1>5. Of(Whole, "audio") = {2} /\ Of(Whole, "video") = {1}
  BY <1>1, <1>2, <1>3 DEF Of, Media
<1>6. IsMaybe(PrimingSamples(sound))
  <2>1. PrimingSamples(sound) # <<>> => PrimingSamples(sound) = <<sound.skip_samples>>
    BY <1>3 DEF PrimingSamples
  <2>2. sound.skip_samples \in Int
    BY <1>3, <1>4 DEF Media
  <2> QED BY <2>1, <2>2 DEF IsMaybe
<1>7. IsMaybe(sound.sample_rate) /\ IsMaybe(sound.discard_padding)
  BY <1>3 DEF IsMaybe
<1> QED BY <1>1, <1>2, <1>3, <1>4, <1>5, <1>6, <1>7 DEF IsTimebase

\* What the drift of the sound is told between.
SoundPriming == SamplesToTicks(PrimingSamples(Whole.streams[2]), Whole.streams[2].sample_rate, Whole.streams[2].tb)
SoundPadding ==
  SamplesToTicks(Whole.streams[2].discard_padding, Whole.streams[2].sample_rate, Whole.streams[2].tb)
SoundStart == FirstPresented(Sent(2))[1] + (IF SoundPriming = <<>> THEN 0 ELSE SoundPriming[1])
PictureBasis == SpanBasis(<<>>, PtsSpan(Sent(1)), <<>>, <<>>)
SoundBasis == SpanBasis(<<>>, PtsSpan(Sent(2)), SoundPriming, SoundPadding)
ThePicture == PictureOf(Whole.streams[1], PtsSpan(Sent(1)), PictureBasis, SoundBasis.trimmed)
TheSound == SoundOf(Whole.streams[2], PtsSpan(Sent(2)), SoundBasis, SoundStart, SoundPriming)

\* The drift between the spans of the two streams.
TheDrift ==
  DriftBetween(Whole.streams[1], PtsSpan(Sent(1)), PictureBasis, Whole.streams[2], PtsSpan(Sent(2)),
               SoundBasis, SoundStart, SoundPriming)

\* The drift that is reported of the sound is that one.
LEMMA ReportedDrift ==
  ASSUME TimelineTypeOK, AvSyncReports(Whole)[2].drift # <<>>
  PROVE  Heard(1) /\ Heard(2) /\ AvSyncReports(Whole)[2].drift = <<TheDrift>>
<1> DEFINE video == Whole.streams[1]
           sound == Whole.streams[2]
           Each(report) == [i \in {2} |-> report]
           Untimed(first, tb) == IF first = <<>> THEN TRUE ELSE TicksToMs(first[1], tb) = <<>>
           views == PacketViews(Whole.streams, Whole.is_ts)
           reports == AvSyncReports(Whole)
           ofSound == OfAudio(video, Sent(1), sound, <<Sent(2)>>)
           untimed == Untimed(FirstPresented(Sent(1)), video.tb)
           pictureMs == TicksToMs(FirstPresented(Sent(1))[1], video.tb)
           first == FirstPresented(Sent(2))
           dr == Drift(video, PtsSpan(Sent(1)), sound, Sent(2), SoundStart, SoundPriming, SoundPadding)
<1>1. Of(Whole, "audio") = {2} /\ Of(Whole, "video") = {1} /\ PrimaryVideo(Whole) = 1
  <2>1. Of(Whole, "audio") = {2} /\ Of(Whole, "video") = {1}
    BY SoundAndPicture
  <2>2. Min({1}) = 1
    <3> DEFINE one == 1
    <3>1. one \in Int
      OBVIOUS
    <3> HIDE DEF one
    <3>2. Min({one}) = one
      BY <3>1, MaxMinOf
    <3> QED BY <3>2 DEF one
  <2> QED BY <2>1, <2>2 DEF PrimaryVideo
<1>2. Whole.partial = FALSE /\ views = [i \in Media |-> <<Sent(i)>>]
  BY WholeIs
<1>3. views[1] = <<Sent(1)>> /\ views[2] = <<Sent(2)>>
  BY <1>2 DEF Media
<1> HIDE DEF views
<1>4. reports = IF untimed THEN Each(OnlyOffset("insufficient_data"))
                ELSE [i \in {2} |-> OfAudio(video, views[1][1], Whole.streams[i], views[i])]
  BY <1>1, <1>2, <1>3 DEF AvSyncReports, views
<1> HIDE DEF reports, untimed
<1>5. reports[2] = IF untimed THEN OnlyOffset("insufficient_data") ELSE ofSound
  BY <1>3, <1>4
<1>6. OnlyOffset("insufficient_data").drift = <<>>
  BY DEF OnlyOffset
<1>7. reports[2].drift # <<>>
  BY DEF reports
<1>8. ~untimed /\ ofSound.drift # <<>> /\ reports[2] = ofSound
  BY <1>5, <1>6, <1>7
<1>9. first # <<>> /\ ofSound = OfAudioFrom(first[1], video, Sent(1), pictureMs, sound, Sent(2), SoundPriming)
  <2>1. ofSound = IF first = <<>> THEN OnlyOffset("insufficient_data")
                  ELSE OfAudioFrom(first[1], video, Sent(1), pictureMs, sound, Sent(2), SoundPriming)
    BY DEF OfAudio, SoundPriming
  <2> HIDE DEF ofSound, first, pictureMs, video, sound
  <2> QED BY <1>6, <1>8, <2>1
<1>10. \/ OfAudioFrom(first[1], video, Sent(1), pictureMs, sound, Sent(2), SoundPriming).drift = <<>>
       \/ OfAudioFrom(first[1], video, Sent(1), pictureMs, sound, Sent(2), SoundPriming).drift = <<dr>>
  BY <1>6 DEF OfAudioFrom, SoundPadding, SoundStart
<1>11. Heard(1) /\ Heard(2)
  <2>1. /\ ~Heard(1) => FirstPresented(Sent(1)) = <<>>
        /\ ~Heard(2) => FirstPresented(Sent(2)) = <<>>
    BY FirstIs DEF Media
  <2>2. FirstPresented(Sent(1)) # <<>>
    BY <1>8 DEF untimed
  <2> QED BY <1>9, <2>1, <2>2
<1>12. dr = TheDrift
  BY SoundAndPicture DEF Drift, TheDrift, PictureBasis, SoundBasis
<1> HIDE DEF ofSound, first, pictureMs, video, sound, dr
<1>13. reports[2].drift = <<dr>>
  BY <1>8, <1>9, <1>10
<1> QED BY <1>11, <1>12, <1>13 DEF reports

\* What is told of the sound is drawn between the picture and the sound.
LEMMA ToldOfSound ==
  ASSUME NEW told \in ToSet(TheDrift.value)
  PROVE  ~IsBare(PictureBasis) /\ ~IsBare(SoundBasis) /\ IsDrawn(told, ThePicture, TheSound)
BY DriftBetweenSays DEF TheDrift, ThePicture, TheSound

\* The two sides of the drift of the sound.
LEMMA SidesOfSound ==
  ASSUME TimelineTypeOK, Heard(1), Heard(2), ~IsBare(PictureBasis), ~IsBare(SoundBasis)
  PROVE  /\ Len(Sent(1)) \in Nat \ {0} /\ IsSide(ThePicture, Len(Sent(1)))
         /\ Len(Sent(2)) \in Nat \ {0} /\ IsSide(TheSound, Len(Sent(2)))
         /\ TheSound.shift \in Int
<1> DEFINE n == Len(Sent(1))
           m == Len(Sent(2))
           covered == PtsSpan(Sent(1))
           heard == PtsSpan(Sent(2))
           video == Whole.streams[1]
           sound == Whole.streams[2]
<1>1. n \in Nat \ {0} /\ IsCovered(covered, n) /\ m \in Nat \ {0} /\ IsCovered(heard, m)
  <2>1. \A i \in Media : /\ Len(Sent(i)) \in Nat /\ AreSent(Sent(i), Len(Sent(i)))
                         /\ Heard(i) <=> Len(Sent(i)) > 0
    BY WhatIsSent
  <2>2. n \in Nat \ {0} /\ AreSent(Sent(1), n) /\ m \in Nat \ {0} /\ AreSent(Sent(2), m)
    BY <2>1 DEF Media
  <2> HIDE DEF n, m
  <2> QED BY <2>2, CoveredIs
<1>2. /\ IsTimebase(video.tb) /\ IsTimebase(sound.tb)
      /\ IsMaybe(PrimingSamples(sound)) /\ IsMaybe(sound.sample_rate) /\ IsMaybe(sound.discard_padding)
  BY SoundAndPicture DEF Media
<1>3. FirstPresented(Sent(2))[1] \in Int
  <2>1. \E p \in ToSet(Sent(2)) : p.pts \in Nat /\ FirstPresented(Sent(2)) = <<p.pts>>
    BY FirstIs DEF Media
  <2> QED BY <2>1
<1>4. IsMaybe(SoundPriming) /\ IsMaybe(SoundPadding)
  <2> HIDE DEF sound
  <2>1. IsMaybe(SamplesToTicks(PrimingSamples(sound), sound.sample_rate, sound.tb))
    BY <1>2, TicksOrNone
  <2>2. IsMaybe(SamplesToTicks(sound.discard_padding, sound.sample_rate, sound.tb))
    BY <1>2, TicksOrNone
  <2> QED BY <2>1, <2>2 DEF SoundPriming, SoundPadding, sound
<1>5. SoundStart \in Int
  BY <1>3, <1>4 DEF IsMaybe, SoundStart
<1> HIDE DEF n, m, covered, heard, video, sound
<1>6. IsMaybe(<<>>)
  BY DEF IsMaybe
<1>7. IsBasis(PictureBasis)
  <2>1. IsBasis(SpanBasis(<<>>, covered, <<>>, <<>>))
    BY <1>1, <1>6, BasisIs
  <2> QED BY <2>1 DEF PictureBasis, covered
<1>8. IsBasis(SoundBasis) /\ (SoundBasis.trimmed => SoundPriming # <<>>)
  <2>1. LET basis == SpanBasis(<<>>, heard, SoundPriming, SoundPadding)
        IN IsBasis(basis) /\ (basis.trimmed => SoundPriming # <<>>)
    BY <1>1, <1>4, <1>6, BasisIs
  <2> QED BY <2>1 DEF SoundBasis, heard
<1>9. SoundBasis.trimmed \in BOOLEAN
  BY DEF SoundBasis, SpanBasis
<1>10. /\ IsSide(PictureOf(video, covered, PictureBasis, SoundBasis.trimmed), n)
       /\ IsSide(SoundOf(sound, heard, SoundBasis, SoundStart, SoundPriming), m)
       /\ SoundOf(sound, heard, SoundBasis, SoundStart, SoundPriming).shift \in Int
  BY <1>1, <1>2, <1>4, <1>5, <1>7, <1>8, <1>9, SidesAre
<1> QED BY <1>1, <1>10 DEF ThePicture, TheSound, n, m, covered, heard, video, sound

\* What every file satisfies: a line of least squares.
LEMMA LineIsOfLeastSquaresIn ==
  ASSUME TimelineTypeOK
  PROVE  LineIsOfLeastSquares
<1> DEFINE drift == AvSyncReports(Whole)[2].drift
<1> SUFFICES ASSUME drift # <<>>, NEW told \in ToSet(drift[1].value) PROVE IsLeastSquares(told.points, told.fit.rate)
  BY DEF LineIsOfLeastSquares
<1>1. Heard(1) /\ Heard(2) /\ drift = <<TheDrift>>
  BY ReportedDrift
<1> HIDE DEF drift
<1>2. told \in ToSet(TheDrift.value)
  BY <1>1
<1>3. ~IsBare(PictureBasis) /\ ~IsBare(SoundBasis) /\ IsDrawn(told, ThePicture, TheSound)
  BY <1>2, ToldOfSound
<1>4. IsLineThrough(told)
  BY <1>1, <1>3, SidesOfSound, DrawnIsLine
<1> QED BY <1>4, DriftIsOfLeastSquares

(* The drift of the sound from the picture is by the line of least squares *)
(* through its checkpoints, in files of any length.                        *)
THEOREM TheLineIsOfLeastSquares == TimelineSpec => []LineIsOfLeastSquares
<1>1. TimelineTypeOK => LineIsOfLeastSquares
  BY LineIsOfLeastSquaresIn
<1> QED BY <1>1, TimelineTyped, PTL

-------------------------------------------------------------------------------
(* Shares of time and of count.                                            *)

\* What has the lesser product is less.
LEMMA FactorIsLess ==
  ASSUME NEW b \in Nat \ {0}, NEW x \in Int, NEW y \in Int, b * x < b * y
  PROVE  x < y
<1> SUFFICES ASSUME y <= x PROVE FALSE
  OBVIOUS
<1> QED BY ProductGrows

\* What share of m packets of d ticks, less p, and of m packets a moment is.
Share(delta, m, d, p, L) == (delta * (m * d - p)) \div L
Ordinal(delta, m, L) == (delta * (m - 1) + L \div 2) \div L

\* The share of the time is within the packets.
LEMMA ShareIsWithin ==
  ASSUME NEW L \in Nat \ {0}, NEW a \in Nat \ {0}, NEW delta \in Nat, delta < L
  PROVE  (delta * a) \div L \in 0..(a - 1)
<1> DEFINE da == delta * a
           x == da \div L
           rest == da % L
           La == L * a
           Lx == L * x
<1>1. da \in Nat /\ La \in Nat
  OBVIOUS
<1>2. da < La
  <2>1. a * (delta + 1) <= a * L
    BY ProductGrows
  <2>2. a * (delta + 1) = da + a /\ a * L = La
    OBVIOUS
  <2> HIDE DEF da, La
  <2> QED BY <1>1, <2>1, <2>2
<1>3. x \in Nat /\ Lx \in Nat /\ rest \in Nat /\ da = Lx + rest
  <2> HIDE DEF da
  <2> QED BY <1>1, Division
<1>4. Lx < La
  <2> HIDE DEF da, La, Lx, rest
  <2> QED BY <1>1, <1>2, <1>3
<1>5. x < a
  <2> HIDE DEF x
  <2> QED BY <1>3, <1>4, FactorIsLess
<1> HIDE DEF x
<1> QED BY <1>3, <1>5 DEF x, da

\* The share of the count is within the packets, and found without overflow.
LEMMA OrdinalIsWithin ==
  ASSUME NEW L \in Nat \ {0}, NEW m \in Nat \ {0}, NEW delta \in Nat, delta < L
  PROVE  /\ Ordinal(delta, m, L) \in 0..(m - 1)
         /\ delta * (m - 1) \in 0..(L * m) /\ delta * (m - 1) + L \div 2 \in 0..(L * m)
<1> DEFINE last == m - 1
           dl == delta * last
           half == L \div 2
           num == dl + half
           Lm == L * m
           Ll == L * last
           q == num \div L
           rest == num % L
           Lq == L * q
<1>1. last \in Nat
  OBVIOUS
<1>2. half \in Nat /\ half < L
  OBVIOUS
<1>3. dl \in Nat /\ Ll \in Nat /\ Lm \in Nat /\ Lm = Ll + L
  BY <1>1
<1>4. dl <= Ll
  <2> HIDE DEF last
  <2>1. last * delta <= last * L
    BY <1>1, ProductGrows
  <2>2. last * delta = dl /\ last * L = Ll
    BY <1>1
  <2> HIDE DEF dl, Ll
  <2> QED BY <2>1, <2>2
<1> HIDE DEF last, dl, half, Lm, Ll
<1>5. num \in Nat /\ num < Lm
  BY <1>2, <1>3, <1>4
<1>6. q \in Nat /\ Lq \in Nat /\ rest \in Nat /\ num = Lq + rest
  <2> HIDE DEF num
  <2> QED BY <1>5, Division
<1>7. Lq < Lm
  <2> HIDE DEF num, Lq, rest
  <2> QED BY <1>3, <1>5, <1>6
<1>8. q < m
  <2> HIDE DEF q
  <2> QED BY <1>6, <1>7, FactorIsLess DEF Lm
<1>9. q \in 0..(m - 1)
  <2> HIDE DEF q
  <2> QED BY <1>6, <1>8
<1>10. dl \in 0..Lm /\ num \in 0..Lm
  BY <1>2, <1>3, <1>4, <1>5
<1> QED BY <1>9, <1>10 DEF Ordinal, last, dl, half, Lm

\* Time and count agree within two packets.
LEMMA SharesAgree ==
  ASSUME NEW L \in Nat \ {0}, NEW m \in Nat \ {0}, NEW d \in Nat \ {0}, NEW p \in Nat,
         p <= 2 * d, p < m * d, NEW delta \in Nat, delta < L
  PROVE  Abs(Share(delta, m, d, p, L) - d * Ordinal(delta, m, L)) <= 2 * d
<1> DEFINE a == m * d - p
           x == Share(delta, m, d, p, L)
           q == Ordinal(delta, m, L)
           num == delta * (m - 1) + L \div 2
           r1 == (delta * a) % L
           r2 == num % L
           half == L \div 2
           dm == delta * m
           dmd == dm * d
           dd == d * delta
           dp == delta * p
           dh == d * half
           dr == d * r2
           Ld == L * d
           w == x - d * q
<1>1. a \in Nat \ {0} /\ half \in Nat /\ half < L
  OBVIOUS
<1>2. delta * a \in Nat /\ delta * a = dmd - dp /\ dm \in Nat /\ dmd \in Nat /\ dp \in Nat /\ dd \in Nat /\ Ld \in Nat
  <2>1. dm \in Nat /\ dp \in Nat /\ dd \in Nat /\ Ld \in Nat
    OBVIOUS
  <2>2. delta * (m * d) = dmd
    OBVIOUS
  <2>3. delta * a = delta * (m * d) - dp
    OBVIOUS
  <2>4. dmd \in Nat
    BY <2>1
  <2>5. delta * a \in Nat
    <3> HIDE DEF a
    <3> QED BY <1>1
  <2> QED BY <2>1, <2>2, <2>3, <2>4, <2>5
<1>3. num \in Nat /\ num = dm - delta + half
  <2>1. delta * (m - 1) = dm - delta /\ m - 1 \in Nat
    OBVIOUS
  <2>2. delta * (m - 1) \in Nat
    BY <2>1
  <2> QED BY <1>1, <2>1, <2>2
<1>4. x \in Nat /\ L * x \in Nat /\ r1 \in Nat /\ r1 < L /\ dmd - dp = L * x + r1
  <2> DEFINE da == delta * a
  <2>1. x = da \div L /\ r1 = da % L
    BY DEF Share
  <2> HIDE DEF x, r1, da
  <2>2. da \in Nat /\ da = dmd - dp
    BY <1>2 DEF da
  <2> QED BY <2>1, <2>2, Division
<1>5. q \in Nat /\ L * q \in Nat /\ r2 \in Nat /\ r2 < L /\ num = L * q + r2
  <2>1. q = num \div L
    BY DEF Ordinal
  <2> HIDE DEF q, num
  <2> QED BY <1>3, <2>1, Division
<1> HIDE DEF x, q, r1, r2, a, half, num
<1>6. dr \in Nat /\ dh \in Nat /\ dr <= Ld /\ dh <= Ld
  <2>1. d * r2 <= d * L /\ d * half <= d * L
    BY <1>1, <1>5, ProductGrows
  <2>2. d * L = Ld
    OBVIOUS
  <2>3. dr \in Nat /\ dh \in Nat
    BY <1>1, <1>5
  <2> HIDE DEF Ld, dr, dh
  <2> QED BY <2>1, <2>2, <2>3 DEF dr, dh
<1>7. L * w = dd + dr - dp - r1 - dh
  <2> DEFINE Lx == L * x
             Lq == L * q
             dLq == d * Lq
  <2>1. L * w = Lx - dLq
    BY <1>4, <1>5
  <2>2. d * num = dLq + dr
    <3> HIDE DEF Lq
    <3> QED BY <1>5 DEF Lq
  <2>3. d * num = dmd - dd + dh
    <3>1. d * num = d * dm - d * delta + d * half
      BY <1>1, <1>2, <1>3
    <3>2. d * dm = dmd
      BY <1>2
    <3> HIDE DEF dm
    <3> QED BY <3>1, <3>2
  <2>4. dLq \in Int /\ Lx \in Int
    BY <1>4, <1>5
  <2> DEFINE dnum == d * num
             Lw == L * w
  <2> HIDE DEF Lx, Lq, dLq, dnum, Lw, dmd, dd, dh, dr, dp
  <2>5. dnum = dLq + dr /\ dnum = dmd - dd + dh /\ dmd - dp = Lx + r1 /\ Lw = Lx - dLq
    BY <1>4, <2>1, <2>2, <2>3 DEF dnum, Lw, Lx
  <2>6. Lw = dd + dr - dp - r1 - dh
    BY <1>2, <1>4, <1>6, <2>4, <2>5
  <2> QED BY <2>6 DEF Lw
<1>8. dd + d <= Ld
  <2>1. d * (delta + 1) <= d * L
    BY ProductGrows
  <2>2. d * (delta + 1) = dd + d /\ d * L = Ld
    OBVIOUS
  <2> HIDE DEF dd, Ld
  <2> QED BY <2>1, <2>2
<1>9. dp <= 2 * dd
  <2>1. delta * p <= delta * (2 * d)
    BY ProductGrows
  <2>2. delta * (2 * d) = 2 * dd
    OBVIOUS
  <2> HIDE DEF dp, dd
  <2> QED BY <2>1, <2>2 DEF dp
<1>10. 2 * dh <= Ld
  <2>1. 2 * half <= L
    BY DEF half
  <2>2. d * (2 * half) <= d * L
    BY <1>1, <2>1, ProductGrows
  <2>3. d * (2 * half) = 2 * dh /\ d * L = Ld
    BY <1>1
  <2> HIDE DEF dh, Ld
  <2> QED BY <2>2, <2>3
<1>11. w \in Int
  BY <1>4, <1>5
<1>12. L * (2 * d) = 2 * Ld /\ L * (2 * d + 1) = 2 * Ld + L
  OBVIOUS
<1>13. L * (-w) = dp + r1 + dh - dd - dr
  <2>1. L * (-w) = -(L * w)
    BY <1>11
  <2> DEFINE Lw == L * w
  <2> HIDE DEF Lw, dd, dr, dp, dh
  <2>2. Lw = dd + dr - dp - r1 - dh
    BY <1>7 DEF Lw
  <2>3. -Lw = dp + r1 + dh - dd - dr
    BY <1>2, <1>4, <1>6, <2>2
  <2> QED BY <2>1, <2>3 DEF Lw
<1> HIDE DEF w
<1>14. L * w < L * (2 * d) /\ L * (-w) < L * (2 * d + 1)
  <2> HIDE DEF dd, dr, dp, dh, Ld
  <2>1. dd + dr - dp - r1 - dh < 2 * Ld
    BY <1>2, <1>4, <1>6, <1>8
  <2>2. dp + r1 + dh - dd - dr < 2 * Ld + L
    BY <1>2, <1>4, <1>6, <1>8, <1>9, <1>10
  <2> QED BY <1>7, <1>12, <1>13, <2>1, <2>2
<1>15. w < 2 * d /\ -w < 2 * d + 1
  BY <1>11, <1>14, FactorIsLess
<1>16. Abs(w) <= 2 * d
  BY <1>11, <1>15 DEF Abs
<1> QED BY <1>16 DEF w, x, q

-------------------------------------------------------------------------------
(* Packets on a grid.                                                      *)

\* Packets of one length that touch, n of d ticks from s on.
IsGrid(c, n, s, d) ==
  /\ DOMAIN c.pts = 1..n /\ Len(c.pts) = n
  /\ \A k \in 1..n : c.pts[k] = s + (k - 1) * d /\ c.durations[k] = d
  /\ c.nominal = d

\* The length of d ticks a moment lies in.
LiesIn(x, j, d) == (j - 1) * d <= x /\ x < (j - 1) * d + d

\* Every moment of n lengths of d ticks lies in one of them.
LEMMA LengthOfMoment ==
  ASSUME NEW n \in Nat \ {0}, NEW d \in Nat \ {0}, NEW x \in 0..(n * d - 1)
  PROVE  \E j \in 1..n : LiesIn(x, j, d)
<1> DEFINE q == x \div d
           dq == d * q
           rest == x % d
           nd == n * d
<1>1. nd \in Nat /\ x \in Nat /\ x < nd
  OBVIOUS
<1>2. q \in Nat /\ dq \in Nat /\ rest \in Nat /\ rest < d /\ x = dq + rest
  BY <1>1, Division
<1>3. dq < d * n
  <2>1. d * n = nd
    OBVIOUS
  <2> HIDE DEF dq, nd, rest
  <2> QED BY <1>1, <1>2, <2>1
<1> HIDE DEF q
<1>4. q < n
  BY <1>2, <1>3, FactorIsLess
<1>5. q + 1 \in 1..n /\ ((q + 1) - 1) * d = dq
  BY <1>2, <1>4
<1> DEFINE At(j) == (j - 1) * d
<1>6. q + 1 \in 1..n /\ At(q + 1) = dq
  BY <1>5
<1> HIDE DEF At, dq, rest
<1>7. At(q + 1) <= x /\ x < At(q + 1) + d
  BY <1>1, <1>2, <1>6
<1> QED BY <1>6, <1>7 DEF At, LiesIn

\* Where a later place of a grid is.
LEMMA GridGrows ==
  ASSUME NEW d \in Nat \ {0}, NEW j \in Int, NEW k \in Int, j < k
  PROVE  (j - 1) * d + d <= (k - 1) * d /\ (j - 1) * d \in Int /\ (k - 1) * d \in Int
<1>1. d * j <= d * (k - 1)
  BY ProductGrows
<1>2. d * j = (j - 1) * d + d /\ d * (k - 1) = (k - 1) * d
  OBVIOUS
<1> QED BY <1>1, <1>2

\* The places of a grid below a moment of its j-th length.
Reached(x, j, d) == IF x = (j - 1) * d THEN j - 1 ELSE j

\* How many places of a grid are below a moment of its j-th length.
LEMMA BelowOnGrid ==
  ASSUME NEW n \in Nat \ {0}, NEW d \in Nat \ {0}, NEW s \in Nat, NEW grid, IsGrid(grid, n, s, d),
         NEW j \in 1..n, NEW x \in Nat, LiesIn(x, j, d), NEW t, t = s + x
  PROVE  Below(grid.pts, t) = Reached(x, j, d)
<1> DEFINE times == grid.pts
           c == IF x = (j - 1) * d THEN j - 1 ELSE j
           S == {k \in DOMAIN times : times[k] < s + x}
           jd == (j - 1) * d
<1>0. DOMAIN times = 1..n /\ \A k \in 1..n : times[k] = s + (k - 1) * d
  BY DEF IsGrid
<1>1. c \in 0..n /\ jd \in Int
  OBVIOUS
<1> HIDE DEF times
<1>2. ASSUME NEW k \in 1..n PROVE times[k] < s + x <=> k <= c
  <2> DEFINE kd == (k - 1) * d
  <2>1. kd \in Int /\ times[k] = s + kd
    BY <1>0
  <2>2. CASE k < j
    <3>1. kd + d <= jd
      BY <2>2, GridGrows
    <3>2. k <= c
      BY <2>2
    <3>3. jd <= x
      BY DEF LiesIn
    <3> HIDE DEF kd, jd, c
    <3> QED BY <1>1, <2>1, <3>1, <3>2, <3>3
  <2>3. CASE k = j
    <3>1. kd = jd /\ (k <= c <=> x # jd)
      BY <2>3
    <3>2. jd <= x
      BY DEF LiesIn
    <3> HIDE DEF kd, jd, c
    <3> QED BY <1>1, <2>1, <3>1, <3>2
  <2>4. CASE k > j
    <3>1. jd + d <= kd
      BY <2>4, GridGrows
    <3>2. ~(k <= c)
      BY <2>4
    <3>3. x < jd + d
      BY DEF LiesIn
    <3> HIDE DEF kd, jd, c
    <3> QED BY <1>1, <2>1, <3>1, <3>2, <3>3
  <2> QED BY <2>2, <2>3, <2>4
<1> HIDE DEF c
<1>3. S = 1..c
  BY <1>0, <1>1, <1>2
<1>4. Cardinality(1..c) = c
  BY <1>1, FS_Interval
<1>5. Below(times, s + x) = Cardinality(S)
  BY DEF Below
<1> QED BY <1>3, <1>4, <1>5 DEF c, Reached, times

\* The moment x after the start of a grid that is counted without overflow.
IsMoment(t, x, n, s, d) == x \in 0..(n * d - 1) /\ t = s + x /\ Fits(s + n * d)

\* A moment of a grid lies in a packet.
LEMMA ClampOnGrid ==
  ASSUME NEW n \in Nat \ {0}, NEW d \in Nat \ {0}, NEW s \in Nat, NEW c, IsGrid(c, n, s, d),
         NEW x, NEW t, IsMoment(t, x, n, s, d)
  PROVE  Clamp(c, t) = t
<1> DEFINE below == Below(c.pts, t)
           lower == IF below < n /\ c.pts[below + 1] = t THEN below + 1 ELSE below
           cap == DurationCap * c.nominal
           duration == IF c.nominal > 0 /\ Fits(cap) /\ cap < c.durations[lower] THEN cap ELSE c.durations[lower]
<1>1. /\ DOMAIN c.pts = 1..n /\ Len(c.pts) = n /\ c.nominal = d
      /\ \A k \in 1..n : c.pts[k] = s + (k - 1) * d /\ c.durations[k] = d
  BY DEF IsGrid
<1>0. x \in 0..(n * d - 1) /\ t = s + x /\ Fits(s + n * d) /\ x \in Nat
  BY DEF IsMoment
<1>2. PICK j \in 1..n : LiesIn(x, j, d)
  BY <1>0, LengthOfMoment
<1>3. below = Reached(x, j, d)
  <2> QED BY <1>0, <1>2, BelowOnGrid
<1> DEFINE jd == (j - 1) * d
<1>4. jd \in Nat /\ jd <= x /\ x < jd + d /\ c.pts[j] = s + jd
  <2>1. j - 1 \in Nat
    OBVIOUS
  <2>2. jd \in Nat
    BY <2>1
  <2>3. c.pts[j] = s + jd
    BY <1>1
  <2> QED BY <1>2, <2>2, <2>3 DEF LiesIn
<1>5. Clamp(c, t) = IF lower = 0 THEN c.pts[below + 1]
                    ELSE IF Fits(c.pts[lower] + duration) /\ t < c.pts[lower] + duration THEN t
                    ELSE IF below + 1 > n THEN c.pts[lower] + c.durations[lower]
                    ELSE IF c.pts[below + 1] - t < t - (c.pts[lower] + c.durations[lower]) THEN c.pts[below + 1]
                    ELSE c.pts[lower] + c.durations[lower]
  BY <1>1, Zenon DEF Clamp
<1> DEFINE clamped == Clamp(c, t)
<1> HIDE DEF clamped, below
<1>6. lower = j
  <2>1. CASE x = jd
    <3>1. below = j - 1 /\ below + 1 = j /\ below < n
      BY <1>3, <2>1 DEF Reached
    <3>2. c.pts[j] = t
      BY <1>0, <1>4, <2>1
    <3> QED BY <3>1, <3>2
  <2>2. CASE x # jd
    <3>1. below = j
      BY <1>3, <2>2 DEF Reached
    <3> DEFINE kd == ((j + 1) - 1) * d
    <3>2. j < n => c.pts[j + 1] = s + kd
      BY <1>1
    <3>3. kd = jd + d
      OBVIOUS
    <3> HIDE DEF kd, jd
    <3>4. j < n => c.pts[j + 1] # t
      BY <1>0, <1>4, <3>2, <3>3
    <3> QED BY <3>1, <3>4
  <2> QED BY <2>1, <2>2
<1> HIDE DEF lower
<1>7. duration = d
  BY <1>1, <1>6 DEF DurationCap
<1> HIDE DEF duration
<1>8. jd + d <= n * d
  <2>1. j < n + 1 /\ ((n + 1) - 1) * d = n * d
    OBVIOUS
  <2> QED BY <2>1, GridGrows
<1> HIDE DEF jd
<1>9. Fits(c.pts[lower] + duration) /\ t < c.pts[lower] + duration
  <2> DEFINE nd == n * d
  <2>1. Fits(s + nd) /\ jd + d <= nd /\ nd \in Nat
    BY <1>0, <1>8
  <2> HIDE DEF nd
  <2>2. Fits(s + jd + d) /\ t < s + jd + d
    BY <1>0, <1>4, <2>1, TimelineAssumption DEF Fits
  <2> QED BY <1>4, <1>6, <1>7, <2>2
<1>10. clamped = t
  BY <1>5, <1>6, <1>9 DEF clamped
<1> QED BY <1>10 DEF clamped

\* The packet at the same share of the packets of a grid.
LEMMA ByOrdinalOnGrid ==
  ASSUME NEW n \in Nat \ {0}, NEW d \in Nat \ {0}, NEW s \in Int, NEW c, IsGrid(c, n, s, d),
         NEW L \in Nat \ {0}, NEW delta \in Nat, delta < L, Fits(L * n)
  PROVE  ByOrdinal(c.pts, delta, L) = s + d * Ordinal(delta, n, L)
<1> DEFINE last == Len(c.pts) - 1
           num == delta * last + L \div 2
           q == Ordinal(delta, n, L)
           index == Quotient(num, L)
           Ln == L * n
           dl == delta * last
<1>1. /\ Len(c.pts) = n /\ \A k \in 1..n : c.pts[k] = s + (k - 1) * d
  BY DEF IsGrid
<1>2. last = n - 1 /\ last \in Nat
  BY <1>1
<1> HIDE DEF last
<1>3. q \in 0..last /\ dl \in 0..Ln /\ num \in 0..Ln
  BY <1>2, OrdinalIsWithin
<1>4. Fits(dl) /\ Fits(num)
  <2>1. Fits(Ln) /\ Ln \in Nat
    OBVIOUS
  <2> HIDE DEF Ln, dl, num
  <2> QED BY <1>3, <2>1, TimelineAssumption DEF Fits
<1>5. index = q
  <2>1. num >= 0 /\ num = delta * (n - 1) + L \div 2
    BY <1>2, <1>3
  <2> HIDE DEF num
  <2> QED BY <2>1 DEF Quotient, Ordinal
<1>6. ByOrdinal(c.pts, delta, L) = c.pts[1 + Max({0, Min({index, last})})]
  BY <1>4, Zenon DEF ByOrdinal, last
<1> HIDE DEF index, q
<1>7. Min({q, last}) = q /\ Max({0, q}) = q
  <2>1. q \in Int /\ last \in Int /\ q <= last /\ 0 <= q
    BY <1>2, <1>3
  <2>2. Min({q, last}) = q
    BY <2>1, MaxMinOf, Zenon
  <2> DEFINE zero == 0
  <2>3. zero \in Int /\ zero <= q
    BY <2>1
  <2> HIDE DEF zero
  <2>4. Max({zero, q}) = q
    BY <2>1, <2>3, GreaterOf, Zenon
  <2> QED BY <2>2, <2>4 DEF zero
<1>8. c.pts[1 + q] = s + d * q
  <2>1. 1 + q \in 1..n /\ ((1 + q) - 1) * d = d * q
    BY <1>2, <1>3
  <2> QED BY <1>1, <2>1
<1> QED BY <1>5, <1>6, <1>7, <1>8 DEF q

\* The point of even sound at a share of its time.
LEMMA AudioPointOnGrid ==
  ASSUME NEW n \in Nat \ {0}, NEW d \in Nat \ {0}, NEW s \in Nat, NEW c, IsGrid(c, n, s, d), Fits(s + n * d),
         NEW p \in Nat, p <= 2 * d, p < n * d,
         NEW L \in Nat \ {0}, NEW delta \in Nat, delta < L, Fits(L * (n * d))
  PROVE  /\ AudioPoint(c, s + Share(delta, n, d, p, L), delta, L) = s + Share(delta, n, d, p, L)
         /\ Share(delta, n, d, p, L) \in Nat
<1> DEFINE x == Share(delta, n, d, p, L)
           q == Ordinal(delta, n, L)
           a == n * d - p
           clamped == Clamp(c, s + x)
           ordinal == ByOrdinal(c.pts, delta, L)
           nd == n * d
           dq == d * q
<1>1. x \in 0..(nd - 1)
  <2>1. a \in Nat \ {0} /\ a <= nd /\ nd \in Nat
    OBVIOUS
  <2> DEFINE share == (delta * a) \div L
  <2>2. share \in 0..(a - 1)
    <3> HIDE DEF a
    <3> QED BY <2>1, ShareIsWithin
  <2>3. x = share
    BY DEF Share
  <2> HIDE DEF share, a, nd, x
  <2> QED BY <2>1, <2>2, <2>3
<1>2. clamped = s + x
  <2> DEFINE t == s + x
  <2>1. IsMoment(t, x, n, s, d)
    BY <1>1 DEF IsMoment
  <2> HIDE DEF x, t
  <2>2. Clamp(c, t) = t
    BY <2>1, ClampOnGrid
  <2> QED BY <2>2 DEF t
<1>3. Fits(L * n)
  <2>1. L * n <= L * nd /\ L * n \in Nat /\ L * nd \in Nat
    <3>1. n * 1 <= n * d
      BY ProductGrows
    <3>2. n <= nd /\ nd \in Nat /\ n \in Nat
      BY <3>1
    <3> HIDE DEF nd
    <3>3. L * n \in Int /\ L * nd \in Int /\ L * n <= L * nd
      BY <3>2, ProductGrows
    <3>4. L * n \in Nat /\ L * nd \in Nat
      BY <3>2
    <3> QED BY <3>3, <3>4
  <2> DEFINE Ln == L * n
             Lnd == L * nd
  <2>2. Ln \in Nat /\ Ln <= Lnd /\ Fits(Lnd)
    BY <2>1
  <2> HIDE DEF Ln, Lnd
  <2>3. Fits(Ln)
    BY <2>1, <2>2, TimelineAssumption DEF Fits, Lnd
  <2> QED BY <2>3 DEF Ln
<1>4. ordinal = s + dq
  BY <1>3, ByOrdinalOnGrid
<1>5. Abs(x - dq) <= 2 * d
  BY SharesAgree
<1>6. q \in Nat /\ dq \in Nat
  <2>1. q \in 0..(n - 1)
    BY OrdinalIsWithin
  <2> HIDE DEF q
  <2>2. q \in Nat
    BY <2>1
  <2> QED BY <2>2
<1>7. AudioPoint(c, s + x, delta, L) \in {clamped, ordinal}
  BY DEF AudioPoint
<1>8. AudioPoint(c, s + x, delta, L) = clamped
  <2>1. Abs(clamped - ordinal) > DurationCap * c.nominal \/ AudioPoint(c, s + x, delta, L) = clamped
    BY Zenon DEF AudioPoint
  <2>2. c.nominal = d
    BY DEF IsGrid
  <2>3. clamped - ordinal = x - dq
    <3> HIDE DEF x, dq, clamped, ordinal
    <3> QED BY <1>1, <1>2, <1>4, <1>6
  <2>4. ~(Abs(clamped - ordinal) > DurationCap * c.nominal)
    <3>1. Abs(x - dq) \in Int
      <4> HIDE DEF x, dq
      <4> QED BY <1>1, <1>6 DEF Abs
    <3> DEFINE off == Abs(x - dq)
    <3>2. off \in Int /\ off <= 2 * d
      BY <1>5, <3>1
    <3> HIDE DEF off
    <3>3. ~(off > DurationCap * d)
      BY <3>2 DEF DurationCap
    <3> QED BY <2>2, <2>3, <3>3 DEF off
  <2> QED BY <2>1, <2>4
<1> HIDE DEF x
<1>9. x \in Nat
  BY <1>1
<1> QED BY <1>2, <1>8, <1>9 DEF x

-------------------------------------------------------------------------------
(* Streams of packets of one length.                                       *)

\* Numbers that go up by the same step are on a grid.
LEMMA EvenSteps ==
  ASSUME NEW n \in Nat, NEW d \in Nat, NEW vals, \A k \in 1..n : vals[k] \in Int,
         \A k \in 2..n : vals[k] = vals[k - 1] + d
  PROVE  \A k \in 1..n : vals[k] = vals[1] + (k - 1) * d
<1> DEFINE Good == {j \in Nat : 1 + j <= n => vals[1 + j] = vals[1] + j * d}
<1>1. 0 \in Good
  <2>1. 1 + 0 <= n => vals[1] \in Int
    OBVIOUS
  <2> QED BY <2>1
<1>2. ASSUME NEW j \in Nat, j \in Good PROVE j + 1 \in Good
  <2> SUFFICES ASSUME 1 + (j + 1) <= n PROVE vals[1 + (j + 1)] = vals[1] + (j + 1) * d
    OBVIOUS
  <2>1. 1 + (j + 1) \in 2..n /\ 1 + j \in 1..n /\ (1 + (j + 1)) - 1 = 1 + j /\ 1 \in 1..n
    OBVIOUS
  <2>2. vals[1 + (j + 1)] = vals[1 + j] + d
    BY <2>1
  <2>3. vals[1 + j] = vals[1] + j * d
    BY <1>2, <2>1
  <2>4. (j + 1) * d = j * d + d /\ j * d \in Nat
    OBVIOUS
  <2> DEFINE jd == j * d
  <2>5. vals[1] \in Int
    BY <2>1
  <2> HIDE DEF jd
  <2>6. vals[1] + jd + d = vals[1] + (jd + d)
    BY <2>4, <2>5 DEF jd
  <2> QED BY <2>2, <2>3, <2>4, <2>6 DEF jd
<1> HIDE DEF Good
<1>3. Nat \subseteq Good
  BY <1>1, <1>2, SetInduction
<1>4. ASSUME NEW k \in 1..n PROVE vals[k] = vals[1] + (k - 1) * d
  <2>1. k - 1 \in Good /\ 1 + (k - 1) = k
    BY <1>3
  <2> QED BY <2>1 DEF Good
<1> QED BY <1>4

\* Equal numbers have that median.
LEMMA MedianOfEqual ==
  ASSUME NEW n \in Nat \ {0}, NEW d \in Int, NEW numbers, IsList(numbers, n), \A k \in 1..n : numbers[k] = d
  PROVE  Median(numbers) = d
<1>1. DOMAIN numbers = 1..n /\ Len(numbers) = n /\ numbers # <<>>
  BY DEF IsList
<1> DEFINE place == n \div 2 + 1
<1>2. place \in 1..n
  OBVIOUS
<1>3. IsFiniteSet(1..n) /\ Cardinality(1..n) = n
  BY FS_Interval
<1>4. AreRanked(1..n, numbers)
  BY <1>1, <1>3 DEF AreRanked
<1>5. \A k \in 1..n : Ranked(1..n, numbers, k) \in 1..n
  BY <1>3, <1>4, RankedIs
<1>6. Median(numbers) = Ascending(numbers, numbers)[place]
  BY <1>1 DEF Median
<1>7. \A k \in 1..n : Ascending(numbers, numbers)[k] = numbers[Ranked(1..n, numbers, k)]
  BY <1>1, AscendingIs
<1> HIDE DEF place
<1> QED BY <1>2, <1>5, <1>6, <1>7

\* Packets in presentation order of one length that touch.
IsEvenly(shown, n, d) ==
  /\ \A k \in 1..n : shown[k].duration = d
  /\ \A k \in 2..n : shown[k].pts = shown[k - 1].pts + d

\* Such packets cover a grid, and its span if it is counted.
LEMMA EvenCovers ==
  ASSUME NEW n \in Nat \ {0}, NEW d \in Nat \ {0}, NEW packets, AreSent(packets, n),
         NEW shown, shown = Ascending(packets, AxisOf(packets, "pts")), IsEvenly(shown, n, d)
  PROVE  /\ shown[1].pts \in Nat /\ shown[n].pts = shown[1].pts + (n - 1) * d
         /\ IsGrid(PtsSpan(packets), n, shown[1].pts, d)
         /\ PtsSpan(packets).span = <<>>
              \/ (PtsSpan(packets).span = <<n * d>> /\ Fits(shown[1].pts + n * d))
<1> DEFINE order == Presented(Samples(packets, "pts"))
           pts == Values(order)
           durations == [j \in DOMAIN order |-> EffectiveDuration(order, packets, j)]
           end == Last(pts) + Last(durations)
           covered == Len(pts) >= 2 /\ Fits(end) /\ Fits(end - pts[1]) /\ end > pts[1]
           span == IF covered THEN <<end - pts[1]>> ELSE <<>>
           nominal == Median(Kept(durations, {j \in DOMAIN durations : durations[j] > 0}))
           c == PtsSpan(packets)
           s == shown[1].pts
<1>1. IsShowing(shown, packets, n) /\ IsShownBy(order, shown, packets, n)
  BY ShowingIs
<1>2. c.pts = pts /\ c.durations = durations /\ c.span = span /\ c.nominal = nominal
  BY DEF PtsSpan
<1> HIDE DEF c, order
<1>3. /\ DOMAIN order = 1..n /\ Len(order) = n
      /\ \A k \in 1..n : order[k].value = shown[k].pts /\ packets[order[k].index] = shown[k]
  BY <1>1 DEF IsShownBy, IsList
<1>4. \A k \in 1..n : shown[k].pts \in Nat /\ shown[k].duration = d
  <2>1. \A k \in 1..n : shown[k] \in Packets
    BY <1>1 DEF IsShowing
  <2>2. \A k \in 1..n : shown[k].pts \in Nat
    BY <2>1, Numbers DEF Packets, Moments
  <2> QED BY <2>2 DEF IsEvenly
<1>5. \A k \in 1..n : shown[k].pts = s + (k - 1) * d
  <2> DEFINE vals == [k \in 1..n |-> shown[k].pts]
  <2>1. \A k \in 1..n : vals[k] \in Int /\ vals[k] = shown[k].pts
    BY <1>4
  <2>2. \A k \in 2..n : vals[k] = vals[k - 1] + d
    BY DEF IsEvenly
  <2> HIDE DEF vals
  <2>3. \A k \in 1..n : vals[k] = vals[1] + (k - 1) * d
    BY <2>1, <2>2, EvenSteps
  <2>4. vals[1] = s
    BY <2>1
  <2> QED BY <2>1, <2>3, <2>4
<1> HIDE DEF s
<1>6. DOMAIN pts = 1..n /\ Len(pts) = n /\ \A k \in 1..n : pts[k] = s + (k - 1) * d
  BY <1>3, <1>5 DEF Values
<1>7. IsList(durations, n) /\ Len(durations) = n /\ \A k \in 1..n : durations[k] = d
  <2>1. \A k \in 1..n : EffectiveDuration(order, packets, k) = d
    BY <1>3, <1>4 DEF EffectiveDuration
  <2>2. durations = [k \in 1..n |-> EffectiveDuration(order, packets, k)]
    BY <1>3
  <2> QED BY <2>1, <2>2 DEF IsList
<1> HIDE DEF pts, durations
<1>8. nominal = d
  <2>1. DOMAIN durations = 1..n
    BY <1>7 DEF IsList
  <2>2. {j \in DOMAIN durations : durations[j] > 0} = 1..n
    BY <1>7, <2>1
  <2>3. Kept(durations, 1..n) = durations
    BY <1>7, KeptAll
  <2>4. nominal = Median(durations)
    BY <2>2, <2>3
  <2> HIDE DEF nominal
  <2>5. Median(durations) = d
    BY <1>7, MedianOfEqual
  <2> QED BY <2>4, <2>5
<1>9. s \in Nat
  BY <1>4 DEF s
<1> DEFINE nd == n * d
           ld == (n - 1) * d
<1>10. nd = ld + d /\ ld \in Nat /\ nd \in Nat
  <2>1. n - 1 \in Nat
    OBVIOUS
  <2> QED BY <2>1
<1>11. pts[1] = s /\ pts[n] = s + ld
  <2>1. pts[1] = s + 0 * d
    BY <1>6
  <2> QED BY <1>6, <1>9, <2>1
<1>12. end = s + nd /\ end - pts[1] = nd
  <2>1. Last(pts) = pts[n] /\ Last(durations) = d
    BY <1>6, <1>7 DEF Last
  <2> HIDE DEF nd, ld
  <2> QED BY <1>9, <1>10, <1>11, <2>1
<1>13. span = <<>> \/ (span = <<nd>> /\ Fits(s + nd))
  BY <1>12
<1>14. IsGrid(c, n, s, d)
  BY <1>2, <1>6, <1>7, <1>8 DEF IsGrid
<1>15. shown[n].pts = s + ld
  BY <1>5
<1> HIDE DEF span
<1> QED BY <1>2, <1>9, <1>13, <1>14, <1>15 DEF s, c

\* The nearest of some times is one of them.
LEMMA NearestIsAmong ==
  ASSUME NEW n \in Nat \ {0}, NEW times, DOMAIN times = 1..n, Len(times) = n, NEW t
  PROVE  \E k \in 1..n : NearestTick(times, t) = times[k]
<1> DEFINE lower == Below(times, t)
<1>1. lower \in 0..n
  BY BelowIs
<1>2. \/ NearestTick(times, t) = times[1]
      \/ NearestTick(times, t) = times[n]
      \/ lower # 0 /\ lower # n /\ NearestTick(times, t) = times[lower + 1]
      \/ lower # 0 /\ lower # n /\ NearestTick(times, t) = times[lower]
  <2>1. Last(times) = times[n]
    BY DEF Last
  <2> QED BY <2>1, Zenon DEF NearestTick
<1> HIDE DEF lower
<1>3. lower # 0 /\ lower # n => lower \in 1..n /\ lower + 1 \in 1..n
  BY <1>1
<1>4. 1 \in 1..n /\ n \in 1..n
  OBVIOUS
<1> QED BY <1>2, <1>3, <1>4

\* A time within n lengths of d ticks from s on.
IsAhead(t, n, s, d) == \E ahead \in Nat : ahead < n * d /\ t = s + ahead

\* The nearest place of a grid.
LEMMA NearestOnGrid ==
  ASSUME NEW n \in Nat \ {0}, NEW d \in Nat \ {0}, NEW s \in Int, NEW c, IsGrid(c, n, s, d), NEW t
  PROVE  IsAhead(NearestTick(c.pts, t), n, s, d)
<1>1. DOMAIN c.pts = 1..n /\ Len(c.pts) = n /\ \A k \in 1..n : c.pts[k] = s + (k - 1) * d
  BY DEF IsGrid
<1>2. PICK k \in 1..n : NearestTick(c.pts, t) = c.pts[k]
  BY <1>1, NearestIsAmong
<1> DEFINE delta == (k - 1) * d
           nd == n * d
<1>3. delta + d <= nd
  <2>1. k < n + 1 /\ ((n + 1) - 1) * d = nd
    OBVIOUS
  <2> QED BY <2>1, GridGrows
<1>4. delta \in Nat /\ NearestTick(c.pts, t) = s + delta
  <2>1. k - 1 \in Nat
    OBVIOUS
  <2>2. delta \in Nat
    BY <2>1
  <2>3. c.pts[k] = s + delta
    BY <1>1
  <2> QED BY <1>2, <2>2, <2>3
<1> HIDE DEF delta, nd
<1>5. delta < nd
  <2>1. nd \in Nat
    BY DEF nd
  <2> QED BY <1>3, <1>4, <2>1
<1> QED BY <1>4, <1>5 DEF nd, IsAhead

-------------------------------------------------------------------------------
(* Checkpoints of even sound.                                              *)

\* Ticks that are milliseconds.
IsInMs(tb) == tb = [num |-> 1, den |-> 1000]

\* Such ticks are told as they are.
LEMMA MsAsTheyAre ==
  ASSUME NEW t \in Nat, NEW tb, IsInMs(tb), TicksToMs(t, tb) # <<>>
  PROVE  TicksToMs(t, tb)[1] = t
<1>1. TicksToMs(t, tb)[1] = InMs(t, tb)
  BY DEF TicksToMs
<1>2. tb.num = 1 /\ tb.den = 1000
  BY DEF IsInMs
<1> DEFINE ticks == t * 1000 * 1
<1>3. ticks \in Nat /\ ticks \div 1000 = t
  OBVIOUS
<1>4. InMs(t, tb) = ticks \div 1000
  <2>1. InMs(t, tb) = Quotient(ticks, 1000)
    BY <1>2 DEF InMs
  <2> HIDE DEF ticks
  <2> QED BY <1>3, <2>1 DEF Quotient
<1> QED BY <1>1, <1>3, <1>4

\* The picture of n packets of e ticks each, and the sound of m packets of d ticks,
\* p of them priming.
IsEvenPicture(side, n, e) ==
  /\ side.start \in Nat /\ side.span = n * e /\ IsInMs(side.tb) /\ IsGrid(side.covered, n, side.start, e)
IsEvenSound(side, m, d, s, p) ==
  /\ side.start = s + p /\ side.shift = p /\ side.span = m * d - p
  /\ IsInMs(side.tb) /\ IsGrid(side.covered, m, s, d) /\ Fits(s + m * d)

\* When the sound of a moment is played.
PlayedAt(t, first, s, p, span, L) == s + p + Quotient((t - first) * (span - p), L)
IsPlayed(point, first, s, p, span, L) == point.offset = PlayedAt(point.t, first, s, p, span, L) - point.t

\* What the lengths of a file whose sound keeps step satisfy.
AreLengths(n, e, m, d, p) ==
  /\ n \in Nat \ {0} /\ e \in Nat \ {0} /\ m \in Nat \ {0} /\ d \in Nat \ {0} /\ p \in Nat
  /\ p <= 2 * d /\ p < m * d /\ Fits((n * e) * (m * d))

\* Even sound keeps step at every checkpoint.
LEMMA CheckpointKeepsStep ==
  ASSUME NEW n, NEW e, NEW m, NEW d, NEW p, AreLengths(n, e, m, d, p), NEW s \in Nat,
         NEW video, IsEvenPicture(video, n, e), NEW audio, IsEvenSound(audio, m, d, s, p),
         NEW k, Checkpoint(k, video, audio) # <<>>
  PROVE  IsPlayed(Checkpoint(k, video, audio)[1], video.start, s, p, m * d, n * e)
<1> DEFINE target == video.start + Quotient(k * video.span, Checkpoints - 1)
           t == NearestTick(video.covered.pts, target)
           delta == t - video.start
           aligned == audio.start + Quotient(delta * audio.span, video.span)
           put == AudioPoint(audio.covered, aligned - audio.shift, delta, video.span)
           point == put + audio.shift
           videoMs == TicksToMs(t, video.tb)
           audioMs == TicksToMs(point, audio.tb)
           told == [t |-> videoMs[1], offset |-> audioMs[1] - videoMs[1]]
           check == Checkpoint(k, video, audio)
           L == n * e
           x == Share(delta, m, d, p, L)
<1>1. videoMs # <<>> /\ audioMs # <<>> /\ check = <<told>>
  <2> DEFINE all == {k * video.span, target, delta, delta * audio.span, aligned, aligned - audio.shift, point}
             exact == ~\E y \in all : ~Fits(y)
  <2>1. check = IF ~exact THEN <<>>
                ELSE IF videoMs = <<>> \/ audioMs = <<>> THEN <<>>
                ELSE IF ~Fits(audioMs[1] - videoMs[1]) THEN <<>> ELSE <<told>>
    BY Zenon DEF Checkpoint
  <2> HIDE DEF exact, videoMs, audioMs, told
  <2> QED BY <2>1
<1>2. /\ video.start \in Nat /\ video.span = L /\ IsInMs(video.tb) /\ IsGrid(video.covered, n, video.start, e)
      /\ audio.start = s + p /\ audio.shift = p /\ audio.span = m * d - p
      /\ IsInMs(audio.tb) /\ IsGrid(audio.covered, m, s, d) /\ Fits(s + m * d)
  BY DEF IsEvenPicture, IsEvenSound
<1>3. /\ n \in Nat \ {0} /\ e \in Nat \ {0} /\ m \in Nat \ {0} /\ d \in Nat \ {0} /\ p \in Nat
      /\ p <= 2 * d /\ p < m * d /\ Fits(L * (m * d))
  BY DEF AreLengths
<1>4. L \in Nat \ {0}
  BY <1>3
<1> HIDE DEF check, target
<1>5. \E ahead \in Nat : ahead < L /\ t = video.start + ahead
  <2>1. IsAhead(t, n, video.start, e)
    <3> DEFINE c == video.covered
               first == video.start
    <3>1. first \in Int /\ IsGrid(c, n, first, e)
      BY <1>2
    <3> HIDE DEF c, first
    <3>2. IsAhead(NearestTick(c.pts, target), n, first, e)
      BY <1>3, <3>1, NearestOnGrid
    <3> QED BY <3>2 DEF c, first
  <2> HIDE DEF t
  <2> QED BY <2>1 DEF IsAhead
<1> HIDE DEF t, L
<1>6. delta \in Nat /\ delta < L /\ t = video.start + delta /\ t \in Nat
  BY <1>2, <1>5
<1> HIDE DEF delta
<1>7. Quotient(delta * audio.span, video.span) = x
  <2> DEFINE share == delta * (m * d - p)
  <2>1. share \in Nat
    <3>1. m * d - p \in Nat
      BY <1>3
    <3> QED BY <1>6, <3>1
  <2>2. delta * audio.span = share /\ video.span = L /\ x = share \div L
    BY <1>2 DEF Share
  <2> HIDE DEF share, x
  <2> QED BY <2>1, <2>2 DEF Quotient
<1>8. put = s + x /\ x \in Nat
  <2> DEFINE at == s + x
  <2>1. AudioPoint(audio.covered, s + x, delta, L) = s + x /\ x \in Nat
    BY <1>2, <1>3, <1>4, <1>6, AudioPointOnGrid
  <2> HIDE DEF x
  <2>2. aligned - audio.shift = s + x
    <3>1. aligned = s + p + x
      BY <1>2, <1>7
    <3> HIDE DEF aligned
    <3> QED BY <1>2, <1>3, <2>1, <3>1
  <2> QED BY <1>2, <2>1, <2>2
<1> HIDE DEF put, x
<1>9. point = s + p + x /\ point \in Nat
  BY <1>2, <1>3, <1>8
<1> HIDE DEF point
<1>10. videoMs[1] = t /\ audioMs[1] = point
  BY <1>1, <1>2, <1>6, <1>9, MsAsTheyAre
<1> HIDE DEF videoMs, audioMs
<1>11. told.t = t /\ told.offset = point - t
  BY <1>10
<1> HIDE DEF told
<1>12. check[1] = told
  BY <1>1
<1>13. PlayedAt(t, video.start, s, p, m * d, L) = point
  <2>1. Quotient((t - video.start) * (m * d - p), L) = x
    BY <1>2, <1>7 DEF delta
  <2> QED BY <1>9, <2>1 DEF PlayedAt
<1>14. IsPlayed(check[1], video.start, s, p, m * d, L)
  BY <1>11, <1>12, <1>13 DEF IsPlayed
<1> QED BY <1>14 DEF check, L

-------------------------------------------------------------------------------
(* The priming of the sound.                                               *)

\* What the length of a stream's packets is, and when it is first shown.
LengthOf(i) == Sent(i)[1].duration
StartOf(i) == Shown(i)[1].pts

\* A stream of packets of one length that touch covers a grid from its start.
LEMMA EvenStreamIs ==
  ASSUME TimelineTypeOK, NEW i \in Media, Heard(i), IsContinuous(i), IsEven(i)
  PROVE  LET n == Len(Sent(i))
             d == LengthOf(i)
             c == PtsSpan(Sent(i))
         IN /\ n \in Nat \ {0} /\ d \in Nat \ {0} /\ StartOf(i) \in Nat
            /\ SpanOfSent(i) = n * d /\ IsGrid(c, n, StartOf(i), d)
            /\ c.span = <<>> \/ (c.span = <<n * d>> /\ Fits(StartOf(i) + n * d))
            /\ FirstPresented(Sent(i)) = <<StartOf(i)>>
<1> DEFINE n == Len(Sent(i))
           d == LengthOf(i)
           packets == Sent(i)
           shown == Ascending(packets, AxisOf(packets, "pts"))
           c == PtsSpan(packets)
<1>1. n \in Nat \ {0} /\ AreSent(packets, n) /\ Pts(i) = AxisOf(packets, "pts")
  BY WhatIsSent
<1>2. Shown(i) = shown
  BY <1>1 DEF Shown, Sent
<1> HIDE DEF n
<1>3. IsShowing(shown, packets, n)
  BY <1>1, ShowingIs
<1> HIDE DEF shown
<1>4. /\ Len(shown) = n
      /\ \A k \in 1..n : shown[k] \in Packets /\ \E m \in 1..n : shown[k] = packets[m]
      /\ \A m \in 1..n : \E k \in 1..n : shown[k] = packets[m]
      /\ \A j, k \in 1..n : j <= k => shown[j].pts <= shown[k].pts
  BY <1>3 DEF IsShowing
<1>5. \A k \in 1..n : shown[k].pts \in Nat
  BY <1>4, Numbers DEF Packets, Moments
<1>6. DOMAIN packets = 1..n /\ \A m \in 1..n : packets[m].duration = d /\ packets[m].duration \in Nat
  <2>1. DOMAIN packets = 1..n /\ \A m \in 1..n : packets[m].duration \in Nat
    BY <1>1 DEF AreSent, Packets
  <2>2. \A m \in 1..n : packets[m] \in ToSet(packets)
    BY <2>1 DEF ToSet
  <2>3. 1 \in 1..n
    BY <1>1
  <2>4. \A p, q \in ToSet(packets) : p.duration = q.duration
    BY DEF IsEven, Sent
  <2>5. \A m \in 1..n : packets[m].duration = packets[1].duration
    BY <2>2, <2>3, <2>4
  <2> QED BY <2>1, <2>5 DEF LengthOf
<1>7. d \in Nat \ {0}
  <2>1. 1 \in 1..n
    BY <1>1
  <2>2. packets[1] \in ToSet(packets)
    BY <1>6, <2>1 DEF ToSet
  <2>3. packets[1].duration > 0
    BY <2>2 DEF IsEven, Sent
  <2> QED BY <1>6, <2>1, <2>3
<1> HIDE DEF d, packets
<1>8. IsEvenly(shown, n, d)
  <2>1. ASSUME NEW k \in 1..n PROVE shown[k].duration = d
    <3>1. PICK m \in 1..n : shown[k] = packets[m]
      BY <1>4
    <3>2. packets[m].duration = d
      BY <1>6
    <3> QED BY <3>1, <3>2
  <2>2. \A k \in 2..n : shown[k].pts = shown[k - 1].pts + shown[k - 1].duration
    BY <1>2, <1>4 DEF IsContinuous
  <2>3. \A k \in 2..n : k - 1 \in 1..n
    BY <1>1
  <2>4. \A k \in 2..n : shown[k].pts = shown[k - 1].pts + d
    BY <2>1, <2>2, <2>3
  <2> QED BY <2>1, <2>4 DEF IsEvenly
<1> DEFINE s == shown[1].pts
           nd == n * d
           ld == (n - 1) * d
<1>9. /\ s \in Nat /\ shown[n].pts = s + ld
      /\ IsGrid(c, n, s, d)
      /\ c.span = <<>> \/ (c.span = <<nd>> /\ Fits(s + nd))
  <2>1. shown = Ascending(packets, AxisOf(packets, "pts"))
    BY DEF shown
  <2> QED BY <1>1, <1>7, <1>8, <2>1, EvenCovers
<1>10. StartOf(i) = s
  BY <1>2 DEF StartOf
<1>11. SpanOfSent(i) = nd
  <2>1. Last(Shown(i)) = shown[n]
    BY <1>2, <1>4 DEF Last
  <2>2. SpanOfSent(i) = shown[n].pts + shown[n].duration - s
    BY <1>2, <2>1 DEF SpanOfSent
  <2>3. shown[n].duration = d
    BY <1>1, <1>8 DEF IsEvenly
  <2>4. nd = ld + d /\ ld \in Nat
    <3>1. n - 1 \in Nat
      BY <1>1
    <3> QED BY <1>1, <1>7, <3>1
  <2> HIDE DEF nd, ld, s
  <2> QED BY <1>7, <1>9, <2>2, <2>3, <2>4
<1>12. FirstPresented(packets) = <<s>>
  <2>1. PICK p \in ToSet(packets) : /\ p.pts \in Nat /\ FirstPresented(packets) = <<p.pts>>
                                    /\ \A k \in DOMAIN packets : p.pts <= packets[k].pts
    BY FirstIs DEF packets
  <2>2. PICK j \in 1..n : p = packets[j]
    BY <1>6, <2>1 DEF ToSet
  <2>3. PICK k \in 1..n : shown[k] = packets[j]
    BY <1>4
  <2>4. 1 \in 1..n /\ 1 <= k
    BY <1>1
  <2>5. s <= p.pts
    BY <1>4, <2>2, <2>3, <2>4
  <2>6. PICK m \in 1..n : shown[1] = packets[m]
    BY <1>4, <2>4
  <2>7. p.pts <= s
    BY <1>6, <2>1, <2>6
  <2> HIDE DEF s
  <2>8. p.pts = s
    BY <1>9, <2>1, <2>5, <2>7
  <2> QED BY <2>1, <2>8
<1> HIDE DEF c, s, nd
<1> QED BY <1>1, <1>7, <1>9, <1>10, <1>11, <1>12 DEF n, d, packets, c, nd

\* What the sound says of its priming and padding.
LEMMA SoundSays ==
  LET sound == Whole.streams[2]
      priming == shape.streams[2].priming
  IN /\ sound.skip_samples = 2 * priming /\ sound.initial_padding = 0
     /\ sound.sample_rate = <<2000>> /\ sound.discard_padding = <<0>>
<1> DEFINE own == [i \in Media |-> sent[i].packets]
           sound == StreamOf("audio", shape.streams[2], sent[2], own[2])
<1>1. Whole.streams[2] = sound
  BY DEF Whole, FileOf
<1>2. /\ sound.skip_samples = 2 * shape.streams[2].priming /\ sound.initial_padding = 0
      /\ sound.sample_rate = <<2000>> /\ sound.discard_padding = <<0>>
  BY DEF StreamOf
<1> HIDE DEF own, sound
<1> QED BY <1>1, <1>2

\* Samples at two to the tick, counted in ticks.
LEMMA SamplesInMs ==
  ASSUME NEW p \in Nat, Fits(2000 * (p + 1)), NEW tb, IsInMs(tb)
  PROVE  SamplesToTicks(<<2 * p>>, <<2000>>, tb) = <<p>>
<1> DEFINE num == 2 * p * tb.den
           den == 2000 * tb.num
           samples == <<2 * p>>
           rate == <<2000>>
<1>1. num = 2000 * p /\ den = 2000
  BY DEF IsInMs
<1>2. Fits(2000 * p) /\ Fits(2000) /\ Fits(2000 * p + 1000)
  BY TimelineAssumption DEF Fits
<1>3. samples # <<>> /\ rate # <<>> /\ samples[1] = 2 * p /\ rate[1] = 2000 /\ ~(samples[1] < 0) /\ ~(rate[1] <= 0)
  OBVIOUS
<1> HIDE DEF samples, rate
<1> DEFINE sn == samples[1] * tb.den
           rn == rate[1] * tb.num
<1>4. sn = 2000 * p /\ rn = 2000
  BY <1>1, <1>3
<1>5. SamplesToTicks(samples, rate, tb) =
        IF samples = <<>> \/ rate = <<>> THEN <<>>
        ELSE IF samples[1] < 0 \/ rate[1] <= 0 \/ ~Fits(sn) \/ ~Fits(rn) \/ ~Fits(sn + rn \div 2) THEN <<>>
        ELSE <<(sn + rn \div 2) \div rn>>
  BY DEF SamplesToTicks
<1> HIDE DEF sn, rn
<1>6. rn \div 2 = 1000 /\ (sn + rn \div 2) \div rn = p
  BY <1>4
<1>7. SamplesToTicks(samples, rate, tb) = <<p>>
  BY <1>2, <1>3, <1>4, <1>5, <1>6
<1> QED BY <1>7 DEF samples, rate

\* The priming and the padding of the sound.
LEMMA PrimingIs ==
  ASSUME shape.streams[2].priming \in Nat, Fits(2000 * (shape.streams[2].priming + 1)), IsInMs(Whole.streams[2].tb)
  PROVE  /\ SoundPriming = IF shape.streams[2].priming = 0 THEN <<>> ELSE <<shape.streams[2].priming>>
         /\ SoundPadding = <<0>>
<1> DEFINE p == shape.streams[2].priming
           sound == Whole.streams[2]
<1>1. /\ sound.skip_samples = 2 * p /\ sound.initial_padding = 0
      /\ sound.sample_rate = <<2000>> /\ sound.discard_padding = <<0>>
  BY SoundSays
<1>2. p \in Nat /\ Fits(2000 * (p + 1)) /\ IsInMs(sound.tb)
  OBVIOUS
<1>3. SoundPriming = SamplesToTicks(PrimingSamples(sound), <<2000>>, sound.tb)
      /\ SoundPadding = SamplesToTicks(<<0>>, <<2000>>, sound.tb)
  BY <1>1 DEF SoundPriming, SoundPadding
<1> HIDE DEF p, sound
<1>4. SoundPadding = <<0>>
  <2> DEFINE zero == 0
  <2>1. zero \in Nat /\ 2 * zero = 0 /\ Fits(2000 * (zero + 1))
    BY <1>2, TimelineAssumption DEF Fits
  <2>2. SoundPadding = SamplesToTicks(<<2 * zero>>, <<2000>>, sound.tb)
    BY <1>3, <2>1
  <2> HIDE DEF zero
  <2>3. SoundPadding = <<zero>>
    BY <1>2, <2>1, <2>2, SamplesInMs
  <2> QED BY <2>3 DEF zero
<1>5. CASE p = 0
  <2>1. PrimingSamples(sound) = <<>>
    BY <1>1, <1>5 DEF PrimingSamples
  <2>2. SoundPriming = <<>>
    BY <1>3, <2>1 DEF SamplesToTicks
  <2> QED BY <1>4, <1>5, <2>2 DEF p
<1>6. CASE p # 0
  <2>1. PrimingSamples(sound) = <<2 * p>>
    BY <1>1, <1>2, <1>6 DEF PrimingSamples
  <2>2. SoundPriming = <<p>>
    BY <1>2, <1>3, <2>1, SamplesInMs
  <2> QED BY <1>4, <1>6, <2>2 DEF p
<1> QED BY <1>5, <1>6

-------------------------------------------------------------------------------
(* Even sound keeps step.                                                  *)

\* A span without what is known to be missing is what is covered, or nothing.
LEMMA PlainBasisIs ==
  ASSUME NEW covered, NEW priming, NEW padding, priming = <<>>
  PROVE  LET basis == SpanBasis(<<>>, covered, priming, padding)
         IN basis.raw = covered.span /\ basis.declared = <<>> /\ ~basis.trimmed
BY DEF SpanBasis

\* A span, if there is one, that is longer than a priming, and one that is less it.
IsLonger(span, p) == span # <<>> => span[1] \in Nat /\ p < span[1] /\ Fits(span[1])
IsLess(basis, span, p) ==
  /\ basis.raw = span
  /\ span = <<>> => basis.declared = <<>>
  /\ span # <<>> => basis.trimmed /\ basis.declared = <<span[1] - p>>

\* A span with a priming is trimmed where it is covered, or nothing.
LEMMA TrimmedBasisIs ==
  ASSUME NEW covered, NEW p \in Nat, IsLonger(covered.span, p)
  PROVE  IsLess(SpanBasis(<<>>, covered, <<p>>, <<0>>), covered.span, p)
<1> DEFINE basis == SpanBasis(<<>>, covered, <<p>>, <<0>>)
           priming == <<p>>
           padding == <<0>>
           rest == covered.span[1] - priming[1] - padding[1]
           trimmed == IF covered.span = <<>> \/ priming = <<>> \/ padding = <<>> THEN FALSE
                      ELSE Fits(covered.span[1] - priming[1]) /\ Fits(rest) /\ rest > 0
<1>1. /\ basis.raw = covered.span /\ basis.trimmed = trimmed
      /\ basis.declared = IF trimmed THEN <<rest>> ELSE <<>>
  BY DEF SpanBasis
<1>2. priming # <<>> /\ padding # <<>> /\ priming[1] = p /\ padding[1] = 0
  OBVIOUS
<1> HIDE DEF priming, padding, basis
<1>3. CASE covered.span = <<>>
  <2>1. ~trimmed
    BY <1>3
  <2> HIDE DEF trimmed
  <2>2. IsLess(basis, covered.span, p)
    BY <1>1, <1>3, <2>1 DEF IsLess
  <2> QED BY <2>2 DEF basis
<1>4. CASE covered.span # <<>>
  <2> DEFINE span == covered.span[1]
  <2>1. span \in Nat /\ p < span /\ Fits(span)
    BY <1>4 DEF IsLonger
  <2> HIDE DEF span
  <2>2. rest = span - p /\ covered.span[1] - priming[1] = span - p
    BY <1>2, <2>1 DEF span
  <2> HIDE DEF rest
  <2>3. Fits(span - p) /\ Fits(rest) /\ rest > 0
    BY <2>1, <2>2, TimelineAssumption DEF Fits
  <2>4. trimmed = TRUE
    BY <1>2, <1>4, <2>2, <2>3
  <2> HIDE DEF trimmed
  <2>5. basis.trimmed /\ basis.declared = <<span - p>>
    BY <1>1, <2>2, <2>4
  <2>6. IsLess(basis, covered.span, p)
    BY <1>1, <1>4, <2>5 DEF IsLess, span
  <2> QED BY <2>6 DEF basis
<1> QED BY <1>3, <1>4

\* The picture, if it has a span.
LEMMA EvenPictureIs ==
  ASSUME TimelineTypeOK, Heard(1), IsContinuous(1), IsEven(1), IsInMs(Whole.streams[1].tb), ~IsBare(PictureBasis)
  PROVE  IsEvenPicture(ThePicture, Len(Sent(1)), LengthOf(1)) /\ ThePicture.start = StartOf(1)
<1> DEFINE n == Len(Sent(1))
           e == LengthOf(1)
           c == PtsSpan(Sent(1))
           s == StartOf(1)
           ne == n * e
<1>1. /\ n \in Nat \ {0} /\ e \in Nat \ {0} /\ s \in Nat /\ IsGrid(c, n, s, e)
      /\ c.span = <<>> \/ c.span = <<ne>>
  BY EvenStreamIs DEF Media
<1>2. PictureBasis.raw = c.span /\ PictureBasis.declared = <<>>
  BY PlainBasisIs DEF PictureBasis
<1>3. c.span = <<ne>>
  BY <1>1, <1>2 DEF IsBare
<1> HIDE DEF n, e, c, s, ne
<1>4. SpanOf(PictureBasis, SoundBasis.trimmed) = ne
  BY <1>2, <1>3 DEF SpanOf
<1>5. c.pts[1] = s
  <2>1. c.pts[1] = s + (1 - 1) * e
    BY <1>1 DEF IsGrid
  <2> QED BY <1>1, <2>1
<1>6. /\ ThePicture.start = s /\ ThePicture.span = ne /\ ThePicture.covered = c
      /\ ThePicture.tb = Whole.streams[1].tb
  BY <1>4, <1>5 DEF ThePicture, PictureOf, c
<1> QED BY <1>1, <1>6 DEF IsEvenPicture, n, e, s, ne

\* The sound, if it has a span.
LEMMA EvenSoundIs ==
  ASSUME TimelineTypeOK, Heard(2), IsContinuous(2), IsEven(2), IsInMs(Whole.streams[2].tb), ~IsBare(SoundBasis),
         NEW p, p = shape.streams[2].priming, p \in Nat, p < SpanOfSent(2), Fits(SpanOfSent(2)), Fits(2000 * (p + 1))
  PROVE  IsEvenSound(TheSound, Len(Sent(2)), LengthOf(2), StartOf(2), p)
<1> DEFINE m == Len(Sent(2))
           d == LengthOf(2)
           c == PtsSpan(Sent(2))
           s == StartOf(2)
           md == m * d
<1>1. /\ m \in Nat \ {0} /\ d \in Nat \ {0} /\ s \in Nat /\ IsGrid(c, m, s, d)
      /\ c.span = <<>> \/ (c.span = <<md>> /\ Fits(s + md))
      /\ SpanOfSent(2) = md /\ FirstPresented(Sent(2)) = <<s>>
  BY EvenStreamIs DEF Media
<1>2. md \in Nat
  BY <1>1
<1>3. SoundPriming = (IF p = 0 THEN <<>> ELSE <<p>>) /\ SoundPadding = <<0>>
  BY PrimingIs
<1>4. SoundBasis = SpanBasis(<<>>, c, SoundPriming, SoundPadding)
  BY DEF SoundBasis
<1>5. c.pts[1] = s
  <2>1. c.pts[1] = s + (1 - 1) * d
    BY <1>1 DEF IsGrid
  <2> QED BY <1>1, <2>1
<1>6. SoundStart = s + (IF SoundPriming = <<>> THEN 0 ELSE SoundPriming[1])
  BY <1>1 DEF SoundStart
<1>7. /\ SoundBasis.trimmed => TheSound.start = SoundStart /\ TheSound.shift = SoundPriming[1]
      /\ ~SoundBasis.trimmed => TheSound.start = s /\ TheSound.shift = 0
      /\ TheSound.span = SpanOf(SoundBasis, SoundBasis.trimmed)
      /\ TheSound.covered = c /\ TheSound.tb = Whole.streams[2].tb
  BY <1>5 DEF TheSound, SoundOf
<1> HIDE DEF m, d, c, s, md
<1>8. ~(SoundBasis.raw = <<>> /\ SoundBasis.declared = <<>>)
  BY DEF IsBare
<1>9. CASE p = 0
  <2>1. SoundPriming = <<>>
    BY <1>3, <1>9
  <2>2. SoundBasis.raw = c.span /\ SoundBasis.declared = <<>> /\ ~SoundBasis.trimmed
    <3> DEFINE basis == SpanBasis(<<>>, c, SoundPriming, SoundPadding)
    <3>1. basis.raw = c.span /\ basis.declared = <<>> /\ ~basis.trimmed
      BY <2>1, PlainBasisIs
    <3> HIDE DEF basis
    <3>2. SoundBasis = basis
      BY <1>4 DEF basis
    <3> QED BY <3>1, <3>2
  <2>3. c.span = <<md>> /\ Fits(s + md)
    BY <1>1, <1>8, <2>2
  <2>4. SpanOf(SoundBasis, SoundBasis.trimmed) = md
    BY <2>2, <2>3 DEF SpanOf
  <2>5. TheSound.start = s + p /\ TheSound.shift = p /\ TheSound.span = md - p
    BY <1>1, <1>2, <1>7, <1>9, <2>2, <2>4
  <2> QED BY <1>1, <1>7, <2>3, <2>5 DEF IsEvenSound, m, d, s, md
<1>10. CASE p # 0
  <2>1. SoundPriming = <<p>> /\ SoundPadding = <<0>>
    BY <1>3, <1>10
  <2>2. IsLonger(c.span, p)
    BY <1>1, <1>2 DEF IsLonger
  <2>3. IsLess(SoundBasis, c.span, p)
    <3>1. IsLess(SpanBasis(<<>>, c, <<p>>, <<0>>), c.span, p)
      BY <2>2, TrimmedBasisIs
    <3>2. SoundBasis = SpanBasis(<<>>, c, <<p>>, <<0>>)
      BY <1>4, <2>1
    <3> QED BY <3>1, <3>2
  <2>4. c.span = <<md>> /\ Fits(s + md)
    BY <1>1, <1>8, <2>3 DEF IsLess
  <2>5. SoundBasis.trimmed /\ SoundBasis.declared = <<md - p>>
    BY <2>3, <2>4 DEF IsLess
  <2>6. SpanOf(SoundBasis, SoundBasis.trimmed) = md - p
    BY <2>5 DEF SpanOf
  <2>7. TheSound.start = s + p /\ TheSound.shift = p /\ TheSound.span = md - p
    <3>1. SoundPriming # <<>> /\ SoundPriming[1] = p
      BY <2>1
    <3>2. SoundStart = s + p
      BY <1>6, <3>1
    <3>3. TheSound.start = SoundStart /\ TheSound.shift = SoundPriming[1]
      BY <1>7, <2>5
    <3>4. TheSound.span = md - p
      BY <1>7, <2>6
    <3> QED BY <3>1, <3>2, <3>3, <3>4
  <2> QED BY <1>1, <1>7, <2>4, <2>7 DEF IsEvenSound, m, d, s, md
<1> QED BY <1>9, <1>10

\* What every file satisfies: even sound keeps step with an even picture.
LEMMA ContinuousAudioDriftsByItsSpanIn ==
  ASSUME TimelineTypeOK
  PROVE  ContinuousAudioDriftsByItsSpan
<1> DEFINE p == shape.streams[2].priming
           own == SpanOfSent(2)
           L == SpanOfSent(1)
           reported == AvSyncReports(Whole)[2].drift
           Played(t) == StartOf(2) + p + Quotient((t - StartOf(1)) * (own - p), L)
<1> SUFFICES ASSUME \A i \in Media : /\ Len(sent[i].packets) >= 2 /\ IsContinuous(i) /\ IsEven(i)
                                     /\ shape.streams[i].tb = [num |-> 1, den |-> 1000],
                    p < own, p <= DurationCap * sent[2].packets[1].duration,
                    Fits(L * own), Fits(2000 * (p + 1)),
                    NEW drift \in ToSet(reported), NEW told \in ToSet(drift.value), NEW point \in ToSet(told.points)
             PROVE  point.offset = Played(point.t) - point.t
  BY DEF ContinuousAudioDriftsByItsSpan, StartOf
<1>1. Heard(1) /\ Heard(2) /\ drift = TheDrift
  <2>1. \A x : x \in ToSet(<<>>) => FALSE
    BY DEF ToSet
  <2>2. reported # <<>>
    BY <2>1
  <2>3. Heard(1) /\ Heard(2) /\ reported = <<TheDrift>>
    BY <2>2, ReportedDrift
  <2> HIDE DEF reported
  <2> QED BY <2>3 DEF ToSet
<1>2. ~IsBare(PictureBasis) /\ ~IsBare(SoundBasis) /\ IsDrawn(told, ThePicture, TheSound)
  <2>1. told \in ToSet(TheDrift.value)
    BY <1>1
  <2> QED BY <2>1, ToldOfSound
<1>3. \E k : Checkpoint(k, ThePicture, TheSound) # <<>> /\ point = Checkpoint(k, ThePicture, TheSound)[1]
  <2> DEFINE points == [k \in 1..Checkpoints |-> Checkpoint(k - 1, ThePicture, TheSound)[1]]
  <2>1. told.points = points /\ \A k \in 1..Checkpoints : Checkpoint(k - 1, ThePicture, TheSound) # <<>>
    BY <1>2 DEF IsDrawn
  <2>2. DOMAIN points = 1..Checkpoints
    OBVIOUS
  <2>3. PICK k \in 1..Checkpoints : point = points[k]
    <3> HIDE DEF points
    <3> QED BY <2>1, <2>2 DEF ToSet
  <2>4. point = Checkpoint(k - 1, ThePicture, TheSound)[1]
    BY <2>3
  <2> QED BY <2>1, <2>4
<1>4. p \in Nat
  <2>1. shape.streams[2] \in Kinds
    BY ShapesAssumption DEF TimelineTypeOK, Media
  <2> DEFINE kind == shape.streams[2]
  <2> HIDE DEF kind
  <2>2. kind.priming \in Nat
    BY <2>1 DEF Kinds, kind
  <2> QED BY <2>2 DEF kind
<1>5. IsInMs(Whole.streams[1].tb) /\ IsInMs(Whole.streams[2].tb)
  BY WholeIs DEF IsInMs, Media
<1> DEFINE n == Len(Sent(1))
           e == LengthOf(1)
           m == Len(Sent(2))
           d == LengthOf(2)
<1>6. /\ n \in Nat \ {0} /\ e \in Nat \ {0} /\ L = n * e
      /\ m \in Nat \ {0} /\ d \in Nat \ {0} /\ own = m * d /\ StartOf(2) \in Nat
  BY <1>1, EvenStreamIs DEF Media
<1>7. p <= 2 * d
  BY DEF DurationCap, LengthOf, Sent
<1>8. Fits(own)
  <2> HIDE DEF n, e, m, d
  <2> DEFINE ne == n * e
             md == m * d
  <2>1. ne \in Nat \ {0} /\ md \in Nat
    BY <1>6
  <2> HIDE DEF ne, md
  <2>2. Fits(ne * md) /\ own = md
    BY <1>6 DEF ne, md
  <2>3. md * 1 <= md * ne
    BY <2>1, ProductGrows
  <2>4. md <= ne * md /\ ne * md \in Nat
    BY <2>1, <2>3
  <2> DEFINE product == ne * md
  <2> HIDE DEF product
  <2>5. Fits(md)
    BY <2>1, <2>2, <2>4, TimelineAssumption DEF Fits, product
  <2> QED BY <2>2, <2>5
<1> HIDE DEF p, n, e, m, d, own, L
<1>9. AreLengths(n, e, m, d, p)
  BY <1>4, <1>6, <1>7 DEF AreLengths
<1>10. IsEvenPicture(ThePicture, n, e) /\ ThePicture.start = StartOf(1)
  BY <1>1, <1>2, <1>5, EvenPictureIs DEF n, e, Media
<1>11. IsEvenSound(TheSound, m, d, StartOf(2), p)
  BY <1>1, <1>2, <1>4, <1>5, <1>8, EvenSoundIs DEF m, d, p, own, Media
<1>12. IsPlayed(point, StartOf(1), StartOf(2), p, own, L)
  BY <1>3, <1>6, <1>9, <1>10, <1>11, CheckpointKeepsStep
<1> QED BY <1>12 DEF IsPlayed, PlayedAt

(* Continuous sound of packets of one length keeps step with a continuous  *)
(* picture at every checkpoint, whatever the sizes and numbers of the      *)
(* packets of both: clamping moves no point that a packet covers, and the  *)
(* count of packets never overrides the time.                              *)
THEOREM EvenSoundKeepsStep == TimelineSpec => []ContinuousAudioDriftsByItsSpan
<1>1. TimelineTypeOK => ContinuousAudioDriftsByItsSpan
  BY ContinuousAudioDriftsByItsSpanIn
<1> QED BY <1>1, TimelineTyped, PTL
===============================================================================
