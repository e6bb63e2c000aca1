------------------------------ MODULE AudioProofs ------------------------------
(***************************************************************************)
(* Proofs about AudioSweep, for any stream, any decoders and whatever they *)
(* make of its packets: a decoder that fails over and over is given up,    *)
(* and what is told of a stream is told of all of it.                      *)
(***************************************************************************)
EXTENDS AudioSweep, ReportProofs, SequenceTheorems

-------------------------------------------------------------------------------
(* The folds over the frames of a packet, one step apart.                  *)
Turn(kind, s, frame) ==
  CASE kind = "receive" -> ConsumeFrame(RecordSuccess(s), frame)
    [] kind = "drain" -> ConsumeFrame(s, frame)
    [] kind = "hear" -> Hear(s, frame)

IsIteration(iter, kind, base, frames, n) ==
  iter = [s \in SUBSET (1..n) |->
            IF s = {} THEN base ELSE Turn(kind, iter[s \ {Max(s)}], frames[Max(s)])]

\* The last of some of the first k + 1 positions.
LEMMA LastOfSome ==
  ASSUME NEW k \in Nat, NEW s \in SUBSET (1..(k + 1)), s # {}
  PROVE  /\ k + 1 \in s => Max(s) = k + 1 /\ s \ {k + 1} \in SUBSET (1..k)
         /\ k + 1 \notin s => s \in SUBSET (1..k) /\ s \ {Max(s)} \in SUBSET (1..k)
<1>1. k + 1 \in Nat
  OBVIOUS
<1>2. Max(s) \in s /\ \A x \in s : x <= Max(s)
  BY <1>1, MaxOfPositions
<1>3. \A x \in s : x \in Nat /\ x <= k + 1 /\ (x = k + 1 \/ x \in 1..k)
  OBVIOUS
<1>4. k + 1 \in s => Max(s) = k + 1
  <2>1. k + 1 \in s => k + 1 <= Max(s) /\ Max(s) <= k + 1 /\ Max(s) \in Nat
    BY <1>2, <1>3
  <2> QED BY <2>1
<1> QED BY <1>3, <1>4

\* The state after each set of frames is a recursive function over sets.
LEMMA IterationExists ==
  ASSUME NEW kind, NEW base, NEW frames, NEW n \in Nat
  PROVE  \E iter : IsIteration(iter, kind, base, frames, n)
<1> DEFINE Reaches(k) == \E iter : IsIteration(iter, kind, base, frames, k)
           Good == {k \in Nat : Reaches(k)}
<1>1. Reaches(0)
  <2>1. SUBSET (1..0) = {{}}
    OBVIOUS
  <2>2. IsIteration([s \in {{}} |-> base], kind, base, frames, 0)
    BY <2>1 DEF IsIteration
  <2> QED BY <2>2
<1>2. ASSUME NEW k \in Nat, Reaches(k) PROVE Reaches(k + 1)
  <2>1. PICK g : IsIteration(g, kind, base, frames, k)
    BY <1>2
  <2> DEFINE h == [s \in SUBSET (1..(k + 1)) |->
                     IF k + 1 \in s THEN Turn(kind, g[s \ {k + 1}], frames[k + 1]) ELSE g[s]]
  <2>2. ASSUME NEW s \in SUBSET (1..(k + 1))
        PROVE  h[s] = IF s = {} THEN base ELSE Turn(kind, h[s \ {Max(s)}], frames[Max(s)])
    <3>1. s # {} => /\ k + 1 \in s => Max(s) = k + 1 /\ s \ {k + 1} \in SUBSET (1..k)
                    /\ k + 1 \notin s => s \in SUBSET (1..k) /\ s \ {Max(s)} \in SUBSET (1..k)
      BY LastOfSome
    <3>2. CASE k + 1 \in s
      <4>1. h[s \ {k + 1}] = g[s \ {k + 1}]
        BY <3>1, <3>2
      <4> QED BY <3>1, <3>2, <4>1
    <3>3. CASE k + 1 \notin s /\ s # {}
      <4>1. h[s \ {Max(s)}] = g[s \ {Max(s)}] /\ h[s] = g[s]
        BY <3>1, <3>3
      <4> QED BY <2>1, <3>1, <3>3, <4>1 DEF IsIteration
    <3>4. CASE s = {}
      BY <2>1, <3>4 DEF IsIteration
    <3> QED BY <3>2, <3>3, <3>4
  <2>3. h = [s \in SUBSET (1..(k + 1)) |-> h[s]]
    OBVIOUS
  <2> HIDE DEF h
  <2>4. IsIteration(h, kind, base, frames, k + 1)
    BY <2>2, <2>3 DEF IsIteration
  <2> QED BY <2>4
<1> HIDE DEF Reaches
<1>3. 0 \in Good /\ \A k \in Nat : k \in Good => k + 1 \in Good
  BY <1>1, <1>2
<1> HIDE DEF Good
<1>4. n \in Good
  BY <1>3, SetInduction
<1> QED BY <1>4 DEF Good, Reaches

\* The values after the first k frames.
IsRunOf(run, kind, base, frames, n) ==
  run[0] = base /\ \A k \in 1..n : run[k] = Turn(kind, run[k - 1], frames[k])

\* Over prefixes it is a function of the number of frames taken.
LEMMA IterationRuns ==
  ASSUME NEW kind, NEW base, NEW frames, NEW n \in Nat, NEW iter,
         IsIteration(iter, kind, base, frames, n)
  PROVE  \E run : IsRunOf(run, kind, base, frames, n) /\ iter[1..n] = run[n]
<1> DEFINE run == [k \in 0..n |-> iter[1..k]]
<1>1. run[0] = base
  <2>1. 1..0 = {}
    OBVIOUS
  <2> QED BY <2>1 DEF IsIteration
<1>2. ASSUME NEW k \in 1..n PROVE run[k] = Turn(kind, run[k - 1], frames[k])
  <2>1. Max(1..k) = k /\ (1..k) \ {k} = 1..(k - 1) /\ 1..k # {} /\ 1..k \in SUBSET (1..n)
    <3>1. k \in Nat \ {0} /\ 1..k \in SUBSET (1..n)
      OBVIOUS
    <3> QED BY <3>1, LastOfPrefix
  <2>2. iter[1..k] = Turn(kind, iter[1..(k - 1)], frames[k])
    BY <2>1 DEF IsIteration
  <2> QED BY <2>2
<1>3. run[n] = iter[1..n]
  OBVIOUS
<1> HIDE DEF run
<1> QED BY <1>1, <1>2, <1>3 DEF IsRunOf

\* What frames do to a stream while packets arrive, frame by frame.
LEMMA ReceivedRuns ==
  ASSUME NEW base, NEW n \in Nat, NEW frames, DOMAIN frames = 1..n
  PROVE  \E run : IsRunOf(run, "receive", base, frames, n) /\ ReceiveFrames(base, frames) = run[n]
<1> DEFINE Folds(iter) == iter = [s \in SUBSET DOMAIN frames |->
                                    IF s = {} THEN base
                                    ELSE ConsumeFrame(RecordSuccess(iter[s \ {Max(s)}]), frames[Max(s)])]
           fold == CHOOSE iter : Folds(iter)
<1>1. ReceiveFrames(base, frames) = fold[DOMAIN frames]
  BY Zenon DEF ReceiveFrames, FoldLeft, MapThenFoldSet
<1>2. \A iter : Folds(iter) <=> IsIteration(iter, "receive", base, frames, n)
  BY DEF IsIteration, Turn
<1> HIDE DEF Folds
<1>3. Folds(fold)
  BY <1>2, IterationExists
<1> HIDE DEF fold
<1> QED BY <1>1, <1>2, <1>3, IterationRuns

\* What frames do to a stream while it drains, frame by frame.
LEMMA DrainedRuns ==
  ASSUME NEW base, NEW n \in Nat, NEW frames, DOMAIN frames = 1..n
  PROVE  \E run : IsRunOf(run, "drain", base, frames, n) /\ FoldLeft(ConsumeFrame, base, frames) = run[n]
<1> DEFINE Folds(iter) == iter = [s \in SUBSET DOMAIN frames |->
                                    IF s = {} THEN base
                                    ELSE ConsumeFrame(iter[s \ {Max(s)}], frames[Max(s)])]
           fold == CHOOSE iter : Folds(iter)
<1>1. FoldLeft(ConsumeFrame, base, frames) = fold[DOMAIN frames]
  BY Zenon DEF FoldLeft, MapThenFoldSet
<1>2. \A iter : Folds(iter) <=> IsIteration(iter, "drain", base, frames, n)
  BY DEF IsIteration, Turn
<1> HIDE DEF Folds
<1>3. Folds(fold)
  BY <1>2, IterationExists
<1> HIDE DEF fold
<1> QED BY <1>1, <1>2, <1>3, IterationRuns

\* What is heard, frame by frame.
LEMMA HeardRuns ==
  ASSUME NEW base, NEW n \in Nat, NEW frames, DOMAIN frames = 1..n
  PROVE  \E run : IsRunOf(run, "hear", base, frames, n) /\ FoldLeft(Hear, base, frames) = run[n]
<1> DEFINE Folds(iter) == iter = [s \in SUBSET DOMAIN frames |->
                                    IF s = {} THEN base ELSE Hear(iter[s \ {Max(s)}], frames[Max(s)])]
           fold == CHOOSE iter : Folds(iter)
<1>1. FoldLeft(Hear, base, frames) = fold[DOMAIN frames]
  BY Zenon DEF FoldLeft, MapThenFoldSet
<1>2. \A iter : Folds(iter) <=> IsIteration(iter, "hear", base, frames, n)
  BY DEF IsIteration, Turn
<1> HIDE DEF Folds
<1>3. Folds(fold)
  BY <1>2, IterationExists
<1> HIDE DEF fold
<1> QED BY <1>1, <1>2, <1>3, IterationRuns

-------------------------------------------------------------------------------
(* Sequences of sequences.                                                 *)
IsFlattening(f, seqs, n) ==
  f = [i \in 1..n |-> IF i = 1 THEN seqs[i] ELSE f[i - 1] \o seqs[i]]

\* Flattening is a recursive function of how many sequences are joined.
LEMMA FlatteningExists ==
  ASSUME NEW seqs, NEW n \in Nat
  PROVE  \E f : IsFlattening(f, seqs, n)
<1> DEFINE Reaches(k) == \E f : IsFlattening(f, seqs, k)
           Good == {k \in Nat : Reaches(k)}
<1>1. Reaches(0)
  <2> DEFINE f == [i \in 1..0 |-> seqs[i]]
  <2>1. \A i \in 1..0 : FALSE
    OBVIOUS
  <2>2. f = [i \in 1..0 |-> IF i = 1 THEN seqs[i] ELSE f[i - 1] \o seqs[i]]
    BY <2>1
  <2>3. IsFlattening(f, seqs, 0)
    BY <2>2 DEF IsFlattening
  <2> QED BY <2>3
<1>2. ASSUME NEW k \in Nat, Reaches(k) PROVE Reaches(k + 1)
  <2>1. PICK g : IsFlattening(g, seqs, k)
    BY <1>2
  <2> DEFINE h == [i \in 1..(k + 1) |-> IF i <= k THEN g[i] ELSE IF i = 1 THEN seqs[i] ELSE g[i - 1] \o seqs[i]]
  <2>2. ASSUME NEW i \in 1..(k + 1) PROVE h[i] = IF i = 1 THEN seqs[i] ELSE h[i - 1] \o seqs[i]
    <3>1. i # 1 => i - 1 \in 1..k /\ h[i - 1] = g[i - 1]
      OBVIOUS
    <3>2. ASSUME i <= k PROVE g[i] = IF i = 1 THEN seqs[i] ELSE g[i - 1] \o seqs[i]
      <4>1. i \in 1..k
        BY <3>2
      <4> QED BY <2>1, <4>1, Zenon DEF IsFlattening
    <3> QED BY <3>1, <3>2
  <2>3. h = [i \in 1..(k + 1) |-> h[i]]
    OBVIOUS
  <2> HIDE DEF h
  <2>4. IsFlattening(h, seqs, k + 1)
    BY <2>2, <2>3 DEF IsFlattening
  <2> QED BY <2>4
<1> HIDE DEF Reaches
<1>3. 0 \in Good /\ \A k \in Nat : k \in Good => k + 1 \in Good
  BY <1>1, <1>2
<1> HIDE DEF Good
<1>4. n \in Good
  BY <1>3, SetInduction
<1> QED BY <1>4 DEF Good, Reaches

\* Two sequences begin with the same n sequences over S.
BeginAlike(seqs, others, n, S) == \A i \in 1..n : seqs[i] = others[i] /\ seqs[i] \in Seq(S)

\* It goes by the sequences up to each position, and their elements are its own.
LEMMA FlatteningGoesBy ==
  ASSUME NEW S, NEW m \in Nat, NEW n \in Nat, NEW f, NEW g, NEW seqs, NEW others,
         IsFlattening(f, seqs, m), IsFlattening(g, others, n),
         m <= n, BeginAlike(seqs, others, m, S)
  PROVE  \A i \in 1..m : f[i] = g[i] /\ f[i] \in Seq(S)
<1> DEFINE Good == {k \in Nat : k + 1 <= m => f[k + 1] = g[k + 1] /\ f[k + 1] \in Seq(S)}
<1>0. \A i \in 1..m : seqs[i] = others[i] /\ seqs[i] \in Seq(S)
  BY DEF BeginAlike
<1>1. 0 \in Good
  BY <1>0 DEF IsFlattening
<1>2. ASSUME NEW k \in Nat, k \in Good PROVE k + 1 \in Good
  <2> SUFFICES ASSUME (k + 1) + 1 <= m
               PROVE  f[(k + 1) + 1] = g[(k + 1) + 1] /\ f[(k + 1) + 1] \in Seq(S)
    OBVIOUS
  <2> DEFINE i == (k + 1) + 1
  <2>1. i \in 1..m /\ i \in 1..n /\ i # 1 /\ i - 1 = k + 1 /\ k + 1 <= m
    OBVIOUS
  <2>2. f[k + 1] = g[k + 1] /\ f[k + 1] \in Seq(S)
    BY <1>2, <2>1
  <2> HIDE DEF i
  <2>3. f[i] = f[i - 1] \o seqs[i] /\ g[i] = g[i - 1] \o others[i]
    BY <2>1 DEF IsFlattening
  <2>4. f[k + 1] \o seqs[i] \in Seq(S)
    BY <1>0, <2>1, <2>2, ConcatProperties
  <2>5. f[i] = g[i] /\ f[i] \in Seq(S)
    BY <1>0, <2>1, <2>2, <2>3, <2>4
  <2> QED BY <2>5 DEF i
<1>3. Nat \subseteq Good
  <2> HIDE DEF Good
  <2> QED BY <1>1, <1>2, SetInduction
<1> SUFFICES ASSUME NEW i \in 1..m PROVE f[i] = g[i] /\ f[i] \in Seq(S)
  OBVIOUS
<1>4. i - 1 \in Nat /\ (i - 1) + 1 = i /\ i <= m
  OBVIOUS
<1> QED BY <1>3, <1>4

\* `FlattenSeq` is that function at the length of its argument.
LEMMA FlatIs ==
  ASSUME NEW S, NEW seqs \in Seq(Seq(S)), seqs # <<>>
  PROVE  \E f : IsFlattening(f, seqs, Len(seqs)) /\ FlattenSeq(seqs) = f[Len(seqs)]
<1> DEFINE Flattens(f) == f = [i \in 1..Len(seqs) |-> IF i = 1 THEN seqs[i] ELSE f[i - 1] \o seqs[i]]
           flat == CHOOSE f : Flattens(f)
<1>1. Len(seqs) \in Nat /\ Len(seqs) # 0
  OBVIOUS
<1>2. FlattenSeq(seqs) = flat[Len(seqs)]
  BY <1>1, Zenon DEF FlattenSeq
<1>3. \A f : Flattens(f) <=> IsFlattening(f, seqs, Len(seqs))
  BY DEF IsFlattening
<1> HIDE DEF Flattens
<1>4. Flattens(flat)
  BY <1>1, <1>3, FlatteningExists
<1> HIDE DEF flat
<1> QED BY <1>2, <1>3, <1>4

\* Nothing flattened is nothing.
LEMMA FlatOfNone == FlattenSeq(<<>>) = <<>>
<1>1. Len(<<>>) = 0
  OBVIOUS
<1> QED BY <1>1, Zenon DEF FlattenSeq

\* Sequences of a kind flattened are a sequence of that kind.
LEMMA FlatIsSeq ==
  ASSUME NEW S, NEW seqs \in Seq(Seq(S))
  PROVE  FlattenSeq(seqs) \in Seq(S)
<1>1. CASE seqs = <<>>
  <2>1. <<>> \in Seq(S)
    OBVIOUS
  <2> QED BY <1>1, <2>1, FlatOfNone
<1>2. CASE seqs # <<>>
  <2>1. PICK f : IsFlattening(f, seqs, Len(seqs)) /\ FlattenSeq(seqs) = f[Len(seqs)]
    BY <1>2, FlatIs
  <2>2. Len(seqs) \in Nat /\ Len(seqs) <= Len(seqs) /\ Len(seqs) \in 1..Len(seqs)
        /\ BeginAlike(seqs, seqs, Len(seqs), S)
    BY <1>2 DEF BeginAlike
  <2>3. f[Len(seqs)] \in Seq(S)
    BY <2>1, <2>2, FlatteningGoesBy
  <2> QED BY <2>1, <2>3
<1> QED BY <1>1, <1>2

\* One more sequence is added at the end.
LEMMA FlatOfAppend ==
  ASSUME NEW S, NEW seqs \in Seq(Seq(S)), NEW seq \in Seq(S)
  PROVE  FlattenSeq(Append(seqs, seq)) = FlattenSeq(seqs) \o seq
<1> DEFINE more == Append(seqs, seq)
           n == Len(seqs)
<1>1. more \in Seq(Seq(S)) /\ more # <<>> /\ Len(more) = n + 1 /\ n \in Nat /\ more[n + 1] = seq
      /\ \A i \in 1..n : more[i] = seqs[i] /\ seqs[i] \in Seq(S)
  BY AppendProperties, ElementOfSeq
<1> HIDE DEF more
<1>2. PICK g : IsFlattening(g, more, n + 1) /\ FlattenSeq(more) = g[n + 1]
  BY <1>1, FlatIs
<1>3. CASE seqs = <<>>
  <2>1. n = 0 /\ g[1] = more[1]
    BY <1>2, <1>3 DEF IsFlattening
  <2>2. <<>> \o seq = seq
    OBVIOUS
  <2> QED BY <1>1, <1>2, <1>3, <2>1, <2>2, FlatOfNone DEF more
<1>4. CASE seqs # <<>>
  <2>1. PICK f : IsFlattening(f, seqs, n) /\ FlattenSeq(seqs) = f[n]
    BY <1>4, FlatIs
  <2>2. n \in 1..n /\ n <= n + 1 /\ n + 1 \in Nat
    BY <1>1, <1>4
  <2>3. f[n] = g[n]
    <3> HIDE DEF n
    <3>1. \A i \in 1..n : f[i] = g[i] /\ f[i] \in Seq(S)
      <4>1. n \in Nat /\ n + 1 \in Nat /\ n <= n + 1
        BY <1>1, <2>2
      <4>2. BeginAlike(seqs, more, n, S)
        BY <1>1 DEF BeginAlike
      <4> QED BY <1>2, <2>1, <4>1, <4>2, FlatteningGoesBy
    <3> QED BY <2>2, <3>1
  <2>4. g[n + 1] = g[n] \o seq
    <3>1. n + 1 \in 1..(n + 1) /\ n + 1 # 1 /\ (n + 1) - 1 = n
      BY <2>2
    <3> HIDE DEF n
    <3> QED BY <1>1, <1>2, <3>1 DEF IsFlattening
  <2> QED BY <1>2, <2>1, <2>3, <2>4 DEF more
<1> QED BY <1>3, <1>4

\* Flattening respects concatenation.
LEMMA FlatOfConcat ==
  ASSUME NEW S, NEW seqs \in Seq(Seq(S)), NEW others \in Seq(Seq(S))
  PROVE  FlattenSeq(seqs \o others) = FlattenSeq(seqs) \o FlattenSeq(others)
<1> DEFINE Splits(k) == k <= Len(others) =>
             FlattenSeq(seqs \o SubSeq(others, 1, k)) = FlattenSeq(seqs) \o FlattenSeq(SubSeq(others, 1, k))
           Good == {k \in Nat : Splits(k)}
<1>1. Splits(0)
  <2>1. SubSeq(others, 1, 0) = <<>> /\ seqs \o <<>> = seqs
    OBVIOUS
  <2>2. FlattenSeq(seqs) \o <<>> = FlattenSeq(seqs)
    BY FlatIsSeq
  <2> QED BY <2>1, <2>2, FlatOfNone
<1>2. ASSUME NEW k \in Nat, Splits(k) PROVE Splits(k + 1)
  <2> SUFFICES ASSUME k + 1 <= Len(others)
               PROVE  FlattenSeq(seqs \o SubSeq(others, 1, k + 1))
                        = FlattenSeq(seqs) \o FlattenSeq(SubSeq(others, 1, k + 1))
    OBVIOUS
  <2> DEFINE init == SubSeq(others, 1, k)
             next == others[k + 1]
  <2>1. init \in Seq(Seq(S)) /\ next \in Seq(S)
    OBVIOUS
  <2>2. SubSeq(others, 1, k + 1) = Append(init, next)
    OBVIOUS
  <2>3. FlattenSeq(seqs \o init) = FlattenSeq(seqs) \o FlattenSeq(init)
    BY <1>2
  <2> HIDE DEF init, next
  <2>4. seqs \o Append(init, next) = Append(seqs \o init, next) /\ seqs \o init \in Seq(Seq(S))
    BY <2>1
  <2>5. FlattenSeq(Append(init, next)) = FlattenSeq(init) \o next
        /\ FlattenSeq(Append(seqs \o init, next)) = FlattenSeq(seqs \o init) \o next
    BY <2>1, <2>4, FlatOfAppend
  <2>6. (FlattenSeq(seqs) \o FlattenSeq(init)) \o next = FlattenSeq(seqs) \o (FlattenSeq(init) \o next)
    <3>1. FlattenSeq(seqs) \in Seq(S) /\ FlattenSeq(init) \in Seq(S)
      BY <2>1, FlatIsSeq
    <3> DEFINE p == FlattenSeq(seqs)
               q == FlattenSeq(init)
    <3>2. p \in Seq(S) /\ q \in Seq(S) /\ next \in Seq(S)
      BY <2>1, <3>1
    <3> HIDE DEF p, q
    <3>3. (p \o q) \o next = p \o (q \o next)
      BY <3>2, ConcatAssociative
    <3> QED BY <3>3 DEF p, q
  <2> QED BY <2>2, <2>3, <2>4, <2>5, <2>6
<1>3. Splits(Len(others))
  <2> HIDE DEF Splits
  <2>1. 0 \in Good /\ \A k \in Nat : k \in Good => k + 1 \in Good
    BY <1>1, <1>2
  <2> HIDE DEF Good
  <2>2. Len(others) \in Nat
    OBVIOUS
  <2>3. Len(others) \in Good
    BY <2>1, <2>2, SetInduction
  <2> QED BY <2>3 DEF Good
<1>4. SubSeq(others, 1, Len(others)) = others /\ Len(others) <= Len(others)
  OBVIOUS
<1> QED BY <1>3, <1>4

\* The full blocks of some bytes are those bytes, but for what does not fill one.
LEMMA BlocksAreBytes ==
  ASSUME NEW S, NEW bytes \in Seq(S), NEW size \in Nat \ {0}
  PROVE  LET full == Blocks(bytes, size)
         IN  /\ full \in Seq(Seq(S))
             /\ \A k \in DOMAIN full : Len(full[k]) = size
             /\ Len(full) * size \in Nat /\ Len(full) * size <= Len(bytes)
             /\ Len(bytes) < Len(full) * size + size
             /\ FlattenSeq(full) = SubSeq(bytes, 1, Len(full) * size)
<1> DEFINE L == Len(bytes)
           n == L \div size
           full == Blocks(bytes, size)
<1>1. L \in Nat /\ n \in Nat /\ n * size \in Nat /\ n * size <= L /\ L < n * size + size
  <2>1. L \in Nat
    OBVIOUS
  <2> HIDE DEF L
  <2> QED BY <2>1, Z3
<1>2. full = [k \in 1..n |-> SubSeq(bytes, (k - 1) * size + 1, k * size)]
  BY DEF Blocks
<1> HIDE DEF n, full
<1>3. ASSUME NEW k \in 1..n
      PROVE  /\ (k - 1) * size \in Nat /\ k * size = (k - 1) * size + size /\ k * size <= L
  <2>1. k * size <= n * size
    BY <1>1, Z3
  <2>2. (k - 1) * size \in Nat /\ k * size = (k - 1) * size + size /\ k * size \in Nat
    BY <1>1, Z3
  <2> QED BY <1>1, <2>1, <2>2
<1>4. ASSUME NEW k \in 1..n
      PROVE  /\ SubSeq(bytes, (k - 1) * size + 1, k * size) \in Seq(S)
             /\ Len(SubSeq(bytes, (k - 1) * size + 1, k * size)) = size
  <2> DEFINE a == (k - 1) * size
  <2>1. a \in Nat /\ k * size = a + size /\ a + size <= Len(bytes)
    BY <1>3
  <2> HIDE DEF a
  <2>2. SubSeq(bytes, a + 1, a + size) \in Seq(S) /\ Len(SubSeq(bytes, a + 1, a + size)) = size
    BY <2>1
  <2> QED BY <2>1, <2>2 DEF a
<1>5. full \in Seq(Seq(S)) /\ Len(full) = n
  <2>1. full \in [1..n -> Seq(S)]
    BY <1>2, <1>4
  <2>2. n \in Nat
    BY <1>1
  <2> QED BY <2>1, <2>2
<1> DEFINE Fills(k) == k <= n => FlattenSeq(SubSeq(full, 1, k)) = SubSeq(bytes, 1, k * size)
           Good == {k \in Nat : Fills(k)}
<1>6. Fills(0)
  <2>1. SubSeq(full, 1, 0) = <<>> /\ 0 * size = 0 /\ SubSeq(bytes, 1, 0) = <<>>
    BY <1>5
  <2> QED BY <2>1, FlatOfNone
<1>7. ASSUME NEW k \in Nat, Fills(k) PROVE Fills(k + 1)
  <2> SUFFICES ASSUME k + 1 <= n PROVE FlattenSeq(SubSeq(full, 1, k + 1)) = SubSeq(bytes, 1, (k + 1) * size)
    OBVIOUS
  <2>1. k + 1 \in 1..n /\ (k + 1) - 1 = k
    BY <1>1
  <2> DEFINE a == k * size
             init == SubSeq(full, 1, k)
             block == SubSeq(bytes, a + 1, a + size)
  <2>2. a \in Nat /\ (k + 1) * size = a + size /\ a + size <= L
    BY <1>3, <2>1
  <2>3. full[k + 1] = block
    BY <1>2, <2>1, <2>2
  <2>4. init \in Seq(Seq(S)) /\ SubSeq(full, 1, k + 1) = Append(init, full[k + 1])
    BY <1>1, <1>5, <2>1
  <2>5. FlattenSeq(init) = SubSeq(bytes, 1, a)
    BY <1>1, <1>7, <2>1
  <2> HIDE DEF a, init
  <2>6. block \in Seq(S)
    BY <2>2
  <2>7. FlattenSeq(Append(init, block)) = FlattenSeq(init) \o block
    BY <2>4, <2>6, FlatOfAppend
  <2>8. SubSeq(bytes, 1, a) \o block = SubSeq(bytes, 1, a + size)
    BY <2>2, ConcatAdjacentSubSeq
  <2> QED BY <2>2, <2>3, <2>4, <2>5, <2>7, <2>8
<1>8. Fills(n)
  <2> HIDE DEF Fills
  <2>1. 0 \in Good /\ \A k \in Nat : k \in Good => k + 1 \in Good
    BY <1>6, <1>7
  <2> HIDE DEF Good
  <2>2. n \in Good
    BY <1>1, <2>1, SetInduction
  <2> QED BY <2>2 DEF Good
<1>9. SubSeq(full, 1, n) = full
  BY <1>5
<1>10. FlattenSeq(full) = SubSeq(bytes, 1, n * size)
  <2>1. n <= n
    BY <1>1
  <2> QED BY <1>8, <1>9, <2>1
<1>11. \A k \in DOMAIN full : Len(full[k]) = size
  BY <1>2, <1>4
<1> QED BY <1>1, <1>5, <1>10, <1>11 DEF full

-------------------------------------------------------------------------------
(* One frame.                                                              *)
Fields == {"tried", "attempted", "name", "fallback", "declared_rate", "consecutive", "exhausted", "errors",
           "truncation", "level_stop", "config", "total_samples", "pending", "blocks", "metered", "detector"}
Has(s) == Fields \subseteq DOMAIN s

\* From s to t only these fields may change.
Changes(s, t, fields) == Has(t) /\ \A f \in Fields \ fields : t[f] = s[f]

\* What no frame changes.
Lasting == {"tried", "attempted", "name", "fallback", "declared_rate", "consecutive", "exhausted", "errors"}

\* A latched truncation sets its reason and stops the levels, and nothing else.
LEMMA LatchEffects ==
  ASSUME NEW s, Has(s), NEW reason, reason # NoReason
  PROVE  LET t == LatchDecodeTruncation(s, reason)
         IN  Changes(s, t, {"truncation", "level_stop"}) /\ t.truncation # NoReason /\ t.level_stop # NoReason
BY DEF Has, Fields, Changes, LatchDecodeTruncation

Hashed(s, t, samples) ==
  LET bytes == s.pending \o samples
      full == Blocks(bytes, s.config.block_samples)
  IN  /\ Changes(s, t, {"blocks", "pending"})
      /\ IF HashEnabled(s)
           THEN /\ t.blocks = s.blocks \o full
                /\ t.pending = SubSeq(bytes, Len(full) * s.config.block_samples + 1, Len(bytes))
           ELSE t.blocks = s.blocks /\ t.pending = s.pending

\* The digest, if there is one, takes all samples: full blocks are hashed, the rest waits.
LEMMA HashEffects ==
  ASSUME NEW s, Has(s), NEW samples
  PROVE  Hashed(s, HashSamples(s, samples), samples)
BY DEF Hashed, Has, Fields, Changes, HashSamples

Scanned(s, t, samples) ==
  /\ Changes(s, t, {"level_stop"})
  /\ s.level_stop # NoReason => t.level_stop # NoReason
  /\ t.level_stop = NoReason /\ Float(s.config.format) => \A k \in DOMAIN samples : ~Hostile(samples[k])

\* Float samples that no meter takes latch the stop of the levels, and nothing else does here.
LEMMA ScanEffects ==
  ASSUME NEW s, Has(s), NEW samples
  PROVE  Scanned(s, ScanSamples(s, samples), samples)
BY DEF Scanned, Has, Fields, Changes, ScanSamples, LatchLevelStop, NoReason

Measured(s, t, samples) ==
  /\ Changes(s, t, {"metered", "detector"})
  /\ IF s.level_stop = NoReason /\ CanMeter(s.config)
       THEN t.metered = s.metered \o samples
       ELSE t.metered = s.metered /\ t.detector = s.detector

\* The meter takes all samples of a format it can take, until the levels have stopped.
LEMMA MeasureEffects ==
  ASSUME NEW s, Has(s), NEW samples
  PROVE  Measured(s, MeasureSamples(s, samples), samples)
<1> DEFINE d == FoldLeft(LAMBDA d, x : ObserveSilenceSample(d, Peak(s.config.format, x), s.config.lengths),
                         s.detector, samples)
           t == MeasureSamples(s, samples)
<1>1. t = IF s.level_stop # NoReason \/ ~CanMeter(s.config)
            THEN s ELSE [s EXCEPT !.metered = @ \o samples, !.detector = d]
  BY Zenon DEF MeasureSamples
<1> HIDE DEF d, t
<1>2. Measured(s, t, samples)
  BY <1>1 DEF Measured, Has, Fields, Changes
<1> QED BY <1>2 DEF t

\* A frame that fits the shape of the stream goes to all the sinks that are still open.
Sunk(s, t, samples) ==
  /\ Changes(s, t, {"total_samples", "blocks", "pending", "level_stop", "metered", "detector"})
  /\ t.total_samples = s.total_samples + Len(samples)
  /\ LET bytes == s.pending \o samples
         full == Blocks(bytes, s.config.block_samples)
     IN  IF HashEnabled(s)
           THEN /\ t.blocks = s.blocks \o full
                /\ t.pending = SubSeq(bytes, Len(full) * s.config.block_samples + 1, Len(bytes))
           ELSE t.blocks = s.blocks /\ t.pending = s.pending
  /\ s.level_stop # NoReason => t.level_stop # NoReason
  /\ IF t.level_stop = NoReason /\ CanMeter(s.config)
       THEN /\ t.metered = s.metered \o samples
            /\ Float(s.config.format) => \A k \in DOMAIN samples : ~Hostile(samples[k])
       ELSE t.metered = s.metered /\ t.detector = s.detector

\* A frame that passed the checks goes to all three sinks.
LEMMA SinkEffects ==
  ASSUME NEW s, Has(s), NEW samples
  PROVE  Sunk(s, Sink(s, samples), samples)
<1> DEFINE a == [s EXCEPT !.total_samples = @ + Len(samples)]
           b == HashSamples(a, samples)
           c == ScanSamples(b, samples)
           t == MeasureSamples(c, samples)
<1>1. Changes(s, a, {"total_samples"}) /\ a.total_samples = s.total_samples + Len(samples)
  BY DEF Has, Fields, Changes
<1>2. Sink(s, samples) = t
  BY DEF Sink
<1> HIDE DEF a
<1>3. Hashed(a, b, samples)
  BY <1>1, HashEffects DEF Changes
<1> HIDE DEF b
<1>4. Scanned(b, c, samples)
  BY <1>3, ScanEffects DEF Changes, Hashed
<1> HIDE DEF c
<1>5. Measured(c, t, samples)
  BY <1>4, MeasureEffects DEF Changes, Scanned
<1> HIDE DEF t
<1>6. a.pending = s.pending /\ a.blocks = s.blocks /\ a.config = s.config /\ a.name = s.name
      /\ a.level_stop = s.level_stop /\ a.metered = s.metered /\ a.detector = s.detector
  BY <1>1 DEF Changes, Fields
<1>7. b.config = s.config /\ b.level_stop = s.level_stop /\ b.metered = s.metered /\ b.detector = s.detector
      /\ b.total_samples = a.total_samples
  BY <1>3, <1>6 DEF Hashed, Changes, Fields
<1>8. c.config = s.config /\ c.blocks = b.blocks /\ c.pending = b.pending /\ c.metered = s.metered
      /\ c.detector = s.detector /\ c.total_samples = a.total_samples
  BY <1>4, <1>7 DEF Scanned, Changes, Fields
<1>9. t.config = s.config /\ t.blocks = b.blocks /\ t.pending = b.pending /\ t.level_stop = c.level_stop
      /\ t.total_samples = a.total_samples
  BY <1>5, <1>8 DEF Measured, Changes, Fields
<1>10. Changes(s, t, {"total_samples", "blocks", "pending", "level_stop", "metered", "detector"})
  BY <1>1, <1>3, <1>4, <1>5 DEF Hashed, Scanned, Measured, Changes, Fields
<1>11. IF HashEnabled(s)
         THEN /\ b.blocks = s.blocks \o Blocks(s.pending \o samples, s.config.block_samples)
              /\ b.pending = SubSeq(s.pending \o samples,
                                    Len(Blocks(s.pending \o samples, s.config.block_samples))
                                      * s.config.block_samples + 1,
                                    Len(s.pending \o samples))
         ELSE b.blocks = s.blocks /\ b.pending = s.pending
  BY <1>3, <1>6 DEF Hashed, HashEnabled
<1>12. s.level_stop # NoReason => t.level_stop # NoReason
  BY <1>4, <1>7, <1>9 DEF Scanned
<1>13. IF t.level_stop = NoReason /\ CanMeter(s.config)
         THEN /\ t.metered = s.metered \o samples
              /\ Float(s.config.format) => \A k \in DOMAIN samples : ~Hostile(samples[k])
         ELSE t.metered = s.metered /\ t.detector = s.detector
  BY <1>4, <1>5, <1>7, <1>8, <1>9 DEF Scanned, Measured
<1> QED BY <1>1, <1>2, <1>9, <1>10, <1>11, <1>12, <1>13 DEF Sunk

-------------------------------------------------------------------------------
(* What the state holds of the frames that were heard.                     *)
Sounds(w) == UNION {Range(frame.samples) : frame \in w.frames}

Fits(s, frame) ==
  /\ frame.channels = s.config.channels /\ PackedFormat(frame.format) = s.config.format
  /\ RateOf(s, frame) = s.config.rate /\ frame.layout = s.config.layout

\* The blocks and the bytes that wait are the samples of the first k frames.
HashHolds(s, list, k, w) ==
  /\ \A i \in 1..k : Fits(s, list[i])
  /\ s.blocks \in Seq(Seq(Sounds(w))) /\ s.pending \in Seq(Sounds(w))
  /\ HashEnabled(s) => FlattenSeq(s.blocks) \o s.pending = SamplesOf(SubSeq(list, 1, k))
  /\ s.config # None =>
       /\ s.config.block_samples \in Nat \ {0}
       /\ \A b \in DOMAIN s.blocks : Len(s.blocks[b]) = s.config.block_samples
       /\ Len(s.pending) < s.config.block_samples

\* The meter was given every sample, while nothing has stopped it.
LevelsHold(s, list, w) ==
  /\ s.metered \in Seq(Sounds(w))
  /\ s.config # None =>
       /\ s.level_stop = NoReason /\ CanMeter(s.config) => s.metered = SamplesOf(list)
       /\ ~CanMeter(s.config) => s.detector = NothingObserved
       /\ Float(s.config.format) => \A k \in DOMAIN s.metered : ~Hostile(s.metered[k])

Untouched(s) ==
  s.total_samples = 0 /\ s.blocks = <<>> /\ s.pending = <<>> /\ s.metered = <<>> /\ s.detector = NothingObserved

Carries(s, list, w) ==
  /\ Has(s) /\ list \in Seq(w.frames)
  /\ s.declared_rate = w.codecpar.rate
  /\ s.truncation # NoReason => s.level_stop # NoReason
  /\ s.config = None => Untouched(s) /\ (s.truncation = NoReason => list = <<>>)
  /\ \E k \in 0..Len(list) : (s.truncation = NoReason => k = Len(list)) /\ HashHolds(s, list, k, w)
  /\ LevelsHold(s, list, w)

\* A frame's samples are sounds of its world.
LEMMA SamplesAreSounds ==
  ASSUME NEW w \in Worlds, NEW frame \in w.frames
  PROVE  frame.samples \in Seq(Sounds(w))
<1>1. frame.samples \in Seq(Range(frame.samples)) /\ Range(frame.samples) \subseteq Sounds(w)
  BY SweepAssumption DEF Sounds
<1> QED BY <1>1, SeqMonotonic

\* So are those of each frame that was heard.
LEMMA SamplesOfHeard ==
  ASSUME NEW w \in Worlds, NEW list \in Seq(w.frames)
  PROVE  [k \in DOMAIN list |-> list[k].samples] \in Seq(Seq(Sounds(w)))
<1> DEFINE n == Len(list)
<1>1. n \in Nat /\ DOMAIN list = 1..n /\ \A k \in 1..n : list[k] \in w.frames
  BY LenProperties, ElementOfSeq
<1> HIDE DEF n
<1>2. \A k \in 1..n : list[k].samples \in Seq(Sounds(w))
  BY <1>1, SamplesAreSounds
<1>3. [k \in 1..n |-> list[k].samples] \in [1..n -> Seq(Sounds(w))]
  BY <1>2
<1> QED BY <1>1, <1>3

\* The samples heard are one sequence of sounds.
LEMMA SamplesOfType ==
  ASSUME NEW w \in Worlds, NEW list \in Seq(w.frames)
  PROVE  SamplesOf(list) \in Seq(Sounds(w))
BY SamplesOfHeard, FlatIsSeq DEF SamplesOf

\* Before the first frame there are none.
LEMMA SamplesOfNone == SamplesOf(<<>>) = <<>>
<1>1. [k \in DOMAIN <<>> |-> <<>>[k].samples] = <<>>
  OBVIOUS
<1> QED BY <1>1, FlatOfNone DEF SamplesOf

\* One more frame adds its samples at the end.
LEMMA SamplesOfMore ==
  ASSUME NEW w \in Worlds, NEW list \in Seq(w.frames), NEW frame \in w.frames
  PROVE  SamplesOf(Append(list, frame)) = SamplesOf(list) \o frame.samples
<1> DEFINE parts == [k \in DOMAIN list |-> list[k].samples]
           more == Append(list, frame)
<1>1. parts \in Seq(Seq(Sounds(w))) /\ frame.samples \in Seq(Sounds(w))
  BY SamplesOfHeard, SamplesAreSounds
<1>2. [k \in DOMAIN more |-> more[k].samples] = Append(parts, frame.samples)
  <2> DEFINE n == Len(list)
  <2>1. n \in Nat /\ DOMAIN list = 1..n /\ DOMAIN more = 1..(n + 1) /\ more[n + 1] = frame
        /\ \A k \in 1..n : more[k] = list[k]
    BY LenProperties, AppendProperties
  <2>2. Len(parts) = n /\ DOMAIN parts = 1..n /\ \A k \in 1..n : parts[k] = list[k].samples
    BY <1>1, <2>1
  <2>3. DOMAIN Append(parts, frame.samples) = 1..(n + 1)
        /\ Append(parts, frame.samples)[n + 1] = frame.samples
        /\ (\A k \in 1..n : Append(parts, frame.samples)[k] = parts[k])
        /\ Append(parts, frame.samples) \in [1..(n + 1) -> Seq(Sounds(w))]
    <3> HIDE DEF parts, n
    <3>1. Append(parts, frame.samples) \in Seq(Seq(Sounds(w))) /\ Len(Append(parts, frame.samples)) = n + 1
          /\ Append(parts, frame.samples)[n + 1] = frame.samples
          /\ (\A k \in 1..n : Append(parts, frame.samples)[k] = parts[k])
      BY <1>1, <2>2, AppendProperties
    <3> QED BY <3>1, LenProperties
  <2> HIDE DEF parts, more, n
  <2>4. \A k \in 1..(n + 1) : k \in 1..n \/ k = n + 1
    BY <2>1
  <2>5. \A k \in 1..(n + 1) : more[k].samples = Append(parts, frame.samples)[k]
    BY <2>1, <2>2, <2>3, <2>4
  <2>6. Append(parts, frame.samples) = [k \in 1..(n + 1) |-> Append(parts, frame.samples)[k]]
    BY <2>3
  <2> QED BY <2>1, <2>5, <2>6
<1> HIDE DEF parts
<1>3. FlattenSeq(Append(parts, frame.samples)) = FlattenSeq(parts) \o frame.samples
  BY <1>1, FlatOfAppend
<1> QED BY <1>2, <1>3 DEF SamplesOf, parts

\* One more frame changes none of the first k.
LEMMA HeardBefore ==
  ASSUME NEW F, NEW list \in Seq(F), NEW frame \in F, NEW k \in 0..Len(list)
  PROVE  /\ Append(list, frame) \in Seq(F) /\ k \in 0..Len(Append(list, frame))
         /\ Len(Append(list, frame)) = Len(list) + 1
         /\ SubSeq(Append(list, frame), 1, k) = SubSeq(list, 1, k)
         /\ \A i \in 1..k : Append(list, frame)[i] = list[i]
OBVIOUS

\* What is left of the bytes after their full blocks is less than a block.
LEMMA RestOfBytes ==
  ASSUME NEW S, NEW bytes \in Seq(S), NEW size \in Nat \ {0}
  PROVE  LET full == Blocks(bytes, size)
             rest == SubSeq(bytes, Len(full) * size + 1, Len(bytes))
         IN  /\ rest \in Seq(S) /\ Len(rest) < size
             /\ FlattenSeq(full) \o rest = bytes
<1> DEFINE full == Blocks(bytes, size)
           a == Len(full) * size
           rest == SubSeq(bytes, a + 1, Len(bytes))
<1>1. a \in Nat /\ a <= Len(bytes) /\ Len(bytes) < a + size /\ FlattenSeq(full) = SubSeq(bytes, 1, a)
  BY BlocksAreBytes
<1> HIDE DEF a, full
<1>2. rest \in Seq(S) /\ Len(rest) < size
  BY <1>1
<1>3. SubSeq(bytes, 1, a) \o rest = bytes
  <2>1. 1 \in 1..(Len(bytes) + 1) /\ a \in (1 - 1)..Len(bytes) /\ Len(bytes) \in a..Len(bytes)
    BY <1>1
  <2>2. SubSeq(bytes, 1, a) \o rest = SubSeq(bytes, 1, Len(bytes))
    BY <2>1, ConcatAdjacentSubSeq
  <2> QED BY <2>2, SubSeqFull
<1> QED BY <1>1, <1>2, <1>3 DEF a, full

\* Concatenation does not mind how sequences over S are grouped.
Associates(S) == \A a, b, c \in Seq(S) : (a \o b) \o c = a \o (b \o c)

\* Concatenation of sequences is associative.
LEMMA ConcatAssociates == ASSUME NEW S PROVE Associates(S)
<1>1. ASSUME NEW a \in Seq(S), NEW b \in Seq(S), NEW c \in Seq(S)
      PROVE  (a \o b) \o c = a \o (b \o c)
  BY ConcatAssociative
<1> QED BY <1>1, Zenon DEF Associates

\* A quotient of no smaller number is not zero.
LEMMA QuotientIsPositive ==
  ASSUME NEW a \in Nat, NEW b \in Nat \ {0}, a >= b
  PROVE  a \div b \in Nat \ {0}
<1> DEFINE n == a \div b
<1>1. n \in Nat /\ n * b \in Nat /\ a < n * b + b
  BY Z3
<1> HIDE DEF n
<1>2. n = 0 => n * b = 0
  BY Z3
<1> QED BY <1>1, <1>2 DEF n

\* The first frame sets the format of the stream, and later ones do not.
LEMMA ConfiguredEffects ==
  ASSUME NEW s, Has(s), NEW frame
  PROVE  LET t == Configured(s, frame)
         IN  /\ Changes(s, t, {"config"})
             /\ t.config = IF s.config # None THEN s.config ELSE ConfigOf(frame, RateOf(s, frame))
BY DEF Has, Fields, Changes, Configured

\* The first frame settles the shape, and the stream has still nothing behind it.
LEMMA ConfiguredCarries ==
  ASSUME NEW w \in Worlds, NEW s, NEW list, Carries(s, list, w), s.truncation = NoReason,
         NEW frame \in w.frames
  PROVE  LET t == Configured(s, frame)
         IN  Carries(t, list, w) /\ Changes(s, t, {"config"}) /\ t.config # None
<1> DEFINE t == Configured(s, frame)
<1>1. Changes(s, t, {"config"}) /\ t.config = IF s.config # None THEN s.config ELSE ConfigOf(frame, RateOf(s, frame))
  BY ConfiguredEffects DEF Carries
<1>2. CASE s.config # None
  <2>1. t = s
    BY <1>2 DEF Configured
  <2> QED BY <1>1, <1>2, <2>1
<1>3. CASE s.config = None
  <2> DEFINE rate == RateOf(s, frame)
  <2>1. rate \in {frame.rate, w.codecpar.rate} /\ rate \in Int
    BY SweepAssumption DEF RateOf, Carries
  <2>2. ConfigOf(frame, rate) # None
    <3>1. \A r \in {frame.rate, w.codecpar.rate} : ConfigOf(frame, r) # None
      BY SweepAssumption
    <3> HIDE DEF rate
    <3> QED BY <2>1, <3>1
  <2>3. ConfigOf(frame, rate).block_samples \in Nat \ {0}
    <3>1. rate < AudioBlockDivisor \/ (rate \in Nat /\ rate >= AudioBlockDivisor)
      BY <2>1, SweepAssumption
    <3> HIDE DEF rate
    <3>2. AudioBlockDivisor \in Nat \ {0}
      BY SweepAssumption
    <3>3. BlockOf(rate) \in Nat \ {0}
      BY <3>1, <3>2, QuotientIsPositive DEF BlockOf
    <3>4. ConfigOf(frame, rate).block_samples = BlockOf(rate)
      BY Zenon DEF ConfigOf
    <3> QED BY <3>3, <3>4
  <2> HIDE DEF rate, t
  <2>4. Untouched(s) /\ list = <<>>
    BY <1>3 DEF Carries
  <2>5. t.config # None /\ t.config.block_samples \in Nat \ {0}
    BY <1>1, <1>3, <2>2, <2>3 DEF rate
  <2>6. Has(t) /\ t.blocks = <<>> /\ t.pending = <<>> /\ t.metered = <<>> /\ t.detector = NothingObserved
        /\ t.truncation = NoReason /\ t.level_stop = s.level_stop /\ t.declared_rate = s.declared_rate
    BY <1>1, <2>4 DEF Changes, Fields, Untouched
  <2>7. HashHolds(t, list, 0, w)
    <3>1. SubSeq(list, 1, 0) = <<>>
      BY SubSeqEmpty
    <3>2. <<>> \in Seq(Sounds(w)) /\ <<>> \in Seq(Seq(Sounds(w))) /\ Len(<<>>) = 0
      BY EmptySeq
    <3>3. <<>> \o <<>> = <<>>
      OBVIOUS
    <3>4. FlattenSeq(t.blocks) \o t.pending = SamplesOf(SubSeq(list, 1, 0))
      BY <2>6, <3>1, <3>3, FlatOfNone, SamplesOfNone
    <3>5. \A i \in 1..0 : FALSE
      OBVIOUS
    <3>6. \A b \in DOMAIN t.blocks : FALSE
      BY <2>6
    <3>7. Len(t.pending) < t.config.block_samples
      BY <2>5, <2>6, <3>2
    <3> QED BY <2>5, <2>6, <3>2, <3>4, <3>5, <3>6, <3>7 DEF HashHolds
  <2>8. LevelsHold(t, list, w)
    <3>1. <<>> \in Seq(Sounds(w)) /\ \A k \in DOMAIN <<>> : FALSE
      OBVIOUS
    <3> QED BY <2>4, <2>6, <3>1, SamplesOfNone DEF LevelsHold
  <2>9. \E k \in 0..Len(list) : (t.truncation = NoReason => k = Len(list)) /\ HashHolds(t, list, k, w)
    <3>1. Len(list) = 0 /\ 0 \in 0..Len(list)
      BY <2>4
    <3> QED BY <2>7, <3>1
  <2> QED BY <1>1, <2>5, <2>6, <2>8, <2>9 DEF Carries, t
<1> QED BY <1>2, <1>3

\* A stream that is given up keeps what it has, whatever it hears yet.
LEMMA TruncatedCarries ==
  ASSUME NEW w \in Worlds, NEW s, NEW list, Carries(s, list, w), s.truncation # NoReason,
         NEW frame \in w.frames
  PROVE  Carries(s, Append(list, frame), w)
<1> DEFINE more == Append(list, frame)
<1>1. list \in Seq(w.frames)
  BY DEF Carries
<1>2. PICK k \in 0..Len(list) : HashHolds(s, list, k, w)
  BY DEF Carries
<1>3. more \in Seq(w.frames) /\ k \in 0..Len(more) /\ SubSeq(more, 1, k) = SubSeq(list, 1, k)
      /\ \A i \in 1..k : more[i] = list[i]
  BY <1>1, <1>2, HeardBefore
<1> HIDE DEF more
<1>4. HashHolds(s, more, k, w)
  BY <1>2, <1>3 DEF HashHolds
<1>5. s.level_stop # NoReason
  BY DEF Carries
<1>6. LevelsHold(s, more, w)
  BY <1>5 DEF LevelsHold, Carries
<1> QED BY <1>3, <1>4, <1>6 DEF Carries, more

\* A stream that is cut off still carries what it took before.
LEMMA LatchedCarries ==
  ASSUME NEW w \in Worlds, NEW s, NEW list, Carries(s, list, w), NEW t, Has(t),
         Changes(s, t, {"truncation", "level_stop", "consecutive", "exhausted", "errors"}),
         t.truncation # NoReason, t.level_stop # NoReason
  PROVE  Carries(t, list, w)
<1>1. PICK k \in 0..Len(list) : HashHolds(s, list, k, w)
  BY DEF Carries
<1>2. t.config = s.config /\ t.declared_rate = s.declared_rate /\ t.blocks = s.blocks /\ t.pending = s.pending
      /\ t.metered = s.metered /\ t.detector = s.detector /\ t.total_samples = s.total_samples
      /\ t.name = s.name
  BY DEF Changes, Fields
<1>3. HashHolds(t, list, k, w)
  BY <1>1, <1>2 DEF HashHolds, Fits, RateOf, HashEnabled
<1>4. LevelsHold(t, list, w)
  BY <1>2 DEF LevelsHold, Carries
<1>5. t.config = None => Untouched(t)
  BY <1>2 DEF Untouched, Carries
<1> QED BY <1>2, <1>3, <1>4, <1>5 DEF Carries

\* A frame of the stream's shape goes wherever its samples are still taken.
LEMMA SunkCarries ==
  ASSUME NEW w \in Worlds, NEW s, NEW list, Carries(s, list, w), s.truncation = NoReason, s.config # None,
         NEW frame \in w.frames, Fits(s, frame), NEW t, Sunk(s, t, frame.samples)
  PROVE  Carries(t, Append(list, frame), w)
<1> DEFINE more == Append(list, frame)
           samples == frame.samples
           n == Len(list)
           bytes == s.pending \o samples
           size == s.config.block_samples
           full == Blocks(bytes, size)
<1>1. list \in Seq(w.frames) /\ n \in Nat
  <2>1. list \in Seq(w.frames)
    BY DEF Carries
  <2> QED BY <2>1, LenProperties
<1>2. HashHolds(s, list, n, w) /\ SubSeq(list, 1, n) = list
  <2>1. HashHolds(s, list, n, w)
    BY DEF Carries
  <2> QED BY <1>1, <2>1, SubSeqFull
<1>3. more \in Seq(w.frames) /\ Len(more) = n + 1 /\ n \in 0..Len(more) /\ SubSeq(more, 1, n + 1) = more
      /\ more[n + 1] = frame /\ n + 1 \in 0..Len(more) /\ \A i \in 1..n : more[i] = list[i]
  <2>1. more \in Seq(w.frames) /\ Len(more) = n + 1 /\ more[n + 1] = frame
        /\ \A i \in 1..n : more[i] = list[i]
    BY <1>1, AppendProperties
  <2>2. SubSeq(more, 1, Len(more)) = more
    BY <2>1, SubSeqFull
  <2> HIDE DEF n, more
  <2> QED BY <1>1, <2>1, <2>2
<1>4. samples \in Seq(Sounds(w)) /\ SamplesOf(more) = SamplesOf(list) \o samples
      /\ SamplesOf(list) \in Seq(Sounds(w))
  BY <1>1, SamplesAreSounds, SamplesOfMore, SamplesOfType
<1>5. /\ t.config = s.config /\ t.declared_rate = s.declared_rate /\ t.truncation = NoReason /\ t.name = s.name
      /\ Has(t)
  BY DEF Sunk, Changes, Fields
<1> HIDE DEF more, samples, n
<1>6. \A i \in 1..(n + 1) : Fits(t, more[i])
  <2>1. \A i \in 1..(n + 1) : i \in 1..n \/ i = n + 1
    BY <1>1
  <2>2. \A i \in 1..n : Fits(s, more[i])
    BY <1>2, <1>3 DEF HashHolds
  <2>3. \A i \in 1..(n + 1) : Fits(s, more[i])
    BY <1>3, <2>1, <2>2
  <2> QED BY <1>5, <2>3 DEF Fits, RateOf
<1>7. s.blocks \in Seq(Seq(Sounds(w))) /\ s.pending \in Seq(Sounds(w)) /\ size \in Nat \ {0}
      /\ (\A b \in DOMAIN s.blocks : Len(s.blocks[b]) = size) /\ Len(s.pending) < size
  BY <1>2 DEF HashHolds
<1>8. bytes \in Seq(Sounds(w))
  BY <1>4, <1>7, ConcatProperties
<1>9. HashHolds(t, more, n + 1, w)
  <2>1. CASE ~HashEnabled(s)
    <3>1. t.blocks = s.blocks /\ t.pending = s.pending /\ ~HashEnabled(t)
      BY <1>5, <2>1 DEF Sunk, HashEnabled
    <3> QED BY <1>5, <1>6, <1>7, <3>1 DEF HashHolds
  <2>2. CASE HashEnabled(s)
    <3> DEFINE rest == SubSeq(bytes, Len(full) * size + 1, Len(bytes))
    <3>1. t.blocks = s.blocks \o full /\ t.pending = rest
      BY <2>2 DEF Sunk, samples
    <3> HIDE DEF bytes, size
    <3>2. rest \in Seq(Sounds(w)) /\ Len(rest) < size /\ FlattenSeq(full) \o rest = bytes
      BY <1>7, <1>8, RestOfBytes
    <3>3. full \in Seq(Seq(Sounds(w))) /\ \A b \in DOMAIN full : Len(full[b]) = size
      BY <1>7, <1>8, BlocksAreBytes
    <3> HIDE DEF full, rest
    <3>4. t.blocks \in Seq(Seq(Sounds(w))) /\ \A b \in DOMAIN t.blocks : Len(t.blocks[b]) = size
      <4>1. t.blocks \in Seq(Seq(Sounds(w))) /\ Len(t.blocks) = Len(s.blocks) + Len(full)
            /\ \A b \in 1..(Len(s.blocks) + Len(full)) :
                 t.blocks[b] = IF b <= Len(s.blocks) THEN s.blocks[b] ELSE full[b - Len(s.blocks)]
        BY <1>7, <3>1, <3>3, ConcatProperties
      <4>2. /\ DOMAIN t.blocks = 1..(Len(s.blocks) + Len(full))
            /\ DOMAIN s.blocks = 1..Len(s.blocks) /\ DOMAIN full = 1..Len(full)
            /\ Len(s.blocks) \in Nat /\ Len(full) \in Nat
        BY <1>7, <3>3, <4>1, LenProperties
      <4>3. ASSUME NEW b \in DOMAIN t.blocks PROVE Len(t.blocks[b]) = size
        <5>1. b <= Len(s.blocks) => b \in DOMAIN s.blocks
          BY <4>2
        <5>2. ~(b <= Len(s.blocks)) => b - Len(s.blocks) \in DOMAIN full
          BY <4>2
        <5> QED BY <1>7, <3>3, <4>1, <4>2, <5>1, <5>2
      <4> QED BY <4>1, <4>3
    <3>5. FlattenSeq(t.blocks) \o t.pending = SamplesOf(more)
      <4> DEFINE p == FlattenSeq(s.blocks)
                 q == FlattenSeq(full)
      <4>1. p \in Seq(Sounds(w)) /\ q \in Seq(Sounds(w)) /\ FlattenSeq(s.blocks \o full) = p \o q
        BY <1>7, <3>3, FlatIsSeq, FlatOfConcat
      <4>2. p \o s.pending = SamplesOf(list)
        BY <1>2, <2>2 DEF HashHolds
      <4>3. q \o rest = s.pending \o samples
        BY <3>2 DEF bytes
      <4> HIDE DEF p, q
      <4>4. (p \o q) \o rest = (p \o s.pending) \o samples
        <5>1. p \in Seq(Sounds(w)) /\ q \in Seq(Sounds(w)) /\ rest \in Seq(Sounds(w))
              /\ s.pending \in Seq(Sounds(w)) /\ samples \in Seq(Sounds(w))
          BY <1>4, <1>7, <3>2, <4>1
        <5>2. Associates(Sounds(w))
          BY ConcatAssociates, Zenon
        <5>3. (p \o q) \o rest = p \o (q \o rest)
          BY <5>1, <5>2, Zenon DEF Associates
        <5>4. (p \o s.pending) \o samples = p \o (s.pending \o samples)
          BY <5>1, <5>2, Zenon DEF Associates
        <5>5. p \o (q \o rest) = p \o (s.pending \o samples)
          BY <4>3, Zenon
        <5> QED BY <5>3, <5>4, <5>5, Zenon
      <4> QED BY <1>4, <3>1, <4>1, <4>2, <4>4
    <3> QED BY <1>3, <1>5, <1>6, <1>7, <3>1, <3>2, <3>4, <3>5 DEF HashHolds, size
  <2> QED BY <2>1, <2>2
<1>10. LevelsHold(t, more, w)
  <2>1. LevelsHold(s, list, w)
    BY DEF Carries
  <2>2. s.metered \in Seq(Sounds(w))
    BY <2>1 DEF LevelsHold
  <2>3. CASE t.level_stop = NoReason /\ CanMeter(s.config)
    <3>1. t.metered = s.metered \o samples /\ s.level_stop = NoReason
          /\ (Float(s.config.format) => \A k \in DOMAIN samples : ~Hostile(samples[k]))
      BY <2>3 DEF Sunk, samples
    <3>2. s.metered = SamplesOf(list) /\ (Float(s.config.format) => \A k \in DOMAIN s.metered : ~Hostile(s.metered[k]))
      BY <2>1, <2>3, <3>1 DEF LevelsHold
    <3>3. t.metered \in Seq(Sounds(w)) /\ t.metered = SamplesOf(more)
      <4>1. s.metered \o samples \in Seq(Sounds(w))
        BY <1>4, <2>2, ConcatProperties
      <4> QED BY <1>4, <3>1, <3>2, <4>1
    <3>4. ASSUME Float(s.config.format), NEW k \in DOMAIN t.metered PROVE ~Hostile(t.metered[k])
      <4>1. \/ k \in DOMAIN s.metered /\ t.metered[k] = s.metered[k]
            \/ \E j \in DOMAIN samples : t.metered[k] = samples[j]
        <5> DEFINE a == Len(s.metered)
        <5>1. /\ DOMAIN t.metered = 1..Len(t.metered) /\ DOMAIN s.metered = 1..a
              /\ DOMAIN samples = 1..Len(samples) /\ a \in Nat /\ Len(samples) \in Nat
          BY <1>4, <2>2, <3>3, LenProperties
        <5>2. Len(t.metered) = a + Len(samples)
              /\ \A j \in 1..(a + Len(samples)) :
                   t.metered[j] = IF j <= a THEN s.metered[j] ELSE samples[j - a]
          BY <1>4, <2>2, <3>1, ConcatProperties
        <5> HIDE DEF a
        <5>3. k \in 1..(a + Len(samples))
          BY <3>4, <5>1, <5>2
        <5>4. k <= a \/ k - a \in 1..Len(samples)
          BY <5>1, <5>3
        <5> QED BY <5>1, <5>2, <5>3, <5>4
      <4> QED BY <3>1, <3>2, <3>4, <4>1
    <3> QED BY <1>5, <2>3, <3>3, <3>4 DEF LevelsHold
  <2>4. CASE ~(t.level_stop = NoReason /\ CanMeter(s.config))
    <3>1. t.metered = s.metered /\ t.detector = s.detector
      BY <2>4 DEF Sunk
    <3> QED BY <1>5, <2>1, <2>4, <3>1 DEF LevelsHold
  <2> QED BY <2>3, <2>4
<1>11. \E k \in 0..Len(more) : (t.truncation = NoReason => k = Len(more)) /\ HashHolds(t, more, k, w)
  BY <1>3, <1>9
<1> QED BY <1>3, <1>5, <1>10, <1>11 DEF Carries, more

\* Whatever a frame does to the state, the state then carries that frame too.
LEMMA ConsumeCarries ==
  ASSUME NEW w \in Worlds, NEW s, NEW list, Carries(s, list, w), NEW frame \in w.frames
  PROVE  LET t == ConsumeFrame(s, frame)
         IN  Carries(t, Hear(list, frame), w) /\ \A f \in Lasting : t[f] = s[f]
<1> DEFINE t == ConsumeFrame(s, frame)
<1>1. CASE ~Sounding(frame)
  BY <1>1 DEF ConsumeFrame, Hear
<1>2. CASE Sounding(frame) /\ s.truncation # NoReason
  BY <1>2, TruncatedCarries DEF ConsumeFrame, Hear
<1>3. CASE Sounding(frame) /\ s.truncation = NoReason
  <2> DEFINE c == Configured(s, frame)
             token == Mismatch(c, frame)
  <2>1. Carries(c, list, w) /\ Changes(s, c, {"config"}) /\ c.config # None
    BY <1>3, ConfiguredCarries
  <2>2. t = IF token # NoReason THEN LatchDecodeTruncation(c, token) ELSE Sink(c, frame.samples)
    BY <1>3 DEF ConsumeFrame
  <2>3. Hear(list, frame) = Append(list, frame)
    BY <1>3 DEF Hear
  <2>4. Has(c) /\ c.truncation = NoReason /\ \A f \in Lasting : c[f] = s[f]
    BY <1>3, <2>1 DEF Changes, Lasting, Fields
  <2> HIDE DEF c, t
  <2>5. CASE token # NoReason
    <3> DEFINE l == LatchDecodeTruncation(c, token)
    <3> HIDE DEF token
    <3>1. Changes(c, l, {"truncation", "level_stop"}) /\ l.truncation # NoReason /\ l.level_stop # NoReason
      BY <2>4, <2>5, LatchEffects
    <3>2. t = l
      BY <2>2, <2>5
    <3> HIDE DEF l
    <3>3. Carries(l, list, w)
      <4>1. Has(l) /\ Changes(c, l, {"truncation", "level_stop", "consecutive", "exhausted", "errors"})
        BY <3>1 DEF Changes
      <4> QED BY <2>1, <3>1, <4>1, LatchedCarries
    <3>4. Carries(l, Append(list, frame), w)
      BY <3>1, <3>3, TruncatedCarries
    <3>5. \A f \in Lasting : l[f] = c[f]
      BY <3>1 DEF Changes, Lasting, Fields
    <3> QED BY <2>3, <2>4, <3>2, <3>4, <3>5 DEF t
  <2>6. CASE token = NoReason
    <3>1. Fits(c, frame)
      BY <2>6 DEF Fits, Mismatch, NoReason
    <3>2. Sunk(c, t, frame.samples)
      BY <2>2, <2>4, <2>6, SinkEffects
    <3>3. Carries(t, Append(list, frame), w)
      BY <2>1, <2>4, <3>1, <3>2, SunkCarries
    <3>4. \A f \in Lasting : t[f] = c[f]
      BY <3>2 DEF Sunk, Changes, Lasting, Fields
    <3> QED BY <2>3, <2>4, <3>3, <3>4 DEF t
  <2> QED BY <2>5, <2>6
<1> QED BY <1>1, <1>2, <1>3

-------------------------------------------------------------------------------
(* One packet, and the end.                                                *)

\* A stream whose decoder is open, with its decoder's failures counted.
Opened(s, list, w) ==
  /\ Carries(s, list, w)
  /\ s.tried /\ s.attempted
  /\ w.codecpar.usac => s.name # "aac_fixed"
  /\ s.exhausted \in BOOLEAN /\ (s.exhausted => s.truncation # NoReason)
  /\ s.consecutive \in Nat /\ s.consecutive <= MaxAudioDecodeErrorsPerStream + 1
  /\ s.consecutive > MaxAudioDecodeErrorsPerStream => s.exhausted

Unopened(s) ==
  /\ Has(s) /\ ~s.attempted /\ s.config = None /\ s.consecutive = 0 /\ ~s.exhausted
  /\ ~s.tried => s = NeverTried

\* A stream that is cut off takes no more frames.
LEMMA TruncatedStays ==
  ASSUME NEW s, NEW frame, s.truncation # NoReason
  PROVE  ConsumeFrame(s, frame) = s
BY DEF ConsumeFrame

\* What is carried does not hang on the counters.
LEMMA CountersCarry ==
  ASSUME NEW w \in Worlds, NEW s, NEW list, Carries(s, list, w), NEW t,
         Changes(s, t, {"errors", "consecutive", "exhausted"})
  PROVE  Carries(t, list, w)
<1>1. PICK k \in 0..Len(list) : (s.truncation = NoReason => k = Len(list)) /\ HashHolds(s, list, k, w)
  BY DEF Carries
<1>2. t.config = s.config /\ t.declared_rate = s.declared_rate /\ t.blocks = s.blocks /\ t.pending = s.pending
      /\ t.metered = s.metered /\ t.detector = s.detector /\ t.total_samples = s.total_samples
      /\ t.name = s.name /\ t.truncation = s.truncation /\ t.level_stop = s.level_stop /\ Has(t)
  BY DEF Changes, Fields
<1>3. HashHolds(t, list, k, w)
  BY <1>1, <1>2 DEF HashHolds, Fits, RateOf, HashEnabled
<1>4. LevelsHold(t, list, w)
  BY <1>2 DEF LevelsHold, Carries
<1>5. t.config = None => Untouched(t)
  BY <1>2 DEF Untouched, Carries
<1>6. \E j \in 0..Len(list) : (t.truncation = NoReason => j = Len(list)) /\ HashHolds(t, list, j, w)
  BY <1>1, <1>2, <1>3
<1> QED BY <1>2, <1>4, <1>5, <1>6 DEF Carries

\* A success clears the count of failures in a row, and that only.
LEMMA SuccessCarries ==
  ASSUME NEW w \in Worlds, NEW s, NEW list, Carries(s, list, w)
  PROVE  LET t == RecordSuccess(s)
         IN  Carries(t, list, w) /\ t.consecutive = 0 /\ Changes(s, t, {"consecutive"})
<1> DEFINE t == RecordSuccess(s)
<1>1. Changes(s, t, {"consecutive"}) /\ t.consecutive = 0
  BY DEF Carries, RecordSuccess, Changes, Has, Fields
<1> HIDE DEF t
<1>2. Changes(s, t, {"errors", "consecutive", "exhausted"})
  BY <1>1 DEF Changes
<1>3. Carries(t, list, w)
  BY <1>2, CountersCarry
<1> QED BY <1>1, <1>3 DEF t

\* What the frames of a packet leave, and those that the drain gives out.
FramesTaken(kind, s, t, list, w, k) ==
  /\ Carries(t, list, w)
  /\ \A f \in Lasting \ {"consecutive"} : t[f] = s[f]
  /\ t.consecutive = IF kind = "receive" /\ k > 0 THEN 0 ELSE s.consecutive
  /\ s.truncation # NoReason => t.truncation # NoReason

\* A run of frames, however it ends, leaves a stream that carries what was heard.
LEMMA FramesCarry ==
  ASSUME NEW w \in Worlds, NEW s, NEW list, Carries(s, list, w),
         NEW n \in Nat, NEW frames \in [1..n -> w.frames],
         NEW kind \in {"receive", "drain"}, NEW run, IsRunOf(run, kind, s, frames, n),
         NEW hears, IsRunOf(hears, "hear", list, frames, n)
  PROVE  FramesTaken(kind, s, run[n], hears[n], w, n)
<1> DEFINE Taken(k) == k <= n => FramesTaken(kind, s, run[k], hears[k], w, k)
           Good == {k \in Nat : Taken(k)}
<1>1. Taken(0)
  BY DEF IsRunOf, FramesTaken
<1>2. ASSUME NEW k \in Nat, Taken(k) PROVE Taken(k + 1)
  <2> SUFFICES ASSUME k + 1 <= n
               PROVE  FramesTaken(kind, s, run[k + 1], hears[k + 1], w, k + 1)
    OBVIOUS
  <2> DEFINE frame == frames[k + 1]
             a == run[k]
             b == IF kind = "receive" THEN RecordSuccess(a) ELSE a
             t == ConsumeFrame(b, frame)
  <2>1. k + 1 \in 1..n /\ (k + 1) - 1 = k /\ k <= n /\ frame \in w.frames
    OBVIOUS
  <2>2. FramesTaken(kind, s, a, hears[k], w, k)
    BY <1>2, <2>1
  <2> HIDE DEF Taken
  <2>3. run[k + 1] = t /\ hears[k + 1] = Hear(hears[k], frame)
    <3>1. run[k + 1] = Turn(kind, run[k], frames[k + 1]) /\ hears[k + 1] = Turn("hear", hears[k], frames[k + 1])
      BY <2>1 DEF IsRunOf
    <3> QED BY <3>1 DEF Turn
  <2> HIDE DEF frame, a, b, t
  <2>4. Carries(b, hears[k], w) /\ (\A f \in Lasting \ {"consecutive"} : b[f] = a[f]) /\ b.truncation = a.truncation
        /\ b.consecutive = IF kind = "receive" THEN 0 ELSE a.consecutive
    <3>1. CASE kind = "receive"
      <4>1. b = RecordSuccess(a) /\ Carries(a, hears[k], w)
        BY <2>2, <3>1 DEF FramesTaken, b
      <4>2. Carries(b, hears[k], w) /\ b.consecutive = 0 /\ Changes(a, b, {"consecutive"})
        BY <4>1, SuccessCarries
      <4> QED BY <3>1, <4>2 DEF Changes, Lasting, Fields
    <3>2. CASE kind = "drain"
      <4>1. b = a
        BY <3>2 DEF b
      <4> QED BY <2>2, <3>2, <4>1 DEF FramesTaken
    <3> QED BY <3>1, <3>2
  <2>5. Carries(t, Hear(hears[k], frame), w) /\ \A f \in Lasting : t[f] = b[f]
    BY <2>1, <2>4, ConsumeCarries DEF t
  <2>6. b.truncation # NoReason => t = b
    BY TruncatedStays DEF t
  <2>7. \A f \in Lasting \ {"consecutive"} : t[f] = s[f]
    BY <2>2, <2>4, <2>5 DEF FramesTaken
  <2>8. t.consecutive = IF kind = "receive" THEN 0 ELSE s.consecutive
    <3>1. t.consecutive = b.consecutive
      BY <2>5 DEF Lasting
    <3> QED BY <2>2, <2>4, <3>1 DEF FramesTaken
  <2>9. s.truncation # NoReason => t.truncation # NoReason
    BY <2>2, <2>4, <2>6 DEF FramesTaken
  <2>10. k + 1 > 0
    OBVIOUS
  <2> QED BY <2>3, <2>5, <2>7, <2>8, <2>9, <2>10 DEF FramesTaken
<1> HIDE DEF Taken
<1>3. 0 \in Good /\ \A k \in Nat : k \in Good => k + 1 \in Good
  BY <1>1, <1>2
<1> HIDE DEF Good
<1>4. n \in Good
  BY <1>3, SetInduction
<1>5. n <= n
  OBVIOUS
<1> QED BY <1>4, <1>5 DEF Good, Taken

\* So do the frames of a packet.
LEMMA ReceivedCarries ==
  ASSUME NEW w \in Worlds, NEW s, NEW list, Opened(s, list, w), ~s.exhausted,
         NEW n \in Nat, NEW frames \in [1..n -> w.frames]
  PROVE  LET t == ReceiveFrames(s, frames)
         IN  /\ Opened(t, FoldLeft(Hear, list, frames), w) /\ ~t.exhausted
             /\ t.consecutive = IF n > 0 THEN 0 ELSE s.consecutive
<1> DEFINE t == ReceiveFrames(s, frames)
           more == FoldLeft(Hear, list, frames)
<1>0. DOMAIN frames = 1..n
  OBVIOUS
<1>1. PICK run : IsRunOf(run, "receive", s, frames, n) /\ t = run[n]
  BY <1>0, ReceivedRuns
<1>2. PICK hears : IsRunOf(hears, "hear", list, frames, n) /\ more = hears[n]
  BY <1>0, HeardRuns
<1>3. Carries(s, list, w)
  BY DEF Opened
<1>4. FramesTaken("receive", s, t, more, w, n)
  BY <1>1, <1>2, <1>3, FramesCarry
<1> HIDE DEF t, more
<1>5. t.exhausted = s.exhausted /\ t.tried = s.tried /\ t.attempted = s.attempted /\ t.name = s.name
  BY <1>4 DEF FramesTaken, Lasting
<1>6. t.consecutive = IF n > 0 THEN 0 ELSE s.consecutive
  BY <1>4 DEF FramesTaken
<1>7. Carries(t, more, w)
  BY <1>4 DEF FramesTaken
<1>8. 0 \in Nat /\ 0 <= MaxAudioDecodeErrorsPerStream + 1 /\ ~(0 > MaxAudioDecodeErrorsPerStream)
  BY SweepAssumption
<1>9. t.consecutive \in Nat /\ t.consecutive <= MaxAudioDecodeErrorsPerStream + 1
      /\ (t.consecutive > MaxAudioDecodeErrorsPerStream => s.exhausted)
  BY <1>6, <1>8 DEF Opened
<1>10. Opened(t, more, w)
  BY <1>5, <1>7, <1>9 DEF Opened
<1> QED BY <1>5, <1>6, <1>10 DEF t, more

\* One failure more gives the stream up, if it is one too many.
LEMMA ErrorCarries ==
  ASSUME NEW w \in Worlds, NEW s, NEW list, Opened(s, list, w), ~s.exhausted
  PROVE  LET t == RecordError(s)
         IN  Opened(t, list, w) /\ t.consecutive = s.consecutive + 1
<1> DEFINE one == s.consecutive + 1
           over == s.exhausted \/ one > MaxAudioDecodeErrorsPerStream
           a == [s EXCEPT !.errors = @ + 1, !.consecutive = one, !.exhausted = over]
           reason == "consecutive_decode_error_limit"
           l == LatchDecodeTruncation(a, reason)
           t == RecordError(s)
<1>1. t = IF over THEN l ELSE a
  BY DEF RecordError
<1>2. Has(s) /\ Carries(s, list, w)
  BY DEF Opened, Carries
<1>3. Changes(s, a, {"errors", "consecutive", "exhausted"}) /\ a.consecutive = one /\ a.exhausted = over
  BY <1>2 DEF Changes, Has, Fields
<1>4. one \in Nat /\ one <= MaxAudioDecodeErrorsPerStream + 1 /\ s.consecutive <= MaxAudioDecodeErrorsPerStream
      /\ (over <=> one > MaxAudioDecodeErrorsPerStream) /\ over \in BOOLEAN
  BY SweepAssumption DEF Opened
<1>5. reason # NoReason
  BY DEF NoReason
<1> HIDE DEF one, over, a, t, reason
<1>6. Changes(a, l, {"truncation", "level_stop"}) /\ l.truncation # NoReason /\ l.level_stop # NoReason
  BY <1>3, <1>5, LatchEffects DEF Changes
<1> HIDE DEF l
<1>7. Changes(s, l, {"truncation", "level_stop", "consecutive", "exhausted", "errors"})
      /\ Has(l) /\ l.consecutive = one /\ l.exhausted = over
  BY <1>3, <1>6 DEF Changes, Fields
<1>8. CASE over
  <2>1. Carries(l, list, w)
    BY <1>2, <1>6, <1>7, LatchedCarries
  <2>2. l.tried = s.tried /\ l.attempted = s.attempted /\ l.name = s.name
    BY <1>7 DEF Changes, Fields
  <2>3. Opened(l, list, w)
    BY <1>4, <1>6, <1>7, <1>8, <2>1, <2>2 DEF Opened
  <2> QED BY <1>1, <1>7, <1>8, <2>3 DEF t, one
<1>9. CASE ~over
  <2>1. a.truncation = s.truncation /\ a.tried = s.tried /\ a.attempted = s.attempted /\ a.name = s.name
    BY <1>3 DEF Changes, Fields
  <2>2. Carries(a, list, w)
    BY <1>2, <1>3, CountersCarry
  <2>3. Opened(a, list, w)
    BY <1>3, <1>4, <1>9, <2>1, <2>2 DEF Opened
  <2> QED BY <1>1, <1>3, <1>9, <2>3 DEF t, one
<1> QED BY <1>8, <1>9

\* A decoder is opened or the reason why not is latched.
LEMMA OpeningOpens ==
  ASSUME NEW w \in Worlds, NEW s, s = EnsureInitialized(NeverTried, w.codecpar, w.preference)
  PROVE  s.tried /\ s.truncation = NoReason /\ s.consecutive = 0
         /\ IF s.attempted THEN Opened(s, <<>>, w) ELSE Unopened(s)
<1> DEFINE codec == w.codecpar.codec
           usac == w.codecpar.usac
           found == FindDecoder(codec, usac, w.preference)
           open == ~(found.name = None \/ Decoders[found.name] # codec)
<1>1. found.name # None /\ usac => found.name # "aac_fixed"
  <2>1. SUFFICES ASSUME found.name # None, usac PROVE found.name # "aac_fixed"
    OBVIOUS
  <2>2. codec = "aac" /\ codec \in DOMAIN DefaultDecoder
    BY <2>1, SweepAssumption
  <2>3. DefaultDecoder[codec] # "aac_fixed"
    BY <2>2, SweepAssumption
  <2>4. codec \in DOMAIN FixedSiblings /\ FixedSiblings[codec] = "aac_fixed"
    BY <2>2 DEF FixedSiblings
  <2>5. CASE w.preference \in {"auto", "aac_fixed", "default"}
    <3>1. found.name = DefaultDecoder[codec]
      BY <2>1, <2>4, <2>5 DEF FindDecoder, Found
    <3> QED BY <2>3, <3>1
  <2>6. CASE w.preference \notin {"auto", "aac_fixed", "default"}
    <3>1. found.name = ByName(w.preference)
      BY <2>1, <2>4, <2>6 DEF FindDecoder, Found
    <3> QED BY <2>1, <2>6, <3>1 DEF ByName
  <2> QED BY <2>5, <2>6
<1>2. s = IF open
            THEN [NeverTried EXCEPT !.tried = TRUE, !.attempted = TRUE, !.name = found.name,
                                    !.fallback = found.fallback, !.declared_rate = w.codecpar.rate]
            ELSE [NeverTried EXCEPT !.tried = TRUE, !.fallback = found.fallback]
  BY DEF EnsureInitialized, NeverTried
<1>3. open => found.name # None
  OBVIOUS
<1> HIDE DEF found, open
<1>4. Has(s) /\ s.tried /\ s.truncation = NoReason /\ s.consecutive = 0 /\ s.exhausted = FALSE /\ s.config = None
      /\ Untouched(s) /\ s.level_stop = NoReason
  BY <1>2 DEF Has, Fields, NeverTried, Untouched
<1>5. CASE open
  <2>1. s.attempted /\ s.name = found.name /\ s.declared_rate = w.codecpar.rate
    BY <1>2, <1>5 DEF NeverTried
  <2>2. HashHolds(s, <<>>, 0, w)
    <3>1. SubSeq(<<>>, 1, 0) = <<>>
      OBVIOUS
    <3>2. <<>> \in Seq(Sounds(w)) /\ <<>> \in Seq(Seq(Sounds(w)))
      BY EmptySeq
    <3>3. <<>> \o <<>> = <<>>
      OBVIOUS
    <3>4. FlattenSeq(s.blocks) \o s.pending = SamplesOf(SubSeq(<<>>, 1, 0))
      BY <1>4, <3>1, <3>3, FlatOfNone, SamplesOfNone DEF Untouched
    <3>5. \A i \in 1..0 : FALSE
      OBVIOUS
    <3> QED BY <1>4, <3>2, <3>4, <3>5 DEF HashHolds, Untouched
  <2>3. LevelsHold(s, <<>>, w)
    <3>1. <<>> \in Seq(Sounds(w))
      BY EmptySeq
    <3> QED BY <1>4, <3>1 DEF LevelsHold, Untouched
  <2>4. <<>> \in Seq(w.frames) /\ Len(<<>>) = 0 /\ 0 \in 0..Len(<<>>)
    OBVIOUS
  <2>5. Carries(s, <<>>, w)
    BY <1>4, <2>1, <2>2, <2>3, <2>4 DEF Carries
  <2>6. 0 \in Nat /\ 0 <= MaxAudioDecodeErrorsPerStream + 1 /\ ~(0 > MaxAudioDecodeErrorsPerStream)
    BY SweepAssumption
  <2>7. Opened(s, <<>>, w)
    BY <1>1, <1>3, <1>4, <1>5, <2>1, <2>5, <2>6 DEF Opened
  <2> QED BY <1>4, <2>1, <2>7
<1>6. CASE ~open
  <2>1. ~s.attempted
    BY <1>2, <1>6 DEF NeverTried
  <2> QED BY <1>4, <2>1 DEF Unopened
<1> QED BY <1>5, <1>6

\* When the stream is over nothing waits for a block to be full.
HashEnds(s, list, k) ==
  /\ \A i \in 1..k : Fits(s, list[i])
  /\ HashEnabled(s) => FlattenSeq(s.blocks) = SamplesOf(SubSeq(list, 1, k))
  /\ s.config # None =>
       \A b \in DOMAIN s.blocks :
         /\ Len(s.blocks[b]) \in 1..s.config.block_samples
         /\ b < Len(s.blocks) => Len(s.blocks[b]) = s.config.block_samples

Ended(s, list, w) ==
  /\ s.attempted
  /\ w.codecpar.usac => s.name # "aac_fixed"
  /\ s.truncation # NoReason => s.level_stop # NoReason
  /\ s.exhausted => s.truncation # NoReason
  /\ s.consecutive \in Nat /\ s.consecutive <= MaxAudioDecodeErrorsPerStream + 1
  /\ s.consecutive > MaxAudioDecodeErrorsPerStream => s.exhausted
  /\ s.config = None => s.total_samples = 0 /\ s.detector = NothingObserved
  /\ list \in Seq(w.frames)
  /\ \E k \in 0..Len(list) : (s.truncation = NoReason => k = Len(list)) /\ HashEnds(s, list, k)
  /\ LevelsHold(s, list, w)

\* After the drain nothing waits and what was heard is in the result.
LEMMA DrainEnds ==
  ASSUME NEW w \in Worlds, NEW s, NEW list, Opened(s, list, w),
         NEW n \in Nat, NEW frames \in [1..n -> w.frames]
  PROVE  LET t == Drain(s, frames)
         IN  Ended(t, FoldLeft(Hear, list, frames), w) /\ t.consecutive = s.consecutive
<1> DEFINE d == FoldLeft(ConsumeFrame, s, frames)
           more == FoldLeft(Hear, list, frames)
           t == Drain(s, frames)
<1>0. DOMAIN frames = 1..n
  OBVIOUS
<1>1. PICK run : IsRunOf(run, "drain", s, frames, n) /\ d = run[n]
  BY <1>0, DrainedRuns
<1>2. PICK hears : IsRunOf(hears, "hear", list, frames, n) /\ more = hears[n]
  BY <1>0, HeardRuns
<1>3. Carries(s, list, w)
  BY DEF Opened
<1>4. FramesTaken("drain", s, d, more, w, n)
  BY <1>1, <1>2, <1>3, FramesCarry
<1>5. t = IF d.pending = <<>> THEN d ELSE [d EXCEPT !.blocks = Append(@, d.pending), !.pending = <<>>]
  BY DEF Drain
<1> HIDE DEF d, more, t
<1>6. d.exhausted = s.exhausted /\ d.tried = s.tried /\ d.attempted = s.attempted /\ d.name = s.name
      /\ d.consecutive = s.consecutive /\ (s.truncation # NoReason => d.truncation # NoReason)
  BY <1>4 DEF FramesTaken, Lasting
<1>7. Carries(d, more, w)
  BY <1>4 DEF FramesTaken
<1>8. Changes(d, t, {"blocks", "pending"})
      /\ t.blocks = IF d.pending = <<>> THEN d.blocks ELSE Append(d.blocks, d.pending)
  BY <1>5, <1>7 DEF Carries, Has, Changes, Fields
<1>9. PICK k \in 0..Len(more) : (d.truncation = NoReason => k = Len(more)) /\ HashHolds(d, more, k, w)
  BY <1>7 DEF Carries
<1>10. t.config = d.config /\ t.declared_rate = d.declared_rate /\ t.metered = d.metered /\ t.detector = d.detector
       /\ t.total_samples = d.total_samples /\ t.name = d.name /\ t.truncation = d.truncation
       /\ t.level_stop = d.level_stop /\ t.exhausted = d.exhausted /\ t.attempted = d.attempted
       /\ t.consecutive = d.consecutive
  BY <1>8 DEF Changes, Fields
<1>11. HashEnds(t, more, k)
  <2> DEFINE size == d.config.block_samples
             S == Sounds(w)
  <2>1. d.blocks \in Seq(Seq(S)) /\ d.pending \in Seq(S)
    BY <1>9 DEF HashHolds
  <2>2. ASSUME d.config # None
        PROVE  size \in Nat \ {0} /\ (\A b \in DOMAIN d.blocks : Len(d.blocks[b]) = size) /\ Len(d.pending) < size
    BY <1>9, <2>2 DEF HashHolds
  <2>3. \A i \in 1..k : Fits(t, more[i])
    BY <1>9, <1>10 DEF HashHolds, Fits, RateOf
  <2>4. HashEnabled(t) = HashEnabled(d)
    BY <1>10 DEF HashEnabled
  <2>5. HashEnabled(d) => FlattenSeq(d.blocks) \o d.pending = SamplesOf(SubSeq(more, 1, k))
    BY <1>9 DEF HashHolds
  <2> HIDE DEF S
  <2>6. FlattenSeq(t.blocks) = FlattenSeq(d.blocks) \o d.pending
    <3>1. CASE d.pending = <<>>
      <4>1. FlattenSeq(d.blocks) \in Seq(S)
        BY <2>1, FlatIsSeq
      <4>2. FlattenSeq(d.blocks) \o <<>> = FlattenSeq(d.blocks)
        BY <4>1, ConcatEmptySeq
      <4> QED BY <1>8, <3>1, <4>2
    <3>2. CASE d.pending # <<>>
      BY <1>8, <2>1, <3>2, FlatOfAppend
    <3> QED BY <3>1, <3>2
  <2>7. ASSUME d.config # None, NEW b \in DOMAIN t.blocks
        PROVE  Len(t.blocks[b]) \in 1..size /\ (b < Len(t.blocks) => Len(t.blocks[b]) = size)
    <3> HIDE DEF size
    <3>1. size \in Nat \ {0} /\ size \in 1..size
      BY <2>2, <2>7
    <3>2. CASE d.pending = <<>>
      BY <1>8, <2>2, <2>7, <3>1, <3>2
    <3>3. CASE d.pending # <<>>
      <4> DEFINE m == Len(d.blocks)
      <4>1. t.blocks \in Seq(Seq(S)) /\ Len(t.blocks) = m + 1 /\ t.blocks[m + 1] = d.pending
            /\ \A i \in 1..m : t.blocks[i] = d.blocks[i]
        BY <1>8, <2>1, <3>3, AppendProperties
      <4>2. m \in Nat /\ DOMAIN d.blocks = 1..m /\ DOMAIN t.blocks = 1..(m + 1)
        BY <2>1, <4>1, LenProperties
      <4>3. Len(d.pending) \in Nat \ {0}
        BY <2>1, <3>3, EmptySeq
      <4> HIDE DEF m
      <4>4. b \in 1..m \/ b = m + 1
        BY <2>7, <4>2
      <4>5. Len(d.pending) \in 1..size
        BY <2>2, <2>7, <3>1, <4>3
      <4>6. CASE b \in 1..m
        <5>1. Len(t.blocks[b]) = size
          BY <2>2, <2>7, <4>1, <4>2, <4>6
        <5> QED BY <3>1, <5>1
      <4>7. CASE b = m + 1
        <5>1. ~(b < Len(t.blocks)) /\ t.blocks[b] = d.pending
          BY <4>1, <4>2, <4>7
        <5> QED BY <4>5, <5>1
      <4> QED BY <4>4, <4>6, <4>7
    <3> QED BY <3>2, <3>3
  <2> QED BY <1>10, <2>3, <2>4, <2>5, <2>6, <2>7 DEF HashEnds
<1>12. LevelsHold(t, more, w)
  BY <1>7, <1>10 DEF LevelsHold, Carries
<1>13. \E j \in 0..Len(more) : (t.truncation = NoReason => j = Len(more)) /\ HashEnds(t, more, j)
  BY <1>9, <1>10, <1>11
<1>14. t.config = None => t.total_samples = 0 /\ t.detector = NothingObserved
  BY <1>7, <1>10 DEF Carries, Untouched
<1>15. more \in Seq(w.frames) /\ (t.truncation # NoReason => t.level_stop # NoReason)
  BY <1>7, <1>10 DEF Carries
<1>16. Ended(t, more, w)
  BY <1>6, <1>10, <1>12, <1>13, <1>14, <1>15 DEF Ended, Opened
<1> QED BY <1>6, <1>10, <1>16 DEF t, more

-------------------------------------------------------------------------------
(* The sweep.                                                              *)

\* What the result has of the state that the drain left.
Finalized(s, r) ==
  /\ r.attempted <=> s.attempted
  /\ s.attempted =>
       /\ r.name = s.name /\ r.config = s.config /\ r.total_samples = s.total_samples
       /\ r.block_digests = s.blocks
       /\ r.decode_truncated = (s.truncation # NoReason)
       /\ r.level_measurement_stopped = (s.level_stop # NoReason)
       /\ r.loudness_measured = (s.level_stop = NoReason /\ s.config # None /\ CanMeter(s.config))
       /\ r.silence_measured = (s.level_stop = NoReason /\ s.detector.next > 0)

ReportOfResult ==
  [hash |-> SampleHash,
   edges |-> Levels(result.silence_measured, result.edge_silence_spans),
   dropouts |-> Levels(result.silence_measured, result.dropout_spans),
   true_peak |-> Levels(result.loudness_measured, TruePeak),
   integrated |-> Levels(result.loudness_measured, Integrated),
   errors |-> DecodeErrors,
   partial |-> ~world.scan_partial /\ world.content /\ result.attempted /\ result.undecodable]

Sweeping ==
  /\ stage = "sweeping"
  /\ Opened(st, heard, world) \/ (Unopened(st) /\ heard = <<>>)

Over ==
  /\ stage \in {"finalized", "reported"}
  /\ Ended(st, heard, world) \/ (Unopened(st) /\ heard = <<>>)
  /\ Finalized(st, result)
  /\ stage = "reported" => report = ReportOfResult

\* The state carries what was heard until the stream is over, ends with it, and the
\* result and the report are those of the state.
SweepInv ==
  /\ world \in Worlds
  /\ failing = st.consecutive
  /\ Sweeping \/ Over

\* A sweep starts with nothing heard and nothing claimed.
LEMMA StartsSweeping == SweepInit => SweepInv
<1> SUFFICES ASSUME SweepInit PROVE SweepInv
  OBVIOUS
<1>1. Unopened(st) /\ st.consecutive = 0
  BY DEF SweepInit, NeverTried, Unopened, Has, Fields
<1> QED BY <1>1 DEF SweepInit, SweepInv, Sweeping

\* A packet is fed to a decoder that is open and was not given up.
LEMMA FeedingIsOpened ==
  ASSUME SweepInv, stage = "sweeping",
         NEW s, s = EnsureInitialized(st, world.codecpar, world.preference), Feeding(s)
  PROVE  Opened(s, heard, world) /\ ~s.exhausted /\ s.consecutive = failing
<1>0. world \in Worlds /\ Sweeping /\ failing = st.consecutive
  BY DEF SweepInv, Over
<1>1. CASE Opened(st, heard, world)
  <2>1. s = st
    BY <1>1 DEF EnsureInitialized, Opened
  <2> QED BY <1>0, <1>1, <2>1 DEF Feeding
<1>2. CASE Unopened(st) /\ heard = <<>>
  <2>1. CASE st.tried
    <3>1. s = st
      BY <2>1 DEF EnsureInitialized
    <3> QED BY <1>2, <3>1 DEF Feeding, Unopened
  <2>2. CASE ~st.tried
    <3>1. st = NeverTried
      BY <1>2, <2>2 DEF Unopened
    <3>2. s = EnsureInitialized(NeverTried, world.codecpar, world.preference)
      BY <3>1
    <3>3. s.consecutive = 0 /\ IF s.attempted THEN Opened(s, <<>>, world) ELSE Unopened(s)
      BY <1>0, <3>2, OpeningOpens
    <3>4. failing = 0
      BY <1>0, <1>2 DEF Unopened
    <3> QED BY <1>2, <3>3, <3>4 DEF Feeding
  <2> QED BY <2>1, <2>2
<1> QED BY <1>0, <1>1, <1>2 DEF Sweeping

\* The frames that libav yields at a time are a function on 1..n.
LEMMA RunsAreFrames ==
  ASSUME world \in Worlds, NEW frames \in FrameRuns
  PROVE  \E n \in Nat : frames \in [1..n -> world.frames] /\ (frames = <<>> <=> n = 0)
<1>1. world.max_run \in Nat
  BY SweepAssumption
<1>2. PICK n \in 0..world.max_run : frames \in [1..n -> world.frames]
  BY DEF FrameRuns
<1>3. n \in Nat
  BY <1>1, <1>2
<1>4. frames = <<>> <=> n = 0
  BY <1>2, <1>3
<1> QED BY <1>2, <1>3, <1>4

\* A packet decoded.
LEMMA DecodedKeeps == SweepInv /\ PacketDecoded => SweepInv'
<1> SUFFICES ASSUME SweepInv, PacketDecoded PROVE SweepInv'
  OBVIOUS
<1> DEFINE s == EnsureInitialized(st, world.codecpar, world.preference)
<1>1. PICK frames \in FrameRuns :
        Fed(Packet("ok", frames, FALSE)) /\ Emitted(frames) /\ failing' = IF frames = <<>> THEN failing ELSE 0
  BY DEF PacketDecoded
<1>2. stage = "sweeping" /\ Feeding(s) /\ st' = ReceiveFrames(s, frames)
      /\ world' = world /\ stage' = stage
  BY <1>1 DEF Fed, FeedPacket, Packet
<1>3. heard' = FoldLeft(Hear, heard, frames)
  BY <1>1 DEF Emitted
<1>4. world \in Worlds
  BY DEF SweepInv
<1>5. PICK n \in Nat : frames \in [1..n -> world.frames] /\ (frames = <<>> <=> n = 0)
  BY <1>4, RunsAreFrames
<1> HIDE DEF s
<1>6. Opened(s, heard, world) /\ ~s.exhausted /\ s.consecutive = failing
  BY <1>2, FeedingIsOpened DEF s
<1>7. Opened(st', heard', world) /\ st'.consecutive = IF n > 0 THEN 0 ELSE s.consecutive
  BY <1>2, <1>3, <1>4, <1>5, <1>6, ReceivedCarries
<1>8. failing' = st'.consecutive
  BY <1>1, <1>5, <1>6, <1>7
<1>9. Opened(st, heard, world)'
  BY <1>2, <1>7
<1> QED BY <1>2, <1>4, <1>8, <1>9 DEF SweepInv, Sweeping

\* A packet that the decoder refuses.
LEMMA SendFailKeeps == SweepInv /\ SendFails => SweepInv'
<1> SUFFICES ASSUME SweepInv, SendFails PROVE SweepInv'
  OBVIOUS
<1> DEFINE s == EnsureInitialized(st, world.codecpar, world.preference)
<1>1. stage = "sweeping" /\ Feeding(s) /\ st' = RecordError(s) /\ world' = world /\ stage' = stage
      /\ heard' = heard /\ failing' = failing + 1
  BY DEF SendFails, Fed, FeedPacket, Packet
<1>2. world \in Worlds
  BY DEF SweepInv
<1> HIDE DEF s
<1>3. Opened(s, heard, world) /\ ~s.exhausted /\ s.consecutive = failing
  BY <1>1, FeedingIsOpened DEF s
<1>4. Opened(st', heard', world) /\ st'.consecutive = s.consecutive + 1
  BY <1>1, <1>2, <1>3, ErrorCarries
<1>5. Opened(st, heard, world)'
  BY <1>1, <1>4
<1> QED BY <1>1, <1>2, <1>3, <1>4, <1>5 DEF SweepInv, Sweeping

\* A packet that fails while its frames are received.
LEMMA ReceiveFailKeeps == SweepInv /\ ReceiveFails => SweepInv'
<1> SUFFICES ASSUME SweepInv, ReceiveFails PROVE SweepInv'
  OBVIOUS
<1> DEFINE s == EnsureInitialized(st, world.codecpar, world.preference)
<1>1. PICK frames \in FrameRuns :
        Fed(Packet("ok", frames, TRUE)) /\ Emitted(frames) /\ failing' = IF frames = <<>> THEN failing + 1 ELSE 1
  BY DEF ReceiveFails
<1> DEFINE r == ReceiveFrames(s, frames)
<1>2. stage = "sweeping" /\ Feeding(s) /\ st' = RecordError(r) /\ world' = world /\ stage' = stage
  BY <1>1 DEF Fed, FeedPacket, Packet
<1>3. heard' = FoldLeft(Hear, heard, frames)
  BY <1>1 DEF Emitted
<1>4. world \in Worlds
  BY DEF SweepInv
<1>5. PICK n \in Nat : frames \in [1..n -> world.frames] /\ (frames = <<>> <=> n = 0)
  BY <1>4, RunsAreFrames
<1> HIDE DEF s
<1>6. Opened(s, heard, world) /\ ~s.exhausted /\ s.consecutive = failing
  BY <1>2, FeedingIsOpened DEF s
<1>7. Opened(r, heard', world) /\ ~r.exhausted /\ r.consecutive = IF n > 0 THEN 0 ELSE s.consecutive
  BY <1>3, <1>4, <1>5, <1>6, ReceivedCarries
<1> HIDE DEF r
<1>8. Opened(st', heard', world) /\ st'.consecutive = r.consecutive + 1
  BY <1>2, <1>4, <1>7, ErrorCarries
<1>9. failing' = st'.consecutive
  BY <1>1, <1>5, <1>6, <1>7, <1>8
<1>10. Opened(st, heard, world)'
  BY <1>2, <1>8
<1> QED BY <1>2, <1>4, <1>9, <1>10 DEF SweepInv, Sweeping

\* A packet that no decoder is asked to decode.
LEMMA UndecodedKeeps == SweepInv /\ PacketUndecoded => SweepInv'
<1> SUFFICES ASSUME SweepInv, PacketUndecoded PROVE SweepInv'
  OBVIOUS
<1>1. stage = "sweeping" /\ ~st.tried /\ st' = EnsureInitialized(st, world.codecpar, world.preference)
      /\ ~st'.attempted /\ world' = world /\ stage' = stage /\ heard' = heard /\ failing' = failing
  BY DEF PacketUndecoded
<1>2. world \in Worlds /\ failing = st.consecutive /\ Unopened(st) /\ heard = <<>>
  BY <1>1 DEF SweepInv, Sweeping, Over, Opened
<1>3. st = NeverTried /\ failing = 0
  BY <1>1, <1>2 DEF Unopened
<1>4. st'.consecutive = 0 /\ Unopened(st')
  BY <1>1, <1>2, <1>3, OpeningOpens
<1>5. Unopened(st)'
  BY <1>4
<1> QED BY <1>1, <1>2, <1>3, <1>4, <1>5 DEF SweepInv, Sweeping

\* A decoder that was never opened has nothing to drain.
LEMMA NothingDrained ==
  ASSUME NEW s, Unopened(s), NEW list
  PROVE  Unopened(Drain(s, <<>>)) /\ FoldLeft(Hear, list, <<>>) = list /\ Drain(s, <<>>).consecutive = s.consecutive
<1>1. DOMAIN <<>> = 1..0
  OBVIOUS
<1>2. FoldLeft(ConsumeFrame, s, <<>>) = s
  <2>1. PICK run : IsRunOf(run, "drain", s, <<>>, 0) /\ FoldLeft(ConsumeFrame, s, <<>>) = run[0]
    BY <1>1, DrainedRuns
  <2> QED BY <2>1 DEF IsRunOf
<1>3. FoldLeft(Hear, list, <<>>) = list
  <2>1. PICK run : IsRunOf(run, "hear", list, <<>>, 0) /\ FoldLeft(Hear, list, <<>>) = run[0]
    BY <1>1, HeardRuns
  <2> QED BY <2>1 DEF IsRunOf
<1> DEFINE t == Drain(s, <<>>)
<1>4. t = IF s.pending = <<>> THEN s ELSE [s EXCEPT !.blocks = Append(@, s.pending), !.pending = <<>>]
  BY <1>2 DEF Drain
<1> HIDE DEF t
<1>5. ~s.tried => s.pending = <<>>
  BY DEF Unopened, NeverTried
<1>6. Unopened(t) /\ t.consecutive = s.consecutive
  BY <1>4, <1>5 DEF Unopened, Has, Fields
<1> QED BY <1>3, <1>6 DEF t

\* The result is told of the state after the drain.
LEMMA FinalizedByDrain ==
  ASSUME NEW s, NEW frames, NEW t, t = Drain(s, frames), t.attempted <=> s.attempted
  PROVE  Finalized(t, FinalizeStream(s, frames))
<1> DEFINE r == FinalizeStream(s, frames)
<1>1. CASE ~s.attempted
  <2>1. r = NotAttempted
    BY <1>1 DEF FinalizeStream
  <2> QED BY <1>1, <2>1 DEF Finalized, NotAttempted
<1>2. CASE s.attempted
  <2>1. /\ r.attempted = TRUE /\ r.name = t.name /\ r.config = t.config /\ r.total_samples = t.total_samples
        /\ r.block_digests = t.blocks
        /\ r.decode_truncated = (t.truncation # NoReason)
        /\ r.level_measurement_stopped = ~(t.level_stop = NoReason)
        /\ r.loudness_measured = (t.level_stop = NoReason /\ t.config # None /\ CanMeter(t.config))
        /\ r.silence_measured = (t.level_stop = NoReason /\ t.detector.next > 0)
    BY <1>2 DEF FinalizeStream
  <2> QED BY <1>2, <2>1 DEF Finalized
<1> QED BY <1>1, <1>2

\* The end of the sweep.
LEMMA FinalizeKeeps == SweepInv /\ Finalize => SweepInv'
<1> SUFFICES ASSUME SweepInv, Finalize PROVE SweepInv'
  OBVIOUS
<1>1. PICK frames \in IF st.attempted THEN FrameRuns ELSE {<<>>} :
        Emitted(frames) /\ st' = Drain(st, frames) /\ result' = FinalizeStream(st, frames)
  BY DEF Finalize
<1>2. stage = "sweeping" /\ stage' = "finalized" /\ world' = world /\ failing' = failing
      /\ heard' = FoldLeft(Hear, heard, frames)
  BY <1>1 DEF Finalize, Emitted
<1>3. world \in Worlds /\ failing = st.consecutive /\ (Opened(st, heard, world) \/ (Unopened(st) /\ heard = <<>>))
  BY <1>2 DEF SweepInv, Sweeping, Over
<1>4. CASE Opened(st, heard, world)
  <2>1. st.attempted
    BY <1>4 DEF Opened
  <2>2. PICK n \in Nat : frames \in [1..n -> world.frames] /\ (frames = <<>> <=> n = 0)
    BY <1>1, <1>3, <2>1, RunsAreFrames
  <2>3. Ended(st', heard', world) /\ st'.consecutive = st.consecutive
    BY <1>1, <1>2, <1>3, <1>4, <2>2, DrainEnds
  <2>4. st'.attempted
    BY <2>3 DEF Ended
  <2>5. Finalized(st', result')
    BY <1>1, <2>1, <2>4, FinalizedByDrain
  <2>6. Ended(st, heard, world)' /\ Finalized(st, result)'
    BY <1>2, <2>3, <2>5
  <2> QED BY <1>2, <1>3, <2>3, <2>6 DEF SweepInv, Over
<1>5. CASE Unopened(st) /\ heard = <<>>
  <2>1. frames = <<>> /\ ~st.attempted
    BY <1>1, <1>5 DEF Unopened
  <2>2. Unopened(st') /\ heard' = heard /\ st'.consecutive = st.consecutive
    BY <1>1, <1>2, <1>5, <2>1, NothingDrained
  <2>3. ~st'.attempted
    BY <2>2 DEF Unopened
  <2>4. Finalized(st', result')
    BY <1>1, <2>1, <2>3, FinalizedByDrain
  <2>5. Unopened(st)' /\ Finalized(st, result)'
    BY <2>2, <2>4
  <2> QED BY <1>2, <1>3, <1>5, <2>2, <2>5 DEF SweepInv, Over
<1> QED BY <1>3, <1>4, <1>5

\* What the analyzers read of the result.
LEMMA AnalyzeKeeps == SweepInv /\ Analyze => SweepInv'
<1> SUFFICES ASSUME SweepInv, Analyze PROVE SweepInv'
  OBVIOUS
<1>1. stage = "finalized" /\ stage' = "reported" /\ world' = world /\ st' = st /\ heard' = heard
      /\ failing' = failing /\ result' = result /\ report' = ReportOfResult
  BY DEF Analyze, ReportOfResult
<1>2. world \in Worlds /\ failing = st.consecutive /\ Finalized(st, result)
      /\ (Ended(st, heard, world) \/ (Unopened(st) /\ heard = <<>>))
  BY <1>1 DEF SweepInv, Sweeping, Over
<1>3. ReportOfResult' = ReportOfResult
  BY <1>1 DEF ReportOfResult, SampleHash, Levels, TruePeak, Integrated, LoudestOf, Metered, DecodeErrors, Undecoded
<1>4. Over'
  BY <1>1, <1>2, <1>3 DEF Over
<1> QED BY <1>1, <1>2, <1>4 DEF SweepInv

\* Steps that change nothing.
LEMMA SweepStutterKeeps == SweepInv /\ UNCHANGED vars => SweepInv'
<1> SUFFICES ASSUME SweepInv, UNCHANGED vars PROVE SweepInv'
  OBVIOUS
<1>1. world' = world /\ stage' = stage /\ st' = st /\ heard' = heard /\ failing' = failing /\ result' = result
      /\ report' = report
  BY DEF vars
<1>2. ReportOfResult' = ReportOfResult
  BY <1>1 DEF ReportOfResult, SampleHash, Levels, TruePeak, Integrated, LoudestOf, Metered, DecodeErrors, Undecoded
<1> QED BY <1>1, <1>2 DEF SweepInv, Sweeping, Over

\* The state of a stream carries what was heard of it, on every behaviour of the sweep.
THEOREM SweepInvariant == SweepSpec => []SweepInv
<1>1. SweepInit => SweepInv
  BY StartsSweeping
<1>2. SweepInv /\ [SweepNext]_vars => SweepInv'
  <2> SUFFICES ASSUME SweepInv, [SweepNext]_vars PROVE SweepInv'
    OBVIOUS
  <2>1. CASE PacketDecoded
    BY <2>1, DecodedKeeps
  <2>2. CASE SendFails
    BY <2>2, SendFailKeeps
  <2>3. CASE ReceiveFails
    BY <2>3, ReceiveFailKeeps
  <2>4. CASE PacketUndecoded
    BY <2>4, UndecodedKeeps
  <2>5. CASE Finalize
    BY <2>5, FinalizeKeeps
  <2>6. CASE Analyze
    BY <2>6, AnalyzeKeeps
  <2>7. CASE UNCHANGED vars
    BY <2>7, SweepStutterKeeps
  <2> QED BY <2>1, <2>2, <2>3, <2>4, <2>5, <2>6, <2>7 DEF SweepNext
<1> QED BY <1>1, <1>2, PTL DEF SweepSpec

-------------------------------------------------------------------------------
(* What is told.                                                           *)

\* Nothing is told of a stream that has no decoder.
LEMMA ToldIsDecoded ==
  ASSUME SweepInv, Reported
  PROVE  /\ report = ReportOfResult
         /\ Undecoded = "none" => Ended(st, heard, world) /\ Finalized(st, result)
<1>1. report = ReportOfResult /\ Finalized(st, result) /\ (Ended(st, heard, world) \/ Unopened(st))
  BY DEF SweepInv, Sweeping, Over, Reported
<1>2. ~result.attempted => Undecoded # "none"
  BY DEF Undecoded
<1>3. Unopened(st) => ~result.attempted
  BY <1>1 DEF Unopened, Finalized
<1> QED BY <1>1, <1>2, <1>3

\* A sample hash is told only of a decoder of the first two classes, and is what was digested.
LEMMA HashTold ==
  ASSUME SweepInv, Reported, report.hash.skip = "none"
  PROVE  /\ Undecoded = "none" /\ DeterminismClass(result.name) # 3 /\ result.total_samples # 0
         /\ report.hash.value.blocks = result.block_digests
         /\ report.hash.value.stride = result.config.block_samples
         /\ report.hash.value.decoder = result.name
         /\ report.hash.value.sampling = IF result.decode_truncated THEN "truncated" ELSE "full"
<1>1. report.hash = SampleHash
  BY ToldIsDecoded DEF ReportOfResult
<1>2. Undecoded = "none" /\ DeterminismClass(result.name) # 3 /\ result.total_samples # 0
  BY <1>1 DEF SampleHash, Skip
<1> QED BY <1>1, <1>2 DEF SampleHash, Of

\* A level is told only of a measurement that nothing has stopped.
LEMMA LevelTold ==
  ASSUME SweepInv, Reported, NEW level \in {"edges", "dropouts", "true_peak", "integrated"},
         report[level].skip = "none"
  PROVE  /\ Undecoded = "none" /\ ~result.level_measurement_stopped
         /\ IF level \in {"edges", "dropouts"} THEN result.silence_measured ELSE result.loudness_measured
<1>0. report = ReportOfResult
  BY ToldIsDecoded
<1>1. ASSUME NEW measured, NEW value, Levels(measured, value).skip = "none"
      PROVE  Undecoded = "none" /\ ~result.level_measurement_stopped /\ measured
  BY <1>1 DEF Levels, Skip
<1>2. /\ report.edges = Levels(result.silence_measured, result.edge_silence_spans)
      /\ report.dropouts = Levels(result.silence_measured, result.dropout_spans)
      /\ report.true_peak = Levels(result.loudness_measured, TruePeak)
      /\ report.integrated = Levels(result.loudness_measured, Integrated)
  BY <1>0 DEF ReportOfResult
<1> QED BY <1>1, <1>2

\* A decoder that fails over and over is given up, and then the hash of the stream is
\* marked truncated and no level of it is told.
THEOREM ErrorsBounded == SweepSpec => []ErrorsAreBounded
<1>1. SweepInv => ErrorsAreBounded
  <2> SUFFICES ASSUME SweepInv PROVE ErrorsAreBounded
    OBVIOUS
  <2>1. failing = st.consecutive
    BY DEF SweepInv
  <2>2. failing \in Nat /\ failing <= MaxAudioDecodeErrorsPerStream + 1
        /\ (Unopened(st) => failing = 0)
        /\ (Ended(st, heard, world) /\ failing > MaxAudioDecodeErrorsPerStream => st.exhausted)
    <3>1. 0 \in Nat /\ 0 <= MaxAudioDecodeErrorsPerStream + 1
      BY SweepAssumption
    <3> QED BY <2>1, <3>1 DEF SweepInv, Sweeping, Over, Opened, Ended, Unopened
  <2>3. ASSUME Reported, failing > MaxAudioDecodeErrorsPerStream, Undecoded = "none"
        PROVE  result.decode_truncated /\ result.level_measurement_stopped
    <3>1. Ended(st, heard, world) /\ Finalized(st, result)
      BY <2>3, ToldIsDecoded
    <3>2. st.truncation # NoReason /\ st.level_stop # NoReason /\ st.attempted
      BY <2>2, <2>3, <3>1 DEF Ended
    <3> QED BY <3>1, <3>2 DEF Finalized
  <2>4. ASSUME Reported, failing > MaxAudioDecodeErrorsPerStream
        PROVE  /\ report.hash.skip = "none" => report.hash.value.sampling = "truncated"
               /\ report.edges.skip # "none" /\ report.true_peak.skip # "none"
    <3>1. ASSUME report.hash.skip = "none" PROVE report.hash.value.sampling = "truncated"
      BY <2>3, <2>4, <3>1, HashTold
    <3>2. \A level \in {"edges", "true_peak"} : report[level].skip # "none"
      BY <2>3, <2>4, LevelTold
    <3> QED BY <3>1, <3>2
  <2> QED BY <2>2, <2>4 DEF ErrorsAreBounded
<1>2. SweepSpec => []SweepInv
  BY SweepInvariant
<1> QED BY <1>1, <1>2, PTL

\* The frames of which the blocks were made are of one shape.
LEMMA FittingIsOneShape ==
  ASSUME NEW frames, \A i \in DOMAIN frames : Fits(st, frames[i])
  PROVE  OneShape(frames)
BY DEF Fits, OneShape, Shape

\* The hash that is told is of the blocks of the frames it took.
LEMMA BlocksTold ==
  ASSUME SweepInv, Reported, report.hash.skip = "none", NEW k \in 0..Len(heard), HashEnds(st, heard, k)
  PROVE  BlocksOf(SubSeq(heard, 1, k), report.hash.value)
<1> DEFINE told == report.hash.value
           part == SubSeq(heard, 1, k)
<1>1. Ended(st, heard, world) /\ Finalized(st, result) /\ DeterminismClass(result.name) # 3
      /\ result.total_samples # 0 /\ told.blocks = result.block_digests
      /\ told.stride = result.config.block_samples
  BY HashTold, ToldIsDecoded
<1>2. told.blocks = st.blocks /\ told.stride = st.config.block_samples /\ HashEnabled(st)
      /\ st.total_samples # 0 /\ st.attempted
  BY <1>1 DEF Ended, Finalized, HashEnabled
<1>3. st.config # None
  BY <1>1, <1>2 DEF Ended
<1> HIDE DEF told
<1>4. FlattenSeq(told.blocks) = SamplesOf(part)
  BY <1>2 DEF HashEnds
<1>5. OneShape(part)
  <2>1. heard \in Seq(world.frames)
    BY <1>1 DEF Ended
  <2>2. DOMAIN part = 1..k /\ \A i \in 1..k : part[i] = heard[i]
    BY <2>1
  <2>3. \A i \in DOMAIN part : Fits(st, part[i])
    BY <2>2 DEF HashEnds
  <2> QED BY <2>3, FittingIsOneShape
<1>6. \A b \in DOMAIN told.blocks :
        /\ Len(told.blocks[b]) \in 1..told.stride
        /\ b < Len(told.blocks) => Len(told.blocks[b]) = told.stride
  BY <1>2, <1>3 DEF HashEnds
<1> HIDE DEF part
<1>7. BlocksOf(part, told)
  BY <1>4, <1>5, <1>6 DEF BlocksOf
<1> QED BY <1>7 DEF part, told

\* A hash that is not marked truncated is of every sample that was heard and one that is
\* marked so of a beginning; levels are told of all the samples, and of none that no
\* meter can take.
THEOREM WholeIsTold == SweepSpec => []ToldOfTheWhole
<1>1. SweepInv => ToldOfTheWhole
  <2> SUFFICES ASSUME SweepInv PROVE ToldOfTheWhole
    OBVIOUS
  <2>1. ASSUME Reported, report.hash.skip = "none"
        PROVE  /\ report.hash.value.sampling = "full" => BlocksOf(heard, report.hash.value)
               /\ \E k \in 0..Len(heard) : BlocksOf(SubSeq(heard, 1, k), report.hash.value)
               /\ world.codecpar.usac => report.hash.value.decoder # "aac_fixed"
    <3>1. Ended(st, heard, world) /\ Finalized(st, result)
          /\ report.hash.value.decoder = result.name
          /\ report.hash.value.sampling = IF result.decode_truncated THEN "truncated" ELSE "full"
      BY <2>1, HashTold, ToldIsDecoded
    <3>2. PICK k \in 0..Len(heard) : (st.truncation = NoReason => k = Len(heard)) /\ HashEnds(st, heard, k)
      BY <3>1 DEF Ended
    <3>3. BlocksOf(SubSeq(heard, 1, k), report.hash.value)
      BY <2>1, <3>2, BlocksTold
    <3>4. ASSUME report.hash.value.sampling = "full" PROVE BlocksOf(heard, report.hash.value)
      <4>1. st.truncation = NoReason
        BY <3>1, <3>4 DEF Ended, Finalized
      <4>2. SubSeq(heard, 1, Len(heard)) = heard
        BY <3>1, SubSeqFull DEF Ended
      <4> QED BY <3>2, <3>3, <4>1, <4>2
    <3>5. world.codecpar.usac => report.hash.value.decoder # "aac_fixed"
      BY <3>1 DEF Ended, Finalized
    <3> QED BY <3>3, <3>4, <3>5
  <2>2. ASSUME Reported, NEW level \in {"edges", "dropouts", "true_peak", "integrated"},
               report[level].skip = "none"
        PROVE  st.metered = SamplesOf(heard) /\ OneShape(heard)
    <3>1. Ended(st, heard, world) /\ Finalized(st, result) /\ ~result.level_measurement_stopped
          /\ IF level \in {"edges", "dropouts"} THEN result.silence_measured ELSE result.loudness_measured
      BY <2>2, LevelTold, ToldIsDecoded
    <3>2. st.attempted /\ st.level_stop = NoReason
          /\ (st.detector.next > 0 \/ (st.config # None /\ CanMeter(st.config)))
      BY <3>1 DEF Ended, Finalized
    <3>3. ~(NothingObserved.next > 0)
      BY DEF NothingObserved
    <3>4. st.config # None /\ CanMeter(st.config)
      BY <3>1, <3>2, <3>3 DEF Ended, LevelsHold
    <3>5. st.metered = SamplesOf(heard)
      BY <3>1, <3>2, <3>4 DEF Ended, LevelsHold
    <3>6. HashEnds(st, heard, Len(heard)) /\ heard \in Seq(world.frames)
      BY <3>1, <3>2 DEF Ended
    <3>7. \A i \in DOMAIN heard : Fits(st, heard[i])
      BY <3>6, LenProperties DEF HashEnds
    <3> QED BY <3>5, <3>7, FittingIsOneShape
  <2>3. ASSUME Reported, report.partial, NEW check \in DOMAIN report \ {"partial"}
        PROVE  report[check].skip = "partial_scan"
    <3>1. report = ReportOfResult
      BY <2>3, ToldIsDecoded
    <3>2. Undecoded = "partial_scan"
      BY <2>3, <3>1 DEF ReportOfResult, Undecoded
    <3>3. \A measured, value : Levels(measured, value).skip = "partial_scan"
      BY <3>2 DEF Levels, Skip
    <3>4. SampleHash.skip = "partial_scan" /\ DecodeErrors.skip = "partial_scan"
      BY <3>2 DEF SampleHash, DecodeErrors, Skip
    <3>5. check \in {"hash", "edges", "dropouts", "true_peak", "integrated", "errors"}
      BY <2>3, <3>1 DEF ReportOfResult
    <3> QED BY <3>1, <3>3, <3>4, <3>5 DEF ReportOfResult
  <2>4. ASSUME st.config # None, Float(st.config.format), NEW k \in DOMAIN st.metered
        PROVE  ~Hostile(st.metered[k])
    <3>1. LevelsHold(st, heard, world)
      BY <2>4 DEF SweepInv, Sweeping, Over, Opened, Carries, Ended, Unopened
    <3> QED BY <2>4, <3>1 DEF LevelsHold
  <2> QED BY <2>1, <2>2, <2>3, <2>4 DEF ToldOfTheWhole
<1>2. SweepSpec => []SweepInv
  BY SweepInvariant
<1> QED BY <1>1, <1>2, PTL

===============================================================================
