----------------------------- MODULE TimelineAxis -----------------------------
(***************************************************************************)
(* What every timeline check starts from (analyzers/timeline/unwrap.cpp,   *)
(* probe/cadence.cpp and the shared parts of monotonic.cpp and             *)
(* start_duration.cpp): the axes of a stream's packets, the 33-bit unwrap  *)
(* of MPEG-TS timestamps, the views the checks read, the cadence and the   *)
(* durations of a stream.                                                  *)
(*                                                                         *)
(* A packet is [pts, dts, duration, pos], in the order they were read; a   *)
(* timebase is [num, den]; a stream and a file are described in            *)
(* TimelineChecks.  An optional value is <<value>> or <<>>.  Arithmetic    *)
(* the code checks for overflow must stay in -MaxInt - 1 .. MaxInt, and    *)
(* the result is <<>> where it does not.  A definition introduced by       *)
(* "Fault:" is a seeded bug of the one after it.                           *)
(***************************************************************************)
EXTENDS Integers, Sequences, SequencesExt, FiniteSetsExt

CONSTANTS MaxInt,    \* INT64_MAX
          Modulus    \* kTsPtsWrapModulus

ASSUME TimelineAssumption ==
    /\ Modulus \in Nat \ {0} /\ Modulus % 2 = 0
    /\ MaxInt \in Nat /\ MaxInt > Modulus

Missing == -MaxInt - 1               \* AV_NOPTS_VALUE
HalfRange == Modulus \div 2          \* kTsPtsWrapHalfRange
Fits(n) == -MaxInt - 1 <= n /\ n <= MaxInt
Abs(n) == IF n < 0 THEN -n ELSE n
\* The quotient by a positive number, truncated as C++ does.
Quotient(a, b) == IF a < 0 THEN -((-a) \div b) ELSE a \div b

\* A time in whole milliseconds, and what the code makes of it.
InMs(ticks, tb) == Quotient(ticks * 1000 * tb.num, tb.den)
TicksToMs(ticks, tb) ==
    IF Fits(ticks * 1000) /\ Fits(ticks * 1000 * tb.num) THEN <<InMs(ticks, tb)>> ELSE <<>>

-------------------------------------------------------------------------------
(* Sequences by their places: the n-th of some places in ascending order   *)
(* of their keys, equal keys in the order of the places (std::sort over an *)
(* index breaks ties that way), and the elements at some places.           *)
Before(keys, j, i) == keys[j] < keys[i] \/ (keys[j] = keys[i] /\ j < i)
Rank(places, keys, i) == Cardinality({j \in places : Before(keys, j, i)}) + 1
Ranked(places, keys, n) == CHOOSE i \in places : Rank(places, keys, i) = n

\* The same sequence, its elements computed once.
Evaluated(seq) == SubSeq(seq, 1, Len(seq))
Ascending(seq, keys) == Evaluated([n \in DOMAIN seq |-> seq[Ranked(DOMAIN seq, keys, n)]])
Nth(places, n) == Ranked(places, [i \in places |-> i], n)
Kept(seq, places) == Evaluated([n \in 1 .. Cardinality(places) |-> seq[Nth(places, n)]])

-------------------------------------------------------------------------------
(* The 33-bit unwrap: an epoch is added when a timestamp falls by more     *)
(* than half the range below the one before it in read order.  A rise      *)
(* is never taken back.                                                    *)
NoEpoch == [prev |-> Missing, offset |-> 0, wraps |-> 0, overflowed |-> FALSE, unwrapped |-> <<>>]

\* Fault: exactly half the range counts as a wrap, and any rise takes it back.
UnwrapStepBothWays(u, raw) ==
    LET delta == raw - u.prev
        offset == IF u.prev = Missing THEN 0
                  ELSE IF delta <= -HalfRange THEN u.offset + Modulus
                  ELSE IF delta >= HalfRange THEN u.offset - Modulus ELSE u.offset
    IN [u EXCEPT !.prev = raw, !.offset = offset, !.unwrapped = Append(@, raw + offset),
                 !.wraps = IF offset > u.offset THEN @ + 1 ELSE @]

UnwrapStep(u, raw) ==
    LET delta == raw - u.prev
        falls == u.prev # Missing /\ Fits(delta) /\ delta < -HalfRange
        IsExact(offset) == /\ u.prev # Missing => Fits(delta)
                           /\ falls => offset # u.offset
                           /\ Fits(raw + offset)
        At(offset) ==
            [prev       |-> raw,
             offset     |-> offset,
             wraps      |-> IF offset # u.offset THEN u.wraps + 1 ELSE u.wraps,
             overflowed |-> u.overflowed \/ ~IsExact(offset),
             unwrapped  |-> Append(u.unwrapped, IF Fits(raw + offset) THEN raw + offset ELSE raw)]
    IN At(IF falls /\ Fits(u.offset + Modulus) THEN u.offset + Modulus ELSE u.offset)

UnwrapTimestamps(raws) == FoldLeft(UnwrapStep, NoEpoch, raws)

-------------------------------------------------------------------------------
(* One axis of a stream: its samples [index, value, pos] in read order.    *)
Samples(packets, axis) ==
    Kept([i \in DOMAIN packets |-> [index |-> i, value |-> packets[i][axis], pos |-> packets[i].pos]],
         {i \in DOMAIN packets : packets[i][axis] # Missing})
Values(samples) == [i \in DOMAIN samples |-> samples[i].value]

UnwrapAxis(samples) ==
    LET PutBack(u) == IF u.overflowed THEN <<>>
                      ELSE <<[i \in DOMAIN samples |-> [samples[i] EXCEPT !.value = u.unwrapped[i]]]>>
    IN PutBack(UnwrapTimestamps(Values(samples)))

\* The samples a per-stream check judges: unwrapped on MPEG-TS.
PrepareAxis(packets, axis, is_ts) ==
    LET Prepared(samples) == IF is_ts /\ samples # <<>> THEN UnwrapAxis(samples) ELSE <<samples>>
    IN Prepared(Samples(packets, axis))

\* The packets with the values of some samples put back.
WithAxis(packets, axis, samples) ==
    [i \in DOMAIN packets |->
       LET own == {n \in DOMAIN samples : samples[n].index = i}
       IN IF own = {} THEN packets[i] ELSE [packets[i] EXCEPT ![axis] = samples[Min(own)].value]]

\* Samples in presentation order.
Presented(samples) == Ascending(samples, Values(samples))
Intervals(values) == [i \in 1 .. Len(values) - 1 |-> values[i + 1] - values[i]]

-------------------------------------------------------------------------------
(* The packets of a file as the cross-stream checks read them.  Streams    *)
(* that begin after the wrap, while others begin before it, are one epoch  *)
(* late as a whole.                                                        *)
UnwrappedView(packets) ==
    LET Rejoined(pts, dts) == IF pts = <<>> \/ dts = <<>> THEN <<>>
                              ELSE <<WithAxis(WithAxis(packets, "pts", pts[1]), "dts", dts[1])>>
    IN Rejoined(PrepareAxis(packets, "pts", TRUE), PrepareAxis(packets, "dts", TRUE))

FirstRawPts(packets) ==
    LET samples == Samples(packets, "pts") IN IF samples = <<>> THEN Missing ELSE samples[1].value

\* Fault: streams are as they are, whatever epoch the others begin in.
NoEpochApart(streams) == {}
\* The streams that begin an epoch after the others.
EpochApart(streams) ==
    LET Late(firsts) ==
          LET known == ToSet(firsts) \ {Missing}
              spread == Max(known) - Min(known)
          IN IF known = {} \/ ~Fits(spread) \/ spread <= HalfRange THEN {}
             ELSE {i \in DOMAIN streams : firsts[i] # Missing /\ firsts[i] < HalfRange}
    IN Late([i \in DOMAIN streams |-> FirstRawPts(streams[i].packets)])

Later(packets) ==
    LET Shift(t) == IF t = Missing THEN Missing ELSE t + Modulus
    IN IF \A i \in DOMAIN packets : Fits(Shift(packets[i].pts)) /\ Fits(Shift(packets[i].dts))
       THEN <<[i \in DOMAIN packets |->
                 [packets[i] EXCEPT !.pts = Shift(packets[i].pts), !.dts = Shift(packets[i].dts)]]>>
       ELSE <<>>

\* make_timeline_packet_views: of each stream its packets, or <<>> on overflow.
PacketViews(streams, is_ts) ==
    LET Moved(own, late) == IF late /\ own # <<>> THEN Later(own[1]) ELSE own
    IN [i \in DOMAIN streams |->
          IF is_ts THEN Moved(UnwrappedView(streams[i].packets), i \in EpochApart(streams))
          ELSE <<streams[i].packets>>]

-------------------------------------------------------------------------------
(* derive_cadence: the mode of the intervals, smallest first, and whether  *)
(* the timestamps stay on the grid of equal intervals over their span.     *)
NoCadence(status) ==
    [status |-> status, axis |-> "pts", nominal |-> 0, intervals |-> <<>>, span |-> 0, cfr |-> FALSE]

Count(seq, x) == Cardinality({i \in DOMAIN seq : seq[i] = x})
Mode(intervals) ==
    LET all == ToSet(intervals)
    IN Min({d \in all : \A e \in all : Count(intervals, e) <= Count(intervals, d)})

\* Fault: halves are always rounded up.
ConformsRoundingUp(numerator, denominator, delta) ==
    /\ 2 * numerator >= denominator * (2 * (delta - 1) - 1)
    /\ 2 * numerator < denominator * (2 * (delta + 1) + 1)
\* conforms_to_grid: delta is within one tick of numerator/denominator rounded half to even.
ConformsToGrid(numerator, denominator, delta) ==
    LET low == delta - 1
        high == delta + 1
        lowBound == denominator * (2 * low - 1)
        highBound == denominator * (2 * high + 1)
    IN /\ 2 * numerator > lowBound \/ (2 * numerator = lowBound /\ low % 2 = 0)
       /\ 2 * numerator < highBound \/ (2 * numerator = highBound /\ high % 2 = 0)

CfrProportion == <<995, 1000>>       \* kCfrMatchingProportionNum/Den

CadenceOf(axis, values) ==
    LET intervals == Intervals(values)
        span == Last(values) - values[1]
        grid == [n \in DOMAIN values |-> (n - 1) * span]
        conforming == Cardinality({n \in DOMAIN values :
                          ConformsToGrid(grid[n], Len(intervals), values[n] - values[1])})
        products == ToSet(intervals) \union {span} \union {2 * grid[n] : n \in DOMAIN grid}
                    \union {Len(intervals) * (2 * (values[n] - values[1]) + 3) : n \in DOMAIN values}
    IN IF \E n \in products : ~Fits(n) THEN NoCadence("insufficient_data")
       ELSE [status |-> "ok", axis |-> axis, nominal |-> Mode(intervals), intervals |-> intervals,
             span |-> span,
             cfr |-> conforming * CfrProportion[2] >= Len(values) * CfrProportion[1]]

DeriveCadence(packets, tb) ==
    LET Sorted(values) == Ascending(values, values)
        Chosen(pts, dts) ==
            LET axis == IF Len(pts) >= 2 THEN "pts" ELSE "dts"
                values == IF axis = "pts" THEN pts ELSE dts
            IN IF tb.num <= 0 \/ tb.den <= 0 THEN NoCadence("insufficient_data")
               ELSE IF pts = <<>> /\ dts = <<>> THEN NoCadence("no_timing_data")
               ELSE IF Len(values) < 2 THEN NoCadence("insufficient_data")
               ELSE CadenceOf(axis, Sorted(values))
    IN Chosen(Values(Samples(packets, "pts")), Values(Samples(packets, "dts")))

-------------------------------------------------------------------------------
(* reconstruct_packet_durations: in presentation order, the declared       *)
(* duration of a packet, else the time to the next one, else the mode.     *)
(* Packets of equal time keep an order std::sort may give them.            *)
Reconstructed(packets, tb) ==
    LET Lasting(order, cadence) ==
          LET Declared(j) == packets[order[j].index].duration
              Delta(j) == order[j + 1].value - order[j].value
              Ends(j) == IF j < Len(order) THEN Fits(Delta(j)) ELSE cadence.status = "ok"
              Duration(j) == IF Declared(j) > 0 THEN Declared(j)
                             ELSE IF j < Len(order) THEN Delta(j) ELSE cadence.nominal
          IN IF order = <<>> \/ \E j \in DOMAIN order : Declared(j) <= 0 /\ ~Ends(j) THEN <<>>
             ELSE <<[j \in DOMAIN order |-> [pts |-> order[j].value, duration |-> Duration(j),
                                             declared |-> Declared(j) > 0]]>>
    IN Lasting(Presented(Samples(packets, "pts")), DeriveCadence(packets, tb))
=============================================================================
