------------------------------- MODULE Timeline -------------------------------
(***************************************************************************)
(* Files for the timeline checks, packet by packet, and what the checks    *)
(* promise of them.  `sent` is a file as its multiplexer meant it, on a    *)
(* clock that never wraps; what the analyzers get is Carried(sent), on     *)
(* MPEG-TS with 33-bit timestamps.  A `shape` says which files are made.   *)
(***************************************************************************)
EXTENDS AvSync

CONSTANTS Shapes     \* [is_ts, streams], the streams as in Mux

Media == {1, 2}
Kinds ==
    [tb : [num : Nat \ {0}, den : Nat \ {0}], limit : Nat, starts : SUBSET Nat, holes : SUBSET Nat,
     delays : SUBSET Nat, durations : SUBSET Nat, declares : SUBSET BOOLEAN, announces : SUBSET BOOLEAN,
     priming : Nat]
ASSUME ShapesAssumption == Shapes \subseteq [is_ts : BOOLEAN, streams : [Media -> Kinds]]

VARIABLES shape, sent

TimelineVars == <<shape, sent>>

-------------------------------------------------------------------------------
(* A file grows: a packet of `duration` is sent `hole` after the end of    *)
(* the one before it in decoding order, and presented `delay` later.  Its  *)
(* duration may be left to the reader, and it may announce the hole.       *)
NewStream(start) == [clock |-> start, packets |-> <<>>, announced |-> {}]

TimelineInit ==
    /\ shape \in Shapes
    /\ sent \in {<<NewStream(v), NewStream(a)>> :
                   v \in shape.streams[1].starts, a \in shape.streams[2].starts}

\* Packets of a PID begin at growing offsets of the file.
PesBytes == 10
\* No content comes within a turn of the 33-bit clock of the end of 64 bits, and no
\* file is longer than they count.
Moments == 0 .. MaxInt - Modulus

Mux(i) ==
    /\ Len(sent[i].packets) < shape.streams[i].limit
    /\ \E hole \in shape.streams[i].holes, delay \in shape.streams[i].delays, duration \in shape.streams[i].durations,
          declares \in shape.streams[i].declares, announces \in shape.streams[i].announces :
         LET n == Len(sent[i].packets) + 1
             dts == sent[i].clock + hole
             packet == [pts |-> dts + delay, dts |-> dts, duration |-> IF declares THEN duration ELSE 0,
                        pos |-> PesBytes * n]
         IN /\ dts + delay + duration \in Moments /\ PesBytes * (n + 1) <= MaxInt
            /\ announces => hole > 0
            /\ n = 1 => hole = 0
            /\ sent' = [sent EXCEPT ![i].clock = dts + duration, ![i].packets = Append(@, packet),
                                    ![i].announced = IF announces THEN @ \union {n} ELSE @]
    /\ UNCHANGED shape

MuxVideo == Mux(1)
MuxAudio == Mux(2)
TimelineNext == MuxVideo \/ MuxAudio

TimelineTypeOK ==
    /\ shape \in Shapes
    /\ sent \in [Media -> [clock : Nat, announced : SUBSET Nat,
                           packets : Seq([pts : Moments, dts : Moments, duration : Nat, pos : Nat])]]
    /\ \A i \in Media : /\ sent[i].announced \subseteq 2 .. Len(sent[i].packets)
                         /\ \A n \in DOMAIN sent[i].packets : /\ sent[i].packets[n].pos = PesBytes * n
                                                               /\ PesBytes * (n + 1) <= MaxInt

TimelineSpec == TimelineInit /\ [][TimelineNext]_TimelineVars

-------------------------------------------------------------------------------
(* The file the analyzers get.                                             *)
StreamOf(type, kind, stream, packets) ==
    [type |-> type, tb |-> kind.tb, packets |-> packets, declared |-> <<>>, dts_source |-> "demuxer",
     joined |-> {}, flags |-> [n \in 1 .. Cardinality(stream.announced) |->
                                 PesBytes * Nth(stream.announced, n) + 1],
     flags_truncated |-> FALSE, sample_rate |-> <<2000>>, skip_samples |-> 2 * kind.priming,
     initial_padding |-> 0, discard_padding |-> <<0>>, is_timecode |-> FALSE, timecode |-> <<>>]
FileOf(is_ts, packets) ==
    [is_ts |-> is_ts, partial |-> FALSE, ts_complete |-> TRUE, duration |-> <<>>,
     streams |-> <<StreamOf("video", shape.streams[1], sent[1], packets[1]),
                  StreamOf("audio", shape.streams[2], sent[2], packets[2])>>]

Wrapped(packets) ==
    [n \in DOMAIN packets |-> [packets[n] EXCEPT !.pts = @ % Modulus, !.dts = @ % Modulus]]
Carried == FileOf(shape.is_ts, [i \in Media |-> IF shape.is_ts THEN Wrapped(sent[i].packets) ELSE sent[i].packets])
\* The same content where timestamps have no end.
Whole == FileOf(FALSE, [i \in Media |-> sent[i].packets])

Heard(i) == sent[i].packets # <<>>
Pts(i) == [n \in DOMAIN sent[i].packets |-> sent[i].packets[n].pts]
Dts(i) == [n \in DOMAIN sent[i].packets |-> sent[i].packets[n].dts]
InOrder(i) == \A n \in 2 .. Len(Pts(i)) : Pts(i)[n - 1] < Pts(i)[n]
\* The packets of a stream in presentation order.
Shown(i) == Ascending(sent[i].packets, Pts(i))

-------------------------------------------------------------------------------
(* The wrap leaves no trace (unwrap.cpp).  No step of an axis may be taken *)
(* for another: one that crosses the wrap goes less than half the range    *)
(* ahead, one that does not goes at most half the range back.              *)
Era(t) == t \div Modulus
IsPlain(values) ==
    \A n \in 2 .. Len(values) :
        \/ Era(values[n]) = Era(values[n - 1]) /\ values[n] - values[n - 1] >= -HalfRange
        \/ Era(values[n]) = Era(values[n - 1]) + 1 /\ values[n] - values[n - 1] < HalfRange
\* Streams begin within half the range of each other, one of them before the wrap.
BeginTogether ==
    LET firsts == {Pts(i)[1] : i \in {j \in Media : Heard(j)}}
    IN firsts # {} => /\ Max(firsts) - Min(firsts) < HalfRange
                      /\ Min(firsts) < Modulus

\* What each stream is told by itself: a stream that begins after the wrap counts
\* from there.
FromFirstEra ==
  [i \in Media |->
    LET shift == IF Heard(i) THEN Modulus * Era(Pts(i)[1]) ELSE 0
    IN [n \in DOMAIN sent[i].packets |-> [sent[i].packets[n] EXCEPT !.pts = @ - shift, !.dts = @ - shift]]]
OfEachStream(file) ==
    [i \in Media |-> <<DtsMonotonic(file, file.streams[i]), PtsUnique(file, file.streams[i]),
                       Gaps(file, file.streams[i])>>]
Breaks(file) ==
    [i \in Media |->
       LET report == Discontinuities(file, file.streams[i])
           Spans(part) == IF part.value = <<>> THEN {} ELSE ToSet(part.value[1])
       IN [skip |-> report.discontinuities.skip,
           spans |-> Spans(report.discontinuities) \union Spans(report.flagged)]]
OfTheWhole(file) == <<StartDuration(file), JitterVfr(file), AvSyncReports(file)>>

(* A file whose timestamps wrap gets the reports of the same content whose *)
(* timestamps do not: starts, durations, jitter, profile and the drift of  *)
(* the sound, and of each stream its order, duplicates, gaps and jumps,    *)
(* whichever streams begin before the wrap and whichever after it.         *)
WrapIsInvisible ==
    (/\ shape.is_ts /\ BeginTogether
     /\ \A i \in Media : IsPlain(Pts(i)) /\ IsPlain(Dts(i)))
    => /\ OfTheWhole(Carried) = OfTheWhole(Whole)
       /\ OfEachStream(Carried) = OfEachStream(FileOf(FALSE, FromFirstEra))
       /\ Breaks(Carried) = Breaks(FileOf(FALSE, FromFirstEra))

-------------------------------------------------------------------------------
(* Gaps are holes (monotonic.cpp, emit_timeline_gaps): where every packet  *)
(* lasts until the next is presented there is none, however the packets    *)
(* differ in length and in whatever order they are read; and a gap is told *)
(* from one packet to another that begins after its end, with no packet    *)
(* presented between them and, where packets follow each other, none that  *)
(* lasts until then.                                                       *)
IsContinuous(i) ==
    LET shown == Shown(i)
    IN \A n \in 2 .. Len(shown) : shown[n].pts = shown[n - 1].pts + shown[n - 1].duration
Follows(i) ==
    LET shown == Shown(i)
    IN \A n \in 2 .. Len(shown) : shown[n].pts >= shown[n - 1].pts + shown[n - 1].duration
Told(report) == IF report.value = <<>> THEN {} ELSE ToSet(report.value[1])
GapsAreTheHoles ==
    \A i \in Media :
      \A gaps \in {Told(Gaps(Whole, Whole.streams[i]))} :
        LET packets == ToSet(sent[i].packets)
            Ms(t) == InMs(t, shape.streams[i].tb)
        IN /\ IsContinuous(i) => gaps = {}
           /\ \A gap \in gaps : \E p, q \in packets :
                /\ gap = <<Ms(p.pts), Ms(q.pts)>> /\ p.pts + p.duration < q.pts
                /\ \A other \in packets :
                     \/ other.pts >= q.pts
                     \/ other.pts <= p.pts /\ (Follows(i) => other.pts + other.duration < q.pts)

-------------------------------------------------------------------------------
(* Constant frame rate means the grid (cadence.cpp): below 200 packets a   *)
(* stream is cfr exactly when every packet is within one tick of its place *)
(* on the grid of equal intervals, halves rounded to even.                 *)
CfrMeansOnTheGrid ==
    \A i \in Media :
        LET times == Ascending(Pts(i), Pts(i))
            count == Len(times) - 1
            cadence == DeriveCadence(sent[i].packets, shape.streams[i].tb)
        IN count >= 1 /\ Len(times) < 200 /\ cadence.status = "ok" =>
             (cadence.cfr <=>
                \A n \in DOMAIN times :
                    Abs(times[n] - times[1] - RoundHalfEven((n - 1) * (Last(times) - times[1]), count)) <= 1)

-------------------------------------------------------------------------------
(* A jump is announced by the packet that ends it (discontinuities.cpp):   *)
(* where packets are read in the order they are presented, and their times *)
(* fit in milliseconds, the flagged jumps are those over announced holes,  *)
(* and all others gate.                                                    *)
AnnouncedJumpsAreFlagged ==
    \A i \in Media :
        LET report == Discontinuities(Carried, Carried.streams[i])
            Ms(n) == InMs(FromFirstEra[i][n].pts, shape.streams[i].tb)
            Spans(which) == {<<Ms(n - 1), Ms(n)>> : n \in {m \in 2 .. Len(Pts(i)) :
                                IsJump(Pts(i)[m] - Pts(i)[m - 1], shape.streams[i].tb) /\ m \in which}}
            others == DOMAIN Pts(i) \ sent[i].announced
        IN (/\ shape.is_ts /\ Heard(i) /\ InOrder(i) /\ IsPlain(Pts(i))
            /\ \A p \in ToSet(FromFirstEra[i]) : TicksToMs(p.pts, shape.streams[i].tb) # <<>>)
           => /\ ToSet(report.flagged.value[1]) = Spans(sent[i].announced)
              /\ ToSet(report.discontinuities.value[1]) = Spans(others)

-------------------------------------------------------------------------------
(* A file starts with its earliest stream (start_duration.cpp), whatever   *)
(* the timebases: where no product exceeds 64 bits, no stream starts       *)
(* before the origin and one starts there.                                 *)
OriginIsTheEarliest ==
    LET starts == StartDuration(Whole).starts
        heard == {i \in Media : Heard(i)}
        IsExact(i, p) == /\ TicksToMs(p.pts, shape.streams[i].tb) # <<>>
                         /\ \A j \in heard : Exact(p.pts, shape.streams[i].tb, shape.streams[j].tb)
    IN heard # {} /\ (\A i \in heard : \A p \in ToSet(sent[i].packets) : IsExact(i, p)) =>
         /\ \A i \in heard : starts.streams[i].skip = "none" /\ starts.streams[i].value[1] >= 0
         /\ \E i \in heard : starts.streams[i].value[1] = 0

-------------------------------------------------------------------------------
(* Sound without holes keeps step (av_sync.cpp): packets of one length     *)
(* that touch drift from the picture by the difference of their spans, at  *)
(* every checkpoint in proportion, whatever the size of the packets and    *)
(* wherever the checkpoints fall among them, as long as the priming is no  *)
(* longer than the packets that count and time may differ by, and the      *)
(* spans' product fits in 64 bits.                                         *)
IsEven(i) == \A p, q \in ToSet(sent[i].packets) : p.duration = q.duration /\ p.duration > 0
SpanOfSent(i) == Last(Shown(i)).pts + Last(Shown(i)).duration - Shown(i)[1].pts
ContinuousAudioDriftsByItsSpan ==
    LET priming == shape.streams[2].priming
        first == Shown(1)[1].pts
        Played(t) == Shown(2)[1].pts + priming
                       + Quotient((t - first) * (SpanOfSent(2) - priming), SpanOfSent(1))
    IN (/\ \A i \in Media : /\ Len(sent[i].packets) >= 2 /\ IsContinuous(i) /\ IsEven(i)
                            /\ shape.streams[i].tb = [num |-> 1, den |-> 1000]
        /\ priming < SpanOfSent(2) /\ priming <= DurationCap * sent[2].packets[1].duration
        /\ Fits(SpanOfSent(1) * SpanOfSent(2)) /\ Fits(2000 * (priming + 1)))
       => \A drift \in ToSet(AvSyncReports(Whole)[2].drift) : \A told \in ToSet(drift.value) :
            \A point \in ToSet(told.points) : point.offset = Played(point.t) - point.t

(* The line through the checkpoints is the one of least squares: its       *)
(* residuals are uncorrelated with the time.                               *)
IsLeastSquares(points, rate) ==
    LET k == Len(points)
        t == [n \in DOMAIN points |-> points[n].t - points[1].t]
        y == [n \in DOMAIN points |-> points[n].offset]
        products(f, g) == Total([n \in DOMAIN points |-> f[n] * g[n]])
    IN rate.den * (k * products(t, y) - Total(t) * Total(y)) * MsPerMinute
         = rate.num * (k * products(t, t) - Total(t) * Total(t))
LineIsOfLeastSquares ==
    \A drift \in {AvSyncReports(Whole)[2].drift} :
        ~shape.is_ts /\ drift # <<>> =>
            \A told \in ToSet(drift[1].value) : IsLeastSquares(told.points, told.fit.rate)
=============================================================================
