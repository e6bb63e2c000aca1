---------------------------- MODULE TimelineChecks ----------------------------
(***************************************************************************)
(* The timeline checks of one file: starts, durations, order, gaps, wraps, *)
(* discontinuities, jitter, timecode (analyzers/timeline).  A file is      *)
(*   [is_ts, partial, ts_complete, duration, streams]                      *)
(* with the container's declared duration in ticks of ContainerTimebase;   *)
(* a stream is                                                             *)
(*   [type, tb, packets, declared, dts_source, joined, flags,              *)
(*    flags_truncated, sample_rate, skip_samples, initial_padding,         *)
(*    discard_padding, is_timecode, timecode]                              *)
(* with the indices of the packets that joined a PES header, the offsets   *)
(* of the packets of its PID that announce a discontinuity, and, for a     *)
(* tmcd track, what its metadata says.  A stream stands for its scope.     *)
(*                                                                         *)
(* A report is [skip, value], a value <<v>> or <<>>.                       *)
(***************************************************************************)
EXTENDS TimelineAxis

CONSTANTS DiscontinuityMs,      \* kDiscontinuityThresholdMs
          IncoherenceMs,        \* kDurationIncoherenceThresholdMs
          JitterScale,          \* 2 ^ kJitterSigmaFixedShift
          ContainerTimebase     \* kContainerDurationTimebase

Reports(value) == [skip |-> "none", value |-> <<value>>]
Skips(reason) == [skip |-> reason, value |-> <<>>]

\* Streams with a scope, and those of them whose order is judged.
Scoped(file) == {i \in DOMAIN file.streams : file.streams[i].type # "attachment"}
Timed(file) == {i \in Scoped(file) : file.streams[i].type # "subtitle"}

-------------------------------------------------------------------------------
(* timeline.start and timeline.duration (start_duration.cpp).              *)
FirstPresented(packets) ==
    LET Least(values) == IF values = {} THEN <<>> ELSE <<Min(values)>>
    IN Least(ToSet(Values(Samples(packets, "pts"))))

Exact(ticks, tb, other) == Fits(ticks * tb.num) /\ Fits(ticks * tb.num * other.den)
\* Fault: ticks are compared as they are.
IsEarlierInTicks(a, b) == a.first < b.first
IsEarlier(a, b) == a.first * a.tb.num * b.tb.den < b.first * b.tb.num * a.tb.den

\* The earliest of some candidates [first, tb], of equals the first, or <<>>.
Earlier(best, c) ==
    IF best = <<>> \/ ~Exact(c.first, c.tb, best[1].tb) \/ ~Exact(best[1].first, best[1].tb, c.tb) THEN <<>>
    ELSE IF IsEarlier(c, best[1]) THEN <<c>> ELSE best
GlobalOrigin(candidates) == FoldLeft(Earlier, <<candidates[1]>>, Tail(candidates))

\* Of each stream its start, given where each is first presented and the origin.
StartsFrom(file, views, firsts, originMs) ==
    LET Why(i) == IF views[i] = <<>> THEN "insufficient_data" ELSE "no_timing_data"
        Relative(own) == IF own # <<>> /\ Fits(own[1] - originMs[1]) THEN Reports(own[1] - originMs[1])
                         ELSE Skips("insufficient_data")
    IN CASE \A i \in Scoped(file) : firsts[i] = <<>> ->
              [origin |-> Skips(IF \E i \in Scoped(file) : views[i] = <<>>
                                THEN "insufficient_data" ELSE "no_timing_data"),
               streams |-> [i \in Scoped(file) |-> Skips(Why(i))]]
         [] OTHER ->
              IF originMs = <<>>
              THEN [origin |-> Skips("insufficient_data"),
                    streams |-> [i \in Scoped(file) |->
                                   Skips(IF firsts[i] # <<>> THEN "insufficient_data" ELSE Why(i))]]
              ELSE [origin |-> Reports(originMs[1]),
                    streams |-> [i \in Scoped(file) |->
                                   IF firsts[i] = <<>> THEN Skips(Why(i))
                                   ELSE Relative(TicksToMs(firsts[i][1], file.streams[i].tb))]]

Starts(file, views) ==
    LET Candidates(firsts) ==
          Kept([i \in DOMAIN file.streams |-> [first |-> firsts[i][1], tb |-> file.streams[i].tb]],
               {i \in Scoped(file) : firsts[i] # <<>>})
        Origin(candidates) == IF candidates = <<>> THEN <<>> ELSE GlobalOrigin(candidates)
        OriginMs(origin) == IF origin = <<>> THEN <<>> ELSE TicksToMs(origin[1].first, origin[1].tb)
        From(firsts) == StartsFrom(file, views, firsts, OriginMs(Origin(Candidates(firsts))))
    IN From([i \in DOMAIN file.streams |-> IF views[i] = <<>> THEN <<>> ELSE FirstPresented(views[i][1])])

\* The first pair of declared and computed durations that disagree.
Coherence(container, stream, computed) ==
    LET tested == SelectSeq(<<<<"container_vs_stream", container, stream>>,
                              <<"container_vs_computed", container, computed>>,
                              <<"stream_vs_computed", stream, computed>>>>,
                            LAMBDA pair : pair[2] # <<>> /\ pair[3] # <<>>)
        disagreeing == SelectSeq(tested, LAMBDA pair : Abs(pair[2][1] - pair[3][1]) > IncoherenceMs)
    IN IF \E pair \in ToSet(tested) : ~Fits(pair[2][1] - pair[3][1]) THEN Skips("insufficient_data")
       ELSE Reports(IF disagreeing = <<>> THEN "coherent" ELSE disagreeing[1][1])

ComputedTicks(durations, first) == Last(durations).pts + Last(durations).duration - first

NoDuration(reason) == [duration |-> Skips(reason), coherence |-> Skips(reason), source |-> "none"]
\* A stream's duration, given its packets' and where it is first presented.
DurationOver(file, stream, durations, first) ==
    LET last == Last(durations)
        ticks == ComputedTicks(durations, first)
        container == IF file.duration = <<>> THEN <<>> ELSE TicksToMs(file.duration[1], ContainerTimebase)
        declared == IF stream.declared = <<>> THEN <<>> ELSE TicksToMs(stream.declared[1], stream.tb)
        Computed(computed) ==
            IF computed = <<>> THEN NoDuration("insufficient_data")
            ELSE [duration  |-> Reports(computed[1]),
                  coherence |-> Coherence(container, declared, computed),
                  source    |-> IF \A d \in ToSet(durations) : d.declared THEN "declared" ELSE "reconstructed"]
    IN Computed(IF Fits(last.pts + last.duration) /\ Fits(ticks) THEN TicksToMs(ticks, stream.tb) ELSE <<>>)

Duration(file, stream, view) ==
    LET Over(first, durations) ==
          IF view = <<>> THEN NoDuration("insufficient_data")
          ELSE IF first = <<>> THEN NoDuration("no_timing_data")
          ELSE IF durations = <<>> THEN NoDuration("insufficient_data")
          ELSE DurationOver(file, stream, durations[1], first[1])
    IN Over(FirstPresented(view[1]), Reconstructed(view[1], stream.tb))

\* run_timeline_start_duration
StartDuration(file) ==
    LET From(views) == [starts    |-> Starts(file, views),
                        durations |-> [i \in Scoped(file) |-> Duration(file, file.streams[i], views[i])]]
    IN IF file.partial
       THEN [starts    |-> [origin |-> Skips("partial_scan"),
                            streams |-> [i \in Scoped(file) |-> Skips("partial_scan")]],
             durations |-> [i \in Scoped(file) |-> NoDuration("partial_scan")]]
       ELSE From(PacketViews(file.streams, file.is_ts))

-------------------------------------------------------------------------------
(* timeline.dts_monotonic, pts_unique, gaps and wrap_events                *)
(* (monotonic.cpp).                                                        *)
Violations(values) == Cardinality({i \in 2 .. Len(values) : values[i] <= values[i - 1]})
Duplicates(values) == Len(values) - Cardinality(ToSet(values))

\* The samples whose decoding time is the container's own.
Joined(stream, samples) == SelectSeq(samples, LAMBDA sample : sample.index \in stream.joined)

DtsMonotonic(file, stream) ==
    LET Judged(samples) == IF samples = <<>> THEN Skips("no_timing_data") ELSE Reports(Violations(Values(samples)))
        OfAxis(axis) ==
            IF (file.is_ts /\ stream.dts_source = "container_unavailable") \/ axis = <<>>
            THEN Skips("insufficient_data")
            ELSE Judged(IF file.is_ts /\ stream.dts_source = "container_pes" THEN Joined(stream, axis[1]) ELSE axis[1])
    IN OfAxis(PrepareAxis(stream.packets, "dts", file.is_ts))

PtsUnique(file, stream) ==
    LET OfAxis(axis) == IF axis = <<>> THEN Skips("insufficient_data")
                        ELSE IF axis[1] = <<>> THEN Skips("no_timing_data") ELSE Reports(Duplicates(Values(axis[1])))
    IN OfAxis(PrepareAxis(stream.packets, "pts", file.is_ts))

GapNominalMultiplier == 2      \* kGapNominalMultiplier
GapSlackTicks == 1             \* kGapDeclaredDurationSlackTicks
\* Fault: only the usual interval counts, not how long a packet says it lasts.
IsGapBesideNominal(prev, cur, nominal) == cur.pts - prev.pts > GapNominalMultiplier * nominal
IsGap(prev, cur, nominal) ==
    cur.pts - prev.pts > Max({GapNominalMultiplier * nominal, prev.duration + GapSlackTicks})

\* Spans between neighbours in presentation order, in milliseconds, or <<>>.
SpansMs(pairs, tb) ==
    LET Ms(t) == TicksToMs(t, tb)
    IN IF \E n \in DOMAIN pairs : Ms(pairs[n][1]) = <<>> \/ Ms(pairs[n][2]) = <<>> THEN <<>>
       ELSE <<[n \in DOMAIN pairs |-> <<Ms(pairs[n][1])[1], Ms(pairs[n][2])[1]>>]>>

\* The gaps between packets [pts, duration] in presentation order.
GapsAmong(all, cadence, tb) ==
    LET \* Subscripts of the packets a gap follows.
        after == {j \in 1 .. Len(all) - 1 : IsGap(all[j], all[j + 1], cadence.nominal)}
        exact == Fits(GapNominalMultiplier * cadence.nominal) /\
                 \A j \in 1 .. Len(all) - 1 : /\ Fits(all[j + 1].pts - all[j].pts)
                                              /\ Fits(all[j].duration + GapSlackTicks)
        Told(spans) == IF ~exact \/ spans = <<>> THEN Skips("insufficient_data") ELSE Reports(spans[1])
    IN Told(SpansMs(Kept([j \in 1 .. Len(all) - 1 |-> <<all[j].pts, all[j + 1].pts>>], after), tb))

Gaps(file, stream) ==
    LET Among(cadence, durations) ==
          IF cadence.status # "ok" THEN Skips("insufficient_data")
          ELSE IF durations = <<>> THEN Reports(<<>>)
          ELSE IF Len(durations[1]) < 2 THEN Reports(<<>>)
          ELSE GapsAmong(durations[1], cadence, stream.tb)
        Of(packets) == Among(DeriveCadence(packets, stream.tb), Reconstructed(packets, stream.tb))
        OfAxis(axis) == IF axis = <<>> THEN Skips("insufficient_data")
                        ELSE IF axis[1] = <<>> THEN Skips("no_timing_data")
                        ELSE Of(WithAxis(stream.packets, "pts", axis[1]))
    IN OfAxis(PrepareAxis(stream.packets, "pts", file.is_ts))

WrapEvents(file, stream) ==
    LET Told(u) == IF ~file.is_ts THEN Skips("not_applicable_container")
                   ELSE IF u.unwrapped = <<>> THEN Skips("no_timing_data")
                   ELSE IF u.overflowed THEN Skips("insufficient_data") ELSE Reports(u.wraps)
    IN Told(UnwrapTimestamps(Values(Samples(stream.packets, "pts"))))

\* run_timeline_monotonic
Monotonic(file) ==
    [i \in Timed(file) |->
       IF file.partial
       THEN [dts_monotonic |-> Skips("partial_scan"), pts_unique |-> Skips("partial_scan"),
             gaps |-> Skips("partial_scan"), wrap_events |-> Skips("partial_scan")]
       ELSE LET stream == file.streams[i]
            IN [dts_monotonic |-> DtsMonotonic(file, stream), pts_unique |-> PtsUnique(file, stream),
                gaps |-> Gaps(file, stream), wrap_events |-> WrapEvents(file, stream)]]

-------------------------------------------------------------------------------
(* timeline.discontinuities and .flagged (discontinuities.cpp): on         *)
(* MPEG-TS a jump is flagged when a packet that announces it lies in the   *)
(* bytes of the packet after the jump.                                     *)
IsJump(interval, tb) == interval * tb.num * 1000 > DiscontinuityMs * tb.den

\* Indices in a presentation order of the samples a jump leads to.
Jumps(order, tb) == {j \in 2 .. Len(order) : IsJump(order[j].value - order[j - 1].value, tb)}
JumpsAreExact(order, tb) ==
    \A j \in 2 .. Len(order) :
        LET interval == order[j].value - order[j - 1].value
        IN Fits(interval) /\ Fits(interval * tb.num) /\ Fits(interval * tb.num * 1000)

\* Where the packet after packet i begins in the file.
NextPos(packets, i) == IF i < Len(packets) THEN packets[i + 1].pos ELSE MaxInt
\* Fault: the announcement is looked for in the packet before.
IsFlaggedBefore(stream, sample) ==
    sample.index > 1 /\ \E offset \in ToSet(stream.flags) :
        stream.packets[sample.index - 1].pos <= offset /\ offset < sample.pos
IsFlagged(stream, sample) ==
    \E offset \in ToSet(stream.flags) : sample.pos <= offset /\ offset < NextPos(stream.packets, sample.index)

Both(gating, flagged) == [discontinuities |-> gating, flagged |-> flagged]

\* What both checks say, or the one that other containers do not have.
Alike(file, report) == Both(report, IF file.is_ts THEN report ELSE Skips("not_applicable_container"))

\* The jumps between samples in presentation order.
JumpsAmong(file, stream, order, jumps) ==
    LET Steps == [j \in DOMAIN order |-> <<order[Max({1, j - 1})].value, order[j].value>>]
        Spans(some) == SpansMs(Kept(Steps, some), stream.tb)
        Flagged(j) == file.is_ts /\ IsFlagged(stream, order[j])
    IN IF ~JumpsAreExact(order, stream.tb) \/ Spans(jumps) = <<>> THEN Alike(file, Skips("insufficient_data"))
       ELSE Both(Reports(Spans({j \in jumps : ~Flagged(j)})[1]),
                 IF file.is_ts THEN Reports(Spans({j \in jumps : Flagged(j)})[1])
                 ELSE Skips("not_applicable_container"))

Discontinuities(file, stream) ==
    LET Among(order) == JumpsAmong(file, stream, order, Jumps(order, stream.tb))
        OfAxis(axis) ==
            IF (file.is_ts /\ stream.flags_truncated) \/ axis = <<>> THEN Alike(file, Skips("insufficient_data"))
            ELSE IF axis[1] = <<>> THEN Alike(file, Skips("no_timing_data")) ELSE Among(Presented(axis[1]))
    IN CASE file.partial -> Both(Skips("partial_scan"), Skips("partial_scan"))
         [] ~file.partial /\ file.is_ts /\ ~file.ts_complete -> Both(Skips("partial_scan"), Skips("partial_scan"))
         [] OTHER -> OfAxis(PrepareAxis(stream.packets, "pts", file.is_ts))

\* run_timeline_discontinuities, and run_timeline_discontinuities_ts
AllDiscontinuities(file) == [i \in Timed(file) |-> Discontinuities(file, file.streams[i])]

-------------------------------------------------------------------------------
(* timeline.jitter and timeline.vfr_profile (jitter_vfr.cpp): how far each *)
(* interval is from the ideal one, span / count, on the cadence's axis.    *)
BinNames == {"on_grid", "one_tick", "one_percent", "two_x", "three_x", "longer"}

Bin(interval, num, den) ==
    LET scaled == interval * den
        off == Abs(scaled - num)
    IN CASE off < den -> "on_grid"
         [] off >= den /\ off < 2 * den -> "one_tick"
         [] OTHER -> IF off * 100 <= num THEN "one_percent"
                     ELSE IF scaled > num /\ scaled <= 2 * num THEN "two_x"
                     ELSE IF scaled > num /\ scaled <= 3 * num THEN "three_x" ELSE "longer"

RoundHalfEven(a, b) ==
    LET floor == a \div b
        rest == a % b
    IN IF 2 * rest > b \/ (2 * rest = b /\ floor % 2 = 1) THEN floor + 1 ELSE floor

\* What an interval is off, in 1/JitterScale ticks: nothing below one tick.
DeviationFixed(interval, num, den) ==
    LET off == Abs(interval * den - num)
    IN IF off < den THEN 0
       ELSE (off \div den) * JitterScale + RoundHalfEven((off % den) * JitterScale, den)

SquareRoot(n) == CHOOSE r \in 0 .. n : r * r <= n /\ (r + 1) * (r + 1) > n

Jitter(cadence) ==
    LET count == Len(cadence.intervals)
        off == [n \in DOMAIN cadence.intervals |-> DeviationFixed(cadence.intervals[n], cadence.span, count)]
        squares == FoldFunction(LAMBDA d, sum : sum + d * d, 0, off)
        exact == /\ \A n \in DOMAIN off : Fits(cadence.intervals[n] * count - cadence.span) /\ Fits(off[n])
                 /\ Fits(squares)
    IN IF exact THEN Reports([sigma |-> SquareRoot(squares \div count), largest |-> Max(ToSet(off))])
       ELSE Skips("insufficient_data")

Profile(cadence) ==
    LET count == Len(cadence.intervals)
        Off(n) == Abs(cadence.intervals[n] * count - cadence.span)
        bins == [n \in DOMAIN cadence.intervals |-> Bin(cadence.intervals[n], cadence.span, count)]
    IN IF \A n \in DOMAIN bins : Off(n) < 2 * count \/ Fits(100 * Off(n))
       THEN Reports([bin \in BinNames |-> Count(bins, bin)]) ELSE Skips("insufficient_data")

\* run_timeline_jitter_vfr
JitterVfr(file) ==
    LET Neither(reason) == [jitter |-> Skips(reason), profile |-> Skips(reason)]
        OfCadence(cadence) ==
            IF cadence.status # "ok" THEN Neither(cadence.status)
            ELSE [jitter |-> IF cadence.cfr THEN Jitter(cadence) ELSE Skips("vfr"), profile |-> Profile(cadence)]
        OfView(view, tb) == IF view = <<>> THEN Neither("insufficient_data") ELSE OfCadence(DeriveCadence(view[1], tb))
        OfViews(views) == [i \in Timed(file) |-> OfView(views[i], file.streams[i].tb)]
    IN IF file.partial THEN [i \in Timed(file) |-> Neither("partial_scan")]
       ELSE OfViews(PacketViews(file.streams, file.is_ts))

-------------------------------------------------------------------------------
(* timeline.timecode and .value (timecode.cpp): what the first tmcd track  *)
(* says, or that there is none.                                            *)
Timecode(file) ==
    LET tracks == SelectSeq(file.streams, LAMBDA stream : stream.is_timecode)
    IN IF tracks = <<>> THEN <<>> ELSE tracks[1].timecode
=============================================================================
