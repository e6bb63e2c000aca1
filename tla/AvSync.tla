-------------------------------- MODULE AvSync --------------------------------
(***************************************************************************)
(* timeline.av_offset, av_drift and av_drift.pattern (av_sync.cpp): how    *)
(* far each audio stream starts from the primary video stream, and how     *)
(* that changes over the file, by a line through Checkpoints points.  All  *)
(* arithmetic from the fit on is on milliseconds, the only timebase        *)
(* run_timeline_av_sync gives fit_drift.                                   *)
(***************************************************************************)
EXTENDS TimelineChecks

CONSTANTS Checkpoints,           \* kDriftCheckpointCount
          DriftEpsilonMs,        \* kDriftEpsilonMs
          MsPerMinute,           \* 60000
          MaxDriftDenominator,   \* kMaxDriftDenominator
          MagnitudeDenominator   \* kDriftAdjustedMagnitudeDen

ASSUME AvSyncAssumption ==
    /\ Checkpoints \in Nat /\ Checkpoints >= 2
    /\ MsPerMinute \in Nat \ {0}

DriftRateEpsilon == <<1, 5>>     \* kDriftRateEpsilonNum/DenMsPerMin
DurationCap == 2                 \* kNominalDurationCapMultiplier

-------------------------------------------------------------------------------
(* What a stream's packets cover: [pts, durations, nominal, span], in      *)
(* presentation order, the span <<ticks>> or <<>>.                         *)
EffectiveDuration(order, packets, j) ==
    LET declared == packets[order[j].index].duration
        interval == IF j < Len(order) THEN order[j + 1].value - order[j].value
                    ELSE IF j > 1 THEN order[j].value - order[j - 1].value ELSE 0
    IN IF declared > 0 THEN declared ELSE IF Fits(interval) /\ interval > 0 THEN interval ELSE 0

Median(numbers) == IF numbers = <<>> THEN 0 ELSE Ascending(numbers, numbers)[Len(numbers) \div 2 + 1]

PtsSpan(packets) ==
    LET Over(pts, durations) ==
          LET end == Last(pts) + Last(durations)
              covered == /\ Len(pts) >= 2
                         /\ Fits(end) /\ Fits(end - pts[1]) /\ end > pts[1]
          IN [pts |-> pts, durations |-> durations,
              nominal |-> Median(Kept(durations, {j \in DOMAIN durations : durations[j] > 0})),
              span |-> IF covered THEN <<end - pts[1]>> ELSE <<>>]
        InOrder(order) == Over(Values(order), [j \in DOMAIN order |-> EffectiveDuration(order, packets, j)])
    IN InOrder(Presented(Samples(packets, "pts")))

-------------------------------------------------------------------------------
(* Priming: what an encoder put before the content of an audio stream, and *)
(* padding what it put after it, in samples and in ticks.                  *)
PrimingSamples(stream) ==
    CASE stream.skip_samples > 0 -> <<stream.skip_samples>>
      [] stream.skip_samples <= 0 /\ stream.initial_padding > 0 -> <<stream.initial_padding>>
      [] OTHER -> <<>>

\* Fault: samples are taken for ticks.
SamplesAreTicks(samples, rate, tb) == IF samples = <<>> THEN <<>> ELSE samples
\* priming_samples_to_ticks: to the nearest tick.
SamplesToTicks(samples, rate, tb) ==
    LET num == samples[1] * tb.den
        den == rate[1] * tb.num
    IN IF samples = <<>> \/ rate = <<>> THEN <<>>
       ELSE IF samples[1] < 0 \/ rate[1] <= 0 \/ ~Fits(num) \/ ~Fits(den) \/ ~Fits(num + den \div 2) THEN <<>>
       ELSE <<(num + den \div 2) \div den>>

\* span_ticks_for_basis: [declared, raw, trimmed]; the declared span is the
\* raw one without priming and padding where both are known.
SpanBasis(declared, covered, priming, padding) ==
    LET rest == covered.span[1] - priming[1] - padding[1]
        trimmed == IF covered.span = <<>> \/ priming = <<>> \/ padding = <<>> THEN FALSE
                   ELSE Fits(covered.span[1] - priming[1]) /\ Fits(rest) /\ rest > 0
    IN [raw |-> covered.span, trimmed |-> trimmed,
        declared |-> IF trimmed THEN <<rest>>
                     ELSE IF declared # <<>> /\ declared[1] > 0 THEN declared ELSE <<>>]

SpanOf(basis, prefers_declared) ==
    LET first == IF prefers_declared THEN basis.declared ELSE basis.raw
        second == IF prefers_declared THEN basis.raw ELSE basis.declared
    IN IF first # <<>> THEN first[1] ELSE second[1]

-------------------------------------------------------------------------------
(* The point of the audio that belongs to a point of the video.            *)
\* The last of the sorted times that is below some time, or 0.
Below(times, t) == Cardinality({j \in DOMAIN times : times[j] < t})

NearestTick(times, t) ==
    LET lower == Below(times, t)
    IN IF lower = 0 THEN times[1]
       ELSE IF lower = Len(times) THEN Last(times)
       ELSE IF times[lower + 1] - t < t - times[lower] THEN times[lower + 1] ELSE times[lower]

\* Fault: every point is moved to where a packet begins.
ClampToAStart(covered, t) == NearestTick(covered.pts, t)
\* clamp_into_nearest_packet: t where a packet covers it, else the nearer edge.
\* A duration of more than twice the nominal one is a hole the demuxer filled.
Clamp(covered, t) ==
    LET below == Below(covered.pts, t)
        lower == IF below < Len(covered.pts) /\ covered.pts[below + 1] = t THEN below + 1 ELSE below
        upper == below + 1
        cap == DurationCap * covered.nominal
        duration == IF covered.nominal > 0 /\ Fits(cap) /\ cap < covered.durations[lower]
                    THEN cap ELSE covered.durations[lower]
        end == covered.pts[lower] + covered.durations[lower]
    IN IF lower = 0 THEN covered.pts[upper]
       ELSE IF Fits(covered.pts[lower] + duration) /\ t < covered.pts[lower] + duration THEN t
       ELSE IF upper > Len(covered.pts) THEN end
       ELSE IF covered.pts[upper] - t < t - end THEN covered.pts[upper] ELSE end

\* index_proportional_raw_ticks: the packet at the same share of the packets.
ByOrdinal(pts, delta, span) ==
    LET last == Len(pts) - 1
        index == Quotient(delta * last + span \div 2, span)
    IN IF Fits(delta * last) /\ Fits(delta * last + span \div 2)
       THEN pts[1 + Max({0, Min({index, last})})] ELSE pts[1]

\* Where time and count disagree by more than two packets, count decides.
AudioPoint(covered, t, delta, span) ==
    LET cap == DurationCap * covered.nominal
        Either(clamped, ordinal) ==
            IF /\ Len(covered.pts) >= 2 /\ covered.nominal > 0
               /\ Fits(clamped - ordinal) /\ Fits(cap) /\ Abs(clamped - ordinal) > cap
            THEN ordinal ELSE clamped
    IN Either(Clamp(covered, t), ByOrdinal(covered.pts, delta, span))

\* Checkpoint k: [t, offset] in milliseconds, or <<>>.
Checkpoint(k, video, audio) ==
    LET target == video.start + Quotient(k * video.span, Checkpoints - 1)
        Told(videoMs, audioMs) ==
            IF videoMs = <<>> \/ audioMs = <<>> THEN <<>>
            ELSE IF ~Fits(audioMs[1] - videoMs[1]) THEN <<>>
            ELSE <<[t |-> videoMs[1], offset |-> audioMs[1] - videoMs[1]]>>
        Beside(t, delta, aligned, point) ==
            IF \E n \in {k * video.span, target, delta, delta * audio.span, aligned, aligned - audio.shift, point} :
                 ~Fits(n)
            THEN <<>> ELSE Told(TicksToMs(t, video.tb), TicksToMs(point, audio.tb))
        At(t, delta, aligned) ==
            Beside(t, delta, aligned,
                   AudioPoint(audio.covered, aligned - audio.shift, delta, video.span) + audio.shift)
        From(t) == At(t, t - video.start, audio.start + Quotient((t - video.start) * audio.span, video.span))
    IN From(NearestTick(video.covered.pts, target))

-------------------------------------------------------------------------------
(* The line of least squares through points [t, offset]: its slope from    *)
(* the differences of all pairs, in lowest terms.                          *)
Pairs(points) == {p \in (DOMAIN points) \X (DOMAIN points) : p[1] < p[2]}

\* Over all pairs, how far the second point is from the first on one axis times how
\* far it is on the other.
SumOfProducts(points, x, y) ==
    LET Rise(p, axis) == points[p[2]][axis] - points[p[1]][axis]
    IN MapThenSumSet(LAMBDA p : Rise(p, x) * Rise(p, y), Pairs(points))

Gcd[p \in Nat \X Nat] == IF p[2] = 0 THEN p[1] ELSE Gcd[<<p[2], p[1] % p[2]>>]

\* Fault: the slope from the first point to the last.
LineThroughEnds(points) ==
    LET dx == Last(points).t - points[1].t
        dy == Last(points).offset - points[1].offset
    IN IF dx = 0 THEN <<>> ELSE <<[num |-> dy, den |-> dx]>>
FitLine(points) ==
    LET dx2 == SumOfProducts(points, "t", "t")
        dxdy == SumOfProducts(points, "t", "offset")
        shared == Gcd[<<Abs(dxdy), dx2>>]
    IN IF dx2 = 0 THEN <<>>
       ELSE IF dx2 \div shared > MaxDriftDenominator THEN <<>>
       ELSE <<[num |-> Quotient(dxdy, shared), den |-> dx2 \div shared]>>

Total(numbers) == FoldFunction(+, 0, numbers)

\* How far point k is from the line, in whole milliseconds.
Residual(points, line, k) ==
    LET count == Len(points)
        xs == [i \in DOMAIN points |-> points[i].t - points[1].t]
        ys == [i \in DOMAIN points |-> points[i].offset]
        a == count * ys[k] - Total(ys)
        b == Total(xs) - count * xs[k]
    IN Quotient(line.den * a + line.num * b, count * line.den)

FitDrift(points) ==
    LET Classified(rate, residual) ==
          [rate |-> rate, residual |-> residual,
           end_delta |-> Last(points).offset - points[1].offset,
           pattern |-> IF residual >= DriftEpsilonMs THEN "irregular"
                       ELSE IF Abs(rate.num) * DriftRateEpsilon[2] < DriftRateEpsilon[1] * rate.den
                       THEN "constant_offset" ELSE "linear_drift"]
        IsExact(rate) ==
            /\ Fits(rate.num * DriftRateEpsilon[2])
            /\ \A p \in ToSet(points) : Fits(Len(points) * p.t) /\ Fits(Len(points) * p.offset)
        Fitted(line, rate) ==
            IF IsExact(rate)
            THEN <<Classified(rate, Max({Abs(Residual(points, line, k)) : k \in DOMAIN points}))>> ELSE <<>>
        Through(line) == IF line = <<>> THEN <<>>
                         ELSE Fitted(line[1], [num |-> line[1].num * MsPerMinute, den |-> line[1].den])
    IN Through(FitLine(points))

\* rescale_rate_to_fixed_den: to the nearest, halves away from zero, or <<>>.
Rescaled(rate) ==
    LET scaled == rate.num * MagnitudeDenominator
        rounded == (Abs(scaled) + rate.den \div 2) \div rate.den
    IN IF Fits(scaled) /\ Fits(Abs(scaled) + rate.den \div 2)
       THEN <<IF scaled < 0 THEN -rounded ELSE rounded>> ELSE <<>>

-------------------------------------------------------------------------------
(* run_timeline_av_sync: of each audio stream the checks that were made,   *)
(* a report for each; a file may have none for av_drift.                   *)
OnlyOffset(reason) == [offset |-> Skips(reason), drift |-> <<>>]
AllSkip(reason) == [offset |-> Skips(reason), drift |-> <<Skips(reason)>>]

\* The drift between the bases of two streams' spans.
DriftBetween(video, covered, videoBasis, audio, heard, audioBasis, adjusted, priming) ==
    LET trimmed == audioBasis.trimmed
        seen == [start |-> covered.pts[1], span |-> SpanOf(videoBasis, trimmed), covered |-> covered, tb |-> video.tb]
        played == [start |-> IF trimmed THEN adjusted ELSE heard.pts[1],
                   shift |-> IF trimmed THEN priming[1] ELSE 0,
                   span |-> SpanOf(audioBasis, trimmed), covered |-> heard, tb |-> audio.tb]
        Told(points, fit) ==
            IF fit = <<>> THEN Skips("insufficient_data")
            ELSE Reports([fit |-> fit[1], basis |-> IF trimmed THEN "adjusted" ELSE "raw",
                          magnitude |-> IF trimmed THEN Rescaled(fit[1].rate) ELSE <<>>,
                          points |-> points])
        Fitted(points) == Told(points, FitDrift(points))
        Through(points) == IF \E n \in DOMAIN points : points[n] = <<>> THEN Skips("insufficient_data")
                           ELSE Fitted([n \in DOMAIN points |-> points[n][1]])
        Along(picture, sound) == Through([n \in 1 .. Checkpoints |-> Checkpoint(n - 1, picture, sound)])
        Bare(basis) == basis.raw = <<>> /\ basis.declared = <<>>
    IN IF Bare(videoBasis) \/ Bare(audioBasis) THEN Skips("insufficient_data") ELSE Along(seen, played)

Drift(video, covered, audio, view, adjusted, priming, padding) ==
    LET Over(heard) == DriftBetween(video, covered, SpanBasis(video.declared, covered, <<>>, <<>>), audio, heard,
                                    SpanBasis(audio.declared, heard, priming, padding), adjusted, priming)
    IN Over(PtsSpan(view))

\* The checks of an audio stream that is first presented at some time.
OfAudioFrom(first, video, videoView, videoMs, audio, view, priming) ==
    LET padding == SamplesToTicks(audio.discard_padding, audio.sample_rate, audio.tb)
        adjusted == first + (IF priming = <<>> THEN 0 ELSE priming[1])
        rawMs == TicksToMs(first, audio.tb)
        adjustedMs == TicksToMs(adjusted, audio.tb)
        exact == /\ Fits(adjusted) /\ rawMs # <<>> /\ adjustedMs # <<>>
                 /\ Fits(rawMs[1] - videoMs[1]) /\ Fits(adjustedMs[1] - videoMs[1])
    IN IF ~exact THEN OnlyOffset("insufficient_data")
       ELSE [offset |-> Reports([raw |-> rawMs[1] - videoMs[1], adjusted |-> adjustedMs[1] - videoMs[1],
                                 basis |-> IF priming = <<>> THEN "raw" ELSE "adjusted"]),
             drift |-> <<Drift(video, PtsSpan(videoView), audio, view, adjusted, priming, padding)>>]

OfAudio(video, videoView, audio, view) ==
    LET priming == SamplesToTicks(PrimingSamples(audio), audio.sample_rate, audio.tb)
        From(first, videoMs) ==
            IF view = <<>> THEN AllSkip("insufficient_data")
            ELSE IF first = <<>> THEN OnlyOffset("insufficient_data")
            ELSE OfAudioFrom(first[1], video, videoView, videoMs, audio, view[1], priming)
    IN From(FirstPresented(view[1]), TicksToMs(FirstPresented(videoView)[1], video.tb))

Of(file, type) == {i \in DOMAIN file.streams : file.streams[i].type = type}
\* primary_video_stream: the first.
PrimaryVideo(file) == Min(Of(file, "video"))

OfTheFile(report) == [i \in {0} |-> report]
AvSyncReports(file) ==
    LET audio == Of(file, "audio")
        Each(report) == [i \in audio |-> report]
        Untimed(first, tb) == IF first = <<>> THEN TRUE ELSE TicksToMs(first[1], tb) = <<>>
        Beside(video, views) ==
            IF views[video] = <<>> THEN Each(AllSkip("insufficient_data"))
            ELSE IF Untimed(FirstPresented(views[video][1]), file.streams[video].tb)
            THEN Each(OnlyOffset("insufficient_data"))
            ELSE [i \in audio |-> OfAudio(file.streams[video], views[video][1], file.streams[i], views[i])]
    IN CASE audio = {} -> OfTheFile(OnlyOffset(IF file.partial THEN "partial_scan" ELSE "insufficient_data"))
         [] audio # {} /\ file.partial -> Each(OnlyOffset("partial_scan"))
         [] audio # {} /\ ~file.partial /\ Of(file, "video") = {} -> Each(OnlyOffset("insufficient_data"))
         [] OTHER -> Beside(PrimaryVideo(file), PacketViews(file.streams, file.is_ts))
=============================================================================
