------------------------------- MODULE AudioSweep -------------------------------
(***************************************************************************)
(* One audio stream through a sweep: its packets are decoded, the decoder  *)
(* fails here and there and is drained at the end, and the analyzers tell  *)
(* what was measured (analyzers/content/sample_hash.cpp, audio/silence.cpp *)
(* and loudness.cpp, meta.decode_errors).  What the decoder makes of a     *)
(* packet is the world's choice.  heard and failing are history: the       *)
(* frames with samples that the decoder gave out, and the calls that       *)
(* failed since it last gave one.                                          *)
(***************************************************************************)
EXTENDS AudioDecode

CONSTANTS Worlds,           \* the streams that are tried
          GatingFloor,      \* kLoudnessGatingFloorLufs, as an amplitude
          TruePeakCeiling   \* kTruePeakCeilingDbtp, as an amplitude

\* A frame is a sequence of samples and has a shape; the decoder that libav has for a
\* codec by default is never the fixed-point one of AAC, and USAC is a kind of AAC.
ASSUME SweepAssumption ==
  /\ MaxAudioDecodeErrorsPerStream \in Nat
  /\ AudioBlockDivisor \in Nat \ {0}
  /\ \A codec \in DOMAIN DefaultDecoder : DefaultDecoder[codec] # "aac_fixed"
  /\ \A w \in Worlds :
       /\ w.max_run \in Nat
       /\ w.codecpar.usac => w.codecpar.codec = "aac"
       /\ w.codecpar.codec \in DOMAIN DefaultDecoder
       /\ \A frame \in w.frames :
            /\ frame.channels \in Int /\ frame.rate \in Int /\ w.codecpar.rate \in Int
            /\ frame.samples \in Seq(Range(frame.samples))
            /\ \A rate \in {frame.rate, w.codecpar.rate} : ConfigOf(frame, rate) # None

VARIABLES world,    \* the stream, what its decoder may do and what the scan was asked for
          stage,    \* "sweeping", "finalized" or "reported"
          st,       \* the stream's AudioDecodeState
          heard, failing,
          result,   \* its StreamAudioDecode
          report    \* the measurements that the analyzers made of it

vars == <<world, stage, st, heard, failing, result, report>>

SweepInit ==
  /\ world \in Worlds
  /\ stage = "sweeping"
  /\ st = NeverTried
  /\ heard = <<>> /\ failing = 0
  /\ result = None /\ report = None

-------------------------------------------------------------------------------
(* The sweep.                                                              *)
SamplesOf(frames) == FlattenSeq([k \in DOMAIN frames |-> frames[k].samples])

Hear(frames, frame) == IF Sounding(frame) THEN Append(frames, frame) ELSE frames

\* The decoder has no more to give than the world allows.
Emitted(frames) ==
  /\ Len(SamplesOf(heard \o frames)) <= world.max_samples
  /\ heard' = FoldLeft(Hear, heard, frames)

Fed(packet) ==
  /\ stage = "sweeping"
  /\ LET opened == EnsureInitialized(st, world.codecpar, world.preference)
     IN  /\ Feeding(opened)
         /\ st' = FeedPacket(opened, packet)
  /\ UNCHANGED <<world, stage, result, report>>

FrameRuns == UNION {[1..n -> world.frames] : n \in 0..world.max_run}

Packet(send, frames, receive_error) == [send |-> send, frames |-> frames, receive_error |-> receive_error]

PacketDecoded ==
  \E frames \in FrameRuns :
    /\ Fed(Packet("ok", frames, FALSE))
    /\ Emitted(frames)
    /\ failing' = IF frames = <<>> THEN failing ELSE 0

SendFails ==
  /\ st.errors < world.max_errors
  /\ Fed(Packet("error", <<>>, FALSE))
  /\ failing' = failing + 1
  /\ UNCHANGED heard

ReceiveFails ==
  /\ st.errors < world.max_errors
  /\ \E frames \in FrameRuns :
       /\ Fed(Packet("ok", frames, TRUE))
       /\ Emitted(frames)
       /\ failing' = IF frames = <<>> THEN failing + 1 ELSE 1

\* A packet of a stream that has no decoder.
PacketUndecoded ==
  /\ stage = "sweeping"
  /\ ~st.tried
  /\ st' = EnsureInitialized(st, world.codecpar, world.preference)
  /\ ~st'.attempted
  /\ UNCHANGED <<world, stage, heard, failing, result, report>>

Finalize ==
  /\ stage = "sweeping"
  /\ \E frames \in IF st.attempted THEN FrameRuns ELSE {<<>>} :
       /\ Emitted(frames)
       /\ st' = Drain(st, frames)
       /\ result' = FinalizeStream(st, frames)
  /\ stage' = "finalized"
  /\ UNCHANGED <<world, failing, report>>

-------------------------------------------------------------------------------
(* The analyzers.                                                          *)
Skip(reason) == [skip |-> reason]
Of(value) == [skip |-> "none", value |-> value]

\* Why there is nothing to tell of the stream, in the order in which it is asked.
Undecoded ==
  CASE world.scan_partial -> "partial_scan"
    [] ~world.scan_partial /\ (~world.content \/ ~result.attempted) -> "requires_decode"
    [] ~world.scan_partial /\ world.content /\ result.attempted ->
         IF result.undecodable THEN "partial_scan" ELSE "none"

Levels(measured, value) ==
  IF Undecoded # "none" THEN Skip(Undecoded)
  ELSE IF result.level_measurement_stopped THEN Skip("partial_scan")
  ELSE IF measured THEN Of(value)
  ELSE Skip("insufficient_data")

\* libebur128 takes a float as it is: the clamp is for the silence detectors.
Metered(value) ==
  IF Float(result.config.format) /\ value # NonFinite
    THEN Magnitude(value) ELSE Magnitude(NormalizeAmplitude(result.config.format, value))

\* What the meter says of the samples it was given.
LoudestOf(samples) ==
  LET values == UNION {Range(samples[k]) : k \in DOMAIN samples}
  IN  Max({Metered(v) : v \in values} \cup {0})

TruePeak ==
  LET peak == LoudestOf(result.metered)
  IN  [peak |-> peak, ceiling |-> IF peak >= TruePeakCeiling THEN "above" ELSE "under"]

Integrated ==
  LET loudness == LoudestOf(result.metered)
  IN  IF loudness <= GatingFloor THEN [state |-> "silent", loudness |-> GatingFloor]
                                 ELSE [state |-> "measured", loudness |-> loudness]

SampleHash ==
  LET class == DeterminismClass(result.name)
  IN  IF Undecoded # "none" THEN Skip(Undecoded)
      ELSE IF class = 3 THEN Skip("hash_disabled")
      ELSE IF result.total_samples = 0 THEN Skip("insufficient_data")
      ELSE Of([blocks |-> result.block_digests, stride |-> result.config.block_samples,
               path |-> class, decoder |-> result.name,
               sampling |-> IF result.decode_truncated THEN "truncated" ELSE "full"])

DecodeErrors == IF Undecoded # "none" THEN Skip(Undecoded) ELSE Of(result.errors)

Analyze ==
  /\ stage = "finalized"
  /\ report' =
       [hash |-> SampleHash,
        edges |-> Levels(result.silence_measured, result.edge_silence_spans),
        dropouts |-> Levels(result.silence_measured, result.dropout_spans),
        true_peak |-> Levels(result.loudness_measured, TruePeak),
        integrated |-> Levels(result.loudness_measured, Integrated),
        errors |-> DecodeErrors,
        partial |-> ~world.scan_partial /\ world.content /\ result.attempted /\ result.undecodable]
  /\ stage' = "reported"
  /\ UNCHANGED <<world, st, heard, failing, result>>

SweepNext == PacketDecoded \/ SendFails \/ ReceiveFails \/ PacketUndecoded \/ Finalize \/ Analyze
SweepSpec == SweepInit /\ [][SweepNext]_vars

-------------------------------------------------------------------------------
(* What was heard, looked at from behind.                                  *)
Shape(frame) == <<frame.channels, PackedFormat(frame.format), RateOf(st, frame), frame.layout>>
OneShape(frames) == \A i, j \in DOMAIN frames : Shape(frames[i]) = Shape(frames[j])

Lengths == result.config.lengths
PeaksHeard == LET samples == SamplesOf(heard)
              IN  [k \in DOMAIN samples |-> Peak(result.config.format, samples[k])]

\* Where enough peaks in a row have been on one side of the threshold.
Settled(peaks, below) ==
  {i \in Lengths.hysteresis..Len(peaks) :
     \A j \in (i - Lengths.hysteresis + 1)..i : (peaks[j] < EdgeThreshold) = below}

Latest(indices) == IF indices = {} THEN 0 ELSE Max(indices)

EdgesHeard(peaks) ==
  LET silent == Settled(peaks, TRUE)
      loud == Settled(peaks, FALSE)
      leading == IF loud # {} /\ Lengths.hysteresis \in silent
                   THEN <<Span(0, Min(loud) - Lengths.hysteresis)>> ELSE <<>>
      trailing == IF Latest(silent) > Latest(loud)
                    THEN <<Span(Min({i \in silent : i > Latest(loud)}) - Lengths.hysteresis, Len(peaks))>>
                    ELSE <<>>
  IN  leading \o trailing

QuietWindow(peaks, from) ==
  LET squares == [k \in 1..Lengths.window |-> peaks[from + k] * peaks[from + k]]
  IN  FoldLeft(LAMBDA sum, q : sum + q, 0, squares) < DropoutThreshold * DropoutThreshold * Lengths.window

DropoutsHeard(peaks) ==
  LET windows == 0..(Len(peaks) - Lengths.window)
      quiet == {from \in windows : QuietWindow(peaks, from)}
      runs == {r \in windows \X windows :
                 /\ r[1] > 0 /\ r[2] - r[1] >= Lengths.min_span
                 /\ r[1]..(r[2] - 1) \subseteq quiet
                 /\ r[1] - 1 \notin quiet /\ r[2] \notin quiet}
  IN  SetToSortSeq({Span(r[1], r[2]) : r \in runs}, LAMBDA x, y : x.start_sample < y.start_sample)

-------------------------------------------------------------------------------
(* Properties.                                                             *)
Reported == stage = "reported"
Told(measurement) == Reported /\ measurement.skip = "none"

\* The spans that are told are those of the stream as it was heard, however it came
\* in frames: silence at its edges and the runs of quiet windows inside it.
SilenceIsWhatWasHeard ==
  /\ Told(report.edges) => report.edges.value = EdgesHeard(PeaksHeard)
  /\ Told(report.dropouts) => report.dropouts.value = DropoutsHeard(PeaksHeard)

\* The blocks are the stream's samples in order, all but the last of full length.
BlocksOf(frames, hash) ==
  /\ FlattenSeq(hash.blocks) = SamplesOf(frames) /\ OneShape(frames)
  /\ \A k \in DOMAIN hash.blocks :
       /\ Len(hash.blocks[k]) \in 1..hash.stride
       /\ k < Len(hash.blocks) => Len(hash.blocks[k]) = hash.stride

\* What is told of a stream is told of all of it: a hash that is not marked
\* truncated, every level, and no level at all of samples that no meter can take.
ToldOfTheWhole ==
  /\ Reported /\ report.hash.skip = "none" =>
       /\ report.hash.value.sampling = "full" => BlocksOf(heard, report.hash.value)
       /\ \E k \in 0..Len(heard) : BlocksOf(SubSeq(heard, 1, k), report.hash.value)
       /\ world.codecpar.usac => report.hash.value.decoder # "aac_fixed"
  /\ \A level \in {"edges", "dropouts", "true_peak", "integrated"} :
       Reported /\ report[level].skip = "none" =>
         st.metered = SamplesOf(heard) /\ OneShape(heard)
  /\ Reported /\ report.partial =>
       \A check \in DOMAIN report \ {"partial"} : report[check].skip = "partial_scan"
  /\ st.config # None /\ Float(st.config.format) =>
       \A k \in DOMAIN st.metered : ~Hostile(st.metered[k])

\* A decoder that fails over and over is given up, whichever call fails, and then
\* the stream is not told of as if it had been decoded.
ErrorsAreBounded ==
  /\ failing <= MaxAudioDecodeErrorsPerStream + 1
  /\ Reported /\ failing > MaxAudioDecodeErrorsPerStream =>
       /\ report.hash.skip = "none" => report.hash.value.sampling = "truncated"
       /\ report.edges.skip # "none" /\ report.true_peak.skip # "none"
===============================================================================
