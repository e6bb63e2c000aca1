------------------------------ MODULE AudioDecode ------------------------------
(***************************************************************************)
(* probe/audio_decode.cpp: what one stream's AudioDecodeState makes of the *)
(* frames its decoder gives out.  Three sinks share each frame: the chain  *)
(* of block digests, the loudness meter and the silence detectors.         *)
(*                                                                         *)
(* A sample is the tuple of its channels' values; a float is told at the   *)
(* scale of 16 bits, FloatScale times what the code holds, or is           *)
(* NonFinite.  A digest stands for the block it is of, and the meter for   *)
(* the samples it was given.  A definition introduced by "Fault:" is a     *)
(* seeded bug of the one after it.                                         *)
(***************************************************************************)
EXTENDS SilenceDetector, FiniteSets, TLC

CONSTANTS Decoders,        \* Decoders[name]: the codec a registered decoder is for
          DefaultDecoder,  \* DefaultDecoder[id]: avcodec_find_decoder, or None
          Pcm,             \* the decoders whose name begins with pcm_
          AudioBlockDivisor,
          MaxAudioDecodeErrorsPerStream,
          MaxMeasurableFloatSampleMagnitude,
          FloatScale,      \* 32768: a float of full scale at the scale of 16 bits
          NonFinite,       \* a float that is no number
          None

-------------------------------------------------------------------------------
(* Which decoder, and of what class.                                       *)
FixedSiblings == [aac |-> "aac_fixed", ac3 |-> "ac3_fixed", mp3 |-> "mp3", mp2 |-> "mp2"]

\* The classes go by the decoder's name, whichever way it was chosen.
Class1 == {"flac", "alac", "aac_fixed", "ac3_fixed"} \cup Pcm
Class2 == {"aac", "ac3", "eac3", "opus", "mp3float", "mp2float", "mp3", "mp2"}
DeterminismClass(name) == IF name \in Class1 THEN 1 ELSE IF name \in Class2 THEN 2 ELSE 3

Found(name, fallback) == [name |-> name, fallback |-> fallback]
ByName(name) == IF name \in DOMAIN Decoders THEN name ELSE None

\* The preference is "auto", "default" or the name of a decoder.
FindDecoder(codec, usac, preference) ==
  LET default == DefaultDecoder[codec]
      fixed == IF codec \in DOMAIN FixedSiblings THEN FixedSiblings[codec] ELSE None
      steered == usac /\ preference \in {"auto", fixed}
  IN  CASE preference = "default" -> Found(default, "none")
        [] preference # "default" /\ steered -> Found(default, "usac_unsupported")
        [] preference \notin {"default", "auto"} /\ ~steered -> Found(ByName(preference), "none")
        [] preference = "auto" /\ ~steered /\ fixed = None -> Found(default, "none")
        [] preference = "auto" /\ ~steered /\ fixed # None ->
             IF ByName(fixed) # None THEN Found(fixed, "none")
                                     ELSE Found(default, "fixed_decoder_unavailable")

NoReason == "none"   \* an empty reason: nothing has stopped the stream

NeverTried ==
  [tried |-> FALSE, attempted |-> FALSE, name |-> None, fallback |-> "none", declared_rate |-> 0,
   consecutive |-> 0, exhausted |-> FALSE, errors |-> 0,
   truncation |-> NoReason, level_stop |-> NoReason,
   config |-> None, total_samples |-> 0, pending |-> <<>>, blocks |-> <<>>,
   metered |-> <<>>, detector |-> NothingObserved]

\* Once and for all, at the first packet; opening fails for another codec's decoder.
EnsureInitialized(st, codecpar, preference) ==
  LET found == FindDecoder(codecpar.codec, codecpar.usac, preference)
  IN  IF st.tried
        THEN st
        ELSE IF found.name = None \/ Decoders[found.name] # codecpar.codec
               THEN [st EXCEPT !.tried = TRUE, !.fallback = found.fallback]
               ELSE [st EXCEPT !.tried = TRUE, !.attempted = TRUE, !.name = found.name,
                               !.fallback = found.fallback, !.declared_rate = codecpar.rate]

HashEnabled(st) == DeterminismClass(st.name) # 3

-------------------------------------------------------------------------------
(* The formats that the meter and the detectors can be fed with.           *)
PackedFormat(format) ==
  CASE format = "s16p" -> "s16" [] format = "s32p" -> "s32"
    [] format = "fltp" -> "flt" [] format = "dblp" -> "dbl" [] OTHER -> format
Measurable(format) == format \in {"s16", "s32", "flt", "dbl"}
Float(format) == format \in {"flt", "dbl"}

Magnitude(n) == IF n < 0 THEN -n ELSE n
Clamp(n, bound) == IF n > bound THEN bound ELSE IF n < -bound THEN -bound ELSE n

\* An amplitude at the scale of 16 bits, at which one bound clamps a float.
NormalizeAmplitude(format, value) ==
  CASE format = "s16" -> value
    [] format = "s32" -> value \div 65536
    [] Float(format) -> IF value = NonFinite THEN 0 ELSE Clamp(value, MaxMeasurableFloatSampleMagnitude)
    [] OTHER -> 0

Peak(format, sample) ==
  LET amplitudes == {Magnitude(NormalizeAmplitude(format, sample[c])) : c \in DOMAIN sample}
  IN  CHOOSE a \in amplitudes : \A b \in amplitudes : b <= a

\* A float that no meter can take: the same bound, for the float as it is.
Hostile(sample) ==
  \E c \in DOMAIN sample :
    \/ sample[c] = NonFinite
    \/ Magnitude(sample[c]) > MaxMeasurableFloatSampleMagnitude * FloatScale

-------------------------------------------------------------------------------
(* One frame.                                                              *)
LatchDecodeTruncation(st, reason) ==
  [st EXCEPT !.truncation = IF @ = NoReason THEN reason ELSE @,
             !.level_stop = IF @ = NoReason THEN reason ELSE @]

LatchLevelStop(st, reason) == [st EXCEPT !.level_stop = IF @ = NoReason THEN reason ELSE @]

RateOf(st, frame) == IF frame.rate > 0 THEN frame.rate ELSE st.declared_rate
BlockOf(rate) == IF rate < AudioBlockDivisor THEN 1 ELSE rate \div AudioBlockDivisor

ConfigOf(frame, rate) ==
  [channels |-> frame.channels, format |-> PackedFormat(frame.format), rate |-> rate,
   layout |-> frame.layout, block_samples |-> BlockOf(rate), lengths |-> DetectorOf(rate)]

\* The first frame settles the shape of all, at the rate it was decoded to.
Configured(st, frame) ==
  IF st.config # None THEN st ELSE [st EXCEPT !.config = ConfigOf(frame, RateOf(st, frame))]

\* Fault: the layout is taken to follow from the number of channels.
MismatchBesideLayout(st, frame) ==
  IF frame.channels # st.config.channels THEN "decoded_channels_changed"
  ELSE IF PackedFormat(frame.format) # st.config.format THEN "decoded_sample_format_changed"
  ELSE IF RateOf(st, frame) # st.config.rate THEN "decoded_sample_rate_changed"
  ELSE NoReason

Mismatch(st, frame) ==
  IF frame.channels # st.config.channels THEN "decoded_channels_changed"
  ELSE IF PackedFormat(frame.format) # st.config.format THEN "decoded_sample_format_changed"
  ELSE IF RateOf(st, frame) # st.config.rate THEN "decoded_sample_rate_changed"
  ELSE IF frame.layout # st.config.layout THEN "decoded_channel_layout_changed"
  ELSE NoReason

Blocks(samples, size) == [k \in 1..(Len(samples) \div size) |-> SubSeq(samples, (k - 1) * size + 1, k * size)]

\* Every full block is digested; what is left waits for the next frame.
HashSamples(st, samples) ==
  LET bytes == st.pending \o samples
      size == st.config.block_samples
      full == Blocks(bytes, size)
  IN  IF ~HashEnabled(st)
        THEN st
        ELSE [st EXCEPT !.blocks = @ \o full,
                        !.pending = SubSeq(bytes, Len(full) * size + 1, Len(bytes))]

\* A hostile float stops the two level sinks before they see any of its frame.
ScanSamples(st, samples) ==
  IF st.level_stop = NoReason /\ Float(st.config.format) /\ (\E k \in DOMAIN samples : Hostile(samples[k]))
    THEN LatchLevelStop(st, "non_finite_or_out_of_range_sample")
    ELSE st

CanMeter(config) == Measurable(config.format) /\ config.channels > 0 /\ config.rate > 0

MeasureSamples(st, samples) ==
  LET format == st.config.format
  IN  IF st.level_stop # NoReason \/ ~CanMeter(st.config)
        THEN st
        ELSE [st EXCEPT !.metered = @ \o samples,
                        !.detector = FoldLeft(LAMBDA d, s : ObserveSilenceSample(d, Peak(format, s), st.config.lengths),
                                              @, samples)]

\* Fault: a frame with a hostile float is fed before it is looked at.
SinkMeteredFirst(st, samples) ==
  LET counted == [st EXCEPT !.total_samples = @ + Len(samples)]
  IN  ScanSamples(MeasureSamples(HashSamples(counted, samples), samples), samples)

Sink(st, samples) ==
  LET counted == [st EXCEPT !.total_samples = @ + Len(samples)]
  IN  MeasureSamples(ScanSamples(HashSamples(counted, samples), samples), samples)

\* A frame with a sample on some channel.
Sounding(frame) == frame.samples # <<>> /\ frame.channels > 0

ConsumeFrame(st, frame) ==
  IF ~Sounding(frame) \/ st.truncation # NoReason
    THEN st
    ELSE LET configured == Configured(st, frame)
             token == Mismatch(configured, frame)
         IN  IF token # NoReason THEN LatchDecodeTruncation(configured, token)
                           ELSE Sink(configured, frame.samples)

-------------------------------------------------------------------------------
(* One packet, and the end.                                                *)

\* A failure of avcodec_send_packet or of avcodec_receive_frame: one bound for both.
RecordError(st) ==
  LET consecutive == st.consecutive + 1
      exhausted == st.exhausted \/ consecutive > MaxAudioDecodeErrorsPerStream
      counted == [st EXCEPT !.errors = @ + 1, !.consecutive = consecutive, !.exhausted = exhausted]
  IN  IF exhausted THEN LatchDecodeTruncation(counted, "consecutive_decode_error_limit") ELSE counted

RecordSuccess(st) == [st EXCEPT !.consecutive = 0]

Feeding(st) == st.attempted /\ ~st.exhausted /\ st.truncation = NoReason

ReceiveFrames(st, frames) ==
  FoldLeft(LAMBDA s, frame : ConsumeFrame(RecordSuccess(s), frame), st, frames)

\* Fault: only what is sent can fail.
FeedPacketSendsOnly(st, packet) ==
  IF packet.send = "error" THEN RecordError(st)
  ELSE IF packet.receive_error
         THEN [ReceiveFrames(st, packet.frames) EXCEPT !.errors = @ + 1]
         ELSE ReceiveFrames(st, packet.frames)

\* The frames that come out until the decoder wants more or fails.
FeedPacket(st, packet) ==
  IF packet.send = "error"
    THEN RecordError(st)
    ELSE LET received == ReceiveFrames(st, packet.frames)
         IN  IF packet.receive_error THEN RecordError(received) ELSE received

\* The frames the decoder was still holding, then the block that is not full.
Drain(st, frames) ==
  LET drained == FoldLeft(ConsumeFrame, st, frames)
  IN  IF drained.pending = <<>>
        THEN drained
        ELSE [drained EXCEPT !.blocks = Append(@, drained.pending), !.pending = <<>>]

NotAttempted == [attempted |-> FALSE]

FinalizeStream(st, frames) ==
  LET end == Drain(st, frames)
      levels == end.level_stop = NoReason
  IN  IF ~st.attempted
        THEN NotAttempted
        ELSE [attempted |-> TRUE, name |-> end.name, fallback |-> end.fallback,
              config |-> end.config, total_samples |-> end.total_samples,
              block_digests |-> end.blocks, errors |-> end.errors,
              decode_truncated |-> end.truncation # NoReason,
              level_measurement_stopped |-> ~levels,
              undecodable |-> end.total_samples = 0 /\ end.errors > 0,
              loudness_measured |-> levels /\ end.config # None /\ CanMeter(end.config),
              metered |-> end.metered,
              silence_measured |-> levels /\ end.detector.next > 0,
              edge_silence_spans |-> EdgeSilenceSpans(end.detector, end.total_samples),
              dropout_spans |-> DropoutSpans(end.detector)]
===============================================================================
