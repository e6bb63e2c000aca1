------------------------------- MODULE MCAudio -------------------------------
(* Instances of AudioSweep: rates of some ten samples a second, so that a   *)
(* few samples make a block, a window and a dropout.                        *)
EXTENDS AudioSweep

CONSTANT nan

MCDecoders ==
  "aac_fixed" :> "aac" @@ "aac" :> "aac" @@ "ac3" :> "ac3" @@ "opus" :> "opus" @@ "flac" :> "flac"
  @@ "pcm_f32le" :> "pcm_f32le" @@ "mp3" :> "mp3" @@ "cook" :> "cook"
\* This build has no decoder for wma.
MCDefaultDecoder ==
  [id \in {"aac", "ac3", "opus", "flac", "pcm_f32le", "mp3", "cook", "wma"} |->
     IF id = "wma" THEN None ELSE id]

Codecpar(codec, usac, rate) == [codec |-> codec, usac |-> usac, rate |-> rate]

Frame(format, layout, rate, samples) ==
  [channels |-> IF layout = "mono" THEN 1 ELSE 2, format |-> format, layout |-> layout,
   rate |-> rate, samples |-> samples]

Stream(codec, usac, preference, frames, max_samples) ==
  [codecpar |-> Codecpar(codec, usac, 20), preference |-> preference, frames |-> frames,
   max_run |-> 1, max_samples |-> max_samples, max_errors |-> 0,
   scan_partial |-> FALSE, content |-> TRUE]

\* A tone, digital silence in one channel and a faint sample in the other: samples
\* between the two thresholds are silent at an edge and loud in a window.
Levels3 == {<<0, 0>>, <<-20, 3>>, <<40, -5000>>}
Listening ==
  {Stream("flac", FALSE, "auto", {Frame("s16p", "stereo", 20, <<s>>) : s \in Levels3}, 9)}

\* One frame of several samples may end one block and begin another.
Chunks ==
  {Stream("aac", FALSE, "auto",
          {Frame("s32", "stereo", rate, <<s>>) : s \in {<<65536 * 40, 0>>, <<-1, 0>>}}
          \cup {Frame("s32p", "stereo", rate, [k \in 1..n |-> <<-65536 * 40, k>>]) : n \in {2, 3, 5}}, 7) :
     rate \in {0, 5, 30}}

\* The largest float that is measured; between full scale and it a float is clamped.
Loudest == MaxMeasurableFloatSampleMagnitude * FloatScale
Float2(s) == Frame("fltp", "stereo", 20, s)
Floats ==
  {Stream("opus", FALSE, "auto",
          {Float2(<<<<a, 40>>, <<0, b>>>>) : a, b \in {nan, Loudest, -Loudest - 1, 40000, -40}}
          \cup {Float2(<<<<0, 0>>>>)}, 5),
   Stream("pcm_f32le", FALSE, "auto", {Float2(<<<<nan, 40>>>>), Float2(<<<<0, 1>>>>)}, 6)}

\* The shape changes in mid-stream, or an empty frame comes.
Shapes ==
  {[Stream("mp3", FALSE, "auto",
           {Frame("s16", "stereo", 20, <<<<1, 2>>>>), Frame("s16p", "stereo", 0, <<<<3, 4>>>>),
            Frame("s16", "dual mono", 20, <<<<5, 6>>>>), Frame("s16", "mono", 20, <<<<7>>>>),
            Frame("s32", "stereo", 20, <<<<8, 9>>>>), Frame("s16", "stereo", 40, <<<<1, 2>>>>),
            Frame("u8", "stereo", 20, <<<<8, 9>>>>), Frame("s16", "stereo", 20, <<>>)}, 3)
      EXCEPT !.max_run = 2]}

\* The decoder fails on a packet, in the middle of one, or on all of them.
Failures ==
  {[Stream(codec, FALSE, "auto", {Frame("flt", "mono", 20, <<<<v>>>>) : v \in {0, 99}}, 4)
      EXCEPT !.max_run = 2, !.max_errors = 5, !.scan_partial = p, !.content = c] :
     codec \in {"opus", "cook"}, p \in BOOLEAN, c \in BOOLEAN}

\* Every way to choose a decoder.
Selections ==
  {Stream(codec, usac, preference, {Frame("s16", "stereo", 20, <<<<1, 2>>>>)}, 3) :
     codec \in DOMAIN MCDefaultDecoder, usac \in BOOLEAN,
     preference \in {"auto", "default", "aac_fixed", "aac", "flac", "libfdk"}}
Decodable == {w \in Selections : w.codecpar.usac => w.codecpar.codec = "aac"}

MCWorlds == UNION {Listening, Chunks, Floats, Shapes, Failures, Decodable}
===============================================================================
