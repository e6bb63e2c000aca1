---------------------------- MODULE SilenceDetector ----------------------------
(***************************************************************************)
(* observe_silence_sample (probe/audio_decode.cpp): the two detectors that *)
(* see the peak of every decoded sample once, in order: the peak detector, *)
(* debounced on both of its transitions, that finds silence at the edges   *)
(* of a stream, and the sliding mean square that finds dropouts inside it. *)
(* A definition introduced by "Fault:" is a seeded bug of the one after it.*)
(***************************************************************************)
EXTENDS Integers, Sequences, SequencesExt

CONSTANTS EdgeThreshold,           \* kEdgeSilenceThresholdDbfs, as an amplitude
          DropoutThreshold,        \* kDropoutThresholdDbfs, as an amplitude
          EdgeSilenceHysteresisMs,
          DropoutRmsWindowMs,
          DropoutMinSpanMs

ASSUME SilenceAssumption ==
  /\ EdgeThreshold \in Nat /\ DropoutThreshold \in 0..EdgeThreshold
  /\ EdgeSilenceHysteresisMs \in Nat /\ DropoutRmsWindowMs \in Nat /\ DropoutMinSpanMs \in Nat

\* A duration in samples, one at the least.
SamplesIn(ms, rate) == IF rate * ms < 1000 THEN 1 ELSE (rate * ms) \div 1000

\* The lengths that the first decoded frame settles.
DetectorOf(rate) ==
  [hysteresis |-> SamplesIn(EdgeSilenceHysteresisMs, rate),
   window |-> SamplesIn(DropoutRmsWindowMs, rate),
   min_span |-> SamplesIn(DropoutMinSpanMs, rate)]

Span(from, to) == [start_sample |-> from, end_sample |-> to]

NothingObserved ==
  [next |-> 0,
   in_run |-> FALSE, run_start |-> 0, below_streak |-> 0, candidate |-> 0, above_streak |-> 0,
   edges |-> <<>>,
   squares |-> <<>>, sum |-> 0, dropout |-> FALSE, dropout_start |-> 0, dropouts |-> <<>>]

-------------------------------------------------------------------------------
\* A run opens once enough samples in a row are below, and starts with the first.
OpenEdge(d, below, lengths) ==
  LET candidate == IF d.below_streak = 0 THEN d.next ELSE d.candidate
      streak == d.below_streak + 1
  IN  IF ~below
        THEN [d EXCEPT !.below_streak = 0]
        ELSE IF streak < lengths.hysteresis
               THEN [d EXCEPT !.candidate = candidate, !.below_streak = streak]
               ELSE [d EXCEPT !.candidate = candidate, !.below_streak = streak,
                              !.in_run = TRUE, !.run_start = candidate, !.above_streak = 0]

\* Fault: the run ends where its end was noticed.
CloseEdgeLate(d, below, lengths) ==
  LET streak == d.above_streak + 1
  IN  IF below
        THEN [d EXCEPT !.above_streak = 0]
        ELSE IF streak < lengths.hysteresis
               THEN [d EXCEPT !.above_streak = streak]
               ELSE [d EXCEPT !.above_streak = streak, !.in_run = FALSE, !.below_streak = 0,
                              !.edges = IF d.run_start = 0 THEN Append(@, Span(0, d.next)) ELSE @]

\* It ends before the first of enough samples in a row that are not; only a run from
\* the very first sample is kept.
CloseEdge(d, below, lengths) ==
  LET streak == d.above_streak + 1
  IN  IF below
        THEN [d EXCEPT !.above_streak = 0]
        ELSE IF streak < lengths.hysteresis
               THEN [d EXCEPT !.above_streak = streak]
               ELSE [d EXCEPT !.above_streak = streak, !.in_run = FALSE, !.below_streak = 0,
                              !.edges = IF d.run_start = 0
                                          THEN Append(@, Span(0, d.next - streak + 1)) ELSE @]

ObserveEdge(d, peak, lengths) ==
  LET below == peak < EdgeThreshold
  IN  IF d.in_run THEN CloseEdge(d, below, lengths) ELSE OpenEdge(d, below, lengths)

-------------------------------------------------------------------------------
\* The window takes the square in and lets the oldest one go.
Slide(d, peak, lengths) ==
  LET squares == Append(d.squares, peak * peak)
      full == Len(squares) > lengths.window
  IN  [d EXCEPT !.squares = IF full THEN Tail(squares) ELSE squares,
                !.sum = @ + peak * peak - (IF full THEN Head(squares) ELSE 0)]

\* Fault: the minimum is asked of the silent stretch, not of the run of windows.
EndDropoutOfStretch(d, lengths) ==
  LET start == d.next - lengths.window + 1
  IN  [d EXCEPT !.dropout = FALSE,
                !.dropouts = IF d.dropout_start # 0 /\ d.next - d.dropout_start >= lengths.min_span
                               THEN Append(@, Span(d.dropout_start, start)) ELSE @]

\* A run of quiet windows is over: a dropout, unless it is too short or leads the stream.
EndDropout(d, lengths) ==
  LET start == d.next - lengths.window + 1
  IN  [d EXCEPT !.dropout = FALSE,
                !.dropouts = IF d.dropout_start # 0 /\ start - d.dropout_start >= lengths.min_span
                               THEN Append(@, Span(d.dropout_start, start)) ELSE @]

ObserveDropout(d, peak, lengths) ==
  LET slid == Slide(d, peak, lengths)
      quiet == slid.sum < DropoutThreshold * DropoutThreshold * lengths.window
  IN  IF Len(slid.squares) # lengths.window \/ quiet = slid.dropout
        THEN slid
        ELSE IF quiet
               THEN [slid EXCEPT !.dropout = TRUE, !.dropout_start = d.next - lengths.window + 1]
               ELSE EndDropout(slid, lengths)

ObserveSilenceSample(d, peak, lengths) ==
  [ObserveDropout(ObserveEdge(d, peak, lengths), peak, lengths) EXCEPT !.next = @ + 1]

-------------------------------------------------------------------------------
MergeTouchingSampleSpans(spans) ==
  FoldLeft(LAMBDA merged, s :
             IF merged # <<>> /\ Last(merged).end_sample = s.start_sample
               THEN Append(Front(merged), Span(Last(merged).start_sample, s.end_sample))
               ELSE Append(merged, s),
           <<>>, spans)

\* A run that is open when the stream ends reaches its end; an open dropout is no dropout.
EdgeSilenceSpans(d, total_samples) ==
  MergeTouchingSampleSpans(IF d.in_run THEN Append(d.edges, Span(d.run_start, total_samples)) ELSE d.edges)

DropoutSpans(d) == MergeTouchingSampleSpans(d.dropouts)
===============================================================================
