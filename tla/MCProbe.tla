------------------------------- MODULE MCProbe -------------------------------
(* Files of every family, with the streams that make a difference to one      *)
(* stage of a probe at a time, and the registries that ask for few passes.    *)
EXTENDS Probe

Plain == [aac |-> FALSE, asc |-> "none", sbr |-> FALSE, resolved |-> FALSE, depth |-> 0, decodes |-> TRUE,
          pid |-> TRUE, records |-> "whole", beyond |-> FALSE, joins |-> TRUE]

Media(family, streams) ==
  [snapshot |-> "no", media |-> TRUE, family |-> family, streams |-> streams, wraps |-> FALSE,
   same_layout |-> TRUE, scan_complete |-> TRUE]

\* What a snapshot, a rejected document and neither of both look like.
Documents == {[Media("other", <<>>) EXCEPT !.media = FALSE, !.snapshot = v] : v \in {"accepted", "rejected", "no"}}

\* Every evidence of spectral band replication; what libav could decode it
\* resolved, but for the streams it gave up on.
Aac == {[Plain EXCEPT !.aac = TRUE, !.asc = a, !.sbr = b, !.resolved = r, !.depth = d, !.decodes = c] :
          a \in {"none", "explicit", "doubles", "cannot"}, b \in BOOLEAN, r \in BOOLEAN,
          d \in {63, 64}, c \in BOOLEAN}
PlausibleAac == {s \in Aac : (s.asc = "explicit" => s.sbr) /\ (s.asc = "cannot" => ~s.sbr)
                             /\ (s.depth > 63 \/ ~s.decodes => s.asc = "doubles" /\ ~s.resolved)}
Undecided == {s \in PlausibleAac : HeaderSbr(s) = "undecided" /\ s.decodes /\ s.depth = 63}
Songs == {Media("mp4", <<s>>) : s \in PlausibleAac}
           \cup {Media("mkv", <<Plain, s>>) : s \in Undecided}
           \cup {Media("other", <<s, s>>) : s \in {u \in Undecided : u.sbr}}

\* Transport streams: wrapped or not, wholly scanned or not, each way a stream
\* may fail to join on its own, and all of them at once.
Carried == {Plain, [Plain EXCEPT !.pid = FALSE], [Plain EXCEPT !.records = "truncated"],
            [Plain EXCEPT !.beyond = TRUE], [Plain EXCEPT !.joins = FALSE],
            [Plain EXCEPT !.pid = FALSE, !.records = "truncated", !.beyond = TRUE, !.joins = FALSE]}
Broadcasts == {[Media("ts", <<s>>) EXCEPT !.wraps = w, !.same_layout = l, !.scan_complete = c] :
                 s \in Carried, w \in BOOLEAN, l \in BOOLEAN, c \in BOOLEAN}

MCFiles == Documents \cup Songs \cup {f \in Broadcasts : f.wraps \/ f.same_layout}

MCRegistries ==
  {AllAnalyzers, {},
   Spec("other", {"parser_scan"}, {"of_the_units"}),
   Spec("other", {"audio_decode"}, {"of_the_samples"})}
===============================================================================
