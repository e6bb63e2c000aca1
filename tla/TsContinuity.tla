---------------------------- MODULE TsContinuity ----------------------------
(***************************************************************************)
(* The continuity counter of one PID (detail::step_continuity in           *)
(* probe/ts_scan.cpp), fed by a transmitter and a channel.  A payload      *)
(* packet carries the next value of a four-bit counter.  The channel may   *)
(* lose packets and repeat one; the transmitter may send a packet without  *)
(* payload, which carries the previous value, and may restart its counter  *)
(* under a discontinuity_indicator.                                        *)
(***************************************************************************)
EXTENDS Naturals

CONSTANTS
    MaxArrivals,    \* bound: packets that arrive on the PID
    Restarts,       \* the values at which the transmitter restarts
    Bursts          \* how many packets in a row the channel loses

ASSUME ContinuityAssumption ==
    /\ MaxArrivals \in Nat
    /\ Restarts \subseteq 0 .. 15
    /\ Bursts \subseteq 1 .. 14

\* The longest burst of losses that the counter shows as one: after fifteen
\* the next packet looks like a repetition, after sixteen like the next one.
MaxBurst == 14

Counts == [duplicates: Nat, errors: Nat, discontinuities: Nat]
NoCounts == [duplicates |-> 0, errors |-> 0, discontinuities |-> 0]
PidContinuityState == [initialized: BOOLEAN, expected_cc: 0 .. 15, duplicate_available: BOOLEAN]
Untracked == [initialized |-> FALSE, expected_cc |-> 0, duplicate_available |-> TRUE]
Tracking(cc) == [initialized |-> TRUE, expected_cc |-> (cc + 1) % 16, duplicate_available |-> TRUE]

\* Fault: a packet without payload is held to the counter too.
StepContinuityOfAll(state, packet) ==
    IF packet.discontinuity THEN [next |-> Untracked, increment |-> "discontinuity"]
    ELSE IF ~state.initialized \/ packet.cc = state.expected_cc
    THEN [next |-> Tracking(packet.cc), increment |-> "none"]
    ELSE IF packet.cc = (state.expected_cc + 15) % 16 /\ state.duplicate_available
    THEN [next |-> [state EXCEPT !.duplicate_available = FALSE], increment |-> "duplicate"]
    ELSE [next |-> Tracking(packet.cc), increment |-> "error"]

\* Which counter one packet increments, and the state after it.
StepContinuity(state, packet) ==
    IF packet.discontinuity THEN [next |-> Untracked, increment |-> "discontinuity"]
    ELSE IF ~packet.payload THEN [next |-> state, increment |-> "none"]
    ELSE IF ~state.initialized \/ packet.cc = state.expected_cc
    THEN [next |-> Tracking(packet.cc), increment |-> "none"]
    ELSE IF packet.cc = (state.expected_cc + 15) % 16 /\ state.duplicate_available
    THEN [next |-> [state EXCEPT !.duplicate_available = FALSE], increment |-> "duplicate"]
    ELSE [next |-> Tracking(packet.cc), increment |-> "error"]

Increment(counts, increment) ==
    CASE increment = "duplicate" -> [counts EXCEPT !.duplicates = @ + 1]
      [] increment = "error" -> [counts EXCEPT !.errors = @ + 1]
      [] increment = "discontinuity" -> [counts EXCEPT !.discontinuities = @ + 1]
      [] increment = "none" -> counts

-----------------------------------------------------------------------------
(***************************************************************************)
(* The other end.  `tx` is the value of the next payload packet, `lost`    *)
(* the payload packets lost since the last one that arrived, `heard`       *)
(* whether one arrived since the start or the last declared                *)
(* discontinuity, `repeated` whether it arrived twice.  `truth` is what    *)
(* happened, in the terms in which the scanner counts.                     *)
(***************************************************************************)
Channels == [tx: 0 .. 15, lost: 0 .. MaxBurst, heard: BOOLEAN, repeated: BOOLEAN, truth: Counts, arrivals: Nat]
Quiet == [tx |-> 0, lost |-> 0, heard |-> FALSE, repeated |-> FALSE, truth |-> NoCounts, arrivals |-> 0]

\* The channel after an arrival.
Arrived(ch, tx, heard, repeated, truth) ==
    [tx |-> tx, lost |-> 0, heard |-> heard, repeated |-> repeated, truth |-> truth,
     arrivals |-> ch.arrivals + 1]

\* The packets that can arrive next, each with the channel after it.
Payload(ch) ==
    [packet |-> [cc |-> ch.tx, payload |-> TRUE, discontinuity |-> FALSE],
     channel |-> Arrived(ch, (ch.tx + 1) % 16, TRUE, FALSE,
                         IF ch.heard /\ ch.lost > 0 THEN Increment(ch.truth, "error") ELSE ch.truth)]
Repetition(ch) ==
    [packet |-> [cc |-> (ch.tx + 15) % 16, payload |-> TRUE, discontinuity |-> FALSE],
     channel |-> Arrived(ch, ch.tx, TRUE, TRUE, Increment(ch.truth, "duplicate"))]
NoPayload(ch) ==
    [packet |-> [cc |-> (ch.tx + 15) % 16, payload |-> FALSE, discontinuity |-> FALSE],
     channel |-> [ch EXCEPT !.arrivals = @ + 1]]
Restart(ch, cc, payload) ==
    [packet |-> [cc |-> cc, payload |-> payload, discontinuity |-> TRUE],
     channel |-> Arrived(ch, (cc + 1) % 16, FALSE, FALSE, Increment(ch.truth, "discontinuity"))]

Arrivals(ch) ==
    IF ch.arrivals >= MaxArrivals THEN {}
    ELSE {Payload(ch), NoPayload(ch)}
         \union {Restart(ch, cc, payload) : cc \in Restarts, payload \in BOOLEAN}
         \union (IF ch.heard /\ ch.lost = 0 /\ ~ch.repeated THEN {Repetition(ch)} ELSE {})

\* A burst of losses.
Losses(ch) ==
    IF ch.arrivals >= MaxArrivals THEN {}
    ELSE {[ch EXCEPT !.tx = (ch.tx + k) % 16, !.lost = ch.lost + k] : k \in {b \in Bursts : ch.lost + b <= MaxBurst}}
=============================================================================
