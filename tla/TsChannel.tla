------------------------------ MODULE TsChannel ------------------------------
(***************************************************************************)
(* One PID between its transmitter and the counters of the scanner.        *)
(***************************************************************************)
EXTENDS TsContinuity

VARIABLES continuity, counted, channel

ContinuityVars == <<continuity, counted, channel>>

ContinuityInit ==
    /\ continuity = Untracked
    /\ counted = NoCounts
    /\ channel = Quiet

Arrive ==
    \E arrival \in Arrivals(channel) :
        LET step == StepContinuity(continuity, arrival.packet) IN
        /\ continuity' = step.next
        /\ counted' = Increment(counted, step.increment)
        /\ channel' = arrival.channel

Lose ==
    /\ channel' \in Losses(channel)
    /\ UNCHANGED <<continuity, counted>>

ContinuityNext == Arrive \/ Lose
ContinuitySpec == ContinuityInit /\ [][ContinuityNext]_ContinuityVars

-----------------------------------------------------------------------------
\* What the state of the scanner says of the channel.
InStep(state, ch) ==
    /\ state.initialized <=> ch.heard
    /\ ch.heard => state.expected_cc = (ch.tx + 16 - ch.lost) % 16
    /\ ch.heard => (state.duplicate_available <=> ~ch.repeated)

ContinuityInv ==
    /\ continuity \in PidContinuityState
    /\ counted \in Counts
    /\ channel \in Channels
    /\ InStep(continuity, channel)
    /\ counted = channel.truth

\* Every burst of losses counts as one error, every repetition as one
\* duplicate, every declared discontinuity as one, and nothing else counts:
\* a packet without payload never raises an alarm and a loss before a
\* declared discontinuity is covered by it (the carve-outs of step_continuity).
CountsAreTheFaults == counted = channel.truth
=============================================================================
