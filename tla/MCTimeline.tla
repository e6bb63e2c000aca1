------------------------------ MODULE MCTimeline ------------------------------
(***************************************************************************)
(* The files of Timeline, with timestamps of six bits: `wraps`, transport  *)
(* streams around the wrap; `reads`, streams read out of order; `lengths`, *)
(* packets of any length; `sound`, speech beside pictures.                 *)
(***************************************************************************)
EXTENDS Timeline

CONSTANTS WrapPackets, ReadPackets, SoundPackets     \* packets of the first stream

Ms == [num |-> 1, den |-> 1000]
Kind(tb, limit, starts) ==
    [tb |-> tb, limit |-> limit, starts |-> starts, holes |-> {0}, delays |-> {0}, durations |-> {3},
     declares |-> {TRUE}, announces |-> {FALSE}, priming |-> 0]
Silent == Kind(Ms, 0, {0})

Wraps ==
    [is_ts |-> TRUE,
     streams |-> <<[Kind(Ms, WrapPackets, {25, 62, 66}) EXCEPT !.holes = {0, 12, 29, 33}, !.delays = {0, 4}],
                   [Kind(Ms, 2, {57, 61, 70}) EXCEPT !.durations = {2}, !.declares = {FALSE}]>>]
Announced ==
    [is_ts |-> TRUE,
     streams |-> <<[Kind(Ms, WrapPackets, {0, 50}) EXCEPT !.holes = {0, 6, 12}, !.announces = BOOLEAN], Silent>>]
Reads ==
    [is_ts |-> FALSE,
     streams |-> <<[Kind(Ms, ReadPackets, {0}) EXCEPT !.holes = {0, 4}, !.delays = {0, 2, 5}, !.durations = {1, 3},
                                                      !.declares = BOOLEAN],
                   Silent>>]
Lengths ==
    [is_ts |-> FALSE,
     streams |-> <<[Kind(Ms, ReadPackets + 1, {0}) EXCEPT !.durations = {1, 2, 3, 7}],
                   Kind([num |-> 1, den |-> 500], 1, {0, 1, 2})>>]
Clocks ==
    [is_ts |-> FALSE,
     streams |-> <<[Kind([num |-> 1, den |-> 250], 1, 0 .. 6) EXCEPT !.delays = {0, 1}],
                   Kind([num |-> 3, den |-> 1000], 2, 0 .. 9)>>]
Sound(size, priming) ==
    [is_ts |-> FALSE,
     streams |-> <<[Kind(Ms, SoundPackets, {0, 3}) EXCEPT !.durations = {4}, !.holes = {0, 5}],
                   [Kind(Ms, SoundPackets, {0, 2}) EXCEPT !.durations = {size}, !.priming = priming]>>]

MCShapes == {Wraps, Announced, Reads, Lengths, Clocks, Sound(3, 0), Sound(7, 0), Sound(2, 4)}
MCContainer == [num |-> 1, den |-> 1000]
=============================================================================
