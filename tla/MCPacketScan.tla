----------------------------- MODULE MCPacketScan -----------------------------
(* Instances of PacketScan: every short file over two streams and a third that *)
(* the container did not announce.                                             *)
EXTENDS PacketScan

CONSTANTS MaxLength

P(s, skip, pad, au) == [stream |-> s, skip |-> skip, pad |-> pad, au |-> au]

\* Stream 0 is video with a parser, stream 1 audio with priming and padding.
MCPackets == { P(0, NoSideData, NoSideData, TRUE), P(0, NoSideData, NoSideData, FALSE),
               P(1, 2112, NoSideData, FALSE), P(1, 0, 576, FALSE),
               P(2, NoSideData, NoSideData, FALSE) }

MCFiles ==
  UNION { { [packets |-> s, readable |-> n, ends |-> "eof"] : s \in [1..n -> MCPackets] }
            : n \in 0..MaxLength }
  \cup { [packets |-> s, readable |-> r, ends |-> "error"] :
           s \in [1..(MaxLength - 1) -> MCPackets], r \in 0..(MaxLength - 1) }

MCRequests == [parse_access_units : BOOLEAN, decode_audio : {TRUE}]
===============================================================================
