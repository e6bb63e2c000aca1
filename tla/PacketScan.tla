------------------------------- MODULE PacketScan -------------------------------
(***************************************************************************)
(* probe/packet_scan.cpp: run_packet_scan, the one av_read_frame sweep of  *)
(* a file.  It records packets per stream, feeds the access-unit parser    *)
(* and the audio decoder with the packets it keeps, and stops keeping them *)
(* when a stream's packet ceiling or the file's byte budget is reached.    *)
(* The budget is shared by all streams and by both kinds of record.        *)
(*                                                                         *)
(* The file is the constant-for-the-sweep variable file: the packets that  *)
(* libav would deliver, in read order, and after how many of them a read   *)
(* error ends the sweep, if one does.  A packet is a record                *)
(*   [stream, skip, pad, au]: its stream index; the start_skip and the     *)
(*   end_skip of its side data (NoSideData when absent); whether the       *)
(*   parser completes an access unit with it.                              *)
(* A definition introduced by "Fault:" is a seeded bug of the one after.   *)
(***************************************************************************)
EXTENDS Integers, FiniteSets, Sequences

CONSTANTS Streams,        \* stream indices of the container: 0..nb_streams-1
          ParserStreams,  \* those whose codec has an access-unit parser
          AudioStreams,   \* those an audio decoder was opened for (attempted())
          Files,          \* the files considered
          Requests,       \* PacketScanRequest: [parse_access_units, decode_audio]
          MaxBytes,       \* limits.max_bytes
          MaxPackets,     \* limits.max_packets_per_stream
          PacketSize,     \* sizeof(PacketRecord)
          AuSize,         \* sizeof(AccessUnitRecord)
          NoSideData

WellFormed(f) ==
  /\ DOMAIN f.packets = 1..Len(f.packets)
  /\ f.readable \in 0..Len(f.packets)
  /\ f.ends \in {"eof", "error"}
  /\ f.ends = "eof" => f.readable = Len(f.packets)

ASSUME ScanAssumption ==
  /\ MaxBytes \in Int /\ MaxPackets \in Int
  /\ PacketSize \in Nat \ {0} /\ AuSize \in Nat \ {0}
  /\ ParserStreams \subseteq Streams /\ AudioStreams \subseteq Streams
  /\ \A f \in Files : WellFormed(f)

VARIABLES file,       \* [packets, readable, ends]
          request,
          read,       \* packets delivered so far
          state,      \* "sweeping" or "done"
          stored,     \* stored[i]: positions of the packets recorded for stream i
          partial,    \* partial[i]: StreamPacketScan::partial
          whole,      \* PacketScanResult::partial
          units,      \* units[i]: positions whose access unit is recorded
          unitsPartial, unitsWhole,   \* the same two marks of ParserScanResult
          fed,        \* fed[i]: positions handed to the audio decoder
          firstSkip, lastPad,         \* first_packet_skip_samples, last_packet_discard_padding
          accounted   \* accounted_bytes

vars == <<file, request, read, state, stored, partial, whole, units, unitsPartial,
          unitsWhole, fed, firstSkip, lastPad, accounted>>

ScanInit ==
  /\ file \in Files
  /\ request \in Requests
  /\ read = 0
  /\ state = "sweeping"
  /\ stored = [i \in Streams |-> {}]
  /\ partial = [i \in Streams |-> FALSE]
  /\ whole = FALSE
  /\ units = [i \in Streams |-> {}]
  /\ unitsPartial = [i \in Streams |-> FALSE]
  /\ unitsWhole = FALSE
  /\ fed = [i \in Streams |-> {}]
  /\ firstSkip = [i \in Streams |-> NoSideData]
  /\ lastPad = [i \in Streams |-> NoSideData]
  /\ accounted = 0

-------------------------------------------------------------------------------
Position == read + 1
Packet == file.packets[Position]

\* av_read_frame delivers one more packet.
Delivered == /\ state = "sweeping"
             /\ read < file.readable
             /\ read' = read + 1
             /\ UNCHANGED <<file, request, state>>

Records == <<stored, units, fed, firstSkip, lastPad, accounted>>
Marks == <<partial, whole, unitsPartial, unitsWhole>>

\* A stream that find_stream_info did not know of.
SkipUnknownStream ==
  /\ Delivered
  /\ Packet.stream \notin Streams
  /\ UNCHANGED <<Records, Marks>>

Fits(size) == accounted + size <= MaxBytes
Kept(i) == Cardinality(stored[i]) < MaxPackets /\ Fits(PacketSize)

\* Fault: a packet dropped for the byte budget leaves no mark on its stream.
DropPacketUnmarked ==
  LET i == Packet.stream
  IN  /\ Delivered
      /\ i \in Streams
      /\ ~Kept(i)
      /\ partial' = [partial EXCEPT ![i] = @ \/ Cardinality(stored[i]) >= MaxPackets]
      /\ whole' = TRUE
      /\ UNCHANGED <<unitsPartial, unitsWhole, Records>>

\* The stream's ceiling or the byte budget is reached: the packet is not kept.
DropPacket ==
  LET i == Packet.stream
  IN  /\ Delivered
      /\ i \in Streams
      /\ ~Kept(i)
      /\ partial' = [partial EXCEPT ![i] = TRUE]
      /\ whole' = TRUE
      /\ unitsPartial' = [unitsPartial EXCEPT ![i] = @ \/ request.parse_access_units]
      /\ unitsWhole' = (unitsWhole \/ request.parse_access_units)
      /\ UNCHANGED Records

\* Fault: an access unit that does not fit leaves no mark.
RecordUnitUnmarked(i, before) ==
  LET kept == request.parse_access_units /\ i \in ParserStreams /\ Packet.au
              /\ before + AuSize <= MaxBytes
  IN  /\ accounted' = IF kept THEN before + AuSize ELSE before
      /\ units' = [units EXCEPT ![i] = IF kept THEN @ \cup {Position} ELSE @]
      /\ UNCHANGED <<unitsPartial, unitsWhole>>

\* Fault: access units are not charged to the budget.
RecordUnitFree(i, before) ==
  /\ accounted' = before
  /\ units' = [units EXCEPT ![i] =
                 IF request.parse_access_units /\ i \in ParserStreams /\ Packet.au
                 THEN @ \cup {Position} ELSE @]
  /\ UNCHANGED <<unitsPartial, unitsWhole>>

\* The access unit that the packet completes, if any, needs room of its own.
RecordUnit(i, before) ==
  IF ~(request.parse_access_units /\ i \in ParserStreams /\ Packet.au)
    THEN /\ accounted' = before
         /\ UNCHANGED <<units, unitsPartial, unitsWhole>>
    ELSE IF before + AuSize <= MaxBytes
      THEN /\ accounted' = before + AuSize
           /\ units' = [units EXCEPT ![i] = @ \cup {Position}]
           /\ UNCHANGED <<unitsPartial, unitsWhole>>
      ELSE /\ accounted' = before
           /\ unitsPartial' = [unitsPartial EXCEPT ![i] = TRUE]
           /\ unitsWhole' = TRUE
           /\ UNCHANGED units

\* Fault: the record is named by the count of packets before it.
KeepPacketZeroBased ==
  LET i == Packet.stream
  IN  /\ Delivered
      /\ i \in Streams
      /\ Kept(i)
      /\ firstSkip' = [firstSkip EXCEPT ![i] = IF stored[i] = {} THEN Packet.skip ELSE @]
      /\ lastPad' = [lastPad EXCEPT ![i] = IF Packet.pad # NoSideData THEN Packet.pad ELSE @]
      /\ stored' = [stored EXCEPT ![i] = @ \cup {read}]
      /\ RecordUnit(i, accounted + PacketSize)
      /\ UNCHANGED <<fed, partial, whole>>

\* Fault: the skip of every packet overwrites the first one's.
KeepPacketEverySkip ==
  LET i == Packet.stream
  IN  /\ Delivered
      /\ i \in Streams
      /\ Kept(i)
      /\ firstSkip' = [firstSkip EXCEPT ![i] = Packet.skip]
      /\ lastPad' = [lastPad EXCEPT ![i] = IF Packet.pad # NoSideData THEN Packet.pad ELSE @]
      /\ stored' = [stored EXCEPT ![i] = @ \cup {Position}]
      /\ RecordUnit(i, accounted + PacketSize)
      /\ UNCHANGED <<fed, partial, whole>>

KeepPacket ==
  LET i == Packet.stream
  IN  /\ Delivered
      /\ i \in Streams
      /\ Kept(i)
      /\ firstSkip' = [firstSkip EXCEPT ![i] = IF stored[i] = {} THEN Packet.skip ELSE @]
      /\ lastPad' = [lastPad EXCEPT ![i] = IF Packet.pad # NoSideData THEN Packet.pad ELSE @]
      /\ stored' = [stored EXCEPT ![i] = @ \cup {Position}]
      /\ RecordUnit(i, accounted + PacketSize)
      /\ fed' = [fed EXCEPT ![i] = IF request.decode_audio /\ i \in AudioStreams
                                     THEN @ \cup {Position} ELSE @]
      /\ UNCHANGED <<partial, whole>>

\* Fault: every negative return is taken for the end of the file.
EndOfSweepAlwaysEof ==
  /\ state = "sweeping"
  /\ read = file.readable
  /\ state' = "done"
  /\ UNCHANGED <<file, request, read, Records, Marks>>

\* AVERROR_EOF, or any other negative return.
EndOfSweep ==
  /\ state = "sweeping"
  /\ read = file.readable
  /\ state' = "done"
  /\ whole' = (whole \/ file.ends = "error")
  /\ unitsWhole' = (unitsWhole \/ (file.ends = "error" /\ request.parse_access_units))
  /\ UNCHANGED <<file, request, read, Records, partial, unitsPartial>>

ScanNext == SkipUnknownStream \/ DropPacket \/ KeepPacket \/ EndOfSweep
ScanSpec == ScanInit /\ [][ScanNext]_vars

-------------------------------------------------------------------------------
(* What the analyzers make of the sweep, stream by stream.                 *)

\* content/sample_hash.cpp (and silence, loudness, decode_errors alike).
SampleHash(i) ==
  IF partial[i] THEN "partial_scan"
  ELSE IF ~request.decode_audio \/ i \notin AudioStreams THEN "requires_decode"
  ELSE IF fed[i] = {} THEN "insufficient_data" ELSE "full"

\* audio/priming.cpp and the timeline, size and video analyzers.
PacketMeasurement == IF whole THEN "partial_scan" ELSE "measured"

-------------------------------------------------------------------------------
(* Properties.                                                             *)
Positions == 1..Len(file.packets)
PacketsOf(i) == {p \in Positions : file.packets[p].stream = i}

ScanTypeOK ==
  /\ WellFormed(file)
  /\ read \in 0..file.readable
  /\ state \in {"sweeping", "done"}
  /\ stored \in [Streams -> SUBSET Positions]
  /\ partial \in [Streams -> BOOLEAN] /\ whole \in BOOLEAN
  /\ units \in [Streams -> SUBSET Positions]
  /\ unitsPartial \in [Streams -> BOOLEAN] /\ unitsWhole \in BOOLEAN
  /\ fed \in [Streams -> SUBSET Positions]
  /\ DOMAIN firstSkip = Streams /\ DOMAIN lastPad = Streams
  /\ accounted \in Nat

\* A stream's record is what was delivered of it, in full, unless the stream is
\* marked; a marked stream's record stops at the first packet it lost.
NoHoles ==
  \A i \in Streams :
    /\ stored[i] \subseteq {p \in PacketsOf(i) : p <= read}
    /\ \A p \in PacketsOf(i) : p <= read /\ p \notin stored[i] =>
         partial[i] /\ \A q \in stored[i] : q < p

\* The access units recorded are those of a prefix of the stream's packets too,
\* and an unmarked list has every one of them.
NoUnitHoles ==
  \A i \in Streams :
    LET expected == {p \in stored[i] : file.packets[p].au}
    IN  /\ units[i] \subseteq expected
        /\ request.parse_access_units /\ i \in ParserStreams =>
             \A p \in expected \ units[i] : unitsPartial[i] /\ \A q \in units[i] : q < p

\* The budget counts every record of every stream once and is never exceeded, but
\* that a budget below nothing admits nothing.
Recorded == UNION {stored[i] : i \in Streams}
RecordedUnits == UNION {units[i] : i \in Streams}
BytesAccountedFor ==
  /\ accounted = PacketSize * Cardinality(Recorded) + AuSize * Cardinality(RecordedUnits)
  /\ accounted = 0 \/ accounted <= MaxBytes

\* The priming of a stream is that of its very first packet, its padding that of
\* the last packet that has one.
SideDataOfTheEnds ==
  \A i \in Streams :
    LET padded == {p \in stored[i] : file.packets[p].pad # NoSideData}
    IN  /\ \A p \in stored[i] : (\A q \in PacketsOf(i) : p <= q) => firstSkip[i] = file.packets[p].skip
        /\ \A p \in padded : (\A q \in padded : q <= p) => lastPad[i] = file.packets[p].pad

\* What is recorded at any moment is a prefix of each stream, paid for to the byte.
ScanInv == ScanTypeOK /\ NoHoles /\ NoUnitHoles /\ BytesAccountedFor /\ SideDataOfTheEnds

\* packet_scan.h: "a truncated sweep, and every dependent check must skip rather
\* than compute a number from it (D-02)".  The checks that ask for the whole scan
\* do; those that ask for their stream only fall short of it after a read error.
MeasuredMeansWhole ==
  state = "done" =>
    /\ PacketMeasurement = "measured" => \A i \in Streams : stored[i] = PacketsOf(i)
    /\ \A i \in AudioStreams :
         SampleHash(i) = "full" => fed[i] = PacketsOf(i) \/ (whole /\ file.ends = "error")
===============================================================================
