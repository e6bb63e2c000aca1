------------------------------- MODULE ScanProofs -------------------------------
(***************************************************************************)
(* Proofs about what is read of a file: the packets of a sweep, for any    *)
(* set of streams, any files, any limits and sizes of records, and the     *)
(* continuity counters of a transport stream, for any restart values,      *)
(* bursts of losses and number of packets; and about what is written of    *)
(* it, the snapshot file.                                                  *)
(***************************************************************************)
EXTENDS PacketScan, TsChannel, SnapshotFile, FiniteSetTheorems, SequenceTheorems, TLAPS

\* What was delivered of a stream.
Delivery(i) == {p \in PacketsOf(i) : p <= read}

\* A stream without a mark has all that was delivered of it.  A mark is never taken
\* back, as neither limit can hold again once it was passed, and so what is missing
\* is behind what is there.
StreamsFaithful ==
  \A i \in Streams :
    /\ stored[i] \subseteq Delivery(i)
    /\ partial[i] => ~Kept(i) /\ whole
    /\ ~partial[i] => stored[i] = Delivery(i)
    /\ \A p \in Delivery(i) \ stored[i] : \A q \in stored[i] : q < p

\* A unit that did not fit leaves no room for another.
UnitsFaithful ==
  \A i \in Streams :
    LET expected == {p \in stored[i] : file.packets[p].au}
    IN  /\ units[i] \subseteq expected
        /\ request.parse_access_units /\ i \in ParserStreams =>
             \A p \in expected \ units[i] :
                unitsPartial[i] /\ accounted + AuSize > MaxBytes /\ \A q \in units[i] : q < p

FedFaithful ==
  \A i \in Streams : fed[i] = IF request.decode_audio /\ i \in AudioStreams THEN stored[i] ELSE {}

EndFaithful == state = "done" => read = file.readable /\ (file.ends = "error" => whole)

ScanIInv == /\ ScanTypeOK /\ StreamsFaithful /\ UnitsFaithful /\ FedFaithful /\ EndFaithful
            /\ BytesAccountedFor /\ SideDataOfTheEnds

-------------------------------------------------------------------------------
\* So many packets are a finite set.
LEMMA RecordsFinite ==
  ASSUME NEW n \in Int, NEW S, S \subseteq 1 .. n
  PROVE  IsFiniteSet(S) /\ Cardinality(S) \in Nat
<1>1. IsFiniteSet(1 .. n)
  BY FS_Interval
<1>2. IsFiniteSet(S)
  BY <1>1, FS_Subset
<1> QED BY <1>2, FS_CardinalityType

\* A sweep starts with nothing kept and nothing marked.
LEMMA ScanStarts == ASSUME ScanInit PROVE ScanIInv
<1>1. WellFormed(file)
  BY ScanAssumption DEF ScanInit
<1>2. ScanTypeOK
  <2>1. read \in 0 .. file.readable
    BY <1>1 DEF ScanInit, WellFormed
  <2> QED BY <1>1, <2>1 DEF ScanInit, ScanTypeOK
<1>3. \A i \in Streams : Delivery(i) = {}
  BY DEF ScanInit, Delivery, PacketsOf, Positions
<1>4. StreamsFaithful
  BY <1>3 DEF ScanInit, StreamsFaithful
<1>acc. BytesAccountedFor
  <2>1. Recorded = {} /\ RecordedUnits = {} /\ accounted = 0
    BY DEF ScanInit, Recorded, RecordedUnits
  <2> QED BY <2>1, FS_EmptySet, ScanAssumption DEF BytesAccountedFor
<1>5. UnitsFaithful /\ FedFaithful /\ EndFaithful /\ SideDataOfTheEnds
  BY DEF ScanInit, UnitsFaithful, FedFaithful, EndFaithful, SideDataOfTheEnds
<1> QED BY <1>2, <1>4, <1>5, <1>acc DEF ScanIInv


\* What does not fit a smaller fill does not fit a larger one.
LEMMA NorDoesMoreFit ==
  ASSUME NEW a \in Int, NEW b \in Int, NEW size \in Int, NEW max \in Int, a <= b, ~(a + size <= max)
  PROVE  ~(b + size <= max)
OBVIOUS

\* No limit that was passed holds again.
LEMMA LimitsStay ==
  ASSUME ScanTypeOK, ScanTypeOK', NEW i \in Streams,
         accounted <= accounted', stored[i] \subseteq stored'[i], ~Kept(i)
  PROVE  ~Kept(i)'
<1>1. /\ Len(file.packets) \in Int /\ stored[i] \subseteq 1 .. Len(file.packets)
      /\ Len(file'.packets) \in Int /\ stored'[i] \subseteq 1 .. Len(file'.packets)
  BY DEF ScanTypeOK, WellFormed, Positions
<1>2. IsFiniteSet(stored'[i]) /\ Cardinality(stored[i]) \in Nat /\ Cardinality(stored'[i]) \in Nat
  BY <1>1, RecordsFinite
<1>3. Cardinality(stored[i]) <= Cardinality(stored'[i])
  BY <1>2, FS_Subset
<1>4. accounted \in Nat /\ accounted' \in Nat /\ MaxPackets \in Int /\ MaxBytes \in Int /\ PacketSize \in Nat
  BY ScanAssumption DEF ScanTypeOK
<1>5. CASE ~(Cardinality(stored[i]) < MaxPackets)
  BY <1>2, <1>3, <1>4, <1>5 DEF Kept
<1>6. CASE ~Fits(PacketSize)
  <2>1. ~(accounted + PacketSize <= MaxBytes)
    BY <1>6 DEF Fits
  <2>2. accounted \in Int /\ accounted' \in Int /\ PacketSize \in Int /\ MaxBytes \in Int
    BY <1>4
  <2>3. ~(accounted' + PacketSize <= MaxBytes)
    BY <2>1, <2>2, NorDoesMoreFit
  <2>4. ~Fits(PacketSize)'
    BY <2>3 DEF Fits
  <2> QED BY <2>4 DEF Kept
<1> QED BY <1>5, <1>6 DEF Kept

\* A packet of a stream is delivered behind all that came before it.
LEMMA OnePacketFurther ==
  ASSUME ScanTypeOK, Delivered
  PROVE  /\ Position \in Positions /\ file' = file /\ request' = request /\ read' = Position
         /\ read' \in 0 .. file.readable
         /\ \A i : Delivery(i)' = IF Packet.stream = i THEN Delivery(i) \cup {Position} ELSE Delivery(i)
         /\ \A i : \A p \in Delivery(i) : p < Position
<1>1. read \in Nat /\ file.readable \in 0 .. Len(file.packets) /\ Len(file.packets) \in Int
  BY DEF ScanTypeOK, WellFormed
<1>2. Position \in Positions /\ file' = file /\ request' = request /\ read' = Position /\ read' \in 0 .. file.readable
  BY <1>1 DEF Delivered, Position, Positions
<1>3. ASSUME NEW i
      PROVE  /\ Delivery(i)' = IF Packet.stream = i THEN Delivery(i) \cup {Position} ELSE Delivery(i)
             /\ \A p \in Delivery(i) : p < Position
  <2>1. \A p \in Positions : p <= read + 1 <=> p <= read \/ p = read + 1
    BY <1>1 DEF Positions
  <2>2. Delivery(i)' = {p \in Positions : file.packets[p].stream = i /\ p <= read + 1}
    BY <1>2 DEF Delivery, PacketsOf, Positions, Position
  <2>3. Delivery(i) = {p \in Positions : file.packets[p].stream = i /\ p <= read}
    BY DEF Delivery, PacketsOf
  <2>4. \A p \in Delivery(i) : p < Position
    BY <2>3, <1>1 DEF Position, Positions
  <2> QED BY <2>1, <2>2, <2>3, <2>4, <1>2 DEF Position, Packet
<1> QED BY <1>2, <1>3


-------------------------------------------------------------------------------
\* A packet of a stream the header does not know.
LEMMA SkipKeeps == ASSUME ScanIInv, SkipUnknownStream PROVE ScanIInv'
<1>1. ScanTypeOK /\ Delivered /\ Packet.stream \notin Streams /\ UNCHANGED <<Records, Marks>>
  BY DEF ScanIInv, SkipUnknownStream
<1> USE <1>1 DEF Records, Marks
<1>2. /\ file' = file /\ request' = request /\ state' = state /\ state = "sweeping"
      /\ \A i \in Streams : Delivery(i)' = Delivery(i)
  BY OnePacketFurther DEF Delivered
<1>3. ScanTypeOK'
  BY <1>2, OnePacketFurther DEF ScanTypeOK, Positions
<1>4. StreamsFaithful'
  BY <1>2 DEF ScanIInv, StreamsFaithful, Kept, Fits
<1>5. UnitsFaithful' /\ FedFaithful' /\ BytesAccountedFor'
  BY <1>2 DEF ScanIInv, UnitsFaithful, FedFaithful, BytesAccountedFor, Recorded, RecordedUnits
<1>6. EndFaithful'
  BY <1>2 DEF EndFaithful
<1>7. SideDataOfTheEnds'
  BY <1>2 DEF ScanIInv, SideDataOfTheEnds, PacketsOf, Positions
<1> QED BY <1>3, <1>4, <1>5, <1>6, <1>7 DEF ScanIInv

\* A packet that a ceiling keeps out.
LEMMA DropKeeps == ASSUME ScanIInv, DropPacket PROVE ScanIInv'
<1> DEFINE i == Packet.stream
<1>1. /\ ScanTypeOK /\ Delivered /\ i \in Streams /\ ~Kept(i)
      /\ partial' = [partial EXCEPT ![i] = TRUE] /\ whole' = TRUE
      /\ UNCHANGED Records
  BY DEF ScanIInv, DropPacket
<1>2. /\ unitsPartial' = [unitsPartial EXCEPT ![i] = @ \/ request.parse_access_units]
      /\ unitsWhole' = (unitsWhole \/ request.parse_access_units)
  BY DEF DropPacket
<1> USE <1>1 DEF Records
<1>3. file' = file /\ request' = request /\ state' = state /\ state = "sweeping"
  BY OnePacketFurther DEF Delivered
<1>4. /\ \A j \in Streams : Delivery(j)' = IF j = i THEN Delivery(j) \cup {Position} ELSE Delivery(j)
      /\ \A j \in Streams : \A p \in Delivery(j) : p < Position
  BY OnePacketFurther
<1>5. ScanTypeOK'
  <2>1. unitsPartial' \in [Streams -> BOOLEAN] /\ unitsWhole' \in BOOLEAN
    BY <1>2 DEF ScanTypeOK
  <2>2. partial' \in [Streams -> BOOLEAN] /\ whole' \in BOOLEAN
    BY DEF ScanTypeOK
  <2> QED BY <1>3, <2>1, <2>2, OnePacketFurther DEF ScanTypeOK, Positions
<1>6. StreamsFaithful'
  <2> SUFFICES ASSUME NEW j \in Streams
               PROVE  /\ stored'[j] \subseteq Delivery(j)'
                      /\ partial'[j] => ~Kept(j)' /\ whole'
                      /\ ~partial'[j] => stored'[j] = Delivery(j)'
                      /\ \A p \in Delivery(j)' \ stored'[j] : \A q \in stored'[j] : q < p
    BY DEF StreamsFaithful
  <2>1. stored' = stored /\ (Kept(j)' <=> Kept(j))
    BY DEF Kept, Fits
  <2>2. /\ stored[j] \subseteq Delivery(j)
        /\ partial[j] => ~Kept(j)
        /\ ~partial[j] => stored[j] = Delivery(j)
        /\ \A p \in Delivery(j) \ stored[j] : \A q \in stored[j] : q < p
    BY DEF ScanIInv, StreamsFaithful
  <2>3. CASE j = i
    BY <2>1, <2>2, <2>3, <1>4 DEF ScanTypeOK
  <2>4. CASE j # i
    BY <2>1, <2>2, <2>4, <1>4 DEF ScanTypeOK
  <2> QED BY <2>3, <2>4
<1>7. UnitsFaithful'
  <2>1. \A j \in Streams : unitsPartial[j] => unitsPartial'[j]
    BY <1>2 DEF ScanTypeOK
  <2> QED BY <1>3, <2>1 DEF ScanIInv, UnitsFaithful
<1>8. FedFaithful' /\ EndFaithful' /\ BytesAccountedFor'
  BY <1>3 DEF ScanIInv, FedFaithful, EndFaithful, BytesAccountedFor, Recorded, RecordedUnits
<1>9. SideDataOfTheEnds'
  BY <1>3 DEF ScanIInv, SideDataOfTheEnds, PacketsOf, Positions
<1> QED BY <1>5, <1>6, <1>7, <1>8, <1>9 DEF ScanIInv

\* The end of the file, or a read error.
LEMMA EndKeeps == ASSUME ScanIInv, EndOfSweep PROVE ScanIInv'
<1>1. /\ ScanTypeOK /\ state' = "done" /\ read = file.readable
      /\ whole' = (whole \/ file.ends = "error")
      /\ unitsWhole' = (unitsWhole \/ (file.ends = "error" /\ request.parse_access_units))
      /\ UNCHANGED <<file, request, read, Records, partial, unitsPartial>>
  BY DEF ScanIInv, EndOfSweep
<1> USE <1>1 DEF Records
<1>2. \A j \in Streams : Delivery(j)' = Delivery(j)
  BY DEF Delivery, PacketsOf, Positions
<1>3. ScanTypeOK'
  <2>1. whole' \in BOOLEAN /\ unitsWhole' \in BOOLEAN
    BY DEF ScanTypeOK
  <2> QED BY <2>1 DEF ScanTypeOK, Positions
<1>4. StreamsFaithful'
  BY <1>2 DEF ScanIInv, StreamsFaithful, Kept, Fits
<1>5. UnitsFaithful' /\ FedFaithful' /\ EndFaithful' /\ BytesAccountedFor'
  BY DEF ScanIInv, UnitsFaithful, FedFaithful, EndFaithful, BytesAccountedFor, Recorded, RecordedUnits
<1>6. SideDataOfTheEnds'
  BY DEF ScanIInv, SideDataOfTheEnds, PacketsOf, Positions
<1> QED BY <1>3, <1>4, <1>5, <1>6 DEF ScanIInv


\* What becomes of the access unit of a packet that is kept.
LEMMA UnitOfPacket ==
  ASSUME ScanTypeOK, NEW i \in Streams, NEW before \in Nat, RecordUnit(i, before)
  PROVE  \/ /\ ~(request.parse_access_units /\ i \in ParserStreams /\ Packet.au)
            /\ accounted' = before /\ units' = units /\ unitsPartial' = unitsPartial /\ unitsWhole' = unitsWhole
         \/ /\ Packet.au /\ before + AuSize <= MaxBytes /\ accounted' = before + AuSize
            /\ units' = [units EXCEPT ![i] = @ \cup {Position}]
            /\ unitsPartial' = unitsPartial /\ unitsWhole' = unitsWhole
         \/ /\ Packet.au /\ before + AuSize > MaxBytes /\ accounted' = before /\ units' = units
            /\ unitsPartial' = [unitsPartial EXCEPT ![i] = TRUE] /\ unitsWhole' = TRUE
<1>1. MaxBytes \in Int /\ AuSize \in Nat
  BY ScanAssumption
<1> QED BY <1>1 DEF RecordUnit

\* A budget without room for a record has none later.
LEMMA FullStaysFull ==
  ASSUME NEW before \in Int, NEW after \in Int, NEW size \in Int, before <= after
  PROVE  before + size > MaxBytes => after + size > MaxBytes
BY ScanAssumption

\* A packet that is kept.
LEMMA KeepKeeps == ASSUME ScanIInv, KeepPacket PROVE ScanIInv'
<1> DEFINE i == Packet.stream
           sound == request.decode_audio /\ i \in AudioStreams
<1>1. /\ ScanTypeOK /\ Delivered /\ i \in Streams /\ Kept(i)
      /\ firstSkip' = [firstSkip EXCEPT ![i] = IF stored[i] = {} THEN Packet.skip ELSE @]
      /\ lastPad' = [lastPad EXCEPT ![i] = IF Packet.pad # NoSideData THEN Packet.pad ELSE @]
      /\ stored' = [stored EXCEPT ![i] = @ \cup {Position}]
      /\ RecordUnit(i, accounted + PacketSize)
      /\ fed' = [fed EXCEPT ![i] = IF sound THEN @ \cup {Position} ELSE @]
      /\ UNCHANGED <<partial, whole>>
  BY DEF ScanIInv, KeepPacket
<1>2. file' = file /\ request' = request /\ state' = state /\ state = "sweeping" /\ Position \in Positions
  BY <1>1, OnePacketFurther DEF Delivered
<1>3. /\ \A j \in Streams : Delivery(j)' = IF j = i THEN Delivery(j) \cup {Position} ELSE Delivery(j)
      /\ \A j \in Streams : \A p \in Delivery(j) : p < Position
  BY <1>1, OnePacketFurther
<1>4. /\ accounted \in Nat /\ PacketSize \in Nat \ {0} /\ AuSize \in Nat \ {0} /\ MaxBytes \in Int
      /\ accounted + PacketSize \in Nat
  BY <1>1, ScanAssumption DEF ScanTypeOK
<1>unit. \/ /\ ~(request.parse_access_units /\ i \in ParserStreams /\ Packet.au)
            /\ accounted' = accounted + PacketSize /\ units' = units
            /\ unitsPartial' = unitsPartial /\ unitsWhole' = unitsWhole
         \/ /\ Packet.au /\ accounted + PacketSize + AuSize <= MaxBytes
            /\ accounted' = accounted + PacketSize + AuSize
            /\ units' = [units EXCEPT ![i] = @ \cup {Position}]
            /\ unitsPartial' = unitsPartial /\ unitsWhole' = unitsWhole
         \/ /\ Packet.au /\ accounted + PacketSize + AuSize > MaxBytes /\ accounted' = accounted + PacketSize
            /\ units' = units /\ unitsPartial' = [unitsPartial EXCEPT ![i] = TRUE] /\ unitsWhole' = TRUE
  <2> HIDE DEF i
  <2> QED BY <1>1, <1>4, UnitOfPacket
<1>5. accounted' \in Nat /\ accounted <= accounted'
  BY <1>unit, <1>4
<1>full. accounted + AuSize > MaxBytes => accounted' + AuSize > MaxBytes
  <2>1. accounted \in Int /\ accounted' \in Int /\ AuSize \in Int /\ accounted <= accounted'
    BY <1>4, <1>5
  <2> HIDE DEF i, sound
  <2> QED BY <2>1, FullStaysFull
<1>6. /\ stored'[i] = stored[i] \cup {Position} /\ \A j \in Streams \ {i} : stored'[j] = stored[j]
      /\ stored' \in [Streams -> SUBSET Positions]
  BY <1>1, <1>2 DEF ScanTypeOK
<1>7. ScanTypeOK'
  <2>1. /\ units' \in [Streams -> SUBSET Positions]
        /\ unitsPartial' \in [Streams -> BOOLEAN] /\ unitsWhole' \in BOOLEAN
    <3>1. /\ units \in [Streams -> SUBSET Positions]
          /\ unitsPartial \in [Streams -> BOOLEAN] /\ unitsWhole \in BOOLEAN
      BY <1>1 DEF ScanTypeOK
    <3>2. i \in Streams /\ Position \in Positions
      BY <1>1, <1>2
    <3> HIDE DEF i
    <3>3. units' \in [Streams -> SUBSET Positions]
      BY <1>unit, <3>1, <3>2
    <3>4. unitsPartial' \in [Streams -> BOOLEAN] /\ unitsWhole' \in BOOLEAN
      BY <1>unit, <3>1, <3>2
    <3> QED BY <3>3, <3>4
  <2>2. fed' \in [Streams -> SUBSET Positions]
    BY <1>1, <1>2 DEF ScanTypeOK
  <2>3. Positions' = Positions
    BY <1>2 DEF Positions
  <2>4. read' \in 0 .. file.readable
    BY <1>1, OnePacketFurther
  <2>5. DOMAIN firstSkip' = Streams /\ DOMAIN lastPad' = Streams
    BY <1>1 DEF ScanTypeOK
  <2> QED BY <1>1, <1>2, <1>5, <1>6, <2>1, <2>2, <2>3, <2>4, <2>5 DEF ScanTypeOK
<1>8. StreamsFaithful'
  <2> SUFFICES ASSUME NEW j \in Streams
               PROVE  /\ stored'[j] \subseteq Delivery(j)'
                      /\ partial'[j] => ~Kept(j)' /\ whole'
                      /\ ~partial'[j] => stored'[j] = Delivery(j)'
                      /\ \A p \in Delivery(j)' \ stored'[j] : \A q \in stored'[j] : q < p
    BY DEF StreamsFaithful
  <2>1. /\ stored[j] \subseteq Delivery(j)
        /\ partial[j] => ~Kept(j) /\ whole
        /\ ~partial[j] => stored[j] = Delivery(j)
        /\ \A p \in Delivery(j) \ stored[j] : \A q \in stored[j] : q < p
    BY DEF ScanIInv, StreamsFaithful
  <2>2. CASE j = i
    <3>1. ~partial[j] /\ stored[j] = Delivery(j)
      BY <1>1, <2>1, <2>2
    <3>2. stored'[j] = Delivery(j)'
      BY <1>3, <1>6, <2>2, <3>1
    <3> QED BY <1>1, <3>1, <3>2
  <2>3. CASE j # i
    <3>1. stored'[j] = stored[j] /\ Delivery(j)' = Delivery(j)
      BY <1>3, <1>6, <2>3
    <3>2. ~Kept(j) => ~Kept(j)'
      BY <1>1, <1>5, <1>7, <3>1, LimitsStay
    <3> QED BY <1>1, <2>1, <3>1, <3>2
  <2> QED BY <2>2, <2>3
<1>9. FedFaithful'
  <2>1. fed \in [Streams -> SUBSET Positions]
    BY <1>1 DEF ScanTypeOK
  <2>2. \A j \in Streams : fed[j] = IF request.decode_audio /\ j \in AudioStreams THEN stored[j] ELSE {}
    BY DEF ScanIInv, FedFaithful
  <2>3. \A j \in Streams \ {i} : fed'[j] = fed[j]
    BY <1>1, <2>1
  <2>4. fed'[i] = IF sound THEN fed[i] \cup {Position} ELSE fed[i]
    BY <1>1, <2>1
  <2> HIDE DEF i
  <2> QED BY <1>2, <1>6, <2>2, <2>3, <2>4 DEF FedFaithful
<1>10. EndFaithful'
  BY <1>2 DEF EndFaithful
<1>11. UnitsFaithful'
  <2> DEFINE Expected(j) == {p \in stored[j] : file.packets[p].au}
  <2> SUFFICES ASSUME NEW j \in Streams
               PROVE  /\ units'[j] \subseteq Expected(j)'
                      /\ request.parse_access_units /\ j \in ParserStreams =>
                           \A p \in Expected(j)' \ units'[j] :
                              unitsPartial'[j] /\ accounted' + AuSize > MaxBytes /\ \A q \in units'[j] : q < p
    BY <1>2 DEF UnitsFaithful
  <2>1. /\ units[j] \subseteq Expected(j)
        /\ request.parse_access_units /\ j \in ParserStreams =>
             \A p \in Expected(j) \ units[j] :
                unitsPartial[j] /\ accounted + AuSize > MaxBytes /\ \A q \in units[j] : q < p
    BY DEF ScanIInv, UnitsFaithful
  <2>2. accounted + AuSize > MaxBytes => accounted' + AuSize > MaxBytes
    BY <1>full
  <2>3. CASE j # i
    <3>1. Expected(j)' = Expected(j)
      BY <1>2, <1>6, <2>3
    <3>2. units'[j] = units[j] /\ unitsPartial'[j] = unitsPartial[j]
      BY <1>unit, <2>3, <1>1 DEF ScanTypeOK
    <3> QED BY <2>1, <2>2, <3>1, <3>2
  <2>4. CASE j = i
    <3>1. Expected(j)' = IF Packet.au THEN Expected(j) \cup {Position} ELSE Expected(j)
      BY <1>2, <1>6, <2>4 DEF Packet
    <3>2. \A q \in units[j] : q < Position
      BY <1>3, <2>1 DEF ScanIInv, StreamsFaithful
    <3>3. CASE /\ ~(request.parse_access_units /\ i \in ParserStreams /\ Packet.au)
               /\ units' = units /\ unitsPartial' = unitsPartial
      BY <2>1, <2>2, <2>4, <3>1, <3>3
    <3>4. CASE /\ Packet.au /\ accounted + PacketSize + AuSize <= MaxBytes
               /\ units' = [units EXCEPT ![i] = @ \cup {Position}]
      <4>1. ~(accounted + AuSize > MaxBytes)
        BY <1>4, <3>4
      <4>2. units'[j] = units[j] \cup {Position}
        BY <1>1, <2>4, <3>4 DEF ScanTypeOK
      <4>3. request.parse_access_units /\ j \in ParserStreams => units[j] = Expected(j)
        BY <2>1, <4>1
      <4> QED BY <2>1, <3>1, <3>4, <4>2, <4>3
    <3>5. CASE /\ Packet.au /\ accounted + PacketSize + AuSize > MaxBytes /\ accounted' = accounted + PacketSize
               /\ units' = units /\ unitsPartial' = [unitsPartial EXCEPT ![i] = TRUE]
      <4>1. unitsPartial'[j] /\ accounted' + AuSize > MaxBytes
        BY <1>1, <2>4, <3>5 DEF ScanTypeOK
      <4> QED BY <2>1, <3>1, <3>2, <3>5, <4>1
    <3> QED BY <1>unit, <3>3, <3>4, <3>5
  <2> QED BY <2>3, <2>4
<1>12. SideDataOfTheEnds'
  <2> DEFINE First(j, p) == \A q \in PacketsOf(j) : p <= q
             Padded(j) == {p \in stored[j] : file.packets[p].pad # NoSideData}
  <2> SUFFICES ASSUME NEW j \in Streams
               PROVE  /\ \A p \in stored'[j] : First(j, p) => firstSkip'[j] = file.packets[p].skip
                      /\ \A p \in Padded(j)' : (\A q \in Padded(j)' : q <= p) => lastPad'[j] = file.packets[p].pad
    BY <1>2 DEF SideDataOfTheEnds, PacketsOf, Positions
  <2>1. /\ \A p \in stored[j] : First(j, p) => firstSkip[j] = file.packets[p].skip
        /\ \A p \in Padded(j) : (\A q \in Padded(j) : q <= p) => lastPad[j] = file.packets[p].pad
    BY DEF ScanIInv, SideDataOfTheEnds
  <2>2. stored[j] \subseteq Delivery(j) /\ stored[j] \subseteq PacketsOf(j) /\ Position \in Nat /\ stored[j] \subseteq Nat
    BY <1>2 DEF ScanIInv, StreamsFaithful, Delivery, PacketsOf, Positions
  <2>3. CASE j # i
    <3>1. stored'[j] = stored[j] /\ Padded(j)' = Padded(j)
      BY <1>2, <1>6, <2>3
    <3>2. firstSkip'[j] = firstSkip[j] /\ lastPad'[j] = lastPad[j]
      BY <1>1, <2>3 DEF ScanTypeOK
    <3> QED BY <2>1, <3>1, <3>2
  <2>4. CASE j = i
    <3>1. firstSkip'[j] = IF stored[j] = {} THEN Packet.skip ELSE firstSkip[j]
      BY <1>1, <2>4 DEF ScanTypeOK
    <3>2. lastPad'[j] = IF Packet.pad # NoSideData THEN Packet.pad ELSE lastPad[j]
      BY <1>1, <2>4 DEF ScanTypeOK
    <3>3. /\ stored'[j] = stored[j] \cup {Position} /\ Position \notin stored[j]
          /\ \A p \in stored[j] : p \in Nat /\ p < Position
      <4>1. \A p \in stored[j] : p \in Nat /\ p < Position
        BY <1>3, <2>2
      <4>2. Position \notin stored[j]
        BY <4>1, <2>2
      <4> HIDE DEF i
      <4> QED BY <1>6, <2>4, <4>1, <4>2
    <3>4. \A p \in stored'[j] : First(j, p) => firstSkip'[j] = file.packets[p].skip
      <4>1. CASE stored[j] = {}
        BY <3>1, <3>3, <4>1 DEF Packet
      <4>2. CASE stored[j] # {}
        <5>1. PICK p0 \in stored[j] : TRUE
          BY <4>2
        <5>2. ~First(j, Position)
          BY <5>1, <2>2, <3>3
        <5> HIDE DEF First
        <5> QED BY <2>1, <3>1, <3>3, <4>2, <5>2
      <4> QED BY <4>1, <4>2
    <3>5. \A p \in Padded(j)' : (\A q \in Padded(j)' : q <= p) => lastPad'[j] = file.packets[p].pad
      <4>1. CASE Packet.pad = NoSideData
        <5>1. Padded(j)' = Padded(j)
          BY <1>2, <3>3, <4>1 DEF Packet
        <5> QED BY <2>1, <3>2, <4>1, <5>1
      <4>2. CASE Packet.pad # NoSideData
        <5>1. Padded(j)' = Padded(j) \cup {Position}
          BY <1>2, <3>3, <4>2 DEF Packet
        <5>2. \A p \in Padded(j) : ~(Position <= p)
          BY <2>2, <3>3
        <5>3. lastPad'[j] = file.packets[Position].pad
          BY <3>2, <4>2 DEF Packet
        <5> HIDE DEF Padded
        <5> QED BY <5>1, <5>2, <5>3
      <4> QED BY <4>1, <4>2
    <3> QED BY <3>4, <3>5
  <2> QED BY <2>3, <2>4
<1>13. BytesAccountedFor'
  <2>1. accounted + PacketSize <= MaxBytes
    BY <1>1 DEF Kept, Fits
  <2>2. /\ accounted = PacketSize * Cardinality(Recorded) + AuSize * Cardinality(RecordedUnits)
        /\ IsFiniteSet(Recorded) /\ Cardinality(Recorded) \in Nat
        /\ IsFiniteSet(RecordedUnits) /\ Cardinality(RecordedUnits) \in Nat
    <3>1. Recorded \subseteq 1 .. Len(file.packets) /\ RecordedUnits \subseteq 1 .. Len(file.packets)
          /\ Len(file.packets) \in Int
      BY DEF ScanIInv, ScanTypeOK, WellFormed, Positions, Recorded, RecordedUnits
    <3> QED BY <3>1, RecordsFinite DEF ScanIInv, BytesAccountedFor
  <2>3. Position \notin Recorded /\ Position \notin RecordedUnits
    <3>1. \A j \in Streams : \A p \in stored[j] : p \in Nat /\ p < Position
      BY <1>3 DEF ScanIInv, StreamsFaithful, Delivery, PacketsOf, Positions
    <3>2. \A j \in Streams : units[j] \subseteq stored[j]
      BY DEF ScanIInv, UnitsFaithful
    <3>3. Position \in Nat
      BY <1>2 DEF Positions
    <3> QED BY <3>1, <3>2, <3>3 DEF Recorded, RecordedUnits
  <2>4. Recorded' = Recorded \cup {Position}
    BY <1>1, <1>6 DEF Recorded
  <2>5. Cardinality(Recorded') = Cardinality(Recorded) + 1
    BY <2>2, <2>3, <2>4, FS_AddElement
  <2>6. \/ /\ RecordedUnits' = RecordedUnits /\ accounted' = accounted + PacketSize
        \/ /\ RecordedUnits' = RecordedUnits \cup {Position}
           /\ accounted' = accounted + PacketSize + AuSize /\ accounted' <= MaxBytes
    <3>1. units \in [Streams -> SUBSET Positions] /\ i \in Streams
      BY <1>1 DEF ScanTypeOK
    <3>2. ASSUME units' = [units EXCEPT ![i] = @ \cup {Position}]
          PROVE  RecordedUnits' = RecordedUnits \cup {Position}
      <4>1. units'[i] = units[i] \cup {Position} /\ \A j \in Streams \ {i} : units'[j] = units[j]
        BY <3>1, <3>2
      <4> HIDE DEF i
      <4> QED BY <3>1, <4>1 DEF RecordedUnits
    <3> HIDE DEF i
    <3>3. units' = units => RecordedUnits' = RecordedUnits
      BY DEF RecordedUnits
    <3> QED BY <1>unit, <3>2, <3>3
  <2>7. RecordedUnits' = RecordedUnits \cup {Position} => Cardinality(RecordedUnits') = Cardinality(RecordedUnits) + 1
    BY <2>2, <2>3, FS_AddElement
  <2> DEFINE n == Cardinality(Recorded)
             u == Cardinality(RecordedUnits)
  <2>8. /\ n \in Nat /\ u \in Nat /\ PacketSize \in Nat /\ AuSize \in Nat
        /\ accounted = PacketSize * n + AuSize * u
    BY <2>2, <1>4
  <2>9. \/ /\ Cardinality(RecordedUnits') = u /\ accounted' = accounted + PacketSize
        \/ /\ Cardinality(RecordedUnits') = u + 1
           /\ accounted' = accounted + PacketSize + AuSize /\ accounted' <= MaxBytes
    BY <2>6, <2>7
  <2> HIDE DEF n, u, i
  <2>10. PacketSize * (n + 1) = PacketSize * n + PacketSize /\ AuSize * (u + 1) = AuSize * u + AuSize
    BY <2>8
  <2>11. /\ PacketSize * n \in Nat /\ AuSize * u \in Nat
    BY <2>8
  <2>12. accounted' = PacketSize * (n + 1) + AuSize * Cardinality(RecordedUnits')
    BY <2>8, <2>9, <2>10, <2>11
  <2>13. accounted' <= MaxBytes
    BY <2>1, <2>9
  <2> QED BY <2>5, <2>12, <2>13 DEF BytesAccountedFor, n
<1> QED BY <1>7, <1>8, <1>9, <1>10, <1>11, <1>12, <1>13 DEF ScanIInv

\* Steps that change nothing.
LEMMA StutterKeeps == ScanIInv /\ UNCHANGED vars => ScanIInv'
<1> SUFFICES ASSUME ScanIInv, UNCHANGED vars PROVE ScanIInv'
  OBVIOUS
<1> USE DEF vars
<1>1. ScanTypeOK'
  BY DEF ScanIInv, ScanTypeOK, Positions
<1>2. StreamsFaithful'
  BY DEF ScanIInv, StreamsFaithful, Positions, Delivery, PacketsOf, Kept, Fits
<1>3. UnitsFaithful'
  BY DEF ScanIInv, UnitsFaithful, Positions, Delivery, PacketsOf, Kept, Fits
<1>4. FedFaithful' /\ EndFaithful'
  BY DEF ScanIInv, FedFaithful, EndFaithful
<1>5. BytesAccountedFor'
  BY DEF ScanIInv, BytesAccountedFor, Recorded, RecordedUnits
<1>6. SideDataOfTheEnds'
  BY DEF ScanIInv, SideDataOfTheEnds, PacketsOf, Positions
<1> QED BY <1>1, <1>2, <1>3, <1>4, <1>5, <1>6 DEF ScanIInv

-------------------------------------------------------------------------------
\* The records of packet_scan.cpp's sweep are, at every moment, what the stream
\* delivered up to the first packet that was lost; the marks say where one was.
THEOREM ScanInvariant == ScanSpec => []ScanIInv
<1>1. ScanInit => ScanIInv
  BY ScanStarts
<1>2. ScanIInv /\ [ScanNext]_vars => ScanIInv'
  <2> SUFFICES ASSUME ScanIInv, [ScanNext]_vars PROVE ScanIInv'
    OBVIOUS
  <2>1. CASE SkipUnknownStream
    BY <2>1, SkipKeeps
  <2>2. CASE DropPacket
    BY <2>2, DropKeeps
  <2>3. CASE KeepPacket
    BY <2>3, KeepKeeps
  <2>4. CASE EndOfSweep
    BY <2>4, EndKeeps
  <2>5. CASE UNCHANGED vars
    BY <2>5, StutterKeeps
  <2> QED BY <2>1, <2>2, <2>3, <2>4, <2>5 DEF ScanNext
<1> QED BY <1>1, <1>2, PTL DEF ScanSpec

\* No record has a hole without a mark, neither of packets nor of access units, and
\* nothing follows a hole; the account is, to the byte, that of the records kept, and
\* the budget is never exceeded; the priming and the padding of a stream are those of
\* its two ends.
THEOREM ScanRecordsPrefixes == ScanSpec => []ScanInv
<1>1. ScanIInv => NoHoles
  BY DEF ScanIInv, StreamsFaithful, NoHoles, Delivery
<1>2. ScanIInv => NoUnitHoles
  BY DEF ScanIInv, UnitsFaithful, NoUnitHoles
<1>3. ScanIInv => ScanInv
  BY <1>1, <1>2 DEF ScanIInv, ScanInv
<1> QED BY <1>3, ScanInvariant, PTL

\* What the packet checks and the decoded-sample checks call measured was measured
\* over all the packets of the streams it is about (packet_scan.h's D-02), but for
\* the decoder's streams when a read error ended the sweep.
THEOREM ScanMeasuresWholes == ScanSpec => []MeasuredMeansWhole
<1>1. ASSUME ScanIInv, state = "done" PROVE MeasuredMeansWhole
  <2>1. /\ WellFormed(file) /\ read = file.readable /\ (file.ends = "error" => whole)
        /\ \A i \in Streams : partial[i] => whole
        /\ \A i \in Streams : ~partial[i] => stored[i] = Delivery(i)
    BY <1>1 DEF ScanIInv, ScanTypeOK, EndFaithful, StreamsFaithful
  <2>2. file.ends \in {"eof", "error"} /\ (file.ends = "eof" => read = Len(file.packets))
    BY <2>1 DEF WellFormed
  <2>3. file.ends = "eof" => \A i \in Streams : Delivery(i) = PacketsOf(i)
    BY <2>2 DEF Delivery, PacketsOf, Positions
  <2>4. PacketMeasurement = "measured" => \A i \in Streams : stored[i] = PacketsOf(i)
    BY <2>1, <2>2, <2>3 DEF PacketMeasurement
  <2>5. ASSUME NEW i \in AudioStreams, SampleHash(i) = "full"
        PROVE  fed[i] = PacketsOf(i) \/ (whole /\ file.ends = "error")
    <3>1. i \in Streams /\ ~partial[i] /\ request.decode_audio
      BY <2>5, ScanAssumption DEF SampleHash
    <3>2. fed[i] = stored[i]
      BY <1>1, <3>1 DEF ScanIInv, FedFaithful
    <3> QED BY <2>1, <2>2, <2>3, <3>1, <3>2
  <2> QED BY <2>4, <2>5 DEF MeasuredMeansWhole
<1>2. ScanIInv => MeasuredMeansWhole
  BY <1>1 DEF MeasuredMeansWhole
<1> QED BY <1>2, ScanInvariant, PTL

-------------------------------------------------------------------------------
(* The continuity counters of a transport stream.                          *)
LEMMA IncrementIsCounts ==
  ASSUME NEW counts \in Counts, NEW increment \in {"duplicate", "error", "discontinuity", "none"}
  PROVE  Increment(counts, increment) \in Counts
BY DEF Counts, Increment

\* One arrival is counted as what it is and leaves the scanner in step.
LEMMA ArrivalCounts ==
  ASSUME NEW pid \in PidContinuityState, NEW ch \in Channels, NEW arrival \in Arrivals(ch),
         InStep(pid, ch)
  PROVE  /\ StepContinuity(pid, arrival.packet).next \in PidContinuityState
         /\ arrival.channel \in Channels
         /\ InStep(StepContinuity(pid, arrival.packet).next, arrival.channel)
         /\ Increment(ch.truth, StepContinuity(pid, arrival.packet).increment) = arrival.channel.truth
<1> DEFINE step == StepContinuity(pid, arrival.packet)
           Correct == /\ step.next \in PidContinuityState
                      /\ arrival.channel \in Channels
                      /\ InStep(step.next, arrival.channel)
                      /\ Increment(ch.truth, step.increment) = arrival.channel.truth
<1> SUFFICES Correct
  OBVIOUS
<1>a. /\ ch.tx \in 0 .. 15 /\ ch.lost \in 0 .. MaxBurst /\ ch.arrivals \in Nat /\ ch.truth \in Counts
      /\ ch.heard \in BOOLEAN /\ ch.repeated \in BOOLEAN
  BY DEF Channels
<1>b. ASSUME NEW tx \in 0 .. 15, NEW heard \in BOOLEAN, NEW repeated \in BOOLEAN, NEW truth \in Counts,
             arrival.channel = [tx |-> tx, lost |-> 0, heard |-> heard, repeated |-> repeated,
                                truth |-> truth, arrivals |-> ch.arrivals + 1]
      PROVE  arrival.channel \in Channels
  BY <1>a, <1>b DEF Channels, MaxBurst
<1>c. \A increment \in {"duplicate", "error", "discontinuity", "none"} : Increment(ch.truth, increment) \in Counts
  BY <1>a, IncrementIsCounts
<1>d. \A cc \in 0 .. 15 : Tracking(cc) \in PidContinuityState
  BY DEF Tracking, PidContinuityState
<1>e. (ch.tx + 1) % 16 \in 0 .. 15
  BY <1>a
<1>1. CASE arrival = Payload(ch)
  <2> DEFINE truth == IF ch.heard /\ ch.lost > 0 THEN Increment(ch.truth, "error") ELSE ch.truth
  <2>0. arrival.channel = [tx |-> (ch.tx + 1) % 16, lost |-> 0, heard |-> TRUE, repeated |-> FALSE,
                           truth |-> truth, arrivals |-> ch.arrivals + 1]
    BY <1>1, Zenon DEF Payload, Arrived
  <2>1. arrival.packet = [cc |-> ch.tx, payload |-> TRUE, discontinuity |-> FALSE]
    BY <1>1 DEF Payload
  <2>2. CASE ~ch.heard \/ ch.lost = 0
    <3>1. step = [next |-> Tracking(ch.tx), increment |-> "none"]
      BY <2>1, <2>2, <1>a DEF StepContinuity, InStep, MaxBurst
    <3>2. arrival.channel = [tx |-> (ch.tx + 1) % 16, lost |-> 0, heard |-> TRUE, repeated |-> FALSE,
                          truth |-> ch.truth, arrivals |-> ch.arrivals + 1]
      <4>1. truth = ch.truth
        BY <2>2, <1>a DEF MaxBurst
      <4> QED BY <2>0, <4>1
    <3>3. InStep(step.next, arrival.channel)
      BY <3>1, <3>2, <1>a DEF InStep, Tracking
    <3>4. arrival.channel \in Channels
      BY <3>2, <1>a, <1>b, <1>e
    <3>5. Increment(ch.truth, step.increment) = arrival.channel.truth
      BY <3>1, <3>2 DEF Increment
    <3> QED BY <3>1, <3>3, <3>4, <3>5, <1>a, <1>d
  <2>3. CASE ch.heard /\ ch.lost # 0
    <3>1. ch.tx # pid.expected_cc /\ ch.tx # (pid.expected_cc + 15) % 16
      BY <2>3, <1>a DEF InStep, MaxBurst
    <3>2. step = [next |-> Tracking(ch.tx), increment |-> "error"]
      BY <2>1, <2>3, <3>1 DEF StepContinuity, InStep
    <3>3. arrival.channel = [tx |-> (ch.tx + 1) % 16, lost |-> 0, heard |-> TRUE, repeated |-> FALSE,
                          truth |-> Increment(ch.truth, "error"), arrivals |-> ch.arrivals + 1]
      <4>1. truth = Increment(ch.truth, "error")
        BY <2>3, <1>a DEF MaxBurst
      <4> QED BY <2>0, <4>1
    <3>4. InStep(step.next, arrival.channel)
      BY <3>2, <3>3, <1>a DEF InStep, Tracking
    <3>5. arrival.channel \in Channels
      BY <3>3, <1>a, <1>b, <1>c, <1>e
    <3>6. Increment(ch.truth, step.increment) = arrival.channel.truth
      BY <3>2, <3>3
    <3> QED BY <3>2, <3>4, <3>5, <3>6, <1>a, <1>d
  <2> QED BY <2>2, <2>3
<1>2. CASE arrival = NoPayload(ch)
  <2>1. step = [next |-> pid, increment |-> "none"]
    BY <1>2 DEF NoPayload, StepContinuity
  <2>2. arrival.channel = [ch EXCEPT !.arrivals = @ + 1]
    BY <1>2 DEF NoPayload
  <2>3. arrival.channel \in Channels /\ InStep(pid, arrival.channel) /\ arrival.channel.truth = ch.truth
    BY <2>2 DEF Channels, InStep
  <2> QED BY <2>1, <2>3 DEF Increment
<1>3. ASSUME NEW cc \in Restarts, NEW payload \in BOOLEAN, arrival = Restart(ch, cc, payload)
      PROVE  Correct
  <2>1. step = [next |-> Untracked, increment |-> "discontinuity"]
    BY <1>3 DEF Restart, StepContinuity
  <2>2. (cc + 1) % 16 \in 0 .. 15
    BY ContinuityAssumption
  <2>3. arrival.channel = [tx |-> (cc + 1) % 16, lost |-> 0, heard |-> FALSE, repeated |-> FALSE,
                          truth |-> Increment(ch.truth, "discontinuity"), arrivals |-> ch.arrivals + 1]
    BY <1>3 DEF Restart, Arrived
  <2>4. step.next \in PidContinuityState /\ InStep(step.next, arrival.channel)
    BY <2>1, <2>3 DEF InStep, Untracked, PidContinuityState
  <2>5. arrival.channel \in Channels
    BY <2>2, <2>3, <1>b, <1>c
  <2>6. Increment(ch.truth, step.increment) = arrival.channel.truth
    BY <2>1, <2>3
  <2> QED BY <2>4, <2>5, <2>6
<1>4. CASE ch.heard /\ ch.lost = 0 /\ ~ch.repeated /\ arrival = Repetition(ch)
  <2>1. /\ pid.expected_cc = ch.tx /\ pid.duplicate_available /\ pid.initialized
        /\ (ch.tx + 15) % 16 # ch.tx
    BY <1>4, <1>a DEF InStep
  <2>2. step = [next |-> [pid EXCEPT !.duplicate_available = FALSE], increment |-> "duplicate"]
    BY <1>4, <2>1 DEF Repetition, StepContinuity
  <2>3. arrival.channel = [tx |-> ch.tx, lost |-> 0, heard |-> TRUE, repeated |-> TRUE,
                          truth |-> Increment(ch.truth, "duplicate"), arrivals |-> ch.arrivals + 1]
    BY <1>4 DEF Repetition, Arrived
  <2>4. step.next \in PidContinuityState /\ InStep(step.next, arrival.channel)
    <3>1. /\ step.next \in PidContinuityState
          /\ step.next.initialized = pid.initialized /\ step.next.expected_cc = pid.expected_cc
          /\ step.next.duplicate_available = FALSE
      <4> DEFINE after == [pid EXCEPT !.duplicate_available = FALSE]
      <4>1. step.next = after
        BY <2>2
      <4>2. after \in PidContinuityState /\ after.initialized = pid.initialized
            /\ after.expected_cc = pid.expected_cc /\ after.duplicate_available = FALSE
        BY DEF PidContinuityState
      <4> QED BY <4>1, <4>2, Zenon
    <3>2. /\ arrival.channel.tx = ch.tx /\ arrival.channel.lost = 0
          /\ arrival.channel.heard = TRUE /\ arrival.channel.repeated = TRUE
      BY <2>3
    <3>3. pid.expected_cc = (ch.tx + 16 - 0) % 16
      BY <2>1, <1>a
    <3> QED BY <3>1, <3>2, <3>3, <2>1 DEF InStep
  <2>5. arrival.channel \in Channels
    BY <2>3, <1>a, <1>b, <1>c
  <2>6. Increment(ch.truth, step.increment) = arrival.channel.truth
    BY <2>2, <2>3
  <2> QED BY <2>4, <2>5, <2>6
<1> QED BY <1>1, <1>2, <1>3, <1>4 DEF Arrivals

\* A burst of losses leaves the scanner in step with what is to come.
LEMMA LossKeepsStep ==
  ASSUME NEW pid \in PidContinuityState, NEW ch \in Channels, InStep(pid, ch),
         NEW after \in Losses(ch)
  PROVE  after \in Channels /\ InStep(pid, after) /\ after.truth = ch.truth
<1>1. PICK k \in {b \in Bursts : ch.lost + b <= MaxBurst} : after = [ch EXCEPT !.tx = (ch.tx + k) % 16, !.lost = ch.lost + k]
  BY DEF Losses
<1>2. after \in Channels /\ after.truth = ch.truth
  <2>1. (ch.tx + k) % 16 \in 0 .. 15 /\ ch.lost + k \in 0 .. MaxBurst
    BY <1>1, ContinuityAssumption DEF Channels, MaxBurst
  <2> QED BY <1>1, <2>1 DEF Channels
<1>3. (ch.tx + 16 - ch.lost) % 16 = (((ch.tx + k) % 16) + 16 - (ch.lost + k)) % 16
  BY <1>1, ContinuityAssumption DEF Channels, MaxBurst
<1> QED BY <1>1, <1>2, <1>3 DEF InStep, Channels

\* What the scanner counts on a PID is what happened to it, for every
\* sequence of losses, repetitions and restarts.
THEOREM ContinuityInvariant == ContinuitySpec => []ContinuityInv
<1>1. ContinuityInit => ContinuityInv
  BY DEF ContinuityInit, ContinuityInv, Untracked, NoCounts, Quiet, PidContinuityState, Counts, Channels,
         MaxBurst, InStep
<1>2. ContinuityInv /\ [ContinuityNext]_ContinuityVars => ContinuityInv'
  <2> SUFFICES ASSUME ContinuityInv, [ContinuityNext]_ContinuityVars PROVE ContinuityInv'
    OBVIOUS
  <2>1. CASE Arrive
    <3>1. PICK arrival \in Arrivals(channel) :
            /\ continuity' = StepContinuity(continuity, arrival.packet).next
            /\ counted' = Increment(counted, StepContinuity(continuity, arrival.packet).increment)
            /\ channel' = arrival.channel
      BY <2>1 DEF Arrive
    <3>2. /\ continuity' \in PidContinuityState
          /\ channel' \in Channels
          /\ InStep(continuity', channel')
          /\ counted' = channel'.truth
      BY <3>1, ArrivalCounts DEF ContinuityInv
    <3>3. counted' \in Counts
      BY <3>2 DEF Channels
    <3> QED BY <3>2, <3>3 DEF ContinuityInv, InStep
  <2>2. CASE Lose
    <3>1. channel' \in Channels /\ InStep(continuity, channel') /\ channel'.truth = channel.truth
      BY <2>2, LossKeepsStep DEF Lose, ContinuityInv
    <3> QED BY <2>2, <3>1 DEF Lose, ContinuityInv, InStep
  <2>3. CASE UNCHANGED ContinuityVars
    BY <2>3 DEF ContinuityVars, ContinuityInv, InStep
  <2> QED BY <2>1, <2>2, <2>3 DEF ContinuityNext
<1> QED BY <1>1, <1>2, PTL DEF ContinuitySpec

\* No packet raises a false alarm and no burst goes uncounted.
THEOREM ContinuityCounts == ContinuitySpec => []CountsAreTheFaults
<1>1. ContinuityInv => CountsAreTheFaults
  BY DEF ContinuityInv, CountsAreTheFaults
<1> QED BY <1>1, ContinuityInvariant, PTL

-------------------------------------------------------------------------------
(* The snapshot file, for one writer at a time: documents of any length,   *)
(* any failures, killed anywhere and run again any number of times.  Two   *)
(* writers can tear the temporary that they share, so nothing of this      *)
(* holds for them.                                                         *)

Blocks == Seq(Authors \cup {None})
Written(p, n) == [k \in 1..n |-> p]

\* The two names never stand for one file, and the target only for a whole one.
NamesApart ==
  /\ content \in [Inodes -> Blocks]
  /\ names[Target] # None => names[Tmp] # names[Target]
  /\ names[Target] # None => content[names[Target]] \in Documents

\* What the writer has open is the temporary, as far as it has written it.
TmpIsOwn(p) ==
  /\ pc[p] # "write" => handle[p] = None
  /\ pc[p] = "write" => /\ names[Tmp] # None /\ handle[p] = names[Tmp]
                        /\ content[names[Tmp]] = Written(p, offset[p])
                        /\ offset[p] <= DocLength[p]
  /\ pc[p] = "rename" => names[Tmp] # None /\ content[names[Tmp]] = Document(p)

\* Nothing is promised and nothing replaced before the end of a run.
NotYetOver(p) ==
  /\ pc[p] # "over" => code[p] = None /\ ~replaced[p]
  /\ pc[p] \in {"probe", "gate", "open"} => offset[p] = 0

\* Past the gate, a target that is there may be replaced.
PastTheGate(p) ==
  pc[p] \in {"open", "write", "rename"} => names[Target] = None \/ MayReplace(p)

SnapshotIInv(p) ==
  /\ SnapshotInv /\ NamesApart
  /\ TmpIsOwn(p) /\ NotYetOver(p) /\ PastTheGate(p)

-------------------------------------------------------------------------------
\* An author's document is a sequence of its blocks.
LEMMA DocumentsAreBlocks ==
  ASSUME NEW a \in Authors
  PROVE  Document(a) \in Blocks /\ Document(a) \in Documents /\ DocLength[a] \in Nat \ {0}
<1>1. DocLength[a] \in Nat \ {0}
  BY SnapshotAssumption
<1>2. Document(a) \in [1..DocLength[a] -> Authors \cup {None}]
  BY DEF Document
<1>3. Document(a) \in Blocks
  BY <1>1, <1>2, SeqDef DEF Blocks
<1> QED BY <1>1, <1>3 DEF Documents

\* The next block goes behind the blocks that are there.
LEMMA PutAppends ==
  ASSUME NEW p \in Processes, NEW n \in Nat
  PROVE  /\ Put(Written(p, n), n + 1, p) = Written(p, n + 1)
         /\ Written(p, n + 1) \in Blocks
<1>1. Written(p, n) \in [1..n -> {p}]
  BY DEF Written
<1>2. Written(p, n) \in Seq({p})
  BY <1>1, SeqDef
<1>3. Len(Written(p, n)) = n
  BY <1>1, <1>2, LenProperties
<1>4. Put(Written(p, n), n + 1, p)
        = [k \in 1..(n + 1) |-> IF k = n + 1 THEN p ELSE IF k <= n THEN Written(p, n)[k] ELSE None]
  BY <1>3 DEF Put
<1>5. \A k \in 1..(n + 1) : (IF k = n + 1 THEN p ELSE IF k <= n THEN Written(p, n)[k] ELSE None) = p
  BY DEF Written
<1>6. Put(Written(p, n), n + 1, p) = Written(p, n + 1)
  BY <1>4, <1>5 DEF Written
<1>7. Written(p, n + 1) \in [1..(n + 1) -> Authors \cup {None}]
  BY DEF Written, Authors
<1> QED BY <1>6, <1>7, SeqDef DEF Blocks

\* A writer starts past no gate and with no temporary file.
LEMMA SnapshotStarts ==
  ASSUME NEW p, Processes = {p}, SnapshotInit
  PROVE  SnapshotIInv(p)
<1>1. PICK i \in Inodes, there \in BOOLEAN :
        /\ names = [n \in {Target, Tmp} |-> IF n = Target /\ there THEN i ELSE None]
        /\ content = [j \in Inodes |-> IF j = i /\ there THEN Document(Earlier) ELSE <<>>]
  BY DEF SnapshotInit
<1>2. Earlier \in Authors /\ Document(Earlier) \in Blocks /\ Document(Earlier) \in Documents
  BY DocumentsAreBlocks DEF Authors
<1>3. <<>> \in Blocks
  BY EmptySeq DEF Blocks
<1>4. content \in [Inodes -> Blocks]
  BY <1>1, <1>2, <1>3
<1>5. names \in [{Target, Tmp} -> Inodes \cup {None}] /\ names[Tmp] = None
      /\ (names[Target] # None => names[Target] = i /\ there)
  BY <1>1 DEF Target, Tmp
<1>6. NamesApart
  BY <1>1, <1>2, <1>4, <1>5 DEF NamesApart
<1>7. SnapshotTypeOK
  BY <1>4, <1>5 DEF SnapshotInit, SnapshotTypeOK, Blocks
<1> QED BY <1>6, <1>7 DEF SnapshotInit, SnapshotIInv, SnapshotInv, CleanMeansInPlace, NoLitter,
           ProtectedTargetStands, MayReplace, TmpIsOwn, NotYetOver, PastTheGate

-------------------------------------------------------------------------------
\* The steps that leave the file system alone.
LEMMA QuietKeeps ==
  ASSUME NEW p, Processes = {p}, SnapshotIInv(p),
         \/ Probe(p) \/ Gate(p) \/ OpenFails(p) \/ CloseTmp(p) \/ WriteFails(p)
         \/ RenameFails(p) \/ Killed(p) \/ Again(p)
  PROVE  SnapshotIInv(p)'
<1>1. names' = names /\ content' = content
  BY DEF Probe, Gate, OpenFails, CloseTmp, WriteFails, RenameFails, Killed, Again
<1>2. NamesApart'
  BY <1>1 DEF SnapshotIInv, NamesApart
<1>3. SnapshotTypeOK /\ SnapshotTypeOK'
  <2>1. SnapshotTypeOK
    BY DEF SnapshotIInv, SnapshotInv
  <2>2. /\ names' \in [{Target, Tmp} -> Inodes \cup {None}]
        /\ \A i \in Inodes : content'[i] \in Seq(Authors \cup {None})
    BY <1>1, <2>1 DEF SnapshotTypeOK
  <2>3. pc' \in [Processes -> {"probe", "gate", "open", "write", "rename", "remove", "over"}]
    BY <2>1 DEF SnapshotTypeOK, Goto, Exit,
                Probe, Gate, OpenFails, CloseTmp, WriteFails, RenameFails, Killed, Again
  <2>4. code' \in [Processes -> {None} \cup ExitCodes]
    BY <2>1 DEF SnapshotTypeOK, Exit, ExitCodes,
                Probe, Gate, OpenFails, CloseTmp, WriteFails, RenameFails, Killed, Again
  <2>5. handle' \in [Processes -> Inodes \cup {None}] /\ offset' \in [Processes -> Nat]
    BY <2>1 DEF SnapshotTypeOK, Probe, Gate, OpenFails, CloseTmp, WriteFails, RenameFails, Killed, Again
  <2>6. replaced' \in [Processes -> BOOLEAN]
    BY <2>1 DEF SnapshotTypeOK, Probe, Gate, OpenFails, CloseTmp, WriteFails, RenameFails, Killed, Again
  <2>8. given' \in [Processes -> SUBSET Circumstances]
    <3>1. CASE Again(p)
      <4>1. PICK now \in SUBSET Circumstances : given' = [given EXCEPT ![p] = now]
        BY <3>1 DEF Again
      <4> QED BY <2>1, <4>1 DEF SnapshotTypeOK
    <3>2. CASE given' = given
      BY <2>1, <3>2 DEF SnapshotTypeOK
    <3> QED BY <3>1, <3>2 DEF Probe, Gate, OpenFails, CloseTmp, WriteFails, RenameFails, Killed
  <2>7. ignored' \in [Processes -> SUBSET Ignorable]
    <3>1. \A told \in SUBSET Ignorable : [ignored EXCEPT ![p] = told] \in [Processes -> SUBSET Ignorable]
      BY <2>1 DEF SnapshotTypeOK
    <3>2. CASE Gate(p)
      BY <3>1, <3>2 DEF Gate, Ignorable
    <3>3. CASE Again(p)
      BY <3>1, <3>3 DEF Again
    <3>4. CASE ignored' = ignored
      BY <2>1, <3>4 DEF SnapshotTypeOK
    <3> QED BY <3>2, <3>3, <3>4 DEF Probe, OpenFails, CloseTmp, WriteFails, RenameFails, Killed
  <2> QED BY <2>1, <2>2, <2>3, <2>4, <2>5, <2>6, <2>7, <2>8 DEF SnapshotTypeOK
<1>codes. ExitClean # None /\ ExitUsage # None /\ ExitInput # None /\ ExitUsage # ExitClean /\ ExitInput # ExitClean
  BY SnapshotAssumption DEF ExitCodes, ExitClean, ExitUsage, ExitInput
<1>own. p \in Processes /\ DocLength[p] \in Nat /\ offset[p] \in Nat
  BY DocumentsAreBlocks, <1>3 DEF Authors, SnapshotTypeOK
<1> USE <1>codes, <1>own DEF SnapshotIInv, SnapshotInv, SnapshotTypeOK, CleanMeansInPlace, NoLitter,
        ProtectedTargetStands, MayReplace, TmpIsOwn, NotYetOver, PastTheGate, Goto, Exit
<1>4. CASE Probe(p)
  BY <1>1, <1>2, <1>3, <1>4 DEF Probe
<1>5. CASE Gate(p)
  <2>1. PICK opens \in BOOLEAN, answers \in BOOLEAN :
          /\ opens => names[Target] # None
          /\ IF Refuses(p, opens, answers)
               THEN Exit(p, ExitUsage)
               ELSE Goto(p, "open") /\ UNCHANGED code
          /\ ignored' = [ignored EXCEPT ![p] =
                           {c \in {"target", "git"} : IF c = "target" THEN names[Target] # None /\ ~opens
                                                                     ELSE ~answers}]
    BY <1>5 DEF Gate
  <2>2. /\ "target" \in ignored'[p] <=> names[Target] # None /\ ~opens
        /\ "git" \in ignored'[p] <=> ~answers
    BY <1>3, <2>1 DEF SnapshotTypeOK
  <2>3. ~Refuses(p, opens, answers) => names[Target] = None \/ MayReplace(p)'
    BY <1>5, <2>1, <2>2 DEF Gate, Refuses, MayReplace
  <2>4. PastTheGate(p)' /\ NotYetOver(p)' /\ TmpIsOwn(p)'
    BY <1>1, <1>3, <1>5, <2>1, <2>3 DEF Gate
  <2>5. CleanMeansInPlace' /\ NoLitter' /\ ProtectedTargetStands'
    BY <1>1, <1>3, <1>5, <2>1 DEF Gate
  <2> QED BY <1>2, <1>3, <2>4, <2>5
<1>6. CASE OpenFails(p)
  BY <1>1, <1>2, <1>3, <1>6 DEF OpenFails
<1>7. CASE CloseTmp(p)
  BY <1>1, <1>2, <1>3, <1>7 DEF CloseTmp, Written, Document
<1>8. CASE WriteFails(p)
  BY <1>1, <1>2, <1>3, <1>8 DEF WriteFails
<1>9. CASE RenameFails(p)
  BY <1>1, <1>2, <1>3, <1>9 DEF RenameFails
<1>10. CASE Killed(p)
  BY <1>1, <1>2, <1>3, <1>10 DEF Killed
<1>11. CASE Again(p)
  BY <1>1, <1>2, <1>3, <1>11 DEF Again
<1> QED BY <1>4, <1>5, <1>6, <1>7, <1>8, <1>9, <1>10, <1>11

\* The temporary file is opened, or cannot be.
LEMMA OpenKeeps ==
  ASSUME NEW p, Processes = {p}, SnapshotIInv(p), OpenTmp(p)
  PROVE  SnapshotIInv(p)' /\ TargetValue' = TargetValue
<1>1. PICK i \in Inodes :
        /\ IF names[Tmp] # None THEN i = names[Tmp] ELSE i \in Unused
        /\ names' = [names EXCEPT ![Tmp] = i]
        /\ content' = [content EXCEPT ![i] = <<>>]
        /\ handle' = [handle EXCEPT ![p] = i]
  BY DEF OpenTmp
<1>2. SnapshotTypeOK /\ content \in [Inodes -> Blocks] /\ i # None
  BY SnapshotAssumption DEF SnapshotIInv, SnapshotInv, NamesApart
<1>3. names[Target] # i
  BY <1>1, <1>2 DEF SnapshotIInv, NamesApart, Unused, SnapshotTypeOK
<1>4. names'[Target] = names[Target] /\ names'[Tmp] = i
  BY <1>1, <1>2 DEF SnapshotTypeOK, Target, Tmp
<1>5. content'[i] = <<>> /\ content' \in [Inodes -> Blocks]
      /\ (names[Target] # None => content'[names[Target]] = content[names[Target]])
  <2>1. <<>> \in Blocks
    BY EmptySeq DEF Blocks
  <2> QED BY <1>1, <1>2, <1>3, <2>1 DEF SnapshotTypeOK
<1>6. NamesApart'
  BY <1>3, <1>4, <1>5 DEF SnapshotIInv, NamesApart
<1>7. TargetValue' = TargetValue
  BY <1>4, <1>5 DEF TargetValue
<1>8. SnapshotTypeOK'
  BY <1>1, <1>2, <1>5 DEF OpenTmp, SnapshotTypeOK, Goto, Blocks
<1>9. Written(p, 0) = <<>>
  BY DEF Written
<1>10. SnapshotIInv(p)'
  BY <1>1, <1>2, <1>4, <1>5, <1>6, <1>8, <1>9, DocumentsAreBlocks
     DEF OpenTmp, Goto, SnapshotIInv, SnapshotInv, SnapshotTypeOK, CleanMeansInPlace, NoLitter,
         ProtectedTargetStands, MayReplace, TmpIsOwn, NotYetOver, PastTheGate, Authors
<1> QED BY <1>7, <1>10

\* A block is written, or cannot be.
LEMMA WriteKeeps ==
  ASSUME NEW p, Processes = {p}, SnapshotIInv(p), WriteBlock(p)
  PROVE  SnapshotIInv(p)' /\ TargetValue' = TargetValue
<1> DEFINE i == names[Tmp]
<1>1. SnapshotTypeOK /\ NamesApart /\ p \in Processes /\ DocLength[p] \in Nat /\ offset[p] \in Nat
  BY DocumentsAreBlocks DEF SnapshotIInv, SnapshotInv, SnapshotTypeOK, Authors
<1>2. /\ pc[p] = "write" /\ handle[p] = i /\ i \in Inodes /\ content[i] = Written(p, offset[p])
      /\ offset[p] < DocLength[p]
  BY <1>1 DEF SnapshotIInv, TmpIsOwn, WriteBlock, SnapshotTypeOK
<1>3. content' = [content EXCEPT ![i] = Written(p, offset[p] + 1)] /\ Written(p, offset[p] + 1) \in Blocks
  BY <1>1, <1>2, PutAppends DEF WriteBlock, NamesApart
<1>4. content' \in [Inodes -> Blocks] /\ content'[i] = Written(p, offset[p] + 1)
      /\ (names[Target] # None => content'[names[Target]] = content[names[Target]])
  BY <1>1, <1>2, <1>3 DEF NamesApart, SnapshotTypeOK
<1>5. names' = names /\ pc' = pc /\ handle' = handle /\ code' = code /\ replaced' = replaced
      /\ given' = given /\ ignored' = ignored
      /\ offset' = [offset EXCEPT ![p] = @ + 1]
  BY DEF WriteBlock
<1>6. NamesApart' /\ TargetValue' = TargetValue
  BY <1>1, <1>4, <1>5 DEF NamesApart, TargetValue
<1>7. SnapshotTypeOK'
  BY <1>1, <1>4, <1>5 DEF SnapshotTypeOK, Blocks
<1>8. offset'[p] = offset[p] + 1 /\ offset'[p] <= DocLength[p]
  BY <1>1, <1>2, <1>5 DEF SnapshotTypeOK
<1>9. TmpIsOwn(p)'
  BY <1>1, <1>2, <1>4, <1>5, <1>8 DEF SnapshotIInv, TmpIsOwn
<1> HIDE DEF i
<1>10. CleanMeansInPlace' /\ NoLitter' /\ ProtectedTargetStands' /\ NotYetOver(p)' /\ PastTheGate(p)'
  BY <1>2, <1>5 DEF SnapshotIInv, SnapshotInv, CleanMeansInPlace, NoLitter, ProtectedTargetStands,
                    NotYetOver, PastTheGate, MayReplace
<1> QED BY <1>6, <1>7, <1>9, <1>10 DEF SnapshotIInv, SnapshotInv

\* The rename puts the whole document in the target's place.
LEMMA RenameKeeps ==
  ASSUME NEW p, Processes = {p}, SnapshotIInv(p), Rename(p)
  PROVE  SnapshotIInv(p)' /\ TargetValue' = Document(p)
<1>1. SnapshotTypeOK /\ NamesApart /\ p \in Processes /\ Document(p) \in Documents
  BY DocumentsAreBlocks DEF SnapshotIInv, SnapshotInv, Authors
<1>2. /\ pc[p] = "rename" /\ names[Tmp] # None /\ content[names[Tmp]] = Document(p) /\ handle[p] = None
      /\ content' = content /\ handle' = handle /\ offset' = offset /\ given' = given /\ ignored' = ignored
  BY DEF SnapshotIInv, TmpIsOwn, Rename
<1>3. names' \in [{Target, Tmp} -> Inodes \cup {None}] /\ names'[Target] = names[Tmp] /\ names'[Tmp] = None
  BY <1>1 DEF Rename, SnapshotTypeOK, Target, Tmp
<1>4. pc' = [pc EXCEPT ![p] = "over"] /\ code' = [code EXCEPT ![p] = ExitClean]
      /\ replaced' = [replaced EXCEPT ![p] = (names[Target] # None)]
  BY DEF Rename, Exit, Goto
<1>5. NamesApart' /\ TargetValue' = Document(p)
  BY <1>1, <1>2, <1>3 DEF NamesApart, TargetValue
<1>6. SnapshotTypeOK'
  BY <1>1, <1>2, <1>3, <1>4 DEF SnapshotTypeOK, ExitCodes
<1>7. pc'[p] = "over" /\ (replaced'[p] <=> names[Target] # None)
  BY <1>1, <1>4 DEF SnapshotTypeOK
<1>8. CleanMeansInPlace' /\ NoLitter' /\ ProtectedTargetStands'
  BY <1>1, <1>2, <1>3, <1>7 DEF SnapshotIInv, PastTheGate, MayReplace, CleanMeansInPlace, NoLitter, ProtectedTargetStands,
        SnapshotTypeOK
<1>9. TmpIsOwn(p)' /\ NotYetOver(p)' /\ PastTheGate(p)'
  BY <1>2, <1>7 DEF TmpIsOwn, NotYetOver, PastTheGate
<1> QED BY <1>5, <1>6, <1>8, <1>9 DEF SnapshotIInv, SnapshotInv

\* The temporary file is removed.
LEMMA RemoveKeeps ==
  ASSUME NEW p, Processes = {p}, SnapshotIInv(p), RemoveTmp(p)
  PROVE  SnapshotIInv(p)' /\ TargetValue' = TargetValue
<1>1. SnapshotTypeOK /\ NamesApart /\ p \in Processes
  BY DEF SnapshotIInv, SnapshotInv
<1>2. /\ pc[p] = "remove" /\ handle[p] = None /\ ~replaced[p]
      /\ content' = content /\ handle' = handle /\ offset' = offset /\ given' = given /\ replaced' = replaced
  BY DEF SnapshotIInv, TmpIsOwn, NotYetOver, RemoveTmp
<1>3. names' \in [{Target, Tmp} -> Inodes \cup {None}] /\ names'[Target] = names[Target]
      /\ names'[Tmp] \in {None, names[Tmp]} /\ (names'[Tmp] = None \/ "removal" \in ignored'[p])
      /\ ignored' \in [Processes -> SUBSET Ignorable]
  BY <1>1 DEF RemoveTmp, SnapshotTypeOK, Target, Tmp, Ignorable
<1>4. pc' = [pc EXCEPT ![p] = "over"] /\ code' = [code EXCEPT ![p] = ExitInput]
  BY DEF RemoveTmp, Exit, Goto
<1>5. NamesApart' /\ TargetValue' = TargetValue
  BY <1>1, <1>2, <1>3 DEF NamesApart, TargetValue
<1>6. SnapshotTypeOK'
  BY <1>1, <1>2, <1>3, <1>4 DEF SnapshotTypeOK, ExitCodes
<1>7. pc'[p] = "over" /\ code'[p] = ExitInput /\ ExitInput # ExitClean
  BY <1>1, <1>4 DEF SnapshotTypeOK, ExitInput, ExitClean
<1>8. CleanMeansInPlace' /\ NoLitter' /\ ProtectedTargetStands'
  BY <1>2, <1>3, <1>7 DEF CleanMeansInPlace, NoLitter, ProtectedTargetStands
<1>9. TmpIsOwn(p)' /\ NotYetOver(p)' /\ PastTheGate(p)'
  BY <1>2, <1>7 DEF TmpIsOwn, NotYetOver, PastTheGate
<1> QED BY <1>5, <1>6, <1>8, <1>9 DEF SnapshotIInv, SnapshotInv

-------------------------------------------------------------------------------
\* So every step keeps the invariant, and only the rename replaces the target.
LEMMA SnapshotKeeps ==
  ASSUME NEW p, Processes = {p}, SnapshotIInv(p), [SnapshotNext]_SnapshotVars
  PROVE  SnapshotIInv(p)' /\ [Promise!Replace]_TargetValue
<1>1. CASE \/ Probe(p) \/ Gate(p) \/ OpenFails(p) \/ CloseTmp(p) \/ WriteFails(p)
           \/ RenameFails(p) \/ Killed(p) \/ Again(p)
  <2>1. TargetValue' = TargetValue
    BY <1>1 DEF TargetValue, Probe, Gate, OpenFails, CloseTmp, WriteFails, RenameFails, Killed, Again
  <2> QED BY <1>1, <2>1, QuietKeeps
<1>2. CASE OpenTmp(p)
  BY <1>2, OpenKeeps
<1>3. CASE WriteBlock(p)
  BY <1>3, WriteKeeps
<1>4. CASE Rename(p)
  <2>1. Document(p) \in Documents
    BY DocumentsAreBlocks DEF Authors
  <2> QED BY <1>4, <2>1, RenameKeeps DEF Promise!Replace
<1>5. CASE RemoveTmp(p)
  BY <1>5, RemoveKeeps
<1>6. CASE UNCHANGED SnapshotVars
  BY <1>6 DEF SnapshotVars, TargetValue, SnapshotIInv, SnapshotInv, SnapshotTypeOK, NamesApart, TmpIsOwn, NotYetOver,
              PastTheGate, CleanMeansInPlace, NoLitter, ProtectedTargetStands, MayReplace
<1> QED BY <1>1, <1>2, <1>3, <1>4, <1>5, <1>6 DEF SnapshotNext, WriteSnapshot

\* With one writer at a time, exit 0 means that its document is in place; a run that
\* wrote and was not killed leaves a temporary file only when std::remove failed, and
\* then says 65; and a target that could be read is replaced only with --force, or
\* outside of CI when git does not track it or gives no answer - whatever fails and
\* wherever a run is killed (core/snapshot.cpp and the gate of
\* cli/commands/snapshot.cpp).
THEOREM SnapshotInvariant ==
  ASSUME NEW p, Processes = {p}
  PROVE  SnapshotSpec => []SnapshotInv
<1>1. SnapshotInit => SnapshotIInv(p)
  BY SnapshotStarts
<1>2. SnapshotIInv(p) /\ [SnapshotNext]_SnapshotVars => SnapshotIInv(p)'
  BY SnapshotKeeps
<1>3. SnapshotIInv(p) => SnapshotInv
  BY DEF SnapshotIInv
<1> QED BY <1>1, <1>2, <1>3, PTL DEF SnapshotSpec

\* And whoever reads the target finds no file or one whole document, at any moment,
\* and sees one whole document replaced by another in one step: "a concurrent reader
\* never observes a partial document".
THEOREM SnapshotRefines ==
  ASSUME NEW p, Processes = {p}
  PROVE  SnapshotSpec => ImplementsAtomicFile
<1>1. SnapshotInit => SnapshotIInv(p)
  BY SnapshotStarts
<1>2. SnapshotIInv(p) => Promise!FileInit
  BY DEF SnapshotIInv, NamesApart, Promise!FileInit, TargetValue
<1>3. SnapshotIInv(p) /\ [SnapshotNext]_SnapshotVars => SnapshotIInv(p)' /\ [Promise!Replace]_TargetValue
  BY SnapshotKeeps
<1> QED BY <1>1, <1>2, <1>3, PTL DEF SnapshotSpec, ImplementsAtomicFile, Promise!FileSpec
===============================================================================
