------------------------------- MODULE TsScan -------------------------------
(***************************************************************************)
(* run_ts_scan (probe/ts_scan.cpp): the walk over the packets of an MPEG   *)
(* transport stream, with stride detection, resynchronisation, continuity, *)
(* PAT and PMT sections, PCR samples and the timestamps of PES headers.    *)
(*                                                                         *)
(* A file is its length and the set of offsets that hold the sync byte;    *)
(* what a packet holds is chosen when it is read.  A packet is its header  *)
(* fields, its adaptation field and what its payload starts with (a        *)
(* section, a PES header or neither).                                      *)
(***************************************************************************)
EXTENDS TsContinuity, Integers, SequencesExt

CONSTANTS
    StrideConfirmCount,               \* kStrideConfirmCount
    MaxDiscontinuityOffsetsPerPid,    \* kMaxDiscontinuityOffsetsPerPid
    MaxPesTimestampRecordsTotal,      \* kMaxPesTimestampRecordsTotal
    TicksPerSecond,                   \* 27000000
    Pids                              \* the PIDs that occur, of 0 .. kNullPid

CandidateStrides == <<188, 192, 204>>
PatPid == 0
NullPid == 8191
\* A value that the code leaves empty (std::optional).
None == -1

VARIABLES
    file,           \* [length, sync]
    phase,          \* "detect", "walk", "complete", "incomplete"
    stride, offset,
    tally,          \* packets and bytes of the scan as a whole
    pids,           \* PidStats, per PID
    cc_states,      \* PidContinuityState, per PID
    programs,       \* TsProgram, in order of appearance
    pmt_owner,      \* the program whose PMT a PID carries, by its place
    pat_offsets, pcr_samples, pes_budget

TsVars == <<file, phase, stride, offset, tally, pids, cc_states, programs, pmt_owner, pat_offsets,
            pcr_samples, pes_budget>>

EmptyTally == [total |-> 0, null |-> 0, malformed |-> 0, resynced |-> 0, discarded |-> 0]
EmptyPid == [packets |-> 0, counts |-> NoCounts, first_error |-> None,
             discontinuity_offsets |-> <<>>, discontinuity_truncated |-> FALSE,
             pes_timestamps |-> <<>>, pes_truncated |-> FALSE, pts_only |-> 0, pts_dts |-> 0,
             no_pts |-> 0, unparsed |-> 0]
NewProgram(entry) ==
    [number |-> entry.number, pmt_pid |-> entry.pmt_pid, pcr_pid |-> None, es_pids |-> <<>>,
     version |-> None, version_changes |-> 0, pmt_offsets |-> <<>>]

-----------------------------------------------------------------------------
\* Alignment.
Confirmed(start, step) ==
    \A i \in 0 .. StrideConfirmCount - 1 : start + i * step \in file.sync

\* The first stride, and for it the first start, at which sync bytes line up.
Detections ==
    {d \in (DOMAIN CandidateStrides) \X (0 .. 203) :
        d[2] < CandidateStrides[d[1]] /\ Confirmed(d[2], CandidateStrides[d[1]])}
FirstDetection ==
    CHOOSE d \in Detections :
        \A e \in Detections : d[1] < e[1] \/ (d[1] = e[1] /\ d[2] <= e[2])
\* Fault: the packet that was not one is passed over as a whole.
ResyncsAfterStride == {at \in file.sync : at >= offset + stride /\ Confirmed(at, stride)}
\* The scan for a new position never goes back.
Resyncs == {at \in file.sync : at >= offset /\ Confirmed(at, stride)}

-----------------------------------------------------------------------------
\* The parts of a packet.
HasAdaptation(packet) == packet.control \in {"adaptation", "both"}
HasPayload(packet) == packet.control \in {"payload", "both"}

ParseAdaptation(packet) ==
    LET length == packet.adaptation.length
        oversized == HasAdaptation(packet) /\ length > 183
        readable == HasAdaptation(packet) /\ length \in 1 .. 183
        pcr_flag == readable /\ packet.adaptation.pcr # None
    IN [malformed |-> oversized \/ (pcr_flag /\ length < 7),
        discontinuity |-> readable /\ packet.adaptation.discontinuity,
        pcr |-> IF pcr_flag /\ length >= 7 THEN packet.adaptation.pcr ELSE None,
        payload_at |-> IF oversized \/ ~HasPayload(packet) THEN 188
                       ELSE IF HasAdaptation(packet) THEN 5 + length ELSE 4]

\* What becomes of the section that a packet may start: sections are never
\* put together from several packets.
SectionFate(packet, table, least) ==
    LET at == ParseAdaptation(packet).payload_at
        start == at + 1 + packet.content.pointer
    IN IF ~packet.unit_start \/ at >= 188 THEN "none"
       ELSE IF start + 3 > 188 THEN "discarded"
       ELSE IF packet.content.kind # table THEN "none"
       ELSE IF start + 3 + packet.content.length > 188 \/ packet.content.length < least THEN "discarded"
       ELSE "whole"

\* Fault: a repeated PAT starts its programs anew.
RegisterAnew(tables, entry) ==
    IF entry.number = 0 THEN tables
    ELSE [programs |-> Append(tables.programs, NewProgram(entry)),
          owner |-> [tables.owner EXCEPT ![entry.pmt_pid] = Len(tables.programs) + 1]]

\* One entry of a PAT: number zero names the network and not a program.
Register(tables, entry) ==
    LET known == {i \in DOMAIN tables.programs : tables.programs[i].number = entry.number}
        place == IF known = {} THEN Len(tables.programs) + 1 ELSE Min(known)
    IN IF entry.number = 0 THEN tables
       ELSE [programs |-> IF known = {} THEN Append(tables.programs, NewProgram(entry))
                          ELSE [tables.programs EXCEPT ![place].pmt_pid = entry.pmt_pid],
             owner |-> [tables.owner EXCEPT ![entry.pmt_pid] = place]]

ProcessPat(packet) ==
    IF SectionFate(packet, "pat", 9) = "whole"
    THEN FoldLeft(Register, [programs |-> programs, owner |-> pmt_owner], packet.content.entries)
    ELSE [programs |-> programs, owner |-> pmt_owner]

\* The elementary streams of a PMT, up to the entry that overruns the section.
EsLoop(content) ==
    FoldLeft(LAMBDA loop, es :
                IF loop.overrun \/ 5 + es.info_length > loop.left THEN [loop EXCEPT !.overrun = TRUE]
                ELSE [loop EXCEPT !.left = @ - 5 - es.info_length, !.es_pids = Append(@, es.pid)],
             [left |-> content.length - 13 - content.info_length, es_pids |-> <<>>, overrun |-> FALSE],
             content.streams)

PmtFate(packet) ==
    LET fate == SectionFate(packet, "pmt", 13) IN
    IF fate = "whole" /\ packet.content.info_length > packet.content.length - 13 THEN "discarded" ELSE fate

ProcessPmt(program, packet) ==
    IF PmtFate(packet) # "whole" THEN program
    ELSE [program EXCEPT
            !.pcr_pid = packet.content.pcr_pid,
            !.version = packet.content.version,
            !.version_changes = @ + IF program.version \in {None, packet.content.version} THEN 0 ELSE 1,
            !.pmt_offsets = Append(@, offset),
            !.es_pids = EsLoop(packet.content).es_pids]

\* The header of a PES packet that starts in this packet; a timestamp whose
\* marker bits are wrong is None.
ParsePes(packet) ==
    LET pes == packet.content
        size == 188 - ParseAdaptation(packet).payload_at
    IN IF pes.kind # "pes" \/ size < 3 THEN "no_pes"
       ELSE IF size < 4 THEN "unparsed"
       ELSE IF pes.excluded THEN "no_pes"
       ELSE IF size < 9 \/ size < 9 + pes.header_length THEN "unparsed"
       ELSE IF ~pes.marked \/ pes.flags = 1 THEN "unparsed"
       ELSE IF pes.flags = 0 THEN "no_pts"
       ELSE IF pes.header_length < (IF pes.flags = 2 THEN 5 ELSE 10) \/ pes.pts = None THEN "unparsed"
       ELSE IF pes.flags = 2 THEN "pts_only"
       ELSE IF pes.dts = None THEN "unparsed" ELSE "pts_dts"

RecordDiscontinuity(stats, flagged) ==
    IF ~flagged \/ stats.discontinuity_truncated THEN stats
    ELSE IF Len(stats.discontinuity_offsets) >= MaxDiscontinuityOffsetsPerPid
    THEN [stats EXCEPT !.discontinuity_truncated = TRUE]
    ELSE [stats EXCEPT !.discontinuity_offsets = Append(@, offset)]

RecordContinuity(stats, increment) ==
    [stats EXCEPT !.counts = Increment(@, increment),
                  !.first_error = IF increment = "error" /\ @ = None THEN offset ELSE @]

CarriesTimestamp(status) == status \in {"pts_only", "pts_dts"}

RecordPes(stats, packet, status) ==
    LET pes == packet.content
        noted == [stats EXCEPT !.pts_only = @ + IF status = "pts_only" THEN 1 ELSE 0,
                                 !.pts_dts = @ + IF status = "pts_dts" THEN 1 ELSE 0,
                                 !.no_pts = @ + IF status = "no_pts" THEN 1 ELSE 0,
                                 !.unparsed = @ + IF status = "unparsed" THEN 1 ELSE 0]
    IN IF ~CarriesTimestamp(status) THEN noted
       ELSE IF pes_budget <= 0 THEN [noted EXCEPT !.pes_truncated = TRUE]
       ELSE [noted EXCEPT !.pes_timestamps =
                Append(@, [offset |-> offset, pts |-> pes.pts,
                           dts |-> IF status = "pts_dts" THEN pes.dts ELSE pes.pts])]

-----------------------------------------------------------------------------
TsInit(files) ==
    /\ file \in files
    /\ phase = "detect" /\ stride = 0 /\ offset = 0
    /\ tally = EmptyTally
    /\ pids = [pid \in Pids |-> EmptyPid]
    /\ cc_states = [pid \in Pids |-> Untracked]
    /\ programs = <<>> /\ pmt_owner = [pid \in Pids |-> 0]
    /\ pat_offsets = <<>> /\ pcr_samples = <<>>
    /\ pes_budget = MaxPesTimestampRecordsTotal

Tables == <<pids, cc_states, programs, pmt_owner, pat_offsets, pcr_samples, pes_budget>>

Detect ==
    /\ phase = "detect"
    /\ IF Detections = {} THEN phase' = "incomplete" /\ UNCHANGED <<stride, offset>>
       ELSE /\ phase' = "walk"
            /\ stride' = CandidateStrides[FirstDetection[1]]
            /\ offset' = FirstDetection[2]
    /\ UNCHANGED <<file, tally, Tables>>

\* A byte that is not the sync byte where a packet should start.
Resync ==
    /\ phase = "walk" /\ offset < file.length /\ offset \notin file.sync
    /\ IF Resyncs = {} THEN phase' = "incomplete" /\ UNCHANGED <<offset, tally>>
       ELSE /\ offset' = Min(Resyncs)
            /\ tally' = [tally EXCEPT !.resynced = @ + Min(Resyncs) - offset]
            /\ UNCHANGED phase
    /\ UNCHANGED <<file, stride, Tables>>

\* A packet cut off by the end of the file.
CutOff ==
    /\ phase = "walk" /\ offset < file.length /\ offset \in file.sync
    /\ offset + 188 > file.length
    /\ phase' = "incomplete"
    /\ UNCHANGED <<file, stride, offset, tally, Tables>>

Readable == phase = "walk" /\ offset \in file.sync /\ offset + 188 <= file.length

CountNull(packet) ==
    /\ Readable /\ packet.pid = NullPid
    /\ tally' = [tally EXCEPT !.total = @ + 1, !.null = @ + 1]
    /\ offset' = offset + stride
    /\ UNCHANGED <<file, phase, stride, Tables>>

ProcessPacket(packet) ==
    LET pid == packet.pid
        af == ParseAdaptation(packet)
        step == StepContinuity(cc_states[pid],
                    [cc |-> packet.cc, payload |-> HasPayload(packet), discontinuity |-> af.discontinuity])
        owner == pmt_owner[pid]
        fate == IF ~HasPayload(packet) THEN "none"
                ELSE IF pid = PatPid THEN SectionFate(packet, "pat", 9)
                ELSE IF owner > 0 THEN PmtFate(packet) ELSE "none"
        tables == IF HasPayload(packet) /\ pid = PatPid THEN ProcessPat(packet)
                  ELSE [programs |-> IF HasPayload(packet) /\ owner > 0
                                     THEN [programs EXCEPT ![owner] = ProcessPmt(@, packet)]
                                     ELSE programs,
                        owner |-> pmt_owner]
        overrun == fate = "whole" /\ pid # PatPid /\ EsLoop(packet.content).overrun
        status == IF HasPayload(packet) /\ packet.unit_start /\ pid >= 16 /\ owner = 0
                  THEN ParsePes(packet) ELSE "no_pes"
    IN /\ Readable /\ pid # NullPid
       /\ tally' = [tally EXCEPT !.total = @ + 1,
                                 !.malformed = @ + IF af.malformed THEN 1 ELSE 0,
                                 !.discarded = @ + IF fate = "discarded" \/ overrun THEN 1 ELSE 0]
       /\ cc_states' = [cc_states EXCEPT ![pid] = step.next]
       /\ pids' = [pids EXCEPT ![pid] =
                     RecordPes(RecordContinuity(RecordDiscontinuity([@ EXCEPT !.packets = @ + 1],
                                                                    af.discontinuity),
                                                step.increment),
                               packet, status)]
       /\ programs' = tables.programs
       /\ pmt_owner' = tables.owner
       /\ pat_offsets' = IF pid = PatPid /\ fate = "whole" THEN Append(pat_offsets, offset) ELSE pat_offsets
       /\ pcr_samples' = IF af.pcr = None THEN pcr_samples
                         ELSE Append(pcr_samples, [offset |-> offset, pid |-> pid, ticks |-> af.pcr])
       /\ pes_budget' = IF CarriesTimestamp(status) /\ pes_budget > 0 THEN pes_budget - 1 ELSE pes_budget
       /\ offset' = offset + stride
       /\ UNCHANGED <<file, phase, stride>>

ReadPacket(packet) == CountNull(packet) \/ ProcessPacket(packet)

EndOfFile ==
    /\ phase = "walk" /\ offset >= file.length
    /\ phase' = "complete"
    /\ UNCHANGED <<file, stride, offset, tally, Tables>>

-----------------------------------------------------------------------------
\* The estimate of the multiplex rate: from the first two neighbouring samples
\* of one PID that both advance.
NoRate == [num |-> 0, den |-> 1]
Advances(samples, i) ==
    /\ samples[i].ticks > samples[i - 1].ticks
    /\ samples[i].offset > samples[i - 1].offset
RateOf(samples) ==
    LET pairs == {i \in 2 .. Len(samples) : samples[i].pid = samples[i - 1].pid /\ Advances(samples, i)}
        first == Min(pairs)
    IN IF pairs = {} THEN NoRate
       ELSE [num |-> (samples[first].offset - samples[first - 1].offset) * TicksPerSecond,
             den |-> samples[first].ticks - samples[first - 1].ticks]

\* apply_container_dts: the packets that a demuxer reports take the decoding
\* time of the PES header at their position, if the presentation time agrees.
RecordAt(records, target) ==
    LET behind == {i \in DOMAIN records : records[i].offset >= target} IN
    IF behind = {} THEN 0 ELSE Min(behind)
\* Fault: the nearest record is taken.
JoinsNearest(packet, records, packet_size) ==
    LET i == RecordAt(records, packet.pos + packet_size - 188) IN
    packet.pos >= 0 /\ i > 0 /\ records[i].pts = packet.pts

Joins(packet, records, packet_size) ==
    LET target == packet.pos + packet_size - 188
        i == RecordAt(records, target)
    IN packet.pos >= 0 /\ i > 0 /\ records[i].offset = target /\ records[i].pts = packet.pts

ApplyContainerDts(packets, records, packet_size) ==
    [i \in DOMAIN packets |->
        IF Joins(packets[i], records, packet_size)
        THEN [packets[i] EXCEPT !.dts = records[RecordAt(records, packets[i].pos + packet_size - 188)].dts]
        ELSE packets[i]]
DtsSource(packets, records, packet_size) ==
    IF \E i \in DOMAIN packets : Joins(packets[i], records, packet_size)
    THEN "container_pes" ELSE "container_unavailable"
=============================================================================
