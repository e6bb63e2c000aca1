------------------------------ MODULE MCTsScan ------------------------------
(***************************************************************************)
(* Transport streams for TsScan.  `theme` says what a stream is about:     *)
(* faults of the channel, tables and timestamps, or the clock.  `sent` is  *)
(* what was read at which offset.                                          *)
(***************************************************************************)
EXTENDS TsChecks

CONSTANTS MaxPackets, MaxTables     \* packets of a file, and of one with tables, clocks or gaps

VARIABLES theme, channels, sent

MCVars == <<TsVars, theme, channels, sent>>

-----------------------------------------------------------------------------
\* Layouts: packets at a stride, after some other bytes, and with other bytes
\* between the first packets and the rest; the last packet may be cut off.
Layout(packets, step, lead, gap, ahead, cut) ==
    LET places == {lead + (i - 1) * step + (IF i > ahead THEN gap ELSE 0) : i \in 1 .. packets}
        length == Max(places) + 188 - cut
        starts == {at \in places : at < length}
    IN [length |-> length, sync |-> starts, starts |-> starts]
Steady(packets, step) == Layout(packets, step, 0, 0, 0, 0)
\* A sync byte among the bytes that do not belong.
Deceptive == [Layout(MaxPackets, 188, 0, 16, 2, 0) EXCEPT !.sync = @ \union {2 * 188}]
Files(t) ==
    CASE t = "faults" -> {Steady(MaxPackets, 188)}
      [] t = "tables" -> {Layout(MaxTables, 188, 0, 4, 3, 0)}
      [] t = "timestamps" -> {Layout(MaxPackets, 192, 4, 0, 0, 0), Layout(MaxPackets, 204, 0, 4, 2, 0)}
      [] t = "layout" -> {Layout(MaxTables, step, lead, gap, 2, cut) :
                            step \in {188, 192, 204}, lead \in {0, 4, 187}, gap \in {0, 5, 200}, cut \in {0, 7}}
                         \union {Deceptive, [Deceptive EXCEPT !.sync = {0}]}
      [] t = "clock" -> {Steady(MaxTables, 188), Layout(MaxTables, 192, 4, 0, 0, 0)}

-----------------------------------------------------------------------------
\* Packets.
NoAdaptation == [length |-> 0, discontinuity |-> FALSE, pcr |-> None]
Other == [kind |-> "other", pointer |-> 0]
Pes(flags, header_length, pts, dts) ==
    [kind |-> "pes", pointer |-> 0, excluded |-> FALSE, marked |-> TRUE, flags |-> flags,
     header_length |-> header_length, pts |-> pts, dts |-> dts]
Pat(entries) ==
    [kind |-> "pat", pointer |-> 0, length |-> 9 + 4 * Len(entries),
     entries |-> [i \in DOMAIN entries |-> [number |-> entries[i][1], pmt_pid |-> entries[i][2]]]]
Pmt(number, version, pcr_pid, streams) ==
    [kind |-> "pmt", pointer |-> 0, length |-> 13 + 5 * Len(streams), program |-> number, version |-> version,
     pcr_pid |-> pcr_pid, info_length |-> 0,
     streams |-> [i \in DOMAIN streams |-> [pid |-> streams[i], info_length |-> 0]]]

Plain(pid, cc, unit_start, content) ==
    [pid |-> pid, control |-> "payload", adaptation |-> NoAdaptation, cc |-> cc, unit_start |-> unit_start,
     content |-> content]
Of(pid, packet) ==
    IF packet.discontinuity \/ ~packet.payload
    THEN [Plain(pid, packet.cc, FALSE, Other) EXCEPT
            !.control = IF packet.payload THEN "both" ELSE "adaptation",
            !.adaptation = [length |-> 7, discontinuity |-> packet.discontinuity, pcr |-> None]]
    ELSE Plain(pid, packet.cc, FALSE, Other)

\* Sections and headers of the tables theme, next in their PID's count.
NextCc(pid) == Payload(channels[pid]).packet.cc
TablePackets ==
    {Plain(PatPid, NextCc(PatPid), TRUE, content) :
        content \in {Pat(<<<<1, 16>>>>), Pat(<<<<0, 18>>, <<2, 17>>, <<1, 16>>>>),
                     [Pat(<<<<1, 18>>>>) EXCEPT !.pointer = 181]}}
    \union {Plain(16, NextCc(16), TRUE, content) :
        content \in {Pmt(1, 0, 18, <<18>>), Pmt(1, 1, 18, <<18>>),
                     [Pmt(1, 2, 18, <<18, 19>>) EXCEPT !.streams[2].info_length = 1]}}
    \union {Plain(17, NextCc(17), TRUE, Pmt(2, 1, 17, <<>>))}
    \union {Plain(18, NextCc(18), TRUE, Pes(2, 5, 4, None))}

PesPackets ==
    {Plain(pid, NextCc(pid), TRUE, content) :
        pid \in {18, 19}, content \in {Pes(3, 10, 4, 3), Pes(3, 10, 4, 2), Pes(2, 5, 4, None), Pes(3, 5, 4, 3)}}
    \union {Plain(18, NextCc(18), FALSE, Pes(3, 10, 4, 1))}

\* A clock at a constant rate: 188 bytes are a tick on PID 16 and on PID 17,
\* whose counters start apart; the first one wraps once.
ClockPackets ==
    {[Plain(pid, NextCc(pid), FALSE, Other) EXCEPT
        !.control = "adaptation",
        !.adaptation = [length |-> 7, discontinuity |-> FALSE,
                        pcr |-> IF pid = 16 THEN (3 + Len(sent)) % 6 ELSE 20 + Len(sent)]] : pid \in {16, 17}}
    \union {Plain(PatPid, NextCc(PatPid), TRUE, Pat(<<<<1, 18>>, <<2, 19>>>>)),
            Plain(18, NextCc(18), TRUE, Pmt(1, 0, 16, <<>>)),
            Plain(19, NextCc(19), TRUE, Pmt(2, 0, 17, <<>>))}

FaultyPids == {16, 17}

Null == Plain(NullPid, 0, FALSE, Other)
\* An adaptation field longer than a packet, and a clock that does not fit.
Malformed == {[Plain(16, NextCc(16), FALSE, Other) EXCEPT !.control = control, !.adaptation = adaptation] :
                control \in {"both"},
                adaptation \in {[length |-> 184, discontinuity |-> TRUE, pcr |-> 1],
                                [length |-> 6, discontinuity |-> FALSE, pcr |-> 1]}}

\* What may be read next, with the channels after it.
Readings ==
    LET Steadily(packet) ==
            [packet |-> packet,
             channels |-> IF packet.pid \in DOMAIN channels /\ HasPayload(packet)
                          THEN [channels EXCEPT ![packet.pid] = Payload(@).channel] ELSE channels]
    IN CASE theme = "faults" ->
                {Steadily(Null)} \union
                UNION {{[packet |-> Of(pid, arrival.packet),
                         channels |-> [channels EXCEPT ![pid] = arrival.channel]] :
                            arrival \in Arrivals(channels[pid])} : pid \in FaultyPids}
         [] theme = "tables" -> {Steadily(packet) : packet \in TablePackets}
         [] theme = "timestamps" -> {Steadily(packet) : packet \in PesPackets}
         [] theme = "clock" -> {Steadily(packet) : packet \in ClockPackets}
         [] theme = "layout" -> {Steadily(packet) : packet \in Malformed \union {Null}}

-----------------------------------------------------------------------------
MCInit ==
    /\ theme \in {"faults", "tables", "timestamps", "layout", "clock"}
    /\ TsInit(Files(theme))
    /\ channels = [pid \in Pids \ {NullPid} |-> Quiet]
    /\ sent = <<>>

Read ==
    /\ Readable
    /\ \E choice \in Readings :
        /\ ReadPacket(choice.packet)
        /\ channels' = choice.channels
        /\ sent' = IF theme = "faults" THEN sent
                   ELSE Append(sent, [offset |-> offset, packet |-> choice.packet])
        /\ UNCHANGED theme

LosePackets ==
    /\ Readable /\ theme = "faults"
    /\ \E pid \in FaultyPids : channels' \in {[channels EXCEPT ![pid] = ch] : ch \in Losses(channels[pid])}
    /\ UNCHANGED <<TsVars, theme, sent>>

Scan == Detect \/ Resync \/ CutOff \/ EndOfFile

MCNext == Read \/ LosePackets \/ (Scan /\ UNCHANGED <<theme, channels, sent>>)
MCSpec == MCInit /\ [][MCNext]_MCVars

-----------------------------------------------------------------------------
Channel16 ==
    INSTANCE TsChannel WITH
        continuity <- cc_states[16], counted <- pids[16].counts, channel <- channels[16]
Channel17 ==
    INSTANCE TsChannel WITH
        continuity <- cc_states[17], counted <- pids[17].counts, channel <- channels[17]

\* To each PID the scanner is what it is to a PID of its own, whatever is
\* interleaved on other PIDs, in adaptation fields or in payloads: a burst of
\* losses is one error, a repetition one duplicate, and nothing else counts
\* (step_continuity within process_packet).
EachPidIsAChannel ==
    /\ Channel16!ContinuitySpec /\ Channel17!ContinuitySpec
    /\ [](Channel16!CountsAreTheFaults /\ Channel17!CountsAreTheFaults)

\* Bytes and packets add up, and a complete scan of a file in which only
\* packets start with a sync byte has read all of its packets (run_ts_scan,
\* and the identity that ts_scan.h states of null_packets).
EveryPacketIsRead ==
    /\ tally.total = tally.null + SumFunction([pid \in Pids |-> pids[pid].packets])
    /\ phase # "detect" /\ stride > 0 =>
        offset = FirstDetection[2] + stride * tally.total + tally.resynced
    /\ phase = "complete" /\ theme # "faults" /\ file.sync = file.starts =>
        {sent[i].offset : i \in DOMAIN sent} = file.starts

-----------------------------------------------------------------------------
\* The history of a program: the PMTs on the PID that a PAT before them names.
Named(i, number, pid) ==
    \E j \in 1 .. i - 1 :
        LET content == sent[j].packet.content IN
        /\ content.kind = "pat" /\ content.pointer = 0
        /\ [number |-> number, pmt_pid |-> pid] \in Range(content.entries)
PmtsOf(number) ==
    {i \in DOMAIN sent :
        /\ sent[i].packet.content.kind = "pmt"
        /\ sent[i].packet.content.program = number
        /\ Named(i, number, sent[i].packet.pid)}
Latest(i, places) == Max({j \in places : j < i})

\* A program's version changes, streams and repetition follow the PMTs that
\* arrived for it, however often tables are repeated, damaged or interleaved
\* (process_psi_pat and process_psi_pmt).
ProgramsFollowTheirTables ==
    \A program \in Range(programs) :
        LET heard == PmtsOf(program.number)
            Content(i) == sent[i].packet.content
        IN /\ program.version_changes =
                Cardinality({i \in heard : i # Min(heard) /\ Content(i).version # Content(Latest(i, heard)).version})
           /\ Range(program.pmt_offsets) = {sent[i].offset : i \in heard}
           /\ heard # {} =>
                /\ program.version = Content(Max(heard)).version
                /\ \A es \in Range(program.es_pids) : \E e \in Range(Content(Max(heard)).streams) : e.pid = es

-----------------------------------------------------------------------------
\* What a demuxer reports of the PES packets of a PID: it gets the position of
\* a packet with a prefix or suffix wrong by the excess, and guesses the dts.
Guessed == 0
StampsOf(pid) ==
    SelectSeq(sent, LAMBDA s : /\ s.packet.pid = pid /\ s.packet.unit_start
                               /\ s.packet.content.header_length >= IF s.packet.content.flags = 3 THEN 10 ELSE 5)
Carried(pes) == IF pes.flags = 3 THEN pes.dts ELSE pes.pts
Demuxed(pid) ==
    [i \in DOMAIN StampsOf(pid) |->
        [pos |-> StampsOf(pid)[i].offset - (stride - 188), pts |-> StampsOf(pid)[i].packet.content.pts, dts |-> Guessed]]

\* Joining never gives a packet the decoding time of another one, whatever
\* packet size it is told; told the right one, it finds all that have a position
\* (apply_container_dts, on the records that process_packet left).
TimestampsAreCarried ==
    theme = "timestamps" /\ phase = "complete" =>
        \A pid \in {18, 19}, packet_size \in {188, 192, 204} :
            LET joined == ApplyContainerDts(Demuxed(pid), pids[pid].pes_timestamps, packet_size) IN
            \A i \in DOMAIN joined :
                LET truth == Carried(StampsOf(pid)[i].packet.content) IN
                /\ joined[i].dts \in {Guessed, truth}
                /\ packet_size = stride /\ ~pids[pid].pes_truncated /\ joined[i].pos >= 0 => joined[i].dts = truth

-----------------------------------------------------------------------------
LongestGap(places) ==
    Max({((i - Latest(i, places)) * 1000) \div TicksPerSecond : i \in places \ {Min(places)}})
PcrsOf(pid) == {i \in DOMAIN sent : sent[i].packet.pid = pid /\ sent[i].packet.adaptation.pcr # None}
PatsOf == {i \in DOMAIN sent : sent[i].packet.pid = PatPid}
Repeats(places) == Cardinality(places) >= 2

\* On a stream of constant rate the intervals of a program are those of its own
\* clock and tables, even when the clocks of two programs alternate so that
\* the file as a whole has no estimate, or a clock wraps (emit_pcr_interval
\* and emit_psi_interval).
IntervalsAreTrue ==
    theme = "clock" /\ phase = "complete" =>
        \A program \in Range(programs) :
            LET pcrs == PcrsOf(program.pcr_pid)
                pcr == PcrInterval(program)
                psi == PsiInterval(program)
                tables == {places \in {PatsOf, PmtsOf(program.number)} : Repeats(places)}
            IN /\ pcr \in TsMeasurements /\ psi \in TsMeasurements
               /\ "value" \in DOMAIN pcr => Repeats(pcrs) /\ pcr.value = <<LongestGap(pcrs), 1>>
               /\ program.pcr_pid = 17 /\ Repeats(pcrs) => "value" \in DOMAIN pcr
               /\ "value" \in DOMAIN psi => psi.value = <<Max({LongestGap(places) : places \in tables}), 1>>
               /\ program.pcr_pid = 17 /\ Repeats(pcrs) /\ tables # {} => "value" \in DOMAIN psi
=============================================================================
