-------------------------------- MODULE Probe --------------------------------
(* One input on its way to a fingerprint: the snapshot tried first, the       *)
(* header pass with its wall-clock budget and its second opens, the passes    *)
(* the applicable analyzers ask for, the post-passes of a transport stream,   *)
(* and the analyzers.  libav is a party of its own: it warns, it is slow, it  *)
(* sticks for ever; so is whoever deletes the file between two opens of it.   *)
(* What the passes find is the business of their own modules.                 *)
EXTENDS Naturals, Sequences, FiniteSets, SequencesExt

CONSTANTS Files,        \* what the input may be, see File below
          Registries,   \* the sets of analyzers a probe may be given
          MaxWarnings   \* how often libav warns during one probe

PassOrder == <<"demux_header", "packet_scan", "parser_scan", "bmff_scan", "ebml_scan", "ts_scan", "audio_decode">>
Pass == Range(PassOrder)

ASSUME ProbeAssumption ==
  /\ MaxWarnings \in Nat
  /\ \A f \in Files : f.streams \in Seq([aac : BOOLEAN, asc : {"none", "explicit", "doubles", "cannot"},
                                         sbr : BOOLEAN, resolved : BOOLEAN, depth : Nat, decodes : BOOLEAN,
                                         pid : BOOLEAN, records : {"whole", "truncated"},
                                         beyond : BOOLEAN, joins : BOOLEAN])
  /\ \A r \in Registries : \A a \in r : a.requires \subseteq Pass

(* A spec of an analyzer: the container family it is for, "other" being all,  *)
(* and the passes it reads.                                                   *)
Spec(scope, requires, names) ==
  {[name |-> n, scope |-> scope, requires |-> requires \cup {"demux_header"}] : n \in names}

AllAnalyzers ==
  UNION {Spec("other", {}, {"container_topology", "container_meta", "container_mp4_not_applicable",
                            "container_mkv_not_applicable", "container_ts_not_applicable", "video_color",
                            "video_hdr", "timeline_timecode"}),
         Spec("mp4", {"bmff_scan", "packet_scan"}, {"container_mp4"}),
         Spec("mkv", {"ebml_scan"}, {"container_mkv"}),
         Spec("ts", {"ts_scan"}, {"container_ts"}),
         Spec("ts", {"packet_scan", "ts_scan"}, {"timeline_discontinuities_ts"}),
         Spec("other", {"packet_scan"}, {"size", "video_stream_params", "timeline_start_duration",
                            "timeline_monotonic", "timeline_discontinuities", "timeline_jitter_vfr",
                            "timeline_av_sync", "audio_stream_params", "audio_priming"}),
         Spec("other", {"packet_scan", "parser_scan"}, {"video_gop", "video_frame_types", "video_interlace"}),
         Spec("other", {"packet_scan", "audio_decode"}, {"content_audio_sample_hash", "audio_loudness",
                            "audio_silence", "container_meta_decode_errors"})}

MaxSbrProbeContainerPacketsScanned == 64

Nothing == "nothing"

VARIABLES
  file,       \* the input: its bytes, as far as the control depends on them
  analyzers,  \* the registry this probe was given
  content,    \* ProbeOptions::content_enabled
  present,    \* the path still names the file
  lib,        \* libav and what it holds on to
  pc,         \* where the probe stands
  probe,      \* what it has gathered
  outcome     \* an error kind, "snapshot", "fingerprint", or nothing yet

vars == <<file, analyzers, content, present, lib, pc, probe, outcome>>
world == <<file, analyzers, content, present>>

(* --------------------------- the passes of a probe ------------------------ *)

Applicable == {a \in analyzers : a.scope \in {"other", file.family}}

(* With content off nothing is decoded; a pass whose data is made inside the  *)
(* packet sweep brings the sweep, and the sweep of a transport stream brings  *)
(* the scan of its packets.                                                   *)
UnionPasses ==
  LET asked == ({"demux_header"} \cup UNION {a.requires : a \in Applicable})
                 \ (IF content THEN {} ELSE {"audio_decode"})
      swept == asked \cup (IF asked \cap {"parser_scan", "audio_decode"} # {} THEN {"packet_scan"} ELSE {})
  IN  swept \cup (IF file.family = "ts" /\ "packet_scan" \in swept THEN {"ts_scan"} ELSE {})

Remaining == UnionPasses \ Range(probe.ran)

Before(one, other) == \E i, j \in DOMAIN PassOrder : i < j /\ PassOrder[i] = one /\ PassOrder[j] = other
IsNext(pass) == pass \in Remaining /\ \A other \in Remaining : ~Before(other, pass)

(* --------------------------- libav and its budget ------------------------- *)

(* InterruptState is shared with the io layer: arming and disarming it acts   *)
(* on every later call on the same context.                                   *)
Interrupted == lib.armed[lib.context] /\ lib.late[lib.context]

Returns == lib.call = "running" \/ (lib.call = "stuck" /\ Interrupted)

OpenContextBoundedOnce(context, diagnostics) ==
  [lib EXCEPT !.call = "running", !.context = context, !.armed[context] = context = "primary",
              !.late[context] = FALSE, !.slot = diagnostics, !.found = present]

OpenContext(context, diagnostics) ==
  [lib EXCEPT !.call = "running", !.context = context, !.armed[context] = TRUE, !.late[context] = FALSE,
              !.slot = diagnostics, !.found = present]

(* The budget bounds the opening and the reading of the header alone: the io  *)
(* layer holds the same state, so taking it off the context is not enough.    *)
DisarmedInContextOnly == [lib EXCEPT !.call = "idle", !.slot = Nothing]

Disarmed == [lib EXCEPT !.call = "idle", !.slot = Nothing, !.armed[lib.context] = FALSE]

Calling(context) == [lib EXCEPT !.call = "running", !.context = context]
Idle == [lib EXCEPT !.call = "idle"]
Closed == [lib EXCEPT !.call = "idle", !.slot = Nothing]

(* How an open may end.  Nobody asks whether the budget had elapsed, only     *)
(* what libav returned: an interrupted call is free to call that a success.   *)
(* Memory that runs out inside libav reads as a file it does not understand.  *)
OpenEnds ==
  {"internal"} \cup IF ~lib.found THEN {"input_open"}
                    ELSE IF ~file.media THEN {"input_unsupported"}
                    ELSE {"input_unsupported", Nothing}

HeaderFacts == {"codec", "config", "profile", "sbr"}

Glimpsed(s, missing) ==
  [s EXCEPT !.aac = @ /\ "codec" \notin missing, !.asc = IF "config" \in missing THEN "none" ELSE @,
            !.resolved = @ /\ "profile" \notin missing, !.sbr = @ /\ "sbr" \notin missing]

(* What the header pass knows of the streams: all of it, but when it was      *)
(* broken off, only what it had come to see of the streams it had met.        *)
HeadersLeft ==
  IF Interrupted
  THEN UNION {{[i \in 1..n |-> Glimpsed(file.streams[i], missing[i])] : missing \in [1..n -> SUBSET HeaderFacts]} :
                n \in 0..Len(file.streams)}
  ELSE {file.streams}

Hurried == probe.hurried \cup (IF Interrupted THEN {pc} ELSE {})

Fail(error) == outcome' = error /\ pc' = "ended"

(* ------------------------------- the input -------------------------------- *)

ProbeInit ==
  /\ file \in Files /\ analyzers \in Registries /\ content \in BOOLEAN
  /\ present \in BOOLEAN
  /\ lib = [call |-> "idle", context |-> "primary", armed |-> [c \in {"primary", "second"} |-> FALSE],
            late |-> [c \in {"primary", "second"} |-> FALSE], slot |-> Nothing, found |-> FALSE,
            warnings |-> 0, spoken |-> 0, heard |-> 0]
  /\ pc = "snapshot"
  /\ probe = [streams |-> <<>>, hurried |-> {}, sbr |-> <<>>, ran |-> <<>>, results |-> {}, cut |-> FALSE, errors |-> {},
              durations |-> "demuxer", dts |-> <<>>]
  /\ outcome = Nothing

(* A snapshot is read before anything is probed.  Only what may be media is   *)
(* probed: a document that was rejected keeps its own error.                  *)
ReadSnapshot ==
  /\ pc = "snapshot"
  /\ IF ~present THEN Fail("input_open")
     ELSE IF file.snapshot = "accepted" THEN outcome' = "snapshot" /\ pc' = "ended"
     ELSE pc' = "peek" /\ UNCHANGED outcome
  /\ UNCHANGED <<world, lib, probe>>

LooksLikeJson ==
  /\ pc = "peek"
  /\ IF present /\ file.snapshot = "rejected"
     THEN Fail("input_unsupported") /\ UNCHANGED lib
     ELSE /\ pc' = "open" /\ lib' = OpenContext("primary", "session")
          /\ UNCHANGED outcome
  /\ UNCHANGED <<world, probe>>

(* ------------------------------ the header pass --------------------------- *)

OpenSession ==
  /\ pc = "open" /\ Returns
  /\ \/ /\ \E error \in OpenEnds \ {Nothing} : Fail(error)
        /\ lib' = Closed /\ UNCHANGED probe
     \/ /\ Nothing \in OpenEnds
        /\ \E header \in HeadersLeft : probe' = [probe EXCEPT !.streams = header, !.hurried = Hurried]
        /\ pc' = "sbr" /\ lib' = Disarmed /\ UNCHANGED outcome
  /\ UNCHANGED world

(* What the header says of spectral band replication, or that only a decoder  *)
(* can tell.                                                                   *)
HeaderSbr(s) ==
  IF ~s.aac THEN "none"
  ELSE IF s.asc = "explicit" THEN "explicit_asc"
  ELSE IF s.resolved THEN IF s.sbr THEN "implicit_decoded" ELSE "none"
  ELSE IF s.asc = "none" THEN "unknown"
  ELSE IF s.asc = "cannot" THEN "none"
  ELSE "undecided"

(* The one packet a second open of the file sends to the decoder, set up with *)
(* what that open knows of the stream.                                        *)
DecodedSbr(s) ==
  IF s.depth >= MaxSbrProbeContainerPacketsScanned \/ ~s.decodes \/ Interrupted THEN {"unknown"}
  ELSE {IF s.sbr THEN "implicit_decoded" ELSE "none"}
         \cup (IF "sbr_open" \in probe.hurried THEN {"none", "unknown"} ELSE {})

StreamNumber == Len(probe.sbr) + 1
NextStream == probe.streams[StreamNumber]

ResolveSbrSignaling ==
  /\ pc = "sbr" /\ Len(probe.sbr) < Len(probe.streams)
  /\ IF HeaderSbr(NextStream) # "undecided"
     THEN probe' = [probe EXCEPT !.sbr = Append(@, HeaderSbr(NextStream))] /\ UNCHANGED <<lib, pc>>
     ELSE pc' = "sbr_open" /\ lib' = OpenContext("second", "throwaway") /\ UNCHANGED probe
  /\ UNCHANGED <<world, outcome>>

OpenForSbr ==
  /\ pc = "sbr_open" /\ Returns
  /\ \/ /\ \E error \in OpenEnds \ {Nothing} : Fail(error)
        /\ lib' = Closed /\ UNCHANGED probe
     \/ /\ Nothing \in OpenEnds
        /\ probe' = [probe EXCEPT !.hurried = Hurried]
        /\ pc' = "sbr_read" /\ lib' = [Disarmed EXCEPT !.call = "running"] /\ UNCHANGED outcome
  /\ UNCHANGED world

(* No memory for the decoder, its packet or its frame ends the probe, and so  *)
(* does a second open that does not know of the stream; a packet that cannot  *)
(* be decoded does not.                                                       *)
DecodeForSbr ==
  /\ pc = "sbr_read" /\ Returns
  /\ \/ Fail("internal") /\ lib' = Closed /\ UNCHANGED probe
     \/ /\ \E told \in DecodedSbr(file.streams[StreamNumber]) : probe' = [probe EXCEPT !.sbr = Append(@, told)]
        /\ pc' = "sbr" /\ lib' = Idle /\ UNCHANGED outcome
  /\ UNCHANGED world

HeaderRead ==
  /\ pc = "sbr" /\ Len(probe.sbr) = Len(probe.streams)
  /\ pc' = "passes"
  /\ UNCHANGED <<world, lib, probe, outcome>>

(* -------------------------------- the passes ------------------------------ *)

Ran(pass) == Append(probe.ran, pass)

(* What a sweep leaves: the packets, and what was asked to be made on the way.*)
SweepResults == {"packet_scan"} \cup (UnionPasses \cap {"parser_scan", "audio_decode"})

StartSweep ==
  /\ pc = "passes" /\ IsNext("packet_scan")
  /\ pc' = "sweep" /\ lib' = Calling("primary")
  /\ UNCHANGED <<world, probe, outcome>>

(* A sweep that fails ran out of memory; one that is cut off is partial.      *)
EndSweep ==
  /\ pc = "sweep" /\ Returns
  /\ \E failed \in BOOLEAN :
       probe' = IF failed
                THEN [probe EXCEPT !.ran = Ran("packet_scan"), !.errors = @ \cup {"packet_scan"}]
                ELSE [probe EXCEPT !.ran = Ran("packet_scan"), !.cut = Interrupted,
                                   !.results = @ \cup SweepResults]
  /\ pc' = "passes" /\ lib' = Idle
  /\ UNCHANGED <<world, outcome>>

(* The header was read already, and the fused passes have no arm of their own.*)
RunFusedPass ==
  /\ pc = "passes"
  /\ \E pass \in {"demux_header", "parser_scan", "audio_decode"} :
       /\ IsNext(pass)
       /\ probe' = [probe EXCEPT !.ran = Ran(pass), !.results = IF pass = "demux_header" THEN @ \cup {pass} ELSE @]
  /\ UNCHANGED <<world, lib, pc, outcome>>

(* The scanners open the file for themselves.                                 *)
Scanners == {"bmff_scan", "ebml_scan", "ts_scan"}

RunScanner ==
  /\ pc = "passes"
  /\ \E pass \in Scanners :
       /\ IsNext(pass)
       /\ probe' = IF present
                   THEN [probe EXCEPT !.ran = Ran(pass), !.results = @ \cup {pass}]
                   ELSE [probe EXCEPT !.ran = Ran(pass), !.errors = @ \cup {pass}]
  /\ UNCHANGED <<world, lib, pc, outcome>>

(* Which of several errors is told is fixed, whatever order the passes had:   *)
(* the sweep's first, then that of a scanner, which are all of one kind.      *)
ErrorTold == IF "packet_scan" \in probe.errors THEN "internal" ELSE "input_open"

WrapsSeen == file.family = "ts" /\ "packet_scan" \in probe.results /\ file.wraps

PassesDone ==
  /\ pc = "passes" /\ Remaining = {}
  /\ IF probe.errors # {}
     THEN Fail(ErrorTold) /\ UNCHANGED lib
     ELSE /\ IF WrapsSeen
             THEN pc' = "reprobe" /\ lib' = OpenContext("second", "throwaway")
             ELSE pc' = "join" /\ UNCHANGED lib
          /\ UNCHANGED outcome
  /\ UNCHANGED <<world, probe>>

(* ------------------- the post-passes of a transport stream ---------------- *)

(* Declared durations of a file that wraps are those of a second open, with   *)
(* libav's own correction; without a second open of the same programs they    *)
(* are withheld, whatever the reason.  Of two opens that were not both given  *)
(* their time it is anybody's guess whether they saw the same programs.       *)
SameLayouts ==
  IF Interrupted \/ "open" \in probe.hurried THEN BOOLEAN ELSE {file.same_layout}

ReprobeTsDeclaredDurations ==
  /\ pc = "reprobe" /\ Returns
  /\ \/ probe' = [probe EXCEPT !.durations = "withheld"] /\ lib' = Closed
     \/ /\ Nothing \in OpenEnds
        /\ \E same \in SameLayouts :
             probe' = [probe EXCEPT !.durations = IF same THEN "reprobed" ELSE "withheld", !.hurried = Hurried]
        /\ lib' = Disarmed
  /\ pc' = "join"
  /\ UNCHANGED <<world, outcome>>

DtsSource(s) ==
  IF \/ "ts_scan" \notin probe.results \/ ~s.pid
     \/ s.records = "truncated"
     \/ ~file.scan_complete /\ s.beyond
     \/ ~s.joins
  THEN "container_unavailable" ELSE "container_pes"

JoinContainerDts ==
  /\ pc = "join"
  /\ probe' = [probe EXCEPT !.dts =
        [i \in DOMAIN probe.streams |->
           IF file.family = "ts" /\ "packet_scan" \in probe.results THEN DtsSource(file.streams[i]) ELSE "demuxer"]]
  /\ pc' = "analyze"
  /\ UNCHANGED <<world, lib, outcome>>

Analyze ==
  /\ pc = "analyze"
  /\ outcome' = "fingerprint" /\ pc' = "ended"
  /\ UNCHANGED <<world, lib, probe>>

(* ------------------------------ the other parties ------------------------- *)

(* A line counts for whoever is attached to the callback.                     *)
Warn ==
  /\ lib.call = "running" /\ lib.spoken < MaxWarnings
  /\ lib' = [lib EXCEPT !.spoken = @ + 1,
                        !.warnings = IF lib.slot = "session" THEN @ + 1 ELSE @,
                        !.heard = IF pc = "open" THEN @ + 1 ELSE @]
  /\ UNCHANGED <<world, pc, probe, outcome>>

Stick ==
  /\ lib.call = "running"
  /\ lib' = [lib EXCEPT !.call = "stuck"]
  /\ UNCHANGED <<world, pc, probe, outcome>>

BudgetElapses ==
  /\ lib.call # "idle" /\ ~lib.late[lib.context]
  /\ lib' = [lib EXCEPT !.late[lib.context] = TRUE]
  /\ UNCHANGED <<world, pc, probe, outcome>>

Vanish ==
  /\ present /\ pc # "ended"
  /\ present' = FALSE
  /\ UNCHANGED <<file, analyzers, content, lib, pc, probe, outcome>>

(* Nothing is left to do, or libav never comes back.                          *)
Rest == (pc = "ended" \/ (lib.call = "stuck" /\ ~lib.armed[lib.context])) /\ UNCHANGED vars

Program ==
  \/ ReadSnapshot \/ LooksLikeJson \/ OpenSession \/ ResolveSbrSignaling \/ OpenForSbr \/ DecodeForSbr
  \/ HeaderRead \/ StartSweep \/ EndSweep \/ RunFusedPass \/ RunScanner \/ PassesDone
  \/ ReprobeTsDeclaredDurations \/ JoinContainerDts \/ Analyze

Next == Program \/ Warn \/ Stick \/ BudgetElapses \/ Vanish \/ Rest

ProbeSpec == ProbeInit /\ [][Next]_vars /\ WF_vars(Program) /\ WF_vars(BudgetElapses)

(* ------------------------------- properties ------------------------------- *)

TypeOK ==
  /\ pc \in {"snapshot", "peek", "open", "sbr", "sbr_open", "sbr_read", "passes", "sweep", "reprobe", "join",
             "analyze", "ended"}
  /\ lib.call \in {"idle", "running", "stuck"} /\ lib.slot \in {Nothing, "session", "throwaway"}
  /\ probe.results \subseteq Pass /\ probe.durations \in {"demuxer", "reprobed", "withheld"}
  /\ outcome \in {Nothing, "snapshot", "fingerprint", "input_open", "input_unsupported", "internal"}

(* An analyzer that runs finds what it reads, with the decoder's results the  *)
(* one exception, and only when content was turned off; and no pass ran twice *)
(* or for nobody.                                                             *)
PassesAnswerTheirAnalyzers ==
  outcome = "fingerprint" =>
    /\ \A a \in Applicable : a.requires \subseteq probe.results \cup (IF content THEN {} ELSE {"audio_decode"})
    /\ ~content => "audio_decode" \notin probe.results
    /\ IsInjective(probe.ran) /\ Range(probe.ran) = probe.results
    /\ \A p \in probe.results \ {"demux_header", "packet_scan", "ts_scan"} : \E a \in Applicable : p \in a.requires

(* The clock bounds the header passes and nothing else.  A header that was    *)
(* read in a hurry may say less of a stream, never more than is true; when    *)
(* none was, what a fingerprint says of the coding of each stream is what its *)
(* bytes say.  The sweep went to the end in either case.                      *)
ClockMarksOnlyTheHurried ==
  outcome = "fingerprint" =>
    /\ ~probe.cut
    /\ Len(probe.sbr) = Len(probe.streams) /\ Len(probe.sbr) <= Len(file.streams)
    /\ "open" \notin probe.hurried => Len(probe.sbr) = Len(file.streams)
    /\ \A i \in DOMAIN probe.sbr :
         LET s == file.streams[i]
         IN  /\ probe.sbr[i] = "explicit_asc" => s.aac /\ s.asc = "explicit"
             /\ probe.sbr[i] = "implicit_decoded" => s.aac /\ s.sbr
             /\ probe.hurried \cap {"open", "sbr_open"} = {} =>
                  /\ probe.sbr[i] = "none" => ~s.aac \/ ~s.sbr \/ s.asc = "cannot"
                  /\ probe.sbr[i] = "unknown" => s.asc = "none" \/ ~s.decodes \/ s.depth > 63

(* No analyzer reads a duration a wrapped clock made up, or a decoding time   *)
(* said to be the container's that a partial scan did not establish.  Only    *)
(* headers read in a hurry can agree about programs that differ.              *)
NothingOfAWrapIsDeclared ==
  outcome = "fingerprint" =>
    /\ file.wraps /\ file.family = "ts" /\ "packet_scan" \in probe.results => probe.durations # "demuxer"
    /\ probe.durations = "reprobed" => file.same_layout \/ probe.hurried \cap {"open", "reprobe"} # {}
    /\ \A i \in DOMAIN probe.dts :
         /\ probe.dts[i] = "container_pes" => (file.scan_complete \/ ~file.streams[i].beyond) /\ file.streams[i].joins
         /\ "packet_scan" \in probe.results => (file.family = "ts" <=> probe.dts[i] # "demuxer")

(* The warnings of a report are those of the header pass: not of a second     *)
(* open of the same file, nor of the sweep.                                   *)
WarningsAreTheHeaders == lib.warnings = lib.heard

(* A missing file is told apart from one that is not understood, a document   *)
(* that was rejected is never read as media, and a sweep that ran out of      *)
(* memory is told before a file that could not be opened again.  After the    *)
(* header pass nothing else is an internal error: not a second open for the   *)
(* durations, whatever becomes of it.                                         *)
ErrorsAreToldApart ==
  /\ outcome = "input_open" => ~present
  /\ "packet_scan" \in probe.errors /\ pc = "ended" => outcome = "internal"
  /\ outcome = "internal" => "packet_scan" \in probe.errors \/ probe.ran = <<>>
  /\ file.snapshot = "rejected" /\ present => pc \in {"snapshot", "peek"} \/ outcome = "input_unsupported"

ProbeInv ==
  /\ TypeOK /\ PassesAnswerTheirAnalyzers /\ ClockMarksOnlyTheHurried /\ NothingOfAWrapIsDeclared
  /\ WarningsAreTheHeaders /\ ErrorsAreToldApart

(* A file whose header never finishes does not hold up a run: the budget ends *)
(* every open, of whatever context.  A sweep is not bounded by the clock.     *)
ProbeEnds ==
  [](lib.call = "stuck" => pc \in {"open", "sbr_open", "reprobe"}) => <>(outcome # Nothing)
=============================================================================
