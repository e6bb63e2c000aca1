------------------------------ MODULE ProbeProofs ------------------------------
(***************************************************************************)
(* Proofs about Probe: for any input and any registry, whatever libav does *)
(* and whenever the clock runs out or the file vanishes, a pass runs once  *)
(* and for somebody, an analyzer that runs finds what it reads, the error  *)
(* that is told is the one that happened, the warnings of a report are     *)
(* those of the header pass, and a fingerprint bears no mark of the clock  *)
(* but what a header read in a hurry had not come to see.                  *)
(***************************************************************************)
EXTENDS Probe, SequenceTheorems, TLAPS

Contexts == {"primary", "second"}
Slots == {Nothing, "session", "throwaway"}
Signalings == {"none", "explicit_asc", "implicit_decoded", "unknown"}

LibTypeOK ==
  lib \in [call : {"idle", "running", "stuck"}, context : Contexts, armed : [Contexts -> BOOLEAN],
           late : [Contexts -> BOOLEAN], slot : Slots, found : BOOLEAN,
           warnings : Nat, spoken : Nat, heard : Nat]

ProbeShape ==
  /\ probe = [streams |-> probe.streams, hurried |-> probe.hurried, sbr |-> probe.sbr, ran |-> probe.ran, results |-> probe.results, cut |-> probe.cut,
              errors |-> probe.errors, durations |-> probe.durations, dts |-> probe.dts]
  /\ probe.sbr \in Seq(Signalings)
  /\ Len(probe.streams) \in Nat

\* The diagnostics of the report are attached for as long as the header is opened.
SessionListensToOpen == lib.slot = "session" <=> pc = "open"

\* The clock has no hold on a context once its header was read.
ClockLetGo ==
  /\ pc \in {"sbr", "sbr_open", "sbr_read", "passes", "sweep", "reprobe", "join", "analyze"} => ~lib.armed["primary"]
  /\ pc = "sbr_read" => lib.context = "second" /\ ~lib.armed["second"]
  /\ pc \in {"sbr_open", "reprobe"} => lib.context = "second"
  /\ pc \in {"open", "sweep"} => lib.context = "primary"
  /\ ~probe.cut

\* What is said of the coding of a stream, in a hurry or not.
SaidOf(s, signaling, pressed) ==
  /\ signaling = "explicit_asc" => s.aac /\ s.asc = "explicit"
  /\ signaling = "implicit_decoded" => s.aac /\ s.sbr
  /\ ~pressed =>
       /\ signaling = "none" => ~s.aac \/ ~s.sbr \/ s.asc = "cannot"
       /\ signaling = "unknown" => s.asc = "none" \/ ~s.decodes \/ s.depth > 63

\* What a header knows of a stream is true of it, and all there is when there was no hurry.
KnownOf(known, s, pressed) ==
  /\ known.aac => s.aac
  /\ known.asc = "explicit" => s.asc = "explicit"
  /\ known.sbr => s.sbr
  /\ ~pressed => known = s

ReadSoFar == Len(probe.sbr)
HeaderCount == Len(probe.streams)
StreamCount == Len(file.streams)
OpenPressed == "open" \in probe.hurried
SbrPressed == "sbr_open" \in probe.hurried
Pressed == OpenPressed \/ SbrPressed

HeaderIsTrue ==
  /\ HeaderCount <= StreamCount
  /\ \A i \in 1..HeaderCount : KnownOf(probe.streams[i], file.streams[i], OpenPressed)
  /\ pc \in {"sbr", "sbr_open", "sbr_read", "passes", "sweep", "reprobe", "join", "analyze"} \/ outcome = "fingerprint" =>
       (~OpenPressed => probe.streams = file.streams)

StreamsAreRead ==
  /\ ReadSoFar <= HeaderCount
  /\ pc \in {"snapshot", "peek", "open"} => ReadSoFar = 0
  /\ pc \in {"sbr_open", "sbr_read"} => ReadSoFar < HeaderCount /\ HeaderSbr(NextStream) = "undecided"
  /\ pc \in {"passes", "sweep", "reprobe", "join", "analyze"} => ReadSoFar = HeaderCount
  /\ outcome = "fingerprint" => ReadSoFar = HeaderCount /\ pc = "ended"
  /\ \A i \in 1..ReadSoFar : SaidOf(file.streams[i], probe.sbr[i], Pressed)

ProbeIInv == /\ file \in Files /\ present \in BOOLEAN
             /\ LibTypeOK /\ ProbeShape
             /\ WarningsAreTheHeaders /\ SessionListensToOpen /\ ClockLetGo /\ HeaderIsTrue /\ StreamsAreRead

\* A step that says nothing of a stream; an open it made may have been hurried.
HeaderStands == probe'.streams = probe.streams /\ probe.hurried \subseteq probe'.hurried /\ probe'.sbr = probe.sbr

Stream == [aac : BOOLEAN, asc : {"none", "explicit", "doubles", "cannot"},
           sbr : BOOLEAN, resolved : BOOLEAN, depth : Nat, decodes : BOOLEAN,
           pid : BOOLEAN, records : {"whole", "truncated"},
           beyond : BOOLEAN, joins : BOOLEAN]

-------------------------------------------------------------------------------
\* A file's streams, and those read so far, are so many.
LEMMA Counts ==
  ASSUME file \in Files, ProbeShape
  PROVE  /\ StreamCount \in Nat /\ ReadSoFar \in Nat /\ HeaderCount \in Nat
         /\ file.streams \in Seq(Stream)
         /\ \A i \in 1..StreamCount : file.streams[i] \in Stream /\ file.streams[i].depth \in Nat
<1>1. file.streams \in Seq(Stream)
  BY ProbeAssumption DEF Stream
<1>2. \A s \in Stream : s.depth \in Nat
  BY DEF Stream
<1>3. StreamCount \in Nat /\ \A i \in 1..StreamCount : file.streams[i] \in Stream
  BY <1>1, LenProperties, ElementOfSeq DEF StreamCount
<1>4. ReadSoFar \in Nat /\ HeaderCount \in Nat
  BY LenProperties DEF ReadSoFar, HeaderCount, ProbeShape
<1> QED BY <1>1, <1>2, <1>3, <1>4

\* A glimpse of a stream shows nothing that is not there.
LEMMA GlimpseIsTrue ==
  ASSUME NEW s \in Stream, NEW missing
  PROVE  Glimpsed(s, missing) \in Stream /\ KnownOf(Glimpsed(s, missing), s, TRUE)
<1> DEFINE aac == s.aac /\ "codec" \notin missing
             asc == IF "config" \in missing THEN "none" ELSE s.asc
             resolved == s.resolved /\ "profile" \notin missing
             sbr == s.sbr /\ "sbr" \notin missing
<1>0. aac \in BOOLEAN /\ asc \in {"none", "explicit", "doubles", "cannot"} /\ resolved \in BOOLEAN /\ sbr \in BOOLEAN
  BY DEF Stream
<1>1. Glimpsed(s, missing) = [s EXCEPT !.aac = aac, !.asc = asc, !.resolved = resolved, !.sbr = sbr]
  BY DEF Glimpsed
<1>2. Glimpsed(s, missing) \in Stream
  <2> HIDE DEF aac, asc, resolved, sbr
  <2> QED BY <1>0, <1>1 DEF Stream
<1>3. /\ Glimpsed(s, missing).aac => s.aac
      /\ Glimpsed(s, missing).asc = "explicit" => s.asc = "explicit"
      /\ Glimpsed(s, missing).sbr => s.sbr
  <2>1. /\ Glimpsed(s, missing).aac = aac /\ Glimpsed(s, missing).asc = asc
        /\ Glimpsed(s, missing).sbr = sbr
    <3> HIDE DEF aac, asc, resolved, sbr
    <3> QED BY <1>1 DEF Stream
  <2> QED BY <2>1
<1> QED BY <1>2, <1>3 DEF KnownOf

\* A header that was broken off is a true account of the first streams.
LEMMA HeadersAreTrue ==
  ASSUME file \in Files, ProbeShape, NEW header \in HeadersLeft
  PROVE  /\ Len(header) \in Nat /\ Len(header) <= StreamCount
         /\ \A i \in 1..Len(header) : KnownOf(header[i], file.streams[i], TRUE)
         /\ ~Interrupted => header = file.streams
<1>1. /\ StreamCount \in Nat /\ file.streams \in Seq(Stream)
      /\ \A i \in 1..StreamCount : file.streams[i] \in Stream
  BY Counts
<1>2. CASE ~Interrupted
  <2>1. header = file.streams
    BY <1>2 DEF HeadersLeft
  <2> QED BY <1>1, <1>2, <2>1 DEF StreamCount, KnownOf
<1>3. CASE Interrupted
  <2>0. PICK n \in 0..StreamCount : \E missing \in [1..n -> SUBSET HeaderFacts] :
           header = [i \in 1..n |-> Glimpsed(file.streams[i], missing[i])]
    BY <1>3 DEF HeadersLeft, StreamCount
  <2>1. PICK missing \in [1..n -> SUBSET HeaderFacts] :
           header = [i \in 1..n |-> Glimpsed(file.streams[i], missing[i])]
    BY <2>0
  <2>2. n \in Nat /\ n <= StreamCount /\ \A i \in 1..n : i \in 1..StreamCount
    BY <1>1
  <2>3. \A i \in 1..n : header[i] \in Stream /\ KnownOf(header[i], file.streams[i], TRUE)
    BY <1>1, <2>1, <2>2, GlimpseIsTrue
  <2>4. header \in [1..n -> Stream]
    BY <2>1, <2>3
  <2>5. Len(header) = n
    BY <2>2, <2>4, LenProperties DEF Seq
  <2> QED BY <1>3, <2>2, <2>3, <2>5
<1> QED BY <1>2, <1>3

\* A probe starts with no context, no warning and nothing read.
LEMMA ProbeStarts == ProbeInit => ProbeIInv
<1> SUFFICES ASSUME ProbeInit PROVE ProbeIInv
  OBVIOUS
<1>1. LibTypeOK /\ WarningsAreTheHeaders /\ SessionListensToOpen /\ ClockLetGo
  BY DEF ProbeInit, LibTypeOK, Contexts, Slots, Nothing, WarningsAreTheHeaders, SessionListensToOpen, ClockLetGo
<1>2. ProbeShape /\ probe.sbr = <<>> /\ probe.streams = <<>>
  BY EmptySeq DEF ProbeInit, ProbeShape
<1>3. file \in Files /\ present \in BOOLEAN /\ pc = "snapshot" /\ outcome # "fingerprint"
  BY DEF ProbeInit, Nothing
<1>4. ReadSoFar = 0 /\ HeaderCount = 0 /\ StreamCount \in Nat
  BY <1>2, <1>3, Counts DEF ReadSoFar, HeaderCount
<1>5. StreamsAreRead /\ HeaderIsTrue
  BY <1>3, <1>4 DEF StreamsAreRead, HeaderIsTrue
<1> QED BY <1>1, <1>2, <1>3, <1>5 DEF ProbeIInv

-------------------------------------------------------------------------------
\* What is said of a stream stands when another open is hurried.
LEMMA SaidStands ==
  ASSUME NEW s, NEW signaling, NEW before, NEW after, SaidOf(s, signaling, before), before => after
  PROVE  SaidOf(s, signaling, after)
BY DEF SaidOf

(* The steps that say nothing of a stream.                                 *)
LEMMA SbrStays ==
  ASSUME ProbeIInv, file' = file, HeaderStands,
         pc' \in {"sbr_open", "sbr_read"} =>
            pc \in {"sbr_open", "sbr_read"} \/ (ReadSoFar < HeaderCount /\ HeaderSbr(NextStream) = "undecided"),
         pc' \in {"snapshot", "peek", "open"} => pc \in {"snapshot", "peek", "open"},
         pc' \in {"passes", "sweep", "reprobe", "join", "analyze"} =>
            pc \in {"passes", "sweep", "reprobe", "join", "analyze"} \/ ReadSoFar = HeaderCount,
         pc' \in {"sbr", "sbr_open", "sbr_read", "passes", "sweep", "reprobe", "join", "analyze"} =>
            pc \in {"sbr", "sbr_open", "sbr_read", "passes", "sweep", "reprobe", "join", "analyze"},
         pc = "ended" => pc' = "ended",
         outcome' = "fingerprint" => outcome = "fingerprint" \/ (pc = "analyze" /\ pc' = "ended")
  PROVE  StreamsAreRead' /\ HeaderIsTrue'
<1>1. ReadSoFar' = ReadSoFar /\ HeaderCount' = HeaderCount /\ StreamCount' = StreamCount /\ NextStream' = NextStream
  BY DEF ReadSoFar, HeaderCount, StreamCount, NextStream, StreamNumber, HeaderStands
<1>2. HeaderSbr(NextStream)' = HeaderSbr(NextStream)
  BY <1>1 DEF HeaderSbr
<1>3. (Pressed => Pressed') /\ (OpenPressed => OpenPressed')
  BY DEF Pressed, OpenPressed, SbrPressed, HeaderStands
<1>4. \A i \in 1..ReadSoFar : SaidOf(file.streams[i], probe.sbr[i], Pressed')
  BY <1>3, SaidStands DEF ProbeIInv, StreamsAreRead
<1>5. \A i : SaidOf(file.streams[i], probe.sbr[i], Pressed)' = SaidOf(file.streams[i], probe.sbr[i], Pressed')
  BY DEF SaidOf, HeaderStands
<1>6. StreamsAreRead'
  BY <1>1, <1>2, <1>4, <1>5 DEF ProbeIInv, StreamsAreRead
<1>7. \A i \in 1..HeaderCount : KnownOf(probe.streams[i], file.streams[i], OpenPressed)'
  BY <1>3 DEF ProbeIInv, HeaderIsTrue, KnownOf, HeaderStands
<1>8. HeaderIsTrue'
  BY <1>1, <1>3, <1>7 DEF ProbeIInv, HeaderIsTrue, HeaderStands
<1> QED BY <1>6, <1>8

(* How an open may end.                                                    *)
LEMMA EndsOfAnOpen ==
  ASSUME NEW error \in OpenEnds \ {Nothing}
  PROVE  /\ error \in {"internal", "input_open", "input_unsupported"}
         /\ error = "input_open" => ~lib.found
BY DEF OpenEnds, Nothing

\* An open arms its context's budget and hears no warning by itself.
LEMMA LibOpens ==
  ASSUME LibTypeOK, present \in BOOLEAN, NEW context \in Contexts, NEW slot \in Slots,
         lib' = OpenContext(context, slot)
  PROVE  /\ LibTypeOK'
         /\ lib'.slot = slot /\ lib'.context = context /\ lib'.armed = [lib.armed EXCEPT ![context] = TRUE]
         /\ lib'.warnings = lib.warnings /\ lib'.heard = lib.heard
BY DEF LibTypeOK, OpenContext

\* The budget is disarmed once the header was read, and the slot given back.
LEMMA LibLetsGo ==
  ASSUME LibTypeOK, lib' = Disarmed \/ lib' = [Disarmed EXCEPT !.call = "running"]
  PROVE  /\ LibTypeOK'
         /\ lib'.slot = Nothing /\ lib'.context = lib.context
         /\ lib'.armed = [lib.armed EXCEPT ![lib.context] = FALSE]
         /\ lib'.warnings = lib.warnings /\ lib'.heard = lib.heard
<1>1. CASE lib' = Disarmed
  BY <1>1 DEF LibTypeOK, Disarmed, Slots
<1>2. CASE lib' = [Disarmed EXCEPT !.call = "running"]
  BY <1>2 DEF LibTypeOK, Disarmed, Slots
<1> QED BY <1>1, <1>2

\* Calls of libav that open nothing arm nothing.
LEMMA LibGoesOn ==
  ASSUME LibTypeOK, NEW context \in Contexts, lib' \in {Closed, Idle, Calling(context)}
  PROVE  /\ LibTypeOK'
         /\ lib' = Closed => lib'.slot = Nothing
         /\ lib' # Closed => lib'.slot = lib.slot
         /\ lib' = Calling(context) => lib'.context = context
         /\ lib' # Calling(context) => lib'.context = lib.context
         /\ lib'.armed = lib.armed
         /\ lib'.warnings = lib.warnings /\ lib'.heard = lib.heard
BY DEF LibTypeOK, Closed, Idle, Calling, Slots

-------------------------------------------------------------------------------
\* The steps up to the open of the session.
LEMMA BeforeTheHeader ==
  ASSUME ProbeIInv, ReadSnapshot \/ LooksLikeJson \/ OpenSession
  PROVE  ProbeIInv'
<1>1. /\ LibTypeOK /\ ProbeShape /\ present \in BOOLEAN /\ WarningsAreTheHeaders /\ SessionListensToOpen /\ ClockLetGo
  BY DEF ProbeIInv
<1>2. CASE ReadSnapshot
  <2>1. /\ pc = "snapshot" /\ pc' \in {"peek", "ended"} /\ UNCHANGED <<world, lib, probe>>
        /\ outcome' # "fingerprint" \/ outcome' = outcome
    BY <1>2 DEF ReadSnapshot, Fail
  <2>2. StreamsAreRead' /\ HeaderIsTrue'
    BY <2>1, SbrStays DEF world, HeaderStands
  <2> QED BY <1>1, <2>1, <2>2 DEF ProbeIInv, world, LibTypeOK, ProbeShape, WarningsAreTheHeaders, SessionListensToOpen,
                ClockLetGo
<1>3. CASE LooksLikeJson
  <2>1. /\ pc = "peek" /\ UNCHANGED <<world, probe>>
        /\ outcome' # "fingerprint" \/ outcome' = outcome
        /\ \/ pc' = "ended" /\ lib' = lib
           \/ pc' = "open" /\ lib' = OpenContext("primary", "session")
    BY <1>3 DEF LooksLikeJson, Fail
  <2>2. StreamsAreRead' /\ HeaderIsTrue'
    BY <2>1, SbrStays DEF world, HeaderStands
  <2>3. CASE pc' = "ended" /\ lib' = lib
    BY <1>1, <2>1, <2>2, <2>3 DEF ProbeIInv, world, LibTypeOK, ProbeShape, WarningsAreTheHeaders, SessionListensToOpen,
                  ClockLetGo
  <2>4. CASE pc' = "open" /\ lib' = OpenContext("primary", "session")
    <3>1. /\ LibTypeOK' /\ lib'.slot = "session" /\ lib'.context = "primary"
          /\ lib'.warnings = lib.warnings /\ lib'.heard = lib.heard
      BY <1>1, <2>4, LibOpens DEF Contexts, Slots
    <3> QED BY <1>1, <2>1, <2>2, <2>4, <3>1 DEF ProbeIInv, world, ProbeShape, WarningsAreTheHeaders,
                  SessionListensToOpen, ClockLetGo
  <2> QED BY <2>1, <2>3, <2>4
<1>4. CASE OpenSession /\ pc' = "ended"
  <2>1. pc = "open" /\ UNCHANGED <<world, probe>> /\ lib' = Closed
    BY <1>4 DEF OpenSession
  <2>2. outcome' # "fingerprint"
    BY <1>4, EndsOfAnOpen DEF OpenSession, Fail
  <2>3. StreamsAreRead' /\ HeaderIsTrue'
    BY <1>4, <2>1, <2>2, SbrStays DEF world, HeaderStands
  <2>4. LibTypeOK' /\ lib'.slot = Nothing /\ lib'.warnings = lib.warnings /\ lib'.heard = lib.heard
    BY <1>1, <2>1, LibGoesOn DEF Contexts
  <2> QED BY <1>1, <1>4, <2>1, <2>3, <2>4 DEF ProbeIInv, world, ProbeShape, WarningsAreTheHeaders,
                SessionListensToOpen, ClockLetGo, Nothing
<1>5. CASE OpenSession /\ pc' # "ended"
  <2>1. pc = "open" /\ UNCHANGED world /\ pc' = "sbr" /\ lib' = Disarmed /\ outcome' = outcome
    BY <1>5 DEF OpenSession, Fail
  <2>2. PICK header \in HeadersLeft : probe' = [probe EXCEPT !.streams = header, !.hurried = Hurried]
    BY <1>5 DEF OpenSession, Fail
  <2>3. /\ Len(header) \in Nat /\ Len(header) <= StreamCount
        /\ \A i \in 1..Len(header) : KnownOf(header[i], file.streams[i], TRUE)
        /\ ~Interrupted => header = file.streams
    BY <1>1, HeadersAreTrue DEF ProbeIInv
  <2>4. /\ ProbeShape' /\ probe'.streams = header /\ probe'.hurried = Hurried
        /\ probe'.sbr = probe.sbr /\ probe'.cut = probe.cut
    BY <1>1, <2>2, <2>3 DEF ProbeShape
  <2>5. ReadSoFar' = 0 /\ HeaderCount' = Len(header) /\ StreamCount' = StreamCount /\ file' = file
    BY <2>1, <2>4 DEF ReadSoFar, HeaderCount, StreamCount, ProbeIInv, StreamsAreRead, world
  <2>6. outcome' # "fingerprint"
    BY <2>1 DEF ProbeIInv, StreamsAreRead
  <2>7. StreamsAreRead'
    BY <2>1, <2>3, <2>5, <2>6 DEF StreamsAreRead
  <2>8. ~OpenPressed' => header = file.streams
    BY <2>1, <2>3, <2>4 DEF OpenPressed, Hurried
  <2>9. \A i \in 1..Len(header) : KnownOf(header[i], file.streams[i], OpenPressed')
    BY <2>3, <2>8 DEF KnownOf
  <2>10. HeaderIsTrue'
    BY <2>3, <2>4, <2>5, <2>8, <2>9 DEF HeaderIsTrue, KnownOf
  <2>11. /\ LibTypeOK' /\ lib'.slot = Nothing /\ lib'.warnings = lib.warnings /\ lib'.heard = lib.heard
         /\ lib'.armed = [lib.armed EXCEPT ![lib.context] = FALSE]
    BY <1>1, <2>1, LibLetsGo
  <2>12. ~lib'.armed["primary"]
    BY <1>1, <2>1, <2>11 DEF ClockLetGo, LibTypeOK, Contexts
  <2> QED BY <1>1, <2>1, <2>4, <2>7, <2>10, <2>11, <2>12 DEF ProbeIInv, world, WarningsAreTheHeaders,
                SessionListensToOpen, ClockLetGo, Nothing
<1> QED BY <1>2, <1>3, <1>4, <1>5

-------------------------------------------------------------------------------
(* The coding of the streams.                                              *)
LEMMA HeaderSays ==
  ASSUME NEW known, NEW s, NEW pressed \in BOOLEAN, KnownOf(known, s, pressed), HeaderSbr(known) # "undecided"
  PROVE  HeaderSbr(known) \in Signalings /\ SaidOf(s, HeaderSbr(known), pressed)
<1>1. CASE ~known.aac
  BY <1>1 DEF HeaderSbr, SaidOf, Signalings, KnownOf
<1>2. CASE known.aac /\ known.asc = "explicit"
  BY <1>2 DEF HeaderSbr, SaidOf, Signalings, KnownOf
<1>3. CASE known.aac /\ known.asc # "explicit" /\ known.resolved
  BY <1>3 DEF HeaderSbr, SaidOf, Signalings, KnownOf
<1>4. CASE known.aac /\ known.asc # "explicit" /\ ~known.resolved
  BY <1>4 DEF HeaderSbr, SaidOf, Signalings, KnownOf
<1> QED BY <1>1, <1>2, <1>3, <1>4

\* What a decoder that runs to its end says of the signaling is what the bytes have.
LEMMA DecoderSays ==
  ASSUME NEW known, NEW s, s.depth \in Nat, KnownOf(known, s, OpenPressed), HeaderSbr(known) = "undecided",
         ~Interrupted, NEW told \in DecodedSbr(s)
  PROVE  told \in Signalings /\ SaidOf(s, told, Pressed)
<1>1. known.aac /\ s.aac
  BY DEF HeaderSbr, KnownOf
<1>2. s.depth >= 64 => s.depth > 63
  OBVIOUS
<1>3. CASE s.depth >= 64 \/ ~s.decodes
  BY <1>1, <1>2, <1>3 DEF DecodedSbr, SaidOf, Signalings, MaxSbrProbeContainerPacketsScanned
<1>4. CASE ~(s.depth >= 64 \/ ~s.decodes)
  <2>1. told \in {IF s.sbr THEN "implicit_decoded" ELSE "none"} \cup (IF SbrPressed THEN {"none", "unknown"} ELSE {})
    BY <1>4 DEF DecodedSbr, SbrPressed, MaxSbrProbeContainerPacketsScanned
  <2>2. CASE SbrPressed
    BY <1>1, <2>1, <2>2 DEF SaidOf, Signalings, Pressed
  <2>3. CASE ~SbrPressed
    BY <1>1, <2>1, <2>3 DEF SaidOf, Signalings
  <2> QED BY <2>2, <2>3
<1> QED BY <1>3, <1>4

\* One more stream that is read is told of as its bytes have it.
LEMMA OneMoreStream ==
  ASSUME ProbeIInv, ReadSoFar < HeaderCount, NEW said \in Signalings,
         SaidOf(file.streams[StreamNumber], said, Pressed),
         probe' = [probe EXCEPT !.sbr = Append(@, said)], file' = file, outcome' = outcome, pc' = "sbr",
         pc \in {"sbr", "sbr_read"}
  PROVE  ProbeShape' /\ probe'.cut = probe.cut /\ StreamsAreRead' /\ HeaderIsTrue'
<1>1. ProbeShape /\ file \in Files
  BY DEF ProbeIInv
<1>2. /\ probe'.sbr = Append(probe.sbr, said) /\ probe'.cut = probe.cut
      /\ probe'.streams = probe.streams /\ probe'.hurried = probe.hurried
      /\ probe' = [streams |-> probe'.streams, hurried |-> probe'.hurried, sbr |-> probe'.sbr,
                   ran |-> probe'.ran, results |-> probe'.results, cut |-> probe'.cut,
                   errors |-> probe'.errors, durations |-> probe'.durations, dts |-> probe'.dts]
  BY <1>1 DEF ProbeShape
<1>3. /\ probe.sbr \in Seq(Signalings) /\ probe'.sbr \in Seq(Signalings)
      /\ ReadSoFar' = ReadSoFar + 1
      /\ \A i \in 1..ReadSoFar : probe'.sbr[i] = probe.sbr[i]
      /\ probe'.sbr[ReadSoFar + 1] = said
  BY <1>1, <1>2, AppendProperties DEF ProbeShape, ReadSoFar
<1>4. /\ ReadSoFar \in Nat /\ HeaderCount \in Nat /\ HeaderCount' = HeaderCount /\ StreamCount' = StreamCount
      /\ Pressed' = Pressed /\ OpenPressed' = OpenPressed
  BY <1>1, <1>2, Counts DEF HeaderCount, StreamCount, Pressed, OpenPressed, SbrPressed
<1>5. \A i \in 1..ReadSoFar' : SaidOf(file.streams[i], probe'.sbr[i], Pressed)
  <2>1. \A i \in 1..ReadSoFar : SaidOf(file.streams[i], probe'.sbr[i], Pressed)
    BY <1>3 DEF ProbeIInv, StreamsAreRead
  <2>2. SaidOf(file.streams[ReadSoFar + 1], probe'.sbr[ReadSoFar + 1], Pressed)
    BY <1>3 DEF StreamNumber, ReadSoFar
  <2>3. \A i \in 1..(ReadSoFar + 1) : i \in 1..ReadSoFar \/ i = ReadSoFar + 1
    BY <1>4
  <2> QED BY <1>3, <2>1, <2>2, <2>3
<1>6. ReadSoFar' <= HeaderCount' /\ outcome # "fingerprint"
  BY <1>3, <1>4 DEF ProbeIInv, StreamsAreRead
<1>7. \A i : SaidOf(file.streams[i], probe.sbr[i], Pressed)' = SaidOf(file.streams[i], probe'.sbr[i], Pressed)
  BY <1>4 DEF SaidOf
<1>8. StreamsAreRead'
  BY <1>5, <1>6, <1>7 DEF StreamsAreRead
<1>9. \A i : KnownOf(probe.streams[i], file.streams[i], OpenPressed)' =
             KnownOf(probe.streams[i], file.streams[i], OpenPressed)
  BY <1>2, <1>4 DEF KnownOf
<1>10. HeaderIsTrue'
  BY <1>2, <1>4, <1>6, <1>9 DEF HeaderIsTrue, ProbeIInv
<1> QED BY <1>2, <1>3, <1>4, <1>8, <1>10 DEF ProbeShape, HeaderCount

\* The next stream of the header is one of the file.
LEMMA NextIsThere ==
  ASSUME ProbeIInv, ReadSoFar < HeaderCount
  PROVE  /\ file.streams[StreamNumber].depth \in Nat
         /\ KnownOf(NextStream, file.streams[StreamNumber], OpenPressed)
<1>1. /\ StreamCount \in Nat /\ ReadSoFar \in Nat /\ HeaderCount \in Nat
      /\ \A i \in 1..StreamCount : file.streams[i].depth \in Nat
  BY Counts DEF ProbeIInv
<1>2. StreamNumber = ReadSoFar + 1
  BY DEF StreamNumber, ReadSoFar
<1>3. HeaderCount <= StreamCount /\ \A i \in 1..HeaderCount : KnownOf(probe.streams[i], file.streams[i], OpenPressed)
  BY DEF ProbeIInv, HeaderIsTrue
<1>4. StreamNumber \in 1..HeaderCount /\ StreamNumber \in 1..StreamCount
  BY <1>1, <1>2, <1>3
<1> QED BY <1>1, <1>3, <1>4 DEF NextStream

\* The steps over the streams of the header.
LEMMA OverTheStreams ==
  ASSUME ProbeIInv, ResolveSbrSignaling \/ OpenForSbr \/ DecodeForSbr \/ HeaderRead
  PROVE  ProbeIInv'
<1>1. /\ LibTypeOK /\ ProbeShape /\ present \in BOOLEAN /\ WarningsAreTheHeaders /\ SessionListensToOpen /\ ClockLetGo
  BY DEF ProbeIInv
<1>2. CASE ResolveSbrSignaling
  <2>1. pc = "sbr" /\ ReadSoFar < HeaderCount /\ UNCHANGED <<world, outcome>>
    BY <1>2 DEF ResolveSbrSignaling, ReadSoFar, HeaderCount
  <2>2. CASE HeaderSbr(NextStream) # "undecided"
    <3>1. probe' = [probe EXCEPT !.sbr = Append(@, HeaderSbr(NextStream))] /\ UNCHANGED <<lib, pc>>
      BY <1>2, <2>2 DEF ResolveSbrSignaling
    <3>2. /\ HeaderSbr(NextStream) \in Signalings
          /\ SaidOf(file.streams[StreamNumber], HeaderSbr(NextStream), OpenPressed)
      <4>1. OpenPressed \in BOOLEAN
        BY DEF OpenPressed
      <4>2. KnownOf(NextStream, file.streams[StreamNumber], OpenPressed)
        BY <2>1, NextIsThere
      <4> QED BY <2>2, <4>1, <4>2, HeaderSays
    <3>3. SaidOf(file.streams[StreamNumber], HeaderSbr(NextStream), Pressed)
      <4>1. OpenPressed => Pressed
        BY DEF Pressed
      <4> QED BY <3>2, <4>1, SaidStands
    <3>4. ProbeShape' /\ probe'.cut = probe.cut /\ StreamsAreRead' /\ HeaderIsTrue'
      BY <2>1, <3>1, <3>2, <3>3, OneMoreStream DEF world
    <3> QED BY <1>1, <2>1, <3>1, <3>4 DEF ProbeIInv, world, LibTypeOK, WarningsAreTheHeaders, SessionListensToOpen,
                  ClockLetGo
  <2>3. CASE HeaderSbr(NextStream) = "undecided"
    <3>1. pc' = "sbr_open" /\ lib' = OpenContext("second", "throwaway") /\ UNCHANGED probe
      BY <1>2, <2>3 DEF ResolveSbrSignaling
    <3>2. StreamsAreRead' /\ HeaderIsTrue'
      BY <2>1, <2>3, <3>1, SbrStays DEF world, HeaderStands
    <3>3. /\ LibTypeOK' /\ lib'.slot = "throwaway" /\ lib'.context = "second"
          /\ lib'.warnings = lib.warnings /\ lib'.heard = lib.heard
          /\ lib'.armed = [lib.armed EXCEPT !["second"] = TRUE]
      BY <1>1, <3>1, LibOpens DEF Contexts, Slots
    <3>4. lib'.armed["primary"] = lib.armed["primary"]
      BY <1>1, <3>3 DEF LibTypeOK, Contexts
    <3> QED BY <1>1, <2>1, <3>1, <3>2, <3>3, <3>4 DEF ProbeIInv, world, ProbeShape, WarningsAreTheHeaders,
                  SessionListensToOpen, ClockLetGo
  <2> QED BY <2>2, <2>3
<1>3. CASE (OpenForSbr \/ DecodeForSbr) /\ pc' = "ended"
  <2>1. pc \in {"sbr_open", "sbr_read"} /\ UNCHANGED <<world, probe>> /\ lib' = Closed
    BY <1>3 DEF OpenForSbr, DecodeForSbr
  <2>2. outcome' # "fingerprint"
    BY <1>3, EndsOfAnOpen DEF OpenForSbr, DecodeForSbr, Fail
  <2>3. StreamsAreRead' /\ HeaderIsTrue'
    BY <1>3, <2>1, <2>2, SbrStays DEF world, HeaderStands
  <2>4. LibTypeOK' /\ lib'.slot = Nothing /\ lib'.warnings = lib.warnings /\ lib'.heard = lib.heard
    BY <1>1, <2>1, LibGoesOn DEF Contexts
  <2> QED BY <1>1, <1>3, <2>1, <2>3, <2>4 DEF ProbeIInv, world, ProbeShape, WarningsAreTheHeaders,
                SessionListensToOpen, ClockLetGo, Nothing
<1>4. CASE OpenForSbr /\ pc' # "ended"
  <2>1. /\ pc = "sbr_open" /\ pc' = "sbr_read" /\ UNCHANGED <<world, outcome>>
        /\ lib' = [Disarmed EXCEPT !.call = "running"] /\ probe' = [probe EXCEPT !.hurried = Hurried]
    BY <1>4 DEF OpenForSbr, Fail
  <2>2. ProbeShape' /\ HeaderStands /\ probe'.cut = probe.cut
    BY <1>1, <2>1 DEF ProbeShape, HeaderStands, Hurried
  <2>3. StreamsAreRead' /\ HeaderIsTrue'
    BY <2>1, <2>2, SbrStays DEF world
  <2>4. /\ LibTypeOK' /\ lib'.slot = Nothing /\ lib'.warnings = lib.warnings /\ lib'.heard = lib.heard
        /\ lib'.armed = [lib.armed EXCEPT ![lib.context] = FALSE] /\ lib'.context = lib.context
    BY <1>1, <2>1, LibLetsGo
  <2>5. ~lib'.armed["primary"] /\ ~lib'.armed["second"] /\ lib'.context = "second"
    BY <1>1, <2>1, <2>4 DEF ClockLetGo, LibTypeOK, Contexts
  <2> QED BY <1>1, <2>1, <2>2, <2>3, <2>4, <2>5 DEF ProbeIInv, world, WarningsAreTheHeaders,
                SessionListensToOpen, ClockLetGo, Nothing
<1>5. CASE DecodeForSbr /\ pc' # "ended"
  <2>1. pc = "sbr_read" /\ pc' = "sbr" /\ lib' = Idle /\ UNCHANGED <<world, outcome>>
    BY <1>5 DEF DecodeForSbr, Fail
  <2>2. PICK told \in DecodedSbr(file.streams[StreamNumber]) : probe' = [probe EXCEPT !.sbr = Append(@, told)]
    BY <1>5 DEF DecodeForSbr, Fail
  <2>3. ReadSoFar < HeaderCount /\ HeaderSbr(NextStream) = "undecided"
    BY <2>1 DEF ProbeIInv, StreamsAreRead
  <2>4. ~Interrupted
    BY <1>1, <2>1 DEF ClockLetGo, Interrupted
  <2>5. told \in Signalings /\ SaidOf(file.streams[StreamNumber], told, Pressed)
    BY <2>3, <2>4, NextIsThere, DecoderSays
  <2>6. ProbeShape' /\ probe'.cut = probe.cut /\ StreamsAreRead' /\ HeaderIsTrue'
    BY <2>1, <2>2, <2>3, <2>5, OneMoreStream DEF world
  <2>7. LibTypeOK' /\ lib'.armed = lib.armed /\ lib'.slot = lib.slot
        /\ lib'.warnings = lib.warnings /\ lib'.heard = lib.heard
    BY <1>1, <2>1 DEF LibTypeOK, Idle
  <2> QED BY <1>1, <2>1, <2>6, <2>7 DEF ProbeIInv, world, WarningsAreTheHeaders, SessionListensToOpen, ClockLetGo
<1>6. CASE HeaderRead
  <2>1. pc = "sbr" /\ ReadSoFar = HeaderCount /\ pc' = "passes" /\ UNCHANGED <<world, lib, probe, outcome>>
    BY <1>6 DEF HeaderRead, ReadSoFar, HeaderCount
  <2>2. StreamsAreRead' /\ HeaderIsTrue'
    BY <2>1, SbrStays DEF world, HeaderStands
  <2> QED BY <1>1, <2>1, <2>2 DEF ProbeIInv, world, LibTypeOK, ProbeShape, WarningsAreTheHeaders, SessionListensToOpen,
                ClockLetGo
<1> QED BY <1>2, <1>3, <1>4, <1>5, <1>6

-------------------------------------------------------------------------------
(* The passes and what follows them: no word of a stream.                  *)
LEMMA QuietStep ==
  ASSUME ProbeIInv, pc \in {"passes", "join", "analyze"}, UNCHANGED <<world, lib>>,
         ProbeShape', HeaderStands, probe'.cut = probe.cut,
         pc' \in {"passes", "join", "analyze", "ended"},
         outcome' = "fingerprint" => outcome = "fingerprint" \/ (pc = "analyze" /\ pc' = "ended")
  PROVE  ProbeIInv'
<1>1. /\ LibTypeOK /\ present \in BOOLEAN /\ WarningsAreTheHeaders /\ SessionListensToOpen /\ ClockLetGo
      /\ StreamsAreRead
  BY DEF ProbeIInv
<1>2. ReadSoFar = HeaderCount
  BY <1>1 DEF StreamsAreRead
<1>3. StreamsAreRead' /\ HeaderIsTrue'
  BY <1>2, SbrStays DEF world
<1>4. LibTypeOK' /\ WarningsAreTheHeaders' /\ SessionListensToOpen' /\ ClockLetGo'
  BY <1>1 DEF LibTypeOK, WarningsAreTheHeaders, SessionListensToOpen, ClockLetGo
<1> QED BY <1>1, <1>3, <1>4 DEF ProbeIInv, world

\* The steps of the passes.
LEMMA OverThePasses ==
  ASSUME ProbeIInv, RunFusedPass \/ RunScanner \/ JoinContainerDts \/ Analyze
  PROVE  ProbeIInv'
<1>1. ProbeShape
  BY DEF ProbeIInv
<1>2. CASE RunFusedPass
  <2>1. pc = "passes" /\ UNCHANGED <<world, lib, pc, outcome>>
    BY <1>2 DEF RunFusedPass
  <2>2. ProbeShape' /\ HeaderStands /\ probe'.cut = probe.cut
    BY <1>1, <1>2 DEF RunFusedPass, ProbeShape, HeaderStands
  <2> QED BY <2>1, <2>2, QuietStep
<1>3. CASE RunScanner
  <2>1. pc = "passes" /\ UNCHANGED <<world, lib, pc, outcome>>
    BY <1>3 DEF RunScanner
  <2>2. ProbeShape' /\ HeaderStands /\ probe'.cut = probe.cut
    <3>1. CASE present
      BY <1>1, <1>3, <3>1 DEF RunScanner, ProbeShape, HeaderStands
    <3>2. CASE ~present
      BY <1>1, <1>3, <3>2 DEF RunScanner, ProbeShape, HeaderStands
    <3> QED BY <3>1, <3>2
  <2> QED BY <2>1, <2>2, QuietStep
<1>4. CASE JoinContainerDts
  <2>1. pc = "join" /\ pc' = "analyze" /\ UNCHANGED <<world, lib, outcome>>
    BY <1>4 DEF JoinContainerDts
  <2>2. ProbeShape' /\ HeaderStands /\ probe'.cut = probe.cut
    BY <1>1, <1>4 DEF JoinContainerDts, ProbeShape, HeaderStands
  <2> QED BY <2>1, <2>2, QuietStep
<1>5. CASE Analyze
  <2>1. pc = "analyze" /\ pc' = "ended" /\ UNCHANGED <<world, lib, probe>>
    BY <1>5 DEF Analyze
  <2>2. ProbeShape' /\ HeaderStands
    BY <1>1, <2>1 DEF ProbeShape, HeaderStands
  <2> QED BY <2>1, <2>2, QuietStep
<1> QED BY <1>2, <1>3, <1>4, <1>5

\* The sweep starts and ends.
LEMMA OverTheSweep ==
  ASSUME ProbeIInv, StartSweep \/ EndSweep
  PROVE  ProbeIInv'
<1>1. /\ LibTypeOK /\ ProbeShape /\ present \in BOOLEAN /\ WarningsAreTheHeaders /\ SessionListensToOpen /\ ClockLetGo
      /\ StreamsAreRead
  BY DEF ProbeIInv
<1>2. CASE StartSweep
  <2>1. pc = "passes" /\ pc' = "sweep" /\ lib' = Calling("primary") /\ UNCHANGED <<world, probe, outcome>>
    BY <1>2 DEF StartSweep
  <2>2. StreamsAreRead' /\ HeaderIsTrue'
    BY <2>1, SbrStays DEF world, HeaderStands
  <2>3. /\ LibTypeOK' /\ lib'.context = "primary" /\ lib'.armed = lib.armed /\ lib'.slot = lib.slot
        /\ lib'.warnings = lib.warnings /\ lib'.heard = lib.heard
    BY <1>1, <2>1 DEF LibTypeOK, Calling, Contexts
  <2> QED BY <1>1, <2>1, <2>2, <2>3 DEF ProbeIInv, world, ProbeShape, WarningsAreTheHeaders, SessionListensToOpen,
                ClockLetGo
<1>3. CASE EndSweep
  <2>1. pc = "sweep" /\ pc' = "passes" /\ lib' = Idle /\ UNCHANGED <<world, outcome>>
    BY <1>3 DEF EndSweep
  <2>2. ~Interrupted
    BY <1>1, <2>1 DEF ClockLetGo, Interrupted
  <2>3. ProbeShape' /\ HeaderStands /\ ~probe'.cut
    <3>1. PICK failed \in BOOLEAN :
             probe' = IF failed
                      THEN [probe EXCEPT !.ran = Ran("packet_scan"), !.errors = @ \cup {"packet_scan"}]
                      ELSE [probe EXCEPT !.ran = Ran("packet_scan"), !.cut = Interrupted,
                                         !.results = @ \cup SweepResults]
      BY <1>3 DEF EndSweep
    <3>2. CASE failed
      BY <1>1, <3>1, <3>2 DEF ProbeShape, ClockLetGo, HeaderStands
    <3>3. CASE ~failed
      <4>1. probe' = [probe EXCEPT !.ran = Ran("packet_scan"), !.cut = Interrupted, !.results = @ \cup SweepResults]
        BY <3>1, <3>3
      <4>2. probe'.cut = Interrupted /\ HeaderStands /\ ProbeShape'
        BY <1>1, <4>1 DEF ProbeShape, HeaderStands
      <4> QED BY <2>2, <4>2
    <3> QED BY <3>2, <3>3
  <2>4. StreamsAreRead' /\ HeaderIsTrue'
    BY <2>1, <2>3, SbrStays DEF world
  <2>5. LibTypeOK' /\ lib'.armed = lib.armed /\ lib'.slot = lib.slot
        /\ lib'.warnings = lib.warnings /\ lib'.heard = lib.heard
    BY <1>1, <2>1 DEF LibTypeOK, Idle
  <2> QED BY <1>1, <2>1, <2>3, <2>4, <2>5 DEF ProbeIInv, world, WarningsAreTheHeaders, SessionListensToOpen,
                ClockLetGo
<1> QED BY <1>2, <1>3

\* The passes are done.
LEMMA AfterThePasses ==
  ASSUME ProbeIInv, PassesDone
  PROVE  ProbeIInv'
<1>1. /\ LibTypeOK /\ ProbeShape /\ present \in BOOLEAN /\ WarningsAreTheHeaders /\ SessionListensToOpen /\ ClockLetGo
      /\ StreamsAreRead
  BY DEF ProbeIInv
<1>2. pc = "passes" /\ UNCHANGED <<world, probe>>
  BY DEF PassesDone
<1>3. ProbeShape' /\ HeaderStands
  BY <1>1, <1>2 DEF ProbeShape, HeaderStands
<1>4. CASE probe.errors # {}
  <2>1. outcome' = ErrorTold /\ pc' = "ended" /\ UNCHANGED lib
    BY <1>4 DEF PassesDone, Fail
  <2>2. ErrorTold # "fingerprint"
    BY DEF ErrorTold
  <2> QED BY <1>2, <1>3, <2>1, <2>2, QuietStep
<1>5. CASE probe.errors = {} /\ ~WrapsSeen
  <2>1. outcome' = outcome /\ pc' = "join" /\ UNCHANGED lib
    BY <1>5 DEF PassesDone
  <2> QED BY <1>2, <1>3, <2>1, QuietStep
<1>6. CASE probe.errors = {} /\ WrapsSeen
  <2>1. outcome' = outcome /\ pc' = "reprobe" /\ lib' = OpenContext("second", "throwaway")
    BY <1>6 DEF PassesDone
  <2>2. StreamsAreRead' /\ HeaderIsTrue'
    BY <1>2, <1>3, <2>1, SbrStays DEF world
  <2>3. /\ LibTypeOK' /\ lib'.slot = "throwaway" /\ lib'.context = "second"
        /\ lib'.warnings = lib.warnings /\ lib'.heard = lib.heard
        /\ lib'.armed = [lib.armed EXCEPT !["second"] = TRUE]
    BY <1>1, <2>1, LibOpens DEF Contexts, Slots
  <2>4. lib'.armed["primary"] = lib.armed["primary"]
    BY <1>1, <2>3 DEF LibTypeOK, Contexts
  <2> QED BY <1>1, <1>2, <1>3, <2>1, <2>2, <2>3, <2>4 DEF ProbeIInv, world, WarningsAreTheHeaders,
                SessionListensToOpen, ClockLetGo
<1> QED BY <1>4, <1>5, <1>6

\* The second open for declared durations.
LEMMA OverTheReprobe ==
  ASSUME ProbeIInv, ReprobeTsDeclaredDurations
  PROVE  ProbeIInv'
<1>1. /\ LibTypeOK /\ ProbeShape /\ present \in BOOLEAN /\ WarningsAreTheHeaders /\ SessionListensToOpen /\ ClockLetGo
      /\ StreamsAreRead
  BY DEF ProbeIInv
<1>2. pc = "reprobe" /\ pc' = "join" /\ UNCHANGED <<world, outcome>> /\ lib' \in {Disarmed, Closed}
  BY DEF ReprobeTsDeclaredDurations
<1>3. ProbeShape' /\ HeaderStands /\ probe'.cut = probe.cut
  BY <1>1 DEF ReprobeTsDeclaredDurations, ProbeShape, HeaderStands, Hurried
<1>4. StreamsAreRead' /\ HeaderIsTrue'
  BY <1>2, <1>3, SbrStays DEF world
<1>5. /\ LibTypeOK' /\ lib'.slot = Nothing /\ lib'.warnings = lib.warnings /\ lib'.heard = lib.heard
      /\ lib'.armed["primary"] = lib.armed["primary"]
  <2>1. CASE lib' = Disarmed
    <3>1. /\ LibTypeOK' /\ lib'.slot = Nothing /\ lib'.warnings = lib.warnings /\ lib'.heard = lib.heard
          /\ lib'.armed = [lib.armed EXCEPT ![lib.context] = FALSE]
      BY <1>1, <2>1, LibLetsGo
    <3>2. lib.context = "second"
      BY <1>1, <1>2 DEF ClockLetGo
    <3> QED BY <1>1, <3>1, <3>2 DEF LibTypeOK, Contexts
  <2>2. CASE lib' = Closed
    BY <1>1, <2>2, LibGoesOn DEF Contexts
  <2> QED BY <1>2, <2>1, <2>2
<1> QED BY <1>1, <1>2, <1>3, <1>4, <1>5 DEF ProbeIInv, world, WarningsAreTheHeaders, SessionListensToOpen,
              ClockLetGo, Nothing

-------------------------------------------------------------------------------
(* The other parties.                                                      *)
LEMMA BesidesTheProgram ==
  ASSUME ProbeIInv, Warn \/ Stick \/ BudgetElapses \/ Vanish \/ Rest \/ UNCHANGED vars
  PROVE  ProbeIInv'
<1>1. /\ LibTypeOK /\ ProbeShape /\ present \in BOOLEAN /\ WarningsAreTheHeaders /\ SessionListensToOpen /\ ClockLetGo
  BY DEF ProbeIInv
<1>2. UNCHANGED <<file, pc, probe, outcome>> /\ present' \in BOOLEAN
  BY <1>1 DEF Warn, Stick, BudgetElapses, Vanish, Rest, vars, world
<1>3. StreamsAreRead' /\ HeaderIsTrue'
  BY <1>2, SbrStays DEF HeaderStands
<1>4. LibTypeOK'
  <2>1. CASE Warn
    <3>1. PICK more \in {0, 1}, also \in {0, 1} :
             lib' = [lib EXCEPT !.spoken = @ + 1, !.warnings = @ + more, !.heard = @ + also]
      <4>1. lib.warnings + 0 = lib.warnings /\ lib.heard + 0 = lib.heard
        BY <1>1 DEF LibTypeOK
      <4>2. lib' = [lib EXCEPT !.spoken = @ + 1,
                               !.warnings = lib.warnings + (IF lib.slot = "session" THEN 1 ELSE 0),
                               !.heard = lib.heard + (IF pc = "open" THEN 1 ELSE 0)]
        BY <2>1, <4>1 DEF Warn
      <4> QED BY <4>2
    <3>2. lib.spoken + 1 \in Nat /\ lib.warnings + more \in Nat /\ lib.heard + also \in Nat
      BY <1>1 DEF LibTypeOK
    <3> DEFINE spoken == lib.spoken + 1  warnings == lib.warnings + more  heard == lib.heard + also
    <3>3. lib' = [lib EXCEPT !.spoken = spoken, !.warnings = warnings, !.heard = heard]
      BY <3>1
    <3>4. spoken \in Nat /\ warnings \in Nat /\ heard \in Nat
      BY <3>2
    <3> HIDE DEF spoken, warnings, heard
    <3> QED BY <1>1, <3>3, <3>4 DEF LibTypeOK
  <2>2. CASE Stick
    BY <1>1, <2>2 DEF Stick, LibTypeOK
  <2>3. CASE BudgetElapses
    BY <1>1, <2>3 DEF BudgetElapses, LibTypeOK
  <2>4. CASE Vanish \/ Rest \/ UNCHANGED vars
    BY <1>1, <2>4 DEF Vanish, Rest, vars, LibTypeOK
  <2> QED BY <2>1, <2>2, <2>3, <2>4
<1>5. lib'.slot = lib.slot /\ lib'.context = lib.context /\ lib'.armed = lib.armed
  <2>1. CASE Warn
    BY <1>1, <2>1 DEF Warn, LibTypeOK
  <2>2. CASE Stick
    BY <1>1, <2>2 DEF Stick, LibTypeOK
  <2>3. CASE BudgetElapses
    BY <1>1, <2>3 DEF BudgetElapses, LibTypeOK
  <2>4. CASE Vanish \/ Rest \/ UNCHANGED vars
    BY <2>4 DEF Vanish, Rest, vars
  <2> QED BY <2>1, <2>2, <2>3, <2>4
<1>6. WarningsAreTheHeaders'
  <2>1. CASE Warn
    BY <1>1, <2>1 DEF Warn, LibTypeOK, WarningsAreTheHeaders, SessionListensToOpen
  <2>2. CASE Stick
    BY <1>1, <2>2 DEF Stick, LibTypeOK, WarningsAreTheHeaders
  <2>3. CASE BudgetElapses
    BY <1>1, <2>3 DEF BudgetElapses, LibTypeOK, WarningsAreTheHeaders
  <2>4. CASE Vanish \/ Rest \/ UNCHANGED vars
    BY <1>1, <2>4 DEF Vanish, Rest, vars, WarningsAreTheHeaders
  <2> QED BY <2>1, <2>2, <2>3, <2>4
<1>7. SessionListensToOpen' /\ ClockLetGo' /\ ProbeShape'
  BY <1>1, <1>2, <1>5 DEF SessionListensToOpen, ClockLetGo, ProbeShape
<1> QED BY <1>1, <1>2, <1>3, <1>4, <1>6, <1>7 DEF ProbeIInv

-------------------------------------------------------------------------------
(* While a file is probed, the clock has no hold on what is read after the  *)
(* header; a header read in a hurry knows less, but nothing that is not so; *)
(* and a stream is said to be coded as it is, or not said to be.            *)
THEOREM ProbeInvariant == ProbeSpec => []ProbeIInv
<1>1. ProbeInit => ProbeIInv
  BY ProbeStarts
<1>2. ProbeIInv /\ [Next]_vars => ProbeIInv'
  <2> SUFFICES ASSUME ProbeIInv, [Next]_vars PROVE ProbeIInv'
    OBVIOUS
  <2>1. CASE ReadSnapshot \/ LooksLikeJson \/ OpenSession
    BY <2>1, BeforeTheHeader
  <2>2. CASE ResolveSbrSignaling \/ OpenForSbr \/ DecodeForSbr \/ HeaderRead
    BY <2>2, OverTheStreams
  <2>3. CASE StartSweep \/ EndSweep
    BY <2>3, OverTheSweep
  <2>4. CASE RunFusedPass \/ RunScanner \/ JoinContainerDts \/ Analyze
    BY <2>4, OverThePasses
  <2>5. CASE PassesDone
    BY <2>5, AfterThePasses
  <2>6. CASE ReprobeTsDeclaredDurations
    BY <2>6, OverTheReprobe
  <2>7. CASE Warn \/ Stick \/ BudgetElapses \/ Vanish \/ Rest \/ UNCHANGED vars
    BY <2>7, BesidesTheProgram
  <2> QED BY <2>1, <2>2, <2>3, <2>4, <2>5, <2>6, <2>7 DEF Next, Program
<1> QED BY <1>1, <1>2, PTL DEF ProbeSpec

(* The warnings of a report are those of the header pass alone, and a      *)
(* fingerprint is marked by the clock only where a header was read in a    *)
(* hurry: it may lack streams or evidence then, and still says nothing     *)
(* positive that is not so; what comes after the header is never cut short.*)
THEOREM ProbeUnmarked == ProbeSpec => [](WarningsAreTheHeaders /\ ClockMarksOnlyTheHurried)
<1>1. ProbeIInv => WarningsAreTheHeaders /\ ClockMarksOnlyTheHurried
  <2> SUFFICES ASSUME ProbeIInv, outcome = "fingerprint" PROVE ClockMarksOnlyTheHurried
    BY DEF ProbeIInv, ClockMarksOnlyTheHurried
  <2>1. /\ ~probe.cut /\ ReadSoFar = HeaderCount /\ HeaderCount <= StreamCount
        /\ ~OpenPressed => HeaderCount = StreamCount
    BY DEF ProbeIInv, ClockLetGo, StreamsAreRead, HeaderIsTrue, HeaderCount, StreamCount
  <2>2. \A i \in 1..ReadSoFar : SaidOf(file.streams[i], probe.sbr[i], Pressed)
    BY DEF ProbeIInv, StreamsAreRead
  <2>3. DOMAIN probe.sbr = 1..ReadSoFar
    BY LenProperties DEF ProbeIInv, ProbeShape, ReadSoFar
  <2>4. Pressed <=> probe.hurried \cap {"open", "sbr_open"} # {}
    BY DEF Pressed, OpenPressed, SbrPressed
  <2> QED BY <2>1, <2>2, <2>3, <2>4 DEF ClockMarksOnlyTheHurried, SaidOf, ReadSoFar, HeaderCount, StreamCount, OpenPressed
<1> QED BY <1>1, ProbeInvariant, PTL

-------------------------------------------------------------------------------
(* What the passes leave, and which of their failures is told.             *)
EndIsAnOutcome == pc = "ended" <=> outcome # Nothing

NothingRanYet ==
  /\ pc \in {"snapshot", "peek", "open", "sbr", "sbr_open", "sbr_read"} =>
       probe.ran = <<>> /\ probe.results = {} /\ probe.errors = {}
  /\ probe.ran \in Seq(Pass)

\* A pass runs once and for somebody; unless something failed, all that ran left what it was to
\* leave, and an analyzer is not reached before every pass ran.
PassesAreKept ==
  /\ IsInjective(probe.ran) /\ Range(probe.ran) \subseteq UnionPasses /\ probe.results \subseteq UnionPasses
  /\ \A p \in Range(probe.ran) : p \in probe.results \cup probe.errors \/ "packet_scan" \in probe.errors
  /\ "packet_scan" \in Range(probe.ran) => "packet_scan" \in probe.errors \/ SweepResults \subseteq probe.results
  /\ pc = "sweep" => "packet_scan" \in Remaining
  /\ pc \in {"reprobe", "join", "analyze"} \/ outcome = "fingerprint" => Remaining = {} /\ probe.errors = {}

\* What was not found when it was opened is not there.
FailuresAreFounded ==
  /\ pc \in {"open", "sbr_open"} /\ ~lib.found => ~present
  /\ probe.errors \ {"packet_scan"} # {} => ~present
  /\ ErrorsAreToldApart

JoinedDts ==
  [i \in DOMAIN probe.streams |->
     IF file.family = "ts" /\ "packet_scan" \in probe.results THEN DtsSource(file.streams[i]) ELSE "demuxer"]

WrapsAreSettled ==
  /\ probe.durations = "reprobed" => file.same_layout \/ OpenPressed \/ "reprobe" \in probe.hurried
  /\ pc \in {"join", "analyze"} \/ outcome = "fingerprint" => (WrapsSeen => probe.durations # "demuxer")
  /\ pc = "analyze" \/ outcome = "fingerprint" => probe.dts = JoinedDts

Books == /\ analyzers \in Registries /\ TypeOK /\ EndIsAnOutcome /\ NothingRanYet
         /\ PassesAreKept /\ FailuresAreFounded /\ WrapsAreSettled

-------------------------------------------------------------------------------
\* The passes there are.
LEMMA PassNames ==
  Pass = {"demux_header", "packet_scan", "parser_scan", "bmff_scan", "ebml_scan", "ts_scan", "audio_decode"}
<1>1. DOMAIN PassOrder = 1..7
  BY DEF PassOrder
<1>2. 1..7 = {1, 2, 3, 4, 5, 6, 7}
  OBVIOUS
<1>3. /\ PassOrder[1] = "demux_header" /\ PassOrder[2] = "packet_scan" /\ PassOrder[3] = "parser_scan"
      /\ PassOrder[4] = "bmff_scan" /\ PassOrder[5] = "ebml_scan" /\ PassOrder[6] = "ts_scan"
      /\ PassOrder[7] = "audio_decode"
  BY DEF PassOrder
<1> QED BY <1>1, <1>2, <1>3 DEF Pass, Range

\* A registry asks for passes that exist.
LEMMA PassesKnown ==
  ASSUME analyzers \in Registries
  PROVE  UnionPasses \subseteq Pass /\ SweepResults \subseteq UnionPasses \cup {"packet_scan"}
<1>1. \A a \in Applicable : a.requires \subseteq Pass
  BY ProbeAssumption DEF Applicable
<1> QED BY <1>1, PassNames DEF UnionPasses, SweepResults

(* What is asked for does not change on the way.                           *)
LEMMA WorldStays ==
  ASSUME UNCHANGED <<file, analyzers, content>>
  PROVE  Applicable' = Applicable /\ UnionPasses' = UnionPasses /\ SweepResults' = SweepResults
<1>1. Applicable' = Applicable
  BY DEF Applicable
<1>2. UnionPasses' = UnionPasses
  BY <1>1 DEF UnionPasses
<1> QED BY <1>1, <1>2 DEF SweepResults

(* What is made in the sweep is asked for after it.                        *)
LEMMA SweepComesFirst ==
  ASSUME NEW pass \in {"parser_scan", "audio_decode"}, IsNext(pass)
  PROVE  "packet_scan" \in Range(probe.ran)
<1>1. pass \in UnionPasses /\ \A other \in Remaining : ~Before(other, pass)
  BY DEF IsNext, Remaining
<1>2. "packet_scan" \in UnionPasses
  BY <1>1 DEF UnionPasses
<1>3. Before("packet_scan", pass)
  <2>1. DOMAIN PassOrder = 1..7 /\ 2 \in 1..7 /\ 3 \in 1..7 /\ 7 \in 1..7 /\ 2 < 3 /\ 2 < 7
    BY DEF PassOrder
  <2>2. PassOrder[2] = "packet_scan" /\ PassOrder[3] = "parser_scan" /\ PassOrder[7] = "audio_decode"
    BY DEF PassOrder
  <2>3. CASE pass = "parser_scan"
    BY <2>1, <2>2, <2>3 DEF Before
  <2>4. CASE pass = "audio_decode"
    BY <2>1, <2>2, <2>4 DEF Before
  <2> QED BY <2>3, <2>4
<1> QED BY <1>1, <1>2, <1>3 DEF Remaining

(* One more pass has run.                                                  *)
LEMMA OneMorePass ==
  ASSUME probe.ran \in Seq(Pass), IsInjective(probe.ran), NEW pass \in Pass, pass \notin Range(probe.ran),
         probe'.ran = Ran(pass)
  PROVE  /\ probe'.ran \in Seq(Pass) /\ IsInjective(probe'.ran)
         /\ Range(probe'.ran) = Range(probe.ran) \cup {pass}
<1> DEFINE n == Len(probe.ran)
<1>1. /\ n \in Nat /\ DOMAIN probe.ran = 1..n
      /\ probe'.ran \in Seq(Pass) /\ Len(probe'.ran) = n + 1
      /\ \A i \in 1..n : probe'.ran[i] = probe.ran[i]
      /\ probe'.ran[n + 1] = pass
  BY AppendProperties, LenProperties DEF Ran
<1>2. DOMAIN probe'.ran = 1..(n + 1)
  BY <1>1, LenProperties
<1> HIDE DEF n
<1>3. \A i \in 1..(n + 1) : i \in 1..n \/ i = n + 1
  BY <1>1
<1>4. \A i \in 1..n : i \in 1..(n + 1)
  BY <1>1
<1>5. n + 1 \in 1..(n + 1)
  BY <1>1
<1>6. Range(probe'.ran) = Range(probe.ran) \cup {pass}
  BY <1>1, <1>2, <1>3, <1>4, <1>5 DEF Range
<1>7. \A i \in 1..n : probe.ran[i] # pass
  BY <1>1 DEF Range
<1>8. IsInjective(probe'.ran)
  BY <1>1, <1>2, <1>3, <1>7 DEF IsInjective
<1> QED BY <1>1, <1>6, <1>8

-------------------------------------------------------------------------------
\* A probe starts with no pass run and no failure noted.
LEMMA BooksOpen == ProbeInit => Books
<1> SUFFICES ASSUME ProbeInit PROVE Books
  OBVIOUS
<1>1. /\ analyzers \in Registries /\ pc = "snapshot" /\ outcome = Nothing /\ lib.call = "idle" /\ lib.slot = Nothing
      /\ probe.ran = <<>> /\ probe.results = {} /\ probe.errors = {} /\ probe.durations = "demuxer"
  BY DEF ProbeInit
<1>2. TypeOK /\ EndIsAnOutcome
  BY <1>1 DEF TypeOK, EndIsAnOutcome, Nothing
<1>3. NothingRanYet
  BY <1>1, EmptySeq DEF NothingRanYet
<1>4. Range(probe.ran) = {} /\ IsInjective(probe.ran)
  <2>1. DOMAIN probe.ran = {}
    BY <1>1, EmptySeq
  <2> QED BY <2>1 DEF Range, IsInjective
<1>5. PassesAreKept
  BY <1>1, <1>4 DEF PassesAreKept, Nothing
<1>6. FailuresAreFounded /\ WrapsAreSettled
  BY <1>1 DEF FailuresAreFounded, ErrorsAreToldApart, WrapsAreSettled, Nothing
<1> QED BY <1>1, <1>2, <1>3, <1>5, <1>6 DEF Books

(* A step that touches no pass and no result.                              *)
LEMMA BooksStay ==
  ASSUME Books, UNCHANGED <<file, analyzers, content>>, present' => present,
         probe'.ran = probe.ran, probe'.results = probe.results, probe'.errors = probe.errors,
         probe'.durations = probe.durations, probe'.dts = probe.dts, probe.hurried \subseteq probe'.hurried,
         probe'.streams = probe.streams \/ ~(pc' = "analyze" \/ outcome' = "fingerprint"),
         TypeOK', EndIsAnOutcome',
         pc' \in {"snapshot", "peek", "open", "sbr", "sbr_open", "sbr_read"} =>
           pc \in {"snapshot", "peek", "open", "sbr", "sbr_open", "sbr_read"},
         pc' = "sweep" => pc = "sweep" \/ "packet_scan" \in Remaining,
         pc' \in {"reprobe", "join", "analyze"} \/ outcome' = "fingerprint" =>
           pc \in {"reprobe", "join", "analyze"} \/ outcome = "fingerprint" \/ (Remaining = {} /\ probe.errors = {}),
         pc' \in {"join", "analyze"} \/ outcome' = "fingerprint" =>
           pc \in {"join", "analyze"} \/ outcome = "fingerprint" \/ ~WrapsSeen,
         pc' = "analyze" \/ outcome' = "fingerprint" => pc = "analyze" \/ outcome = "fingerprint",
         pc' \in {"open", "sbr_open"} /\ ~lib'.found => ~present',
         ErrorsAreToldApart'
  PROVE  Books'
<1>1. /\ analyzers \in Registries /\ NothingRanYet /\ PassesAreKept /\ FailuresAreFounded /\ WrapsAreSettled
  BY DEF Books
<1>2. UnionPasses' = UnionPasses /\ SweepResults' = SweepResults
  BY WorldStays
<1>3. NothingRanYet'
  BY <1>1 DEF NothingRanYet
<1>4. PassesAreKept'
  BY <1>1, <1>2 DEF PassesAreKept, Remaining
<1>5. FailuresAreFounded'
  BY <1>1 DEF FailuresAreFounded
<1>6. WrapsAreSettled'
  <2>1. \A s : DtsSource(s)' = DtsSource(s)
    BY DEF DtsSource
  <2>2. probe'.streams = probe.streams => JoinedDts' = JoinedDts
    BY <2>1 DEF JoinedDts
  <2>3. WrapsSeen' = WrapsSeen
    BY DEF WrapsSeen
  <2> QED BY <1>1, <2>2, <2>3 DEF WrapsAreSettled, OpenPressed
<1> QED BY <1>1, <1>3, <1>4, <1>5, <1>6 DEF Books

\* The books are kept up to the open of the session.
LEMMA BooksBeforeTheHeader ==
  ASSUME Books, ProbeIInv, ReadSnapshot \/ LooksLikeJson \/ OpenSession
  PROVE  Books'
<1>1. /\ TypeOK /\ EndIsAnOutcome /\ NothingRanYet /\ FailuresAreFounded
      /\ LibTypeOK /\ ProbeShape /\ present \in BOOLEAN
  BY DEF Books, ProbeIInv
<1>2. CASE ReadSnapshot
  <2>1. /\ pc = "snapshot" /\ UNCHANGED <<file, analyzers, content, present, lib, probe>>
        /\ \/ ~present /\ outcome' = "input_open" /\ pc' = "ended"
           \/ present /\ file.snapshot = "accepted" /\ outcome' = "snapshot" /\ pc' = "ended"
           \/ present /\ pc' = "peek" /\ outcome' = outcome
    BY <1>1, <1>2 DEF ReadSnapshot, Fail, world
  <2>2. TypeOK' /\ EndIsAnOutcome'
    BY <1>1, <2>1 DEF TypeOK, EndIsAnOutcome, Nothing
  <2>3. ErrorsAreToldApart'
    BY <1>1, <2>1 DEF ErrorsAreToldApart, FailuresAreFounded, NothingRanYet
  <2>4. outcome' # "fingerprint"
    BY <1>1, <2>1 DEF EndIsAnOutcome, Nothing
  <2> QED BY <2>1, <2>2, <2>3, <2>4, BooksStay
<1>3. CASE LooksLikeJson
  <2>1. /\ pc = "peek" /\ UNCHANGED <<file, analyzers, content, present, probe>>
        /\ \/ /\ present /\ file.snapshot = "rejected" /\ outcome' = "input_unsupported" /\ pc' = "ended"
              /\ lib' = lib
           \/ /\ ~(present /\ file.snapshot = "rejected") /\ pc' = "open" /\ outcome' = outcome
              /\ lib' = OpenContext("primary", "session")
    BY <1>3 DEF LooksLikeJson, Fail, world
  <2>2. lib'.call \in {"idle", "running", "stuck"} /\ lib'.slot \in {Nothing, "session", "throwaway"}
        /\ (pc' = "open" => lib'.found = present)
    BY <1>1, <2>1 DEF TypeOK, OpenContext, LibTypeOK
  <2>3. TypeOK' /\ EndIsAnOutcome'
    BY <1>1, <2>1, <2>2 DEF TypeOK, EndIsAnOutcome, Nothing
  <2>4. ErrorsAreToldApart'
    BY <1>1, <2>1 DEF ErrorsAreToldApart, FailuresAreFounded, NothingRanYet
  <2>5. outcome' # "fingerprint"
    BY <1>1, <2>1 DEF EndIsAnOutcome, Nothing
  <2> QED BY <2>1, <2>2, <2>3, <2>4, <2>5, BooksStay
<1>4. CASE OpenSession
  <2>1. /\ pc = "open" /\ UNCHANGED <<file, analyzers, content, present>>
        /\ \/ /\ outcome' \in {"internal", "input_open", "input_unsupported"} /\ pc' = "ended" /\ lib' = Closed
              /\ outcome' = "input_open" => ~lib.found
           \/ pc' = "sbr" /\ outcome' = outcome /\ lib' = Disarmed
    BY <1>4, EndsOfAnOpen DEF OpenSession, Fail, world
  <2>2. LibTypeOK'
    BY <1>1, <2>1, LibGoesOn, LibLetsGo DEF Contexts
  <2>3. /\ probe'.ran = probe.ran /\ probe'.results = probe.results /\ probe'.errors = probe.errors
        /\ probe'.durations = probe.durations /\ probe'.dts = probe.dts /\ probe.hurried \subseteq probe'.hurried
    BY <1>1, <1>4 DEF OpenSession, ProbeShape, Hurried
  <2>4. TypeOK' /\ EndIsAnOutcome'
    BY <1>1, <2>1, <2>2, <2>3 DEF TypeOK, EndIsAnOutcome, Nothing, LibTypeOK, Slots
  <2>5. ErrorsAreToldApart'
    BY <1>1, <2>1, <2>3 DEF ErrorsAreToldApart, FailuresAreFounded, NothingRanYet, EndIsAnOutcome, Nothing
  <2>6. outcome' # "fingerprint"
    BY <1>1, <2>1 DEF EndIsAnOutcome, Nothing
  <2> QED BY <2>1, <2>3, <2>4, <2>5, <2>6, BooksStay
<1> QED BY <1>2, <1>3, <1>4

\* They are kept over the streams of the header.
LEMMA BooksOverTheStreams ==
  ASSUME Books, ProbeIInv, ResolveSbrSignaling \/ OpenForSbr \/ DecodeForSbr \/ HeaderRead
  PROVE  Books'
<1>1. /\ TypeOK /\ EndIsAnOutcome /\ NothingRanYet /\ FailuresAreFounded
      /\ LibTypeOK /\ ProbeShape /\ present \in BOOLEAN
  BY DEF Books, ProbeIInv
<1>2. /\ pc \in {"sbr", "sbr_open", "sbr_read"} /\ UNCHANGED <<file, analyzers, content, present>>
      /\ probe'.ran = probe.ran /\ probe'.results = probe.results /\ probe'.errors = probe.errors
      /\ probe'.durations = probe.durations /\ probe'.dts = probe.dts
      /\ probe'.streams = probe.streams /\ probe.hurried \subseteq probe'.hurried
  <2>1. CASE ResolveSbrSignaling
    BY <1>1, <2>1 DEF ResolveSbrSignaling, world, ProbeShape
  <2>2. CASE OpenForSbr
    BY <1>1, <2>2 DEF OpenForSbr, world, ProbeShape, Hurried
  <2>3. CASE HeaderRead
    BY <2>3 DEF HeaderRead, world
  <2>4. CASE DecodeForSbr
    <3>1. pc = "sbr_read" /\ UNCHANGED <<file, analyzers, content, present>>
      BY <2>4 DEF DecodeForSbr, world
    <3>2. \/ probe' = probe
          \/ \E told \in DecodedSbr(file.streams[StreamNumber]) : probe' = [probe EXCEPT !.sbr = Append(@, told)]
      BY <2>4 DEF DecodeForSbr
    <3> QED BY <1>1, <3>1, <3>2 DEF ProbeShape
  <2> QED BY <2>1, <2>2, <2>3, <2>4
<1>3. /\ \/ pc' \in {"sbr", "sbr_open", "sbr_read", "passes"} /\ outcome' = outcome
         \/ /\ pc' = "ended" /\ outcome' \in {"internal", "input_open", "input_unsupported"}
            /\ outcome' = "input_open" => ~lib.found /\ pc = "sbr_open"
      /\ LibTypeOK'
      /\ pc' = "sbr_open" => lib'.found = present
  <2>1. CASE ResolveSbrSignaling
    <3>1. CASE lib' = lib /\ pc' = pc
      BY <1>1, <2>1, <3>1 DEF ResolveSbrSignaling, LibTypeOK
    <3>2. CASE lib' = OpenContext("second", "throwaway")
      <4>1. LibTypeOK' /\ lib'.found = present
        <5>1. LibTypeOK'
          BY <1>1, <3>2, LibOpens DEF Contexts, Slots
        <5> QED BY <1>1, <3>2, <5>1 DEF OpenContext, LibTypeOK
      <4>2. outcome' = outcome /\ pc' \in {"sbr", "sbr_open"}
        BY <2>1 DEF ResolveSbrSignaling
      <4> QED BY <4>1, <4>2
    <3> QED BY <2>1, <3>1, <3>2 DEF ResolveSbrSignaling
  <2>2. CASE OpenForSbr
    <3>1. \/ /\ pc' = "ended" /\ outcome' \in {"internal", "input_open", "input_unsupported"} /\ pc = "sbr_open"
             /\ outcome' = "input_open" => ~lib.found
             /\ lib' = Closed
          \/ pc' = "sbr_read" /\ outcome' = outcome /\ lib' = [Disarmed EXCEPT !.call = "running"]
      BY <2>2, EndsOfAnOpen DEF OpenForSbr, Fail
    <3>2. LibTypeOK'
      BY <1>1, <3>1, LibGoesOn, LibLetsGo DEF Contexts
    <3> QED BY <3>1, <3>2
  <2>3. CASE DecodeForSbr
    <3>1. \/ pc' = "ended" /\ outcome' = "internal" /\ lib' = Closed
          \/ pc' = "sbr" /\ outcome' = outcome /\ lib' = Idle
      BY <2>3 DEF DecodeForSbr, Fail
    <3>2. LibTypeOK'
      BY <1>1, <3>1, LibGoesOn DEF Contexts
    <3> QED BY <3>1, <3>2
  <2>4. CASE HeaderRead
    BY <1>1, <2>4 DEF HeaderRead, LibTypeOK
  <2> QED BY <2>1, <2>2, <2>3, <2>4
<1>4. pc' = "sbr_open" /\ ~lib'.found => ~present'
  BY <1>2, <1>3
<1>5. TypeOK' /\ EndIsAnOutcome'
  BY <1>1, <1>2, <1>3 DEF TypeOK, EndIsAnOutcome, Nothing, LibTypeOK, Slots
<1>6. ErrorsAreToldApart'
  BY <1>1, <1>2, <1>3 DEF ErrorsAreToldApart, FailuresAreFounded, NothingRanYet, EndIsAnOutcome, Nothing
<1>7. outcome' # "fingerprint"
  BY <1>1, <1>2, <1>3 DEF EndIsAnOutcome, Nothing
<1> QED BY <1>2, <1>3, <1>4, <1>5, <1>6, <1>7, BooksStay

-------------------------------------------------------------------------------
(* A pass ran: it left its results, or the error it failed with.           *)
LEMMA APassRan ==
  ASSUME Books, pc \in {"passes", "sweep"}, pc' = "passes", outcome' = outcome,
         UNCHANGED <<file, analyzers, content, present>>, LibTypeOK', ProbeShape,
         NEW pass \in Remaining, probe'.ran = Ran(pass),
         probe'.durations = probe.durations, probe'.dts = probe.dts, probe'.hurried = probe.hurried,
         probe.results \subseteq probe'.results, probe'.results \subseteq probe.results \cup UnionPasses,
         probe.errors \subseteq probe'.errors, probe'.errors \subseteq probe.errors \cup {pass},
         \/ pass \in probe'.results \cup probe'.errors
         \/ pass \in {"parser_scan", "audio_decode"} /\ "packet_scan" \in Range(probe.ran),
         pass = "packet_scan" => pass \in probe'.errors \/ SweepResults \subseteq probe'.results,
         pass # "packet_scan" => ~present \/ probe'.errors = probe.errors
  PROVE  Books'
<1>1. /\ analyzers \in Registries /\ TypeOK /\ EndIsAnOutcome /\ NothingRanYet
      /\ PassesAreKept /\ FailuresAreFounded /\ WrapsAreSettled
  BY DEF Books
<1>2. UnionPasses' = UnionPasses /\ SweepResults' = SweepResults
  BY WorldStays
<1>3. UnionPasses \subseteq Pass /\ pass \in UnionPasses /\ pass \notin Range(probe.ran)
  BY <1>1, PassesKnown DEF Remaining
<1>4. /\ probe'.ran \in Seq(Pass) /\ IsInjective(probe'.ran)
      /\ Range(probe'.ran) = Range(probe.ran) \cup {pass}
  BY <1>1, <1>3, OneMorePass DEF NothingRanYet, PassesAreKept
<1>5. outcome = Nothing
  BY <1>1 DEF EndIsAnOutcome
<1>6. TypeOK' /\ EndIsAnOutcome'
  BY <1>1, <1>3, <1>5 DEF TypeOK, EndIsAnOutcome, LibTypeOK, Slots
<1>7. NothingRanYet'
  BY <1>4 DEF NothingRanYet
<1>8. PassesAreKept'
  <2>1. IsInjective(probe'.ran) /\ Range(probe'.ran) \subseteq UnionPasses /\ probe'.results \subseteq UnionPasses
    BY <1>1, <1>3, <1>4 DEF PassesAreKept
  <2>2. "packet_scan" \in Range(probe'.ran) => "packet_scan" \in probe'.errors \/ SweepResults \subseteq probe'.results
    BY <1>1, <1>4 DEF PassesAreKept
  <2>3. \A p \in Range(probe'.ran) : p \in probe'.results \cup probe'.errors \/ "packet_scan" \in probe'.errors
    <3>1. \A p \in Range(probe.ran) : p \in probe'.results \cup probe'.errors \/ "packet_scan" \in probe'.errors
      BY <1>1 DEF PassesAreKept
    <3>2. pass \in probe'.results \cup probe'.errors \/ "packet_scan" \in probe'.errors
      <4>1. CASE pass \in probe'.results \cup probe'.errors
        BY <4>1
      <4>2. CASE pass \in {"parser_scan", "audio_decode"} /\ "packet_scan" \in Range(probe.ran)
        <5>1. pass \in SweepResults
          BY <1>3, <4>2 DEF SweepResults
        <5> QED BY <1>1, <4>2, <5>1 DEF PassesAreKept
      <4> QED BY <4>1, <4>2
    <3> QED BY <1>4, <3>1, <3>2
  <2>4. ~(pc' \in {"reprobe", "join", "analyze"}) /\ outcome' # "fingerprint" /\ pc' # "sweep"
    BY <1>5 DEF Nothing
  <2> QED BY <1>2, <2>1, <2>2, <2>3, <2>4 DEF PassesAreKept
<1>9. FailuresAreFounded'
  <2>1. probe'.errors \ {"packet_scan"} # {} => ~present'
    BY <1>1 DEF FailuresAreFounded
  <2>2. ErrorsAreToldApart'
    BY <1>1, <1>5 DEF FailuresAreFounded, ErrorsAreToldApart, Nothing
  <2> QED BY <2>1, <2>2 DEF FailuresAreFounded
<1>10. WrapsAreSettled'
  BY <1>1, <1>5 DEF WrapsAreSettled, Nothing, OpenPressed
<1> QED BY <1>1, <1>6, <1>7, <1>8, <1>9, <1>10 DEF Books

\* They are kept over the sweep and the scanners.
LEMMA BooksOverThePasses ==
  ASSUME Books, ProbeIInv, StartSweep \/ EndSweep \/ RunFusedPass \/ RunScanner
  PROVE  Books'
<1>1. /\ analyzers \in Registries /\ TypeOK /\ EndIsAnOutcome /\ NothingRanYet
      /\ PassesAreKept /\ FailuresAreFounded /\ WrapsAreSettled
      /\ LibTypeOK /\ ProbeShape /\ ClockLetGo
  BY DEF Books, ProbeIInv
<1>2. CASE StartSweep
  <2>1. /\ pc = "passes" /\ pc' = "sweep" /\ lib' = Calling("primary") /\ "packet_scan" \in Remaining
        /\ UNCHANGED <<file, analyzers, content, present, probe, outcome>>
    BY <1>2 DEF StartSweep, world, IsNext
  <2>2. LibTypeOK'
    BY <1>1, <2>1 DEF LibTypeOK, Calling, Contexts
  <2>3. TypeOK' /\ EndIsAnOutcome'
    BY <1>1, <2>1, <2>2 DEF TypeOK, EndIsAnOutcome, LibTypeOK, Slots
  <2>4. ErrorsAreToldApart'
    BY <1>1, <2>1 DEF FailuresAreFounded, ErrorsAreToldApart, EndIsAnOutcome, Nothing
  <2>5. outcome' # "fingerprint"
    BY <1>1, <2>1 DEF EndIsAnOutcome, Nothing
  <2> QED BY <2>1, <2>3, <2>4, <2>5, BooksStay
<1>3. CASE EndSweep
  <2>1. /\ pc = "sweep" /\ pc' = "passes" /\ lib' = Idle
        /\ UNCHANGED <<file, analyzers, content, present, outcome>>
    BY <1>3 DEF EndSweep, world
  <2>2. LibTypeOK'
    BY <1>1, <2>1 DEF LibTypeOK, Idle
  <2>3. "packet_scan" \in Remaining
    BY <1>1, <2>1 DEF PassesAreKept
  <2>4. PICK failed \in BOOLEAN :
           probe' = IF failed
                    THEN [probe EXCEPT !.ran = Ran("packet_scan"), !.errors = @ \cup {"packet_scan"}]
                    ELSE [probe EXCEPT !.ran = Ran("packet_scan"), !.cut = Interrupted,
                                       !.results = @ \cup SweepResults]
    BY <1>3 DEF EndSweep
  <2>5. CASE failed
    <3>1. /\ probe'.ran = Ran("packet_scan") /\ probe'.results = probe.results \cup {}
          /\ probe'.errors = probe.errors \cup {"packet_scan"}
          /\ probe'.durations = probe.durations /\ probe'.dts = probe.dts /\ probe'.hurried = probe.hurried
      BY <1>1, <2>4, <2>5 DEF ProbeShape
    <3> QED BY <1>1, <2>1, <2>2, <2>3, <3>1, APassRan
  <2>6. CASE ~failed
    <3>1. probe' = [probe EXCEPT !.ran = Ran("packet_scan"), !.cut = Interrupted, !.results = @ \cup SweepResults]
      BY <2>4, <2>6
    <3>2. /\ probe'.ran = Ran("packet_scan") /\ probe'.results = probe.results \cup SweepResults
          /\ probe'.errors = probe.errors \cup {}
          /\ probe'.durations = probe.durations /\ probe'.dts = probe.dts /\ probe'.hurried = probe.hurried
      BY <1>1, <3>1 DEF ProbeShape
    <3>3. SweepResults \subseteq UnionPasses /\ "packet_scan" \in SweepResults
      BY <1>1, <2>3, PassesKnown DEF SweepResults, Remaining
    <3> QED BY <1>1, <2>1, <2>2, <2>3, <3>2, <3>3, APassRan
  <2> QED BY <2>5, <2>6
<1>4. CASE RunFusedPass
  <2>1. /\ pc = "passes" /\ pc' = "passes" /\ UNCHANGED <<file, analyzers, content, present, lib, outcome>>
    BY <1>4 DEF RunFusedPass, world
  <2>2. PICK pass \in {"demux_header", "parser_scan", "audio_decode"} :
           /\ IsNext(pass)
           /\ probe' = [probe EXCEPT !.ran = Ran(pass), !.results = IF pass = "demux_header" THEN @ \cup {pass} ELSE @]
    BY <1>4 DEF RunFusedPass
  <2>3. pass \in Remaining /\ pass \in UnionPasses
    BY <2>2 DEF IsNext, Remaining
  <2>4. LibTypeOK'
    BY <1>1, <2>1 DEF LibTypeOK
  <2> DEFINE left == IF pass = "demux_header" THEN {pass} ELSE {}
  <2>5. /\ probe'.ran = Ran(pass) /\ probe'.results = probe.results \cup left
        /\ probe'.errors = probe.errors \cup {}
        /\ probe'.durations = probe.durations /\ probe'.dts = probe.dts /\ probe'.hurried = probe.hurried
    BY <1>1, <2>2 DEF ProbeShape
  <2>6. left \subseteq UnionPasses /\ (pass = "demux_header" => pass \in left)
    BY <2>3
  <2>7. pass \in left \cup {} \/ (pass \in {"parser_scan", "audio_decode"} /\ "packet_scan" \in Range(probe.ran))
    BY <2>2, <2>6, SweepComesFirst
  <2> HIDE DEF left
  <2> QED BY <1>1, <2>1, <2>3, <2>4, <2>5, <2>6, <2>7, APassRan
<1>5. CASE RunScanner
  <2>1. /\ pc = "passes" /\ pc' = "passes" /\ UNCHANGED <<file, analyzers, content, present, lib, outcome>>
    BY <1>5 DEF RunScanner, world
  <2>2. PICK pass \in Scanners :
           /\ IsNext(pass)
           /\ probe' = IF present
                       THEN [probe EXCEPT !.ran = Ran(pass), !.results = @ \cup {pass}]
                       ELSE [probe EXCEPT !.ran = Ran(pass), !.errors = @ \cup {pass}]
    BY <1>5 DEF RunScanner
  <2>3. pass \in Remaining /\ pass \in UnionPasses /\ pass # "packet_scan"
    BY <2>2 DEF IsNext, Remaining, Scanners
  <2>4. LibTypeOK'
    BY <1>1, <2>1 DEF LibTypeOK
  <2>5. CASE present
    <3>1. /\ probe'.ran = Ran(pass) /\ probe'.results = probe.results \cup {pass}
          /\ probe'.errors = probe.errors \cup {}
          /\ probe'.durations = probe.durations /\ probe'.dts = probe.dts /\ probe'.hurried = probe.hurried
      BY <1>1, <2>2, <2>5 DEF ProbeShape
    <3> QED BY <1>1, <2>1, <2>3, <2>4, <3>1, APassRan
  <2>6. CASE ~present
    <3>1. /\ probe'.ran = Ran(pass) /\ probe'.results = probe.results \cup {}
          /\ probe'.errors = probe.errors \cup {pass}
          /\ probe'.durations = probe.durations /\ probe'.dts = probe.dts /\ probe'.hurried = probe.hurried
      BY <1>1, <2>2, <2>6 DEF ProbeShape
    <3> QED BY <1>1, <2>1, <2>3, <2>4, <2>6, <3>1, APassRan
  <2> QED BY <2>5, <2>6
<1> QED BY <1>2, <1>3, <1>4, <1>5

-------------------------------------------------------------------------------
\* They are kept by the end of the passes and by the analyzers.
LEMMA BooksAfterThePasses ==
  ASSUME Books, ProbeIInv, PassesDone \/ Analyze
  PROVE  Books'
<1>1. /\ TypeOK /\ EndIsAnOutcome /\ NothingRanYet
      /\ PassesAreKept /\ FailuresAreFounded /\ WrapsAreSettled
      /\ LibTypeOK /\ ProbeShape /\ present \in BOOLEAN
  BY DEF Books, ProbeIInv
<1>2. UNCHANGED <<file, analyzers, content, present, probe>> /\ outcome = Nothing
  BY <1>1 DEF PassesDone, Analyze, world, EndIsAnOutcome
<1>3. CASE PassesDone /\ probe.errors # {}
  <2>1. pc = "passes" /\ outcome' = ErrorTold /\ pc' = "ended" /\ lib' = lib
    BY <1>3 DEF PassesDone, Fail
  <2>2. /\ ErrorTold \in {"internal", "input_open"}
        /\ ErrorTold = "internal" <=> "packet_scan" \in probe.errors
    BY DEF ErrorTold
  <2>3. TypeOK' /\ EndIsAnOutcome'
    BY <1>1, <1>2, <2>1, <2>2 DEF TypeOK, EndIsAnOutcome, Nothing
  <2>4. ErrorTold = "input_open" => ~present
    BY <1>1, <1>3, <2>2 DEF FailuresAreFounded
  <2>5. ErrorsAreToldApart'
    BY <1>1, <1>2, <2>1, <2>2, <2>4 DEF FailuresAreFounded, ErrorsAreToldApart, Nothing
  <2>6. outcome' # "fingerprint"
    BY <2>1, <2>2
  <2> QED BY <1>2, <2>1, <2>3, <2>5, <2>6, BooksStay
<1>4. CASE PassesDone /\ probe.errors = {}
  <2>1. /\ pc = "passes" /\ Remaining = {} /\ outcome' = outcome
        /\ \/ pc' = "reprobe" /\ lib' = OpenContext("second", "throwaway")
           \/ pc' = "join" /\ lib' = lib /\ ~WrapsSeen
    BY <1>4 DEF PassesDone
  <2>2. LibTypeOK'
    BY <1>1, <2>1, LibOpens DEF Contexts, Slots, LibTypeOK
  <2>3. TypeOK' /\ EndIsAnOutcome'
    BY <1>1, <1>2, <2>1, <2>2 DEF TypeOK, EndIsAnOutcome, LibTypeOK, Slots
  <2>4. ErrorsAreToldApart'
    BY <1>1, <1>2, <2>1 DEF FailuresAreFounded, ErrorsAreToldApart, Nothing
  <2>5. outcome' # "fingerprint"
    BY <1>2, <2>1 DEF Nothing
  <2> QED BY <1>2, <1>4, <2>1, <2>3, <2>4, <2>5, BooksStay
<1>5. CASE Analyze
  <2>1. pc = "analyze" /\ outcome' = "fingerprint" /\ pc' = "ended" /\ lib' = lib
    BY <1>5 DEF Analyze
  <2>2. TypeOK' /\ EndIsAnOutcome'
    BY <1>1, <1>2, <2>1 DEF TypeOK, EndIsAnOutcome, Nothing
  <2>3. probe.errors = {}
    BY <1>1, <2>1 DEF PassesAreKept
  <2>4. ErrorsAreToldApart'
    BY <1>1, <1>2, <2>1, <2>3 DEF FailuresAreFounded, ErrorsAreToldApart, Nothing
  <2> QED BY <1>2, <2>1, <2>2, <2>4, BooksStay
<1> QED BY <1>3, <1>4, <1>5

\* They are kept by the second open for durations and the join of the timestamps.
LEMMA BooksOverTheWraps ==
  ASSUME Books, ProbeIInv, ReprobeTsDeclaredDurations \/ JoinContainerDts
  PROVE  Books'
<1>1. /\ analyzers \in Registries /\ TypeOK /\ EndIsAnOutcome /\ NothingRanYet
      /\ PassesAreKept /\ FailuresAreFounded /\ WrapsAreSettled
      /\ LibTypeOK /\ ProbeShape
  BY DEF Books, ProbeIInv
<1>2. /\ pc \in {"reprobe", "join"} /\ pc' \in {"join", "analyze"} /\ UNCHANGED <<file, analyzers, content, present, outcome>>
      /\ pc = "reprobe" <=> pc' = "join"
      /\ probe'.ran = probe.ran /\ probe'.results = probe.results /\ probe'.errors = probe.errors
      /\ probe'.streams = probe.streams /\ probe.hurried \subseteq probe'.hurried
  <2>1. CASE ReprobeTsDeclaredDurations
    BY <1>1, <2>1 DEF ReprobeTsDeclaredDurations, world, ProbeShape, Hurried
  <2>2. CASE JoinContainerDts
    BY <1>1, <2>2 DEF JoinContainerDts, world, ProbeShape
  <2> QED BY <2>1, <2>2
<1>3. UnionPasses' = UnionPasses /\ SweepResults' = SweepResults /\ outcome = Nothing
  BY <1>1, <1>2, WorldStays DEF EndIsAnOutcome
<1>4. LibTypeOK'
  <2>1. lib' \in {Disarmed, Closed, lib}
    BY DEF ReprobeTsDeclaredDurations, JoinContainerDts
  <2> QED BY <1>1, <2>1, LibLetsGo, LibGoesOn DEF Contexts, LibTypeOK
<1>5. /\ probe'.durations \in {"demuxer", "reprobed", "withheld"}
      /\ probe'.durations = "reprobed" => file.same_layout \/ OpenPressed' \/ "reprobe" \in probe'.hurried
      /\ WrapsSeen => probe'.durations # "demuxer"
      /\ pc' = "analyze" => probe'.dts = JoinedDts
  <2>1. CASE ReprobeTsDeclaredDurations
    <3>1. pc = "reprobe" /\ pc' = "join"
      BY <2>1 DEF ReprobeTsDeclaredDurations
    <3>2. CASE probe' = [probe EXCEPT !.durations = "withheld"]
      BY <1>1, <3>1, <3>2 DEF ProbeShape
    <3>3. CASE \E same \in SameLayouts :
                 probe' = [probe EXCEPT !.durations = IF same THEN "reprobed" ELSE "withheld", !.hurried = Hurried]
      <4>1. PICK same \in SameLayouts :
                   probe' = [probe EXCEPT !.durations = IF same THEN "reprobed" ELSE "withheld", !.hurried = Hurried]
        BY <3>3
      <4>2. probe'.durations = (IF same THEN "reprobed" ELSE "withheld") /\ probe'.hurried = Hurried
        BY <1>1, <4>1 DEF ProbeShape
      <4>3. same => file.same_layout \/ Interrupted \/ "open" \in probe.hurried
        BY DEF SameLayouts
      <4> QED BY <3>1, <4>2, <4>3 DEF Hurried, OpenPressed
    <3> QED BY <2>1, <3>2, <3>3 DEF ReprobeTsDeclaredDurations
  <2>2. CASE JoinContainerDts
    <3>1. /\ pc = "join" /\ probe'.durations = probe.durations /\ probe'.dts = JoinedDts
          /\ probe'.hurried = probe.hurried
      BY <1>1, <2>2 DEF JoinContainerDts, ProbeShape, JoinedDts
    <3> QED BY <1>1, <3>1 DEF WrapsAreSettled, TypeOK, OpenPressed
  <2> QED BY <2>1, <2>2
<1>6. TypeOK' /\ EndIsAnOutcome'
  BY <1>1, <1>2, <1>4, <1>5 DEF TypeOK, EndIsAnOutcome, LibTypeOK, Slots
<1>7. NothingRanYet'
  BY <1>1, <1>2 DEF NothingRanYet
<1>8. PassesAreKept'
  BY <1>1, <1>2, <1>3 DEF PassesAreKept, Remaining, Nothing
<1>9. FailuresAreFounded'
  BY <1>1, <1>2, <1>3 DEF FailuresAreFounded, ErrorsAreToldApart, Nothing
<1>10. WrapsAreSettled'
  <2>1. \A s : DtsSource(s)' = DtsSource(s)
    BY <1>2 DEF DtsSource
  <2>2. JoinedDts' = JoinedDts /\ WrapsSeen' = WrapsSeen
    BY <1>2, <2>1 DEF JoinedDts, WrapsSeen
  <2> QED BY <1>2, <1>3, <1>5, <2>2 DEF WrapsAreSettled, Nothing
<1> QED BY <1>1, <1>2, <1>6, <1>7, <1>8, <1>9, <1>10 DEF Books

\* What is not a step of the program writes nothing into them.
LEMMA BooksBesidesTheProgram ==
  ASSUME Books, ProbeIInv, ProbeIInv', Warn \/ Stick \/ BudgetElapses \/ Vanish \/ Rest \/ UNCHANGED vars
  PROVE  Books'
<1>1. TypeOK /\ EndIsAnOutcome /\ FailuresAreFounded /\ LibTypeOK /\ LibTypeOK' /\ present \in BOOLEAN
  BY DEF Books, ProbeIInv
<1>2. UNCHANGED <<file, analyzers, content, pc, probe, outcome>> /\ (present' => present)
  BY <1>1 DEF Warn, Stick, BudgetElapses, Vanish, Rest, vars, world
<1>3. lib'.found = lib.found
  <2>1. CASE Warn
    BY <1>1, <2>1 DEF Warn, LibTypeOK
  <2>2. CASE Stick
    BY <1>1, <2>2 DEF Stick, LibTypeOK
  <2>3. CASE BudgetElapses
    BY <1>1, <2>3 DEF BudgetElapses, LibTypeOK
  <2>4. CASE Vanish \/ Rest \/ UNCHANGED vars
    BY <2>4 DEF Vanish, Rest, vars
  <2> QED BY <2>1, <2>2, <2>3, <2>4
<1>4. TypeOK' /\ EndIsAnOutcome'
  BY <1>1, <1>2 DEF TypeOK, EndIsAnOutcome, LibTypeOK, Slots
<1>5. ErrorsAreToldApart' /\ (pc' \in {"open", "sbr_open"} /\ ~lib'.found => ~present')
  BY <1>1, <1>2, <1>3 DEF FailuresAreFounded, ErrorsAreToldApart
<1> QED BY <1>2, <1>4, <1>5, BooksStay

-------------------------------------------------------------------------------
(* Whatever fails, vanishes or is slow: a pass runs once and for somebody, *)
(* and the error that is told is the one that happened.                    *)
THEOREM ProbeKeepsBooks == ProbeSpec => []Books
<1>1. ProbeInit => Books
  BY BooksOpen
<1>2. ProbeIInv /\ ProbeIInv' /\ Books /\ [Next]_vars => Books'
  <2> SUFFICES ASSUME ProbeIInv, ProbeIInv', Books, [Next]_vars PROVE Books'
    OBVIOUS
  <2>1. CASE ReadSnapshot \/ LooksLikeJson \/ OpenSession
    BY <2>1, BooksBeforeTheHeader
  <2>2. CASE ResolveSbrSignaling \/ OpenForSbr \/ DecodeForSbr \/ HeaderRead
    BY <2>2, BooksOverTheStreams
  <2>3. CASE StartSweep \/ EndSweep \/ RunFusedPass \/ RunScanner
    BY <2>3, BooksOverThePasses
  <2>4. CASE PassesDone \/ Analyze
    BY <2>4, BooksAfterThePasses
  <2>5. CASE ReprobeTsDeclaredDurations \/ JoinContainerDts
    BY <2>5, BooksOverTheWraps
  <2>6. CASE Warn \/ Stick \/ BudgetElapses \/ Vanish \/ Rest \/ UNCHANGED vars
    BY <2>6, BooksBesidesTheProgram
  <2> QED BY <2>1, <2>2, <2>3, <2>4, <2>5, <2>6 DEF Next, Program
<1> QED BY <1>1, <1>2, ProbeInvariant, PTL DEF ProbeSpec

(* An analyzer that runs finds all it reads, and every pass it reads ran   *)
(* once.                                                                   *)
LEMMA AnalyzersAreAnswered == Books => PassesAnswerTheirAnalyzers
<1> SUFFICES ASSUME Books, outcome = "fingerprint" PROVE PassesAnswerTheirAnalyzers
  BY DEF PassesAnswerTheirAnalyzers
<1>1. PassesAreKept /\ Remaining = {} /\ probe.errors = {}
  BY DEF Books, PassesAreKept
<1>2. Range(probe.ran) = UnionPasses /\ probe.results = UnionPasses
  BY <1>1 DEF PassesAreKept, Remaining
<1>3. \A a \in Applicable : a.requires \subseteq UnionPasses \cup (IF content THEN {} ELSE {"audio_decode"})
  BY DEF UnionPasses
<1>4. ~content => "audio_decode" \notin UnionPasses
  BY DEF UnionPasses
<1>5. \A p \in UnionPasses \ {"demux_header", "packet_scan", "ts_scan"} : \E a \in Applicable : p \in a.requires
  BY DEF UnionPasses
<1> QED BY <1>1, <1>2, <1>3, <1>4, <1>5 DEF PassesAnswerTheirAnalyzers, PassesAreKept

(* A duration or a decoding time that is declared was established.         *)
LEMMA WrapsStayHidden == Books => NothingOfAWrapIsDeclared
<1> SUFFICES ASSUME Books, outcome = "fingerprint" PROVE NothingOfAWrapIsDeclared
  BY DEF NothingOfAWrapIsDeclared
<1>1. /\ WrapsSeen => probe.durations # "demuxer"
      /\ probe.durations = "reprobed" => file.same_layout \/ probe.hurried \cap {"open", "reprobe"} # {}
      /\ probe.dts = JoinedDts
  BY DEF Books, WrapsAreSettled, OpenPressed
<1>2. \A s : /\ DtsSource(s) # "demuxer"
             /\ DtsSource(s) = "container_pes" => (file.scan_complete \/ ~s.beyond) /\ s.joins
  BY DEF DtsSource
<1>3. DOMAIN probe.dts = DOMAIN probe.streams
  BY <1>1 DEF JoinedDts
<1>4. ASSUME NEW i \in DOMAIN probe.dts
      PROVE  /\ probe.dts[i] = "container_pes" => (file.scan_complete \/ ~file.streams[i].beyond) /\ file.streams[i].joins
             /\ "packet_scan" \in probe.results => (file.family = "ts" <=> probe.dts[i] # "demuxer")
  <2>1. probe.dts[i] = IF file.family = "ts" /\ "packet_scan" \in probe.results THEN DtsSource(file.streams[i])
                       ELSE "demuxer"
    BY <1>1, <1>3 DEF JoinedDts
  <2> QED BY <1>2, <2>1
<1> QED BY <1>1, <1>4 DEF NothingOfAWrapIsDeclared, WrapsSeen

(* All that is promised of a fingerprint: whatever libav does, whenever    *)
(* the clock runs out and whoever deletes the file, its analyzers found    *)
(* what they read, the clock has marked at most what a hurried header says *)
(* and a wrap nothing, the warnings are the header's and an error is the   *)
(* one that happened.                                                      *)
THEOREM ProbeIsSound == ProbeSpec => []ProbeInv
<1>1. Books => TypeOK /\ PassesAnswerTheirAnalyzers /\ NothingOfAWrapIsDeclared /\ ErrorsAreToldApart
  BY AnalyzersAreAnswered, WrapsStayHidden DEF Books, FailuresAreFounded
<1>2. Books /\ WarningsAreTheHeaders /\ ClockMarksOnlyTheHurried => ProbeInv
  BY <1>1 DEF ProbeInv
<1> QED BY <1>2, ProbeKeepsBooks, ProbeUnmarked, PTL

===============================================================================
