----------------------------- MODULE SnapshotFile -----------------------------
(***************************************************************************)
(* `mediadiff snapshot`: cli/commands/snapshot.cpp (the overwrite gate) and *)
(* core/snapshot.cpp write_snapshot (temporary file, then rename), by any  *)
(* number of processes that write to one output path.                      *)
(*                                                                         *)
(* The file system has two names that matter, the target and target.tmp,   *)
(* each bound to an inode or to nothing; a process holds the inode it      *)
(* opened, whatever its name becomes.  A document of process p is a        *)
(* sequence of DocLength[p] blocks, each standing for one write(2) and     *)
(* told apart by who wrote it.  A process can be killed between any two    *)
(* steps and be run again.  A definition introduced by "Fault:" is a       *)
(* seeded bug of the one after it.                                         *)
(***************************************************************************)
EXTENDS Integers, Sequences

CONSTANTS Processes,      \* the invocations of `mediadiff snapshot`
          Earlier,        \* the author of the document that may be there already
          DocLength,      \* blocks in an author's document
          Inodes,         \* inodes the file system has to give
          None            \* no inode, no code yet, a block never written

Authors == Processes \cup {Earlier}

ExitClean == 0
ExitUsage == 64
ExitInput == 65
ExitCodes == {ExitClean, ExitUsage, ExitInput}

ASSUME SnapshotAssumption ==
  /\ Earlier \notin Processes
  /\ DocLength \in [Authors -> Nat \ {0}]
  /\ None \notin Authors \cup Inodes \cup ExitCodes

Document(a) == [k \in 1..DocLength[a] |-> a]
Documents == {Document(a) : a \in Authors}

VARIABLES names,     \* names[n]: the inode the name n is bound to, or None
          content,   \* content[i]: the blocks of inode i
          pc,        \* pc[p]: the next step of process p
          handle,    \* handle[p]: the inode p has open, or None
          offset,    \* offset[p]: blocks p has written
          given,     \* given[p]: the circumstances that this run of p finds
          code,      \* code[p]: its exit code
          replaced,  \* replaced[p]: its rename replaced a file that was there
          ignored    \* ignored[p]: what this run could not do and told no one of

SnapshotVars == <<names, content, pc, handle, offset, given, code, replaced, ignored>>

Target == "target"
Tmp == "tmp"

\* --force is given, CI=true is in the environment, git tracks the target.
Circumstances == {"force", "CI", "tracked"}
\* The target cannot be opened for reading, git gives no answer, remove fails.
Ignorable == {"target", "git", "removal"}

SnapshotInit ==
  /\ \E i \in Inodes, there \in BOOLEAN :
       /\ names = [n \in {Target, Tmp} |-> IF n = Target /\ there THEN i ELSE None]
       /\ content = [j \in Inodes |-> IF j = i /\ there THEN Document(Earlier) ELSE <<>>]
  /\ pc = [p \in Processes |-> "probe"]
  /\ handle = [p \in Processes |-> None]
  /\ offset = [p \in Processes |-> 0]
  /\ given \in [Processes -> SUBSET Circumstances]
  /\ code = [p \in Processes |-> None]
  /\ replaced = [p \in Processes |-> FALSE]
  /\ ignored = [p \in Processes |-> {}]

-------------------------------------------------------------------------------
Goto(p, step) == pc' = [pc EXCEPT ![p] = step]
Exit(p, c) == Goto(p, "over") /\ code' = [code EXCEPT ![p] = c]

\* The settings and fingerprint_input: any of them may refuse.
Probe(p) ==
  /\ pc[p] = "probe"
  /\ \/ Goto(p, "gate") /\ UNCHANGED code
     \/ \E c \in {ExitUsage, ExitInput} : Exit(p, c)
  /\ UNCHANGED <<names, content, handle, offset, replaced, given, ignored>>

\* Fault: --force is not asked for.
GateOpen(p) ==
  /\ pc[p] = "gate"
  /\ Goto(p, "open")
  /\ UNCHANGED <<names, content, handle, offset, code, replaced, given, ignored>>

\* CI=true is looked at first; git has a say only when it can be run.
Refuses(p, opens, answers) ==
  /\ opens /\ "force" \notin given[p]
  /\ "CI" \in given[p] \/ ("tracked" \in given[p] /\ answers)

\* write_snapshot_gated: nothing has been written yet when it refuses.  A target that
\* cannot be opened for reading passes for absent, and without git for untracked.
Gate(p) ==
  /\ pc[p] = "gate"
  /\ \E opens, answers \in BOOLEAN :
       /\ opens => names[Target] # None
       /\ IF Refuses(p, opens, answers)
            THEN Exit(p, ExitUsage)
            ELSE Goto(p, "open") /\ UNCHANGED code
       /\ ignored' = [ignored EXCEPT ![p] =
                        {c \in {"target", "git"} : IF c = "target" THEN names[Target] # None /\ ~opens
                                                                  ELSE ~answers}]
  /\ UNCHANGED <<names, content, handle, offset, replaced, given>>

Unused == {i \in Inodes : (\A n \in DOMAIN names : names[n] # i)
                          /\ (\A p \in Processes : handle[p] # i)}

\* Fault: the document is written to the target itself.
OpenTarget(p) ==
  /\ pc[p] = "open"
  /\ \E i \in Inodes :
       /\ IF names[Target] # None THEN i = names[Target] ELSE i \in Unused
       /\ names' = [names EXCEPT ![Target] = i]
       /\ content' = [content EXCEPT ![i] = <<>>]
       /\ handle' = [handle EXCEPT ![p] = i]
  /\ offset' = [offset EXCEPT ![p] = 0]
  /\ Goto(p, "write")
  /\ UNCHANGED <<code, replaced, given, ignored>>

\* fopen(tmp, "wb"): the file that is there is emptied, or a new one made.
OpenTmp(p) ==
  /\ pc[p] = "open"
  /\ \E i \in Inodes :
       /\ IF names[Tmp] # None THEN i = names[Tmp] ELSE i \in Unused
       /\ names' = [names EXCEPT ![Tmp] = i]
       /\ content' = [content EXCEPT ![i] = <<>>]
       /\ handle' = [handle EXCEPT ![p] = i]
  /\ offset' = [offset EXCEPT ![p] = 0]
  /\ Goto(p, "write")
  /\ UNCHANGED <<code, replaced, given, ignored>>

OpenFails(p) ==
  /\ pc[p] = "open"
  /\ Exit(p, ExitInput)
  /\ UNCHANGED <<names, content, handle, offset, replaced, given, ignored>>

\* blocks with position at overwritten, or appended after a hole of None.
Put(blocks, at, author) ==
  [k \in 1..(IF Len(blocks) < at THEN at ELSE Len(blocks)) |->
     IF k = at THEN author ELSE IF k <= Len(blocks) THEN blocks[k] ELSE None]

\* One block of fwrite or fflush reaches the file, at the writer's own offset.
WriteBlock(p) ==
  /\ pc[p] = "write"
  /\ offset[p] < DocLength[p]
  /\ content' = [content EXCEPT ![handle[p]] = Put(@, offset[p] + 1, p)]
  /\ offset' = [offset EXCEPT ![p] = @ + 1]
  /\ UNCHANGED <<names, pc, handle, code, replaced, given, ignored>>

\* Everything is written: fclose, and on to the rename.
CloseTmp(p) ==
  /\ pc[p] = "write"
  /\ offset[p] = DocLength[p]
  /\ handle' = [handle EXCEPT ![p] = None]
  /\ Goto(p, "rename")
  /\ UNCHANGED <<names, content, offset, code, replaced, given, ignored>>

\* Fault: a short write is not noticed.
WriteFailsUnnoticed(p) ==
  /\ pc[p] = "write"
  /\ offset[p] < DocLength[p]
  /\ handle' = [handle EXCEPT ![p] = None]
  /\ Goto(p, "rename")
  /\ UNCHANGED <<names, content, offset, code, replaced, given, ignored>>

\* A write or the flush fails: fclose, and the temporary is to be removed.
WriteFails(p) ==
  /\ pc[p] = "write"
  /\ handle' = [handle EXCEPT ![p] = None]
  /\ Goto(p, "remove")
  /\ UNCHANGED <<names, content, offset, code, replaced, given, ignored>>

\* rename_replace_utf8: one atomic step of the file system.
Rename(p) ==
  /\ pc[p] = "rename"
  /\ names[Tmp] # None
  /\ names' = [names EXCEPT ![Target] = names[Tmp], ![Tmp] = None]
  /\ replaced' = [replaced EXCEPT ![p] = (names[Target] # None)]
  /\ Exit(p, ExitClean)
  /\ UNCHANGED <<content, handle, offset, given, ignored>>

\* Also when another process has taken the temporary away.
RenameFails(p) ==
  /\ pc[p] = "rename"
  /\ Goto(p, "remove")
  /\ UNCHANGED <<names, content, handle, offset, code, replaced, given, ignored>>

\* Fault: the temporary is left behind.
RemoveNothing(p) ==
  /\ pc[p] = "remove"
  /\ Exit(p, ExitInput)
  /\ UNCHANGED <<names, content, handle, offset, replaced, given, ignored>>

\* Fault: the exit code is that of a finding.
RemoveTmpAsFinding(p) ==
  /\ pc[p] = "remove"
  /\ names' = [names EXCEPT ![Tmp] = None]
  /\ Exit(p, 1)
  /\ UNCHANGED <<content, handle, offset, replaced, given, ignored>>

\* The result of std::remove is not looked at: the temporary may stay.
RemoveTmp(p) ==
  /\ pc[p] = "remove"
  /\ \/ names' = [names EXCEPT ![Tmp] = None] /\ UNCHANGED ignored
     \/ UNCHANGED names /\ ignored' = [ignored EXCEPT ![p] = @ \cup {"removal"}]
  /\ Exit(p, ExitInput)
  /\ UNCHANGED <<content, handle, offset, replaced, given>>

\* The process is killed between two steps: the system closes what it had open.
Killed(p) ==
  /\ pc[p] # "over"
  /\ Goto(p, "over")
  /\ handle' = [handle EXCEPT ![p] = None]
  /\ UNCHANGED <<names, content, offset, code, replaced, given, ignored>>

\* The command is given again.
Again(p) ==
  /\ pc[p] = "over"
  /\ Goto(p, "probe")
  /\ offset' = [offset EXCEPT ![p] = 0]
  /\ code' = [code EXCEPT ![p] = None]
  /\ replaced' = [replaced EXCEPT ![p] = FALSE]
  /\ ignored' = [ignored EXCEPT ![p] = {}]
  /\ \E now \in SUBSET Circumstances : given' = [given EXCEPT ![p] = now]
  /\ UNCHANGED <<names, content, handle>>

WriteSnapshot(p) == OpenTmp(p) \/ OpenFails(p) \/ WriteBlock(p) \/ CloseTmp(p) \/ WriteFails(p)
                    \/ Rename(p) \/ RenameFails(p) \/ RemoveTmp(p)

SnapshotNext == \E p \in Processes :
                  Probe(p) \/ Gate(p) \/ WriteSnapshot(p) \/ Killed(p) \/ Again(p)

SnapshotSpec == SnapshotInit /\ [][SnapshotNext]_SnapshotVars

-------------------------------------------------------------------------------
(* Properties.                                                             *)
SnapshotTypeOK ==
  /\ names \in [{Target, Tmp} -> Inodes \cup {None}]
  /\ \A i \in Inodes : content[i] \in Seq(Authors \cup {None})
  /\ pc \in [Processes -> {"probe", "gate", "open", "write", "rename", "remove", "over"}]
  /\ handle \in [Processes -> Inodes \cup {None}]
  /\ offset \in [Processes -> Nat]
  /\ code \in [Processes -> {None} \cup ExitCodes]
  /\ given \in [Processes -> SUBSET Circumstances]
  /\ ignored \in [Processes -> SUBSET Ignorable]
  /\ replaced \in [Processes -> BOOLEAN]

\* core/snapshot.cpp: "a concurrent reader never observes a partial document".
TargetIsWhole == names[Target] # None => content[names[Target]] \in Documents

\* Seen from the target path the protocol is one atomic replacement per run,
\* whatever fails and wherever a process is killed.
NoFile == <<"no file">>
TargetValue == IF names[Target] = None THEN NoFile ELSE content[names[Target]]
Promise == INSTANCE AtomicFile WITH Documents <- Documents, Absent <- NoFile, value <- TargetValue
ImplementsAtomicFile == Promise!FileSpec

\* Exit 0 means that this run's document is in place.
CleanMeansInPlace ==
  \A p \in Processes : pc[p] = "over" /\ code[p] = ExitClean =>
    names[Target] # None /\ content[names[Target]] = Document(p)

\* A run that began to write and was not killed leaves no temporary file, not even the
\* one of an earlier run that was, unless std::remove failed (core/snapshot.cpp:420,
\* :424), and then it exits 65: no clean exit leaves one.
NoLitter ==
  \A p \in Processes : pc[p] = "over" /\ code[p] # None /\ offset[p] > 0 =>
    names[Tmp] = None \/ (code[p] = ExitInput /\ "removal" \in ignored[p])

\* What lets a run replace the file that it finds at its target: --force, or that the
\* file could not be read, or, outside of CI, that git does not track it or could not
\* be asked.
MayReplace(p) ==
  \/ "force" \in given[p] \/ "target" \in ignored[p]
  \/ "CI" \notin given[p] /\ ("tracked" \in given[p] => "git" \in ignored[p])

\* cli/commands/snapshot.h: "if out_path exists and force is false and CI=true
\* ... refuses".  Of what the gate looks at before the write this holds at the
\* rename: a readable snapshot is never replaced without --force under CI, nor, when
\* git can be run, is a tracked one.
ProtectedTargetStands == \A p \in Processes : replaced[p] => MayReplace(p)

\* Whatever happens to a run, the names on the disk stand for what it was allowed to
\* do and said that it did.
SnapshotInv == SnapshotTypeOK /\ CleanMeansInPlace /\ NoLitter /\ ProtectedTargetStands
===============================================================================
