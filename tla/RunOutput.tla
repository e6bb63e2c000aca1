------------------------------- MODULE RunOutput -------------------------------
(***************************************************************************)
(* The end of a compare or dir run: the terminal report or the JSON one,   *)
(* then one file per --report, in the order of the command line, and the   *)
(* process exit.  A destination that cannot be opened or written ends the  *)
(* run at once with kExitUsage; what was written before stays.  stdout is  *)
(* written with an unchecked fwrite.  An exception of the rendering code   *)
(* reaches main's catch.  A definition introduced by "Fault:" is a seeded  *)
(* bug of the one after it.                                                *)
(***************************************************************************)
EXTENDS ReportModel

VARIABLES phase,    \* where the command is
          request,  \* [json, quiet, strict, reports]: the command line, fixed
          out,      \* what became of each destination so far, in order
          exit      \* [code, from]: the exit code, and what ended the process

outVars == <<phase, request, out, exit>>

Requests(maxReports) ==
  [json : {"none", "stdout", "file"}, quiet : BOOLEAN, strict : BOOLEAN, reports : 0..maxReports]

\* Any command line, however many reports it asks for.
CommandLine == [json : {"none", "stdout", "file"}, quiet : BOOLEAN, strict : BOOLEAN, reports : Nat]

NotYet == [code |-> -1, from |-> "running"]

\* The destinations of a run in the order in which they are written.
Destinations(r) ==
  (CASE r.json = "none" -> IF r.quiet THEN <<>> ELSE <<"stdout">>
     [] OTHER -> <<r.json>>)
  \o [k \in 1..r.reports |-> "file"]

Leave(code, from) == /\ phase' = "over"
                     /\ exit' = [code |-> code, from |-> from]
                     /\ UNCHANGED request

\* An error of the given kind reported before any output.
Refuse(kind, from) == Leave(ExitCodeFor(kind), from) /\ UNCHANGED out

Current == Destinations(request)[Len(out) + 1]

EmitStdout ==
  /\ phase = "output"
  /\ Len(out) < Len(Destinations(request))
  /\ Current = "stdout"
  /\ \E fate \in {"complete", "short"} : out' = Append(out, fate)
  /\ UNCHANGED <<phase, request, exit>>

\* Fault: the result of write_report_file is not looked at.
WriteFileUnchecked ==
  /\ phase = "output"
  /\ Len(out) < Len(Destinations(request))
  /\ Current = "file"
  /\ \E fate \in {"complete", "unopened", "short"} : out' = Append(out, fate)
  /\ UNCHANGED <<phase, request, exit>>

WriteFile ==
  /\ phase = "output"
  /\ Len(out) < Len(Destinations(request))
  /\ Current = "file"
  /\ \/ /\ out' = Append(out, "complete")
        /\ UNCHANGED <<phase, request, exit>>
     \/ /\ \E fate \in {"unopened", "short"} : out' = Append(out, fate)
        /\ Leave(ExitUsage, "write")

RenderThrows ==
  /\ phase = "output"
  /\ Leave(ExitInternal, "exception")
  /\ UNCHANGED out

\* Everything is written: the verdict is the exit code.
Conclude(code) ==
  /\ phase = "output"
  /\ Len(out) = Len(Destinations(request))
  /\ Leave(code, "verdict")
  /\ UNCHANGED out

Write == EmitStdout \/ WriteFile

-------------------------------------------------------------------------------
\* A verdict is never given while a report file that was asked for is missing or
\* cut short: a script that reads exit < 64 finds every file.
VerdictMeansReportsWritten ==
  exit.from = "verdict" =>
    \A k \in DOMAIN Destinations(request) :
      Destinations(request)[k] = "file" => out[k] = "complete"

\* The strengthening that makes it inductive: at any moment every report file so far
\* is whole, unless it is the one that ended the run.
OutputInv ==
  /\ request \in CommandLine
  /\ out \in Seq({"complete", "short", "unopened"})
  /\ Len(out) <= Len(Destinations(request))
  /\ exit.from # "write" =>
       \A k \in DOMAIN out : Destinations(request)[k] = "file" => out[k] = "complete"
  /\ exit.from = "verdict" => Len(out) = Len(Destinations(request))
  /\ phase # "over" => exit = NotYet
===============================================================================
