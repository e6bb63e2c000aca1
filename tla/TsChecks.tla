------------------------------ MODULE TsChecks ------------------------------
(***************************************************************************)
(* The container.ts checks (analyzers/container/ts.cpp): what a finished   *)
(* scan is reported as.  A measurement is [check, scope, value], with the  *)
(* program number for a scope and a ratio for a value, or [check, scope,   *)
(* skip].                                                                  *)
(***************************************************************************)
EXTENDS TsScan

Global == "global"
Measured(check, scope, num, den) == [check |-> check, scope |-> scope, value |-> <<num, den>>]
Skipped(check, scope, reason) == [check |-> check, scope |-> scope, skip |-> reason]

AllTsChecks == {"cc_errors", "cc_discontinuities", "pcr_interval", "psi_interval", "pmt_version_churn", "null_ratio"}

\* Bytes that pass at an estimated rate, in milliseconds.
BytesToMs(bytes, rate) ==
    IF bytes <= 0 THEN None ELSE (bytes * 1000 * rate.den) \div rate.num

\* The longest gap between neighbouring offsets, or None: a maximum of all of
\* them or nothing.
MaxIntervalMs(offsets, rate) ==
    LET gaps == {BytesToMs(offsets[i] - offsets[i - 1], rate) : i \in 2 .. Len(offsets)} IN
    IF gaps = {} \/ None \in gaps THEN None ELSE Max(gaps)

SamplesOf(program) == SelectSeq(pcr_samples, LAMBDA sample : sample.pid = program.pcr_pid)
\* Fault: the rate is estimated from the samples of the file as they come.
ProgramRateOfFile(program) == RateOf(pcr_samples)
\* The rate by the program's own clock, else by any neighbouring pair.
ProgramRate(program) ==
    LET own == RateOf(SamplesOf(program)) IN IF own = NoRate THEN RateOf(pcr_samples) ELSE own

Offsets(samples) == [i \in DOMAIN samples |-> samples[i].offset]

PcrInterval(program) ==
    LET rate == ProgramRate(program)
        longest == IF rate = NoRate THEN None ELSE MaxIntervalMs(Offsets(SamplesOf(program)), rate)
    IN IF program.pcr_pid = None \/ longest = None
       THEN Skipped("pcr_interval", program.number, "insufficient_data")
       ELSE Measured("pcr_interval", program.number, longest, 1)

PsiInterval(program) ==
    LET rate == ProgramRate(program)
        longest == IF rate = NoRate THEN {}
                   ELSE {MaxIntervalMs(pat_offsets, rate), MaxIntervalMs(program.pmt_offsets, rate)} \ {None}
    IN IF longest = {} THEN Skipped("psi_interval", program.number, "insufficient_data")
       ELSE Measured("psi_interval", program.number, Max(longest), 1)

CcErrors == SumFunction([pid \in Pids |-> pids[pid].counts.errors])
CcDiscontinuities == SumFunction([pid \in Pids |-> pids[pid].counts.discontinuities])

DirectlyMeasured ==
    {Measured("cc_errors", Global, CcErrors, 1),
     Measured("cc_discontinuities", Global, CcDiscontinuities, 1),
     IF tally.total = 0 THEN Skipped("null_ratio", Global, "insufficient_data")
     ELSE Measured("null_ratio", Global, tally.null, tally.total)}

\* run_ts: a walk that did not complete is reported as nothing but that.
TsMeasurements ==
    IF phase # "complete" THEN {Skipped(check, Global, "unparsed_mechanism") : check \in AllTsChecks}
    ELSE DirectlyMeasured \union
         UNION {{PcrInterval(program), PsiInterval(program),
                 Measured("pmt_version_churn", program.number, program.version_changes, 1)} :
                program \in Range(programs)}
=============================================================================
