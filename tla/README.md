# Formal models of mediadiff

TLA+ models of mediadiff, the TLC runs that check them on small instances and
the theorems about them that TLAPS has proved. All source paths below are
relative to the repository root (the C++ code is under `src/`).

## The system

mediadiff compares media files semantically. A run resolves its settings, probes
one or more files into *fingerprints*, compares two fingerprints into
*findings*, folds the findings into a report and ends with an exit code that a
CI job acts on. Within a process the only concurrency is the worker pool of
`dir`; between processes it is the file system.

```
 main ──► compare ──► fingerprint_input ×2 ──► compare_fingerprints ──► report ──► exit code
      ──► dir ──► dir_pairing ──► WorkerPool ──► one such job per pair ──► rollup ──► report ──► exit code
      ──► snapshot ──► fingerprint_input ──► gate ──► write_snapshot (tmp, rename)
 fingerprint_input ──► orchestrator ──► DemuxSession ──► passes: packet_scan (+ parser, audio decode),
                                              ts_scan, bmff_scan, ebml_scan ──► analyzers ──► Measurements
```

| Part | State it keeps | Operations | What is hard about it | What makes it correct | Modelled in |
|---|---|---|---|---|---|
| `cli/worker_pool` | shared atomic counter, threads, one slot per index | `run_indexed` | interleaving of fetches, throwing jobs, threads that cannot be made, join | each index run exactly once, return only after all | `WorkerPool`, `IndexedRun` |
| `cli/commands/dir` | per-pair `JobOutcome` and findings, settings | register/callback, job lambda, rollup | jobs interleave; errors, partial results and exceptions of some pairs | verdict a function of the files only; pairs isolated; memory shared out | `DirRun` |
| `cli/commands/compare`, `cli/main` | local state of one comparison | `run_compare` by two routes | order of settings, inputs and outputs; exceptions | a verdict vouches for both inputs and all reports | `CompareRun` |
| report writing of both commands | reports written so far | terminal or JSON, then every `--report` | the n-th destination fails | no verdict without all files | `RunOutput` |
| `report/model`, `cli/exit_code` | tallies, worst gating severity | accumulate, combine, sort, filter, map to code | order, hiding, folding of files | totals exact, order canonical, verdict monotone | `Verdict`, `ReportModel` |
| `probe/packet_scan` | per-stream records and marks, byte budget | one sweep | two ceilings and a read error; three consumers of one packet | a marked prefix of each stream, exact budget | `PacketScan` |
| `core/snapshot`, `cli/commands/snapshot` | target and temporary file | gate, write, rename | crash between steps, two processes | target replaced atomically, protected target stands | `SnapshotFile`, `AtomicFile` |
| `probe/orchestrator`, `probe/demux_session` | pass union, interrupt budget, header warnings, the session's context and those of second opens | `fingerprint_input`, `DemuxSession::open` | a medium that stops answering, a budget that expires late, a file that is deleted, failing passes | the clock marks no more than headers read past their budget; an analyzer finds what it reads; every open ends | `Probe` |
| `probe/ts_scan`, `analyzers/container/ts` | stride, per-PID continuity, PAT and PMT, PCR, PES timestamps | one scan, then the join with the packets and seven checks | losses, damage, tables that change or overlap, two strides | every packet read once; counters of a PID its own; tables followed; a timestamp goes to its packet | `TsContinuity`, `TsChannel`, `TsScan`, `TsChecks` |
| `probe/audio_decode` | decoder, digest, loudness and silence detectors per stream | construct, feed, drain, finalize | framing, formats that change in mid-stream, floats no meter takes, a decoder that fails for ever | silences are those heard; what is told is told of the whole stream; errors are bounded | `SilenceDetector`, `AudioDecode`, `AudioSweep` |
| `analyzers/timeline`, `analyzers/cadence` | none between files | unwrap, then one function per check | 33-bit wrap, reordering, durations that lie, checkpoints beside the packets | reports tell of the presentation and not of its epoch | `TimelineAxis`, `TimelineChecks`, `AvSync`, `Timeline` |
| other `analyzers/**` | none between files | one function per check | — | — | the parts that decide about skips: `PacketScan`, `AudioSweep` |
| `cli/dir_pairing` | two sorted listings | walk, merge | depth and entry limits, links | — | not modelled, see below |
| `probe/bmff_scan`, `ebml_scan`, `parser_scan` | parser positions | one scan each | truncated and nested input | — | not modelled, see below |
| `compare/engine`, `core/container_family` | findings so far, keys still to visit | one loop over the pairing keys | one-sided, skipped and mismatched measurements, a migration, an error half way | findings in key order, each key once, nothing missing | `CompareEngine` |
| `compare/*` comparators | none | eight semantics | boundaries of tolerances, estimates, ceilings, nested spans, unequal chains, 64 bits | symmetric where undirected, clean on equal files, ratios and not representations decide | `Comparators`, `ComparePromises` |
| `core/policy`, `core/glob` | per-check severity, tolerance, chain | resolve by layers | precedence of four layers, blocks per path | one precedence on both commands, explained by the chain | `PolicyRules` |
| `core/rational.h`, `core/exact_int.h` | none | exact arithmetic | 64-bit edges | refused or exact, never wrapped | what the timeline asks of it: `TimelineAxis`, `AvSync` |
| `cli/options`, `config/toml_load` | none | argument and file values | precedence | — | error exits only |
| renderers, serializer, inspect/explain/list | none | text | layout | — | not modelled (layout and wording) |

`PROJECT.json` has the same list with its source files, the definition-to-line
map, and every hazard with the line where it bites.

## Modules

**`IndexedRun`** — the thread-free promise of `worker_pool.h`: indices begin and
end once each, in any order, and the call returns after all of them.
**`WorkerPool`** — `run_indexed` step by step. `caller` is the calling thread's
place, `worker`/`claim` each thread's, `next_index` the atomic counter (and the
loop index of the one-thread form), `job` each index's fate. `Fetch` is one
`fetch_add` and what its result decides; `Finish` the end of a job, by exception
included (`run_one` swallows it); `SpawnFails` the `std::system_error` of
`emplace_back`, which leaves the call when no thread exists and terminates the
process otherwise. `ImplementsIndexedRun` is the refinement.

**`Verdict`** — the vocabulary all others share: severities, statuses, the tally
(`Accumulate`, `CombineSummary`, and `CombineAll` over the files of a corpus),
`ExitCodeFor` and `ExitCodeForFindings`.
**`ReportModel`** — the rest of a report: `BuildReportModel`, `BuildCorpusModel`.
A finding is [check, scope, status, severity]; formatting is left out. The code sorts
the findings of a group (`std::stable_sort`) and then drops the hidden ones;
`GroupBlock` puts each shown finding at its rank, which gives the same list.
**`CorpusReport`** — a corpus that grows by files and findings, the report recomputed
at each step. **`ReportProofs`** proves what a tally is, for all who use it.

**`RunOutput`** — what compare and dir do after the verdict is known; extends
`ReportModel` and is extended by both commands. stdout may come back short and
nobody looks; a report file that cannot be opened or completed ends the run.
`CommandLine` is every request that the options can amount to, and `OutputInv` what
holds of the destinations on the way, the invariant that both commands' proofs use.

**`DirRun`** — composes `WorkerPool` and `RunOutput`. Each job is the chain
policy, baseline, candidate, compare (or policy, presence), a step of the model
each, on the thread that runs it; `JobEnds` is the pool's own `Finish` or
`SequentialFinish`. What a step yields is decided by the variable `world`, fixed
at the start: ok, partial, an error kind, an exception. Settings come first, in
the code's order, each with its error exits. **`DirRunProofs`** has the theorems of
the pool and of `dir`.

**`CompareRun`** — `run_compare`, in the code's order, on both routes (the
subcommand, and two bare operands with every option at its default). `StepsOf` is the
order of the steps, and `Behind` those that the run has taken. **`CompareRunProofs`** has
the theorems about a run and about `CorpusReport`.

**`PacketScan`** — the sweep over a `file` (packets in read order, and where a
read error ends it). `KeepPacket` does everything the loop body does with a
packet that fits: side data, record, access unit (`RecordUnit`, with room of its
own in the budget), audio decoder. What two groups of analyzers ask of a scan is
`SampleHash` (its stream's mark) and `PacketMeasurement` (the mark of the whole).
`Recorded` and `RecordedUnits` tell from the history what was kept, and
`BytesAccountedFor` weighs it.

**`AtomicFile`** — a file as its reader sees it: one whole document, replaced in
one step. **`SnapshotFile`** — processes that write snapshots to one path: the
gate, `fopen(tmp)`, the blocks of the write, close, rename, remove, each of which
can fail, a kill between any two steps, and the next invocation. The gate sees the
target through `fopen` and git through a process: a target that cannot be read counts
as absent, and one that git gives no answer about as untracked; the result of
`std::remove` is not looked at. `given` holds what a run finds (`--force`, CI, tracked)
and `ignored` what it could not do and told no one of. Names are bound
to inodes, so a file renamed while another process writes to it is modelled as
the file system does it.

**`PolicyRules`** — `resolve_policy` and `resolve_policy_for_file`: builtin and
profile values, then `[severity]` and `[tolerance]`, override blocks in file
order, the command line in argument order, with the chain that `-v` prints and
the usage error of a tolerance in another unit. Ids and paths are sequences of
segments, so that both kinds of glob are one operator.
**`Comparators`** — what each of the eight semantics returns for two
measurements. Numbers are exact where the code uses its 256-bit integers and
bounded by `MaxInt` where it checks for overflow (`dist`, `span`, the end delta). Of a list of
spans, `MergeOverflows` and `MatchOverflows` say whether one of the comparisons made on the way
left 64 bits, which makes an error of the whole. A walk over
a histogram or a set takes the names in `Ascending` order, as `std::map` does.
**`CompareEngine`** — `compare_fingerprints`: `remaining` is what the loop has
still to visit, `Visits` the least key of it, and one action stands for each way
out of the loop body (`Demote`, `ProgramOfOneSide`, `PassOver`, `Skip`,
`KindMismatch`, `Judge`, `Abort`). `world` is the input of one comparison.
Messages and evidence are left out, but for what comparators read of the latter.
**`ComparePromises`** — properties of the findings, stated without the operators
that made them: spans by the ticks they cover, divergence by the blocks that
differ, `dir`'s policy by that of `compare`.
**`CompareProofs`** — the theorems about all four.

**`TsContinuity`** — what the scanner keeps of one PID and `ApplyContinuity`, the
whole of `apply_continuity`. **`TsChannel`** — a multiplexer that sends packets with
and without payload, repeats them, announces discontinuities, and a channel that
loses bursts of them, beside the scanner's state; it states what the scanner
promises of any channel, and **`ScanProofs`** proves it, and what is promised of
`PacketScan` and of `SnapshotFile`.
**`TsScan`** — a file grows packet by packet (`ArrivesPat`, `ArrivesPmt`,
`ArrivesPes`, …, or a stretch of damage) and `Scan` is what `ts_scan` makes of it:
stride detection, resynchronisation, sections, continuity, PCR, PES timestamps and
the ceilings on what is kept. A section is one unit that parses or does not.
Each PID's counter is checked to be a `TsChannel` of its own (`EachPidIsAChannel`,
the refinement). **`TsChecks`** — the checks made from a scan: PCR intervals, PMT
intervals, the join of PES timestamps with the demuxer's packets.

**`TimelineAxis`** — exact time: rescaling with its refusals, unwrapping, epochs
between streams, cadence. **`TimelineChecks`** — monotonic order, duplicates, gaps,
jumps and their attribution, starts and durations, jitter. **`AvSync`** — drift: the
checkpoints, where sound and picture are found there, the least-squares line, its
classification, and the skips. **`Timeline`** — the environment: a file as its
multiplexer meant it, on a clock without end, next to the file that is read; every
property is a relation between the two or between what was meant and what is told.
Magnitudes (`Modulus`, thresholds) are scaled, the arithmetic is not. **`TimelineProofs`**
proves what is told of a file.

**`SilenceDetector`** — the two detectors of `audio_decode.cpp`, per sample, with
their hysteresis, windows and the run open at the end. **`AudioDecode`** — one
stream: the choice of a decoder, a frame through its checks to its three sinks, a
decoder's errors and their bound, draining. **`AudioSweep`** — the stream as it is
swept (a frame or an error of libav per step) and what the analyzers of loudness,
silence, content and decode errors tell of it. The loudness meter and the digest are
external: what they are fed stands for what they return. Samples are whole numbers of which
`FloatScale` make full scale: `Hostile` holds the float as it is against the bound,
`NormalizeAmplitude` scales it to 16 bits and clamps it. **`AudioProofs`** proves
what is told of the whole stream.

**`Probe`** — `fingerprint_input`: the union of the passes the registry asks for, the
document or the medium, each open of `DemuxSession` with its interrupt budget
(armed, elapsed, disarmed), how it ends (`OpenEnds`: the code asks for libav's return
code and never for the clock, so that an open which outlasted its budget may go on, with
`HeadersLeft`, what it had come to see, and its place is noted in `hurried`), header warnings from libav's log callback, the fallback
for spectral band replication, the second open for declared durations, the scanners
for the family, the sweep, and the analyzers. The clock and the deletion of the file
are steps of the environment (`BudgetElapses`, `Vanish`), and so is what libav does
while it is called (`Warn`, `Stick`). `Remaining` and `IsNext` say which pass and which
place come next, `ErrorTold` what an outcome says. **`ProbeProofs`** proves the safety
half.

Modules named `MC…` hold the instances TLC runs. In each module a definition
introduced by "Fault:" is a plausible bug of the definition after it, used to
confirm that the properties can fail; no specification uses it.

## Runs

| Run | Question | Instance |
|---|---|---|
| `MCReportModel` | totals, filter, order and code agree with the findings | up to 4 findings in up to 2 files, 7 kinds of finding |
| `MCDirRun` | pool: every index exactly once, return only then; verdict a function of the files, pairs isolated, budget shared, run ends | 2 workers, 3 pairs, each of 9 kinds (a comparison that needs what was not decoded among them); thread creation may fail, jobs may throw |
| `MCDirOutput` | one thread: submission order, a verdict only with all reports | 2 pairs, every `--json/--quiet/--strict`, up to 2 reports |
| `MCCompareRun` | what a verdict of compare vouches for | both routes, inputs whole/partial/unreadable, up to 1 report |
| `MCPacketScan` | marked prefix, exact budget, side data | every file of up to 4 packets over 2 known and 1 unknown stream, or 3 with a read error |
| `MCSnapshotOne` | atomic replacement, gate, nothing left behind that could be removed | one process, killed or failing anywhere, run again; unreadable target, git silent, remove failing |
| `MCCompareEngine` | engine, comparators and policies keep their promises | 6405 comparisons: all pairs of measurements of each semantic, 900 pairs of fingerprints of several checks, 576 policies |
| `MCTsScan` | every packet read once, counters apart, tables followed, timestamps carried, intervals true | every stream of up to 5 units: PAT, PMT of two programs, PES, damage, losses, restarts |
| `MCTimeline` | reports independent of the wrap; gaps are holes; cfr is the grid; announced jumps; origin; drift; least squares | 8 kinds of file, up to 4 or 5 packets a stream, clocks of six bits |
| `MCAudio` | silences are those heard, told of the whole stream, errors bounded | every sequence of frames of the worlds: formats, shapes, magnitudes, errors on send and on receive |
| `MCProbe` | analyzers find what they read, the clock marks hurried headers only, every open ends | documents and media of each family, four registries; libav slow, stuck, interrupted or yet successful at any open, file deleted at any time |
| `MCToleranceIgnored` *(violated)* | the resolved tolerance is the one that judges | the 576 policies |

Why the bounds are enough. The pool, checked as part of `dir`: with more indices
than threads a worker returns for another index while the other runs; the
theorems cover every other number of threads and indices. `DirRun`: a hard error,
a partial result, an exception and a clean pair can meet in any order in three
slots, and two workers realise every completion order of them; the rollup looks
at the least index of a kind and at existence, so a fourth pair adds no new case.
`PacketScan`: three records fit the budget and two packets a stream's ceiling, so
with four packets each limit can bind first, on either stream, and another packet
still follows. `SnapshotFile`: the document has two blocks, so that a file can be
half written; the earlier one has one block, so a shorter file could not hide the
tail of a longer one. `MCReportModel`: four findings allow two of one check and
scope, a hidden one between two shown ones and an empty second file.
`MCCompareEngine`: the numbers lie on, just inside and just outside every
threshold of the registry (relative and absolute, one and two thresholds, with
the factor of an estimate and without), sizes of zero included; spans touch,
nest, overlap and are a tick apart; chains have up to three blocks, which allows
a divergent run in the middle, at the end and past the end; fingerprints come
from two families, one or none, in both orders, with a key that occurs twice; a
comparison never depends on another, so more checks at a time add none. Some spans end
at `MaxInt` or where their product with the timebase passes it.
`MCTsScan`: five units let a table come, be used by two PES and be replaced, and a
loss fall between any two of them; `Pids` holds the null PID, PAT, two PMTs (one of
which may be moved) and two elementary streams, `Bursts` {14} is the longest loss a
4-bit counter can tell from a repetition, `StrideConfirmCount` 2 and the ceilings
(1 discontinuity offset a PID, 3 records) are the code's, scaled so that each is met
and passed. `MCTimeline`: `Modulus` 64 puts the wrap within reach of two packets, and
the holes lie on both sides of half of it and of `DiscontinuityMs`; a third packet is
needed for a gap behind a reordered pair, a fourth for a wrap before and a jump after
it; four checkpoints with five packets fall into packets, between them and past the
last. `MCAudio`: hysteresis and window are 100 ms of a few samples each, so that a
silence is shorter than, as long as and longer than both; two errors reach the limit.
`MCTimeline`'s sound for the drift has packets
of 2, 3 and 7 ms beside pictures of 4 ms, with and without priming, whole and with holes. `MCAudio`'s floats lie
below full scale, between it and the bound, on the bound and just beyond it (`FloatScale` is 32768; the bound is a
little less than the code's 32768, as TLC counts in 32 bits).
`MCProbe`: one warning suffices, as a context's warnings are kept or dropped together; the
packet that decides about spectral band replication is the last that is looked at or the
one after (depth 63 or 64), and two streams are enough for one to be read hurriedly and
the other not.

Bounds by name: `MaxInt` (`INT64_MAX`, scaled), `EndDeltaEpsilon`,
`CeilingDeadband`, `EstimatedFactor` (the code's constants),
`SpanTimebase` (milliseconds, their 1000 scaled to 2), `MaxMeasurableFloatSampleMagnitude`, `JobCount`, `ThreadCount` (instances of the code's parameters),
`MaxFindings`, `MaxFiles`, `MaxLength` (length of the files tried), `MaxBytes`,
`MaxPackets` (the code's own limits, scaled down), `Inodes` (two suffice for
the target and the temporary of one process), `Budget`,
`MaxArrivals`, `MaxPackets`, `MaxTables` (units of a transport stream),
`WrapPackets`, `ReadPackets`, `SoundPackets` (packets of a file), `PesBytes` (a packet's
size), `Moments` (no time comes within a turn of the clock of the end of 64 bits),
`MaxWarnings`;
`StrideConfirmCount`, `MaxDiscontinuityOffsetsPerPid`,
`MaxPesTimestampRecordsTotal`, `MaxAudioDecodeErrorsPerStream`, `Modulus`,
`Checkpoints` and the thresholds in ms and dB are the code's constants, scaled.

`MCProbe` checks for deadlock (its end is a stutter, `Rest`). In the other runs that
check is off because every process modelled ends, or a file is at most as long as the
bound says; `RunEnds` says that `dir` ends properly instead of standing still.

## Fairness

Liveness is stated of `dir` (`RunEnds`), the pool included. It assumes weak
fairness of each thread: a thread that can take its next step takes it. That
is what a preemptive scheduler gives, and nothing in the pool or in a job waits for
anything but the join, which waits for threads that are themselves fair. Which of
its steps a thread takes (success or failure) is left open. Nothing is assumed of
exceptions raised while rendering (`OutputThrows`), nor is the pool assumed to be
able to make its threads. A probe that never returns is excluded by this
assumption.

`ProbeEnds` says that a probe returns, whatever libav does while it reads a header.
It assumes weak fairness of the program's own steps and of the clock of an armed
budget, which is a fact about time; nothing is assumed of a call of libav under an
armed budget but that it polls its interrupt callback. After the header the budget is
disarmed (`demux_session.cpp:250`) and a read that hangs is bounded by nothing: there
the property takes for granted that reads return.

## Proofs

Eight modules hold the theorems. Each theorem is of a specification that a run
checks, for every value of its constants under the assumptions named; each invariant
that had to be strengthened was a property of a run before it was proved. `PROJECT.json`
lists the theorems with the properties they state.

**Tallies and destinations** (`ReportProofs`; no assumption).

- `SummaryIsTally`, `TotalsAreTally`: for findings and files of any number the counts
  are those of the findings of each status, and the worst severity that of the worst
  finding that gates. A fold over a sequence is a recursive function here: what it
  computes is proved by induction on prefixes (`IsTally`, `IsTotal`), and the principle of
  induction, `SetInduction`, follows from the well-foundedness of < on Nat.
- The lemmas on `OutputInv` that `dir` and `compare` share.

**The report of a corpus** (`CompareRunProofs`; `SamplesAssumption`: the findings have
the fields of a finding; registry, groups and the number of files and findings are any).

- `ReportShowsAll`: `Spec => []ReportIsWhole`. That a position has one rank and a rank one
  position is the heart of it (`RankIsPlace`): ranks count the positions that come before,
  so they are distinct and fill 1..n, and a list is a bijection of its shown findings.
- `TotalsCountAll`: `Spec => []TotalsCountEverything`, the tallies of the files carried
  over to the places of the findings in the corpus (`WorstIsWorst`, `CountsAreCounts`).
- `VerdictOnlyHardens`: `Spec => VerdictNeverImproves`, an action property, from the
  former: a worst finding that gates stays a place of the longer corpus.

**The pool and `dir`** (`DirRunProofs`; `PoolAssumption`: both parameters are natural
numbers; `DirAssumption`: so is the budget, and a pair of a world yields one of the outcomes
the code has).

- `PoolInvariant`: `PoolSpec => []PoolInv`. Neither "all done at return" nor "no two
  workers on one index" is inductive: the first needs that a worker exits only when the
  counter has passed the list, that a running job has a worker and that one thread has
  done all below the counter (`ThreadLives`); the second that an index at or above the
  counter is still pending (`HandedOut`, `RunningIsClaimed`).
- `PoolAllRan`, `PoolExclusive`, `PoolSubmissionOrder`: from it. `PoolNeverRunTwice` is an
  action property.
- `PoolRefines`: `PoolSpec => ImplementsIndexedRun`; every step of the pool maps to
  `Begin`, `End`, `Return`, `Abandon` or a stutter under `CallState`.
- `DirInvariant`, `DirKeepsPairsApart`: `DirSpec => []DirInv`. A job's place says what its
  files have yielded so far (`BehindIsFine`); a step of one job leaves the places and slots
  of the others alone as an index has one claim; the scans under way fit the budget since
  there are no more of them than threads.
- `DirRunsThePool`: `DirSpec => PoolSpec /\ ImplementsIndexedRun`.
- `DirWritesReports`: `DirSpec => []VerdictMeansReportsWritten`.
- `DirVerdictIgnoresSchedule`: `DirSpec => []VerdictIgnoresSchedule`. The rollup reads slots
  only when all pairs are through (`RollupFollowsPool`), so that each holds what its files
  determine; the fold over the slots in pairing order is `TotalsAreTally`, and the first
  hard error in that order is unique.

**`compare`** (`CompareRunProofs`; `CompareAssumption`: requests are command lines, and a
world's files and comparison yield one of the code's outcomes).

- `CompareInvariant`: `CompareSpec => []CompareInv`. What a verdict vouches for is
  inductive only with the steps behind the run: each of them went well (`BehindIsRead`), and
  the stage tells which they are (`StageOfRun`).
- `CompareWritesReports`: `CompareSpec => []VerdictMeansReportsWritten`.

**Engine, comparators, policies** (`CompareProofs`). The registry is an array of checks
with one of the eight semantics (`RegistryAssumption`); measurements are of registered
checks (`WorldsAssumption`; analyzers name checks by `CheckId` and `read_snapshot` refuses
ids it does not know). `PromisesAssumption` says what a measurement, a tolerance and a
configuration can be: denominators are positive, tolerances are not negative, the factor of
an estimate is at least one, the deadband of a ceiling a fraction, no span is empty, a histogram holds counts, a chain is a
sequence of blocks, the check of the hash semantic measures a chain or skips, and
severities are of the four words. Spans end within 64 bits (`EndsFit`).

- `EngineOrdered`: `EngineSpec => []EngineInv`. That findings are in order is inductive only
  together with `LoopIsPastFindings`: every finding's key is before all the keys that
  remain. `EachKeyOnce` follows, as the order of keys is irreflexive.
- `EngineComplete`: `EngineSpec => []NothingUnaccounted`.
- `PromisesInvariant`: every finding on two comparable measurements is what the comparator
  says of them, for the severity that the finding carries, and says no error unless the
  comparator does (`ReportedAsCompared`). The next six rest on it.
- `EstimatesLenient`: `EngineSpec => []EstimatesAreJudgedLeniently`, through `WithinWidens`
  (a wider band holds all that a narrower one does) and `TolEstimated` (basis, ceiling and
  end-delta gate do not look at the estimate).
- `DifferencesUndirected`: `EngineSpec => []DifferencesHaveNoDirection`. For tol the absolute
  band is symmetric in exact arithmetic; for dist each bin's difference changes its sign
  only, and the first bin that overflows is the first either way.
- `RatiosAreJudged`: `EngineSpec => []RatiosDecide`. For tol a fraction of twice its terms
  doubles both sides of each product that decides (`WithinDoubles`, `ZoneDoubles`,
  `CeilingDoubles`). For dist the bin with the largest quotient has the largest difference
  over the one denominator of both totals (`WorstIsGreatest`), so a histogram passes exactly
  when no bin's share differs by more than the tolerance (`ProportionsDecide`), and
  the total of doubled counts is twice the total (`TotalDoubles`). `ProductsFit`
  says where this holds: beyond it the code reports an error (Differences, below).
- `SelfClean`: `EngineSpec => []SelfComparisonIsClean`. A file against itself passes every
  comparison that is not of flags or of what the transform profile expects; for spans since a
  non-empty span meets itself whatever it is merged into, for dist as long as the
  products of counts stay in 64 bits. `CountsFit` is this last condition, and that no tick
  overflows the one for spans: beyond them the code reports an error, also for a file against
  itself (Differences, below).
- `StretchesExact`: `EngineSpec => []StretchesAreExact`. For spans: `MergedUpTo` holds after
  each span of the sorted list. The merged spans contain the spans so far, cover no other tick
  but holes of one tick, and have more than a tick between any two (`Separated`), which needs
  that what is still to come begins no earlier. Separated spans are the stretches of the
  covered time (`EndIsFree`), so two stretches share a tick where two merged spans overlap
  (`MeetsIsOverlap`). This is where no comparison leaves 64 bits; otherwise the
  finding is an error. For chains: `WalkTells` holds after each block. The blocks so far
  that differ are those of the closed ranges and of the open run, behind all of them; the
  common prefix closes the run and the tail of the longer chain is a range of its own.
- `PolicyExplains`: `EngineSpec => []PolicyIsExplained`. `PoliciesTo(top)` is the set of
  policies whose chains reach up to a layer and explain the severity; each of the four
  layers maps the set of the layer below it into its own. That `dir` and `compare` agree needs
  that rules are tried in one order: a permutation that sorts them exists, by insertion
  (`SortExists`), and `Ascending` is one.

**Probe** (`ProbeProofs`; `ProbeAssumption`: the bound on warnings is a natural number, a
file is a sequence of streams, an analyzer requires passes that exist).

- `ProbeInvariant`: the clock holds no context once its header was read (`ClockLetGo`), the
  report listens to libav exactly while the header is opened (`SessionListensToOpen`), what
  a header knows of a stream is true of it, and all there is unless the open had outlasted
  its budget (`HeaderIsTrue`), and each stream read so far is told of accordingly
  (`StreamsAreRead`). The last needs the first: a read of a second open that the clock could
  end would say "unknown".
- `ProbeUnmarked`: `WarningsAreTheHeaders` and `ClockMarksOnlyTheHurried`.
- `ProbeKeepsBooks`: the passes run so far are asked for, none twice, each with its result
  or its error (`PassesAreKept`), a failure that was noted happened (`FailuresAreFounded`), and
  durations that wrap are not yet believed (`WrapsAreSettled`). No conjunct of `ProbeInv`
  about passes and errors is inductive without them.
- `ProbeIsSound`: `ProbeSpec => []ProbeInv`, from both.

**What is read of a file** (`ScanProofs`). Of the sweep (`ScanAssumption`: a record takes
room, and the files are sequences of packets as `WellFormed` has them):

- `ScanInvariant`: "no hole without a mark" is not inductive: it needs that the records of a
  stream without a mark are all that was delivered of it, and that a mark is never taken
  back (`StreamsFaithful`). The account of bytes is stated of sets of packets, the union over
  the streams of what was kept, so that a step adds one element (`BytesAccountedFor`).
- `ScanRecordsPrefixes`: `ScanSpec => []ScanInv`. `ScanMeasuresWholes`:
  `ScanSpec => []MeasuredMeansWhole`.

Of the continuity counters (`ContinuityAssumption`: no burst is longer than the counter can
show; restarts and the number of packets are any):

- `ContinuityInvariant`: after every packet the scanner's state of a PID is that of the last
  packet sent that arrived. Counting is inductive only together with this.
- `ContinuityCounts`: a burst of losses is one error, a repetition one duplicate, an
  announced discontinuity one discontinuity, and nothing else counts. `MCTsScan` checks the
  scanner to be such a channel for each PID (`EachPidIsAChannel`).

**Decoded audio** (`AudioProofs`; `SweepAssumption`: the bound on errors is a natural number,
the divisor of a block a positive one, frames are sequences of samples of a shape, and
libav's own choice of a decoder is not the fixed-point one of AAC; frames, formats, errors
and lengths of streams are any).

- The state of a stream is the outcome of nested folds. `IterationExists` turns a fold over
  frames into a recursive function and `FlatteningExists` does so for `FlattenSeq`; what
  follows is by induction on prefixes (`FramesCarry`, `FlatOfConcat`, `BlocksAreBytes`: the full
  blocks of some bytes and the rest are those bytes).
- `SweepInvariant`: `SweepSpec => []SweepInv`. A hash that is marked truncated is of the
  first k frames heard for some k, and of all of them while nothing has stopped the stream
  (`Carries`). This is inductive only with the rest: blocks and the bytes that wait make up
  those frames and the rest is shorter than a block (`HashHolds`); the meter was given
  every sample as long as no reason is latched, and none of them is one it cannot take
  (`LevelsHold`); a reason that truncates the hash stops the levels too; a decoder that has
  failed more often than the bound is given up (`Opened`); and after the drain nothing waits
  (`Ended`, `Finalized`).
- `ErrorsBounded`: `SweepSpec => []ErrorsAreBounded`. `WholeIsTold`:
  `SweepSpec => []ToldOfTheWhole`, by the way each analyzer reads the result.

**Timeline** (`TimelineProofs`; `TimelineAssumption`: the modulus is even and below
`MaxInt`; `ShapesAssumption`: what kinds of streams are made; the number of packets, their
times and timebases are any).

- A sort is `Ascending`: ranks are a bijection onto the places (`RankInRange`, `RankGrows`), so
  that neighbours of the sorted list have nothing between them.
- `TheWrapIsInvisible`: `TimelineSpec => []WrapIsInvisible`. The unwrap is a fold, a function of the
  packets read so far: after each the offset is the modulus times the eras passed since
  the first, since a plain step falls by more than half the range where the era changes
  and nowhere else. A stream that begins after the wrap is an epoch late as a whole, and is moved
  for the checks that compare streams (`EpochApart`) and not for the others (`FromFirstEra`).
- `GapsAreHoles`: `TimelineSpec => []GapsAreTheHoles`. Gaps are looked for between neighbours in
  presentation order only, which is where a hole without a packet in it must be.
- `CfrIsTheGrid`: `TimelineSpec => []CfrMeansOnTheGrid`. The code compares doubled
  products, a tie by whether the tick is even (`ConformsToGrid`); that is a distance of at
  most one tick from the place rounded half to even (`ConformsMeansNear`), and below 200
  packets the share of 995 in 1000 is all of them.
- `AnnouncementsAreHeard`: `TimelineSpec => []AnnouncedJumpsAreFlagged`. The bytes of a packet,
  up to the next one, hold its own announcement and no other's.
- `TheOriginIsTheEarliest`: `TimelineSpec => []OriginIsTheEarliest`. The origin is the
  least start by cross products of the timebases, and rounding to milliseconds keeps that order.
- `TheLineIsOfLeastSquares`: `TimelineSpec => []LineIsOfLeastSquares`. The code sums over pairs
  of points, the definition over points: a sum over a finite set does not depend on the order
  and splits (sums over pairs come down to products of totals), a fraction that is reduced keeps its
  ratio (the recursion of Euclid has a solution, by induction on the smaller number),
  and the rest is that each point told is a number.
- `EvenSoundKeepsStep`: `TimelineSpec => []ContinuousAudioDriftsByItsSpan`. Even packets lie on a
  grid, so that a checkpoint's share of the time and its share of the count are within two
  packets of each other, the duration cap: the count never overrides the time. A point in the
  span of continuous packets is covered by one, so that clamping does not move it.

**Snapshots** (`ScanProofs`; `SnapshotAssumption`: a document has at least one
block, and the values that stand for authors, files and exit codes differ from the one for
none), for one writer at a time, documents of any length and any number of runs, failures
and kills. Two writers share a temporary file and can tear it (Differences, below), so the
theorems are not stated of them.

- `SnapshotInvariant`: `SnapshotSpec => []SnapshotInv`, whatever cannot be read, asked or
  removed. It rests on `NamesApart` (no file
  has both names), `TmpIsOwn` (who writes is the one who writes the temporary's file) and
  `PastTheGate` (who passed the gate saw no target or had leave to replace it, `MayReplace`).
- `SnapshotRefines`: `SnapshotSpec => ImplementsAtomicFile`; every step but the rename
  leaves the target's content alone, and the rename puts a whole document there.

The modules have a lemma per action, or per way in which actions treat the
findings, and under it a step per conjunct that it can disturb.

Only model-checked:

- Liveness (`RunEnds`, `ProbeEnds`) and `EachPidIsAChannel`: fairness and ENABLED are out of
  the prover's reach, and the latter is a refinement over sequences that the scan
  computes by recursive operators.
- What is promised of `TsScan` (`EveryPacketIsRead`, `ProgramsFollowTheirTables`,
  `TimestampsAreCarried`, `IntervalsAreTrue`): the scan is a recursive operator over bytes
  whose number no step bounds, and a module that has one is out of the prover's reach.
- `SilenceIsWhatWasHeard` of `AudioSweep`: what the two detectors make of a stream is a fold
  over windows that overlap the frames, against a definition over the samples as a whole;
  the theorems of `AudioSweep` carry the samples but not the windows.

## Differences between code and text

The violated run is a finding; `PROJECT.json` quotes the lines. Others seen while
modelling, for which there is no run:

Commands and comparison:

- A job that throws is swallowed by the pool (`worker_pool.cpp:29`) and leaves its slot
  at its default (`cli/commands/dir.cpp:375`): the pair counts as clean and the run can
  exit 0, where `cli/exit_code.h:4` says that only codes from 64 tell of no verdict.
- `write_snapshot` stores no `partial` key, which `read_snapshot` takes for false
  (`core/snapshot.cpp:356`, `:184`): a partial fingerprint comes back whole, and `compare` on
  the snapshot gives a verdict where `compare` on the media exits 66;
  `claude_docs/00-design-and-requirements.md:162` says that snapshot equivalence holds
  by construction.
- The temporary's name depends on the target alone (`core/snapshot.cpp:409`): with two
  processes one can rename the inode into place while the other still writes to it,
  where `:406` says that a reader never observes a partial document.
- `compare_dist` multiplies |a*B - b*A| by A*B in 64 bits (`dist.cpp:154`): for two files of
  216000 frames a bin that differs by 915 overflows, and the finding becomes an error,
  which gates.

- `exit_code_for_findings` follows the severity of a gating finding and never its
  status, where the comments of `cli/exit_code.h:18-19` speak of `fail`-status
  findings: `size.file` between its two tolerances (status warn, severity fail)
  exits 1, a true peak over its ceiling (status fail, severity warn) exits 0.
- `run_compare` refuses bad `--set`, `--tol`, `--profile` and `--report` values only
  after both inputs were read; `cli/exit_code.h:21` says of code 64 that no input
  was opened.
- Two bare operands reach `run_compare` outside the try block of `main`: an
  exception aborts, where `main.cpp:192` says the form behaves exactly like
  `compare` (`Throws` of `CompareRun`).
- A read error marks the scan as a whole but not its streams, and the sample hash
  asks for its stream's mark only (`analyzers/content/sample_hash.cpp:100`), so it
  hashes a stream whose tail was never read, where `probe/packet_scan.h:165` has
  every dependent check skip. The whole fingerprint is partial then, and `compare`
  gives no verdict on it. `MeasuredMeansWhole` says how far the promise holds.
- `compare` and `inspect` apply every `[override."path"]` block whatever its path
  (`resolve_policy`), `dir` only those that match; `claude_docs/01-core-concepts.md`
  speaks of the latter.
- A measurement of one file only, of no program, leaves no finding (`PassOver`); the
  comment at `compare/engine.cpp:306` calls this a gap.
- With two thresholds the zone alone decides (`ZoneStatus`): a check set to ignore
  can come out with status fail. The exit code follows the severity and is not
  touched by it.
- Spans are merged over a gap of one tick (`span.cpp:60`), whatever the duration of
  a frame is in their timebase.
- `dir` never sets the expectation of the transform profile
  (`cli/commands/compare.cpp:246`).
- A target that exists and cannot be opened for reading counts as absent
  (`cli/commands/snapshot.cpp:67`) and is replaced under CI without `--force`; a tracked one is
  replaced when git cannot be started (`:210`), as the header says. `MayReplace` lists all the
  ways. `std::remove`'s result is not looked at (`core/snapshot.cpp:420`, `:424`): a temporary
  can stay behind a run that exits 65.
- A span that ends at `INT64_MAX`, or whose ends times its timebase leave 64 bits, makes an
  error of the comparison of a file with itself (`span.cpp:88`, `:165`); a snapshot may hold
  one. `std::sort` is then called with an order that is not one; the model takes it to return.
- Two `snapshot` processes can both pass the gate while the target is absent; the
  later one replaces the earlier one's file without `--force`.

Transport streams:

- `ts_scan.cpp:756` says that one lost or reordered packet gives exactly one recorded
  error; a pair read in the wrong order (0, 2, 1, 3) gives three.
- Two programs that share a PMT PID count a version change with every table
  (`ts_scan.h:173`), and a PAT that moves a PMT leaves its earlier owner in place.
- `ts_scan.h:218` calls fields meaningless while `complete` is false; they hold data.
- `transport_error_indicator` is parsed and never read.
- In a file of 204-byte packets the first PES, at offset 0, is looked for at offset -16
  and never joins a packet.

Timeline:

- Where B-frames straddle the wrap, the frame presented before it but read after it is
  placed an epoch late, since an epoch is never taken back (`unwrap.cpp:23`), and two
  spans are reported; `docs/checks/timeline.discontinuities.md:27` says that a wrap gives
  none. `IsPlain` in `WrapIsInvisible` is the condition under which it does not.
- An announced jump whose packet has no position, or that lands on a reordered frame,
  is not attributed and gates (`discontinuities.cpp:190`); `AnnouncedJumpsAreFlagged` is
  stated of frames in order, on either side of the wrap.
- The drift checks leave no skip for a partial scan, or a file without sound or picture
  (`av_sync.cpp:695-724`, `:760-766`, `:826-830`), which `docs/checks/timeline.av_drift.md` lists.
- Packets of equal presentation time are sorted by `std::sort`, which may return them in
  any order; the model takes them in reading order.

- Sound that is primed by more than some two packets is judged by its count of packets and
  not by their times although nothing is missing (`av_sync.cpp:1148`): the offset at a
  checkpoint is then that of a packet beside it. `ContinuousAudioDriftsByItsSpan` is stated of
  less priming.

Audio:

- A stretch between the two silence thresholds makes a dropout lie inside a silence at
  the edge, where `docs/checks/audio.silence.dropouts.md` says never double-reported.
- The same document calls 150 ms a floor on the underlying event; the gate compares the
  length after the windows shrank it (`audio_decode.cpp:1059`), so that a hole of less than
  some 250 ms goes unreported.
- A packet that the decoder answers with EAGAIN is dropped and not counted; nor are
  errors while draining. A packet of no bytes puts the decoder into draining mode.
- The move operations of `AudioDecodeState` leave out two fields (`edge_threshold_linear_`,
  `dropout_min_span_samples_`); nothing is moved after they are set.

- Where `ebur128_init` fails (more channels or a lower rate than it takes) the levels are
  missing for the same reason as where it was never called; the model does not tell the two apart.

Probe:

- `open_context` decides by libav's return code alone (`demux_session.cpp:213-223`): an open
  or a `find_stream_info` that was interrupted and still returns 0 or more goes on to a
  fingerprint of headers read in part, and a loaded machine can say less of a file than an
  idle one. The comment at `:151` relies on libav to return an error.
  `ClockMarksOnlyTheHurried` says how far the mark can go: it leaves facts out and invents none.
- A timeout of the second open for declared durations is taken for a demuxer without
  them (`demux_session.cpp:590-610`), where the comment at `:155-163` has a genuine timeout
  stay a hard error: one file gives durations on an idle machine and none on a loaded
  one. `ProbeInv` asks of such durations only that they are re-probed or withheld.
- The file is opened up to six times by name, and nothing checks that it is the same.

## Not modelled

- Memory that runs out inside libav is an input it does not understand
  (`demux_session.cpp:118`); memory of the program's own calls ends a probe with `internal`.
  Streams that libav adds while a sweep is under way are left out.
- `cli/dir_pairing`: a walk that either fails as a whole, which is one outcome of the
  settings in `DirRun`, or yields the merge of two sorted listings. Its depth and entry
  limits are errors of the walk; there is no partial listing.
- `probe/bmff_scan`, `ebml_scan`, the bit readers of `parser_scan` and `audio_config`: one
  pass over a byte layout each. What can go wrong there is the layout, which a model
  that abstracts data leaves out. That such a scan fails, or is cut, is an outcome in
  `Probe`.
- `analyzers/video`, `analyzers/size`, most of `analyzers/container` and `analyzers/audio`:
  copies of header fields, counts and sums over one scan.
- The carry chains of `core/exact_int.h`: the models use exact numbers and the bound at
  which the code refuses.
- `cli/options`, `config/toml_load`, the tolerance grammar, the JSON of snapshots and
  reports, renderers, `inspect`, `explain`, `list-checks`: text. Their failures are
  outcomes of the commands' models.

## Plan

1. Proofs: `SilenceIsWhatWasHeard` of `AudioSweep`, by an invariant of the windows of the
   detectors next to what `Carries` says of the samples; two `TsChannel`s side by side for
   `EachPidIsAChannel`.
2. The sliding window of `analyzers/size`, with partial scans.
3. Two `snapshot` processes with the tearing stated as what they do promise.
