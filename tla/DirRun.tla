-------------------------------- MODULE DirRun --------------------------------
(***************************************************************************)
(* cli/commands/dir.cpp: one run of `mediadiff dir`.  The settings are     *)
(* resolved one after another, each with an error exit of its own; the two *)
(* trees are paired; the worker pool runs one job per pair, each job a     *)
(* chain of steps that interleaves with the other jobs; the caller rolls   *)
(* the per-pair slots up, writes the reports and exits.                    *)
(*                                                                         *)
(* What the file system holds is the constant-for-the-run variable world:  *)
(* for each pair, what resolving its policy, fingerprinting its two sides  *)
(* and comparing them will yield.  The jobs read it; they learn it only    *)
(* step by step.  A definition introduced by "Fault:" is a seeded bug of    *)
(* the one after it.                                                       *)
(***************************************************************************)
EXTENDS WorkerPool, RunOutput, FiniteSetsExt

CONSTANTS Worlds,       \* the worlds considered: functions from Jobs to PairWorld
          DirRequests,  \* the command lines considered
          Budget        \* resolve_probe_memory_budget_bytes, in some unit

VARIABLES resolving,    \* how many of ResolveSteps are behind
          world,        \* see above
          at,           \* at[i]: the next step of job i
          results,      \* results[i]: FileResult::findings
          outcomes      \* outcomes[i]: JobOutcome

dirVars == <<resolving, world, at, results, outcomes>>
vars == <<poolVars, outVars, dirVars>>

-------------------------------------------------------------------------------
\* What a step of a job yields: fine, fine but partial, an error, an exception.
Yields == {"ok", "partial", "throws"} \cup ErrorKinds

PairWorld(findings) ==
  [side : {"both", "baseline", "candidate"}, policy : Yields \ {"partial"}, baseline : Yields,
   candidate : Yields, compare : Yields \ {"partial"}, findings : findings]

\* The budget is not negative; a policy and a comparison are whole or not at all,
\* and the findings are well formed.
ASSUME DirAssumption ==
  /\ Budget \in Nat
  /\ DirRequests \subseteq CommandLine
  /\ Worlds \subseteq [Jobs -> PairWorld(Seq(Findings(Nat)))]

\* The settings in the order they are resolved, with the errors each can end in.
ResolveSteps ==
  << [what |-> "content",       errors |-> {"usage"}],
     [what |-> "hash_decoder",  errors |-> {"usage"}],
     [what |-> "config",        errors |-> {"usage", "input_open"}],
     [what |-> "probe_timeout", errors |-> {"usage"}],
     [what |-> "cli_overrides", errors |-> {"usage"}],
     [what |-> "profile",       errors |-> {"usage"}],
     [what |-> "base_policy",   errors |-> {"usage"}],
     [what |-> "destinations",  errors |-> {"usage"}],
     [what |-> "threads",       errors |-> {"usage"}],
     [what |-> "memory_budget", errors |-> {"usage"}],
     [what |-> "pairing",       errors |-> {"input_open"}],
     [what |-> "unpaired_ids",  errors |-> {"internal"}] >>

\* Fault: every file gets the budget of the whole run.
WholeBudgetEach == Budget

\* derive_per_file_cap_bytes(budget, resolved_threads)
PerFileCap == IF ThreadCount <= 1 THEN Budget ELSE Budget \div ThreadCount

NoOutcome == [hard_error |-> "none", partial |-> FALSE]

DirInit ==
  /\ PoolInit
  /\ phase = "resolve"
  /\ request \in DirRequests
  /\ out = <<>>
  /\ exit = NotYet
  /\ resolving = 0
  /\ world \in Worlds
  /\ at = [i \in Jobs |-> "policy"]
  /\ results = [i \in Jobs |-> <<>>]
  /\ outcomes = [i \in Jobs |-> NoOutcome]

-------------------------------------------------------------------------------
(* Before the pool.                                                        *)
Resolve ==
  /\ phase = "resolve"
  /\ resolving < Len(ResolveSteps)
  /\ resolving' = resolving + 1
  /\ phase' = IF resolving' = Len(ResolveSteps) THEN "pool" ELSE phase
  /\ UNCHANGED <<poolVars, request, out, exit, world, at, results, outcomes>>

ResolveFails ==
  /\ phase = "resolve"
  /\ resolving < Len(ResolveSteps)
  /\ \E kind \in ResolveSteps[resolving + 1].errors : Refuse(kind, "settings")
  /\ UNCHANGED <<poolVars, dirVars>>

-------------------------------------------------------------------------------
(* The pool's own steps, while the command is inside run_indexed.          *)
PoolCallerStep ==
  /\ phase = "pool"
  /\ Call \/ SequentialStart \/ SequentialReturn \/ Spawn \/ Join
  /\ UNCHANGED <<outVars, dirVars>>

FetchStep(w) ==
  /\ phase = "pool"
  /\ Fetch(w)
  /\ UNCHANGED <<outVars, dirVars>>

\* std::system_error from the first emplace_back reaches main's catch; from a
\* later one it meets a joinable std::thread and the process aborts.
PoolFails ==
  /\ phase = "pool"
  /\ SpawnFails
  /\ IF caller' = "raised" THEN Leave(ExitInternal, "exception") ELSE Leave(134, "abort")
  /\ UNCHANGED <<out, dirVars>>

-------------------------------------------------------------------------------
(* The steps of job i, on the thread that runs it.                         *)
JobEnds(i, outcome) ==
  \/ caller = "sequential" /\ next_index = i /\ SequentialFinish(outcome)
  \/ \E w \in Workers : claim[w] = i /\ Finish(w, outcome)

JobAt(i, step) == /\ phase = "pool"
                  /\ job[i] = "running"
                  /\ at[i] = step

Advance(i, step) == /\ at' = [at EXCEPT ![i] = step]
                    /\ UNCHANGED <<poolVars, results, outcomes>>

\* Fault: the first hard error cancels the indices not yet handed out.
HardErrorCancels(i, kind) ==
  /\ outcomes' = [outcomes EXCEPT ![i].hard_error = kind]
  /\ job' = [job EXCEPT ![i] = "done"]
  /\ next_index' = JobCount
  /\ worker' = [w \in Workers |-> IF worker[w] = "run" /\ claim[w] = i THEN "fetch" ELSE worker[w]]
  /\ UNCHANGED <<caller, spawned, joined, claim, at, results>>

\* Fault: the error is reported and not recorded.
HardErrorForgotten(i, kind) ==
  /\ JobEnds(i, "done")
  /\ UNCHANGED <<at, results, outcomes>>

HardError(i, kind) ==
  /\ outcomes' = [outcomes EXCEPT ![i].hard_error = kind]
  /\ JobEnds(i, "done")
  /\ UNCHANGED <<at, results>>

\* resolve_policy_for_file, then the paired or the unpaired branch.
PolicyStep(i) ==
  /\ JobAt(i, "policy")
  /\ world[i].policy # "throws"
  /\ IF world[i].policy \in ErrorKinds THEN HardError(i, world[i].policy)
     ELSE Advance(i, IF world[i].side = "both" THEN "baseline" ELSE "presence")

\* fingerprint_input of one side.
FingerprintStep(i, side, next) ==
  /\ JobAt(i, side)
  /\ world[i][side] # "throws"
  /\ IF world[i][side] \in ErrorKinds THEN HardError(i, world[i][side]) ELSE Advance(i, next)

\* Fault: only the candidate is asked whether it is partial.
CompareStepOneSided(i) ==
  /\ JobAt(i, "compare")
  /\ world[i].compare # "throws"
  /\ IF world[i].compare = "ok"
       THEN /\ results' = [results EXCEPT ![i] = world[i].findings]
            /\ outcomes' = [outcomes EXCEPT ![i].partial = (world[i].candidate = "partial")]
            /\ JobEnds(i, "done")
            /\ UNCHANGED at
       ELSE HardError(i, world[i].compare)

\* compare_fingerprints: a decode error is a partial result, any other is hard.
CompareStep(i) ==
  LET partial == "partial" \in {world[i].baseline, world[i].candidate}
  IN  /\ JobAt(i, "compare")
      /\ world[i].compare # "throws"
      /\ CASE world[i].compare = "ok" ->
                /\ results' = [results EXCEPT ![i] = world[i].findings]
                /\ outcomes' = [outcomes EXCEPT ![i].partial = partial]
                /\ JobEnds(i, "done")
                /\ UNCHANGED at
           [] world[i].compare = "decode" ->
                /\ outcomes' = [outcomes EXCEPT ![i].partial = TRUE]
                /\ JobEnds(i, "done")
                /\ UNCHANGED <<at, results>>
           [] OTHER -> HardError(i, world[i].compare)

\* Fault: the findings of an unpaired file go to the first slot.
PresenceStepSlotZero(i) ==
  /\ JobAt(i, "presence")
  /\ results' = [results EXCEPT ![0] = world[i].findings]
  /\ JobEnds(i, "done")
  /\ UNCHANGED <<at, outcomes>>

\* compare_presence of a file that one tree lacks.
PresenceStep(i) ==
  /\ JobAt(i, "presence")
  /\ results' = [results EXCEPT ![i] = world[i].findings]
  /\ JobEnds(i, "done")
  /\ UNCHANGED <<at, outcomes>>

\* An exception leaves the job at any of its steps; the pool swallows it.
JobThrows(i) ==
  /\ phase = "pool"
  /\ job[i] = "running"
  /\ at[i] \in {"policy", "baseline", "candidate", "compare"}
  /\ world[i][at[i]] = "throws"
  /\ JobEnds(i, "threw")
  /\ UNCHANGED <<at, results, outcomes>>

JobStep(i) ==
  /\ \/ PolicyStep(i)
     \/ FingerprintStep(i, "baseline", "candidate")
     \/ FingerprintStep(i, "candidate", "compare")
     \/ CompareStep(i)
     \/ PresenceStep(i)
     \/ JobThrows(i)
  /\ UNCHANGED <<outVars, resolving, world>>

-------------------------------------------------------------------------------
(* After the pool.                                                         *)
\* Fault: the rollup waits for every job to end normally.
StartOutputAllDone ==
  /\ phase = "pool"
  /\ caller = "returned"
  /\ \A i \in Jobs : job[i] = "done"
  /\ phase' = "output"
  /\ UNCHANGED <<poolVars, request, out, exit, dirVars>>

\* run_indexed has returned; the slots are rolled up in pairing order.
StartOutput ==
  /\ phase = "pool"
  /\ caller = "returned"
  /\ phase' = "output"
  /\ UNCHANGED <<poolVars, request, out, exit, dirVars>>

HardErrors == {i \in Jobs : outcomes[i].hard_error # "none"}
AnyPartial == \E i \in Jobs : outcomes[i].partial
Totals == CombineAll([n \in 1..JobCount |-> SummaryOf(results[n - 1])])

\* Fault: the last hard error in pairing order, not the first.
VerdictCodeLast ==
  IF HardErrors # {} THEN ExitCodeFor(outcomes[Max(HardErrors)].hard_error)
  ELSE IF AnyPartial THEN ExitDecode
  ELSE ExitCodeForFindings(Totals, request.strict)

\* Fault: --strict does not reach the exit code.
VerdictCodeLenient ==
  IF HardErrors # {} THEN ExitCodeFor(outcomes[Min(HardErrors)].hard_error)
  ELSE IF AnyPartial THEN ExitDecode
  ELSE ExitCodeForFindings(Totals, FALSE)

VerdictCode ==
  IF HardErrors # {} THEN ExitCodeFor(outcomes[Min(HardErrors)].hard_error)
  ELSE IF AnyPartial THEN ExitDecode
  ELSE ExitCodeForFindings(Totals, request.strict)

Output ==
  /\ Write \/ Conclude(VerdictCode)
  /\ UNCHANGED <<poolVars, dirVars>>

OutputThrows == RenderThrows /\ UNCHANGED <<poolVars, dirVars>>

-------------------------------------------------------------------------------
MainThread == \/ Resolve \/ ResolveFails
              \/ PoolCallerStep \/ PoolFails
              \/ caller = "sequential" /\ \E i \in Jobs : JobStep(i)
              \/ StartOutput \/ Output

WorkerThread(w) == \/ FetchStep(w)
                   \/ worker[w] = "run" /\ \E i \in Jobs : claim[w] = i /\ JobStep(i)

DirNext == MainThread \/ OutputThrows \/ \E w \in Workers : WorkerThread(w)

DirSpec == DirInit /\ [][DirNext]_vars

\* Every thread that can take a step takes one: no step of a job blocks.  Nothing
\* is assumed of exceptions while rendering.
DirFairness == WF_vars(MainThread) /\ \A w \in Workers : WF_vars(WorkerThread(w))

DirFairSpec == DirSpec /\ DirFairness

-------------------------------------------------------------------------------
(* Properties.                                                             *)
DirTypeOK ==
  /\ PoolTypeOK
  /\ phase \in {"resolve", "pool", "output", "over"}
  /\ resolving \in 0..Len(ResolveSteps)
  /\ world \in Worlds
  /\ at \in [Jobs -> {"policy", "baseline", "candidate", "compare", "presence"}]
  /\ outcomes \in [Jobs -> [hard_error : ErrorKinds \cup {"none"}, partial : BOOLEAN]]
  /\ \A i \in Jobs : results[i] \in {<<>>, world[i].findings}

\* What a pair comes to, as a function of nothing but its own world.
Steps(pair) == IF pair.side = "both" THEN <<"policy", "baseline", "candidate", "compare">>
               ELSE <<"policy">>
Troubles(pair) == {k \in DOMAIN Steps(pair) : pair[Steps(pair)[k]] \notin {"ok", "partial"}}
Fate(pair) ==
  IF Troubles(pair) = {} THEN "ok"
  ELSE LET step == Steps(pair)[Min(Troubles(pair))]
       IN  IF step = "compare" /\ pair.compare = "decode" THEN "undecoded" ELSE pair[step]

PairOutcome(pair) ==
  [hard_error |-> IF Fate(pair) \in ErrorKinds THEN Fate(pair) ELSE "none",
   partial |-> \/ Fate(pair) = "undecoded"
               \/ Fate(pair) = "ok" /\ pair.side = "both"
                  /\ "partial" \in {pair.baseline, pair.candidate}]
PairFindings(pair) == IF Fate(pair) = "ok" THEN pair.findings ELSE <<>>

\* A finished job has left in its slots what its pair alone determines: no error,
\* exception or partial result of another pair, and no interleaving, shows in it.
SlotsAreThePairsOwn ==
  \A i \in Jobs : job[i] \in Finished =>
    outcomes[i] = PairOutcome(world[i]) /\ results[i] = PairFindings(world[i])

\* The verdict is a function of the files and of --strict: the first hard error in
\* pairing order, else a partial result, else the worst gating finding.
VerdictOfWorld ==
  LET hard == {i \in Jobs : PairOutcome(world[i]).hard_error # "none"}
      gating == UNION {{f.severity : f \in {g \in Range(PairFindings(world[i])) : Gates(g.status)}}
                         : i \in Jobs}
  IN  IF hard # {} THEN ExitCodeFor(PairOutcome(world[Min(hard)]).hard_error)
      ELSE IF \E i \in Jobs : PairOutcome(world[i]).partial THEN ExitDecode
      ELSE IF Fail \in gating THEN ExitFail
      ELSE IF Warn \in gating /\ request.strict THEN ExitWarnStrict ELSE ExitClean

VerdictIgnoresSchedule == exit.from = "verdict" => exit.code = VerdictOfWorld

\* The packet scans under way at any moment stay, together, within the memory
\* budget of the run: the cap of one file is its share.
Scanning == {i \in Jobs : job[i] = "running" /\ at[i] \in {"baseline", "candidate"}}
ScansWithinBudget == Cardinality(Scanning) * PerFileCap <= Budget

\* The rollup reads the slots when every job is over, and the verdict is theirs.
RollupFollowsPool ==
  /\ phase = "output" => caller = "returned"
  /\ exit.from = "verdict" =>
       caller = "returned" /\ phase = "over" /\ exit.code = VerdictCode

\* At every moment of a run each pair has its own slot and its own share, and what
\* is written and said comes after them all.
DirInv == /\ DirTypeOK
          /\ SlotsAreThePairsOwn
          /\ ScansWithinBudget
          /\ OutputInv
          /\ RollupFollowsPool

\* Never a hung run: whatever the files hold, the process ends.
RunEnds == <>(exit # NotYet)

\* cli/exit_code.h: ">=64 means the run could not produce a verdict at all"; so a
\* code below 64 would mean that every pair was judged.
VerdictMeansEveryPairJudged ==
  exit.code \in {ExitClean, ExitFail, ExitWarnStrict} => \A i \in Jobs : job[i] = "done"
===============================================================================
