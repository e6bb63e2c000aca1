----------------------------- MODULE DirRunProofs -----------------------------
(***************************************************************************)
(* Proofs about WorkerPool and DirRun, for any number of pairs and of      *)
(* threads, any files and any budget: run_indexed is what its header       *)
(* promises, the pool inside a run is that pool, the slots of a finished   *)
(* pair are a function of its own files, and so is the verdict of the run. *)
(***************************************************************************)
EXTENDS DirRun, ReportProofs

\* The number of workers is a natural number, positive when threads are used.
LEMMA WorkerCountFact ==
  /\ WorkerCount \in Nat
  /\ WorkerCount <= JobCount
  /\ JobCount # 0 /\ ~(ThreadCount <= 1) => WorkerCount > 0
BY PoolAssumption DEF WorkerCount

\* The pool starts with every index pending.
LEMMA PoolInitInv == PoolInit => PoolInv
BY WorkerCountFact, PoolAssumption
   DEF PoolInit, PoolInv, PoolTypeOK, HandedOut, RunningIsClaimed, ThreadLives,
       ExclusiveClaim, AllRanOnReturn, Jobs, Workers, CallerEnds, Finished

\* The invariant is preserved by the calling thread.
LEMMA CallInv == PoolInv /\ Call => PoolInv'
<1> SUFFICES ASSUME PoolInv, Call PROVE PoolInv'
  OBVIOUS
<1> USE WorkerCountFact, PoolAssumption
    DEF PoolInv, PoolTypeOK, Jobs, Workers, CallerEnds, Finished, Call
<1>1. PoolTypeOK'
  OBVIOUS
<1>2. HandedOut'
  BY DEF HandedOut, ThreadLives
<1>3. RunningIsClaimed'
  BY DEF RunningIsClaimed
<1>4. ThreadLives' /\ ExclusiveClaim'
  BY DEF ThreadLives, ExclusiveClaim
<1>5. AllRanOnReturn'
  BY DEF AllRanOnReturn
<1> QED BY <1>1, <1>2, <1>3, <1>4, <1>5

\* The one-thread form starts and returns.
LEMMA SequentialInv ==
  PoolInv /\ (SequentialStart \/ SequentialReturn) => PoolInv'
<1> SUFFICES ASSUME PoolInv, SequentialStart \/ SequentialReturn PROVE PoolInv'
  OBVIOUS
<1> USE WorkerCountFact, PoolAssumption
    DEF PoolInv, PoolTypeOK, Jobs, Workers, CallerEnds, Finished, ThreadLives,
        HandedOut, RunningIsClaimed, ExclusiveClaim, AllRanOnReturn
<1>1. CASE SequentialStart
  BY <1>1 DEF SequentialStart
<1>2. CASE SequentialReturn
  BY <1>2 DEF SequentialReturn
<1> QED BY <1>1, <1>2

\* The one-thread form ends a job and goes to the next index.
LEMMA SequentialFinishInv ==
  ASSUME NEW outcome \in Finished
  PROVE  PoolInv /\ SequentialFinish(outcome) => PoolInv'
<1> SUFFICES ASSUME PoolInv, SequentialFinish(outcome) PROVE PoolInv'
  OBVIOUS
<1> USE WorkerCountFact, PoolAssumption
    DEF PoolInv, PoolTypeOK, Jobs, Workers, CallerEnds, Finished, ThreadLives,
        SequentialFinish
<1>1. next_index \in Jobs /\ next_index' = next_index + 1 /\ next_index' <= JobCount
  OBVIOUS
<1>2. PoolTypeOK' /\ ThreadLives'
  BY <1>1
<1>3. HandedOut'
  <2>1. ASSUME NEW i \in Jobs, i < next_index' PROVE job'[i] \in Finished
    BY <1>1, <2>1 DEF HandedOut
  <2>2. ASSUME NEW i \in Jobs, i >= next_index' PROVE job'[i] = "pending"
    BY <1>1, <2>2 DEF HandedOut
  <2>3. next_index' < JobCount => next_index' \in Jobs
    BY <1>1
  <2> QED BY <1>1, <2>1, <2>2, <2>3 DEF HandedOut
<1>4. RunningIsClaimed' /\ ExclusiveClaim' /\ AllRanOnReturn'
  BY <1>1 DEF RunningIsClaimed, ExclusiveClaim, AllRanOnReturn
<1> QED BY <1>2, <1>3, <1>4

\* A thread is made, or cannot be made.
LEMMA SpawnInv == PoolInv /\ (Spawn \/ SpawnFails) => PoolInv'
<1> SUFFICES ASSUME PoolInv, Spawn \/ SpawnFails PROVE PoolInv'
  OBVIOUS
<1> USE WorkerCountFact, PoolAssumption
    DEF PoolInv, PoolTypeOK, Jobs, Workers, CallerEnds, Finished
<1>1. CASE Spawn
  <2> USE <1>1 DEF Spawn
  <2>1. PoolTypeOK' /\ HandedOut' /\ AllRanOnReturn'
    BY DEF HandedOut, AllRanOnReturn
  <2>2. ThreadLives'
    BY DEF ThreadLives
  <2>3. RunningIsClaimed' /\ ExclusiveClaim'
    BY DEF RunningIsClaimed, ExclusiveClaim, ThreadLives
  <2> QED BY <2>1, <2>2, <2>3
<1>2. CASE SpawnFails
  BY <1>2 DEF SpawnFails, HandedOut, RunningIsClaimed, ThreadLives, ExclusiveClaim, AllRanOnReturn
<1> QED BY <1>1, <1>2

\* When the last worker has been joined every index is behind the counter and
\* no worker is left to be running one of them.
LEMMA JoinInv == PoolInv /\ Join => PoolInv'
<1> SUFFICES ASSUME PoolInv, Join PROVE PoolInv'
  OBVIOUS
<1> USE WorkerCountFact, PoolAssumption
    DEF PoolInv, PoolTypeOK, Jobs, Workers, CallerEnds, Finished, Join
<1>1. PoolTypeOK' /\ HandedOut' /\ RunningIsClaimed' /\ ExclusiveClaim' /\ ThreadLives'
  BY DEF HandedOut, RunningIsClaimed, ExclusiveClaim, ThreadLives
<1>2. ASSUME caller' = "returned", NEW i \in Jobs PROVE job'[i] \in Finished
  <2>1. \A w \in Workers : worker[w] = "exited"
    BY <1>2 DEF ThreadLives
  <2>2. next_index >= JobCount
    BY <2>1 DEF ThreadLives
  <2>3. job[i] # "pending" /\ job[i] # "running"
    BY <2>1, <2>2 DEF HandedOut, RunningIsClaimed
  <2> QED BY <2>3
<1> QED BY <1>1, <1>2 DEF AllRanOnReturn

\* The invariant is preserved by a worker thread.
LEMMA FetchInv == ASSUME NEW w \in Workers PROVE PoolInv /\ Fetch(w) => PoolInv'
<1> SUFFICES ASSUME PoolInv, Fetch(w) PROVE PoolInv'
  OBVIOUS
<1> USE WorkerCountFact, PoolAssumption
    DEF PoolInv, PoolTypeOK, Jobs, Workers, CallerEnds, Finished, Fetch
<1>0. caller # "sequential" /\ next_index \in Nat
  BY DEF ThreadLives
<1>1. CASE next_index >= JobCount
  <2>1. PoolTypeOK' /\ HandedOut' /\ AllRanOnReturn'
    BY <1>0, <1>1 DEF HandedOut, AllRanOnReturn
  <2>2. RunningIsClaimed' /\ ExclusiveClaim'
    BY <1>0, <1>1 DEF RunningIsClaimed, ExclusiveClaim
  <2>3. ThreadLives'
    BY <1>0, <1>1 DEF ThreadLives
  <2> QED BY <2>1, <2>2, <2>3
<1>2. CASE ~(next_index >= JobCount)
  <2>0. next_index \in Jobs /\ job[next_index] = "pending"
    BY <1>0, <1>2 DEF HandedOut
  <2>1. PoolTypeOK'
    <3>1. worker' \in [Workers -> {"unborn", "fetch", "run", "exited"}]
      BY <1>2
    <3>2. claim' \in [Workers -> Nat]
      BY <1>0
    <3>3. job' \in [Jobs -> {"pending", "running"} \cup Finished]
      BY <1>2
    <3> QED BY <1>0, <3>1, <3>2, <3>3
  <2>2. HandedOut'
    BY <1>0, <1>2, <2>0 DEF HandedOut
  <2>3. RunningIsClaimed'
    <3> SUFFICES ASSUME NEW i \in Jobs, job'[i] = "running"
                 PROVE  \E v \in Workers : worker'[v] = "run" /\ claim'[v] = i
      BY <1>0 DEF RunningIsClaimed
    <3>1. CASE i = next_index
      BY <1>2, <2>0, <3>1
    <3>2. CASE i # next_index
      <4>1. job[i] = "running"
        BY <1>2, <2>0, <3>2
      <4>2. PICK v \in Workers : worker[v] = "run" /\ claim[v] = i
        BY <1>0, <4>1 DEF RunningIsClaimed
      <4>3. v # w
        BY <4>2
      <4> QED BY <1>2, <4>2, <4>3
    <3> QED BY <3>1, <3>2
  <2>4. ThreadLives'
    BY <1>0, <1>2 DEF ThreadLives
  <2>5. ExclusiveClaim'
    <3>1. ASSUME NEW v \in Workers, v # w, worker'[v] = "run"
          PROVE  /\ claim'[v] \in Jobs /\ claim'[v] # next_index
                 /\ job'[claim'[v]] = "running"
      <4>1. worker[v] = "run" /\ claim'[v] = claim[v]
        BY <1>2, <3>1
      <4>2. claim[v] \in Jobs /\ job[claim[v]] = "running"
        BY <4>1 DEF ExclusiveClaim
      <4>3. claim[v] # next_index
        BY <2>0, <4>2
      <4> QED BY <1>2, <2>0, <4>1, <4>2, <4>3
    <3>2. claim'[w] = next_index /\ job'[next_index] = "running"
      BY <1>2, <2>0
    <3>3. \A u, v \in Workers : u # v /\ u # w /\ v # w /\ worker'[u] = "run" /\ worker'[v] = "run"
             => claim'[u] # claim'[v]
      BY <1>2 DEF ExclusiveClaim
    <3> QED BY <2>0, <3>1, <3>2, <3>3 DEF ExclusiveClaim
  <2>6. AllRanOnReturn'
    BY <1>2, <2>0 DEF AllRanOnReturn
  <2> QED BY <2>1, <2>2, <2>3, <2>4, <2>5, <2>6
<1> QED BY <1>1, <1>2

\* A job ends, by exception included.
LEMMA FinishInv ==
  ASSUME NEW w \in Workers, NEW outcome \in Finished
  PROVE  PoolInv /\ Finish(w, outcome) => PoolInv'
<1> SUFFICES ASSUME PoolInv, Finish(w, outcome) PROVE PoolInv'
  OBVIOUS
<1> USE WorkerCountFact, PoolAssumption
    DEF PoolInv, PoolTypeOK, Jobs, Workers, CallerEnds, Finished, Finish
<1>0. claim[w] \in Jobs /\ job[claim[w]] = "running" /\ caller # "sequential"
  BY DEF ExclusiveClaim, ThreadLives
<1>1. PoolTypeOK' /\ HandedOut' /\ AllRanOnReturn'
  BY <1>0 DEF HandedOut, AllRanOnReturn
<1>2. RunningIsClaimed'
  BY <1>0 DEF RunningIsClaimed
<1>3. ThreadLives'
  BY <1>0 DEF ThreadLives
<1>4. ExclusiveClaim'
  BY <1>0 DEF ExclusiveClaim
<1> QED BY <1>1, <1>2, <1>3, <1>4

\* So each step of the pool keeps its invariant.
LEMMA PoolStepInv == PoolInv /\ [PoolNext]_poolVars => PoolInv'
<1> SUFFICES ASSUME PoolInv, [PoolNext]_poolVars PROVE PoolInv'
  OBVIOUS
<1>1. CASE UNCHANGED poolVars
  BY <1>1 DEF poolVars, PoolInv, PoolTypeOK, HandedOut, RunningIsClaimed, ThreadLives,
              ExclusiveClaim, AllRanOnReturn
<1>2. CASE PoolCaller
  BY <1>2, CallInv, SequentialInv, SequentialFinishInv, SpawnInv, JoinInv DEF PoolCaller
<1>3. ASSUME NEW w \in Workers, PoolWorker(w) PROVE PoolInv'
  BY <1>3, FetchInv, FinishInv DEF PoolWorker
<1> QED BY <1>1, <1>2, <1>3 DEF PoolNext

\* run_indexed never loses, repeats or shares an index, whatever the number of
\* jobs and threads, wherever exceptions and failed thread creations fall.
THEOREM PoolInvariant == PoolSpec => []PoolInv
<1> QED BY PoolInitInv, PoolStepInv, PTL DEF PoolSpec

\* When run_indexed returns every index has completed (cli/worker_pool.h).
THEOREM PoolAllRan == PoolSpec => []AllRanOnReturn
<1>1. PoolInv => AllRanOnReturn
  BY DEF PoolInv
<1> QED BY <1>1, PoolInvariant, PTL

\* With one thread or none the jobs run in the order in which they were submitted.
THEOREM PoolSubmissionOrder == PoolSpec => []SubmissionOrder
<1>1. PoolInv => SubmissionOrder
  <2> SUFFICES ASSUME PoolInv, ThreadCount <= 1, NEW i \in Jobs, NEW j \in Jobs, i < j, job[j] # "pending"
               PROVE  job[i] \in Finished
    BY DEF SubmissionOrder
  <2>1. i \in Int /\ j \in Int /\ next_index \in Nat
    BY PoolAssumption DEF Jobs, PoolInv, PoolTypeOK
  <2>2. CASE caller = "sequential"
    <3>1. ~(j > next_index)
      BY <2>2 DEF PoolInv, HandedOut
    <3>2. i < next_index
      BY <2>1, <3>1
    <3> QED BY <2>2, <3>2 DEF PoolInv, HandedOut
  <2>3. CASE caller = "idle"
    <3>1. next_index = 0 /\ j < next_index
      BY <2>3 DEF PoolInv, HandedOut, ThreadLives
    <3> QED BY <3>1, PoolAssumption DEF Jobs
  <2>4. CASE caller = "returned"
    BY <2>4 DEF PoolInv, AllRanOnReturn
  <2> QED BY <2>2, <2>3, <2>4 DEF PoolInv, ThreadLives
<1> QED BY <1>1, PoolInvariant, PTL

\* Two threads never hold the same index: the result slots need no lock.
THEOREM PoolExclusive == PoolSpec => []ExclusiveClaim
<1>1. PoolInv => ExclusiveClaim
  BY DEF PoolInv
<1> QED BY <1>1, PoolInvariant, PTL

-------------------------------------------------------------------------------
\* A finished index keeps its outcome: only the index a thread has just fetched,
\* or the one it is running, ever changes.
LEMMA FinishedStays ==
  PoolInv /\ [PoolNext]_poolVars => \A i \in Jobs : job[i] \in Finished => job'[i] = job[i]
<1> SUFFICES ASSUME PoolInv, [PoolNext]_poolVars, NEW i \in Jobs, job[i] \in Finished
             PROVE  job'[i] = job[i]
  OBVIOUS
<1> USE DEF PoolInv, PoolTypeOK, Finished, Jobs
<1>1. CASE PoolCaller \/ UNCHANGED poolVars
  BY <1>1, PoolAssumption
     DEF PoolCaller, poolVars, Call, SequentialStart, SequentialReturn, SequentialFinish,
         Spawn, SpawnFails, Join, HandedOut
<1>2. ASSUME NEW w \in Workers, Fetch(w) PROVE job'[i] = job[i]
  <2>1. caller # "sequential"
    BY <1>2, WorkerCountFact DEF Fetch, ThreadLives, Workers
  <2>2. i < next_index
    BY <2>1, PoolAssumption DEF HandedOut
  <2> QED BY <1>2, <2>2, PoolAssumption DEF Fetch
<1>3. ASSUME NEW w \in Workers, NEW outcome \in Finished, Finish(w, outcome)
      PROVE  job'[i] = job[i]
  BY <1>3 DEF Finish, ExclusiveClaim
<1> QED BY <1>1, <1>2, <1>3 DEF PoolNext, PoolWorker

\* An index that has completed is never run again, and its outcome stands.
THEOREM PoolNeverRunTwice == PoolSpec => NeverRunTwice
<1>1. PoolInv /\ [PoolNext]_poolVars
        => [\A i \in Jobs : job[i] \in Finished => job'[i] = job[i]]_poolVars
  BY FinishedStays
<1> QED BY <1>1, PoolInvariant, PTL DEF PoolSpec, NeverRunTwice

-------------------------------------------------------------------------------
(* The pool implements IndexedRun.                                         *)

\* A pool that starts is a call that starts.
LEMMA PoolRefinesInit == PoolInit => Promise!RunInit
BY DEF PoolInit, Promise!RunInit, CallState, Jobs, Promise!Jobs

\* A step of the pool is one of the promise, or a stutter.
LEMMA PoolRefinesStep ==
  PoolInv /\ PoolInv' /\ [PoolNext]_poolVars => [Promise!RunNext]_(Promise!runVars)
<1> SUFFICES ASSUME PoolInv, PoolInv', [PoolNext]_poolVars
             PROVE  [Promise!RunNext]_(Promise!runVars)
  OBVIOUS
<1> USE DEF Promise!Jobs, Jobs, Promise!Finished, Finished
<1>1. CASE UNCHANGED poolVars
  BY <1>1 DEF poolVars, Promise!runVars, CallState
<1>2. ASSUME UNCHANGED job, caller' = "returned", caller # "returned",
             caller \notin {"raised", "terminated"}
      PROVE  Promise!RunNext
  BY <1>2 DEF Promise!RunNext, Promise!Return, CallState, PoolInv, AllRanOnReturn
<1>3. ASSUME UNCHANGED job, caller \notin CallerEnds, caller' \notin CallerEnds
      PROVE  UNCHANGED Promise!runVars
  BY <1>3 DEF Promise!runVars, CallState, CallerEnds
<1>4. CASE Call \/ SequentialReturn \/ Spawn \/ Join
  <2>1. UNCHANGED job /\ caller \notin CallerEnds
    BY <1>4 DEF Call, SequentialReturn, Spawn, Join, CallerEnds
  <2>2. caller' = "returned" \/ caller' \notin CallerEnds
    BY <1>4 DEF Call, SequentialReturn, Spawn, Join, CallerEnds
  <2> QED BY <2>1, <2>2, <1>2, <1>3 DEF CallerEnds
<1>5. CASE SpawnFails
  BY <1>5 DEF SpawnFails, Promise!RunNext, Promise!Abandon, CallState
<1>6. CASE SequentialStart
  <2>1. /\ next_index \in Jobs /\ job[next_index] = "pending"
        /\ caller = "sequential" /\ UNCHANGED caller
        /\ job' = [job EXCEPT ![next_index] = "running"]
    BY <1>6, PoolAssumption DEF SequentialStart, PoolInv, PoolTypeOK, HandedOut
  <2>2. Promise!Begin(next_index)
    BY <2>1 DEF Promise!Begin, CallState
  <2> QED BY <2>1, <2>2 DEF Promise!RunNext
<1>7. ASSUME NEW outcome \in Finished, SequentialFinish(outcome) PROVE Promise!RunNext
  <2>1. /\ next_index \in Jobs /\ job[next_index] = "running"
        /\ caller = "sequential" /\ UNCHANGED caller
        /\ job' = [job EXCEPT ![next_index] = outcome]
    BY <1>7, PoolAssumption DEF SequentialFinish, PoolInv, PoolTypeOK
  <2>2. Promise!End(next_index)
    BY <2>1 DEF Promise!End, CallState
  <2> QED BY <2>1, <2>2 DEF Promise!RunNext
<1>8. ASSUME NEW w \in Workers, Fetch(w)
      PROVE  Promise!RunNext \/ UNCHANGED Promise!runVars
  <2>1. caller \notin CallerEnds /\ caller # "sequential" /\ UNCHANGED caller
    BY <1>8, WorkerCountFact
       DEF Fetch, PoolInv, PoolTypeOK, ThreadLives, Workers, CallerEnds
  <2>2. CASE next_index >= JobCount
    BY <1>8, <2>1, <2>2 DEF Fetch, Promise!runVars, CallState
  <2>3. CASE ~(next_index >= JobCount)
    <3>1. /\ next_index \in Jobs /\ job[next_index] = "pending"
          /\ job' = [job EXCEPT ![next_index] = "running"]
      BY <1>8, <2>1, <2>3, PoolAssumption DEF Fetch, PoolInv, PoolTypeOK, HandedOut
    <3>2. Promise!Begin(next_index)
      BY <2>1, <3>1 DEF Promise!Begin, CallState, CallerEnds
    <3> QED BY <3>1, <3>2 DEF Promise!RunNext
  <2> QED BY <2>2, <2>3
<1>9. ASSUME NEW w \in Workers, NEW outcome \in Finished, Finish(w, outcome)
      PROVE  Promise!RunNext
  <2>1. caller \notin CallerEnds /\ caller # "sequential" /\ UNCHANGED caller
    BY <1>9, WorkerCountFact
       DEF Finish, PoolInv, PoolTypeOK, ThreadLives, Workers, CallerEnds
  <2>2. /\ claim[w] \in Jobs /\ job[claim[w]] = "running"
        /\ job' = [job EXCEPT ![claim[w]] = outcome]
    BY <1>9 DEF Finish, PoolInv, ExclusiveClaim
  <2>3. Promise!End(claim[w])
    BY <2>1, <2>2 DEF Promise!End, CallState, CallerEnds
  <2> QED BY <2>2, <2>3 DEF Promise!RunNext
<1> QED BY <1>1, <1>4, <1>5, <1>6, <1>7, <1>8, <1>9 DEF PoolNext, PoolCaller, PoolWorker

\* Seen from outside, run_indexed is the promise of cli/worker_pool.h, whatever
\* the interleaving of its threads.
THEOREM PoolRefines == PoolSpec => ImplementsIndexedRun
<1>1. PoolSpec => [][PoolInv /\ PoolInv' /\ [PoolNext]_poolVars]_poolVars
  BY PoolInvariant, PTL DEF PoolSpec
<1> QED BY PoolRefinesInit, PoolRefinesStep, PoolInvariant, PTL
        DEF PoolSpec, ImplementsIndexedRun, Promise!RunSpec

-------------------------------------------------------------------------------
(* The run.                                                                *)

\* What a job that stands before a step has found at the steps behind it.
Fine(yield) == yield \in {"ok", "partial"}
BehindIsFine(i) ==
  /\ at[i] # "policy" => Fine(world[i].policy)
  /\ at[i] = "presence" => world[i].side # "both"
  /\ at[i] \in {"baseline", "candidate", "compare"} => world[i].side = "both"
  /\ at[i] \in {"candidate", "compare"} => Fine(world[i].baseline)
  /\ at[i] = "compare" => Fine(world[i].candidate)

\* A pair whose job has not ended has left nothing yet.
JobsAreHonest ==
  \A i \in Jobs : IF job[i] \in Finished
                    THEN outcomes[i] = PairOutcome(world[i]) /\ results[i] = PairFindings(world[i])
                    ELSE outcomes[i] = NoOutcome /\ results[i] = <<>> /\ BehindIsFine(i)

SlotsTypeOK ==
  /\ world \in Worlds
  /\ at \in [Jobs -> {"policy", "baseline", "candidate", "compare", "presence"}]
  /\ outcomes \in [Jobs -> [hard_error : ErrorKinds \cup {"none"}, partial : BOOLEAN]]
  /\ results \in [Jobs -> {<<>>} \cup {world[i].findings : i \in Jobs}]

RunTypeOK ==
  /\ phase \in {"resolve", "pool", "output", "over"}
  /\ resolving \in 0..Len(ResolveSteps)

DirIInv == /\ PoolInv /\ RunTypeOK /\ SlotsTypeOK /\ JobsAreHonest
           /\ OutputInv /\ RollupFollowsPool

-------------------------------------------------------------------------------
(* The pool of a run.                                                      *)
LEMMA JobEndsInPool ==
  ASSUME NEW i \in Jobs, NEW outcome \in Finished, JobEnds(i, outcome)
  PROVE  PoolNext /\ job' = [job EXCEPT ![i] = outcome]
<1>1. CASE caller = "sequential" /\ next_index = i /\ SequentialFinish(outcome)
  BY <1>1 DEF PoolNext, PoolCaller, SequentialFinish
<1>2. CASE \E w \in Workers : claim[w] = i /\ Finish(w, outcome)
  BY <1>2 DEF PoolNext, PoolWorker, Finish
<1> QED BY <1>1, <1>2 DEF JobEnds

\* What a step of a job does: it goes on, or it ends with what its pair comes to.
JobGoesOn(i, step) == Advance(i, step) /\ BehindIsFine(i)'
JobIsOver(i) ==
  \E outcome \in Finished :
    /\ JobEnds(i, outcome) /\ UNCHANGED at
    /\ outcomes' = [outcomes EXCEPT ![i] = PairOutcome(world[i])]
    /\ results' = [results EXCEPT ![i] = PairFindings(world[i])]

-------------------------------------------------------------------------------
(* The fate of a pair.                                                     *)
LEMMA WorldOfPair ==
  ASSUME SlotsTypeOK, NEW i \in Jobs
  PROVE  /\ world[i].side \in {"both", "baseline", "candidate"}
         /\ world[i].policy \in Yields \ {"partial"} /\ world[i].compare \in Yields \ {"partial"}
         /\ world[i].baseline \in Yields /\ world[i].candidate \in Yields
BY DirAssumption DEF SlotsTypeOK, PairWorld

\* The first trouble is the fate.
LEMMA FirstTrouble ==
  ASSUME NEW pair, NEW k \in Troubles(pair), Troubles(pair) \subseteq Nat,
         \A m \in Troubles(pair) : k <= m
  PROVE  Min(Troubles(pair)) = k
<1> DEFINE S == Troubles(pair)
<1>1. Min(S) \in S /\ \A y \in S : Min(S) <= y
  BY DEF Min
<1> QED BY <1>1

\* The fate of a pair with one file only.
LEMMA FateOfLone ==
  ASSUME NEW pair, pair.side # "both"
  PROVE  Fate(pair) = IF Fine(pair.policy) THEN "ok" ELSE pair.policy
<1>1. Steps(pair) = <<"policy">> /\ DOMAIN Steps(pair) = {1}
  BY DEF Steps
<1>2. CASE Fine(pair.policy)
  BY <1>1, <1>2 DEF Troubles, Fate, Fine
<1>3. CASE ~Fine(pair.policy)
  <2>1. Troubles(pair) = {1}
    BY <1>1, <1>3 DEF Troubles, Fine
  <2>2. Min(Troubles(pair)) = 1
    BY <2>1, FirstTrouble
  <2> QED BY <1>1, <1>3, <2>1, <2>2 DEF Fate
<1> QED BY <1>2, <1>3

\* The fate of a pair of two files is that of its first step that goes wrong.
LEMMA FateOfBoth ==
  ASSUME NEW pair, pair.side = "both"
  PROVE  Fate(pair) = IF ~Fine(pair.policy) THEN pair.policy
                      ELSE IF ~Fine(pair.baseline) THEN pair.baseline
                      ELSE IF ~Fine(pair.candidate) THEN pair.candidate
                      ELSE IF Fine(pair.compare) THEN "ok"
                      ELSE IF pair.compare = "decode" THEN "undecoded" ELSE pair.compare
<1>1. Steps(pair) = <<"policy", "baseline", "candidate", "compare">> /\ DOMAIN Steps(pair) = 1..4
  BY DEF Steps
<1>2. Troubles(pair) = {k \in 1..4 : ~Fine(pair[Steps(pair)[k]])}
  BY <1>1 DEF Troubles, Fine
<1>3. Troubles(pair) \subseteq Nat
  BY <1>2
<1>4. /\ 1 \in Troubles(pair) <=> ~Fine(pair.policy)
      /\ 2 \in Troubles(pair) <=> ~Fine(pair.baseline)
      /\ 3 \in Troubles(pair) <=> ~Fine(pair.candidate)
      /\ 4 \in Troubles(pair) <=> ~Fine(pair.compare)
      /\ \A k \in Troubles(pair) : k \in {1, 2, 3, 4}
  BY <1>1, <1>2
<1>5. CASE 1 \in Troubles(pair)
  <2>1. Min(Troubles(pair)) = 1
    BY <1>3, <1>4, <1>5, FirstTrouble
  <2> QED BY <1>1, <1>4, <1>5, <2>1 DEF Fate
<1>6. CASE 1 \notin Troubles(pair) /\ 2 \in Troubles(pair)
  <2>1. Min(Troubles(pair)) = 2
    BY <1>3, <1>4, <1>6, FirstTrouble
  <2> QED BY <1>1, <1>4, <1>6, <2>1 DEF Fate
<1>7. CASE 1 \notin Troubles(pair) /\ 2 \notin Troubles(pair) /\ 3 \in Troubles(pair)
  <2>1. Min(Troubles(pair)) = 3
    BY <1>3, <1>4, <1>7, FirstTrouble
  <2> QED BY <1>1, <1>4, <1>7, <2>1 DEF Fate
<1>8. CASE Troubles(pair) \subseteq {4} /\ 4 \in Troubles(pair)
  <2>1. Min(Troubles(pair)) = 4
    BY <1>3, <1>4, <1>8, FirstTrouble
  <2> QED BY <1>1, <1>4, <1>8, <2>1 DEF Fate
<1>9. CASE Troubles(pair) = {}
  BY <1>4, <1>9 DEF Fate
<1> QED BY <1>4, <1>5, <1>6, <1>7, <1>8, <1>9

-------------------------------------------------------------------------------
(* A step of a job.                                                        *)

\* What a job that has left nothing writes to its slots.
LEMMA EmptySlots ==
  ASSUME SlotsTypeOK, NEW i \in Jobs, outcomes[i] = NoOutcome, results[i] = <<>>
  PROVE  [outcomes EXCEPT ![i] = NoOutcome] = outcomes /\ [results EXCEPT ![i] = <<>>] = results
BY DEF SlotsTypeOK

\* A mark in a slot is written to that slot only.
LEMMA MarkInSlot ==
  ASSUME NEW i \in Jobs, outcomes[i] = NoOutcome, NEW mark
  PROVE  [outcomes EXCEPT ![i].partial = mark]
           = [outcomes EXCEPT ![i] = [hard_error |-> "none", partial |-> mark]]
<1>1. [NoOutcome EXCEPT !.partial = mark] = [hard_error |-> "none", partial |-> mark]
  BY DEF NoOutcome
<1> QED BY <1>1

\* An error of the pair's own ends the job with the fate of the pair.
LEMMA HardErrorIsFate ==
  ASSUME SlotsTypeOK, NEW i \in Jobs, outcomes[i] = NoOutcome, results[i] = <<>>,
         NEW kind \in ErrorKinds, Fate(world[i]) = kind, HardError(i, kind)
  PROVE  JobIsOver(i)
<1> DEFINE mark == outcomes[i].partial
<1>mark. mark = FALSE
  BY DEF NoOutcome
<1>1. outcomes[i] = [hard_error |-> "none", partial |-> mark]
  BY DEF NoOutcome
<1>2. PairOutcome(world[i]) = [hard_error |-> kind, partial |-> FALSE] /\ PairFindings(world[i]) = <<>>
  BY DEF PairOutcome, PairFindings, ErrorKinds
<1>3. PairOutcome(world[i]) = [hard_error |-> kind, partial |-> mark]
  BY <1>mark, <1>2
<1>4. outcomes' = [outcomes EXCEPT ![i] = PairOutcome(world[i])]
  <2> HIDE DEF mark
  <2>1. outcomes' = [outcomes EXCEPT ![i].hard_error = kind]
    BY DEF HardError
  <2>2. [outcomes[i] EXCEPT !.hard_error = kind] = [hard_error |-> kind, partial |-> mark]
    BY <1>1
  <2> QED BY <1>3, <2>1, <2>2
<1>5. results' = [results EXCEPT ![i] = PairFindings(world[i])]
  BY <1>2, EmptySlots DEF HardError
<1>6. JobEnds(i, "done") /\ UNCHANGED at
  BY DEF HardError
<1> QED BY <1>4, <1>5, <1>6 DEF JobIsOver, Finished

\* A step of a job ends it or moves it on, and tells of its files what they have.
LEMMA JobStepIsHonest ==
  ASSUME SlotsTypeOK, JobsAreHonest, NEW i \in Jobs, JobStep(i)
  PROVE  /\ UNCHANGED <<outVars, resolving, world>>
         /\ JobIsOver(i) \/ \E step \in {"baseline", "candidate", "compare", "presence"} : JobGoesOn(i, step)
<1>1. UNCHANGED <<outVars, resolving, world>>
  BY DEF JobStep
<1>2. job[i] = "running"
  BY DEF JobStep, PolicyStep, FingerprintStep, CompareStep, PresenceStep, JobThrows, JobAt
<1>3. outcomes[i] = NoOutcome /\ results[i] = <<>> /\ BehindIsFine(i)
  BY <1>2 DEF JobsAreHonest, Finished
<1> DEFINE pair == world[i]
<1>4. /\ pair.side \in {"both", "baseline", "candidate"}
      /\ pair.policy \in Yields \ {"partial"} /\ pair.compare \in Yields \ {"partial"}
      /\ pair.baseline \in Yields /\ pair.candidate \in Yields
  BY WorldOfPair
<1> HIDE DEF pair
<1>5. ASSUME PolicyStep(i) PROVE JobIsOver(i) \/ \E step \in {"baseline", "presence"} : JobGoesOn(i, step)
  <2>1. at[i] = "policy" /\ pair.policy # "throws"
    BY <1>5 DEF PolicyStep, JobAt, pair
  <2>2. CASE pair.policy \in ErrorKinds
    <3>1. HardError(i, pair.policy)
      BY <1>5, <2>2 DEF PolicyStep, pair
    <3>2. Fate(pair) = pair.policy
      BY <2>2, FateOfLone, FateOfBoth DEF Fine, ErrorKinds
    <3> QED BY <1>3, <2>2, <3>1, <3>2, HardErrorIsFate DEF pair
  <2>3. CASE pair.policy \notin ErrorKinds
    <3>1. Fine(pair.policy)
      BY <1>4, <2>1, <2>3 DEF Yields, Fine
    <3>2. Advance(i, IF pair.side = "both" THEN "baseline" ELSE "presence")
      BY <1>5, <2>3 DEF PolicyStep, pair
    <3>3. BehindIsFine(i)'
      BY <1>1, <3>1, <3>2 DEF Advance, BehindIsFine, SlotsTypeOK, pair
    <3> QED BY <3>2, <3>3 DEF JobGoesOn
  <2> QED BY <2>2, <2>3
<1>6. ASSUME FingerprintStep(i, "baseline", "candidate") PROVE JobIsOver(i) \/ JobGoesOn(i, "candidate")
  <2>1. at[i] = "baseline" /\ pair.baseline # "throws" /\ pair.side = "both" /\ Fine(pair.policy)
    BY <1>3, <1>6 DEF FingerprintStep, JobAt, BehindIsFine, pair
  <2>2. CASE pair.baseline \in ErrorKinds
    <3>1. HardError(i, pair.baseline)
      BY <1>6, <2>2 DEF FingerprintStep, pair
    <3>2. Fate(pair) = pair.baseline
      BY <2>1, <2>2, FateOfBoth DEF Fine, ErrorKinds
    <3> QED BY <1>3, <2>2, <3>1, <3>2, HardErrorIsFate DEF pair
  <2>3. CASE pair.baseline \notin ErrorKinds
    <3>1. Fine(pair.baseline) /\ Advance(i, "candidate")
      BY <1>4, <1>6, <2>1, <2>3 DEF Yields, Fine, FingerprintStep, pair
    <3>2. BehindIsFine(i)'
      BY <1>1, <2>1, <3>1 DEF Advance, BehindIsFine, SlotsTypeOK, pair
    <3> QED BY <3>1, <3>2 DEF JobGoesOn
  <2> QED BY <2>2, <2>3
<1>7. ASSUME FingerprintStep(i, "candidate", "compare") PROVE JobIsOver(i) \/ JobGoesOn(i, "compare")
  <2>1. /\ at[i] = "candidate" /\ pair.candidate # "throws" /\ pair.side = "both"
        /\ Fine(pair.policy) /\ Fine(pair.baseline)
    BY <1>3, <1>7 DEF FingerprintStep, JobAt, BehindIsFine, pair
  <2>2. CASE pair.candidate \in ErrorKinds
    <3>1. HardError(i, pair.candidate)
      BY <1>7, <2>2 DEF FingerprintStep, pair
    <3>2. Fate(pair) = pair.candidate
      BY <2>1, <2>2, FateOfBoth DEF Fine, ErrorKinds
    <3> QED BY <1>3, <2>2, <3>1, <3>2, HardErrorIsFate DEF pair
  <2>3. CASE pair.candidate \notin ErrorKinds
    <3>1. Fine(pair.candidate) /\ Advance(i, "compare")
      BY <1>4, <1>7, <2>1, <2>3 DEF Yields, Fine, FingerprintStep, pair
    <3>2. BehindIsFine(i)'
      BY <1>1, <2>1, <3>1 DEF Advance, BehindIsFine, SlotsTypeOK, pair
    <3> QED BY <3>1, <3>2 DEF JobGoesOn
  <2> QED BY <2>2, <2>3
<1>8. ASSUME CompareStep(i) PROVE JobIsOver(i)
  <2>1. /\ at[i] = "compare" /\ pair.compare # "throws" /\ pair.side = "both"
        /\ Fine(pair.policy) /\ Fine(pair.baseline) /\ Fine(pair.candidate)
    BY <1>3, <1>8 DEF CompareStep, JobAt, BehindIsFine, pair
  <2> DEFINE partial == "partial" \in {pair.baseline, pair.candidate}
  <2>2. CASE pair.compare = "ok"
    <3>1. /\ results' = [results EXCEPT ![i] = pair.findings]
          /\ outcomes' = [outcomes EXCEPT ![i].partial = partial]
          /\ JobEnds(i, "done") /\ UNCHANGED at
      BY <1>8, <2>2 DEF CompareStep, pair
    <3>2. Fate(pair) = "ok"
      BY <2>1, <2>2, FateOfBoth DEF Fine
    <3>3. PairOutcome(pair) = [hard_error |-> "none", partial |-> partial] /\ PairFindings(pair) = pair.findings
      <4>1. "ok" \notin ErrorKinds /\ "ok" # "undecoded"
        BY DEF ErrorKinds
      <4>2. (Fate(pair) = "undecoded" \/ (Fate(pair) = "ok" /\ pair.side = "both" /\ partial)) = partial
        BY <2>1, <3>2
      <4> HIDE DEF partial
      <4>3. PairOutcome(pair).hard_error = "none"
        BY <3>2, <4>1 DEF PairOutcome
      <4> QED BY <3>2, <4>1, <4>2 DEF PairOutcome, PairFindings, partial
    <3>4. outcomes' = [outcomes EXCEPT ![i] = PairOutcome(pair)]
      <4>1. outcomes' = [outcomes EXCEPT ![i] = [hard_error |-> "none", partial |-> partial]]
        BY <1>3, <3>1, MarkInSlot
      <4> QED BY <3>3, <4>1
    <3> QED BY <3>1, <3>3, <3>4 DEF JobIsOver, Finished, pair
  <2>3. CASE pair.compare = "decode"
    <3>1. /\ outcomes' = [outcomes EXCEPT ![i].partial = TRUE]
          /\ JobEnds(i, "done") /\ UNCHANGED <<at, results>>
      BY <1>8, <2>3 DEF CompareStep, pair
    <3>2. Fate(pair) = "undecoded"
      BY <2>1, <2>3, FateOfBoth DEF Fine
    <3>3. PairOutcome(pair) = [hard_error |-> "none", partial |-> TRUE] /\ PairFindings(pair) = <<>>
      BY <3>2 DEF PairOutcome, PairFindings, ErrorKinds
    <3>4. outcomes' = [outcomes EXCEPT ![i] = PairOutcome(pair)]
      <4>1. outcomes' = [outcomes EXCEPT ![i] = [hard_error |-> "none", partial |-> TRUE]]
        BY <1>3, <3>1, MarkInSlot
      <4> QED BY <3>3, <4>1
    <3>5. results' = [results EXCEPT ![i] = PairFindings(pair)]
      BY <1>3, <3>1, <3>3, EmptySlots
    <3> QED BY <3>1, <3>4, <3>5 DEF JobIsOver, Finished, pair
  <2>4. CASE pair.compare \notin {"ok", "decode"}
    <3>1. HardError(i, pair.compare) /\ pair.compare \in ErrorKinds
      BY <1>4, <1>8, <2>1, <2>4 DEF CompareStep, Yields, pair
    <3>2. Fate(pair) = pair.compare
      BY <2>1, <2>4, <3>1, FateOfBoth DEF Fine, ErrorKinds
    <3> QED BY <1>3, <3>1, <3>2, HardErrorIsFate DEF pair
  <2> QED BY <2>2, <2>3, <2>4
<1>9. ASSUME PresenceStep(i) PROVE JobIsOver(i)
  <2>1. pair.side # "both" /\ Fine(pair.policy)
    BY <1>3, <1>9 DEF PresenceStep, JobAt, BehindIsFine, pair
  <2>2. Fate(pair) = "ok"
    BY <2>1, FateOfLone
  <2>3. PairOutcome(pair) = NoOutcome /\ PairFindings(pair) = pair.findings
    BY <2>1, <2>2 DEF PairOutcome, PairFindings, ErrorKinds, NoOutcome
  <2>4. /\ results' = [results EXCEPT ![i] = PairFindings(pair)]
        /\ JobEnds(i, "done") /\ UNCHANGED <<at, outcomes>>
    BY <1>9, <2>3 DEF PresenceStep, pair
  <2>5. outcomes' = [outcomes EXCEPT ![i] = PairOutcome(pair)]
    BY <1>3, <2>3, <2>4, EmptySlots
  <2> QED BY <2>4, <2>5 DEF JobIsOver, Finished, pair
<1>10. ASSUME JobThrows(i) PROVE JobIsOver(i)
  <2>1. /\ at[i] \in {"policy", "baseline", "candidate", "compare"} /\ pair[at[i]] = "throws"
        /\ JobEnds(i, "threw") /\ UNCHANGED <<at, results, outcomes>>
    BY <1>10 DEF JobThrows, pair
  <2>2. Fate(pair) = "throws"
    BY <1>3, <2>1, FateOfLone, FateOfBoth DEF BehindIsFine, Fine, pair
  <2>3. PairOutcome(pair) = NoOutcome /\ PairFindings(pair) = <<>>
    BY <2>2 DEF PairOutcome, PairFindings, ErrorKinds, NoOutcome
  <2>4. outcomes' = [outcomes EXCEPT ![i] = PairOutcome(pair)] /\ results' = [results EXCEPT ![i] = PairFindings(pair)]
    BY <1>3, <2>1, <2>3, EmptySlots
  <2> QED BY <2>1, <2>4 DEF JobIsOver, Finished, pair
<1> QED BY <1>1, <1>5, <1>6, <1>7, <1>8, <1>9, <1>10 DEF JobStep

-------------------------------------------------------------------------------
(* A step of a run.                                                        *)
LEMMA PairSlots ==
  ASSUME SlotsTypeOK, NEW i \in Jobs
  PROVE  /\ PairOutcome(world[i]) \in [hard_error : ErrorKinds \cup {"none"}, partial : BOOLEAN]
         /\ PairFindings(world[i]) \in {<<>>} \cup {world[j].findings : j \in Jobs}
<1>1. PairFindings(world[i]) \in {<<>>} \cup {world[j].findings : j \in Jobs}
  BY DEF PairFindings
<1>2. (IF Fate(world[i]) \in ErrorKinds THEN Fate(world[i]) ELSE "none") \in ErrorKinds \cup {"none"}
  OBVIOUS
<1> QED BY <1>1, <1>2 DEF PairOutcome

\* A step of a job is one of the pool, or none, and keeps every pair's slots its own.
LEMMA JobStepKeeps ==
  ASSUME DirIInv, NEW i \in Jobs, JobStep(i)
  PROVE  [PoolNext]_poolVars /\ RunTypeOK' /\ SlotsTypeOK' /\ JobsAreHonest'
<1>1. PoolInv /\ RunTypeOK /\ SlotsTypeOK /\ JobsAreHonest /\ job \in [Jobs -> {"pending", "running"} \cup Finished]
  BY DEF DirIInv, PoolInv, PoolTypeOK
<1>2. /\ UNCHANGED <<outVars, resolving, world>>
      /\ JobIsOver(i) \/ \E step \in {"baseline", "candidate", "compare", "presence"} : JobGoesOn(i, step)
  BY <1>1, JobStepIsHonest
<1>3. RunTypeOK'
  BY <1>1, <1>2 DEF RunTypeOK, outVars
<1>4. ASSUME JobIsOver(i) PROVE [PoolNext]_poolVars /\ SlotsTypeOK' /\ JobsAreHonest'
  <2>1. PICK outcome \in Finished :
          /\ JobEnds(i, outcome) /\ UNCHANGED at
          /\ outcomes' = [outcomes EXCEPT ![i] = PairOutcome(world[i])]
          /\ results' = [results EXCEPT ![i] = PairFindings(world[i])]
    BY <1>4 DEF JobIsOver
  <2>2. PoolNext /\ job' = [job EXCEPT ![i] = outcome]
    BY <2>1, JobEndsInPool
  <2>3. SlotsTypeOK'
    BY <1>1, <1>2, <2>1, PairSlots DEF SlotsTypeOK
  <2>4. ASSUME NEW j \in Jobs
        PROVE  IF job'[j] \in Finished
                 THEN outcomes'[j] = PairOutcome(world[j]) /\ results'[j] = PairFindings(world[j])
                 ELSE outcomes'[j] = NoOutcome /\ results'[j] = <<>> /\ BehindIsFine(j)'
    <3>1. CASE j = i
      BY <1>1, <2>1, <2>2, <3>1 DEF SlotsTypeOK
    <3>2. CASE j # i
      <4>1. job'[j] = job[j] /\ outcomes'[j] = outcomes[j] /\ results'[j] = results[j]
        BY <1>1, <2>1, <2>2, <3>2 DEF SlotsTypeOK
      <4>2. BehindIsFine(j)' = BehindIsFine(j)
        BY <1>2, <2>1 DEF BehindIsFine
      <4> QED BY <1>1, <4>1, <4>2 DEF JobsAreHonest
    <3> QED BY <3>1, <3>2
  <2>5. JobsAreHonest'
    BY <1>2, <2>4 DEF JobsAreHonest
  <2> QED BY <2>2, <2>3, <2>5
<1>5. ASSUME NEW step \in {"baseline", "candidate", "compare", "presence"}, JobGoesOn(i, step)
      PROVE  [PoolNext]_poolVars /\ SlotsTypeOK' /\ JobsAreHonest'
  <2>1. at' = [at EXCEPT ![i] = step] /\ UNCHANGED <<poolVars, results, outcomes>> /\ BehindIsFine(i)'
    BY <1>5 DEF JobGoesOn, Advance
  <2>2. SlotsTypeOK'
    BY <1>1, <1>2, <2>1 DEF SlotsTypeOK
  <2>3. job' = job
    BY <2>1 DEF poolVars
  <2>4. job[i] \notin Finished
    BY DEF JobStep, PolicyStep, FingerprintStep, CompareStep, PresenceStep, JobThrows, JobAt, Finished
  <2>5. ASSUME NEW j \in Jobs, j # i PROVE BehindIsFine(j)' = BehindIsFine(j)
    <3>1. at'[j] = at[j]
      BY <1>1, <2>1, <2>5 DEF SlotsTypeOK
    <3> QED BY <1>2, <3>1 DEF BehindIsFine
  <2>6. JobsAreHonest'
    BY <1>1, <1>2, <2>1, <2>3, <2>4, <2>5 DEF JobsAreHonest
  <2> QED BY <2>1, <2>2, <2>6
<1> QED BY <1>2, <1>3, <1>4, <1>5

\* The steps of the pool itself start jobs and end none.
PoolOwnStep ==
  \/ Call \/ SequentialStart \/ SequentialReturn \/ Spawn \/ Join \/ SpawnFails
  \/ \E w \in Workers : Fetch(w)

\* The pool's own steps leave places and slots alone.
LEMMA PoolOwnStepKeeps ==
  ASSUME DirIInv, PoolOwnStep, UNCHANGED <<world, at, results, outcomes>>
  PROVE  PoolNext /\ SlotsTypeOK' /\ JobsAreHonest'
<1>1. PoolInv /\ SlotsTypeOK /\ JobsAreHonest
  BY DEF DirIInv
<1>2. PoolNext
  BY DEF PoolOwnStep, PoolNext, PoolCaller, PoolWorker
<1>3. SlotsTypeOK'
  BY <1>1 DEF SlotsTypeOK
<1>4. ASSUME NEW i \in Jobs PROVE job[i] \in Finished <=> job'[i] \in Finished
  <2>1. job[i] \in Finished => job'[i] \in Finished
    BY <1>1, <1>2, FinishedStays
  <2>2. job'[i] = job[i] \/ job'[i] = "running"
    BY <1>1 DEF PoolOwnStep, Call, SequentialStart, SequentialReturn, Spawn, Join, SpawnFails, Fetch,
                PoolInv, PoolTypeOK
  <2> QED BY <2>1, <2>2 DEF Finished
<1>5. \A i \in Jobs : BehindIsFine(i)' = BehindIsFine(i)
  BY DEF BehindIsFine
<1>6. JobsAreHonest'
  BY <1>1, <1>4, <1>5 DEF JobsAreHonest
<1> QED BY <1>2, <1>3, <1>6

\* The settings are resolved in so many steps.
LEMMA ResolveCount == Len(ResolveSteps) \in Nat
BY DEF ResolveSteps

\* Nothing is said while the settings are resolved or the pool is at work.
LEMMA NothingSaidBefore ==
  ASSUME OutputInv, phase # "over", UNCHANGED <<request, out, exit>>,
         phase' = "output" => caller' = "returned"
  PROVE  OutputInv' /\ RollupFollowsPool'
<1>1. OutputInv'
  BY QuietKeeps
<1>2. exit'.from # "verdict"
  BY DEF OutputInv, NotYet
<1> QED BY <1>1, <1>2 DEF RollupFollowsPool

\* An end without a verdict.
LEMMA EndsWithoutVerdict ==
  ASSUME OutputInv, phase # "over", NEW code, NEW from, from # "verdict", Leave(code, from), UNCHANGED out
  PROVE  OutputInv' /\ RollupFollowsPool'
<1>1. OutputInv'
  BY LeaveKeeps
<1>2. exit'.from # "verdict" /\ phase' = "over"
  BY DEF Leave
<1> QED BY <1>1, <1>2 DEF RollupFollowsPool

\* The output follows the pool and the verdict the slots.
LEMMA OutputFollows ==
  ASSUME OutputInv, RollupFollowsPool, [DirNext]_vars
  PROVE  OutputInv' /\ RollupFollowsPool'
<1>1. CASE Resolve
  BY <1>1, NothingSaidBefore DEF Resolve
<1>2. CASE ResolveFails
  BY <1>2, EndsWithoutVerdict DEF ResolveFails, Refuse
<1>3. CASE PoolCallerStep \/ \E w \in Workers : FetchStep(w)
  BY <1>3, NothingSaidBefore DEF PoolCallerStep, FetchStep, outVars
<1>4. CASE PoolFails
  BY <1>4, EndsWithoutVerdict DEF PoolFails
<1>5. CASE \E i \in Jobs : JobStep(i)
  <2>1. PICK i \in Jobs : JobStep(i)
    BY <1>5
  <2>2. phase = "pool"
    BY <2>1 DEF JobStep, PolicyStep, FingerprintStep, CompareStep, PresenceStep, JobThrows, JobAt
  <2>3. UNCHANGED <<phase, request, out, exit>>
    BY <2>1 DEF JobStep, outVars
  <2> QED BY <2>2, <2>3, NothingSaidBefore
<1>6. CASE StartOutput
  BY <1>6, NothingSaidBefore DEF StartOutput, poolVars
<1>7. CASE Write /\ UNCHANGED <<poolVars, dirVars>>
  <2>1. OutputInv'
    BY <1>7, WriteKeeps
  <2>2. phase = "output" /\ exit = NotYet
    BY <1>7 DEF Write, EmitStdout, WriteFile, OutputInv
  <2>3. exit'.from # "verdict" /\ caller' = caller
    BY <1>7, <2>2 DEF Write, EmitStdout, WriteFile, Leave, NotYet, poolVars
  <2> QED BY <2>1, <2>2, <2>3 DEF RollupFollowsPool
<1>8. CASE Conclude(VerdictCode) /\ UNCHANGED <<poolVars, dirVars>>
  <2>1. /\ phase = "output" /\ phase' = "over" /\ exit' = [code |-> VerdictCode, from |-> "verdict"]
        /\ Len(out) = Len(Destinations(request)) /\ UNCHANGED <<request, out, caller, outcomes, results>>
    BY <1>8 DEF Conclude, Leave, poolVars, dirVars
  <2>2. OutputInv'
    BY <1>8, <2>1, LeaveKeeps DEF Conclude
  <2>3. VerdictCode' = VerdictCode
    BY <2>1 DEF VerdictCode, HardErrors, AnyPartial, Totals
  <2> QED BY <2>1, <2>2, <2>3 DEF RollupFollowsPool
<1>9. CASE OutputThrows
  BY <1>9, EndsWithoutVerdict DEF OutputThrows, RenderThrows
<1>10. CASE UNCHANGED vars
  <2>1. UNCHANGED <<phase, request, out, exit, caller, outcomes, results>>
    BY <1>10 DEF vars, outVars, poolVars, dirVars
  <2>2. OutputInv'
    BY <2>1, QuietKeeps
  <2>3. VerdictCode' = VerdictCode
    BY <2>1 DEF VerdictCode, HardErrors, AnyPartial, Totals
  <2> QED BY <2>1, <2>2, <2>3 DEF RollupFollowsPool
<1> QED BY <1>1, <1>2, <1>3, <1>4, <1>5, <1>6, <1>7, <1>8, <1>9, <1>10
        DEF DirNext, MainThread, WorkerThread, Output

\* Each step of `dir` keeps the invariant, and is a step of the pool or leaves it alone.
LEMMA DirStepKeeps ==
  ASSUME DirIInv, [DirNext]_vars
  PROVE  [PoolNext]_poolVars /\ DirIInv'
<1>1. RunTypeOK /\ SlotsTypeOK /\ JobsAreHonest /\ PoolInv
  BY DEF DirIInv
<1>2. ASSUME UNCHANGED <<poolVars, world, at, results, outcomes>>
      PROVE  [PoolNext]_poolVars /\ SlotsTypeOK' /\ JobsAreHonest'
  <2>1. \A i \in Jobs : BehindIsFine(i)' = BehindIsFine(i)
    BY <1>2 DEF BehindIsFine
  <2> QED BY <1>1, <1>2, <2>1 DEF poolVars, SlotsTypeOK, JobsAreHonest
<1>3. [PoolNext]_poolVars /\ RunTypeOK' /\ SlotsTypeOK' /\ JobsAreHonest'
  <2>1. CASE Resolve
    <3>1. RunTypeOK'
      BY <1>1, <2>1, ResolveCount DEF Resolve, RunTypeOK
    <3> QED BY <1>2, <2>1, <3>1 DEF Resolve
  <2>2. CASE ResolveFails \/ StartOutput \/ Output \/ OutputThrows
    <3>1. UNCHANGED <<poolVars, dirVars>>
      BY <2>2 DEF ResolveFails, StartOutput, Output, OutputThrows
    <3>2. phase' \in {"resolve", "pool", "output", "over"}
      BY <1>1, <2>2 DEF RunTypeOK, ResolveFails, Refuse, Leave, StartOutput, Output, OutputThrows, RenderThrows,
                        Write, EmitStdout, WriteFile, Conclude
    <3> QED BY <1>1, <1>2, <3>1, <3>2 DEF dirVars, RunTypeOK
  <2>3. CASE PoolCallerStep \/ \E w \in Workers : FetchStep(w)
    <3>1. PoolOwnStep /\ UNCHANGED <<outVars, dirVars>>
      BY <2>3 DEF PoolCallerStep, FetchStep, PoolOwnStep
    <3> QED BY <1>1, <3>1, PoolOwnStepKeeps DEF outVars, dirVars, RunTypeOK
  <2>4. CASE PoolFails
    <3>1. PoolOwnStep /\ UNCHANGED dirVars /\ phase' = "over"
      BY <2>4 DEF PoolFails, PoolOwnStep, Leave
    <3> QED BY <1>1, <3>1, PoolOwnStepKeeps DEF dirVars, RunTypeOK
  <2>5. CASE \E i \in Jobs : JobStep(i)
    BY <2>5, JobStepKeeps
  <2>6. CASE UNCHANGED vars
    BY <1>1, <1>2, <2>6 DEF vars, outVars, dirVars, RunTypeOK
  <2> QED BY <2>1, <2>2, <2>3, <2>4, <2>5, <2>6 DEF DirNext, MainThread, WorkerThread
<1>4. PoolInv'
  BY <1>1, <1>3, PoolStepInv
<1>5. OutputInv' /\ RollupFollowsPool'
  BY OutputFollows DEF DirIInv
<1> QED BY <1>3, <1>4, <1>5 DEF DirIInv

\* `dir` starts with empty slots.
LEMMA DirStarts == DirInit => DirIInv
<1> SUFFICES ASSUME DirInit PROVE DirIInv
  OBVIOUS
<1>1. PoolInv
  BY PoolInitInv DEF DirInit
<1>2. RunTypeOK
  BY ResolveCount DEF DirInit, RunTypeOK
<1>3. SlotsTypeOK
  BY DEF DirInit, SlotsTypeOK, NoOutcome
<1>4. JobsAreHonest
  BY DEF DirInit, PoolInit, JobsAreHonest, BehindIsFine, Finished
<1>5. OutputInv /\ RollupFollowsPool
  <2>1. /\ request \in CommandLine /\ out = <<>> /\ exit = NotYet /\ phase = "resolve"
    BY DirAssumption DEF DirInit
  <2>2. Destinations(request) \in Seq({"stdout", "file"})
    BY <2>1, DestinationsCount
  <2> QED BY <2>1, <2>2 DEF OutputInv, RollupFollowsPool, NotYet
<1> QED BY <1>1, <1>2, <1>3, <1>4, <1>5 DEF DirIInv

-------------------------------------------------------------------------------
(* The shares of the memory budget.                                        *)
RunningJobs == {i \in Jobs : job[i] = "running"}

\* In the sequential loop one job runs; otherwise each has a thread of its own.
LEMMA FewRun ==
  ASSUME PoolInv
  PROVE  /\ IsFiniteSet(RunningJobs) /\ Cardinality(RunningJobs) \in Nat
         /\ Cardinality(RunningJobs) <= 1 \/ Cardinality(RunningJobs) <= ThreadCount
<1>1. IsFiniteSet(Jobs)
  BY FS_Interval, PoolAssumption DEF Jobs
<1>2. IsFiniteSet(RunningJobs) /\ Cardinality(RunningJobs) \in Nat
  BY <1>1, FS_Subset, FS_CardinalityType DEF RunningJobs
<1>3. CASE caller = "sequential"
  <2>1. RunningJobs \subseteq {next_index}
    BY <1>3, PoolAssumption DEF PoolInv, PoolTypeOK, HandedOut, RunningJobs, Jobs, Finished
  <2>2. IsFiniteSet({next_index}) /\ Cardinality({next_index}) = 1
    BY FS_Singleton
  <2>3. Cardinality(RunningJobs) <= 1
    BY <2>1, <2>2, FS_Subset
  <2> QED BY <1>2, <2>3
<1>4. CASE caller # "sequential"
  <2> DEFINE Busy == {w \in Workers : worker[w] = "run"}
             Held == [w \in Busy |-> claim[w]]
  <2>1. IsFiniteSet(Workers) /\ Cardinality(Workers) <= ThreadCount /\ Cardinality(Workers) \in Nat
    <3>1. WorkerCount \in Nat /\ WorkerCount <= ThreadCount
      BY PoolAssumption DEF WorkerCount
    <3>2. IsFiniteSet(1..WorkerCount) /\ Cardinality(1..WorkerCount) = WorkerCount
      BY <3>1, FS_Interval
    <3> QED BY <3>1, <3>2 DEF Workers
  <2>2. IsFiniteSet(Busy) /\ Cardinality(Busy) <= Cardinality(Workers) /\ Cardinality(Busy) \in Nat
    BY <2>1, FS_Subset, FS_CardinalityType
  <2>3. \A w \in Busy : Held[w] \in RunningJobs
    BY DEF PoolInv, ExclusiveClaim, RunningJobs
  <2>4. \A i \in RunningJobs : \E w \in Busy : Held[w] = i
    BY <1>4 DEF PoolInv, RunningIsClaimed, RunningJobs
  <2>5. Held \in Surjection(Busy, RunningJobs)
    BY <2>3, <2>4 DEF Surjection
  <2>6. Cardinality(RunningJobs) <= Cardinality(Busy)
    BY <2>2, <2>5, FS_Surjection
  <2> QED BY <1>2, <2>1, <2>2, <2>6, PoolAssumption
<1> QED BY <1>2, <1>3, <1>4

\* The shares of so many threads are no more than the whole.
LEMMA SharesFit ==
  ASSUME NEW count \in Nat, NEW threads \in Nat \ {0}, NEW whole \in Nat, count <= threads
  PROVE  count * (whole \div threads) <= whole
<1>1. whole \div threads \in Nat /\ threads * (whole \div threads) <= whole
  OBVIOUS
<1>2. count * (whole \div threads) <= threads * (whole \div threads)
  BY <1>1
<1> QED BY <1>1, <1>2

\* So the scans under way fit the budget.
LEMMA ScansFit == ASSUME PoolInv PROVE ScansWithinBudget
<1>1. Scanning \subseteq RunningJobs
  BY DEF Scanning, RunningJobs
<1>2. IsFiniteSet(Scanning) /\ Cardinality(Scanning) <= Cardinality(RunningJobs) /\ Cardinality(Scanning) \in Nat
  BY <1>1, FewRun, FS_Subset, FS_CardinalityType
<1> DEFINE count == Cardinality(Scanning)
<1>3. count \in Nat /\ (count <= 1 \/ count <= ThreadCount)
  BY <1>2, FewRun, PoolAssumption
<1> HIDE DEF count
<1>4. CASE ThreadCount <= 1
  <2>1. count = 0 \/ count = 1
    BY <1>3, <1>4, PoolAssumption
  <2>2. count * Budget <= Budget
    BY <2>1, DirAssumption
  <2> QED BY <1>4, <2>2 DEF ScansWithinBudget, PerFileCap, count
<1>5. CASE ~(ThreadCount <= 1)
  <2>1. ThreadCount \in Nat \ {0} /\ count <= ThreadCount
    BY <1>3, <1>5, PoolAssumption
  <2>2. count * (Budget \div ThreadCount) <= Budget
    BY <1>3, <2>1, SharesFit, DirAssumption
  <2> QED BY <1>5, <2>2 DEF ScansWithinBudget, PerFileCap, count
<1> QED BY <1>4, <1>5

-------------------------------------------------------------------------------
\* Throughout a run of `dir` a job is where its pair's own files have brought it, and
\* a slot is written by its job alone: the strengthened invariant.
THEOREM DirInvariant == DirSpec => []DirIInv
<1>1. DirIInv /\ [DirNext]_vars => DirIInv'
  BY DirStepKeeps
<1> QED BY <1>1, DirStarts, PTL DEF DirSpec

\* Whatever the other pairs, the threads and their order: a finished pair has left in
\* its slots what its own files come to, and the scans under way fit the budget
\* (cli/commands/dir.cpp: one slot per job and no lock).
THEOREM DirKeepsPairsApart == DirSpec => []DirInv
<1>1. DirIInv => DirTypeOK
  <2> SUFFICES ASSUME DirIInv PROVE DirTypeOK
    OBVIOUS
  <2>1. \A i \in Jobs : results[i] \in {<<>>, world[i].findings}
    BY DEF DirIInv, JobsAreHonest, PairFindings
  <2> QED BY <2>1 DEF DirIInv, PoolInv, RunTypeOK, SlotsTypeOK, DirTypeOK
<1>2. DirIInv => SlotsAreThePairsOwn
  BY DEF DirIInv, JobsAreHonest, SlotsAreThePairsOwn
<1>3. DirIInv => ScansWithinBudget
  BY ScansFit DEF DirIInv
<1>4. DirIInv => DirInv
  BY <1>1, <1>2, <1>3 DEF DirInv, DirIInv
<1> QED BY <1>4, DirInvariant, PTL

\* A verdict of dir is given only when every report file asked for is whole.
THEOREM DirWritesReports == DirSpec => []VerdictMeansReportsWritten
<1>1. DirIInv => VerdictMeansReportsWritten
  BY WrittenFromInv DEF DirIInv
<1> QED BY <1>1, DirInvariant, PTL

-------------------------------------------------------------------------------
(* The verdict of a corpus.                                                *)

\* The findings of pair i, as its own files determine them.
LEMMA PairFindingsType ==
  ASSUME SlotsTypeOK, NEW i \in Jobs
  PROVE  PairFindings(world[i]) \in Seq(Findings(Nat)) /\ IsJudged(PairFindings(world[i]))
<1>1. world[i].findings \in Seq(Findings(Nat))
  BY DirAssumption DEF SlotsTypeOK, PairWorld
<1>2. PairFindings(world[i]) \in Seq(Findings(Nat))
  BY <1>1 DEF PairFindings
<1>3. \A k \in DOMAIN PairFindings(world[i]) : PairFindings(world[i])[k] \in Findings(Nat)
  BY <1>2
<1> QED BY <1>2, <1>3 DEF IsJudged, Findings

\* The severities of the gating findings of all pairs.
GatingOfPairs ==
  UNION {{f.severity : f \in {g \in Range(PairFindings(world[i])) : Gates(g.status)}} : i \in Jobs}

\* The totals are those of the findings of the pairs.
LEMMA TotalsOfWorld ==
  ASSUME SlotsTypeOK, \A i \in Jobs : results[i] = PairFindings(world[i])
  PROVE  /\ Totals \in Summaries
         /\ GatingOfPairs \subseteq Severities
         /\ \A s \in GatingOfPairs : s <= Totals.worst_gating
         /\ Totals.worst_gating = Ignore \/ Totals.worst_gating \in GatingOfPairs
<1> DEFINE slots == [n \in 1..JobCount |-> results[n - 1]]
           Gating(i) == {f.severity : f \in {g \in Range(PairFindings(world[i])) : Gates(g.status)}}
<1>1. /\ JobCount \in Nat /\ DOMAIN slots = 1..JobCount
      /\ \A n \in 1..JobCount : n - 1 \in Jobs
      /\ \A i \in Jobs : i + 1 \in 1..JobCount /\ (i + 1) - 1 = i
  BY PoolAssumption DEF Jobs
<1>2. \A n \in 1..JobCount : slots[n] = PairFindings(world[n - 1]) /\ slots[n] = results[n - 1]
  BY <1>1
<1>3. slots \in Seq(Seq(Findings(Nat))) /\ Len(slots) = JobCount
  <2>1. \A n \in 1..JobCount : slots[n] \in Seq(Findings(Nat))
    BY <1>1, <1>2, PairFindingsType
  <2> QED BY <1>1, <2>1
<1>4. \A n \in DOMAIN slots : IsJudged(slots[n])
  BY <1>1, <1>2, PairFindingsType
<1>5. Totals = CombineAll([n \in DOMAIN slots |-> SummaryOf(slots[n])])
  BY <1>1, <1>2 DEF Totals
<1> HIDE DEF slots
<1>6. Totals \in Summaries /\ IsTotal(Totals, slots, JobCount)
  BY <1>3, <1>4, <1>5, TotalsAreTally
<1>7. ASSUME NEW i \in Jobs
      PROVE  /\ Gating(i) \subseteq Severities
             /\ \A s \in Gating(i) : s <= SummaryOf(slots[i + 1]).worst_gating
             /\ SummaryOf(slots[i + 1]).worst_gating \in Severities
             /\ \/ SummaryOf(slots[i + 1]).worst_gating = Ignore
                \/ SummaryOf(slots[i + 1]).worst_gating \in Gating(i)
  <2> DEFINE list == PairFindings(world[i])
  <2>1. list \in Seq(Findings(Nat)) /\ IsJudged(list) /\ slots[i + 1] = list
    BY <1>1, <1>2, PairFindingsType
  <2>2. Gating(i) = GatingOf(list)
    BY DEF GatingOf, Range
  <2> HIDE DEF list
  <2>3. SummaryOf(list) \in Summaries /\ IsTally(SummaryOf(list), list, Len(list)) /\ DOMAIN list = 1..Len(list)
    BY <2>1, SummaryIsTally
  <2>4. SummaryOf(list).worst_gating \in Severities
    BY <2>3 DEF Summaries
  <2> HIDE DEF Gating
  <2>5. /\ \A s \in GatingOf(list) : s \in Severities /\ s <= SummaryOf(list).worst_gating
        /\ SummaryOf(list).worst_gating = Ignore \/ SummaryOf(list).worst_gating \in GatingOf(list)
    BY <2>1, <2>3 DEF GatingOf, IsTally, GatingAt, IsJudged
  <2> QED BY <2>1, <2>2, <2>4, <2>5
<1>8. GatingOfPairs = UNION {Gating(i) : i \in Jobs}
  BY DEF GatingOfPairs
<1> HIDE DEF Gating
<1>9. Totals.worst_gating \in Severities
  BY <1>6 DEF Summaries
<1>10. GatingOfPairs \subseteq Severities
  BY <1>7, <1>8
<1>11. ASSUME NEW s \in GatingOfPairs PROVE s <= Totals.worst_gating
  <2>1. PICK i \in Jobs : s \in Gating(i)
    BY <1>8
  <2>2. s <= SummaryOf(slots[i + 1]).worst_gating /\ SummaryOf(slots[i + 1]).worst_gating <= Totals.worst_gating
    BY <1>1, <1>6, <1>7, <2>1 DEF IsTotal
  <2>3. s \in Int /\ SummaryOf(slots[i + 1]).worst_gating \in Int /\ Totals.worst_gating \in Int
    BY <1>7, <1>9, <1>10 DEF Severities, Ignore, Fail
  <2> QED BY <2>2, <2>3
<1>12. Totals.worst_gating = Ignore \/ Totals.worst_gating \in GatingOfPairs
  <2>1. CASE \E n \in 1..JobCount : SummaryOf(slots[n]).worst_gating = Totals.worst_gating
    <3>1. PICK n \in 1..JobCount : SummaryOf(slots[n]).worst_gating = Totals.worst_gating
      BY <2>1
    <3>2. n - 1 \in Jobs /\ (n - 1) + 1 = n
      BY <1>1
    <3>3. SummaryOf(slots[n]).worst_gating = Ignore \/ SummaryOf(slots[n]).worst_gating \in Gating(n - 1)
      BY <1>7, <3>2
    <3> QED BY <1>8, <3>1, <3>2, <3>3
  <2> QED BY <1>6, <2>1 DEF IsTotal
<1> QED BY <1>6, <1>10, <1>11, <1>12

\* The verdict of a corpus is a function of its files and of --strict, however the
\* threads took turns: the exit code of a run that came to a verdict is that of the
\* first pair in pairing order with a hard error, else of a partial pair, else of
\* the worst gating finding of all (cli/commands/dir.cpp, the rollup).
THEOREM DirVerdictIgnoresSchedule == DirSpec => []VerdictIgnoresSchedule
<1>1. DirIInv => VerdictIgnoresSchedule
  <2> SUFFICES ASSUME DirIInv, exit.from = "verdict" PROVE exit.code = VerdictOfWorld
    BY DEF VerdictIgnoresSchedule
  <2>1. SlotsTypeOK /\ caller = "returned" /\ exit.code = VerdictCode
    BY DEF DirIInv, RollupFollowsPool
  <2>2. \A i \in Jobs : outcomes[i] = PairOutcome(world[i]) /\ results[i] = PairFindings(world[i])
    BY <2>1 DEF DirIInv, PoolInv, AllRanOnReturn, JobsAreHonest
  <2> DEFINE hard == {i \in Jobs : PairOutcome(world[i]).hard_error # "none"}
  <2>3. HardErrors = hard /\ (AnyPartial <=> \E i \in Jobs : PairOutcome(world[i]).partial)
    BY <2>2 DEF HardErrors, AnyPartial
  <2>4. VerdictOfWorld = IF hard # {} THEN ExitCodeFor(PairOutcome(world[Min(hard)]).hard_error)
                         ELSE IF \E i \in Jobs : PairOutcome(world[i]).partial THEN ExitDecode
                         ELSE IF Fail \in GatingOfPairs THEN ExitFail
                         ELSE IF Warn \in GatingOfPairs /\ request.strict THEN ExitWarnStrict ELSE ExitClean
    BY DEF VerdictOfWorld, GatingOfPairs
  <2>5. hard # {} => outcomes[Min(hard)] = PairOutcome(world[Min(hard)])
    <3>1. hard \subseteq Nat /\ hard \subseteq Jobs
      BY PoolAssumption DEF Jobs
    <3>2. hard # {} => Min(hard) \in hard
      BY <3>1, LeastOf
    <3> QED BY <2>2, <3>1, <3>2
  <2> HIDE DEF hard
  <2>6. ExitCodeForFindings(Totals, request.strict) =
          IF Fail \in GatingOfPairs THEN ExitFail
          ELSE IF Warn \in GatingOfPairs /\ request.strict THEN ExitWarnStrict ELSE ExitClean
    BY <2>1, <2>2, TotalsOfWorld, CodeOfTally
  <2>7. VerdictCode = IF hard # {} THEN ExitCodeFor(outcomes[Min(hard)].hard_error)
                      ELSE IF \E i \in Jobs : PairOutcome(world[i]).partial THEN ExitDecode
                      ELSE ExitCodeForFindings(Totals, request.strict)
    BY <2>3 DEF VerdictCode
  <2> QED BY <2>1, <2>4, <2>5, <2>6, <2>7
<1> QED BY <1>1, DirInvariant, PTL

\* The pool of a run of `dir` is the pool of cli/worker_pool.cpp, and so keeps the
\* thread-free promise of its header whatever the jobs do.
THEOREM DirRunsThePool == DirSpec => PoolSpec /\ ImplementsIndexedRun
<1>1. DirInit => PoolInit
  BY DEF DirInit
<1>2. DirIInv /\ [DirNext]_vars => [PoolNext]_poolVars
  BY DirStepKeeps
<1>3. DirSpec => PoolSpec
  BY <1>1, <1>2, DirInvariant, PTL DEF DirSpec, PoolSpec
<1> QED BY <1>3, PoolRefines

===============================================================================
