------------------------------ MODULE WorkerPool ------------------------------
(***************************************************************************)
(* cli/worker_pool.{h,cpp}: WorkerPool::run_indexed, one call of it.       *)
(*                                                                         *)
(* Every step of a thread that another thread can see is a step here: the  *)
(* caller spawning its threads one at a time, a worker's fetch_add on the  *)
(* shared counter, the end of a job (normally or by an exception that the  *)
(* pool swallows), and the caller's join of one worker after another.      *)
(* What a job does between its start and its end is the business of the    *)
(* module that composes this one (DirRun).  A definition introduced by     *)
(* "Fault:" is a seeded bug of the one after it: no specification uses it. *)
(*                                                                         *)
(* emplace_back can fail to make a thread (std::system_error).  Before the *)
(* first thread exists the exception leaves run_indexed; afterwards the    *)
(* vector's destructor meets a joinable thread and std::terminate ends the *)
(* process, whatever the other threads were doing.                         *)
(***************************************************************************)
EXTENDS Integers

CONSTANTS JobCount,     \* job_count
          ThreadCount   \* thread_count_

ASSUME PoolAssumption == JobCount \in Nat /\ ThreadCount \in Nat

Jobs == 0..(JobCount - 1)
WorkerCount == IF ThreadCount < JobCount THEN ThreadCount ELSE JobCount
Workers == 1..WorkerCount

VARIABLES caller,       \* where the calling thread is in run_indexed
          spawned,      \* threads made so far
          joined,       \* threads joined so far
          next_index,   \* the shared atomic counter; the loop index when sequential
          worker,       \* worker[w]: "unborn", "fetch", "run" or "exited"
          claim,        \* claim[w]: the index the worker fetched last
          job           \* job[i]: "pending", "running", "done" or "threw"

poolVars == <<caller, spawned, joined, next_index, worker, claim, job>>

Finished == {"done", "threw"}
CallerEnds == {"returned", "raised", "terminated"}

PoolTypeOK ==
  /\ caller \in {"idle", "sequential", "spawning", "joining"} \cup CallerEnds
  /\ spawned \in 0..WorkerCount
  /\ joined \in 0..WorkerCount
  /\ next_index \in Nat
  /\ worker \in [Workers -> {"unborn", "fetch", "run", "exited"}]
  /\ claim \in [Workers -> Nat]
  /\ job \in [Jobs -> {"pending", "running"} \cup Finished]

PoolInit ==
  /\ caller = "idle"
  /\ spawned = 0
  /\ joined = 0
  /\ next_index = 0
  /\ worker = [w \in Workers |-> "unborn"]
  /\ claim = [w \in Workers |-> 0]
  /\ job = [i \in Jobs |-> "pending"]

-------------------------------------------------------------------------------
(* The calling thread.                                                     *)

\* run_indexed is entered: nothing to do, the sequential loop, or threads.
Call ==
  /\ caller = "idle"
  /\ caller' = IF JobCount = 0 THEN "returned"
               ELSE IF ThreadCount <= 1 THEN "sequential" ELSE "spawning"
  /\ UNCHANGED <<spawned, joined, next_index, worker, claim, job>>

\* Fault: the loop picks any index that is left.
SequentialStartAnywhere ==
  /\ caller = "sequential"
  /\ \E i \in Jobs : /\ job[i] = "pending"
                     /\ job' = [job EXCEPT ![i] = "running"]
  /\ UNCHANGED <<caller, spawned, joined, next_index, worker, claim>>

\* run_one(i) begins on the calling thread.
SequentialStart ==
  /\ caller = "sequential"
  /\ next_index < JobCount
  /\ job[next_index] # "running"
  /\ job' = [job EXCEPT ![next_index] = "running"]
  /\ UNCHANGED <<caller, spawned, joined, next_index, worker, claim>>

\* run_one(i) ends; the loop goes to the next index.
SequentialFinish(outcome) ==
  /\ caller = "sequential"
  /\ next_index < JobCount
  /\ job[next_index] = "running"
  /\ job' = [job EXCEPT ![next_index] = outcome]
  /\ next_index' = next_index + 1
  /\ UNCHANGED <<caller, spawned, joined, worker, claim>>

\* The loop is over.
SequentialReturn ==
  /\ caller = "sequential"
  /\ next_index = JobCount
  /\ caller' = "returned"
  /\ UNCHANGED <<spawned, joined, next_index, worker, claim, job>>

\* One emplace_back of the spawning loop.
Spawn ==
  /\ caller = "spawning"
  /\ spawned < WorkerCount
  /\ spawned' = spawned + 1
  /\ worker' = [worker EXCEPT ![spawned + 1] = "fetch"]
  /\ caller' = IF spawned' = WorkerCount THEN "joining" ELSE caller
  /\ UNCHANGED <<joined, next_index, claim, job>>

SpawnFails ==
  /\ caller = "spawning"
  /\ spawned < WorkerCount
  /\ caller' = IF spawned = 0 THEN "raised" ELSE "terminated"
  /\ UNCHANGED <<spawned, joined, next_index, worker, claim, job>>

\* Fault: the threads are detached, not joined.
JoinWithoutWaiting ==
  /\ caller = "joining"
  /\ joined < WorkerCount
  /\ joined' = joined + 1
  /\ caller' = IF joined' = WorkerCount THEN "returned" ELSE caller
  /\ UNCHANGED <<spawned, next_index, worker, claim, job>>

\* worker.join() of the next worker returns once that worker has exited.
Join ==
  /\ caller = "joining"
  /\ joined < WorkerCount
  /\ worker[joined + 1] = "exited"
  /\ joined' = joined + 1
  /\ caller' = IF joined' = WorkerCount THEN "returned" ELSE caller
  /\ UNCHANGED <<spawned, next_index, worker, claim, job>>

-------------------------------------------------------------------------------
(* A worker thread, for as long as the process lives.                      *)

\* Fault: the counter is loaded and stored, another thread's store in between.
FetchRacy(w) ==
  /\ caller # "terminated"
  /\ worker[w] = "fetch"
  /\ \E seen \in {next_index, next_index - 1} \cap Nat :
       /\ claim' = [claim EXCEPT ![w] = seen]
       /\ next_index' = seen + 1
       /\ IF seen >= JobCount
            THEN /\ worker' = [worker EXCEPT ![w] = "exited"]
                 /\ UNCHANGED job
            ELSE /\ worker' = [worker EXCEPT ![w] = "run"]
                 /\ job' = [job EXCEPT ![seen] = "running"]
  /\ UNCHANGED <<caller, spawned, joined>>

\* fetch_add(1), and the return of worker_loop or the start of job(index).
Fetch(w) ==
  /\ caller # "terminated"
  /\ worker[w] = "fetch"
  /\ claim' = [claim EXCEPT ![w] = next_index]
  /\ next_index' = next_index + 1
  /\ IF next_index >= JobCount
       THEN /\ worker' = [worker EXCEPT ![w] = "exited"]
            /\ UNCHANGED job
       ELSE /\ worker' = [worker EXCEPT ![w] = "run"]
            /\ job' = [job EXCEPT ![next_index] = "running"]
  /\ UNCHANGED <<caller, spawned, joined>>

\* Fault: a job that threw is put back.
FinishPutsBack(w, outcome) ==
  /\ caller # "terminated"
  /\ worker[w] = "run"
  /\ worker' = [worker EXCEPT ![w] = "fetch"]
  /\ job' = [job EXCEPT ![claim[w]] = IF outcome = "threw" THEN "pending" ELSE outcome]
  /\ UNCHANGED <<caller, spawned, joined, next_index, claim>>

\* job(index) returns, or throws and run_one swallows the exception.
Finish(w, outcome) ==
  /\ caller # "terminated"
  /\ worker[w] = "run"
  /\ worker' = [worker EXCEPT ![w] = "fetch"]
  /\ job' = [job EXCEPT ![claim[w]] = outcome]
  /\ UNCHANGED <<caller, spawned, joined, next_index, claim>>

-------------------------------------------------------------------------------
PoolCaller == Call \/ SequentialStart \/ SequentialReturn \/ Spawn \/ SpawnFails \/ Join
              \/ \E outcome \in Finished : SequentialFinish(outcome)

PoolWorker(w) == Fetch(w) \/ \E outcome \in Finished : Finish(w, outcome)

PoolNext == PoolCaller \/ \E w \in Workers : PoolWorker(w)

PoolSpec == PoolInit /\ [][PoolNext]_poolVars

-------------------------------------------------------------------------------
(* Properties.                                                             *)

\* "Blocking until every index has completed, then returns" (worker_pool.h):
\* a caller that got past run_indexed can read every slot.
AllRanOnReturn == caller = "returned" => \A i \in Jobs : job[i] \in Finished

\* No two threads ever work on one index, and a working thread's index is in
\* the job list: the per-index slots need no lock.
ExclusiveClaim ==
  \A w \in Workers : worker[w] = "run" =>
    /\ claim[w] \in Jobs
    /\ job[claim[w]] = "running"
    /\ \A v \in Workers \ {w} : worker[v] = "run" => claim[v] # claim[w]

\* An index that has completed is never run again and its outcome stands,
\* however the other jobs end.
NeverRunTwice ==
  [][\A i \in Jobs : job[i] \in Finished => job'[i] = job[i]]_poolVars

\* With one thread (or none) jobs run one after another in submission order.
SubmissionOrder ==
  ThreadCount <= 1 => \A i, j \in Jobs : i < j /\ job[j] # "pending" => job[i] \in Finished

-------------------------------------------------------------------------------
(* The strengthening that makes the properties above inductive.            *)

\* Outside the sequential loop the counter separates the indices handed out
\* from those still pending; inside it the current index may be either.
HandedOut ==
  IF caller = "sequential"
    THEN /\ \A i \in Jobs : i < next_index => job[i] \in Finished
         /\ \A i \in Jobs : i > next_index => job[i] = "pending"
         /\ next_index <= JobCount
         /\ next_index < JobCount => job[next_index] \in {"pending", "running"}
    ELSE \A i \in Jobs : i < next_index <=> job[i] # "pending"

\* A running job has a thread that runs it.
RunningIsClaimed ==
  caller # "sequential" =>
    \A i \in Jobs : job[i] = "running" => \E w \in Workers : worker[w] = "run" /\ claim[w] = i

\* Threads are made and joined in order, and exit only when the list is used up.
ThreadLives ==
  /\ caller \in {"idle", "sequential", "raised"} => spawned = 0
  /\ caller = "idle" => next_index = 0
  /\ caller = "joining" => spawned = WorkerCount
  /\ ThreadCount <= 1 => caller \in {"idle", "sequential", "returned"}
  /\ caller = "returned" => \A w \in Workers : worker[w] \in {"unborn", "exited"}
  /\ \A w \in Workers : worker[w] = "unborn" <=> w > spawned
  /\ \A w \in Workers : w <= joined => worker[w] = "exited"
  /\ \A w \in Workers : worker[w] = "exited" => next_index >= JobCount

PoolInv == /\ PoolTypeOK
           /\ HandedOut
           /\ RunningIsClaimed
           /\ ThreadLives
           /\ ExclusiveClaim
           /\ AllRanOnReturn

-------------------------------------------------------------------------------
\* The pool does what the thread-free promise says, for every interleaving.
CallState == CASE caller = "returned" -> "returned"
               [] caller \in {"raised", "terminated"} -> "lost"
               [] OTHER -> "open"
Promise == INSTANCE IndexedRun WITH call <- CallState
ImplementsIndexedRun == Promise!RunSpec
===============================================================================
