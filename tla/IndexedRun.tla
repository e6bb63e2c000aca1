------------------------------ MODULE IndexedRun ------------------------------
(***************************************************************************)
(* What cli/worker_pool.h promises of run_indexed, with no threads in it:  *)
(* every index is submitted exactly once, an index that fails disturbs no  *)
(* other, and the call returns only after every index has completed.  The  *)
(* call may also be abandoned before it returns (no thread could be made). *)
(***************************************************************************)
EXTENDS Integers

CONSTANT JobCount       \* job_count, the length of the job list

Jobs == 0..(JobCount - 1)

VARIABLES job,          \* job[i]: "pending", "running", "done" or "threw"
          call          \* the call itself: "open", "returned" or "lost"

runVars == <<job, call>>

Finished == {"done", "threw"}

RunInit == /\ job = [i \in Jobs |-> "pending"]
           /\ call = "open"

Begin(i) == /\ call = "open"
            /\ job[i] = "pending"
            /\ job' = [job EXCEPT ![i] = "running"]
            /\ UNCHANGED call

End(i) == /\ call = "open"
          /\ job[i] = "running"
          /\ \E outcome \in Finished : job' = [job EXCEPT ![i] = outcome]
          /\ UNCHANGED call

Return == /\ call = "open"
          /\ \A i \in Jobs : job[i] \in Finished
          /\ call' = "returned"
          /\ UNCHANGED job

Abandon == /\ call = "open"
           /\ call' = "lost"
           /\ UNCHANGED job

RunNext == \/ \E i \in Jobs : Begin(i) \/ End(i)
           \/ Return
           \/ Abandon

RunSpec == RunInit /\ [][RunNext]_runVars
===============================================================================
