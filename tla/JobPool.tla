------------------------------- MODULE JobPool -------------------------------
(***************************************************************************)
(* What the wrapper promises of its single-failure mode, without threads,  *)
(* semaphore or files: a fixed set of jobs, each run at most once, never   *)
(* more than Procs of them at a time.  A job that fails keeps its slot.    *)
(* Wrapper.tla implements this specification.                              *)
(***************************************************************************)
EXTENDS Integers, FiniteSets

CONSTANTS Jobs,     \* a finite set: the non-empty lines of the failures file
          Procs     \* how many may occupy a slot at once

VARIABLE status     \* status[j]: where job j is

Statuses == {"waiting", "running", "done", "lost"}

\* The jobs that occupy a slot: a lost one never gives it back.
Occupied == {j \in Jobs : status[j] \in {"running", "lost"}}

Init == status = [j \in Jobs |-> "waiting"]

Begin(j) == /\ status[j] = "waiting"
            /\ Cardinality(Occupied) < Procs
            /\ status' = [status EXCEPT ![j] = "running"]

End(j) == /\ status[j] = "running"
          /\ status' = [status EXCEPT ![j] = "done"]

Lose(j) == /\ status[j] = "running"
           /\ status' = [status EXCEPT ![j] = "lost"]

Next == \E j \in Jobs : Begin(j) \/ End(j) \/ Lose(j)

Spec == Init /\ [][Next]_status
=============================================================================
