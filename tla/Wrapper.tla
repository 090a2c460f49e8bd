------------------------------- MODULE Wrapper -------------------------------
(***************************************************************************)
(* The command-line wrapper, wrapper/src/main.rs: main() and the body of   *)
(* the threads it spawns.  In single-failure mode main() creates one       *)
(* temporary failures file and one thread per non-empty line of the        *)
(* failures file; a counting semaphore lets at most `nproc' threads run a  *)
(* container at a time; main() joins the threads in the order of the lines *)
(* and raises again the panic of a thread that failed.  Without            *)
(* --single and --failures, main() runs one container itself.              *)
(*                                                                         *)
(* A container is here one step, from `docker run' to its exit;            *)
(* SingleRuns.tla models what it does.  A container is a process of the    *)
(* docker daemon: it outlives the wrapper.                                 *)
(***************************************************************************)
EXTENDS Integers, FiniteSets

CONSTANTS N,        \* lines of the failures file
          Blank,    \* the lines that are empty
          Procs,    \* what `nproc' printed
          MayFail   \* whether I/O and process creation may fail

ASSUME WrapperAssumption ==
  /\ N \in Nat
  /\ Blank \subseteq 1..N
  /\ Procs \in Nat \ {0}
  /\ MayFail \in BOOLEAN

VARIABLES mainPc,   \* where main() is
          cur,      \* the line main() handles or the thread it joins
          pc,       \* pc[i]: where the thread of line i is
          permits,  \* the semaphore's count
          tmpfile   \* tmpfile[i]: the temporary file of line i

vars == <<mainPc, cur, pc, permits, tmpfile>>

Lines == 1..N
Jobs == Lines \ Blank

MainPcs == {"reading", "creating", "writing", "spawning", "joining",
            "whole", "wholeRunning", "exited", "panicked"}
ThreadPcs == {"unborn", "acquiring", "starting", "running", "exited",
              "releasing", "finished", "panicked", "orphaned"}

\* Where a thread has panicked; the container of an orphaned one still runs.
Panicked == {"panicked", "orphaned"}

\* The process ends with main(): its threads take no step after that.
MainAlive == mainPc \notin {"exited", "panicked"}

\* The threads between acquire() and the end of release(); a thread that
\* panics there never reaches release().
Holding == {"starting", "running", "exited", "releasing"} \cup Panicked
Holders == {i \in Lines : pc[i] \in Holding}

\* The threads whose container runs.
Running == {i \in Lines : pc[i] \in {"running", "orphaned"}}

\* Mutant of Init: one permit too many.
InitOneMore ==
  /\ mainPc \in {"reading", "whole"}
  /\ cur = 1
  /\ pc = [i \in Lines |-> "unborn"]
  /\ permits = Procs + 1
  /\ tmpfile = [i \in Lines |-> "absent"]

Init ==
  /\ mainPc \in {"reading", "whole"}
  /\ cur = 1
  /\ pc = [i \in Lines |-> "unborn"]
  /\ permits = Procs
  /\ tmpfile = [i \in Lines |-> "absent"]

-----------------------------------------------------------------------------
(* main()                                                                  *)

\* The failures file is read whole before the loop; when that fails the
\* branch is empty and main() returns.
ReadFailures ==
  /\ mainPc = "reading"
  /\ \/ mainPc' = "creating"
     \/ MayFail /\ mainPc' = "exited"
  /\ UNCHANGED <<cur, pc, permits, tmpfile>>

SkipBlank ==
  /\ mainPc = "creating" /\ cur \in Blank
  /\ cur' = cur + 1
  /\ UNCHANGED <<mainPc, pc, permits, tmpfile>>

\* Mutant of MakeTempfile: the line is never written into the file.
MakeTempfileOnly ==
  /\ mainPc = "creating" /\ cur \in Jobs
  /\ tmpfile' = [tmpfile EXCEPT ![cur] = "empty"]
  /\ mainPc' = "spawning"
  /\ UNCHANGED <<cur, pc, permits>>

MakeTempfile ==
  /\ mainPc = "creating" /\ cur \in Jobs
  /\ tmpfile' = [tmpfile EXCEPT ![cur] = "empty"]
  /\ mainPc' = "writing"
  /\ UNCHANGED <<cur, pc, permits>>

WriteTempfile ==
  /\ mainPc = "writing"
  /\ tmpfile' = [tmpfile EXCEPT ![cur] = "written"]
  /\ mainPc' = "spawning"
  /\ UNCHANGED <<cur, pc, permits>>

SpawnThread ==
  /\ mainPc = "spawning"
  /\ pc' = [pc EXCEPT ![cur] = "acquiring"]
  /\ cur' = cur + 1
  /\ mainPc' = "creating"
  /\ UNCHANGED <<permits, tmpfile>>

\* mktemp, fs::write or thread::spawn fails, or the start of the one container
\* or the wait for it: expect() or unwrap() panics in main().
MainPanic ==
  /\ MayFail
  /\ \/ mainPc \in {"writing", "spawning", "whole", "wholeRunning"}
     \/ mainPc = "creating" /\ cur \in Jobs
  /\ mainPc' = "panicked"
  /\ UNCHANGED <<cur, pc, permits, tmpfile>>

StartJoin ==
  /\ mainPc = "creating" /\ cur = N + 1
  /\ mainPc' = "joining"
  /\ cur' = 1
  /\ UNCHANGED <<pc, permits, tmpfile>>

\* Mutant of Join: the handles are dropped, which detaches the threads.
JoinDetached ==
  /\ mainPc = "joining" /\ cur \in Lines
  /\ cur' = cur + 1
  /\ UNCHANGED <<mainPc, pc, permits, tmpfile>>

\* A blank line has no thread in `ths'.
Join ==
  /\ mainPc = "joining" /\ cur \in Lines
  /\ cur \in Blank \/ pc[cur] = "finished"
  /\ cur' = cur + 1
  /\ UNCHANGED <<mainPc, pc, permits, tmpfile>>

JoinPanicked ==
  /\ mainPc = "joining" /\ cur \in Jobs /\ pc[cur] \in Panicked
  /\ mainPc' = "panicked"
  /\ UNCHANGED <<cur, pc, permits, tmpfile>>

Exit ==
  /\ mainPc = "joining" /\ cur = N + 1
  /\ mainPc' = "exited"
  /\ UNCHANGED <<cur, pc, permits, tmpfile>>

\* Neither --single nor --failures: one container, run by main() itself.
StartWhole ==
  /\ mainPc = "whole"
  /\ mainPc' = "wholeRunning"
  /\ UNCHANGED <<cur, pc, permits, tmpfile>>

WholeExits ==
  /\ mainPc = "wholeRunning"
  /\ mainPc' = "exited"
  /\ UNCHANGED <<cur, pc, permits, tmpfile>>

-----------------------------------------------------------------------------
(* The thread of line i                                                    *)

\* Thread i goes from one place to another and touches nothing else of pc.
Moves(i, from, to) == pc[i] = from /\ pc' = [pc EXCEPT ![i] = to]

\* Mutant of Acquire: the permit is looked at, not taken.
AcquireNothing(i) ==
  /\ MainAlive
  /\ Moves(i, "acquiring", "starting")
  /\ permits > 0
  /\ UNCHANGED <<mainPc, cur, permits, tmpfile>>

\* my_sem.acquire() returns.
Acquire(i) ==
  /\ MainAlive
  /\ Moves(i, "acquiring", "starting")
  /\ permits > 0
  /\ permits' = permits - 1
  /\ UNCHANGED <<mainPc, cur, tmpfile>>

\* create_dir_all and `docker run'.
StartContainer(i) ==
  /\ MainAlive
  /\ Moves(i, "starting", "running")
  /\ UNCHANGED <<mainPc, cur, permits, tmpfile>>

\* The container ends, whatever its exit status, and wait() returns if the
\* thread still waits.  No guard on main(): the container outlives it.
ContainerExits(i) ==
  /\ Moves(i, "running", "exited") \/ Moves(i, "orphaned", "panicked")
  /\ UNCHANGED <<mainPc, cur, permits, tmpfile>>

RemoveTempfile(i) ==
  /\ MainAlive
  /\ Moves(i, "exited", "releasing")
  /\ tmpfile' = [tmpfile EXCEPT ![i] = "absent"]
  /\ UNCHANGED <<mainPc, cur, permits>>

\* Mutant of Release: the permit is not given back.
ReleaseNothing(i) ==
  /\ MainAlive
  /\ Moves(i, "releasing", "finished")
  /\ UNCHANGED <<mainPc, cur, permits, tmpfile>>

Release(i) ==
  /\ MainAlive
  /\ Moves(i, "releasing", "finished")
  /\ permits' = permits + 1
  /\ UNCHANGED <<mainPc, cur, tmpfile>>

\* create_dir_all, spawn, wait or remove_file fails: unwrap()/expect() ends the
\* thread before release().  A container that is not waited for goes on.
ThreadPanic(i) ==
  /\ MayFail /\ MainAlive
  /\ \/ Moves(i, "starting", "panicked")
     \/ Moves(i, "running", "orphaned")
     \/ Moves(i, "exited", "panicked")
  /\ UNCHANGED <<mainPc, cur, permits, tmpfile>>

\* What a thread, or main(), does when no call fails.
ThreadWork(i) == \/ Acquire(i) \/ StartContainer(i) \/ ContainerExits(i)
                 \/ RemoveTempfile(i) \/ Release(i)

MainWork == \/ ReadFailures \/ SkipBlank \/ MakeTempfile \/ WriteTempfile
            \/ SpawnThread \/ StartJoin \/ Join \/ JoinPanicked \/ Exit
            \/ StartWhole \/ WholeExits

\* The process has ended and the last container too.
Terminated == ~MainAlive /\ Running = {} /\ UNCHANGED vars

Next == \/ MainWork \/ MainPanic
        \/ \E i \in Lines : ThreadWork(i) \/ ThreadPanic(i)
        \/ Terminated

Spec == Init /\ [][Next]_vars

\* The operating system runs every thread that can run, the docker daemon
\* every container, and a simulation stops at its --runtime.  Failures are
\* never owed, so they get no fairness.
FairSpec ==
  /\ Spec
  /\ WF_vars(MainWork)
  /\ \A i \in Lines : WF_vars(ThreadWork(i))

-----------------------------------------------------------------------------
(* Properties                                                              *)

\* Every variable has its type.
TypeOK ==
  /\ mainPc \in MainPcs
  /\ cur \in 1..(N + 1)
  /\ pc \in [Lines -> ThreadPcs]
  /\ permits \in 0..Procs
  /\ tmpfile \in [Lines -> {"absent", "empty", "written"}]

\* The semaphore bounds the simulations: never more containers at once than
\* processors, whatever the order in which threads acquire, fail and release.
AtMostProcs == Cardinality(Running) <= Procs

\* No permit is created or lost: each is free, or with a thread between
\* acquire() and release(), or was leaked by a thread that panicked there.
PermitAccounting == permits + Cardinality(Holders) = Procs

\* The temporary file of a line is complete from before its thread exists
\* until its container has ended: no container starts on a missing or empty
\* failures file.
InputPresent ==
  \A i \in Lines : pc[i] \in {"acquiring", "starting", "running", "orphaned", "exited"}
                     => tmpfile[i] = "written"

\* The wrapper exits normally only after every line's simulation has ended,
\* and then leaves no temporary file in inputs/ and no container behind --
\* or it could not read the failures file and started nothing.
CleanExit ==
  mainPc = "exited" =>
    /\ \A i \in Lines : tmpfile[i] = "absent"
    /\ \/ \A i \in Jobs : pc[i] = "finished"
       \/ \A i \in Lines : pc[i] = "unborn"

NoPanic == mainPc # "panicked" /\ \A i \in Lines : pc[i] \notin Panicked

\* Unless something panics, the simulation of every line of the failures file
\* is run to its end and main() returns, however the threads are scheduled.
AllRun ==
  []NoPanic => (mainPc = "creating" ~> mainPc = "exited" /\ \A i \in Jobs : pc[i] = "finished")

\* main() always ends: it joins every thread, or raises again the panic of
\* one (main.rs:266-271).
MainEnds == <>(~MainAlive)

\* The abstract pool of jobs: a thread between acquire() and release()
\* occupies a slot.
StatusAt(place) == IF place \in {"unborn", "acquiring"} THEN "waiting"
                   ELSE IF place = "finished" THEN "done"
                   ELSE IF place \in Panicked THEN "lost"
                   ELSE "running"

Pool == INSTANCE JobPool WITH status <- [i \in Jobs |-> StatusAt(pc[i])]

\* The threads, the semaphore and the join loop implement the pool.
PoolSpec == Pool!Spec
=============================================================================
