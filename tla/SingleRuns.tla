------------------------------ MODULE SingleRuns ------------------------------
(***************************************************************************)
(* The wrapper's single-failure mode with what its containers do           *)
(* (containers/script.sh) on the directories they all mount:               *)
(*   - inputs/, copied into the container's own /dev/shm;                  *)
(*   - bird/, where a missing Makefile makes the container run autoreconf  *)
(*     and configure before it makes BIRD;                                 *)
(*   - udp_ping/, whose two binaries every container removes and makes     *)
(*     again, and which the simulation loads when the udp processes start  *)
(*     (myscripts/bird/ntf.cc).                                            *)
(* Every container runs with --udp=true.  The one container of a run       *)
(* without --single shares them with no other and stays one step.          *)
(***************************************************************************)
EXTENDS Wrapper

CONSTANT Configured     \* whether bird/Makefile exists when the wrapper starts

ASSUME SingleRunsAssumption == Configured \in BOOLEAN

VARIABLES box,       \* box[i]: where the script of container i is
          staged,    \* staged[i]: the tempfile of line i as /dev/shm got it
          makefile,  \* whether bird/Makefile exists
          exe,       \* the binaries present in udp_ping/
          todo,      \* todo[i]: the binaries container i's make builds
          missing,   \* the containers whose simulation missed a binary
          met        \* history: the containers that met another one at work

boxVars == <<box, staged, makefile, exe, todo, missing, met>>
allVars == <<vars, boxVars>>

Binaries == {"udp_client", "udp_server"}
BoxPcs == {"none", "copy", "check", "configure", "configuring", "makeBird",
           "rm", "make", "making", "launch", "serving", "done"}

InitBoxes ==
  /\ box = [i \in Lines |-> "none"]
  /\ staged = [i \in Lines |-> "absent"]
  /\ makefile = Configured
  /\ exe = {}
  /\ todo = [i \in Lines |-> {}]
  /\ missing = {}
  /\ met = {}

\* The script of container i goes from one place to the next.
Goes(i, from, to) == box[i] = from /\ box' = [box EXCEPT ![i] = to]

-----------------------------------------------------------------------------
(* The script of container i                                               *)

\* cp /data/inputs/* /dev/shm
CopyInputs(i) ==
  /\ Goes(i, "copy", "check")
  /\ staged' = [staged EXCEPT ![i] = tmpfile[i]]
  /\ UNCHANGED <<vars, makefile, exe, todo, missing, met>>

\* [[ ! -f /data/bird/Makefile ]]
CheckMakefile(i) ==
  /\ Goes(i, "check", IF makefile THEN "makeBird" ELSE "configure")
  /\ UNCHANGED <<vars, staged, makefile, exe, todo, missing, met>>

Configure(i) ==
  /\ Goes(i, "configure", "configuring")
  /\ UNCHANGED <<vars, staged, makefile, exe, todo, missing, met>>

\* configure writes the Makefile last.
ConfigureEnds(i) ==
  /\ Goes(i, "configuring", "makeBird")
  /\ makefile' = TRUE
  /\ UNCHANGED <<vars, staged, exe, todo, missing, met>>

MakeBird(i) ==
  /\ Goes(i, "makeBird", "rm")
  /\ UNCHANGED <<vars, staged, makefile, exe, todo, missing, met>>

RemoveExe(i) ==
  /\ Goes(i, "rm", "make")
  /\ exe' = {}
  /\ UNCHANGED <<vars, staged, makefile, todo, missing, met>>

\* make decides first what to build: a target has no prerequisite, so it is
\* built only when its file is absent.
MakeExe(i) ==
  /\ Goes(i, "make", "making")
  /\ todo' = [todo EXCEPT ![i] = Binaries \ exe]
  /\ UNCHANGED <<vars, staged, makefile, exe, missing, met>>

\* Mutant of MakeExeEnds: only the first target of the Makefile is built, as
\* when `all' forgets the second.
MakeClientEnds(i) ==
  /\ Goes(i, "making", "launch")
  /\ exe' = exe \cup (todo[i] \cap {"udp_client"})
  /\ todo' = [todo EXCEPT ![i] = {}]
  /\ UNCHANGED <<vars, staged, makefile, missing, met>>

\* Mutant of MakeExeEnds: the list of what is to build outlives the make.
MakeExeKeeps(i) ==
  /\ Goes(i, "making", "launch")
  /\ exe' = exe \cup todo[i]
  /\ UNCHANGED <<vars, staged, makefile, todo, missing, met>>

MakeExeEnds(i) ==
  /\ Goes(i, "making", "launch")
  /\ exe' = exe \cup todo[i]
  /\ todo' = [todo EXCEPT ![i] = {}]
  /\ UNCHANGED <<vars, staged, makefile, missing, met>>

\* The simulation loads one binary: the servers at 30 s, the clients at 59 s.
Load(i, binary) ==
  /\ missing' = IF binary \in exe THEN missing ELSE missing \cup {i}
  /\ UNCHANGED <<vars, staged, makefile, exe, todo, met>>

LoadServer(i) == Goes(i, "launch", "serving") /\ Load(i, "udp_server")

LoadClient(i) == Goes(i, "serving", "done") /\ Load(i, "udp_client")

Script(i) == \/ CopyInputs(i) \/ CheckMakefile(i) \/ Configure(i)
             \/ ConfigureEnds(i) \/ MakeBird(i) \/ RemoveExe(i) \/ MakeExe(i)
             \/ MakeExeEnds(i) \/ LoadServer(i) \/ LoadClient(i)

-----------------------------------------------------------------------------
(* The wrapper                                                             *)

\* The containers whose script is at work.
AtWork == {i \in Lines : box[i] \notin {"none", "done"}}

\* docker run: the script starts.
RunContainer(i) ==
  /\ StartContainer(i)
  /\ box' = [box EXCEPT ![i] = "copy"]
  /\ met' = IF AtWork = {} THEN met ELSE met \cup AtWork \cup {i}
  /\ UNCHANGED <<staged, makefile, exe, todo, missing>>

\* Mutant of AwaitContainer: the exit of `docker run' is not waited for.
AwaitNothing(i) == ContainerExits(i) /\ UNCHANGED boxVars

\* The container ends, and wait() returns, when the script has ended.
AwaitContainer(i) ==
  /\ box[i] = "done"
  /\ ContainerExits(i)
  /\ UNCHANGED boxVars

\* The other steps of a thread, and main()'s, leave the containers alone.
ThreadOnly(i) ==
  /\ Acquire(i) \/ RemoveTempfile(i) \/ Release(i) \/ ThreadPanic(i)
  /\ UNCHANGED boxVars

\* What goes on with line i when no call fails.
Proceed(i) ==
  \/ (Acquire(i) \/ RemoveTempfile(i) \/ Release(i)) /\ UNCHANGED boxVars
  \/ RunContainer(i) \/ AwaitContainer(i) \/ Script(i)

MainOnly == (MainWork \/ MainPanic) /\ UNCHANGED boxVars

SingleInit == Init /\ InitBoxes

SingleNext ==
  \/ MainOnly
  \/ \E i \in Lines : \/ ThreadOnly(i) \/ RunContainer(i) \/ AwaitContainer(i)
                      \/ Script(i)
  \/ Terminated /\ UNCHANGED boxVars

\* As in Wrapper: whatever can go on goes on, but no failure is owed.
SingleSpec ==
  /\ SingleInit /\ [][SingleNext]_allVars
  /\ WF_allVars(MainWork /\ UNCHANGED boxVars)
  /\ \A i \in Lines : WF_allVars(Proceed(i))

-----------------------------------------------------------------------------
(* Properties                                                              *)

\* Every variable of the containers has its type; only a running make has
\* something left to build.
BoxTypeOK ==
  /\ box \in [Lines -> BoxPcs]
  /\ staged \in [Lines -> {"absent", "empty", "written"}]
  /\ makefile \in BOOLEAN
  /\ exe \subseteq Binaries
  /\ todo \in [Lines -> SUBSET Binaries]
  /\ \A i \in Lines : todo[i] # {} => box[i] = "making"
  /\ missing \subseteq Lines

\* A simulation reads its own, complete, failures file, although the wrapper
\* and the other containers create and remove files in the same directory.
OwnInput ==
  \A i \in Lines : box[i] \notin {"none", "copy"} => staged[i] = "written"

\* With --udp, every simulation finds the two programs it starts: no other
\* container removes them between this container's make and its load.
UdpBinaryFound == missing = {}

\* A simulation that met no other container finds the two programs, whatever
\* the containers before it left in udp_ping/.
AloneIsSafe == missing \subseteq met

\* The semaphore bounds the scripts at work, not only the threads that wait
\* for them, even when a thread or the whole wrapper dies and leaves its
\* containers behind.
ScriptsBounded == Cardinality(AtWork) <= Procs
=============================================================================
