---------------------------- MODULE WrapperProofs ----------------------------
(***************************************************************************)
(* For every number of lines, set of blank lines and number of processors, *)
(* with failing calls or without: the safety properties of Wrapper.tla.    *)
(*                                                                         *)
(* IInv is the inductive invariant.  Its last part, LoopInv, says how far  *)
(* the loops of main() have come: a thread exists only for the lines the   *)
(* loop has passed, and the join loop has passed only finished threads.    *)
(***************************************************************************)
EXTENDS Wrapper, FiniteSetTheorems, TLAPS

\* The thread and the temporary file of line i are still to be made.
Untouched(i) == pc[i] = "unborn" /\ tmpfile[i] = "absent"

LoopInv ==
  /\ mainPc \in {"reading", "whole", "wholeRunning"} => \A i \in Lines : Untouched(i)
  /\ mainPc = "creating" => \A i \in Lines : i >= cur => Untouched(i)
  /\ mainPc \in {"writing", "spawning"} =>
       /\ cur \in Jobs
       /\ pc[cur] = "unborn"
       /\ \A i \in Lines : i > cur => Untouched(i)
  /\ mainPc = "spawning" => tmpfile[cur] = "written"
  /\ mainPc = "joining" => \A i \in Jobs : i < cur => pc[i] = "finished"
  /\ \A i \in Lines \cap Blank : Untouched(i)
  /\ \A i \in Lines : pc[i] \in {"releasing", "finished"} => tmpfile[i] = "absent"

IInv == TypeOK /\ InputPresent /\ LoopInv /\ CleanExit

-----------------------------------------------------------------------------
(* Sets of threads                                                         *)

\* Any set of lines is finite, so Holders and Running have a cardinality.
LEMMA LinesFinite ==
  ASSUME NEW S \in SUBSET Lines
  PROVE  IsFiniteSet(S) /\ Cardinality(S) \in Nat
<1>1. IsFiniteSet(1..N)
  BY FS_Interval, WrapperAssumption, SMT
<1> QED  BY <1>1, FS_Subset, FS_CardinalityType DEF Lines

\* A thread that moves into the section between acquire() and release() adds
\* one holder.
LEMMA EnterHolding ==
  ASSUME pc \in [Lines -> ThreadPcs], NEW i \in Lines, NEW q \in Holding,
         pc[i] \notin Holding, pc' = [pc EXCEPT ![i] = q]
  PROVE  Cardinality(Holders') = Cardinality(Holders) + 1
<1>1. Holders' = Holders \cup {i}  BY DEF Holders
<1>2. i \notin Holders             BY DEF Holders
<1>3. IsFiniteSet(Holders)         BY LinesFinite DEF Holders
<1> QED  BY <1>1, <1>2, <1>3, FS_AddElement

\* A thread that leaves it takes one holder away.
LEMMA LeaveHolding ==
  ASSUME pc \in [Lines -> ThreadPcs], NEW i \in Lines, NEW q,
         q \notin Holding, pc[i] \in Holding, pc' = [pc EXCEPT ![i] = q]
  PROVE  Cardinality(Holders') = Cardinality(Holders) - 1
<1>1. Holders' = Holders \ {i}  BY DEF Holders
<1>2. i \in Holders             BY DEF Holders
<1>3. IsFiniteSet(Holders)      BY LinesFinite DEF Holders
<1> QED  BY <1>1, <1>2, <1>3, FS_RemoveElement

\* A thread that moves inside it, or outside it, changes no holder.
LEMMA StayHolding ==
  ASSUME pc \in [Lines -> ThreadPcs], NEW i \in Lines, NEW q,
         q \in Holding <=> pc[i] \in Holding, pc' = [pc EXCEPT ![i] = q]
  PROVE  Holders' = Holders
BY DEF Holders

-----------------------------------------------------------------------------
(* The inductive invariant                                                 *)

LEMMA InitIInv == Init => IInv
BY WrapperAssumption
   DEF Init, IInv, TypeOK, InputPresent, LoopInv, CleanExit, Untouched, Jobs,
       Lines, MainPcs, ThreadPcs

\* main() keeps the invariant.
LEMMA MainIInv == IInv /\ (MainWork \/ MainPanic) => IInv'
<1> SUFFICES ASSUME IInv, MainWork \/ MainPanic PROVE IInv'
  OBVIOUS
<1> USE WrapperAssumption
    DEF IInv, TypeOK, InputPresent, LoopInv, CleanExit, Untouched, Jobs, Lines,
        MainPcs, ThreadPcs, Panicked
<1>1. CASE ReadFailures   BY <1>1 DEF ReadFailures
<1>2. CASE SkipBlank      BY <1>2 DEF SkipBlank
<1>3. CASE MakeTempfile   BY <1>3 DEF MakeTempfile
<1>4. CASE WriteTempfile  BY <1>4 DEF WriteTempfile
<1>5. CASE SpawnThread    BY <1>5 DEF SpawnThread
<1>6. CASE StartJoin      BY <1>6 DEF StartJoin
<1>7. CASE Join           BY <1>7 DEF Join
<1>8. CASE JoinPanicked   BY <1>8 DEF JoinPanicked
<1>9. CASE Exit           BY <1>9 DEF Exit
<1>10. CASE StartWhole    BY <1>10 DEF StartWhole
<1>11. CASE WholeExits    BY <1>11 DEF WholeExits
<1>12. CASE MainPanic     BY <1>12 DEF MainPanic
<1> QED  BY <1>1, <1>2, <1>3, <1>4, <1>5, <1>6, <1>7, <1>8, <1>9, <1>10, <1>11,
            <1>12 DEF MainWork

\* So does each thread; the count of permits needs the accounting to stay
\* within 0..Procs.
LEMMA ThreadIInv ==
  ASSUME IInv, PermitAccounting, NEW i \in Lines, ThreadWork(i) \/ ThreadPanic(i)
  PROVE  IInv'
<1> USE WrapperAssumption
    DEF IInv, TypeOK, InputPresent, LoopInv, CleanExit, Untouched, Jobs, Lines,
        MainPcs, ThreadPcs, MainAlive, Moves
<1>1. CASE Acquire(i)         BY <1>1 DEF Acquire
<1>2. CASE StartContainer(i)  BY <1>2 DEF StartContainer
<1>3. CASE ContainerExits(i)  BY <1>3 DEF ContainerExits
<1>4. CASE RemoveTempfile(i)  BY <1>4 DEF RemoveTempfile
<1>5. CASE Release(i)
  <2>1. permits < Procs
    <3>1. i \in Holders  BY <1>5 DEF Release, Holders, Holding, Panicked
    <3>2. IsFiniteSet(Holders) /\ Cardinality(Holders) \in Nat
      BY LinesFinite DEF Holders
    <3>3. Cardinality(Holders) # 0  BY <3>1, <3>2, FS_EmptySet
    <3> QED  BY <3>2, <3>3 DEF PermitAccounting
  <2> QED  BY <2>1, <1>5 DEF Release
<1>6. CASE ThreadPanic(i)  BY <1>6 DEF ThreadPanic
<1> QED  BY <1>1, <1>2, <1>3, <1>4, <1>5, <1>6 DEF ThreadWork

-----------------------------------------------------------------------------
(* The permits                                                             *)

LEMMA InitAccounting == Init => PermitAccounting
<1> SUFFICES ASSUME Init PROVE PermitAccounting
  OBVIOUS
<1>1. Holders = {}  BY DEF Init, Holders, Holding, Panicked
<1> QED  BY <1>1, FS_EmptySet, WrapperAssumption DEF Init, PermitAccounting

\* main() touches neither the semaphore nor a thread inside the section.
LEMMA MainAccounting ==
  IInv /\ PermitAccounting /\ (MainWork \/ MainPanic) => PermitAccounting'
<1> SUFFICES ASSUME IInv, PermitAccounting, MainWork \/ MainPanic
             PROVE  PermitAccounting'
  OBVIOUS
<1>1. CASE SpawnThread
  <2>1. cur \in Lines /\ pc[cur] = "unborn" /\ pc \in [Lines -> ThreadPcs]
    BY <1>1 DEF SpawnThread, IInv, TypeOK, LoopInv, Jobs
  <2>2. Holders' = Holders
    BY <1>1, <2>1, StayHolding DEF SpawnThread, Holding, Panicked
  <2> QED  BY <1>1, <2>2 DEF SpawnThread, PermitAccounting
<1>2. CASE ~SpawnThread
  <2>1. pc' = pc /\ permits' = permits
    BY <1>2 DEF MainWork, MainPanic, ReadFailures, SkipBlank, MakeTempfile,
                WriteTempfile, StartJoin, Join, JoinPanicked, Exit, StartWhole,
                WholeExits
  <2> QED  BY <2>1 DEF PermitAccounting, Holders
<1> QED  BY <1>1, <1>2

LEMMA ThreadAccounting ==
  ASSUME IInv, PermitAccounting, NEW i \in Lines, ThreadWork(i) \/ ThreadPanic(i)
  PROVE  PermitAccounting'
<1>0. /\ pc \in [Lines -> ThreadPcs] /\ permits \in Nat
      /\ Cardinality(Holders) \in Nat /\ Procs \in Nat
  BY LinesFinite, WrapperAssumption DEF IInv, TypeOK, Holders
<1>1. CASE Acquire(i)
  <2>1. Cardinality(Holders') = Cardinality(Holders) + 1
    BY <1>0, <1>1, EnterHolding DEF Acquire, Moves, Holding, Panicked
  <2> QED  BY <1>0, <1>1, <2>1 DEF Acquire, PermitAccounting
<1>2. CASE Release(i)
  <2>1. Cardinality(Holders') = Cardinality(Holders) - 1
    BY <1>0, <1>2, LeaveHolding DEF Release, Moves, Holding, Panicked
  <2> QED  BY <1>0, <1>2, <2>1 DEF Release, PermitAccounting
<1>3. CASE StartContainer(i) \/ ContainerExits(i) \/ RemoveTempfile(i) \/ ThreadPanic(i)
  <2>0. PICK q \in Holding : pc[i] \in Holding /\ pc' = [pc EXCEPT ![i] = q]
    BY <1>3
       DEF StartContainer, ContainerExits, RemoveTempfile, ThreadPanic, Moves, Holding, Panicked
  <2>1. Holders' = Holders
    BY <1>0, <2>0, StayHolding
  <2>2. permits' = permits
    BY <1>3 DEF StartContainer, ContainerExits, RemoveTempfile, ThreadPanic
  <2> QED  BY <2>1, <2>2 DEF PermitAccounting
<1> QED  BY <1>1, <1>2, <1>3 DEF ThreadWork

-----------------------------------------------------------------------------
(* Theorems                                                                *)

LEMMA Inductive == Spec => [](IInv /\ PermitAccounting)
<1>1. Init => IInv /\ PermitAccounting
  BY InitIInv, InitAccounting
<1>2. IInv /\ PermitAccounting /\ [Next]_vars => (IInv /\ PermitAccounting)'
  <2> SUFFICES ASSUME IInv, PermitAccounting, [Next]_vars
               PROVE  (IInv /\ PermitAccounting)'
    OBVIOUS
  <2>1. CASE MainWork \/ MainPanic
    BY <2>1, MainIInv, MainAccounting
  <2>2. CASE \E i \in Lines : ThreadWork(i) \/ ThreadPanic(i)
    BY <2>2, ThreadIInv, ThreadAccounting
  <2>3. CASE vars' = vars
    BY <2>3 DEF vars, IInv, TypeOK, InputPresent, LoopInv, CleanExit, Untouched,
                PermitAccounting, Holders
  <2> QED  BY <2>1, <2>2, <2>3 DEF Next, Terminated
<1> QED  BY <1>1, <1>2, PTL DEF Spec

\* Every variable of the wrapper keeps its type, the count of permits included.
THEOREM TypeCorrect == Spec => []TypeOK
<1>1. IInv => TypeOK  BY DEF IInv
<1> QED  BY <1>1, Inductive, PTL

\* Every permit is free, held or leaked by a panic (main.rs:258-263).
THEOREM PermitsAccounted == Spec => []PermitAccounting
BY Inductive, PTL

\* Never more containers at once than processors.
THEOREM ContainersBounded == Spec => []AtMostProcs
<1>1. IInv /\ PermitAccounting => AtMostProcs
  <2> SUFFICES ASSUME IInv, PermitAccounting PROVE AtMostProcs
    OBVIOUS
  <2>1. Running \subseteq Holders /\ Holders \in SUBSET Lines
    BY DEF Running, Holders, Holding, Panicked
  <2>2. Cardinality(Running) <= Cardinality(Holders)
    BY <2>1, LinesFinite, FS_Subset
  <2>3. Cardinality(Running) \in Nat /\ Cardinality(Holders) \in Nat
    BY <2>1, LinesFinite
  <2> QED  BY <2>2, <2>3, WrapperAssumption
           DEF AtMostProcs, PermitAccounting, IInv, TypeOK
<1> QED  BY <1>1, Inductive, PTL

\* A container never starts on a missing or half-written failures file.
THEOREM InputsPresent == Spec => []InputPresent
<1>1. IInv => InputPresent  BY DEF IInv
<1> QED  BY <1>1, Inductive, PTL

\* A normal exit leaves no temporary file and no container behind.
THEOREM ExitsClean == Spec => []CleanExit
<1>1. IInv => CleanExit  BY DEF IInv
<1> QED  BY <1>1, Inductive, PTL
-----------------------------------------------------------------------------
(* The pool of jobs                                                        *)

\* The threads that hold a permit are the jobs that occupy a slot.
LEMMA OccupiedAreHolders ==
  ASSUME IInv
  PROVE  Pool!Occupied = Holders
<1>1. \A i \in Jobs : StatusAt(pc[i]) \in {"running", "lost"} <=> pc[i] \in Holding
  BY DEF IInv, TypeOK, StatusAt, Holding, Panicked, ThreadPcs, Jobs
<1>2. \A i \in Lines \ Jobs : pc[i] \notin Holding
  BY DEF IInv, LoopInv, Untouched, Holding, Panicked, Jobs
<1>3. Jobs \subseteq Lines  BY DEF Jobs
<1> QED  BY <1>1, <1>2, <1>3 DEF Pool!Occupied, Holders

\* The cardinality the pool speaks of is the one of FiniteSets.
LEMMA SameCardinality ==
  ASSUME NEW S PROVE Pool!Cardinality(S) = Cardinality(S)
BY DEF Pool!Cardinality, Cardinality

\* A thread that moves changes the status of its own job alone.
LEMMA StatusAfter ==
  ASSUME pc \in [Lines -> ThreadPcs], NEW i \in Lines, NEW q, pc' = [pc EXCEPT ![i] = q]
  PROVE  \A j \in Jobs : pc'[j] = IF j = i THEN q ELSE pc[j]
BY DEF Jobs

\* Every step of main() is a stutter of the pool.
LEMMA MainStutters ==
  ASSUME IInv, MainWork \/ MainPanic
  PROVE  \A j \in Jobs : StatusAt(pc'[j]) = StatusAt(pc[j])
<1>1. CASE SpawnThread
  <2>1. cur \in Lines /\ pc[cur] = "unborn" /\ pc \in [Lines -> ThreadPcs]
    BY <1>1 DEF SpawnThread, IInv, TypeOK, LoopInv, Jobs
  <2>2. pc' = [pc EXCEPT ![cur] = "acquiring"]
    BY <1>1 DEF SpawnThread
  <2> QED  BY <2>1, <2>2, StatusAfter DEF StatusAt, Panicked
<1>2. CASE ~SpawnThread
  <2>1. pc' = pc
    BY <1>2 DEF MainWork, MainPanic, ReadFailures, SkipBlank, MakeTempfile,
                WriteTempfile, StartJoin, Join, JoinPanicked, Exit, StartWhole,
                WholeExits
  <2> QED  BY <2>1 DEF StatusAt
<1> QED  BY <1>1, <1>2

\* Every step of a thread is a step of the pool or a stutter.
LEMMA ThreadRefines ==
  ASSUME IInv, PermitAccounting, NEW i \in Lines, ThreadWork(i) \/ ThreadPanic(i)
  PROVE  Pool!Next \/ \A j \in Jobs : StatusAt(pc'[j]) = StatusAt(pc[j])
<1>0. pc \in [Lines -> ThreadPcs]
  BY DEF IInv, TypeOK
<1>1. i \in Jobs
  BY DEF IInv, LoopInv, Untouched, Jobs, ThreadWork, ThreadPanic, Acquire,
         StartContainer, ContainerExits, RemoveTempfile, Release, Moves
<1>2. CASE Acquire(i)
  <2>1. StatusAt(pc[i]) = "waiting"
    BY <1>2 DEF Acquire, Moves, StatusAt
  <2>2. /\ \A j \in Jobs \ {i} : StatusAt(pc'[j]) = StatusAt(pc[j])
        /\ StatusAt(pc'[i]) = "running"
    BY <1>0, <1>1, <1>2, StatusAfter DEF Acquire, Moves, StatusAt, Panicked
  <2>3. Pool!Cardinality(Pool!Occupied) < Procs
    <3>1. Cardinality(Holders) \in Nat  BY LinesFinite DEF Holders
    <3>2. permits > 0 /\ permits \in Nat
      BY <1>2, WrapperAssumption DEF Acquire, IInv, TypeOK
    <3> QED  BY <3>1, <3>2, OccupiedAreHolders, SameCardinality, WrapperAssumption
            DEF PermitAccounting
  <2>4. Pool!Begin(i)
    BY <1>1, <2>1, <2>2, <2>3 DEF Pool!Begin
  <2> QED  BY <1>1, <2>4 DEF Pool!Next
<1>3. CASE Release(i)
  <2>1. StatusAt(pc[i]) = "running"
    BY <1>3 DEF Release, Moves, StatusAt, Panicked
  <2>2. /\ \A j \in Jobs \ {i} : StatusAt(pc'[j]) = StatusAt(pc[j])
        /\ StatusAt(pc'[i]) = "done"
    BY <1>0, <1>1, <1>3, StatusAfter DEF Release, Moves, StatusAt, Panicked
  <2>3. Pool!End(i)
    BY <1>1, <2>1, <2>2 DEF Pool!End
  <2> QED  BY <1>1, <2>3 DEF Pool!Next
<1>4. CASE ThreadPanic(i)
  <2>0. PICK q \in Panicked : /\ pc' = [pc EXCEPT ![i] = q]
                              /\ pc[i] \in {"starting", "running", "exited"}
    BY <1>4 DEF ThreadPanic, Moves, Panicked
  <2>1. StatusAt(pc[i]) = "running"
    BY <2>0 DEF StatusAt, Panicked
  <2>2. /\ \A j \in Jobs \ {i} : StatusAt(pc'[j]) = StatusAt(pc[j])
        /\ StatusAt(pc'[i]) = "lost"
    BY <1>0, <1>1, <2>0, StatusAfter DEF StatusAt, Panicked
  <2>3. Pool!Lose(i)
    BY <1>1, <2>1, <2>2 DEF Pool!Lose
  <2> QED  BY <1>1, <2>3 DEF Pool!Next
<1>5. CASE StartContainer(i) \/ ContainerExits(i) \/ RemoveTempfile(i)
  <2>1. PICK q :
          /\ pc' = [pc EXCEPT ![i] = q]
          /\ \/ pc[i] = "orphaned" /\ q = "panicked"
             \/ pc[i] \in {"starting", "running", "exited"} /\ q \in {"running", "exited", "releasing"}
    BY <1>5 DEF StartContainer, ContainerExits, RemoveTempfile, Moves
  <2>2. StatusAt(pc[i]) = StatusAt(q)
    BY <2>1 DEF StatusAt, Panicked
  <2>3. /\ \A j \in Jobs \ {i} : StatusAt(pc'[j]) = StatusAt(pc[j])
        /\ StatusAt(pc'[i]) = StatusAt(q)
    BY <1>0, <1>1, <2>1, StatusAfter
  <2> QED  BY <2>2, <2>3
<1> QED  BY <1>2, <1>3, <1>4, <1>5 DEF ThreadWork

\* The wrapper implements the pool of jobs: whatever main() and the threads
\* do, a job begins only while fewer than Procs slots are occupied, and at
\* most once.
THEOREM ImplementsPool == Spec => PoolSpec
<1>1. Init => Pool!Init
  BY DEF Init, Pool!Init, StatusAt, Jobs
<1>2. IInv /\ PermitAccounting /\ [Next]_vars
        => [Pool!Next]_([i \in Jobs |-> StatusAt(pc[i])])
  <2> SUFFICES ASSUME IInv, PermitAccounting, [Next]_vars
               PROVE  Pool!Next \/ \A j \in Jobs : StatusAt(pc'[j]) = StatusAt(pc[j])
    OBVIOUS
  <2>1. CASE MainWork \/ MainPanic
    BY <2>1, MainStutters
  <2>2. CASE \E i \in Lines : ThreadWork(i) \/ ThreadPanic(i)
    BY <2>2, ThreadRefines
  <2>3. CASE vars' = vars
    BY <2>3 DEF vars, StatusAt
  <2> QED  BY <2>1, <2>2, <2>3 DEF Next, Terminated
<1> QED  BY <1>1, <1>2, Inductive, PTL DEF Spec, PoolSpec, Pool!Spec
=============================================================================
