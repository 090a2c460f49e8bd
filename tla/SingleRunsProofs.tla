--------------------------- MODULE SingleRunsProofs ---------------------------
(***************************************************************************)
(* For every number of lines and processors, with failing calls or         *)
(* without, and whether or not BIRD was configured before: the safety      *)
(* properties of SingleRuns.tla.                                           *)
(*                                                                         *)
(* The wrapper with its containers is the wrapper of Wrapper.tla seen from *)
(* farther away (ImplementsWrapper), so all that WrapperProofs.tla says of *)
(* the threads holds here.  BoxInv adds what the scripts need: a script is *)
(* at work only while its container runs, and a script that met no other   *)
(* is the only one at work and finds what its own make built.              *)
(***************************************************************************)
EXTENDS SingleRuns, WrapperProofs

\* A script at work has a container that runs, and the permit of its thread.
Awaited == AtWork \subseteq Running

\* A script at work that met no other is alone, and from its make to its last
\* load the binaries are there or about to be.
AloneInv ==
  \A i \in AtWork \ met :
    /\ AtWork = {i}
    /\ box[i] = "making" => exe \cup todo[i] = Binaries
    /\ box[i] \in {"launch", "serving"} => exe = Binaries

BoxInv == BoxTypeOK /\ Awaited /\ OwnInput /\ AloneInv /\ AloneIsSafe

-----------------------------------------------------------------------------
(* The wrapper inside                                                      *)

\* A step of the scripts is no step of the wrapper.
LEMMA ScriptKeepsWrapper ==
  ASSUME NEW i \in Lines, Script(i)
  PROVE  vars' = vars
BY DEF Script, CopyInputs, CheckMakefile, Configure, ConfigureEnds, MakeBird,
       RemoveExe, MakeExe, MakeExeEnds, LoadServer, LoadClient, Load, vars

\* Every step is a step of the wrapper or leaves it alone.
LEMMA StepOfWrapper == [SingleNext]_allVars => [Next]_vars
<1> SUFFICES ASSUME [SingleNext]_allVars PROVE [Next]_vars
  OBVIOUS
<1>1. CASE MainOnly
  BY <1>1 DEF MainOnly, Next
<1>2. ASSUME NEW i \in Lines, ThreadOnly(i) \/ RunContainer(i) \/ AwaitContainer(i)
      PROVE  Next
  BY <1>2 DEF ThreadOnly, RunContainer, AwaitContainer, Next, ThreadWork
<1>3. ASSUME NEW i \in Lines, Script(i) PROVE vars' = vars
  BY <1>3, ScriptKeepsWrapper
<1>4. CASE Terminated /\ UNCHANGED boxVars
  BY <1>4 DEF Terminated
<1>5. CASE allVars' = allVars
  BY <1>5 DEF allVars
<1> QED  BY <1>1, <1>2, <1>3, <1>4, <1>5 DEF SingleNext

\* What the scripts do is invisible to the wrapper: the composition implements
\* the wrapper whose containers are one step each.
THEOREM ImplementsWrapper == SingleSpec => Spec
<1>1. SingleInit => Init  BY DEF SingleInit
<1> QED  BY <1>1, StepOfWrapper, PTL DEF SingleSpec, Spec

LEMMA WrapperInductive == SingleSpec => [](IInv /\ PermitAccounting)
BY ImplementsWrapper, Inductive, PTL

-----------------------------------------------------------------------------
(* The inductive invariant                                                 *)

LEMMA InitBoxInv == SingleInit => BoxInv
BY SingleRunsAssumption
   DEF SingleInit, InitBoxes, BoxInv, BoxTypeOK, Awaited, AtWork, OwnInput,
       AloneInv, AloneIsSafe, BoxPcs

\* Only the starting thread of a line and the script of that line take part in
\* what the script needs: a step of main(), or of a thread that does not touch
\* its container, keeps the invariant.
LEMMA OthersBoxInv ==
  ASSUME IInv, BoxInv, UNCHANGED boxVars,
         \A i \in Running : i \in Running' \/ box[i] = "done"
  PROVE  BoxInv'
BY DEF BoxInv, BoxTypeOK, Awaited, AtWork, OwnInput, AloneInv, AloneIsSafe, boxVars

\* No step of main() ends a container.
LEMMA MainBoxInv ==
  ASSUME IInv, BoxInv, MainOnly
  PROVE  BoxInv'
<1>1. \A i \in Running : i \in Running'
  <2>1. CASE SpawnThread
    BY <2>1 DEF SpawnThread, IInv, TypeOK, LoopInv, Running
  <2>2. CASE ~SpawnThread
    BY <2>2 DEF Running, MainOnly, MainWork, MainPanic, ReadFailures, SkipBlank,
                MakeTempfile, WriteTempfile, StartJoin, Join, JoinPanicked, Exit,
                StartWhole, WholeExits
  <2> QED  BY <2>1, <2>2
<1> QED  BY <1>1, OthersBoxInv DEF MainOnly

\* A thread leaves its container alone, or has waited for its end.
LEMMA ThreadBoxInv ==
  ASSUME IInv, BoxInv, NEW i \in Lines, ThreadOnly(i) \/ AwaitContainer(i)
  PROVE  BoxInv'
<1>1. \A j \in Running : j \in Running' \/ box[j] = "done"
  BY DEF IInv, TypeOK, Running, ThreadOnly, AwaitContainer, Acquire, RemoveTempfile, Release,
         ThreadPanic, ContainerExits, Moves
<1> QED  BY <1>1, OthersBoxInv DEF ThreadOnly, AwaitContainer

\* A container that starts is alone, or meets all that are at work.
LEMMA RunBoxInv ==
  ASSUME IInv, BoxInv, NEW i \in Lines, RunContainer(i)
  PROVE  BoxInv'
<1> USE DEF IInv, TypeOK, BoxInv, RunContainer, StartContainer, Moves
<1>1. BoxTypeOK' /\ OwnInput'
  <2>1. todo[i] = {}
    BY DEF BoxTypeOK, Awaited, AtWork, Running
  <2> QED  BY <2>1 DEF BoxTypeOK, OwnInput, BoxPcs
<1>2. AtWork' = AtWork \cup {i}
  BY DEF AtWork, BoxTypeOK
<1>3. Awaited'
  BY <1>2 DEF Awaited, Running
<1>4. AloneInv'
  <2>1. CASE AtWork = {}
    BY <1>2, <2>1 DEF AloneInv, BoxTypeOK
  <2>2. CASE AtWork # {}
    BY <1>2, <2>2 DEF AloneInv
  <2> QED  BY <2>1, <2>2
<1>5. AloneIsSafe'
  BY DEF AloneIsSafe
<1> QED  BY <1>1, <1>3, <1>4, <1>5

\* The script of a container: its copy finds the tempfile its thread was
\* given, and, when it is alone, its loads find what its make built.
LEMMA ScriptBoxInv ==
  ASSUME IInv, BoxInv, NEW i \in Lines, Script(i)
  PROVE  BoxInv'
<1>0. /\ pc' = pc /\ tmpfile' = tmpfile /\ met' = met
      /\ box[i] \notin {"none", "done"} /\ i \in AtWork
      /\ \A j \in Lines \ {i} : box'[j] = box[j]
      /\ box'[i] # "none"
  <2>1. /\ met' = met /\ box[i] \notin {"none", "done"}
        /\ \E q \in BoxPcs \ {"none"} : box' = [box EXCEPT ![i] = q]
    BY DEF Script, CopyInputs, CheckMakefile, Configure, ConfigureEnds, MakeBird,
           RemoveExe, MakeExe, MakeExeEnds, LoadServer, LoadClient, Load, Goes, BoxPcs
  <2> QED  BY <2>1, ScriptKeepsWrapper DEF vars, AtWork, BoxInv, BoxTypeOK
<1>1. AtWork' \subseteq AtWork
  BY <1>0 DEF AtWork
<1>2. Awaited'
  BY <1>0, <1>1 DEF BoxInv, Awaited, Running
<1>3. BoxTypeOK'
  <2> USE DEF BoxInv, BoxTypeOK, BoxPcs, Goes
  <2>1. CASE CopyInputs(i)
    BY <2>1 DEF CopyInputs, IInv, TypeOK
  <2>2. CASE CheckMakefile(i) \/ Configure(i) \/ MakeBird(i)
    BY <2>2 DEF CheckMakefile, Configure, MakeBird
  <2>3. CASE ConfigureEnds(i) \/ RemoveExe(i)
    BY <2>3 DEF ConfigureEnds, RemoveExe
  <2>4. CASE MakeExe(i)
    BY <2>4 DEF MakeExe
  <2>5. CASE MakeExeEnds(i)
    BY <2>5 DEF MakeExeEnds
  <2>6. CASE LoadServer(i) \/ LoadClient(i)
    BY <2>6 DEF LoadServer, LoadClient, Load
  <2> QED  BY <2>1, <2>2, <2>3, <2>4, <2>5, <2>6 DEF Script
<1>4. OwnInput'
  <2>1. CASE CopyInputs(i)
    <3>1. tmpfile[i] = "written"
      BY <1>0 DEF BoxInv, Awaited, Running, IInv, InputPresent
    <3> QED  BY <2>1, <3>1, <1>0 DEF CopyInputs, Goes, BoxInv, OwnInput, BoxTypeOK
  <2>2. CASE ~CopyInputs(i)
    <3>1. staged' = staged /\ box[i] # "copy"
      BY <2>2 DEF Script, CheckMakefile, Configure, ConfigureEnds, MakeBird,
         RemoveExe, MakeExe, MakeExeEnds, LoadServer, LoadClient, Load, Goes
    <3> QED  BY <1>0, <3>1 DEF BoxInv, OwnInput
  <2> QED  BY <2>1, <2>2
<1>5. AloneInv' /\ AloneIsSafe'
  <2>1. CASE i \in met
    <3>1. AtWork \ met = {}
      BY <1>0, <2>1 DEF BoxInv, AloneInv
    <3>2. missing' \subseteq missing \cup {i}
      BY DEF Script, CopyInputs, CheckMakefile, Configure, ConfigureEnds, MakeBird,
         RemoveExe, MakeExe, MakeExeEnds, LoadServer, LoadClient, Load
    <3> QED  BY <1>0, <1>1, <2>1, <3>1, <3>2 DEF BoxInv, AloneInv, AloneIsSafe
  <2>2. CASE i \notin met
    <3>1. /\ AtWork = {i}
          /\ box[i] = "making" => exe \cup todo[i] = Binaries
          /\ box[i] \in {"launch", "serving"} => exe = Binaries
      BY <1>0, <2>2 DEF BoxInv, AloneInv
    <3>2. AtWork' \subseteq {i} /\ (AtWork' # {} => AtWork' = {i})
      BY <1>1, <3>1
    <3>3. missing' = missing
      BY <3>1 DEF Script, CopyInputs, CheckMakefile, Configure, ConfigureEnds, MakeBird,
         RemoveExe, MakeExe, MakeExeEnds, LoadServer, LoadClient, Load, Goes, Binaries
    <3>4. /\ box'[i] = "making" => exe' \cup todo'[i] = Binaries
          /\ box'[i] \in {"launch", "serving"} => exe' = Binaries
      BY <3>1 DEF Script, CopyInputs, CheckMakefile, Configure, ConfigureEnds, MakeBird,
         RemoveExe, MakeExe, MakeExeEnds, LoadServer, LoadClient, Load, Goes, BoxInv,
         BoxTypeOK
    <3> QED  BY <1>0, <3>2, <3>3, <3>4 DEF BoxInv, AloneInv, AloneIsSafe
  <2> QED  BY <2>1, <2>2
<1> QED  BY <1>2, <1>3, <1>4, <1>5 DEF BoxInv

LEMMA BoxInductive == SingleSpec => []BoxInv
<1>1. IInv /\ BoxInv /\ [SingleNext]_allVars => BoxInv'
  <2> SUFFICES ASSUME IInv, BoxInv, [SingleNext]_allVars PROVE BoxInv'
    OBVIOUS
  <2>1. CASE MainOnly
    BY <2>1, MainBoxInv
  <2>2. ASSUME NEW i \in Lines,
               ThreadOnly(i) \/ RunContainer(i) \/ AwaitContainer(i) \/ Script(i)
        PROVE  BoxInv'
    BY <2>2, ThreadBoxInv, RunBoxInv, ScriptBoxInv
  <2>3. CASE (Terminated /\ UNCHANGED boxVars) \/ allVars' = allVars
    BY <2>3, OthersBoxInv DEF Terminated, allVars, vars, Running
  <2> QED  BY <2>1, <2>2, <2>3 DEF SingleNext
<1>2. SingleSpec => []IInv
  BY WrapperInductive, PTL
<1> QED  BY <1>1, <1>2, InitBoxInv, PTL DEF SingleSpec

-----------------------------------------------------------------------------
(* Theorems                                                                *)

\* Every variable of the containers keeps its type, and only a running make
\* has something left to build.
THEOREM BoxTypeCorrect == SingleSpec => []BoxTypeOK
<1>1. BoxInv => BoxTypeOK  BY DEF BoxInv
<1> QED  BY <1>1, BoxInductive, PTL

\* The copy of inputs/ (script.sh:9) finds the container's own failures file,
\* complete, whatever the other threads and containers do to that directory.
THEOREM InputsOwn == SingleSpec => []OwnInput
<1>1. BoxInv => OwnInput  BY DEF BoxInv
<1> QED  BY <1>1, BoxInductive, PTL

\* A simulation that met no other finds the two programs of udp_ping/,
\* whatever earlier containers left there.
THEOREM AloneSafe == SingleSpec => []AloneIsSafe
<1>1. BoxInv => AloneIsSafe  BY DEF BoxInv
<1> QED  BY <1>1, BoxInductive, PTL

\* Never more scripts at work than processors, the containers a dead wrapper
\* left behind included.
THEOREM ScriptsAreBounded == SingleSpec => []ScriptsBounded
<1>1. IInv /\ PermitAccounting /\ BoxInv => ScriptsBounded
  <2> SUFFICES ASSUME IInv, PermitAccounting, BoxInv PROVE ScriptsBounded
    OBVIOUS
  <2>1. AtWork \subseteq Holders /\ Holders \in SUBSET Lines
    BY DEF Holders, Holding, Panicked, Running, BoxInv, Awaited
  <2>2. Cardinality(AtWork) <= Cardinality(Holders)
    BY <2>1, LinesFinite, FS_Subset
  <2>3. Cardinality(AtWork) \in Nat /\ Cardinality(Holders) \in Nat
    BY <2>1, LinesFinite
  <2> QED  BY <2>2, <2>3, WrapperAssumption
           DEF ScriptsBounded, PermitAccounting, IInv, TypeOK
<1> QED  BY <1>1, BoxInductive, WrapperInductive, PTL

\* With its containers at work, and left behind when it dies, the wrapper
\* still implements the pool of jobs.
THEOREM SingleImplementsPool == SingleSpec => PoolSpec
BY ImplementsWrapper, ImplementsPool, PTL
=============================================================================
