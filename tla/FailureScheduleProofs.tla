------------------------- MODULE FailureScheduleProofs -------------------------
(***************************************************************************)
(* Link failures from the topology to the end of the simulation, for every *)
(* set of topologies and of failures files, every runtime and every width  *)
(* of the clock: ScheduleInv joins the invariants of the parser, which is  *)
(* run twice, of the generator of failures, and of the simulator.          *)
(*                                                                         *)
(* GeneratedInv adds what becomes of a file that fail_gen.py writes from a *)
(* topology that gives each direction of a link once: PairsInv says which  *)
(* lines are left of the list while it is shortened, GivenInv relates them *)
(* to the links and to the failures file that is simulated.                *)
(***************************************************************************)
EXTENDS FailureSchedule, LinkFailureProofs, FiniteSetTheorems

-----------------------------------------------------------------------------
(* sort() loses no line                                                    *)

\* Line i of the list comes before line j, and line i's place.
Ahead(i, j) == b[i].metric < b[j].metric \/ (b[i].metric = b[j].metric /\ i < j)
AllAhead(i) == {j \in DOMAIN b : Ahead(j, i)}
Place(i) == 1 + Cardinality(AllAhead(i))

\* Places are places of the list, and keep the order of the lines.
LEMMA PlaceOrder ==
  ASSUME IsSequence(b), \A i \in DOMAIN b : b[i].metric \in Nat
  PROVE  /\ \A i \in DOMAIN b : Place(i) \in DOMAIN b
         /\ \A i, j \in DOMAIN b : Ahead(i, j) => Place(i) < Place(j)
         /\ \A i, j \in DOMAIN b : i # j => Place(i) # Place(j)
<1> DEFINE n == Len(b)
           D == 1..n
<1>1. n \in Nat /\ DOMAIN b = D /\ IsFiniteSet(D) /\ Cardinality(D) = n
  <2>1. n \in Nat /\ DOMAIN b = D
    BY Indices
  <2>2. IsFiniteSet(D) /\ Cardinality(D) = IF 1 > n THEN 0 ELSE n - 1 + 1
    BY <2>1, FS_Interval
  <2> HIDE DEF n
  <2>3. (IF 1 > n THEN 0 ELSE n - 1 + 1) = n
    BY <2>1
  <2> QED  BY <2>1, <2>2, <2>3
<1>2. ASSUME NEW i \in D
      PROVE  /\ IsFiniteSet(AllAhead(i)) /\ Cardinality(AllAhead(i)) \in Nat
             /\ i \notin AllAhead(i)
             /\ IsFiniteSet(AllAhead(i) \cup {i})
             /\ Cardinality(AllAhead(i) \cup {i}) = Cardinality(AllAhead(i)) + 1
             /\ Cardinality(AllAhead(i)) + 1 <= n
  <2>1. AllAhead(i) \subseteq D /\ AllAhead(i) \cup {i} \subseteq D
    BY <1>1 DEF AllAhead
  <2>2. i \notin AllAhead(i)
    BY <1>1 DEF AllAhead, Ahead
  <2>3. IsFiniteSet(AllAhead(i)) /\ IsFiniteSet(AllAhead(i) \cup {i})
        /\ Cardinality(AllAhead(i) \cup {i}) <= n
    BY <1>1, <2>1, FS_Subset
  <2>4. Cardinality(AllAhead(i)) \in Nat
    BY <2>3, FS_CardinalityType
  <2>5. Cardinality(AllAhead(i) \cup {i}) = Cardinality(AllAhead(i)) + 1
    BY <2>2, <2>3, FS_AddElement
  <2> QED  BY <2>2, <2>3, <2>4, <2>5
<1>3. \A i \in D : Place(i) \in D
  <2> SUFFICES ASSUME NEW i \in D PROVE Place(i) \in D
    OBVIOUS
  <2>1. Cardinality(AllAhead(i)) \in Nat /\ Cardinality(AllAhead(i)) + 1 <= n
    BY <1>2
  <2> QED  BY <1>1, <2>1 DEF Place
<1>4. ASSUME NEW i \in D, NEW j \in D, Ahead(i, j) PROVE Place(i) < Place(j)
  <2>1. AllAhead(i) \cup {i} \subseteq AllAhead(j)
    BY <1>1, <1>4 DEF AllAhead, Ahead
  <2>2. Cardinality(AllAhead(i) \cup {i}) <= Cardinality(AllAhead(j))
    BY <1>2, <2>1, FS_Subset
  <2>3. Cardinality(AllAhead(i)) \in Nat /\ Cardinality(AllAhead(j)) \in Nat
        /\ Cardinality(AllAhead(i) \cup {i}) = Cardinality(AllAhead(i)) + 1
    BY <1>2
  <2> QED  BY <2>2, <2>3 DEF Place
<1>5. \A i, j \in D : i # j => Ahead(i, j) \/ Ahead(j, i)
  BY <1>1 DEF Ahead
<1>6. \A i, j \in D : i # j => Place(i) # Place(j)
  BY <1>1, <1>3, <1>4, <1>5
<1> QED  BY <1>1, <1>3, <1>4, <1>6

\* Two lines do not get one place, so each place has a line.
LEMMA PlacesTaken ==
  ASSUME IsSequence(b), \A i \in DOMAIN b : b[i].metric \in Nat, NEW k \in DOMAIN b
  PROVE  \E i \in DOMAIN b : Place(i) = k
<1> DEFINE D == DOMAIN b
           place == [i \in D |-> Place(i)]
<1>1. IsFiniteSet(D)
  <2>1. Len(b) \in Nat /\ D = 1..Len(b)
    BY Indices
  <2> QED  BY <2>1, FS_Interval
<1>2. place \in Injection(D, D)
  BY PlaceOrder DEF Injection, IsInjective
<1>3. place \in Surjection(D, D)
  BY <1>1, <1>2, FS_Injection
<1> QED  BY <1>3 DEF Surjection

LEMMA SortedLine ==
  ASSUME IsSequence(b), \A i \in DOMAIN b : b[i].metric \in Nat, NEW k \in DOMAIN b
  PROVE  \E i \in DOMAIN b : Sorted[k] = b[i]
<1> DEFINE i == CHOOSE i \in DOMAIN b : Place(i) = k
<1>1. i \in DOMAIN b
  BY PlacesTaken
<1>2. Sorted[k] = b[i]
  BY DEF Sorted, Place, AllAhead, Ahead
<1> QED  BY <1>1, <1>2

\* Sorting takes each line of the list once, in the order of the metrics.
Sorting(g) ==
  /\ \A k \in DOMAIN b : g[k] \in DOMAIN b /\ Sorted[k] = b[g[k]]
  /\ \A j, k \in DOMAIN b : j < k => b[g[j]].metric <= b[g[k]].metric
  /\ \A j, k \in DOMAIN b : j # k => g[j] # g[k]
  /\ \A i \in DOMAIN b : \E k \in DOMAIN b : g[k] = i

LEMMA SomeSorting ==
  ASSUME IsSequence(b), \A i \in DOMAIN b : b[i].metric \in Nat
  PROVE  \E g : Sorting(g)
<1> DEFINE g == [k \in DOMAIN b |-> CHOOSE i \in DOMAIN b : Place(i) = k]
<1>1. \A k \in DOMAIN b : g[k] \in DOMAIN b /\ Place(g[k]) = k
  <2> SUFFICES ASSUME NEW k \in DOMAIN b PROVE g[k] \in DOMAIN b /\ Place(g[k]) = k
    OBVIOUS
  <2>1. \E i \in DOMAIN b : Place(i) = k
    BY PlacesTaken
  <2> QED  BY <2>1
<1>2. \A k \in DOMAIN b : Sorted[k] = b[g[k]]
  BY DEF Sorted, Place, AllAhead, Ahead
<1> HIDE DEF g
<1>3. ASSUME NEW j \in DOMAIN b, NEW k \in DOMAIN b, j < k
      PROVE  b[g[j]].metric <= b[g[k]].metric
  <2>1. g[j] \in DOMAIN b /\ g[k] \in DOMAIN b /\ Place(g[j]) = j /\ Place(g[k]) = k
    BY <1>1
  <2>2. ~Ahead(g[k], g[j])
    <3>1. j \in Nat /\ k \in Nat
      BY Indices
    <3>2. Ahead(g[k], g[j]) => k < j
      BY <2>1, PlaceOrder
    <3> QED  BY <1>3, <3>1, <3>2
  <2>3. b[g[j]].metric \in Nat /\ b[g[k]].metric \in Nat
    BY <2>1
  <2> QED  BY <2>2, <2>3 DEF Ahead
<1>4. \A j, k \in DOMAIN b : j # k => g[j] # g[k]
  BY <1>1
<1>5. \A i \in DOMAIN b : \E k \in DOMAIN b : g[k] = i
  <2> SUFFICES ASSUME NEW i \in DOMAIN b PROVE \E k \in DOMAIN b : g[k] = i
    OBVIOUS
  <2>1. Place(i) \in DOMAIN b
    BY PlaceOrder
  <2>2. g[Place(i)] \in DOMAIN b /\ Place(g[Place(i)]) = Place(i)
    BY <1>1, <2>1
  <2>3. g[Place(i)] = i
    BY <2>2, PlaceOrder
  <2> QED  BY <2>1, <2>3
<1> QED  BY <1>1, <1>2, <1>3, <1>4, <1>5 DEF Sorting

-----------------------------------------------------------------------------
(* The generator of failures                                               *)

\* The list is one of lines, no longer than the topology, and what is written
\* has begins ten seconds apart.
GenInv ==
  /\ \E f \in Files : f.kind = "topology" /\ topology = f.lines
  /\ IsSequence(b) /\ Len(b) <= Len(topology)
  /\ \A k \in DOMAIN b : IsLine(b[k])
  /\ gen = "written" => \A k \in DOMAIN b : b[k].begin = BASE + 10 * (k - 1)

\* A list without one of its elements.
LEMMA Removed ==
  ASSUME NEW S, NEW s \in Seq(S), NEW i \in DOMAIN s
  PROVE  /\ RemoveAt(s, i) \in Seq(S) /\ Len(RemoveAt(s, i)) = Len(s) - 1
         /\ \A k \in DOMAIN RemoveAt(s, i) : \E j \in DOMAIN s : RemoveAt(s, i)[k] = s[j]
<1> DEFINE n == Len(s)
           t == RemoveAt(s, i)
<1>1. /\ n \in Nat /\ DOMAIN s = 1..n
      /\ t \in Seq(S) /\ Len(t) = n - 1
      /\ \A k \in 1..(n - 1) : t[k] = IF k < i THEN s[k] ELSE s[k + 1]
  BY WithoutOne
<1> HIDE DEF t, n
<1>2. DOMAIN t = 1..(n - 1)
  BY <1>1
<1>3. \A k \in 1..(n - 1) : k \in 1..n /\ k + 1 \in 1..n
  BY <1>1
<1> QED  BY <1>1, <1>2, <1>3 DEF t, n

LEMMA DeleteReverseInv ==
  ASSUME GenInv, DeleteReverse, UNCHANGED topology
  PROVE  GenInv'
<1> DEFINE R == ReverseOf(b[visit])
           i == Min(R)
<1>1. /\ gen = "pairing" /\ R # {} /\ b' = RemoveAt(b, i) /\ gen' = gen
  BY DEF DeleteReverse
<1>2. Len(b) \in Nat /\ DOMAIN b = 1..Len(b) /\ b \in Seq(ToSet(b))
  BY Indices DEF GenInv, IsSequence
<1>3. i \in DOMAIN b
  <2>1. R \in SUBSET Nat
    BY <1>2 DEF ReverseOf
  <2>2. \E x \in R : \A y \in R : x <= y
    BY <1>1, <2>1, Least
  <2>3. i \in R
    BY <2>2 DEF Min
  <2> QED  BY <2>3 DEF ReverseOf
<1> HIDE DEF i, R
<1>4. /\ b' \in Seq(ToSet(b)) /\ Len(b') = Len(b) - 1
      /\ \A k \in DOMAIN b' : \E j \in DOMAIN b : b'[k] = b[j]
  <2>1. /\ RemoveAt(b, i) \in Seq(ToSet(b)) /\ Len(RemoveAt(b, i)) = Len(b) - 1
        /\ \A k \in DOMAIN RemoveAt(b, i) : \E j \in DOMAIN b : RemoveAt(b, i)[k] = b[j]
    <3>1. b \in Seq(ToSet(b)) /\ i \in DOMAIN b
      BY <1>2, <1>3
    <3> QED  BY <3>1, Removed, ZenonT(60)
  <2> QED  BY <1>1, <2>1, Zenon
<1>5. IsSequence(b')
  BY <1>4 DEF IsSequence, ToSet
<1>6. Len(b') <= Len(topology)
  <2>1. Len(topology) \in Nat
    <3>1. PICK f \in Files : topology = f.lines
      BY DEF GenInv
    <3> QED  BY <3>1, Indices, NtfParserAssumption
  <2> QED  BY <1>2, <1>4, <2>1 DEF GenInv
<1>7. \A k \in DOMAIN b' : IsLine(b'[k])
  BY <1>4 DEF GenInv
<1> QED  BY <1>1, <1>5, <1>6, <1>7 DEF GenInv

LEMMA WriteFailuresInv ==
  ASSUME GenInv, WriteFailures, UNCHANGED topology
  PROVE  GenInv'
<1>1. b' = [k \in DOMAIN b |-> [Sorted[k] EXCEPT !.begin = BASE + 10 * (k - 1)]]
  BY DEF WriteFailures
<1>2. Len(b) \in Nat /\ DOMAIN b = 1..Len(b)
  BY Indices DEF GenInv
<1>3. DOMAIN b' = 1..Len(b) /\ b' \in Seq(ToSet(b')) /\ Len(b') = Len(b)
  BY <1>1, <1>2 DEF ToSet
<1>4. ASSUME NEW k \in DOMAIN b
      PROVE  IsLine(b'[k]) /\ b'[k].begin = BASE + 10 * (k - 1)
  <2>1. \A i \in DOMAIN b : b[i].metric \in Nat
    BY DEF GenInv, IsLine
  <2>2. PICK i \in DOMAIN b : Sorted[k] = b[i]
    BY <2>1, SortedLine DEF GenInv
  <2>3. IsLine(b[i]) /\ b'[k] = [b[i] EXCEPT !.begin = BASE + 10 * (k - 1)]
    BY <1>1, <2>2 DEF GenInv
  <2>4. BASE + 10 * (k - 1) \in Nat
    BY <1>2 DEF BASE
  <2>5. /\ DOMAIN b'[k] = DOMAIN b[i]
        /\ b'[k].metric = b[i].metric /\ b'[k].delay = b[i].delay /\ b'[k].end = b[i].end
        /\ b'[k].begin = BASE + 10 * (k - 1)
    BY <2>3 DEF IsLine
  <2> QED  BY <2>3, <2>4, <2>5 DEF IsLine
<1>5. IsSequence(b')
  BY <1>3 DEF IsSequence
<1> QED  BY <1>2, <1>3, <1>4, <1>5 DEF GenInv

LEMMA GeneratorInv ==
  ASSUME GenInv, Generator
  PROVE  GenInv'
<1>1. UNCHANGED topology
  BY DEF Generator
<1>2. CASE ReadTopology(topology)
  <2>1. PICK f \in Files : topology = f.lines
    BY DEF GenInv
  <2>2. IsSequence(topology) /\ \A k \in DOMAIN topology : IsLine(topology[k])
    BY <2>1, NtfParserAssumption
  <2>3. Len(topology) \in Nat
    BY <2>2, Indices
  <2> QED  BY <1>1, <1>2, <2>2, <2>3 DEF ReadTopology, GenInv
<1>3. CASE DeleteReverse
  BY <1>1, <1>3, DeleteReverseInv
<1>4. CASE NoReverse
  BY <1>1, <1>4 DEF NoReverse, GenInv
<1>5. CASE WriteFailures
  BY <1>1, <1>5, WriteFailuresInv
<1> QED  BY <1>2, <1>3, <1>4, <1>5 DEF Generator, Generate

-----------------------------------------------------------------------------
(* Before the simulation is set up                                         *)

ScheduleInv == ParserInv /\ TimesOK /\ SimInv /\ GenInv

Early == {"topology", "installed", "failures"}

\* Nothing is scheduled yet.
Untouched ==
  /\ phase \in Early \cup {"setup"} /\ row = 1 /\ Len(rows) \in Nat
  /\ phase = "topology" => links = <<>>
  /\ now = 0 /\ queue = {} /\ uid = 0 /\ models = <<>>
  /\ IsSequence(links)
  /\ em \in [Devices -> {0}] /\ iface \in [Devices -> {"up"}]

LEMMA UntouchedInv == Untouched => SimInv
<1> SUFFICES ASSUME Untouched PROVE SimInv
  OBVIOUS
<1>1. Len(links) \in Nat
  BY Indices DEF Untouched
<1>2. Base(1) = 0
  BY <1>1 DEF Base
<1>3. \A c \in Chans : /\ <<c, 0>> \in Devices /\ <<c, 1>> \in Devices
                       /\ \A d \in Ends(c) : d \in Devices
  BY DEF Devices, Ends
<1>4. \A c : Hits(c) = {}
  BY DEF Hits, Untouched
<1>5. Fresh
  BY <1>3, <1>4 DEF Fresh, Untouched
<1>6. TypesOK
  <2>1. 1 \in 1..(Len(rows) + 1) /\ Len(models) = 0 /\ models \in Seq(BOOLEAN)
    BY DEF Untouched
  <2>2. em \in [Devices -> 0..0] /\ iface \in [Devices -> {"up", "down"}]
    BY DEF Untouched
  <2> QED  BY <2>1, <2>2 DEF Untouched, TypesOK
<1>7. StagesOK /\ QueueOK
  BY <1>2 DEF Untouched, StagesOK, QueueOK, Early
<1> QED  BY <1>5, <1>6, <1>7, FreshPast DEF SimInv

LEMMA EarlyUntouched ==
  ASSUME SimInv, ParserInv, phase \in Early
  PROVE  Untouched
<1>1. Len(rows) \in Nat
  BY DEF ParserInv, RowsOK
<1>2. /\ row = 1 /\ queue = {} /\ uid = Base(1) /\ now = 0 /\ models = <<>>
      /\ \A d \in Devices : iface[d] = "up"
      /\ phase = "topology" => links = <<>>
  BY DEF SimInv, StagesOK, Early
<1>3. Base(1) = 0
  <2>1. Len(links) \in Nat
    BY Links DEF SimInv
  <2> QED  BY <2>1 DEF Base
<1>4. \A d \in Devices : em[d] = 0
  BY <1>2, NothingDone
<1> QED  BY <1>1, <1>2, <1>3, <1>4 DEF SimInv, TypesOK, Untouched

LEMMA InitSchedule == ScheduleInit => ScheduleInv
<1> SUFFICES ASSUME ScheduleInit PROVE ScheduleInv
  OBVIOUS
<1>1. ParserInv
  BY InitParserInv DEF ScheduleInit
<1>2. file \in Files /\ file.kind = "topology" /\ topology = file.lines
  BY DEF ScheduleInit, Init, Lines
<1>3. TimesOK
  BY <1>2, LinkFailureAssumption DEF TimesOK, Lines
<1>4. Untouched
  <2>1. IsSequence(<<>>) /\ DOMAIN <<>> = {}
    BY DEF IsSequence
  <2>2. em \in [{} -> {0}] /\ iface \in [{} -> {"up"}]
    BY DEF ScheduleInit, SimInit
  <2>3. Devices = {}
    BY <2>1 DEF ScheduleInit, SimInit, Devices, Chans
  <2>4. Len(rows) \in Nat
    BY <1>1 DEF ParserInv, RowsOK
  <2> QED  BY <2>1, <2>2, <2>3, <2>4 DEF ScheduleInit, SimInit, Untouched, Early
<1>5. GenInv
  <2>1. Len(topology) \in Nat
    BY <1>1, <1>2, Indices DEF ParserInv, InputOK, Lines
  <2>2. IsSequence(<<>>) /\ Len(<<>>) = 0
    BY DEF IsSequence
  <2> QED  BY <1>2, <2>1, <2>2 DEF ScheduleInit, GenInit, GenInv
<1> QED  BY <1>1, <1>3, <1>4, <1>5, UntouchedInv DEF ScheduleInv

LEMMA ParseInv ==
  ASSUME ScheduleInv, Parse
  PROVE  ScheduleInv'
<1>1. /\ phase \in Early /\ UNCHANGED <<simVars, genVars, topology>>
      /\ Next
  BY DEF Parse, Next, Early
<1>2. ParserInv'
  BY <1>1, NextParserInv DEF ScheduleInv
<1>3. file' = file
  BY <1>1 DEF Next, ReadLine, ReadOn, Unexpected, EndReading, PrintPair, UnknownName, Finish,
              Terminated, vars
<1>4. TimesOK'
  BY <1>3 DEF ScheduleInv, TimesOK, Lines
<1>5. Untouched'
  <2>1. Untouched
    BY <1>1, EarlyUntouched DEF ScheduleInv
  <2>2. Len(rows') \in Nat
    BY <1>2 DEF ParserInv, RowsOK
  <2> QED  BY <1>1, <2>1, <2>2 DEF Untouched, simVars, Devices, Chans
<1>6. SimInv'
  BY <1>5, UntouchedInv, PTL
<1>7. GenInv'
  BY <1>1 DEF ScheduleInv, GenInv, genVars
<1> QED  BY <1>2, <1>4, <1>6, <1>7 DEF ScheduleInv

\* The parser's state is as it was.
LEMMA ParserKept ==
  ASSUME ScheduleInv, UNCHANGED vars
  PROVE  ParserInv' /\ TimesOK'
<1>1. ParserInv'
  BY NextParserInv DEF ScheduleInv
<1>2. TimesOK'
  BY DEF ScheduleInv, TimesOK, Lines, vars
<1> QED  BY <1>1, <1>2

\* Nothing of the simulation or of its rows changes.
LEMMA SimKept ==
  ASSUME ScheduleInv, UNCHANGED <<vars, simVars>>
  PROVE  SimInv'
<1>1. /\ Chans' = Chans /\ Devices' = Devices
      /\ \A i : Start(i)' = Start(i) /\ Length(i)' = Length(i) /\ Base(i)' = Base(i)
      /\ \A i, c : FailOf(i, c)' = FailOf(i, c) /\ DownOf(i, c)' = DownOf(i, c)
      /\ \A i, j : Earlier(i, j)' <=> Earlier(i, j)
      /\ \A c : Hits(c)' = Hits(c)
  BY Frame DEF simVars
<1>2. TypesOK' /\ StagesOK'
  BY <1>1 DEF ScheduleInv, SimInv, TypesOK, StagesOK, IsStop, vars, simVars
<1>3. QueueOK'
  BY <1>1 DEF ScheduleInv, SimInv, QueueOK, Event, IsLift, IsStop, Ends, vars, simVars
<1>4. \A c : Done(c)' = Done(c)
  BY <1>1 DEF Done, simVars
<1>5. PastOK' /\ OrderOK' /\ IfacesOK'
  BY <1>1, <1>4 DEF ScheduleInv, SimInv, PastOK, OrderOK, IfacesOK, Ends, simVars
<1>6. ModelsOK'
  <2> SUFFICES ASSUME NEW c \in Chans PROVE ModelOK(c)'
    BY <1>1 DEF ModelsOK
  <2>1. ModelOK(c) /\ em' = em
    BY DEF ScheduleInv, SimInv, ModelsOK, simVars
  <2>2. \A i : Newest(i, c)' <=> Newest(i, c)
    BY <1>1, <1>4 DEF Newest
  <2>3. \A i : CarriesOut(em[<<c, 0>>], i)' <=> CarriesOut(em[<<c, 0>>], i)
    BY <1>1, <2>1 DEF CarriesOut, simVars
  <2> QED  BY <1>1, <1>4, <2>1, <2>2, <2>3 DEF ModelOK
<1> QED  BY <1>2, <1>3, <1>5, <1>6 DEF SimInv

LEMMA InstallInv ==
  ASSUME ScheduleInv, InstallTopology
  PROVE  ScheduleInv'
<1>1. /\ phase = "topology" /\ phase' = "installed"
      /\ links' = rows
      /\ em' = [d \in (DOMAIN rows) \X {0, 1} |-> 0]
      /\ iface' = [d \in (DOMAIN rows) \X {0, 1} |-> "up"]
      /\ UNCHANGED <<vars, genVars, row, now, queue, uid, models, topology>>
  BY DEF InstallTopology
<1>2. ParserInv' /\ TimesOK'
  BY <1>1, ParserKept
<1>3. Untouched'
  <2>1. Untouched
    BY <1>1, EarlyUntouched DEF ScheduleInv, Early
  <2>2. rows' = rows /\ IsSequence(rows)
    BY <1>1 DEF vars, ScheduleInv, ParserInv, RowsOK, IsSequence, ToSet
  <2>3. Devices' = (DOMAIN rows) \X {0, 1}
    BY <1>1 DEF Devices, Chans
  <2> QED  BY <1>1, <2>1, <2>2, <2>3 DEF Untouched, Early
<1>4. SimInv'
  BY <1>3, UntouchedInv, PTL
<1>5. GenInv'
  BY <1>1 DEF ScheduleInv, GenInv, genVars
<1> QED  BY <1>2, <1>4, <1>5 DEF ScheduleInv

\* A failures file whose lines are lines and whose begins do not wrap.
LEMMA GiveFileInv ==
  ASSUME ScheduleInv, NEW lines, NEW from, GiveFile(lines, from),
         IsSequence(lines), \A i \in DOMAIN lines : IsLine(lines[i]),
         \A i \in DOMAIN lines : lines[i].begin * 1000 + 18 < U32
  PROVE  ScheduleInv'
<1>1. /\ phase = "installed" /\ phase' = "failures"
      /\ file' = [kind |-> "failures", lines |-> lines]
      /\ pos' = 1 /\ nodes' = <<>> /\ pairs' = <<>> /\ next' = 1 /\ rows' = <<>>
      /\ status' = "reading"
      /\ UNCHANGED <<map, links, row, now, queue, uid, models, em, iface, genVars, topology>>
  BY DEF GiveFile
<1>2. Lines' = lines
  BY <1>1 DEF Lines
<1>3. TimesOK'
  BY <1>2 DEF TimesOK
<1>4. ParserInv'
  <2>1. InputOK'
    BY <1>1, <1>2 DEF InputOK, ScheduleInv, ParserInv
  <2>2. CursorsOK'
    <3>1. Len(lines) \in Nat
      BY Indices
    <3> QED  BY <1>1, <1>2, <3>1 DEF CursorsOK
  <2>3. PairsOK' /\ RowsOK' /\ NodesOK' /\ OneDirection'
    BY <1>1 DEF PairsOK, RowsOK, NodesOK, OneDirection, IsInjective
  <2> QED  BY <2>1, <2>2, <2>3 DEF ParserInv
<1>5. Untouched'
  <2>1. Untouched
    BY <1>1, EarlyUntouched DEF ScheduleInv, Early
  <2> QED  BY <1>1, <2>1 DEF Untouched, Devices, Chans, Early
<1>6. SimInv'
  BY <1>5, UntouchedInv, PTL
<1>7. GenInv'
  BY <1>1 DEF ScheduleInv, GenInv, genVars
<1> QED  BY <1>3, <1>4, <1>6, <1>7 DEF ScheduleInv

LEMMA GiveByHandInv ==
  ASSUME ScheduleInv, GiveByHand
  PROVE  ScheduleInv'
<1>1. PICK f \in Files : GiveFile(f.lines, "hand")
  BY DEF GiveByHand
<1>2. IsSequence(f.lines) /\ \A i \in DOMAIN f.lines : IsLine(f.lines[i])
  BY NtfParserAssumption
<1>3. \A i \in DOMAIN f.lines : f.lines[i].begin * 1000 + 18 < U32
  BY LinkFailureAssumption
<1> QED  BY <1>1, <1>2, <1>3, GiveFileInv

LEMMA GiveGeneratedInv ==
  ASSUME ScheduleInv, GiveGenerated
  PROVE  ScheduleInv'
<1>1. /\ gen = "written"
      /\ GiveFile(b, "whole") \/ \E k \in DOMAIN b : GiveFile(<<b[k]>>, "single")
  BY DEF GiveGenerated
<1>2. /\ IsSequence(b) /\ Len(b) <= Len(topology) /\ \A k \in DOMAIN b : IsLine(b[k])
      /\ \A k \in DOMAIN b : b[k].begin = BASE + 10 * (k - 1)
  BY <1>1 DEF ScheduleInv, GenInv
<1>3. \A k \in DOMAIN b : b[k].begin * 1000 + 18 < U32
  <2> SUFFICES ASSUME NEW k \in DOMAIN b PROVE b[k].begin * 1000 + 18 < U32
    OBVIOUS
  <2>1. PICK f \in Files : f.kind = "topology" /\ topology = f.lines
    BY DEF ScheduleInv, GenInv
  <2>2. (BASE + 10 * Len(topology)) * 1000 + 18 < U32 /\ Len(topology) \in Nat /\ U32 \in Nat
    BY <2>1, ScheduleAssumption, NtfParserAssumption, LinkFailureAssumption, Indices
  <2>3. k \in Nat /\ k <= Len(topology) /\ BASE = 60
    <3>1. Len(b) \in Nat /\ DOMAIN b = 1..Len(b)
      BY <1>2, Indices
    <3> QED  BY <1>2, <2>2, <3>1 DEF BASE
  <2>4. b[k].begin = 60 + 10 * (k - 1)
    BY <1>2, <2>3
  <2>5. 60 + 10 * (k - 1) <= 60 + 10 * Len(topology)
    BY <2>2, <2>3
  <2>6. (60 + 10 * Len(topology)) * 1000 + 18 < U32
    BY <2>2, <2>3
  <2> QED  BY <2>2, <2>3, <2>4, <2>5, <2>6
<1>4. CASE GiveFile(b, "whole")
  BY <1>2, <1>3, <1>4, GiveFileInv
<1>5. ASSUME NEW k \in DOMAIN b, GiveFile(<<b[k]>>, "single") PROVE ScheduleInv'
  <2> DEFINE l == b[k]
             s == <<l>>
  <2>1. DOMAIN s = {1} /\ s[1] = l
    OBVIOUS
  <2>2. IsSequence(s)
    BY DEF IsSequence, ToSet
  <2>3. IsLine(l) /\ l.begin * 1000 + 18 < U32
    BY <1>2, <1>3
  <2> HIDE DEF l
  <2>4. \A i \in DOMAIN s : IsLine(s[i]) /\ s[i].begin * 1000 + 18 < U32
    BY <2>1, <2>3
  <2>5. GiveFile(s, "single")
    BY <1>5 DEF l
  <2> HIDE DEF s
  <2> QED  BY <2>2, <2>4, <2>5, GiveFileInv
<1> QED  BY <1>1, <1>4, <1>5

LEMMA TakeFailuresInv ==
  ASSUME ScheduleInv, TakeFailures
  PROVE  ScheduleInv'
<1>1. /\ phase = "failures" /\ phase' = "setup"
      /\ UNCHANGED <<vars, links, row, now, queue, uid, models, em, iface, genVars, topology>>
  BY DEF TakeFailures
<1>2. ParserInv' /\ TimesOK'
  BY <1>1, ParserKept
<1>3. Untouched'
  <2>1. Untouched
    BY <1>1, EarlyUntouched DEF ScheduleInv, Early
  <2> QED  BY <1>1, <2>1 DEF Untouched, Devices, Chans, vars
<1>4. SimInv'
  BY <1>3, UntouchedInv, PTL
<1>5. GenInv'
  BY <1>1 DEF ScheduleInv, GenInv, genVars
<1> QED  BY <1>2, <1>4, <1>5 DEF ScheduleInv

LEMMA SimNextVars == SimNext => UNCHANGED vars
BY DEF SimNext, ScheduleFailure, Run, FailLink, LiftFailure, SetDown, StopRun

LEMMA NextScheduleInv == ScheduleInv /\ [ScheduleNext]_scheduleVars => ScheduleInv'
<1> SUFFICES ASSUME ScheduleInv, [ScheduleNext]_scheduleVars PROVE ScheduleInv'
  OBVIOUS
<1>1. CASE Parse
  BY <1>1, ParseInv
<1>2. CASE InstallTopology
  BY <1>2, InstallInv
<1>3. CASE GiveByHand
  BY <1>3, GiveByHandInv
<1>4. CASE GiveGenerated
  BY <1>4, GiveGeneratedInv
<1>5. CASE TakeFailures
  BY <1>5, TakeFailuresInv
<1>6. CASE Generator
  <2>1. GenInv'
    BY <1>6, GeneratorInv DEF ScheduleInv
  <2>2. UNCHANGED <<vars, simVars>>
    BY <1>6 DEF Generator
  <2>3. ParserInv' /\ TimesOK'
    BY <2>2, ParserKept
  <2>4. SimInv'
    BY <2>2, SimKept
  <2> QED  BY <2>1, <2>3, <2>4 DEF ScheduleInv
<1>7. CASE Simulate
  <2>1. SimNext /\ UNCHANGED <<vars, genVars, topology>>
    BY <1>7, SimNextVars DEF Simulate
  <2>2. ParserInv' /\ TimesOK'
    BY <2>1, ParserKept
  <2>3. SimInv'
    BY <2>1, SimNextInv DEF ScheduleInv
  <2>4. GenInv'
    BY <2>1 DEF ScheduleInv, GenInv, genVars
  <2> QED  BY <2>2, <2>3, <2>4 DEF ScheduleInv
<1>8. CASE UNCHANGED scheduleVars
  <2>1. UNCHANGED <<vars, simVars, genVars, topology>>
    BY <1>8 DEF scheduleVars
  <2>2. ParserInv' /\ TimesOK'
    BY <2>1, ParserKept
  <2>3. SimInv'
    BY <2>1, SimKept
  <2>4. GenInv'
    BY <2>1 DEF ScheduleInv, GenInv, genVars
  <2> QED  BY <2>2, <2>3, <2>4 DEF ScheduleInv
<1> QED  BY <1>1, <1>2, <1>3, <1>4, <1>5, <1>6, <1>7, <1>8 DEF ScheduleNext, Over

LEMMA ScheduleInductive == ScheduleSpec => []ScheduleInv
BY InitSchedule, NextScheduleInv, PTL DEF ScheduleSpec

-----------------------------------------------------------------------------
(* The properties of a run with link failures                              *)

\* The error models in use exist, and the events to come lie in the future and
\* refer to links, devices and models that exist.
THEOREM ScheduleTypeCorrect == ScheduleSpec => []SimTypeOK
<1>1. ScheduleInv => SimTypeOK
  BY SimTypes DEF ScheduleInv
<1> QED  BY <1>1, ScheduleInductive, PTL

\* Whatever failures overlap, touch or never end, a link is dark exactly while
\* the newest failure that has begun on it lasts (NtfTopoGen.cc:55-100).
THEOREM LinksDarkExactly == ScheduleSpec => []DarkExactly
<1>1. ScheduleInv => DarkExactly
  BY DarkHolds DEF ScheduleInv
<1> QED  BY <1>1, ScheduleInductive, PTL

\* After the run the interfaces that are down are those of the links that
\* failed during it (NtfTopoGen.cc:71-74).
THEOREM InterfacesDownAtStop == ScheduleSpec => []DownAtStop
<1>1. ScheduleInv => DownAtStop
  BY StoppedHolds DEF ScheduleInv
<1> QED  BY <1>1, ScheduleInductive, PTL

\* A step that is not the simulator's takes no interface down and gives no
\* device of a link an error model.
LEMMA OtherSteps ==
  ASSUME ScheduleInv, [ScheduleNext]_scheduleVars, ~Simulate, NEW c \in Chans, NEW d \in Ends(c)
  PROVE  iface'[d] = iface[d] /\ em'[d] = em[d]
<1>1. CASE InstallTopology
  <2>1. links = <<>>
    BY <1>1 DEF InstallTopology, ScheduleInv, SimInv, StagesOK
  <2>2. Chans = {}
    BY <2>1 DEF Chans
  <2> QED  BY <2>2
<1>2. CASE ~InstallTopology
  <2>1. UNCHANGED <<em, iface>>
    BY <1>2 DEF ScheduleNext, scheduleVars, simVars, Parse, GiveByHand, GiveGenerated, GiveFile,
                Generator, TakeFailures, Over
  <2> QED  BY <2>1
<1> QED  BY <1>1, <1>2

\* `ip l set dev simX down' runs only while the link filters at both ends: the
\* 15 and 18 ms after the failure are short of any end of it.
THEOREM InterfacesDownWhileDark == ScheduleSpec => DownWhileDark
<1> DEFINE A == \A c \in Chans : \A d \in Ends(c) :
                  iface[d] = "up" /\ iface'[d] = "down" => \A x \in Ends(c) : Filters(x)
<1>1. ScheduleInv /\ [ScheduleNext]_scheduleVars => A
  <2> SUFFICES ASSUME ScheduleInv, [ScheduleNext]_scheduleVars, NEW c \in Chans, NEW d \in Ends(c),
                      iface[d] = "up", iface'[d] = "down", NEW x \in Ends(c)
               PROVE  Filters(x)
    OBVIOUS
  <2>1. Simulate
    BY OtherSteps
  <2>2. CASE \E e \in queue : SetDown(e)
    BY <2>2, DownStep DEF ScheduleInv
  <2>3. CASE ~(\E e \in queue : SetDown(e))
    <3>1. UNCHANGED iface
      BY <2>1, <2>3 DEF Simulate, SimNext, ScheduleFailure, Run, FailLink, LiftFailure, StopRun
    <3> QED  BY <3>1
  <2> QED  BY <2>2, <2>3
<1>2. ScheduleInv /\ [ScheduleNext]_scheduleVars => [A]_simVars
  BY <1>1
<1> HIDE DEF A
<1>3. ScheduleSpec => [][A]_simVars
  BY <1>2, ScheduleInductive, PTL DEF ScheduleSpec
<1> QED  BY <1>3 DEF DownWhileDark, A

\* A link fails only at the begin of a line of the file that names its two
\* nodes, in either order (NtfTopoGen.cc:40-53, 76-100).
THEOREM OnlyNamedLinksFail == ScheduleSpec => OnlyNamedFail
<1> DEFINE A == \A c \in Chans : \A d \in Ends(c) : em'[d] # em[d] =>
                  \E i \in DOMAIN Lines : NamesOf(Lines[i]) = Names(c) /\ Lines[i].begin * 1000 = now'
<1>1. ScheduleInv /\ [ScheduleNext]_scheduleVars => A
  <2> SUFFICES ASSUME ScheduleInv, [ScheduleNext]_scheduleVars, NEW c \in Chans, NEW d \in Ends(c),
                      em'[d] # em[d]
               PROVE  \E i \in DOMAIN Lines :
                        NamesOf(Lines[i]) = Names(c) /\ Lines[i].begin * 1000 = now'
    OBVIOUS
  <2>1. Simulate
    BY OtherSteps
  <2>2. PICK e \in queue : FailLink(e)
    BY <2>1 DEF Simulate, SimNext, ScheduleFailure, Run, LiftFailure, SetDown, StopRun
  <2>3. PICK i \in DOMAIN rows : c \in Selected(rows[i]) /\ rows[i].begin * 1000 = now'
    BY <2>2, FailStep DEF ScheduleInv
  <2>4. PICK j \in DOMAIN Lines :
          Stems(rows[i], {map[rows[i].src + 1], map[rows[i].dst + 1]}, Lines[j])
    BY DEF ScheduleInv, ParserInv, RowsOK
  <2>5. links[c].src = rows[i].src /\ links[c].dst = rows[i].dst
    BY <2>3 DEF Selected
  <2>6. NamesOf(Lines[j]) = Names(c) /\ Lines[j].begin = rows[i].begin
    BY <2>4, <2>5 DEF Stems, NamesOf, Names
  <2> QED  BY <2>3, <2>6
<1>2. ScheduleInv /\ [ScheduleNext]_scheduleVars => [A]_scheduleVars
  BY <1>1
<1> HIDE DEF A
<1>3. ScheduleSpec => [][A]_scheduleVars
  BY <1>2, ScheduleInductive, PTL DEF ScheduleSpec
<1> QED  BY <1>3 DEF OnlyNamedFail, A

-----------------------------------------------------------------------------
(* The pairing of a topology that gives each direction once                *)

\* What is left of the list is in the order of the topology and has a line for
\* each of its links; a line that the loop has visited is the first of its
\* link in the topology, and its reverse is gone.
PairingOK ==
  /\ visit \in 1..(Len(b) + 1)
  /\ \A k \in DOMAIN b : \E i \in DOMAIN topology : b[k] = topology[i]
  /\ \A j, k \in DOMAIN b : \A i, m \in DOMAIN topology :
       j < k /\ b[j] = topology[i] /\ b[k] = topology[m] => i < m
  /\ \A i \in DOMAIN topology : \E k \in DOMAIN b : EndsOf(b[k]) = EndsOf(topology[i])
  /\ \A k \in 1..(visit - 1) : \A j \in DOMAIN b : j # k => EndsOf(b[j]) # EndsOf(b[k])
  /\ \A k \in 1..(visit - 1) : \A i \in DOMAIN topology : b[k] = topology[i] => Opens(topology, i)

\* What is written: for each link the line that opens it, by metric.
WrittenOK ==
  /\ \A k \in DOMAIN b : \E i \in DOMAIN topology :
       Opens(topology, i) /\ b[k] = [topology[i] EXCEPT !.begin = BASE + 10 * (k - 1)]
  /\ \A i \in DOMAIN topology : \E k \in DOMAIN b : EndsOf(b[k]) = EndsOf(topology[i])
  /\ \A j, k \in DOMAIN b : j # k => EndsOf(b[j]) # EndsOf(b[k])
  /\ \A j, k \in DOMAIN b : j < k => b[j].metric <= b[k].metric

PairsInv ==
  /\ gen = "idle" => visit = 1
  /\ gen = "pairing" /\ Simple => PairingOK
  /\ gen = "written" /\ Simple => WrittenOK

LEMMA TopologyLines ==
  ASSUME GenInv
  PROVE  /\ IsSequence(topology) /\ Len(topology) \in Nat /\ DOMAIN topology = 1..Len(topology)
         /\ \A i \in DOMAIN topology : IsLine(topology[i]) /\ topology[i].src # topology[i].dst
<1>1. PICK f \in Files : f.kind = "topology" /\ topology = f.lines
  BY DEF GenInv
<1>2. IsSequence(topology) /\ \A i \in DOMAIN topology : IsLine(topology[i])
  BY <1>1, NtfParserAssumption
<1>3. \A i \in DOMAIN topology : topology[i].src # topology[i].dst
  BY <1>1, LinkFailureAssumption
<1> QED  BY <1>2, <1>3, Indices

LEMMA ReadTopologyPairs ==
  ASSUME GenInv, PairsInv, ReadTopology(topology), UNCHANGED topology
  PROVE  PairsInv'
<1>1. b' = topology /\ gen' = "pairing" /\ visit' = 1
  BY DEF ReadTopology, PairsInv
<1>2. Len(topology) \in Nat /\ DOMAIN topology = 1..Len(topology)
  BY TopologyLines
<1> SUFFICES ASSUME Simple' PROVE PairingOK'
  BY <1>1 DEF PairsInv
<1>3. \A i, j \in DOMAIN topology : topology[i] = topology[j] => i = j
  BY DEF Simple
<1>4. 1 \in 1..(Len(topology) + 1)
  BY <1>2
<1>5. \A k : k \notin 1..(visit' - 1)
  BY <1>1
<1>6. \A j, k \in DOMAIN topology : \A i, m \in DOMAIN topology :
        j < k /\ topology[j] = topology[i] /\ topology[k] = topology[m] => i < m
  BY <1>3
<1> QED  BY <1>1, <1>4, <1>5, <1>6 DEF PairingOK, EndsOf

\* What is left without element j: element k is the one at Old(j, k).
Old(j, k) == IF k < j THEN k ELSE k + 1

LEMMA OldPlaces ==
  ASSUME NEW n \in Nat, NEW j \in 1..n, NEW v \in 1..(j - 1)
  PROVE  /\ v + 1 \in 1..n /\ v \in 1..(n - 1)
         /\ \A k \in 1..(n - 1) : Old(j, k) \in 1..n /\ Old(j, k) # j
         /\ \A k \in 1..v : k \in 1..(n - 1) /\ Old(j, k) = k /\ (k = v \/ k \in 1..(v - 1))
         /\ \A k, m \in 1..(n - 1) : k < m => Old(j, k) < Old(j, m)
         /\ \A k, m \in 1..(n - 1) : k # m => Old(j, k) # Old(j, m)
         /\ \A m \in 1..n : m # j => \E k \in 1..(n - 1) : Old(j, k) = m
<1>1. \A m \in 1..n : m # j => \E k \in 1..(n - 1) : Old(j, k) = m
  <2> SUFFICES ASSUME NEW m \in 1..n, m # j PROVE \E k \in 1..(n - 1) : Old(j, k) = m
    OBVIOUS
  <2>1. CASE m < j
    <3>1. m \in 1..(n - 1) /\ Old(j, m) = m
      BY <2>1 DEF Old
    <3> QED  BY <3>1
  <2>2. CASE m > j
    <3>1. m - 1 \in 1..(n - 1) /\ Old(j, m - 1) = m
      BY <2>2 DEF Old
    <3> QED  BY <3>1
  <2> QED  BY <2>1, <2>2
<1> QED  BY <1>1 DEF Old

\* In a topology that gives each direction once, two lines of a list in its
\* order are about the same nodes only as the two directions of a link.
LEMMA SameEnds ==
  ASSUME GenInv, Simple, PairingOK, NEW j \in DOMAIN b, NEW k \in DOMAIN b, j # k
  PROVE  /\ ~(b[j].src = b[k].src /\ b[j].dst = b[k].dst)
         /\ EndsOf(b[j]) = EndsOf(b[k]) => b[j].src = b[k].dst /\ b[j].dst = b[k].src
<1>1. PICK i \in DOMAIN topology : b[j] = topology[i]
  BY DEF PairingOK
<1>2. PICK m \in DOMAIN topology : b[k] = topology[m]
  BY DEF PairingOK
<1>3. i # m
  <2>1. j \in Nat /\ k \in Nat /\ i \in Nat /\ m \in Nat
    BY TopologyLines, Indices DEF GenInv
  <2>2. j < k \/ k < j
    BY <2>1
  <2>3. j < k => i < m
    BY <1>1, <1>2 DEF PairingOK
  <2>4. k < j => m < i
    BY <1>1, <1>2 DEF PairingOK
  <2> QED  BY <2>1, <2>2, <2>3, <2>4
<1>4. ~(b[j].src = b[k].src /\ b[j].dst = b[k].dst)
  BY <1>1, <1>2, <1>3 DEF Simple
<1>5. EndsOf(b[j]) = EndsOf(b[k]) =>
        (b[j].src = b[k].src /\ b[j].dst = b[k].dst) \/ (b[j].src = b[k].dst /\ b[j].dst = b[k].src)
  BY DEF EndsOf
<1> QED  BY <1>4, <1>5

\* The reverse that is deleted is a later line, and the only other one about
\* the two nodes.
LEMMA ReverseLater ==
  ASSUME GenInv, Simple, PairingOK, visit <= Len(b), NEW j \in ReverseOf(b[visit])
  PROVE  /\ visit \in DOMAIN b /\ j \in DOMAIN b /\ visit < j
         /\ b[j].src = b[visit].dst /\ b[j].dst = b[visit].src
         /\ EndsOf(b[j]) = EndsOf(b[visit])
         /\ \A k \in DOMAIN b \ {j, visit} : EndsOf(b[k]) # EndsOf(b[visit])
<1>1. Len(b) \in Nat /\ DOMAIN b = 1..Len(b) /\ visit \in DOMAIN b /\ visit \in Nat
  BY Indices DEF GenInv, PairingOK
<1>2. j \in DOMAIN b /\ Text(b[j]) = Plain(b[visit].dst, b[visit].src, b[visit].metric, b[visit].delay)
  BY DEF ReverseOf
<1>3. PICK i \in DOMAIN topology : b[j] = topology[i]
  BY <1>2 DEF PairingOK
<1>4. b[j].begin = Missing /\ b[j].end = Missing
  BY <1>3 DEF Simple
<1>5. b[j].src = b[visit].dst /\ b[j].dst = b[visit].src
  BY <1>2, <1>4 DEF Text, Plain
<1>6. EndsOf(b[j]) = EndsOf(b[visit])
  BY <1>5 DEF EndsOf
<1>7. j # visit
  <2>1. b[j].src # b[j].dst
    BY <1>3, TopologyLines
  <2> QED  BY <1>5, <2>1
<1>8. ~(j < visit)
  <2>1. j < visit => j \in 1..(visit - 1)
    BY <1>1, <1>2
  <2> QED  BY <1>1, <1>6, <1>7, <2>1 DEF PairingOK
<1>9. visit < j
  BY <1>1, <1>2, <1>7, <1>8
<1>10. ASSUME NEW k \in DOMAIN b \ {j, visit} PROVE EndsOf(b[k]) # EndsOf(b[visit])
  <2>1. EndsOf(b[k]) = EndsOf(b[visit]) => b[k].src = b[visit].dst /\ b[k].dst = b[visit].src
    BY <1>1, SameEnds
  <2>2. ~(b[k].src = b[j].src /\ b[k].dst = b[j].dst)
    BY <1>2, SameEnds
  <2> QED  BY <1>5, <2>1, <2>2
<1> QED  BY <1>1, <1>2, <1>5, <1>6, <1>9, <1>10

\* A line whose reverse is a later line of the list opens its link.
LEMMA FirstOpens ==
  ASSUME GenInv, Simple, PairingOK, NEW v \in DOMAIN b, NEW j \in DOMAIN b, v < j,
         b[j].src = b[v].dst, b[j].dst = b[v].src,
         NEW i \in DOMAIN topology, b[v] = topology[i]
  PROVE  Opens(topology, i)
<1> SUFFICES ASSUME NEW m \in 1..(i - 1), EndsOf(topology[m]) = EndsOf(topology[i])
             PROVE  FALSE
  BY DEF Opens
<1>1. m \in DOMAIN topology /\ m < i /\ m # i /\ m \in Nat /\ i \in Nat
  BY TopologyLines
<1>2. \/ topology[m].src = topology[i].src /\ topology[m].dst = topology[i].dst
      \/ topology[m].src = topology[i].dst /\ topology[m].dst = topology[i].src
  BY DEF EndsOf
<1>3. topology[m].src = topology[i].dst /\ topology[m].dst = topology[i].src
  BY <1>1, <1>2 DEF Simple
<1>4. PICK h \in DOMAIN topology : b[j] = topology[h]
  BY DEF PairingOK
<1>5. h = m
  BY <1>1, <1>3, <1>4 DEF Simple
<1>6. i < h
  BY <1>4 DEF PairingOK
<1> QED  BY <1>1, <1>5, <1>6

LEMMA DeleteReversePairs ==
  ASSUME GenInv, PairsInv, DeleteReverse, UNCHANGED topology
  PROVE  PairsInv'
<1> DEFINE n == Len(b)
           v == visit
           R == ReverseOf(b[v])
<1>1. /\ gen = "pairing" /\ gen' = "pairing" /\ v <= n /\ R # {}
      /\ b' = RemoveAt(b, Min(R)) /\ visit' = v + 1
  BY DEF DeleteReverse
<1> SUFFICES ASSUME Simple' PROVE PairingOK'
  BY <1>1 DEF PairsInv
<1>2. Simple /\ PairingOK
  BY <1>1 DEF Simple, PairsInv
<1>3. n \in Nat /\ DOMAIN b = 1..n /\ b \in Seq(ToSet(b))
  BY Indices DEF GenInv, IsSequence
<1>4. Min(R) \in R
  <2>1. R \in SUBSET Nat
    BY <1>3 DEF ReverseOf
  <2>2. \E x \in R : \A y \in R : x <= y
    BY <1>1, <2>1, Least
  <2> QED  BY <2>2 DEF Min
<1>5. PICK j \in R : j = Min(R)
  BY <1>4
<1>6. /\ v \in 1..n /\ j \in 1..n /\ v < j
      /\ b[j].src = b[v].dst /\ b[j].dst = b[v].src
      /\ EndsOf(b[j]) = EndsOf(b[v])
      /\ \A k \in 1..n \ {j, v} : EndsOf(b[k]) # EndsOf(b[v])
  BY <1>1, <1>2, <1>3, ReverseLater
<1>7. /\ Len(b') = n - 1 /\ DOMAIN b' = 1..(n - 1)
      /\ \A k \in 1..(n - 1) : b'[k] = b[Old(j, k)]
  <2>1. /\ RemoveAt(b, j) \in Seq(ToSet(b)) /\ Len(RemoveAt(b, j)) = n - 1
        /\ \A k \in 1..(n - 1) : RemoveAt(b, j)[k] = IF k < j THEN b[k] ELSE b[k + 1]
    BY <1>3, <1>6, WithoutOne
  <2>2. b' = RemoveAt(b, j)
    BY <1>1, <1>5
  <2> QED  BY <2>1, <2>2 DEF Old
<1> HIDE DEF n, R
<1>8. /\ v + 1 \in 1..n /\ v \in 1..(n - 1)
      /\ \A k \in 1..(n - 1) : Old(j, k) \in 1..n /\ Old(j, k) # j
      /\ \A k \in 1..v : k \in 1..(n - 1) /\ Old(j, k) = k /\ (k = v \/ k \in 1..(v - 1))
      /\ \A k, m \in 1..(n - 1) : k < m => Old(j, k) < Old(j, m)
      /\ \A k, m \in 1..(n - 1) : k # m => Old(j, k) # Old(j, m)
      /\ \A m \in 1..n : m # j => \E k \in 1..(n - 1) : Old(j, k) = m
  <2>1. v \in 1..(j - 1)
    BY <1>3, <1>6
  <2> HIDE DEF v
  <2> QED  BY <1>3, <1>6, <2>1, OldPlaces
<1> HIDE DEF v
<1>9. /\ \A k \in 1..n : \E i \in DOMAIN topology : b[k] = topology[i]
      /\ \A h, k \in 1..n : \A i, m \in DOMAIN topology :
           h < k /\ b[h] = topology[i] /\ b[k] = topology[m] => i < m
      /\ \A i \in DOMAIN topology : \E k \in 1..n : EndsOf(b[k]) = EndsOf(topology[i])
      /\ \A k \in 1..(v - 1) : \A h \in 1..n : h # k => EndsOf(b[h]) # EndsOf(b[k])
      /\ \A k \in 1..(v - 1) : \A i \in DOMAIN topology : b[k] = topology[i] => Opens(topology, i)
  BY <1>2, <1>3 DEF PairingOK, v
<1>10. visit' \in 1..(Len(b') + 1)
  BY <1>1, <1>3, <1>7, <1>8
<1>11. ASSUME NEW k \in DOMAIN b' PROVE \E i \in DOMAIN topology : b'[k] = topology[i]
  <2>1. k \in 1..(n - 1) /\ Old(j, k) \in 1..n /\ b'[k] = b[Old(j, k)]
    BY <1>7, <1>8
  <2>2. PICK i \in DOMAIN topology : b[Old(j, k)] = topology[i]
    BY <1>9, <2>1
  <2> QED  BY <2>1, <2>2
<1>12. \A h, k \in DOMAIN b' : \A i, m \in DOMAIN topology :
         h < k /\ b'[h] = topology[i] /\ b'[k] = topology[m] => i < m
  <2> SUFFICES ASSUME NEW h \in 1..(n - 1), NEW k \in 1..(n - 1),
                      NEW i \in DOMAIN topology, NEW m \in DOMAIN topology,
                      h < k, b'[h] = topology[i], b'[k] = topology[m]
               PROVE  i < m
    BY <1>7
  <2>1. Old(j, h) \in 1..n /\ Old(j, k) \in 1..n /\ Old(j, h) < Old(j, k)
    BY <1>8
  <2>2. b[Old(j, h)] = topology[i] /\ b[Old(j, k)] = topology[m]
    BY <1>7
  <2> QED  BY <1>9, <2>1, <2>2
<1>13. ASSUME NEW i \in DOMAIN topology
       PROVE  \E k \in DOMAIN b' : EndsOf(b'[k]) = EndsOf(topology[i])
  <2>1. PICK m \in 1..n : EndsOf(b[m]) = EndsOf(topology[i])
    BY <1>9
  <2>2. PICK h \in 1..n : h # j /\ EndsOf(b[h]) = EndsOf(topology[i])
    <3>1. CASE m = j
      <4>1. v \in 1..n /\ v # j
        BY <1>3, <1>6
      <4>2. EndsOf(b[v]) = EndsOf(topology[i])
        BY <1>6, <2>1, <3>1
      <4> QED  BY <4>1, <4>2
    <3> QED  BY <2>1, <3>1
  <2>3. PICK k \in 1..(n - 1) : Old(j, k) = h
    BY <1>8, <2>2
  <2> QED  BY <1>7, <2>2, <2>3
<1>14. ASSUME NEW k \in 1..v, NEW m \in DOMAIN b', m # k
       PROVE  EndsOf(b'[m]) # EndsOf(b'[k])
  <2>1. /\ k \in 1..(n - 1) /\ m \in 1..(n - 1) /\ Old(j, k) = k /\ (k = v \/ k \in 1..(v - 1))
        /\ Old(j, m) \in 1..n /\ Old(j, m) # j /\ Old(j, m) # k
    BY <1>7, <1>8, <1>14
  <2>2. b'[k] = b[k] /\ b'[m] = b[Old(j, m)]
    BY <1>7, <2>1
  <2>3. CASE k = v
    BY <1>6, <2>1, <2>2, <2>3
  <2>4. CASE k \in 1..(v - 1)
    BY <1>9, <2>1, <2>2, <2>4
  <2> QED  BY <2>1, <2>3, <2>4
<1>15. ASSUME NEW k \in 1..v, NEW i \in DOMAIN topology, b'[k] = topology[i]
       PROVE  Opens(topology, i)
  <2>1. k \in 1..(n - 1) /\ Old(j, k) = k /\ (k = v \/ k \in 1..(v - 1))
    BY <1>8
  <2>2. b[k] = topology[i]
    BY <1>7, <1>15, <2>1
  <2>3. CASE k = v
    BY <1>2, <1>3, <1>6, <2>2, <2>3, FirstOpens
  <2> QED  BY <1>9, <2>1, <2>2, <2>3
<1>16. 1..(visit' - 1) = 1..v /\ topology' = topology
  BY <1>1, <1>6
<1>17. \A i : Opens(topology, i)' <=> Opens(topology, i)
  BY <1>16 DEF Opens, EndsOf
<1> QED  BY <1>10, <1>11, <1>12, <1>13, <1>14, <1>15, <1>16, <1>17 DEF PairingOK, EndsOf

LEMMA WriteFailuresPairs ==
  ASSUME GenInv, PairsInv, WriteFailures, UNCHANGED topology
  PROVE  PairsInv'
<1>1. /\ gen = "pairing" /\ gen' = "written" /\ visit > Len(b)
      /\ b' = [k \in DOMAIN b |-> [Sorted[k] EXCEPT !.begin = BASE + 10 * (k - 1)]]
  BY DEF WriteFailures
<1> SUFFICES ASSUME Simple' PROVE WrittenOK'
  BY <1>1 DEF PairsInv
<1>2. PairingOK
  BY <1>1 DEF Simple, PairsInv
<1>3. Len(b) \in Nat /\ DOMAIN b = 1..Len(b)
  BY Indices DEF GenInv
<1>4. 1..(visit - 1) = DOMAIN b
  <2>1. visit \in 1..(Len(b) + 1)
    BY <1>2 DEF PairingOK
  <2>2. visit = Len(b) + 1
    BY <1>1, <1>3, <2>1
  <2> QED  BY <1>3, <2>2
<1>5. PICK g : Sorting(g)
  <2>1. \A i \in DOMAIN b : b[i].metric \in Nat
    BY DEF GenInv, IsLine
  <2> QED  BY <2>1, SomeSorting DEF GenInv
<1>6. /\ \A k \in DOMAIN b : g[k] \in DOMAIN b /\ Sorted[k] = b[g[k]]
      /\ \A j, k \in DOMAIN b : j < k => b[g[j]].metric <= b[g[k]].metric
      /\ \A j, k \in DOMAIN b : j # k => g[j] # g[k]
      /\ \A i \in DOMAIN b : \E k \in DOMAIN b : g[k] = i
  BY <1>5 DEF Sorting
<1>7. /\ \A k \in DOMAIN b : \E i \in DOMAIN topology : b[k] = topology[i] /\ Opens(topology, i)
      /\ \A i \in DOMAIN topology : \E k \in DOMAIN b : EndsOf(b[k]) = EndsOf(topology[i])
      /\ \A j, k \in DOMAIN b : j # k => EndsOf(b[j]) # EndsOf(b[k])
  BY <1>2, <1>4 DEF PairingOK
<1>8. ASSUME NEW k \in DOMAIN b
      PROVE  /\ b'[k] = [b[g[k]] EXCEPT !.begin = BASE + 10 * (k - 1)]
             /\ EndsOf(b'[k]) = EndsOf(b[g[k]]) /\ b'[k].metric = b[g[k]].metric
  <2>1. b'[k] = [b[g[k]] EXCEPT !.begin = BASE + 10 * (k - 1)]
    BY <1>1, <1>6
  <2>2. DOMAIN b[g[k]] = {"src", "dst", "metric", "delay", "begin", "end"}
    BY <1>6 DEF GenInv, IsLine
  <2> QED  BY <2>1, <2>2 DEF EndsOf
<1>9. DOMAIN b' = DOMAIN b
  BY <1>1
<1>10. ASSUME NEW k \in DOMAIN b
       PROVE  \E i \in DOMAIN topology :
                Opens(topology, i) /\ b'[k] = [topology[i] EXCEPT !.begin = BASE + 10 * (k - 1)]
  <2>1. g[k] \in DOMAIN b
    BY <1>6
  <2>2. PICK i \in DOMAIN topology : b[g[k]] = topology[i] /\ Opens(topology, i)
    BY <1>7, <2>1
  <2> QED  BY <1>8, <2>2
<1>11. ASSUME NEW i \in DOMAIN topology
       PROVE  \E k \in DOMAIN b : EndsOf(b'[k]) = EndsOf(topology[i])
  <2>1. PICK h \in DOMAIN b : EndsOf(b[h]) = EndsOf(topology[i])
    BY <1>7
  <2>2. PICK k \in DOMAIN b : g[k] = h
    BY <1>6
  <2> QED  BY <1>8, <2>1, <2>2
<1>12. \A j, k \in DOMAIN b : j # k => EndsOf(b'[j]) # EndsOf(b'[k])
  <2> SUFFICES ASSUME NEW j \in DOMAIN b, NEW k \in DOMAIN b, j # k
               PROVE  EndsOf(b'[j]) # EndsOf(b'[k])
    OBVIOUS
  <2>1. g[j] \in DOMAIN b /\ g[k] \in DOMAIN b /\ g[j] # g[k]
    BY <1>6
  <2>2. EndsOf(b[g[j]]) # EndsOf(b[g[k]])
    BY <1>7, <2>1
  <2>3. EndsOf(b'[j]) = EndsOf(b[g[j]])
    BY <1>8
  <2>4. EndsOf(b'[k]) = EndsOf(b[g[k]])
    BY <1>8
  <2> QED  BY <2>2, <2>3, <2>4
<1>13. \A j, k \in DOMAIN b : j < k => b'[j].metric <= b'[k].metric
  BY <1>6, <1>8
<1>14. \A i : Opens(topology, i)' <=> Opens(topology, i)
  BY DEF Opens, EndsOf
<1> QED  BY <1>9, <1>10, <1>11, <1>12, <1>13, <1>14 DEF WrittenOK, EndsOf

LEMMA GeneratorPairs ==
  ASSUME GenInv, PairsInv, Generator
  PROVE  PairsInv'
<1>1. UNCHANGED topology
  BY DEF Generator
<1>2. CASE NoReverse
  BY <1>2 DEF NoReverse, PairsInv
<1> QED  BY <1>1, <1>2, ReadTopologyPairs, DeleteReversePairs, WriteFailuresPairs DEF Generator, Generate

-----------------------------------------------------------------------------
(* The file of the generator, from the links to the failures               *)

\* Both runs of the parser.
FilesInv == NumberInv /\ OnceInv /\ OrderInv /\ KnownInv

\* The parser is on the topology until its rows are installed, then on a
\* failures file, which is the generator's where it is said to be; the links
\* of a topology that gives each direction once are those its lines open.
GivenInv ==
  /\ phase = "topology" => file.kind = "topology" /\ Lines = topology
  /\ phase \in {"failures", "setup", "running", "stopped"} => file.kind = "failures"
  /\ phase \in {"setup", "running", "stopped"} => Ended
  /\ phase # "topology" /\ Simple => LinksOf(links, topology)
  /\ phase \in {"topology", "installed"} => origin \notin {"whole", "single"}
  /\ origin = "whole" => gen = "written" /\ Lines = b
  /\ origin = "single" => gen = "written" /\ \E k \in DOMAIN b : Lines = <<b[k]>>

GeneratedInv == ScheduleInv /\ FilesInv /\ PairsInv /\ GivenInv /\ CountInv

LEMMA NextFiles == ParserInv /\ FilesInv /\ [Next]_vars => FilesInv'
BY NextNumber, NextOnce, NextOrder, NextKnown DEF FilesInv

\* The parser has not read a line of a failures file yet.
Begun ==
  /\ file.kind = "failures" /\ status = "reading"
  /\ pos = 1 /\ nodes = <<>> /\ pairs = <<>> /\ next = 1 /\ rows = <<>>

LEMMA BegunFiles == ParserInv /\ Begun => FilesInv
<1> SUFFICES ASSUME ParserInv, Begun PROVE FilesInv
  OBVIOUS
<1>1. Seen[0] = <<>>
  BY SeenLines DEF ParserInv, InputOK
<1> HIDE DEF Seen
<1>2. NumberInv
  BY <1>1 DEF Begun, NumberInv
<1>3. OnceInv
  BY DEF Begun, OnceInv
<1>4. OrderInv
  BY DEF Begun, OrderInv
<1>5. KnownInv
  BY InitKnown DEF Begun
<1> QED  BY <1>2, <1>3, <1>4, <1>5 DEF FilesInv

LEMMA PairsKept ==
  ASSUME PairsInv, UNCHANGED <<genVars, topology>>
  PROVE  PairsInv'
<1>1. b' = b /\ visit' = visit /\ gen' = gen /\ topology' = topology
  BY DEF genVars
<1>2. \A i : Opens(topology, i)' <=> Opens(topology, i)
  BY <1>1 DEF Opens, EndsOf
<1>3. \A k : EndsOf(b[k])' = EndsOf(b[k]) /\ EndsOf(topology[k])' = EndsOf(topology[k])
  BY <1>1 DEF EndsOf
<1>4. PairingOK => PairingOK'
  BY <1>1, <1>2, <1>3 DEF PairingOK
<1>5. WrittenOK => WrittenOK'
  BY <1>1, <1>2, <1>3 DEF WrittenOK
<1>6. Simple' <=> Simple
  BY <1>1 DEF Simple
<1> QED  BY <1>1, <1>4, <1>5, <1>6 DEF PairsInv

LEMMA LinksNow ==
  ASSUME NEW r, LinksOf(r, topology), links' = r, UNCHANGED <<map, topology>>
  PROVE  LinksOf(links, topology)'
<1>1. \A i : Opens(topology, i)' <=> Opens(topology, i)
  BY DEF Opens, EndsOf
<1>2. /\ \A c : RowNames(links[c])' = RowNames(r[c])
      /\ \A i : EndsOf(topology[i])' = EndsOf(topology[i])
      /\ IsInjective(map)' <=> IsInjective(map)
  BY DEF RowNames, EndsOf, IsInjective
<1>3. /\ \A c \in DOMAIN r :
           /\ r[c].src \in 0..(Len(map) - 1) /\ r[c].dst \in 0..(Len(map) - 1)
           /\ \E i \in DOMAIN topology :
                /\ Opens(topology, i) /\ r[c].f = topology[i].metric
                /\ map[r[c].src + 1] = topology[i].src /\ map[r[c].dst + 1] = topology[i].dst
      /\ \A i \in DOMAIN topology : /\ EndsOf(topology[i]) \subseteq ToSet(map)
                                    /\ \E c \in DOMAIN r : RowNames(r[c]) = EndsOf(topology[i])
      /\ \A c, x \in DOMAIN r : c # x => RowNames(r[c]) # RowNames(r[x])
      /\ IsInjective(map)
  BY DEF LinksOf
<1> QED  BY <1>1, <1>2, <1>3 DEF LinksOf, ToSet

LEMMA LinksKept ==
  ASSUME Simple => LinksOf(links, topology), UNCHANGED <<map, links, topology>>
  PROVE  (Simple => LinksOf(links, topology))'
<1>1. Simple' <=> Simple
  BY DEF Simple
<1>2. PICK r : r = links
  OBVIOUS
<1>3. LinksOf(r, topology) => LinksOf(links, topology)'
  BY <1>2, LinksNow
<1> QED  BY <1>1, <1>2, <1>3

LEMMA CountKept ==
  ASSUME CountInv, UNCHANGED <<vars, simVars>>
  PROVE  CountInv'
<1>1. /\ Chans' = Chans
      /\ \A i : Start(i)' = Start(i) /\ Base(i)' = Base(i)
      /\ \A i, c : FailOf(i, c)' = FailOf(i, c)
      /\ \A c : Hits(c)' = Hits(c)
  BY Frame DEF simVars
<1>2. \A c : Done(c)' = Done(c)
  BY <1>1 DEF Done, simVars
<1>3. Failed' = Failed
  BY <1>1, <1>2 DEF Failed, vars
<1> QED  BY <1>1, <1>2, <1>3 DEF CountInv, Counted, simVars

LEMMA InitGenerated == ScheduleInit => GeneratedInv
<1> SUFFICES ASSUME ScheduleInit PROVE GeneratedInv
  OBVIOUS
<1>1. ScheduleInv
  BY InitSchedule
<1>2. FilesInv
  <2>1. Init /\ ParserInv
    BY <1>1 DEF ScheduleInit, ScheduleInv
  <2>2. KnownInv
    BY <2>1, InitKnown DEF Init
  <2> QED  BY <2>1, <2>2, InitNumber, InitOnce, InitOrder DEF FilesInv
<1>3. PairsInv
  BY DEF ScheduleInit, GenInit, PairsInv
<1>4. GivenInv
  BY DEF ScheduleInit, SimInit, GenInit, GivenInv
<1>5. CountInv
  BY <1>1, BeforeCount DEF ScheduleInit, SimInit, Before, ScheduleInv
<1> QED  BY <1>1, <1>2, <1>3, <1>4, <1>5 DEF GeneratedInv

\* The parser on failures leaves the .map file and the file as they are.
LEMMA ParseGiven ==
  ASSUME GeneratedInv, Parse
  PROVE  GivenInv'
<1>1. /\ phase \in {"topology", "failures"} /\ Next
      /\ UNCHANGED <<simVars, genVars, topology, origin>>
  BY DEF Parse, Next
<1>2. file' = file /\ Lines' = Lines
  BY <1>1 DEF Next, ReadLine, ReadOn, Unexpected, EndReading, PrintPair, UnknownName, Finish,
              Terminated, vars, Lines
<1>3. phase' = phase /\ links' = links
  BY <1>1 DEF simVars
<1>4. ASSUME phase = "failures" PROVE (Simple => LinksOf(links, topology))'
  <2>1. file.kind = "failures" /\ (Simple => LinksOf(links, topology))
    BY <1>4 DEF GeneratedInv, GivenInv
  <2>2. map' = map
    BY <1>1, <2>1 DEF Next, ReadLine, ReadOn, Unexpected, EndReading, PrintPair, UnknownName, Finish,
                      Terminated, vars
  <2> QED  BY <1>1, <1>3, <2>1, <2>2, LinksKept
<1>5. phase \notin {"setup", "running", "stopped", "installed"}
  BY <1>1
<1> QED  BY <1>1, <1>2, <1>3, <1>4, <1>5 DEF GeneratedInv, GivenInv, genVars

\* The topology's rows become the links.
LEMMA InstallGiven ==
  ASSUME GeneratedInv, InstallTopology
  PROVE  GivenInv'
<1>1. /\ phase = "topology" /\ phase' = "installed" /\ Ended
      /\ links' = rows
      /\ UNCHANGED <<vars, genVars, topology, origin>>
  BY DEF InstallTopology
<1>2. file.kind = "topology" /\ Lines = topology /\ origin \notin {"whole", "single"}
  BY <1>1 DEF GeneratedInv, GivenInv
<1>3. Simple' => LinksOf(rows, topology)
  <2> SUFFICES ASSUME Simple' PROVE LinksOf(rows, topology)
    OBVIOUS
  <2>1. DirectionsOnce
    BY <1>1, <1>2 DEF Simple, DirectionsOnce
  <2> QED  BY <1>1, <1>2, <2>1, OnceRows DEF GeneratedInv, ScheduleInv, FilesInv
<1>4. LinksOf(rows, topology) => LinksOf(links, topology)'
  <2>1. PICK r : r = rows
    OBVIOUS
  <2>2. LinksOf(r, topology) => LinksOf(links, topology)'
    BY <1>1, <2>1, LinksNow DEF vars
  <2> QED  BY <2>1, <2>2
<1> QED  BY <1>1, <1>2, <1>3, <1>4 DEF GivenInv

LEMMA GiveFileGiven ==
  ASSUME GeneratedInv, NEW lines, NEW from, GiveFile(lines, from),
         from = "whole" => gen = "written" /\ lines = b,
         from = "single" => gen = "written" /\ \E k \in DOMAIN b : lines = <<b[k]>>
  PROVE  GivenInv'
<1>1. /\ phase = "installed" /\ phase' = "failures" /\ origin' = from
      /\ file' = [kind |-> "failures", lines |-> lines]
      /\ UNCHANGED <<map, links, genVars, topology>>
  BY DEF GiveFile
<1>2. file'.kind = "failures" /\ Lines' = lines
  BY <1>1 DEF Lines
<1>3. (Simple => LinksOf(links, topology))'
  <2>1. Simple => LinksOf(links, topology)
    BY <1>1 DEF GeneratedInv, GivenInv
  <2> QED  BY <1>1, <2>1, LinksKept
<1> QED  BY <1>1, <1>2, <1>3 DEF GivenInv, genVars

\* The steps that leave the parser and the links alone.
LEMMA OtherGiven ==
  ASSUME GeneratedInv, UNCHANGED <<vars, links, topology, origin>>,
         \/ UNCHANGED <<phase, genVars>>
         \/ phase = "installed" /\ phase' = "installed"
         \/ TakeFailures
         \/ SimNext /\ UNCHANGED genVars
  PROVE  GivenInv'
<1>1. Lines' = Lines /\ file' = file /\ (Ended' <=> Ended) /\ map' = map
  BY DEF vars, Lines, Ended
<1>2. (Simple => LinksOf(links, topology)) => (Simple => LinksOf(links, topology))'
  BY <1>1, LinksKept
<1>3. CASE UNCHANGED <<phase, genVars>>
  BY <1>1, <1>2, <1>3 DEF GeneratedInv, GivenInv, genVars
<1>4. CASE phase = "installed" /\ phase' = "installed"
  BY <1>1, <1>2, <1>4 DEF GeneratedInv, GivenInv
<1>5. CASE TakeFailures
  <2>1. phase = "failures" /\ Ended /\ phase' = "setup" /\ UNCHANGED genVars
    BY <1>5 DEF TakeFailures
  <2> QED  BY <1>1, <1>2, <2>1 DEF GeneratedInv, GivenInv, genVars
<1>6. CASE SimNext /\ UNCHANGED genVars
  <2>1. phase \in {"setup", "running"} /\ phase' \in {"setup", "running", "stopped"}
    BY <1>6 DEF SimNext, ScheduleFailure, Run, FailLink, LiftFailure, SetDown, StopRun, Dispatch
  <2> QED  BY <1>1, <1>2, <1>6, <2>1 DEF GeneratedInv, GivenInv, genVars
<1> QED  BY <1>3, <1>4, <1>5, <1>6

LEMMA NextGiven == GeneratedInv /\ [ScheduleNext]_scheduleVars => GivenInv'
<1> SUFFICES ASSUME GeneratedInv, [ScheduleNext]_scheduleVars PROVE GivenInv'
  OBVIOUS
<1>1. CASE Parse
  BY <1>1, ParseGiven
<1>2. CASE InstallTopology
  BY <1>2, InstallGiven
<1>3. CASE GiveByHand
  <2>1. PICK f \in Files : GiveFile(f.lines, "hand")
    BY <1>3 DEF GiveByHand
  <2> QED  BY <2>1, GiveFileGiven
<1>4. CASE GiveGenerated
  <2>1. CASE GiveFile(b, "whole")
    BY <1>4, <2>1, GiveFileGiven DEF GiveGenerated
  <2>2. ASSUME NEW k \in DOMAIN b, GiveFile(<<b[k]>>, "single") PROVE GivenInv'
    BY <1>4, <2>2, GiveFileGiven DEF GiveGenerated
  <2> QED  BY <1>4, <2>1, <2>2 DEF GiveGenerated
<1>5. CASE TakeFailures
  BY <1>5, OtherGiven DEF TakeFailures
<1>6. CASE Generator
  BY <1>6, OtherGiven DEF Generator, simVars
<1>7. CASE Simulate
  <2>1. SimNext /\ UNCHANGED <<vars, genVars, topology, origin>>
    BY <1>7, SimNextVars DEF Simulate
  <2>2. UNCHANGED links
    BY <2>1 DEF SimNext, ScheduleFailure, Run, FailLink, LiftFailure, SetDown, StopRun
  <2> QED  BY <2>1, <2>2, OtherGiven
<1>8. CASE UNCHANGED scheduleVars
  BY <1>8, OtherGiven DEF scheduleVars, simVars
<1> QED  BY <1>1, <1>2, <1>3, <1>4, <1>5, <1>6, <1>7, <1>8 DEF ScheduleNext, Over

LEMMA NextFilesInv == GeneratedInv /\ [ScheduleNext]_scheduleVars => FilesInv'
<1> SUFFICES ASSUME GeneratedInv, [ScheduleNext]_scheduleVars PROVE FilesInv'
  OBVIOUS
<1>1. ParserInv /\ FilesInv
  BY DEF GeneratedInv, ScheduleInv
<1>2. CASE Parse \/ UNCHANGED vars
  <2>1. [Next]_vars
    BY <1>2 DEF Parse, Next
  <2> QED  BY <1>1, <2>1, NextFiles
<1>3. CASE GiveByHand \/ GiveGenerated
  <2>1. Begun'
    <3>1. PICK lines, from : GiveFile(lines, from)
      BY <1>3 DEF GiveByHand, GiveGenerated
    <3>2. /\ file' = [kind |-> "failures", lines |-> lines]
          /\ pos' = 1 /\ nodes' = <<>> /\ pairs' = <<>> /\ next' = 1 /\ rows' = <<>>
          /\ status' = "reading"
      BY <3>1 DEF GiveFile
    <3> QED  BY <3>2 DEF Begun
  <2>2. ParserInv'
    BY NextScheduleInv DEF GeneratedInv, ScheduleInv
  <2> QED  BY <2>1, <2>2, BegunFiles, PTL
<1>4. Simulate => UNCHANGED vars
  BY SimNextVars DEF Simulate
<1> QED  BY <1>2, <1>3, <1>4 DEF ScheduleNext, InstallTopology, Generator, TakeFailures, Over, scheduleVars

LEMMA NextCountInv == GeneratedInv /\ [ScheduleNext]_scheduleVars => CountInv'
<1> SUFFICES ASSUME GeneratedInv, [ScheduleNext]_scheduleVars PROVE CountInv'
  OBVIOUS
<1>1. SimInv'
  BY NextScheduleInv DEF GeneratedInv, ScheduleInv
<1>2. CASE Before'
  BY <1>1, <1>2, BeforeCount, PTL
<1>3. CASE Simulate
  BY <1>1, <1>3, SimNextCount DEF Simulate, GeneratedInv, ScheduleInv
<1>4. CASE UNCHANGED scheduleVars
  BY <1>4, CountKept DEF scheduleVars, GeneratedInv
<1>5. Parse \/ InstallTopology \/ GiveByHand \/ Generator \/ GiveGenerated \/ TakeFailures => Before'
  BY DEF Parse, InstallTopology, GiveByHand, Generator, GiveGenerated, GiveFile, TakeFailures, Before,
         simVars
<1> QED  BY <1>2, <1>3, <1>4, <1>5 DEF ScheduleNext, Over

LEMMA NextGenerated == GeneratedInv /\ [ScheduleNext]_scheduleVars => GeneratedInv'
<1> SUFFICES ASSUME GeneratedInv, [ScheduleNext]_scheduleVars PROVE GeneratedInv'
  OBVIOUS
<1>1. PairsInv'
  <2>1. CASE Generator
    BY <2>1, GeneratorPairs DEF GeneratedInv, ScheduleInv
  <2>2. CASE UNCHANGED <<genVars, topology>>
    BY <2>2, PairsKept DEF GeneratedInv
  <2> QED  BY <2>1, <2>2 DEF ScheduleNext, Parse, InstallTopology, GiveByHand, GiveGenerated, GiveFile,
                             TakeFailures, Simulate, Over, scheduleVars
<1>2. ScheduleInv'
  BY NextScheduleInv DEF GeneratedInv
<1> QED  BY <1>1, <1>2, NextGiven, NextFilesInv, NextCountInv DEF GeneratedInv

LEMMA GeneratedInductive == ScheduleSpec => []GeneratedInv
BY InitGenerated, NextGenerated, PTL DEF ScheduleSpec

-----------------------------------------------------------------------------
(* The links that the generator's failures fail                            *)

\* The generator's file has been simulated, for such a topology.
Simulated == GeneratedInv /\ phase = "stopped" /\ origin \in {"whole", "single"} /\ Simple

\* A line of the generator's: one that opens a link, with a begin.
FailureOf(l, t) ==
  /\ Opens(topology, t)
  /\ l.src = topology[t].src /\ l.dst = topology[t].dst /\ l.metric = topology[t].metric
GivenLine(l) == l.begin \in Nat /\ l.end = Missing /\ \E t \in DOMAIN topology : FailureOf(l, t)

LEMMA WrittenLines ==
  ASSUME GenInv, Simple, WrittenOK, NEW k \in DOMAIN b
  PROVE  GivenLine(b[k]) /\ b[k].begin = BASE + 10 * (k - 1) /\ k \in Nat
<1>1. PICK t \in DOMAIN topology :
        Opens(topology, t) /\ b[k] = [topology[t] EXCEPT !.begin = BASE + 10 * (k - 1)]
  BY DEF WrittenOK
<1>2. IsLine(topology[t]) /\ topology[t].end = Missing
  BY TopologyLines DEF Simple
<1>3. /\ b[k].src = topology[t].src /\ b[k].dst = topology[t].dst /\ b[k].metric = topology[t].metric
      /\ b[k].end = Missing /\ b[k].begin = BASE + 10 * (k - 1)
  BY <1>1, <1>2 DEF IsLine
<1>4. k \in Nat /\ k >= 1
  BY Indices DEF GenInv
<1>5. b[k].begin \in Nat
  BY <1>3, <1>4 DEF BASE
<1> QED  BY <1>1, <1>3, <1>4, <1>5 DEF GivenLine, FailureOf

\* The file, whole or a line of it: each pair of nodes once, all of them known.
LEMMA GivenFile ==
  ASSUME Simulated
  PROVE  /\ \A i \in DOMAIN Lines : GivenLine(Lines[i])
         /\ EachOnce /\ KnownNames
         /\ origin = "whole" =>
              /\ \A t \in DOMAIN topology : \E i \in DOMAIN Lines : EndsOf(Lines[i]) = EndsOf(topology[t])
              /\ \A i, j \in DOMAIN Lines : i < j =>
                   Lines[i].metric <= Lines[j].metric /\ Lines[i].begin <= Lines[j].begin
<1>1. gen = "written" /\ (Lines = b \/ \E k \in DOMAIN b : Lines = <<b[k]>>)
      /\ (origin = "whole" => Lines = b)
  BY DEF Simulated, GeneratedInv, GivenInv
<1>2. GenInv /\ Simple /\ WrittenOK
  BY <1>1 DEF Simulated, GeneratedInv, ScheduleInv, PairsInv
<1>3. \A k \in DOMAIN b : GivenLine(b[k]) /\ b[k].begin = BASE + 10 * (k - 1) /\ k \in Nat
  BY <1>2, WrittenLines
<1>4. /\ \A i \in DOMAIN Lines : \E k \in DOMAIN b : Lines[i] = b[k]
      /\ EachOnce
  <2>1. CASE Lines = b
    BY <1>2, <2>1 DEF WrittenOK, EachOnce, EndsOf
  <2>2. ASSUME NEW k \in DOMAIN b, Lines = <<b[k]>>
        PROVE  /\ \A i \in DOMAIN Lines : \E h \in DOMAIN b : Lines[i] = b[h]
               /\ EachOnce
    <3>1. DOMAIN Lines = {1} /\ Lines[1] = b[k]
      BY <2>2
    <3> QED  BY <3>1 DEF EachOnce
  <2> QED  BY <1>1, <2>1, <2>2
<1>5. \A i \in DOMAIN Lines : GivenLine(Lines[i])
  BY <1>3, <1>4
<1>6. KnownNames
  <2> SUFFICES ASSUME NEW i \in DOMAIN Lines PROVE EndsOf(Lines[i]) \subseteq ToSet(map)
    BY DEF KnownNames
  <2>1. PICK t \in DOMAIN topology : FailureOf(Lines[i], t)
    BY <1>5 DEF GivenLine
  <2>2. EndsOf(topology[t]) \subseteq ToSet(map)
    BY DEF Simulated, GeneratedInv, GivenInv, LinksOf
  <2> QED  BY <2>1, <2>2 DEF FailureOf, EndsOf
<1>7. ASSUME origin = "whole"
      PROVE  /\ \A t \in DOMAIN topology : \E i \in DOMAIN Lines : EndsOf(Lines[i]) = EndsOf(topology[t])
             /\ \A i, j \in DOMAIN Lines : i < j =>
                  Lines[i].metric <= Lines[j].metric /\ Lines[i].begin <= Lines[j].begin
  <2>1. Lines = b
    BY <1>1, <1>7
  <2>2. \A t \in DOMAIN topology : \E i \in DOMAIN Lines : EndsOf(Lines[i]) = EndsOf(topology[t])
    BY <1>2, <2>1 DEF WrittenOK
  <2>3. ASSUME NEW i \in DOMAIN Lines, NEW j \in DOMAIN Lines, i < j
        PROVE  Lines[i].metric <= Lines[j].metric /\ Lines[i].begin <= Lines[j].begin
    <3>1. Lines[i].metric <= Lines[j].metric
      BY <1>2, <2>1, <2>3 DEF WrittenOK
    <3>2. /\ Lines[i].begin = 60 + 10 * (i - 1) /\ Lines[j].begin = 60 + 10 * (j - 1)
          /\ i \in Nat /\ j \in Nat
      BY <1>3, <2>1 DEF BASE
    <3>3. 60 + 10 * (i - 1) <= 60 + 10 * (j - 1)
      BY <2>3, <3>2
    <3> QED  BY <3>1, <3>2, <3>3
  <2> QED  BY <2>2, <2>3
<1> QED  BY <1>4, <1>5, <1>6, <1>7

\* Every line has its row, at its own place.
LEMMA GivenRows ==
  ASSUME Simulated
  PROVE  /\ Len(rows) = Len(Lines) /\ Len(Lines) \in Nat
         /\ DOMAIN Lines = 1..Len(Lines) /\ DOMAIN rows = DOMAIN Lines
         /\ \A i \in DOMAIN Lines : /\ Says(rows[i], Lines[i]) /\ GivenLine(Lines[i])
                                    /\ rows[i].src \in 0..(Len(map) - 1)
                                    /\ rows[i].dst \in 0..(Len(map) - 1)
<1>1. /\ ParserInv /\ OrderInv /\ KnownInv /\ Ended /\ file.kind = "failures"
  BY DEF Simulated, GeneratedInv, ScheduleInv, FilesInv, GivenInv
<1>2. Len(rows) = Len(Lines) /\ \A i \in DOMAIN rows : Says(rows[i], Lines[i])
  BY <1>1, GivenFile, KnownRows
<1>3. Len(Lines) \in Nat /\ DOMAIN Lines = 1..Len(Lines)
  BY <1>1, Indices DEF ParserInv, InputOK
<1>4. DOMAIN rows = 1..Len(rows) /\ \A i \in DOMAIN rows : rows[i] \in Row
  BY <1>1 DEF ParserInv, RowsOK
<1>5. \A i \in DOMAIN rows : rows[i].src \in 0..(Len(map) - 1) /\ rows[i].dst \in 0..(Len(map) - 1)
  BY <1>4 DEF Row
<1> QED  BY <1>2, <1>3, <1>4, <1>5, GivenFile

\* Row i selects link sel[i] alone, the one its line is about.
Selects(sel) ==
  /\ \A i \in DOMAIN rows : /\ sel[i] \in Chans /\ Selected(rows[i]) = {sel[i]}
                            /\ Names(sel[i]) = NamesOf(Lines[i])
                            /\ links[sel[i]].f = Lines[i].metric
  /\ \A i, j \in DOMAIN rows : sel[i] = sel[j] => i = j

LEMMA SelectedOne ==
  ASSUME Simulated, NEW i \in DOMAIN rows
  PROVE  \E c \in Chans : /\ Selected(rows[i]) = {c} /\ Names(c) = NamesOf(Lines[i])
                          /\ links[c].f = Lines[i].metric
<1>1. LinksOf(links, topology)
  BY DEF Simulated, GeneratedInv, GivenInv
<1>2. IsSequence(map)
  BY DEF Simulated, GeneratedInv, ScheduleInv, ParserInv, InputOK
<1>3. Len(map) \in Nat /\ DOMAIN map = 1..Len(map)
  BY <1>2, Indices
<1>4. /\ i \in DOMAIN Lines /\ Says(rows[i], Lines[i]) /\ GivenLine(Lines[i])
      /\ rows[i].src \in 0..(Len(map) - 1) /\ rows[i].dst \in 0..(Len(map) - 1)
  BY GivenRows
<1>5. PICK t \in DOMAIN topology : FailureOf(Lines[i], t)
  BY <1>4 DEF GivenLine
<1>6. PICK c \in Chans : RowNames(links[c]) = EndsOf(topology[t])
  BY <1>1 DEF LinksOf, Chans
<1>7. PICK u \in DOMAIN topology :
        /\ Opens(topology, u) /\ links[c].f = topology[u].metric
        /\ map[links[c].src + 1] = topology[u].src /\ map[links[c].dst + 1] = topology[u].dst
  BY <1>1 DEF LinksOf, Chans
<1>8. u = t
  <2>1. EndsOf(topology[u]) = EndsOf(topology[t])
    BY <1>6, <1>7 DEF RowNames, EndsOf
  <2>2. u \in Nat /\ t \in Nat /\ u >= 1 /\ t >= 1
    BY TopologyLines DEF Simulated, GeneratedInv, ScheduleInv
  <2>3. u < t => u \in 1..(t - 1)
    BY <2>2
  <2>4. t < u => t \in 1..(u - 1)
    BY <2>2
  <2> QED  BY <1>5, <1>7, <2>1, <2>2, <2>3, <2>4 DEF FailureOf, Opens
<1>9. \A m, n \in 0..(Len(map) - 1) : map[m + 1] = map[n + 1] => m = n
  <2> SUFFICES ASSUME NEW m \in 0..(Len(map) - 1), NEW n \in 0..(Len(map) - 1), map[m + 1] = map[n + 1]
               PROVE  m = n
    OBVIOUS
  <2>1. m + 1 \in DOMAIN map /\ n + 1 \in DOMAIN map
    BY <1>3
  <2>2. m + 1 = n + 1
    BY <1>1, <2>1 DEF LinksOf, IsInjective
  <2> QED  BY <2>2
<1>10. links[c].src = rows[i].src /\ links[c].dst = rows[i].dst
  <2>1. links[c].src \in 0..(Len(map) - 1) /\ links[c].dst \in 0..(Len(map) - 1)
    BY <1>1 DEF LinksOf, Chans
  <2>2. /\ map[links[c].src + 1] = map[rows[i].src + 1]
        /\ map[links[c].dst + 1] = map[rows[i].dst + 1]
    BY <1>4, <1>5, <1>7, <1>8 DEF Says, FailureOf
  <2> QED  BY <1>4, <1>9, <2>1, <2>2
<1>11. \A x \in Chans : links[x].src = rows[i].src /\ links[x].dst = rows[i].dst => x = c
  <2> SUFFICES ASSUME NEW x \in Chans, links[x].src = rows[i].src, links[x].dst = rows[i].dst
               PROVE  x = c
    OBVIOUS
  <2>1. RowNames(links[x]) = RowNames(links[c])
    BY <1>10 DEF RowNames
  <2> QED  BY <1>1, <2>1 DEF LinksOf, Chans
<1>12. Selected(rows[i]) = {c}
  BY <1>10, <1>11 DEF Selected
<1>13. Names(c) = NamesOf(Lines[i]) /\ links[c].f = Lines[i].metric
  BY <1>5, <1>7, <1>8 DEF Names, NamesOf, FailureOf
<1> QED  BY <1>12, <1>13

LEMMA SomeSelection ==
  ASSUME Simulated
  PROVE  \E sel : Selects(sel)
<1> DEFINE P(i, c) == /\ Selected(rows[i]) = {c} /\ Names(c) = NamesOf(Lines[i])
                      /\ links[c].f = Lines[i].metric
           sel == [i \in DOMAIN rows |-> CHOOSE c \in Chans : P(i, c)]
<1>1. ASSUME NEW i \in DOMAIN rows PROVE sel[i] \in Chans /\ P(i, sel[i])
  <2>1. \E c \in Chans : P(i, c)
    BY SelectedOne
  <2> HIDE DEF P
  <2> QED  BY <2>1
<1> HIDE DEF sel
<1>2. ASSUME NEW i \in DOMAIN rows, NEW j \in DOMAIN rows, sel[i] = sel[j] PROVE i = j
  <2>1. NamesOf(Lines[i]) = NamesOf(Lines[j])
    BY <1>1, <1>2
  <2>2. i \in DOMAIN Lines /\ j \in DOMAIN Lines
    BY GivenRows
  <2> QED  BY <2>1, <2>2, GivenFile DEF EachOnce, NamesOf, EndsOf
<1> QED  BY <1>1, <1>2 DEF Selects

Begins == {i \in DOMAIN Lines : Lines[i].begin <= Runtime}

\* The links that are dark, and the failures done, are one for each line that
\* begins during the run.
LEMMA DarkLinks ==
  ASSUME Simulated, NEW sel, Selects(sel)
  PROVE  /\ \A i \in Begins : i \in DOMAIN rows /\ sel[i] \in Dark
         /\ \A c \in Dark : \E i \in Begins : c = sel[i]
         /\ \A c \in Chans : c \in Dark <=> \E d \in Ends(c) : em[d] # 0
         /\ \A c \in Chans : c \in Dark <=> \A d \in Ends(c) : em[d] # 0
         /\ \A p : p \in Failed <=> \E i \in Begins : p = <<i, sel[i]>>
<1>1. /\ SimInv /\ ParserInv /\ TimesOK /\ CountInv /\ phase = "stopped"
  BY DEF Simulated, GeneratedInv, ScheduleInv
<1>2. DOMAIN rows = DOMAIN Lines
      /\ \A i \in DOMAIN rows : /\ rows[i].begin = Lines[i].begin /\ rows[i].begin \in Nat
                                /\ rows[i].end = Missing
  BY GivenRows DEF Says, GivenLine
<1>3. ASSUME NEW c \in Chans
      PROVE  /\ \A i : i \in Done(c) <=> Strikes(i, c)
             /\ \A d \in Ends(c) : /\ em[d] # 0 <=> \E i : Strikes(i, c)
                                   /\ Filters(d) <=> \E i : Strikes(i, c)
  BY <1>1, <1>2, StoppedLinks
<1>4. \A c \in Chans : \A i : Strikes(i, c) <=> i \in Begins /\ c = sel[i]
  BY <1>2 DEF Strikes, Begins, Selects
<1>5. \A c \in Chans : c \in Dark <=> \E i \in Begins : c = sel[i]
  BY <1>3, <1>4 DEF Dark, Ends
<1>6. \A i \in Begins : i \in DOMAIN rows /\ sel[i] \in Chans
  BY <1>2 DEF Begins, Selects
<1>7. /\ \A c \in Chans : c \in Dark <=> \E d \in Ends(c) : em[d] # 0
      /\ \A c \in Chans : c \in Dark <=> \A d \in Ends(c) : em[d] # 0
  BY <1>3, <1>4, <1>5 DEF Ends
<1>8. ASSUME NEW p PROVE p \in Failed <=> \E i \in Begins : p = <<i, sel[i]>>
  <2>1. ASSUME p \in Failed PROVE \E i \in Begins : p = <<i, sel[i]>>
    <3>1. PICK i \in DOMAIN rows, c \in Chans : p = <<i, c>> /\ i \in Done(c)
      BY <2>1 DEF Failed
    <3>2. Strikes(i, c)
      BY <1>3, <3>1
    <3> QED  BY <1>4, <3>1, <3>2
  <2>2. ASSUME NEW i \in Begins, p = <<i, sel[i]>> PROVE p \in Failed
    <3>1. i \in DOMAIN rows /\ sel[i] \in Chans
      BY <1>6
    <3>2. i \in Done(sel[i])
      BY <1>3, <1>4, <3>1
    <3> QED  BY <2>2, <3>1, <3>2 DEF Failed
  <2> QED  BY <2>1, <2>2
<1>9. Dark \subseteq Chans
  BY DEF Dark
<1> QED  BY <1>5, <1>6, <1>7, <1>8, <1>9

\* The whole file has a line for each link, and its lines begin in the order
\* of the metrics.
LEMMA WholeFile ==
  ASSUME Simulated, origin = "whole", NEW sel, Selects(sel)
  PROVE  /\ Len(Lines) = Len(links)
         /\ \A c \in Dark : \A x \in Chans \ Dark : links[c].f <= links[x].f
<1>1. LinksOf(links, topology)
  BY DEF Simulated, GeneratedInv, GivenInv
<1>2. DOMAIN rows = DOMAIN Lines /\ Len(Lines) \in Nat /\ DOMAIN Lines = 1..Len(Lines)
  BY GivenRows
<1>3. ASSUME NEW c \in Chans PROVE \E i \in DOMAIN Lines : sel[i] = c
  <2>1. PICK t \in DOMAIN topology : Names(c) = EndsOf(topology[t])
    BY <1>1 DEF LinksOf, Chans, Names, EndsOf
  <2>2. PICK i \in DOMAIN Lines : EndsOf(Lines[i]) = EndsOf(topology[t])
    BY GivenFile
  <2>3. sel[i] \in Chans /\ Names(sel[i]) = Names(c)
    BY <1>2, <2>1, <2>2 DEF Selects, NamesOf, EndsOf
  <2> QED  BY <1>1, <2>3 DEF LinksOf, RowNames, Names, Chans
<1>4. Len(Lines) = Len(links)
  <2>1. Len(links) \in Nat /\ Chans = 1..Len(links)
    BY Links DEF Simulated, GeneratedInv, ScheduleInv, SimInv
  <2>2. \A n \in Nat : IsFiniteSet(1..n) /\ Cardinality(1..n) = n
    <3> SUFFICES ASSUME NEW n \in Nat PROVE IsFiniteSet(1..n) /\ Cardinality(1..n) = n
      OBVIOUS
    <3>1. IsFiniteSet(1..n) /\ Cardinality(1..n) = IF 1 > n THEN 0 ELSE n - 1 + 1
      BY FS_Interval
    <3>2. (IF 1 > n THEN 0 ELSE n - 1 + 1) = n
      OBVIOUS
    <3> QED  BY <3>1, <3>2
  <2>3. IsFiniteSet(DOMAIN Lines)
    BY <1>2, <2>2
  <2>4. /\ \A i \in DOMAIN Lines : sel[i] \in Chans
        /\ \A i, j \in DOMAIN Lines : sel[i] = sel[j] => i = j
    BY <1>2 DEF Selects
  <2>5. Cardinality(DOMAIN Lines) = Cardinality(Chans)
    <3> HIDE DEF Chans, Lines
    <3> QED  BY <1>3, <2>3, <2>4, SameCount
  <2>6. Cardinality(DOMAIN Lines) = Len(Lines) /\ Cardinality(Chans) = Len(links)
    BY <1>2, <2>1, <2>2
  <2> QED  BY <2>5, <2>6
<1>5. ASSUME NEW c \in Dark, NEW x \in Chans \ Dark PROVE links[c].f <= links[x].f
  <2>1. PICK i \in Begins : c = sel[i]
    BY DarkLinks
  <2>2. PICK j \in DOMAIN Lines : sel[j] = x
    BY <1>3
  <2>3. j \notin Begins
    BY <2>2, DarkLinks
  <2>4. i \in DOMAIN Lines /\ Lines[i].begin <= Runtime /\ ~(Lines[j].begin <= Runtime)
    BY <2>2, <2>3 DEF Begins
  <2>5. Lines[i].begin \in Nat /\ Lines[j].begin \in Nat /\ Runtime \in Nat /\ i \in Nat /\ j \in Nat
    BY <1>2, <2>4, GivenRows, LinkFailureAssumption DEF GivenLine
  <2>6. i < j
    <3>1. j < i => Lines[j].begin <= Lines[i].begin
      BY <2>4, GivenFile
    <3>2. i # j
      BY <2>4
    <3> QED  BY <2>4, <2>5, <3>1, <3>2
  <2>7. Lines[i].metric <= Lines[j].metric
    BY <2>4, <2>6, GivenFile
  <2> QED  BY <1>2, <2>1, <2>2, <2>4, <2>7 DEF Selects
<1> QED  BY <1>4, <1>5

\* From a topology that gives each direction once, the file that fail_gen.py
\* writes fails one link for each of its lines that begins during the run, at
\* both ends, and nothing else; given as a whole it has a line for each link
\* and fails those with the lowest metrics (fail_gen.py:8-19,
\* NtfTopoGen.cc:40-100).
THEOREM GeneratedFailuresFail == ScheduleSpec => []GeneratedFailsEach
<1>1. GeneratedInv => GeneratedFailsEach
  <2> SUFFICES ASSUME Simulated
               PROVE  /\ Cardinality(Dark) = Cardinality(Begins) /\ Len(models) = Cardinality(Begins)
                      /\ {d \in Devices : em[d] # 0} = UNION {Ends(c) : c \in Dark}
                      /\ {Names(c) : c \in Dark} = {NamesOf(Lines[i]) : i \in Begins}
                      /\ origin = "whole" =>
                           /\ Len(Lines) = Len(links)
                           /\ \A c \in Dark : \A x \in Chans \ Dark : links[c].f <= links[x].f
    BY DEF GeneratedFailsEach, Simulated, Begins
  <2>1. PICK sel : Selects(sel)
    BY SomeSelection
  <2>2. /\ \A i \in Begins : i \in DOMAIN rows /\ sel[i] \in Dark
        /\ \A c \in Dark : \E i \in Begins : c = sel[i]
        /\ \A c \in Chans : c \in Dark <=> \E d \in Ends(c) : em[d] # 0
        /\ \A c \in Chans : c \in Dark <=> \A d \in Ends(c) : em[d] # 0
        /\ \A p : p \in Failed <=> \E i \in Begins : p = <<i, sel[i]>>
    BY <2>1, DarkLinks
  <2>3. IsFiniteSet(Begins)
    <3>1. Len(Lines) \in Nat /\ Begins \subseteq 1..Len(Lines)
      BY GivenRows DEF Begins
    <3>2. IsFiniteSet(1..Len(Lines))
      BY <3>1, FS_Interval
    <3> QED  BY <3>1, <3>2, FS_Subset
  <2>4. \A i, j \in Begins : sel[i] = sel[j] => i = j
    BY <2>1, <2>2 DEF Selects
  <2>5. Cardinality(Dark) = Cardinality(Begins)
    <3> HIDE DEF Dark, Begins
    <3> QED  BY <2>2, <2>3, <2>4, SameCount
  <2>6. Cardinality(Failed) = Cardinality(Begins)
    <3> DEFINE g == [i \in Begins |-> <<i, sel[i]>>]
    <3>1. /\ \A i \in Begins : g[i] \in Failed
          /\ \A i, j \in Begins : g[i] = g[j] => i = j
          /\ \A p \in Failed : \E i \in Begins : g[i] = p
      BY <2>2
    <3> HIDE DEF g, Failed, Begins
    <3> QED  BY <2>3, <3>1, SameCount
  <2>7. Len(models) = Cardinality(Begins)
    BY <2>6 DEF Simulated, GeneratedInv, CountInv, Counted
  <2>8. {d \in Devices : em[d] # 0} = UNION {Ends(c) : c \in Dark}
    <3>1. ASSUME NEW d \in Devices, em[d] # 0 PROVE \E c \in Dark : d \in Ends(c)
      <4>1. PICK c \in Chans : d \in Ends(c)
        BY DEF Devices, Ends
      <4> QED  BY <2>2, <3>1, <4>1
    <3>2. ASSUME NEW c \in Dark, NEW d \in Ends(c) PROVE d \in Devices /\ em[d] # 0
      <4>1. c \in Chans
        BY DEF Dark
      <4>2. d \in Devices
        BY <4>1 DEF Devices, Ends
      <4> QED  BY <2>2, <4>1, <4>2
    <3> HIDE DEF Dark, Devices, Ends
    <3> QED  BY <3>1, <3>2
  <2>9. {Names(c) : c \in Dark} = {NamesOf(Lines[i]) : i \in Begins}
    <3>1. \A i \in Begins : Names(sel[i]) = NamesOf(Lines[i])
      BY <2>1, <2>2 DEF Selects
    <3> HIDE DEF Dark, Begins, Names, NamesOf, Lines
    <3> QED  BY <2>2, <3>1
  <2> QED  BY <2>1, <2>5, <2>7, <2>8, <2>9, WholeFile
<1> QED  BY <1>1, GeneratedInductive, PTL
=============================================================================
