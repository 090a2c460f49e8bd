---------------------------- MODULE FibParserProofs ----------------------------
(***************************************************************************)
(* For every set of networks: what the forwarding tables of a simulation   *)
(* and the last of its dumps are, what exploring a dump says of it, which  *)
(* instant of convergence is reported and when there is one.               *)
(*                                                                         *)
(* LastDumpFinal is not inductive: it says nothing before the last BIRD    *)
(* has finished.  RoutesOK adds what the routes of a node are meanwhile:   *)
(* the old ones, less those through the dead interface, until it hears of  *)
(* the failure, and the new ones where they are installed or the same.     *)
(* ExploreInv relates what the parser finds to what the tables do.         *)
(*                                                                         *)
(* The recursions of Outcomes, Delivering and Distances are functions that *)
(* are chosen: that there are such functions is proved of each (Repeated,  *)
(* SomeExplores), and what they are follows by least counterexamples.      *)
(***************************************************************************)
EXTENDS FibParser, FiniteSetTheorems, WellFoundedInduction, TLAPS

Route(n) == [hop : Nodes \ {n}, alive : BOOLEAN]
Tables == [Nodes -> [Nodes -> SUBSET [hop : Nodes, alive : BOOLEAN]]]

\* The next hops of n to d before it has heard of the failure.
OldHops(n, d) == NextHops(net.cost, n, d) \ (IF n \in down THEN Failed ELSE {})

TablesOK ==
  /\ fib \in Tables
  /\ \A n, d \in Nodes : fib[n][d] \subseteq Route(n)
  /\ \A n, d \in Nodes : fib[n][d] # {} => Hops(fib, n, d) # {}

RoutesOK ==
  /\ \A n, d \in Nodes : spf[n] = "waiting" => Hops(fib, n, d) = OldHops(n, d)
  /\ \A n, d \in Nodes : spf[n] # "waiting" /\ d \notin todo[n] =>
       Hops(fib, n, d) = NextHops(Remaining, n, d)

NodesOK ==
  /\ net \in Networks
  /\ spf \in [Nodes -> {"waiting", "installing", "done"}] /\ todo \in [Nodes -> SUBSET Nodes]
  /\ \A n \in Nodes : todo[n] # {} => spf[n] = "installing"
  /\ down \subseteq Failed

AllDone == \A n \in Nodes : spf[n] = "done"

DumpsOK ==
  /\ dumps \in Seq(Tables)
  /\ dumps = <<>> => running /\ down = {} /\ \A n \in Nodes : spf[n] = "waiting"
  /\ AllDone /\ tied # Len(dumps) =>
       \A n, d \in Nodes : Hops(Last(dumps), n, d) = NextHops(Remaining, n, d)

ResultOK ==
  /\ result \in Seq(BOOLEAN) /\ Len(result) <= Len(dumps)
  /\ running \in BOOLEAN
  /\ running => ioc = 0 /\ result = <<>>
  /\ ioc # 0 => Len(result) = Len(dumps)
  /\ ioc \in {-1, 0} \cup DOMAIN dumps

FibInv == NodesOK /\ TablesOK /\ RoutesOK /\ DumpsOK /\ ResultOK /\ BeginsLastSeries

-----------------------------------------------------------------------------
(* Networks and routes                                                     *)

\* What is left of the network does not change.
LEMMA SameNet ==
  ASSUME UNCHANGED net
  PROVE  /\ Nodes' = Nodes /\ Failed' = Failed
         /\ \A n, d : NextHops(Remaining, n, d)' = NextHops(Remaining, n, d)
         /\ \A n, d : NextHops(net.cost, n, d)' = NextHops(net.cost, n, d)
         /\ Tables' = Tables /\ \A n : Route(n)' = Route(n)
BY DEF Nodes, Failed, Remaining, NextHops, Distances, Tables, Route

\* The failed link joins two nodes.
LEMMA FailedEnds ==
  ASSUME net \in Networks, NEW n \in Failed, NEW m \in Failed, n # m
  PROVE  {n, m} = Failed
<1>1. PICK a \in 1..net.size, b \in 1..net.size : net.failed = <<a, b>>
  BY FibDumpsAssumption
<1>2. Failed = {a, b}
  BY <1>1 DEF Failed, ToSet
<1> QED  BY <1>2

\* No node is its own next hop.
LEMMA NextHopsNodes ==
  ASSUME net \in Networks, NEW n \in Nodes, NEW d
  PROVE  /\ NextHops(net.cost, n, d) \subseteq Nodes \ {n}
         /\ NextHops(Remaining, n, d) \subseteq Nodes \ {n}
<1>1. \A m : <<n, m>> \in DOMAIN net.cost => m # n
  BY FibDumpsAssumption
<1>2. DOMAIN Remaining \subseteq DOMAIN net.cost
  BY DEF Remaining
<1>3. ASSUME NEW c, NEW m \in NextHops(c, n, d) PROVE m \in Nodes /\ <<n, m>> \in DOMAIN c
  BY <1>3 DEF NextHops
<1> QED  BY <1>1, <1>2, <1>3

\* The new routes of an end of the failed link do not use it.
LEMMA NewAvoids ==
  ASSUME net \in Networks, NEW n \in Nodes, n \in Failed, NEW d
  PROVE  NextHops(Remaining, n, d) \ Failed = NextHops(Remaining, n, d)
<1> SUFFICES ASSUME NEW m \in NextHops(Remaining, n, d), m \in Failed PROVE FALSE  OBVIOUS
<1>1. n # m
  BY NextHopsNodes
<1>2. <<n, m>> \in DOMAIN Remaining
  BY DEF NextHops
<1>3. {n, m} # Failed
  BY <1>2 DEF Remaining
<1> QED  BY <1>1, <1>3, FailedEnds

LEMMA AliveHops ==
  ASSUME NEW f, NEW n, NEW d, NEW S, f[n][d] = Alive(S)
  PROVE  Hops(f, n, d) = S
<1> DEFINE E(m) == [hop |-> m, alive |-> TRUE]
<1>1. \A m : E(m).hop = m /\ E(m).alive
  OBVIOUS
<1>2. f[n][d] = {E(m) : m \in S}
  BY DEF Alive
<1> HIDE DEF E
<1> QED  BY <1>1, <1>2 DEF Hops

LEMMA AliveRoute ==
  ASSUME NEW n, NEW S, S \subseteq Nodes \ {n}
  PROVE  Alive(S) \subseteq Route(n)
<1> DEFINE E(m) == [hop |-> m, alive |-> TRUE]
<1>1. \A m \in S : E(m) \in Route(n)
  BY DEF Route
<1>2. Alive(S) = {E(m) : m \in S}
  BY DEF Alive
<1> HIDE DEF E
<1> QED  BY <1>1, <1>2

\* A route whose next hops in D are dead.
Killed(route, D) == { [r EXCEPT !.alive = @ /\ r.hop \notin D] : r \in route }
WithoutDead(route) == IF \E r \in route : r.alive THEN route ELSE {}

LEMMA KilledHops ==
  ASSUME NEW f, NEW g, NEW n \in Nodes, NEW d, NEW D,
         f[n][d] \subseteq Route(n), g[n][d] = WithoutDead(Killed(f[n][d], D))
  PROVE  /\ g[n][d] \subseteq Route(n)
         /\ Hops(g, n, d) = Hops(f, n, d) \ D
         /\ g[n][d] # {} => Hops(g, n, d) # {}
<1> DEFINE R == f[n][d]
           K == Killed(R, D)
           Mark(r) == [r EXCEPT !.alive = @ /\ r.hop \notin D]
<1>1. ASSUME NEW r \in R
      PROVE  /\ Mark(r) \in Route(n) /\ Mark(r).hop = r.hop
             /\ Mark(r).alive <=> r.alive /\ r.hop \notin D
  <2>1. r \in [hop : Nodes \ {n}, alive : BOOLEAN]
    BY <1>1 DEF Route
  <2>2. (r.alive /\ r.hop \notin D) \in BOOLEAN
    OBVIOUS
  <2> QED  BY <2>1, <2>2 DEF Route
<1>2. K = {Mark(r) : r \in R}
  BY DEF Killed
<1> HIDE DEF Mark, K
<1>3. {k.hop : k \in {s \in K : s.alive}} = {r.hop : r \in {s \in R : s.alive}} \ D
  BY <1>1, <1>2
<1>4. K \subseteq Route(n)
  BY <1>1, <1>2
<1>5. (\E k \in K : k.alive) <=> {k.hop : k \in {s \in K : s.alive}} # {}
  OBVIOUS
<1>6. CASE \E k \in K : k.alive
  <2>1. g[n][d] = K
    BY <1>6 DEF WithoutDead, K
  <2> QED  BY <1>3, <1>4, <1>5, <1>6, <2>1 DEF Hops
<1>7. CASE ~ \E k \in K : k.alive
  <2>1. g[n][d] = {}
    BY <1>7 DEF WithoutDead, K
  <2> QED  BY <1>3, <1>5, <1>7, <2>1 DEF Hops
<1> QED  BY <1>6, <1>7

-----------------------------------------------------------------------------
(* The steps of the simulation                                             *)

LEMMA InitFib == Init => FibInv
<1> SUFFICES ASSUME Init PROVE FibInv  OBVIOUS
<1>1. /\ net \in Networks /\ running = TRUE /\ down = {} /\ dumps = <<>> /\ tied = 0
      /\ fib = [n \in Nodes |-> [d \in Nodes |-> Alive(NextHops(net.cost, n, d))]]
      /\ todo = [n \in Nodes |-> {}] /\ spf = [n \in Nodes |-> "waiting"]
      /\ result = <<>> /\ ioc = 0
  BY DEF Init, SimInit
<1>2. NodesOK
  BY <1>1 DEF NodesOK
<1>3. \A n, d \in Nodes : /\ fib[n][d] = Alive(NextHops(net.cost, n, d))
                          /\ Hops(fib, n, d) = NextHops(net.cost, n, d)
                          /\ fib[n][d] \subseteq Route(n)
  <2> SUFFICES ASSUME NEW n \in Nodes, NEW d \in Nodes
               PROVE  /\ fib[n][d] = Alive(NextHops(net.cost, n, d))
                      /\ Hops(fib, n, d) = NextHops(net.cost, n, d)
                      /\ fib[n][d] \subseteq Route(n)
    OBVIOUS
  <2>1. fib[n][d] = Alive(NextHops(net.cost, n, d))
    BY <1>1
  <2>2. NextHops(net.cost, n, d) \subseteq Nodes \ {n}
    BY <1>1, NextHopsNodes
  <2> QED  BY <2>1, <2>2, AliveHops, AliveRoute
<1>4. TablesOK
  <2>1. \A n, d \in Nodes : fib[n][d] \subseteq [hop : Nodes, alive : BOOLEAN]
    BY <1>3 DEF Route
  <2>2. fib \in Tables
    BY <1>1, <2>1 DEF Tables
  <2>3. ASSUME NEW n \in Nodes, NEW d \in Nodes, fib[n][d] # {} PROVE Hops(fib, n, d) # {}
    BY <1>3, <2>3 DEF Alive
  <2> QED  BY <1>3, <2>2, <2>3 DEF TablesOK
<1>5. RoutesOK
  BY <1>1, <1>3 DEF RoutesOK, OldHops
<1>6. DumpsOK
  BY <1>1 DEF DumpsOK, AllDone
<1>7. ResultOK /\ BeginsLastSeries
  BY <1>1 DEF ResultOK, BeginsLastSeries
<1> QED  BY <1>2, <1>4, <1>5, <1>6, <1>7 DEF FibInv

TablesAndDumps == NodesOK /\ TablesOK /\ RoutesOK /\ DumpsOK

\* The parser waits for the end of the simulation.
LEMMA SimKeepsResult ==
  ASSUME ResultOK, running, SimNext, UNCHANGED <<result, ioc>>, DumpsOK'
  PROVE  ResultOK' /\ BeginsLastSeries'
<1>1. ioc = 0 /\ result = <<>>
  BY DEF ResultOK
<1>2. running' \in BOOLEAN
  BY DEF ResultOK, SimNext, FirstDump, Stop, InterfaceDown, StartSpf, FinishSpf,
         FinishSpfAtOnce, Install
<1>3. Len(dumps') \in Nat
  BY DEF DumpsOK
<1> QED  BY <1>1, <1>2, <1>3 DEF ResultOK, BeginsLastSeries

LEMMA SameTables ==
  ASSUME NodesOK, TablesOK, RoutesOK, UNCHANGED <<net, down, fib, todo, spf>>
  PROVE  NodesOK' /\ TablesOK' /\ RoutesOK'
<1>1. NodesOK'
  BY SameNet DEF NodesOK
<1>2. \A n, d : Hops(fib, n, d)' = Hops(fib, n, d) /\ OldHops(n, d)' = OldHops(n, d)
  BY SameNet DEF Hops, OldHops
<1>3. TablesOK'
  BY <1>2, SameNet DEF TablesOK
<1>4. RoutesOK'
  BY <1>2, SameNet DEF RoutesOK
<1> QED  BY <1>1, <1>3, <1>4

LEMMA SameDumps ==
  ASSUME DumpsOK, UNCHANGED <<net, dumps, tied>>, dumps # <<>>, AllDone' => AllDone
  PROVE  DumpsOK'
<1>1. \A n, d : Hops(Last(dumps), n, d)' = Hops(Last(dumps), n, d)
  BY DEF Hops
<1> QED  BY <1>1, SameNet DEF DumpsOK

LEMMA FirstDumpInv ==
  ASSUME TablesAndDumps, FirstDump PROVE TablesAndDumps'
<1>1. /\ dumps = <<>> /\ dumps' = <<fib>>
      /\ UNCHANGED <<net, running, down, fib, todo, spf, tied>>
  BY DEF FirstDump
<1>2. dumps' \in Seq(Tables') /\ dumps' # <<>>
  BY <1>1, SameNet DEF TablesAndDumps, TablesOK
<1>3. AllDone' => Nodes' = {}
  BY <1>1, SameNet DEF TablesAndDumps, DumpsOK, AllDone
<1>4. DumpsOK'
  BY <1>2, <1>3 DEF DumpsOK
<1> QED  BY <1>1, <1>4, SameTables DEF TablesAndDumps

LEMMA StopInv ==
  ASSUME TablesAndDumps, Stop PROVE TablesAndDumps'
<1>1. dumps # <<>> /\ UNCHANGED <<net, down, fib, todo, spf, dumps, tied>>
  BY DEF Stop
<1>2. AllDone' => AllDone
  BY <1>1, SameNet DEF AllDone
<1> QED  BY <1>1, <1>2, SameTables, SameDumps DEF TablesAndDumps

LEMMA InterfaceDownInv ==
  ASSUME TablesAndDumps, NEW n \in Nodes, InterfaceDown(n) PROVE TablesAndDumps'
<1> USE DEF TablesAndDumps
<1>1. /\ dumps # <<>> /\ n \in Failed /\ n \notin down /\ down' = down \cup {n}
      /\ fib' = [fib EXCEPT ![n] = [d \in Nodes |-> WithoutDead(Killed(fib[n][d], Failed))]]
      /\ UNCHANGED <<net, todo, spf, dumps, tied>>
  BY DEF InterfaceDown, WithoutDead, Killed
<1>2. NodesOK'
  BY <1>1, SameNet DEF NodesOK
<1>3. \A d \in Nodes : fib'[n][d] = WithoutDead(Killed(fib[n][d], Failed))
  BY <1>1 DEF TablesOK, Tables
<1>4. \A d \in Nodes : /\ fib'[n][d] \subseteq Route(n)
                       /\ Hops(fib', n, d) = Hops(fib, n, d) \ Failed
                       /\ fib'[n][d] # {} => Hops(fib', n, d) # {}
  BY <1>3, KilledHops DEF TablesOK
<1>5. \A m \in Nodes : m # n => fib'[m] = fib[m]
  BY <1>1 DEF TablesOK, Tables
<1>6. \A m, d \in Nodes : m # n => Hops(fib', m, d) = Hops(fib, m, d)
  BY <1>5 DEF Hops
<1>7. TablesOK'
  <2>1. \A m, d \in Nodes : fib'[m][d] \subseteq Route(m)
    BY <1>4, <1>5 DEF TablesOK
  <2>2. \A m, d \in Nodes : fib'[m][d] # {} => Hops(fib', m, d) # {}
    BY <1>4, <1>5, <1>6 DEF TablesOK
  <2>3. fib' \in Tables
    <3>1. \A d \in Nodes : fib'[n][d] \subseteq [hop : Nodes, alive : BOOLEAN]
      BY <2>1 DEF Route
    <3>2. fib \in Tables
      BY DEF TablesOK
    <3> DEFINE F == [d \in Nodes |-> WithoutDead(Killed(fib[n][d], Failed))]
    <3>3. F \in [Nodes -> SUBSET [hop : Nodes, alive : BOOLEAN]]
      BY <1>3, <3>1
    <3>4. fib' = [fib EXCEPT ![n] = F]
      BY <1>1
    <3> HIDE DEF F
    <3> QED  BY <3>2, <3>3, <3>4 DEF Tables
  <2> QED  BY <1>1, <2>1, <2>2, <2>3, SameNet DEF TablesOK, Hops
<1>8. RoutesOK'
  <2>1. ASSUME NEW m \in Nodes, NEW d \in Nodes, spf[m] = "waiting"
        PROVE  Hops(fib', m, d) = OldHops(m, d)'
    <3>1. Hops(fib, m, d) = OldHops(m, d)
      BY <2>1 DEF RoutesOK
    <3> QED  BY <1>1, <1>4, <1>6, <3>1, SameNet DEF OldHops
  <2>2. ASSUME NEW m \in Nodes, NEW d \in Nodes, spf[m] # "waiting", d \notin todo[m]
        PROVE  Hops(fib', m, d) = NextHops(Remaining, m, d)
    <3>1. Hops(fib, m, d) = NextHops(Remaining, m, d)
      BY <2>2 DEF RoutesOK
    <3>2. CASE m = n
      BY <1>1, <1>4, <3>1, <3>2, NewAvoids DEF NodesOK
    <3> QED  BY <1>6, <3>1, <3>2
  <2> QED  BY <1>1, <2>1, <2>2, SameNet DEF RoutesOK, Hops
<1>9. DumpsOK'
  <2>1. AllDone' => AllDone
    BY <1>1, SameNet DEF AllDone
  <2> QED  BY <1>1, <2>1, SameDumps
<1> QED  BY <1>2, <1>7, <1>8, <1>9

LEMMA StartSpfInv ==
  ASSUME TablesAndDumps, NEW n \in Nodes, StartSpf(n) PROVE TablesAndDumps'
<1> USE DEF TablesAndDumps
<1>1. /\ spf[n] = "waiting" /\ down # {} /\ spf' = [spf EXCEPT ![n] = "installing"]
      /\ todo' = [todo EXCEPT ![n] = {d \in Nodes : NextHops(Remaining, n, d) # NextHops(net.cost, n, d)}]
      /\ UNCHANGED <<net, down, fib, dumps, tied>>
  BY DEF StartSpf
<1>2. \A m \in Nodes : /\ spf'[m] = IF m = n THEN "installing" ELSE spf[m]
                       /\ m # n => todo'[m] = todo[m]
  BY <1>1 DEF NodesOK
<1>3. todo'[n] = {d \in Nodes : NextHops(Remaining, n, d) # NextHops(net.cost, n, d)}
  BY <1>1 DEF NodesOK
<1>4. NodesOK'
  <2>1. spf' \in [Nodes -> {"waiting", "installing", "done"}] /\ todo' \in [Nodes -> SUBSET Nodes]
    BY <1>1 DEF NodesOK
  <2>2. \A m \in Nodes : todo'[m] # {} => spf'[m] = "installing"
    BY <1>2 DEF NodesOK
  <2> QED  BY <1>1, <2>1, <2>2, SameNet DEF NodesOK
<1>5. \A m, d : Hops(fib, m, d)' = Hops(fib, m, d) /\ OldHops(m, d)' = OldHops(m, d)
  BY <1>1, SameNet DEF Hops, OldHops
<1>6. TablesOK'
  BY <1>1, <1>5, SameNet DEF TablesOK
<1>7. RoutesOK'
  <2>1. ASSUME NEW d \in Nodes, d \notin todo'[n]
        PROVE  Hops(fib, n, d) = NextHops(Remaining, n, d)
    <3>1. NextHops(Remaining, n, d) = NextHops(net.cost, n, d)
      BY <1>3, <2>1
    <3>2. Hops(fib, n, d) = OldHops(n, d)
      BY <1>1 DEF RoutesOK
    <3>3. CASE n \in down
      BY <3>1, <3>2, <3>3, NewAvoids DEF NodesOK, OldHops
    <3>4. CASE n \notin down
      BY <3>1, <3>2, <3>4 DEF OldHops
    <3> QED  BY <3>3, <3>4
  <2> QED  BY <1>2, <1>5, <2>1, SameNet, <1>1 DEF RoutesOK
<1>8. DumpsOK'
  <2>1. ~AllDone'
    BY <1>1, <1>2, SameNet DEF AllDone
  <2>2. dumps # <<>>
    BY <1>1 DEF DumpsOK
  <2> QED  BY <1>1, <2>1, <2>2, SameDumps
<1> QED  BY <1>4, <1>6, <1>7, <1>8

LEMMA InstallInv ==
  ASSUME TablesAndDumps, NEW n \in Nodes, NEW d \in Nodes, Install(n, d) PROVE TablesAndDumps'
<1> USE DEF TablesAndDumps
<1> DEFINE S == NextHops(Remaining, n, d)
<1>1. /\ d \in todo[n] /\ fib' = [fib EXCEPT ![n][d] = Alive(S)]
      /\ todo' = [todo EXCEPT ![n] = todo[n] \ {d}]
      /\ UNCHANGED <<net, down, spf, dumps, tied>>
  BY DEF Install
<1>2. S \subseteq Nodes \ {n}
  BY NextHopsNodes DEF NodesOK
<1> HIDE DEF S
<1>3. spf[n] = "installing"
  BY <1>1 DEF NodesOK
<1>4. NodesOK'
  <2>1. todo' \in [Nodes -> SUBSET Nodes]
    BY <1>1 DEF NodesOK
  <2>2. \A m \in Nodes : todo'[m] # {} => spf[m] = "installing"
    BY <1>1, <1>3 DEF NodesOK
  <2> QED  BY <1>1, <2>1, <2>2, SameNet DEF NodesOK
<1>5. /\ fib'[n][d] = Alive(S)
      /\ \A m, e \in Nodes : m # n \/ e # d => fib'[m][e] = fib[m][e]
  BY <1>1 DEF TablesOK, Tables
<1>6. fib'[n][d] \subseteq Route(n) /\ Hops(fib', n, d) = S
  BY <1>2, <1>5, AliveHops, AliveRoute
<1>7. \A m, e \in Nodes : m # n \/ e # d => Hops(fib', m, e) = Hops(fib, m, e)
  BY <1>5 DEF Hops
<1>8. TablesOK'
  <2>1. \A m, e \in Nodes : fib'[m][e] \subseteq Route(m)
    BY <1>5, <1>6 DEF TablesOK
  <2>2. fib'[n][d] # {} => S # {}
    BY <1>5 DEF Alive
  <2>3. \A m, e \in Nodes : fib'[m][e] # {} => Hops(fib', m, e) # {}
    BY <1>5, <1>6, <1>7, <2>2 DEF TablesOK
  <2>4. fib' \in Tables
    <3>1. fib'[n][d] \subseteq [hop : Nodes, alive : BOOLEAN]
      BY <1>6 DEF Route
    <3> QED  BY <1>1, <1>5, <3>1 DEF TablesOK, Tables
  <2> QED  BY <1>1, <2>1, <2>3, <2>4, SameNet DEF TablesOK, Hops
<1>9. RoutesOK'
  <2>1. ASSUME NEW m \in Nodes, NEW e \in Nodes, spf[m] = "waiting"
        PROVE  Hops(fib', m, e) = OldHops(m, e)
    BY <1>3, <1>7, <2>1 DEF RoutesOK
  <2>2. ASSUME NEW m \in Nodes, NEW e \in Nodes, spf[m] # "waiting", e \notin todo'[m]
        PROVE  Hops(fib', m, e) = NextHops(Remaining, m, e)
    <3>1. CASE m = n /\ e = d
      BY <1>6, <3>1 DEF S
    <3>2. CASE m # n \/ e # d
      <4>1. e \notin todo[m]
        BY <1>1, <2>2, <3>2 DEF NodesOK
      <4> QED  BY <1>7, <2>2, <3>2, <4>1 DEF RoutesOK
    <3> QED  BY <3>1, <3>2
  <2>3. \A m, e : OldHops(m, e)' = OldHops(m, e)
    BY <1>1, SameNet DEF OldHops
  <2> QED  BY <1>1, <2>1, <2>2, <2>3, SameNet DEF RoutesOK, Hops
<1>10. DumpsOK'
  <2>1. ~AllDone'
    BY <1>1, <1>3, SameNet DEF AllDone
  <2>2. dumps # <<>>
    BY <1>3 DEF DumpsOK
  <2> QED  BY <1>1, <2>1, <2>2, SameDumps
<1> QED  BY <1>4, <1>8, <1>9, <1>10

\* A calculation ends: what the two actions have in common.
LEMMA EndSpf ==
  ASSUME TablesAndDumps, NEW n \in Nodes, spf[n] = "installing", todo[n] = {},
         spf' = [spf EXCEPT ![n] = "done"], UNCHANGED <<net, down, fib, todo>>
  PROVE  /\ NodesOK' /\ TablesOK' /\ RoutesOK'
         /\ dumps # <<>>
         /\ AllDone' => \A m, d \in Nodes : Hops(fib, m, d) = NextHops(Remaining, m, d)
<1> USE DEF TablesAndDumps
<1>1. \A m \in Nodes : spf'[m] = IF m = n THEN "done" ELSE spf[m]
  BY DEF NodesOK
<1>2. NodesOK'
  <2>1. spf' \in [Nodes -> {"waiting", "installing", "done"}]
    BY DEF NodesOK
  <2> QED  BY <1>1, <2>1, SameNet DEF NodesOK
<1>3. \A m, d : Hops(fib, m, d)' = Hops(fib, m, d) /\ OldHops(m, d)' = OldHops(m, d)
  BY SameNet DEF Hops, OldHops
<1>4. TablesOK'
  BY <1>3, SameNet DEF TablesOK
<1>5. RoutesOK'
  BY <1>1, <1>3, SameNet DEF RoutesOK
<1>6. dumps # <<>>
  BY DEF DumpsOK
<1>7. ASSUME AllDone', NEW m \in Nodes, NEW d \in Nodes
      PROVE  Hops(fib, m, d) = NextHops(Remaining, m, d)
  <2>1. spf'[m] = "done"
    BY <1>7, SameNet DEF AllDone
  <2>2. todo[m] = {} /\ spf[m] # "waiting"
    BY <1>1, <2>1 DEF NodesOK
  <2> QED  BY <2>2 DEF RoutesOK
<1> QED  BY <1>2, <1>4, <1>5, <1>6, <1>7

LEMMA FinishSpfInv ==
  ASSUME TablesAndDumps, NEW n \in Nodes, FinishSpf(n) PROVE TablesAndDumps'
<1>1. /\ dumps' = Append(dumps, fib) /\ UNCHANGED <<net, running, tied>>
      /\ NodesOK' /\ TablesOK' /\ RoutesOK'
      /\ AllDone' => \A m, d \in Nodes : Hops(fib, m, d) = NextHops(Remaining, m, d)
  BY EndSpf DEF FinishSpf
<1>2. dumps \in Seq(Tables) /\ fib \in Tables
  BY DEF TablesAndDumps, DumpsOK, TablesOK
<1>3. dumps' \in Seq(Tables) /\ dumps' # <<>> /\ Last(dumps') = fib
  BY <1>1, <1>2 DEF Last
<1>4. DumpsOK'
  BY <1>1, <1>3, SameNet DEF DumpsOK, Hops
<1> QED  BY <1>1, <1>4 DEF TablesAndDumps

LEMMA FinishSpfAtOnceInv ==
  ASSUME TablesAndDumps, NEW n \in Nodes, FinishSpfAtOnce(n) PROVE TablesAndDumps'
<1>1. /\ Len(dumps) > 1 /\ tied' = Len(dumps) /\ UNCHANGED <<net, running>>
      /\ NodesOK' /\ TablesOK' /\ RoutesOK'
  BY EndSpf DEF FinishSpfAtOnce
<1>2. PICK older \in SUBSET Nodes :
        dumps' = Append(Front(dumps), [m \in Nodes |-> IF m \in older THEN Last(dumps)[m] ELSE fib[m]])
  BY DEF FinishSpfAtOnce
<1> DEFINE t == [m \in Nodes |-> IF m \in older THEN Last(dumps)[m] ELSE fib[m]]
<1>3. dumps \in Seq(Tables) /\ fib \in Tables
  BY DEF TablesAndDumps, DumpsOK, TablesOK
<1>4. Last(dumps) \in Tables /\ Front(dumps) \in Seq(Tables) /\ Len(Front(dumps)) = Len(dumps) - 1
  BY <1>1, <1>3 DEF Last, Front
<1>5. t \in Tables
  BY <1>3, <1>4 DEF Tables
<1> HIDE DEF t
<1>6. dumps' = Append(Front(dumps), t)
  BY <1>2 DEF t
<1>7. dumps' \in Seq(Tables) /\ Len(dumps') = Len(dumps) /\ dumps' # <<>>
  BY <1>1, <1>3, <1>4, <1>5, <1>6
<1>8. DumpsOK'
  BY <1>1, <1>7, SameNet DEF DumpsOK
<1> QED  BY <1>1, <1>8 DEF TablesAndDumps

LEMMA SimInv ==
  ASSUME TablesAndDumps, SimNext PROVE TablesAndDumps'
<1>1. CASE FirstDump
  BY <1>1, FirstDumpInv
<1>2. CASE Stop
  BY <1>2, StopInv
<1>3. ASSUME NEW n \in Nodes, InterfaceDown(n) PROVE TablesAndDumps'
  BY <1>3, InterfaceDownInv
<1>4. ASSUME NEW n \in Nodes, StartSpf(n) PROVE TablesAndDumps'
  BY <1>4, StartSpfInv
<1>5. ASSUME NEW n \in Nodes, FinishSpf(n) PROVE TablesAndDumps'
  BY <1>5, FinishSpfInv
<1>6. ASSUME NEW n \in Nodes, FinishSpfAtOnce(n) PROVE TablesAndDumps'
  BY <1>6, FinishSpfAtOnceInv
<1>7. ASSUME NEW n \in Nodes, NEW d \in Nodes, Install(n, d) PROVE TablesAndDumps'
  BY <1>7, InstallInv
<1> QED  BY <1>1, <1>2, <1>3, <1>4, <1>5, <1>6, <1>7 DEF SimNext

-----------------------------------------------------------------------------
(* The instant of convergence                                              *)

Less == {p \in Nat \X Nat : p[1] < p[2]}

\* A set of numbers below a bound has a greatest one.
LEMMA Greatest ==
  ASSUME NEW b \in Nat, NEW S \in SUBSET (1..b), S # {}
  PROVE  Max(S) \in S /\ \A y \in S : y <= Max(S)
<1> DEFINE T == {b - y : y \in S}
<1>1. \A y \in S : b - y \in T /\ b - y \in Nat
  OBVIOUS
<1>2. T \in SUBSET Nat /\ T # {}
  BY <1>1
<1> HIDE DEF T
<1>3. IsWellFoundedOn(Less, Nat)
  <2>1. OpToRel(<, Nat) = Less
    BY DEF OpToRel, Less
  <2> QED  BY <2>1, NatLessThanWellFounded
<1>4. PICK t \in T : \A u \in T : ~(<<u, t>> \in Less)
  BY <1>2, <1>3, WFMin
<1>5. PICK x \in S : t = b - x
  BY DEF T
<1>6. ASSUME NEW y \in S PROVE x >= y
  <2>1. ~(b - y < b - x)
    BY <1>1, <1>4, <1>5 DEF Less
  <2>2. x \in Nat /\ y \in Nat
    OBVIOUS
  <2> QED  BY <2>1, <2>2
<1>7. Max(S) \in S /\ \A y \in S : Max(S) >= y
  BY <1>6 DEF Max
<1> QED  BY <1>7

\* Of a series of results, not empty: the candidate is one of them, the latest
\* after which all are valid if the last one is.
LEMMA InstantFound ==
  ASSUME result \in Seq(BOOLEAN), result # <<>>
  PROVE  /\ InstantOfConvergence \in {-1} \cup DOMAIN result
         /\ result[Len(result)] =>
              /\ InstantOfConvergence \in DOMAIN result
              /\ \A i \in InstantOfConvergence..Len(result) : result[i]
              /\ InstantOfConvergence > 1 => ~result[InstantOfConvergence - 1]
<1> DEFINE l == Len(result)
           I == Invalid
           c == IF I = {} \/ Max(I) = l THEN 1 ELSE Max(I) + 1
<1>1. l \in Nat \ {0} /\ DOMAIN result = 1..l
  BY DEF Invalid
<1>2. I \subseteq 1..l /\ \A i \in 1..l : i \in I <=> ~result[i]
  BY <1>1 DEF Invalid
<1>3. InstantOfConvergence = IF result[c] THEN c ELSE -1
  BY DEF InstantOfConvergence
<1> HIDE DEF l, I, InstantOfConvergence
<1>4. CASE I = {}
  <2>1. c = 1
    BY <1>4
  <2>2. \A i \in 1..l : result[i]
    BY <1>2, <1>4
  <2>3. InstantOfConvergence = 1
    BY <1>1, <1>3, <2>1, <2>2
  <2> QED  BY <1>1, <2>2, <2>3 DEF l
<1>5. CASE I # {} /\ Max(I) = l
  <2>1. l \in I
    BY <1>1, <1>2, <1>5, Greatest
  <2>2. ~result[l] /\ c = 1
    BY <1>1, <1>2, <1>5, <2>1
  <2> QED  BY <1>1, <1>3, <2>2 DEF l
<1>6. CASE I # {} /\ Max(I) # l
  <2> DEFINE g == Max(I)
  <2>1. g \in I /\ \A y \in I : y <= g
    BY <1>1, <1>2, <1>6, Greatest
  <2>2. c = g + 1
    BY <1>6
  <2> HIDE DEF g, c
  <2>3. g \in 1..l /\ g # l /\ ~result[g]
    BY <1>2, <1>6, <2>1 DEF g
  <2>4. g + 1 \in 1..l /\ \A i \in (g + 1)..l : i \in 1..l /\ ~(i <= g)
    BY <1>1, <2>3
  <2>5. \A i \in (g + 1)..l : result[i]
    BY <1>2, <2>1, <2>4
  <2>6. result[g + 1] /\ g + 1 \in (g + 1)..l
    BY <1>1, <2>4, <2>5
  <2>7. InstantOfConvergence = g + 1
    BY <1>3, <2>2, <2>6
  <2>8. (g + 1) - 1 = g
    BY <2>3
  <2> QED  BY <1>1, <2>3, <2>4, <2>5, <2>7, <2>8 DEF l
<1> QED  BY <1>4, <1>5, <1>6

LEMMA SameSim ==
  ASSUME TablesAndDumps, UNCHANGED simVars PROVE TablesAndDumps'
<1>1. UNCHANGED <<net, running, down, fib, todo, spf, dumps, tied>>
  BY DEF simVars
<1>2. \A n, d : Hops(Last(dumps), n, d)' = Hops(Last(dumps), n, d)
  BY <1>1 DEF Hops
<1>3. DumpsOK'
  BY <1>1, <1>2, SameNet DEF TablesAndDumps, DumpsOK, AllDone
<1> QED  BY <1>1, <1>3, SameTables DEF TablesAndDumps

LEMMA EvaluateInv ==
  ASSUME FibInv, Evaluate PROVE ResultOK' /\ BeginsLastSeries'
<1> DEFINE v == \A p \in Pairs : Valid(dumps[Len(result) + 1], p[1], p[2])
<1>1. /\ running' = running /\ ~running /\ Len(result) < Len(dumps) /\ dumps' = dumps
      /\ result' = Append(result, v) /\ ioc' = ioc
  BY DEF Evaluate, simVars
<1>2. v \in BOOLEAN
  BY Zenon
<1> HIDE DEF v
<1>3. result \in Seq(BOOLEAN) /\ Len(dumps) \in Nat /\ running \in BOOLEAN
  BY DEF FibInv, ResultOK, DumpsOK
<1>4. result' \in Seq(BOOLEAN) /\ Len(result') <= Len(dumps)
  BY <1>1, <1>2, <1>3
<1>5. ioc = 0
  BY <1>1, <1>3 DEF FibInv, ResultOK
<1> QED  BY <1>1, <1>3, <1>4, <1>5 DEF ResultOK, BeginsLastSeries

LEMMA ReportInv ==
  ASSUME FibInv, Report PROVE ResultOK' /\ BeginsLastSeries'
<1>1. /\ ~running /\ Len(result) = Len(dumps) /\ ioc' = InstantOfConvergence
      /\ UNCHANGED <<running, dumps, result>>
  BY DEF Report, simVars
<1>2. result \in Seq(BOOLEAN) /\ dumps \in Seq(Tables) /\ dumps # <<>>
  BY <1>1 DEF FibInv, ResultOK, DumpsOK
<1>3. result # <<>> /\ DOMAIN result = DOMAIN dumps
  BY <1>1, <1>2
<1>4. Last(result) = result[Len(result)]
  BY DEF Last
<1>5. ResultOK'
  BY <1>1, <1>2, <1>3, InstantFound DEF FibInv, ResultOK
<1>6. BeginsLastSeries'
  BY <1>1, <1>2, <1>3, <1>4, InstantFound DEF BeginsLastSeries
<1> QED  BY <1>5, <1>6

LEMMA NextFib == FibInv /\ [Next]_vars => FibInv'
<1> SUFFICES ASSUME FibInv, [Next]_vars PROVE FibInv'  OBVIOUS
<1>0. TablesAndDumps
  BY DEF FibInv, TablesAndDumps
<1>a. ASSUME TablesAndDumps', ResultOK', BeginsLastSeries' PROVE FibInv'
  BY <1>a DEF FibInv, TablesAndDumps
<1>1. CASE Simulate
  <2>1. running /\ SimNext /\ UNCHANGED <<result, ioc>>
    BY <1>1 DEF Simulate, SimNext, FirstDump, Stop, InterfaceDown, StartSpf, FinishSpf,
                FinishSpfAtOnce, Install
  <2>2. TablesAndDumps'
    BY <1>0, <2>1, SimInv
  <2>3. ResultOK' /\ BeginsLastSeries'
    BY <2>1, <2>2, SimKeepsResult DEF FibInv, TablesAndDumps
  <2> QED  BY <1>a, <2>2, <2>3
<1>2. CASE Evaluate
  <2>1. UNCHANGED simVars
    BY <1>2 DEF Evaluate
  <2> QED  BY <1>0, <1>2, <1>a, <2>1, SameSim, EvaluateInv
<1>3. CASE Report
  <2>1. UNCHANGED simVars
    BY <1>3 DEF Report
  <2> QED  BY <1>0, <1>3, <1>a, <2>1, SameSim, ReportInv
<1>4. CASE UNCHANGED vars
  <2>1. UNCHANGED simVars /\ UNCHANGED <<result, ioc>>
    BY <1>4 DEF vars
  <2>2. running' = running /\ dumps' = dumps
    BY <2>1 DEF simVars
  <2>3. ResultOK' /\ BeginsLastSeries'
    BY <2>1, <2>2 DEF FibInv, ResultOK, BeginsLastSeries
  <2> QED  BY <1>0, <1>a, <2>1, <2>3, SameSim
<1> QED  BY <1>1, <1>2, <1>3, <1>4 DEF Next

LEMMA FibInductive == Spec => []FibInv
BY InitFib, NextFib, PTL DEF Spec

-----------------------------------------------------------------------------
(* Numbers, and what is repeated                                           *)

\* A set of natural numbers has a least element.
LEMMA Least ==
  ASSUME NEW T \in SUBSET Nat, T # {}
  PROVE  \E x \in T : \A y \in T : x <= y
<1>1. OpToRel(<, Nat) = Less
  BY DEF OpToRel, Less
<1>2. IsWellFoundedOn(Less, Nat)
  BY <1>1, NatLessThanWellFounded
<1>3. PICK x \in T : \A y \in T : ~(<<y, x>> \in Less)
  BY <1>2, WFMin
<1>4. \A y \in T : ~(y < x)
  BY <1>3 DEF Less
<1> QED  BY <1>4

\* v has the first n values of repeating g.
Repeats(v, S, s, g, n) ==
  v \in [0..n -> S] /\ v[0] = s /\ \A k \in 0..(n - 1) : v[k + 1] = g[v[k]]

LEMMA SomeRepeats ==
  ASSUME NEW S, NEW s \in S, NEW g \in [S -> S], NEW n \in Nat
  PROVE  \E v : Repeats(v, S, s, g, n)
<1> DEFINE T == {k \in Nat : ~\E v : Repeats(v, S, s, g, k)}
<1>1. SUFFICES ASSUME T # {} PROVE FALSE
  OBVIOUS
<1>2. PICK k \in T : \A j \in T : k <= j
  <2>1. T \in SUBSET Nat
    OBVIOUS
  <2> HIDE DEF T
  <2> QED  BY <1>1, <2>1, Least
<1>3. k \in Nat /\ ~\E v : Repeats(v, S, s, g, k)
  OBVIOUS
<1>4. k # 0
  <2>1. Repeats([i \in 0..0 |-> s], S, s, g, 0)
    BY DEF Repeats
  <2> QED  BY <1>3, <2>1
<1>5. PICK v : Repeats(v, S, s, g, k - 1)
  <2>1. k - 1 \in Nat /\ k - 1 < k
    BY <1>3, <1>4
  <2>2. k - 1 \notin T
    BY <1>2, <1>3, <2>1
  <2> QED  BY <2>1, <2>2
<1> HIDE DEF T
<1> DEFINE u == [i \in 0..k |-> IF i = k THEN g[v[k - 1]] ELSE v[i]]
<1>6. v \in [0..(k - 1) -> S] /\ v[0] = s /\ \A i \in 0..(k - 2) : v[i + 1] = g[v[i]]
  <2>1. (k - 1) - 1 = k - 2
    BY <1>3
  <2> QED  BY <1>5, <2>1 DEF Repeats
<1>7. k - 1 \in 0..(k - 1) /\ g[v[k - 1]] \in S
  <2>1. k - 1 \in 0..(k - 1)
    BY <1>3, <1>4
  <2> QED  BY <1>6, <2>1
<1>8. u \in [0..k -> S]
  <2>1. \A i \in 0..k : i # k => i \in 0..(k - 1)
    BY <1>3
  <2> QED  BY <1>6, <1>7, <2>1
<1>9. u[0] = s
  <2>1. 0 \in 0..k
    BY <1>3
  <2> QED  BY <1>4, <1>6, <2>1
<1>10. ASSUME NEW i \in 0..(k - 1) PROVE u[i + 1] = g[u[i]]
  <2>1. i \in 0..k /\ i + 1 \in 0..k /\ i # k
    BY <1>3
  <2>2. CASE i = k - 1
    <3>1. i + 1 = k
      BY <1>3, <2>2
    <3> QED  BY <2>1, <2>2, <3>1
  <2>3. CASE i # k - 1
    <3>1. i \in 0..(k - 2) /\ i + 1 # k
      BY <1>3, <2>3
    <3> QED  BY <1>6, <2>1, <3>1
  <2> QED  BY <2>2, <2>3
<1> HIDE DEF u
<1>11. Repeats(u, S, s, g, k)
  BY <1>8, <1>9, <1>10 DEF Repeats
<1> QED  BY <1>3, <1>11

LEMMA SameRepeats ==
  ASSUME NEW S, NEW s, NEW g, NEW n \in Nat, NEW m \in Nat, NEW u, NEW v,
         Repeats(u, S, s, g, n), Repeats(v, S, s, g, m)
  PROVE  \A k \in Nat : k <= n /\ k <= m => u[k] = v[k]
<1> DEFINE T == {k \in Nat : k <= n /\ k <= m /\ u[k] # v[k]}
<1>1. SUFFICES ASSUME T # {} PROVE FALSE
  OBVIOUS
<1>2. PICK k \in T : \A j \in T : k <= j
  <2>1. T \in SUBSET Nat
    OBVIOUS
  <2> HIDE DEF T
  <2> QED  BY <1>1, <2>1, Least
<1>3. k \in Nat /\ k <= n /\ k <= m /\ u[k] # v[k]
  OBVIOUS
<1>4. k # 0
  BY <1>3 DEF Repeats
<1>5. /\ k - 1 \in Nat /\ k - 1 < k /\ k - 1 <= n /\ k - 1 <= m
      /\ k - 1 \in 0..(n - 1) /\ k - 1 \in 0..(m - 1) /\ (k - 1) + 1 = k
  BY <1>3, <1>4
<1>6. u[k - 1] = v[k - 1]
  <2>1. k - 1 \notin T
    BY <1>2, <1>3, <1>5
  <2> QED  BY <1>5, <2>1
<1> HIDE DEF T
<1>7. u[k] = g[u[k - 1]] /\ v[k] = g[v[k - 1]]
  BY <1>5 DEF Repeats
<1> QED  BY <1>3, <1>6, <1>7

\* w has the values of repeating g for ever.
Orbit(w, S, s, g) ==
  w \in [Nat -> S] /\ w[0] = s /\ \A k \in Nat : w[k + 1] = g[w[k]]

\* A function can be applied again and again.
LEMMA Repeated ==
  ASSUME NEW S, NEW s \in S, NEW g \in [S -> S]
  PROVE  \E w : Orbit(w, S, s, g)
<1> DEFINE V(n) == CHOOSE v : Repeats(v, S, s, g, n)
           w == [n \in Nat |-> V(n)[n]]
<1>1. \A n \in Nat : Repeats(V(n), S, s, g, n)
  BY SomeRepeats
<1> HIDE DEF V
<1>2. w \in [Nat -> S]
  <2>1. \A n \in Nat : V(n)[n] \in S
    <3> SUFFICES ASSUME NEW n \in Nat PROVE V(n)[n] \in S
      OBVIOUS
    <3>1. n \in 0..n
      OBVIOUS
    <3> QED  BY <1>1, <3>1 DEF Repeats
  <2> QED  BY <2>1
<1>3. w[0] = s
  BY <1>1 DEF Repeats
<1>4. ASSUME NEW k \in Nat PROVE w[k + 1] = g[w[k]]
  <2>1. k + 1 \in Nat /\ k <= k + 1 /\ k \in 0..((k + 1) - 1)
    OBVIOUS
  <2>2. V(k + 1)[k + 1] = g[V(k + 1)[k]]
    BY <1>1, <2>1 DEF Repeats
  <2>3. V(k + 1)[k] = V(k)[k]
    BY <1>1, <2>1, SameRepeats
  <2> QED  BY <2>1, <2>2, <2>3
<1> HIDE DEF w
<1>5. Orbit(w, S, s, g)
  BY <1>2, <1>3, <1>4 DEF Orbit
<1> QED  BY <1>5

\* What goes on like an orbit is that orbit.
LEMMA OneOrbit ==
  ASSUME NEW S, NEW s, NEW g, NEW v, Orbit(v, S, s, g), NEW w,
         w[0] = s, \A k \in Nat : w[k] \in S => w[k + 1] = g[w[k]]
  PROVE  \A k \in Nat : w[k] = v[k]
<1> DEFINE T == {k \in Nat : w[k] # v[k]}
<1> SUFFICES ASSUME T # {} PROVE FALSE
  OBVIOUS
<1>1. PICK k \in T : \A j \in T : k <= j
  <2>1. T \in SUBSET Nat
    OBVIOUS
  <2> HIDE DEF T
  <2> QED  BY <2>1, Least
<1>2. k \in Nat /\ w[k] # v[k]
  OBVIOUS
<1>3. k # 0
  BY <1>2 DEF Orbit
<1>4. k - 1 \in Nat /\ k - 1 < k /\ (k - 1) + 1 = k
  BY <1>2, <1>3
<1>5. w[k - 1] = v[k - 1]
  <2>1. k - 1 \notin T
    BY <1>1, <1>2, <1>4
  <2> QED  BY <1>4, <2>1
<1> HIDE DEF T
<1>6. v[k - 1] \in S /\ v[(k - 1) + 1] = g[v[k - 1]]
  BY <1>4 DEF Orbit
<1>7. w[(k - 1) + 1] = g[w[k - 1]]
  BY <1>4, <1>5, <1>6
<1> QED  BY <1>2, <1>4, <1>5, <1>6, <1>7

\* A set of numbers up to N cannot grow for more than N steps.
LEMMA StopsGrowing ==
  ASSUME NEW N \in Nat, NEW w \in [Nat -> SUBSET (1..N)], \A k \in Nat : w[k] \subseteq w[k + 1]
  PROVE  \E k \in 0..N : w[k + 1] = w[k]
<1> SUFFICES ASSUME \A k \in 0..N : w[k + 1] # w[k] PROVE FALSE
  OBVIOUS
<1>1. \A k \in Nat : IsFiniteSet(w[k]) /\ Cardinality(w[k]) \in Nat /\ Cardinality(w[k]) <= N
  <2>1. IsFiniteSet(1..N) /\ Cardinality(1..N) = N
    BY FS_Interval
  <2> SUFFICES ASSUME NEW k \in Nat
               PROVE  IsFiniteSet(w[k]) /\ Cardinality(w[k]) \in Nat /\ Cardinality(w[k]) <= N
    OBVIOUS
  <2>2. w[k] \in SUBSET (1..N)
    OBVIOUS
  <2>3. IsFiniteSet(w[k]) /\ Cardinality(w[k]) <= N
    BY <2>1, <2>2, FS_Subset
  <2> QED  BY <2>3, FS_CardinalityType
<1>2. ASSUME NEW k \in 0..N PROVE Cardinality(w[k]) < Cardinality(w[k + 1])
  <2>1. k \in Nat /\ k + 1 \in Nat /\ w[k] \in SUBSET w[k + 1] /\ w[k + 1] # w[k]
    OBVIOUS
  <2>2. Cardinality(w[k]) <= Cardinality(w[k + 1]) /\ Cardinality(w[k]) # Cardinality(w[k + 1])
    BY <1>1, <2>1, FS_Subset
  <2> QED  BY <1>1, <2>1, <2>2
<1> DEFINE T == {k \in 0..(N + 1) : ~(k <= Cardinality(w[k]))}
<1>3. T = {}
  <2> SUFFICES ASSUME T # {} PROVE FALSE
    OBVIOUS
  <2>1. PICK k \in T : \A j \in T : k <= j
    <3>1. T \in SUBSET Nat
      OBVIOUS
    <3> HIDE DEF T
    <3> QED  BY <3>1, Least
  <2>2. k \in 0..(N + 1) /\ ~(k <= Cardinality(w[k]))
    OBVIOUS
  <2>3. k # 0
    BY <1>1, <2>2
  <2>4. k - 1 \in 0..N /\ k - 1 \in 0..(N + 1) /\ k - 1 < k /\ (k - 1) + 1 = k /\ k - 1 \in Nat /\ k \in Nat
    BY <2>2, <2>3
  <2>5. k - 1 \notin T
    BY <2>1, <2>2, <2>4
  <2>6. k - 1 <= Cardinality(w[k - 1])
    BY <2>4, <2>5
  <2> HIDE DEF T
  <2>7. Cardinality(w[k - 1]) < Cardinality(w[k])
    <3>1. Cardinality(w[k - 1]) < Cardinality(w[(k - 1) + 1])
      BY <1>2, <2>4
    <3> QED  BY <2>4, <3>1
  <2> QED  BY <1>1, <2>2, <2>4, <2>6, <2>7
<1>4. N + 1 \in 0..(N + 1) /\ N + 1 \in Nat
  OBVIOUS
<1>5. N + 1 <= Cardinality(w[N + 1])
  BY <1>3, <1>4
<1> HIDE DEF T
<1> QED  BY <1>1, <1>4, <1>5
\* What grows at every step is never lost.
LEMMA Increasing ==
  ASSUME NEW w, \A k \in Nat : w[k] \subseteq w[k + 1], NEW i \in Nat, NEW j \in Nat, i <= j
  PROVE  w[i] \subseteq w[j]
<1> DEFINE T == {k \in Nat : i <= k /\ ~(w[i] \subseteq w[k])}
<1> SUFFICES ASSUME T # {} PROVE FALSE
  OBVIOUS
<1>1. PICK k \in T : \A l \in T : k <= l
  <2>1. T \in SUBSET Nat
    OBVIOUS
  <2> HIDE DEF T
  <2> QED  BY <2>1, Least
<1>2. k \in Nat /\ i <= k /\ ~(w[i] \subseteq w[k])
  OBVIOUS
<1>3. k # i
  BY <1>2
<1>4. k - 1 \in Nat /\ i <= k - 1 /\ k - 1 < k /\ (k - 1) + 1 = k
  BY <1>2, <1>3
<1>5. w[i] \subseteq w[k - 1]
  <2>1. k - 1 \notin T
    BY <1>1, <1>2, <1>4
  <2> QED  BY <1>4, <2>1
<1> HIDE DEF T
<1>6. w[k - 1] \subseteq w[(k - 1) + 1]
  BY <1>4
<1> QED  BY <1>2, <1>4, <1>5, <1>6

-----------------------------------------------------------------------------
(* What the tables do with packets                                         *)

\* The nodes from which every packet arrives, if it does from those of closer.
Arriving(f, d, closer) ==
  closer \cup {n \in Nodes : Hops(f, n, d) # {} /\ Hops(f, n, d) \subseteq closer}

\* w is the recursion of Delivering.
Spreads(w, f, d) == w = [k \in Nat |-> Arriving(f, d, IF k = 0 THEN {d} ELSE w[k - 1])]

\* The layers of Delivering: each one has what the last one has, and the nodes
\* that send into it only.
Layers(w, f, d) ==
  /\ w \in [Nat -> SUBSET Nodes]
  /\ w[0] = Arriving(f, d, {d})
  /\ \A k \in Nat : w[k + 1] = Arriving(f, d, w[k])
  /\ Delivering(f, d) = w[net.size]

LEMMA DeliveringLayers ==
  ASSUME NEW f, NEW d \in Nodes
  PROVE  \E w : Layers(w, f, d)
<1> DEFINE g == [X \in SUBSET Nodes |-> Arriving(f, d, X)]
           w == CHOOSE u : Spreads(u, f, d)
<1>1. g \in [SUBSET Nodes -> SUBSET Nodes] /\ {d} \in SUBSET Nodes /\ g[{d}] \in SUBSET Nodes
  BY DEF Arriving
<1>2. \A X \in SUBSET Nodes : g[X] = Arriving(f, d, X)
  OBVIOUS
<1> HIDE DEF g
<1>3. PICK v : Orbit(v, SUBSET Nodes, g[{d}], g)
  BY <1>1, Repeated
<1>4. v \in [Nat -> SUBSET Nodes] /\ v[0] = g[{d}] /\ \A k \in Nat : v[k + 1] = g[v[k]]
  BY <1>3 DEF Orbit
<1>5. Spreads(v, f, d)
  <2>1. ASSUME NEW k \in Nat PROVE v[k] = Arriving(f, d, IF k = 0 THEN {d} ELSE v[k - 1])
    <3>1. CASE k = 0
      BY <1>1, <1>2, <1>4, <3>1
    <3>2. CASE k # 0
      <4>1. k - 1 \in Nat /\ (k - 1) + 1 = k
        BY <3>2
      <4>2. v[k] = g[v[k - 1]]
        BY <1>4, <4>1
      <4> QED  BY <1>2, <1>4, <3>2, <4>1, <4>2
    <3> QED  BY <3>1, <3>2
  <2> QED  BY <1>4, <2>1 DEF Spreads
<1>6. Delivering(f, d) = w[net.size]
  BY DEF Delivering, Spreads, Arriving
<1>7. Spreads(w, f, d)
  BY <1>5
<1> HIDE DEF w
<1>8. w[0] = Arriving(f, d, {d}) /\ \A k \in Nat : w[k + 1] = Arriving(f, d, w[k])
  <2>1. \A k \in Nat : k + 1 \in Nat /\ k + 1 # 0 /\ (k + 1) - 1 = k
    OBVIOUS
  <2> QED  BY <1>7, <2>1 DEF Spreads
<1>9. \A k \in Nat : w[k] = v[k]
  BY <1>1, <1>2, <1>3, <1>8, OneOrbit
<1>10. w \in [Nat -> SUBSET Nodes]
  <2>1. w = [k \in Nat |-> w[k]]
    BY <1>7 DEF Spreads
  <2> QED  BY <1>4, <1>9, <2>1
<1> QED  BY <1>6, <1>8, <1>10 DEF Layers

\* r ranks the nodes that deliver: their next hops have a lower rank.
Ranks(r, f, d) ==
  /\ r \in [Delivering(f, d) -> Nat]
  /\ \A n \in Delivering(f, d) : n # d =>
       /\ Hops(f, n, d) # {}
       /\ \A h \in Hops(f, n, d) : h \in Delivering(f, d) /\ r[h] < r[n]

LEMMA DeliveringRanked ==
  ASSUME net \in Networks, NEW f, NEW d \in Nodes
  PROVE  \E r : Ranks(r, f, d)
<1> DEFINE D == Delivering(f, d)
           N == net.size
<1>1. PICK w : Layers(w, f, d)
  BY DeliveringLayers
<1>2. N \in Nat
  BY FibDumpsAssumption
<1>3. D = w[N]
  BY <1>1 DEF Layers
<1> DEFINE First(n) == CHOOSE k \in Nat : n \in w[k] /\ \A j \in Nat : n \in w[j] => k <= j
<1>4. ASSUME NEW k \in Nat, NEW n \in w[k]
      PROVE  First(n) \in Nat /\ n \in w[First(n)] /\ \A j \in Nat : n \in w[j] => First(n) <= j
  <2> DEFINE T == {j \in Nat : n \in w[j]}
  <2>1. T \in SUBSET Nat /\ T # {}
    BY <1>4
  <2>2. PICK j \in T : \A i \in T : j <= i
    <3> HIDE DEF T
    <3> QED  BY <2>1, Least
  <2> QED  BY <2>2
<1> HIDE DEF First
<1> DEFINE r == [n \in D |-> IF n = d THEN 0 ELSE First(n) + 1]
<1>5. \A k \in Nat : \A n \in w[k] : First(n) <= k
  BY <1>4
<1>6. r \in [D -> Nat]
  BY <1>2, <1>3, <1>4
<1>8. \A k \in Nat : w[k] \subseteq w[k + 1]
  BY <1>1 DEF Layers, Arriving
<1>7. ASSUME NEW n \in D, n # d
      PROVE  /\ Hops(f, n, d) # {}
             /\ \A h \in Hops(f, n, d) : h \in D /\ r[h] < r[n]
  <2> DEFINE k == First(n)
  <2>1. k \in Nat /\ n \in w[k] /\ k <= N
    BY <1>2, <1>3, <1>4, <1>5
  <2>2. CASE k = 0
    <3>1. Hops(f, n, d) # {} /\ Hops(f, n, d) \subseteq {d}
      BY <1>1, <1>7, <2>1, <2>2 DEF Layers, Arriving
    <3>2. d \in D
      <4>1. d \in w[0] /\ w[0] \subseteq w[N]
        BY <1>1, <1>2, <1>8, Increasing DEF Layers, Arriving
      <4> QED  BY <1>3, <4>1
    <3>3. r[d] = 0 /\ r[n] = k + 1
      BY <1>7, <3>2
    <3> QED  BY <2>1, <3>1, <3>2, <3>3
  <2>3. CASE k # 0
    <3>1. k - 1 \in Nat /\ k - 1 < k /\ (k - 1) + 1 = k
      BY <2>1, <2>3
    <3>2. n \notin w[k - 1]
      <4>1. n \in w[k - 1] => First(n) <= k - 1
        BY <1>5, <3>1
      <4> QED  BY <2>1, <3>1, <4>1
    <3>3. w[k] = Arriving(f, d, w[k - 1])
      <4>1. w[(k - 1) + 1] = Arriving(f, d, w[k - 1])
        BY <1>1, <3>1 DEF Layers
      <4> QED  BY <3>1, <4>1
    <3>4. Hops(f, n, d) # {} /\ Hops(f, n, d) \subseteq w[k - 1]
      BY <2>1, <3>2, <3>3 DEF Arriving
    <3>7. w[k - 1] \subseteq D
      BY <1>2, <1>3, <1>8, <2>1, <3>1, Increasing
    <3>8. ASSUME NEW h \in Hops(f, n, d) PROVE h \in D /\ r[h] < r[n]
      <4>1. h \in w[k - 1] /\ h \in D
        BY <3>4, <3>7
      <4>2. First(h) \in Nat /\ First(h) <= k - 1
        BY <1>4, <1>5, <3>1, <4>1
      <4>3. r[n] = k + 1 /\ r[h] <= First(h) + 1
        <5>1. r[h] = (IF h = d THEN 0 ELSE First(h) + 1)
          BY <4>1
        <5> QED  BY <1>7, <4>2, <5>1
      <4>4. r[h] \in Nat
        BY <1>6, <4>1
      <4> HIDE DEF r
      <4> QED  BY <2>1, <4>1, <4>2, <4>3, <4>4
    <3> QED  BY <3>4, <3>8
  <2> QED  BY <2>2, <2>3
<1> HIDE DEF r
<1>9. Ranks(r, f, d)
  BY <1>6, <1>7 DEF Ranks
<1> QED  BY <1>9

\* A node that sends only into Delivering belongs to it: there are as many
\* layers as nodes, so that one of them adds nothing.
LEMMA DeliveringClosed ==
  ASSUME net \in Networks, NEW f, NEW d \in Nodes
  PROVE  /\ Delivering(f, d) \subseteq Nodes /\ d \in Delivering(f, d)
         /\ \A n \in Nodes : Hops(f, n, d) # {} /\ Hops(f, n, d) \subseteq Delivering(f, d)
                               => n \in Delivering(f, d)
<1> DEFINE N == net.size
<1>1. PICK w : Layers(w, f, d)
  BY DeliveringLayers
<1>2. N \in Nat /\ Nodes = 1..N
  BY FibDumpsAssumption DEF Nodes
<1>3. /\ w \in [Nat -> SUBSET (1..N)] /\ Delivering(f, d) = w[N] /\ d \in w[0]
      /\ \A k \in Nat : w[k] \subseteq w[k + 1] /\ w[k + 1] = Arriving(f, d, w[k])
  BY <1>1, <1>2 DEF Layers, Arriving
<1> HIDE DEF N
<1>4. PICK k \in 0..N : w[k + 1] = w[k]
  BY <1>2, <1>3, StopsGrowing
<1>5. \A j \in Nat : k <= j => w[j] = w[k]
  <2> DEFINE T == {j \in Nat : k <= j /\ w[j] # w[k]}
  <2> SUFFICES ASSUME T # {} PROVE FALSE
    OBVIOUS
  <2>1. PICK j \in T : \A i \in T : j <= i
    <3>1. T \in SUBSET Nat
      OBVIOUS
    <3> HIDE DEF T
    <3> QED  BY <3>1, Least
  <2>2. j \in Nat /\ k <= j /\ w[j] # w[k]
    OBVIOUS
  <2>3. j # k /\ k \in Nat
    BY <2>2
  <2>4. j - 1 \in Nat /\ k <= j - 1 /\ j - 1 < j /\ (j - 1) + 1 = j
    BY <2>2, <2>3
  <2>5. w[j - 1] = w[k]
    <3>1. j - 1 \notin T
      BY <2>1, <2>2, <2>4
    <3> QED  BY <2>4, <3>1
  <2> HIDE DEF T
  <2>6. w[(j - 1) + 1] = Arriving(f, d, w[j - 1]) /\ w[k + 1] = Arriving(f, d, w[k])
    BY <1>3, <2>3, <2>4
  <2> QED  BY <1>4, <2>2, <2>4, <2>5, <2>6
<1>6. N \in Nat /\ k <= N /\ N + 1 \in Nat /\ k <= N + 1 /\ 0 <= N
  BY <1>2
<1>7. w[N + 1] = w[N]
  BY <1>5, <1>6
<1>8. w[N] = Arriving(f, d, w[N])
  BY <1>3, <1>6, <1>7
<1>9. w[0] \subseteq w[N]
  BY <1>3, <1>6, Increasing
<1> QED  BY <1>2, <1>3, <1>6, <1>8, <1>9 DEF Arriving

-----------------------------------------------------------------------------
(* explore                                                                 *)

\* What loop() collects at n, given what it collects further on.
Collects(f, dst, L, n, seen) ==
  IF n = dst THEN {"path"}
  ELSE IF f[n][dst] = {} THEN {"missing"}
  ELSE UNION { IF r.hop \in seen THEN {"loop"} ELSE L[seen \cup {r.hop}][r.hop] :
               r \in {s \in f[n][dst] : s.alive} }

\* L is the recursion of Outcomes.
Explores(L, f, dst) ==
  L = [seen \in SUBSET Nodes |-> [n \in Nodes |-> Collects(f, dst, L, n, seen)]]

\* How many nodes a search has not seen.
LEMMA LeftAfter ==
  ASSUME net \in Networks, NEW seen \in SUBSET Nodes
  PROVE  /\ Cardinality(Nodes \ seen) \in Nat /\ Cardinality(Nodes \ seen) <= net.size
         /\ \A h \in Nodes \ seen : Cardinality(Nodes \ (seen \cup {h})) = Cardinality(Nodes \ seen) - 1
<1>1. net.size \in Nat
  BY FibDumpsAssumption
<1>2. IsFiniteSet(Nodes) /\ Cardinality(Nodes) = net.size
  <2> DEFINE N == net.size
  <2>1. N \in Nat
    BY <1>1
  <2> HIDE DEF N
  <2>2. 1 \in Int /\ N \in Int
    BY <2>1
  <2>3. IsFiniteSet(1..N) /\ Cardinality(1..N) = IF 1 > N THEN 0 ELSE N - 1 + 1
    BY <2>2, FS_Interval
  <2>4. IsFiniteSet(1..N) /\ Cardinality(1..N) = N
    BY <2>1, <2>3
  <2> QED  BY <2>4 DEF N, Nodes
<1>3. IsFiniteSet(Nodes \ seen) /\ Cardinality(Nodes \ seen) <= net.size
  BY <1>2, FS_Subset
<1>4. ASSUME NEW h \in Nodes \ seen
      PROVE  Cardinality(Nodes \ (seen \cup {h})) = Cardinality(Nodes \ seen) - 1
  <2>1. Nodes \ (seen \cup {h}) = (Nodes \ seen) \ {h}
    OBVIOUS
  <2> QED  BY <1>3, <2>1, FS_RemoveElement
<1> QED  BY <1>3, <1>4, FS_CardinalityType

\* It goes on only to nodes that it has not seen.
LEMMA SomeExplores ==
  ASSUME net \in Networks, NEW f \in Tables, NEW dst \in Nodes
  PROVE  \E L : Explores(L, f, dst)
<1> DEFINE Left(seen) == Cardinality(Nodes \ seen)
           Upto(L, k) == L = [seen \in SUBSET Nodes |-> [n \in Nodes |-> L[seen][n]]] /\
                         \A n \in Nodes : \A seen \in SUBSET Nodes :
                           Left(seen) < k => L[seen][n] = Collects(f, dst, L, n, seen)
           T == {k \in Nat : ~ \E L : Upto(L, k)}
<1>1. net.size \in Nat
  BY FibDumpsAssumption
<1>2. \A seen \in SUBSET Nodes : /\ Left(seen) \in Nat /\ Left(seen) <= net.size
                                 /\ \A h \in Nodes \ seen : Left(seen \cup {h}) = Left(seen) - 1
  BY LeftAfter
<1> HIDE DEF Left
<1>3. ASSUME NEW n \in Nodes, NEW seen \in SUBSET Nodes, NEW r \in f[n][dst], r.hop \notin seen
      PROVE  r.hop \in Nodes /\ seen \cup {r.hop} \in SUBSET Nodes
                 /\ Left(seen \cup {r.hop}) = Left(seen) - 1
  <2>1. r \in [hop : Nodes, alive : BOOLEAN]
    BY DEF Tables
  <2> QED  BY <1>2, <1>3, <2>1
<1>4. T = {}
  <2> SUFFICES ASSUME T # {} PROVE FALSE
    OBVIOUS
  <2>1. PICK k \in T : \A j \in T : k <= j
    <3>1. T \in SUBSET Nat
      OBVIOUS
    <3> HIDE DEF T
    <3> QED  BY <3>1, Least
  <2>2. k \in Nat /\ ~\E L : Upto(L, k)
    OBVIOUS
  <2>3. k # 0
    <3> DEFINE L == [seen \in SUBSET Nodes |-> [n \in Nodes |-> {}]]
    <3>1. L = [seen \in SUBSET Nodes |-> [n \in Nodes |-> L[seen][n]]]
      OBVIOUS
    <3> HIDE DEF L
    <3>2. Upto(L, 0)
      BY <1>2, <3>1
    <3> QED  BY <2>2, <3>2
  <2>4. PICK L : Upto(L, k - 1)
    <3>1. k - 1 \in Nat /\ k - 1 < k
      BY <2>2, <2>3
    <3>2. k - 1 \notin T
      <4> HIDE DEF T
      <4> QED  BY <2>1, <2>2, <3>1
    <3> QED  BY <3>1, <3>2
  <2> HIDE DEF T
  <2> DEFINE M == [seen \in SUBSET Nodes |-> [n \in Nodes |-> Collects(f, dst, L, n, seen)]]
  <2>5. \A n \in Nodes : \A seen \in SUBSET Nodes : M[seen][n] = Collects(f, dst, L, n, seen)
    OBVIOUS
  <2>6. M = [seen \in SUBSET Nodes |-> [n \in Nodes |-> M[seen][n]]]
    OBVIOUS
  <2> HIDE DEF M
  <2>7. ASSUME NEW n \in Nodes, NEW seen \in SUBSET Nodes, Left(seen) < k
        PROVE  M[seen][n] = Collects(f, dst, M, n, seen)
    <3>1. ASSUME NEW r \in f[n][dst], r.hop \notin seen
          PROVE  L[seen \cup {r.hop}][r.hop] = M[seen \cup {r.hop}][r.hop]
      <4>1. r.hop \in Nodes /\ seen \cup {r.hop} \in SUBSET Nodes
                /\ Left(seen \cup {r.hop}) = Left(seen) - 1
        BY <1>3, <3>1
      <4>2. Left(seen \cup {r.hop}) < k - 1
        BY <1>2, <2>2, <2>7, <4>1
      <4> DEFINE h == r.hop
                 s == seen \cup {r.hop}
      <4>3. h \in Nodes /\ s \in SUBSET Nodes /\ Left(s) < k - 1
        BY <4>1, <4>2
      <4> HIDE DEF h, s
      <4>4. L[s][h] = Collects(f, dst, L, h, s)
        BY <2>4, <4>3
      <4>5. M[s][h] = Collects(f, dst, L, h, s)
        BY <2>5, <4>3
      <4> QED  BY <4>4, <4>5 DEF h, s
    <3>2. \A r \in f[n][dst] :
            (IF r.hop \in seen THEN {"loop"} ELSE L[seen \cup {r.hop}][r.hop])
              = (IF r.hop \in seen THEN {"loop"} ELSE M[seen \cup {r.hop}][r.hop])
      BY <3>1, Zenon
    <3>3. Collects(f, dst, L, n, seen) = Collects(f, dst, M, n, seen)
      BY <3>2 DEF Collects
    <3> QED  BY <2>5, <3>3
  <2>8. Upto(M, k)
    BY <2>6, <2>7
  <2> QED  BY <2>2, <2>8
<1>5. PICK L : Upto(L, net.size + 1)
  <2>1. net.size + 1 \in Nat
    BY <1>1
  <2> QED  BY <1>4, <2>1
<1>6. \A seen \in SUBSET Nodes : Left(seen) < net.size + 1
  BY <1>1, <1>2
<1>7. \A n \in Nodes : \A seen \in SUBSET Nodes : L[seen][n] = Collects(f, dst, L, n, seen)
  BY <1>5, <1>6
<1>8. L = [seen \in SUBSET Nodes |-> [n \in Nodes |-> L[seen][n]]]
  BY <1>5
<1>9. L = [seen \in SUBSET Nodes |-> [n \in Nodes |-> Collects(f, dst, L, n, seen)]]
  BY <1>7, <1>8
<1> QED  BY <1>9 DEF Explores

LEMMA ExploredBy ==
  ASSUME net \in Networks, NEW f \in Tables, NEW dst \in Nodes
  PROVE  \E L : /\ \A src \in Nodes : Outcomes(f, src, dst, {src}) = L[{src}][src]
                /\ \A n \in Nodes : \A seen \in SUBSET Nodes : L[seen][n] = Collects(f, dst, L, n, seen)
<1> DEFINE L == CHOOSE M : Explores(M, f, dst)
<1>1. \A src \in Nodes : Outcomes(f, src, dst, {src}) = L[{src}][src]
  BY DEF Outcomes, Explores, Collects
<1>2. Explores(L, f, dst)
  BY SomeExplores
<1> HIDE DEF L
<1>3. \A n \in Nodes : \A seen \in SUBSET Nodes : L[seen][n] = Collects(f, dst, L, n, seen)
  BY <1>2 DEF Explores
<1> QED  BY <1>1, <1>3

\* No path from a node that delivers comes back or ends early.
LEMMA DeliveringValid ==
  ASSUME net \in Networks, NEW f \in Tables, NEW d \in Nodes, NEW src \in Delivering(f, d)
  PROVE  Valid(f, src, d)
<1> DEFINE D == Delivering(f, d)
<1>1. PICK r : Ranks(r, f, d)
  BY DeliveringRanked
<1>2. PICK L : /\ \A n \in Nodes : Outcomes(f, n, d, {n}) = L[{n}][n]
               /\ \A n \in Nodes : \A seen \in SUBSET Nodes : L[seen][n] = Collects(f, d, L, n, seen)
  BY ExploredBy
<1>3. D \subseteq Nodes
  BY DeliveringClosed
<1>4. /\ \A n \in D : r[n] \in Nat
      /\ \A n \in D : n # d => /\ Hops(f, n, d) # {}
                               /\ \A h \in Hops(f, n, d) : h \in D /\ r[h] < r[n]
  BY <1>1 DEF Ranks
<1> HIDE DEF D
<1> DEFINE Bad(k, n, seen) == r[n] = k /\ (\A m \in seen : r[m] >= k) /\ L[seen][n] # {"path"}
           T == {k \in Nat : \E n \in D : \E seen \in SUBSET D : Bad(k, n, seen)}
<1>5. T = {}
  <2> SUFFICES ASSUME T # {} PROVE FALSE
    OBVIOUS
  <2>1. PICK k \in T : \A j \in T : k <= j
    <3>1. T \in SUBSET Nat
      OBVIOUS
    <3> HIDE DEF T
    <3> QED  BY <3>1, Least
  <2>2. k \in Nat
    OBVIOUS
  <2>3. PICK n \in D, seen \in SUBSET D : Bad(k, n, seen)
    OBVIOUS
  <2>4. L[seen][n] = Collects(f, d, L, n, seen)
    BY <1>2, <1>3, <2>3
  <2>5. n # d
    BY <2>3, <2>4 DEF Collects
  <2> DEFINE R == {s \in f[n][d] : s.alive}
  <2>6. Hops(f, n, d) = {s.hop : s \in R} /\ R # {} /\ f[n][d] # {}
    BY <1>4, <2>5 DEF Hops
  <2>7. ASSUME NEW s \in R PROVE s.hop \notin seen /\ L[seen \cup {s.hop}][s.hop] = {"path"}
    <3> DEFINE h == s.hop
    <3>1. h \in D /\ r[h] < r[n]
      BY <1>4, <2>5, <2>6
    <3> HIDE DEF h
    <3>2. r[h] \in Nat /\ r[n] \in Nat /\ r[n] = k /\ \A m \in seen : m \in D /\ r[m] \in Nat /\ r[m] >= k
      BY <1>4, <2>3, <3>1
    <3>3. h \notin seen
      BY <3>1, <3>2
    <3>4. seen \cup {h} \in SUBSET D /\ \A m \in seen \cup {h} : r[m] >= r[h]
      BY <3>1, <3>2
    <3>5. L[seen \cup {h}][h] = {"path"}
      <4>1. r[h] \notin T
        <5> HIDE DEF T
        <5> QED  BY <2>1, <3>1, <3>2
      <4> QED  BY <3>1, <3>2, <3>4, <4>1
    <3> QED  BY <3>3, <3>5 DEF h
  <2> HIDE DEF T, R
  <2> DEFINE O == { IF s.hop \in seen THEN {"loop"} ELSE L[seen \cup {s.hop}][s.hop] : s \in R }
  <2>8. L[seen][n] = UNION O
    BY <2>4, <2>5, <2>6 DEF Collects, R
  <2>9. O = {{"path"}}
    BY <2>6, <2>7
  <2> QED  BY <2>3, <2>8, <2>9
<1>6. src \in D /\ src \in Nodes /\ r[src] \in Nat
  BY <1>3, <1>4 DEF D
<1>7. L[{src}][src] = {"path"}
  <2>1. {src} \in SUBSET D /\ \A m \in {src} : r[m] >= r[src]
    BY <1>6
  <2> QED  BY <1>5, <1>6, <2>1
<1> QED  BY <1>2, <1>6, <1>7 DEF Valid

\* The tables of the kernel: a route has a next hop that is alive.
Sound == {t \in Tables : \A n, d \in Nodes : t[n][d] # {} => Hops(t, n, d) # {}}

\* From a node that does not deliver, a path comes back or ends early.
LEMMA StrayingInvalid ==
  ASSUME net \in Networks, NEW f \in Sound, NEW d \in Nodes, NEW src \in Nodes \ Delivering(f, d)
  PROVE  ~Valid(f, src, d)
<1> DEFINE D == Delivering(f, d)
           Left(seen) == Cardinality(Nodes \ seen)
<1>1. f \in Tables
  BY DEF Sound
<1>2. PICK L : /\ \A n \in Nodes : Outcomes(f, n, d, {n}) = L[{n}][n]
               /\ \A n \in Nodes : \A seen \in SUBSET Nodes : L[seen][n] = Collects(f, d, L, n, seen)
  BY <1>1, ExploredBy
<1>3. /\ D \subseteq Nodes /\ d \in D
      /\ \A n \in Nodes : Hops(f, n, d) # {} /\ Hops(f, n, d) \subseteq D => n \in D
  BY DeliveringClosed
<1>4. \A n \in Nodes : Hops(f, n, d) \subseteq Nodes /\ (f[n][d] # {} => Hops(f, n, d) # {})
  <2>1. \A n \in Nodes : \A s \in f[n][d] : s.hop \in Nodes
    BY <1>1 DEF Tables
  <2> QED  BY <2>1 DEF Hops, Sound
<1>5. \A seen \in SUBSET Nodes : /\ Left(seen) \in Nat
                                 /\ \A h \in Nodes \ seen : Left(seen \cup {h}) = Left(seen) - 1
  BY LeftAfter
<1> HIDE DEF D, Left
<1> DEFINE Bad(k, n, seen) == Left(seen) = k /\ \A o \in L[seen][n] : o = "path"
           T == {k \in Nat : \E n \in Nodes \ D : \E seen \in SUBSET Nodes : Bad(k, n, seen)}
<1>6. T = {}
  <2> SUFFICES ASSUME T # {} PROVE FALSE
    OBVIOUS
  <2>1. PICK k \in T : \A j \in T : k <= j
    <3>1. T \in SUBSET Nat
      OBVIOUS
    <3> HIDE DEF T
    <3> QED  BY <3>1, Least
  <2>2. k \in Nat
    OBVIOUS
  <2>3. PICK n \in Nodes \ D, seen \in SUBSET Nodes : Bad(k, n, seen)
    OBVIOUS
  <2>4. L[seen][n] = Collects(f, d, L, n, seen)
    BY <1>2, <2>3
  <2>5. n # d
    BY <1>3, <2>3
  <2>6. f[n][d] # {}
    BY <2>3, <2>4, <2>5 DEF Collects
  <2>7. PICK h \in Hops(f, n, d) : h \notin D /\ h \in Nodes
    BY <1>3, <1>4, <2>3, <2>6
  <2>8. PICK s \in f[n][d] : s.alive /\ s.hop = h
    BY <2>7 DEF Hops
  <2>9. (IF h \in seen THEN {"loop"} ELSE L[seen \cup {h}][h]) \subseteq L[seen][n]
    BY <2>4, <2>5, <2>6, <2>8 DEF Collects
  <2>10. h \notin seen
    BY <2>3, <2>9
  <2>11. seen \cup {h} \in SUBSET Nodes /\ Left(seen \cup {h}) = k - 1 /\ k - 1 \in Nat /\ k - 1 < k
    <3>1. h \in Nodes \ seen /\ Left(seen) = k
      BY <2>3, <2>7, <2>10
    <3> DEFINE s1 == seen \cup {h}
    <3>2. s1 \in SUBSET Nodes /\ Left(s1) = Left(seen) - 1
      BY <1>5, <2>3, <3>1
    <3> HIDE DEF s1
    <3>3. Left(s1) \in Nat
      BY <1>5, <3>2
    <3>4. Left(s1) = k - 1 /\ k - 1 \in Nat /\ k - 1 < k
      BY <2>2, <3>1, <3>2, <3>3
    <3> QED  BY <3>2, <3>4 DEF s1
  <2>12. k - 1 \notin T
    <3> HIDE DEF T
    <3> QED  BY <2>1, <2>2, <2>11
  <2>13. \E o \in L[seen \cup {h}][h] : o # "path"
    <3> DEFINE s1 == seen \cup {h}
    <3>1. h \in Nodes \ D /\ s1 \in SUBSET Nodes /\ Left(s1) = k - 1 /\ k - 1 \in Nat
      BY <2>7, <2>11
    <3> HIDE DEF s1
    <3>2. ~Bad(k - 1, h, s1)
      BY <2>12, <3>1
    <3>3. \E o \in L[s1][h] : o # "path"
      BY <3>1, <3>2
    <3> QED  BY <3>3 DEF s1
  <2> HIDE DEF T
  <2> QED  BY <2>3, <2>9, <2>10, <2>13
<1>7. \E o \in L[{src}][src] : o # "path"
  <2>1. {src} \in SUBSET Nodes /\ src \in Nodes \ D /\ Left({src}) \in Nat
    BY <1>5 DEF D
  <2> QED  BY <1>6, <2>1
<1> QED  BY <1>2, <1>7 DEF Valid

\* Exploring every path of every pair says whether the tables deliver.
LEMMA ExplorationExact ==
  ASSUME net \in Networks, NEW f \in Sound
  PROVE  (\A p \in Pairs : Valid(f, p[1], p[2])) <=> Delivers(f)
<1>1. f \in Tables
  BY DEF Sound
<1>2. ASSUME Delivers(f), NEW p \in Pairs PROVE Valid(f, p[1], p[2])
  <2>1. p[1] \in Nodes /\ p[2] \in Nodes
    BY DEF Pairs
  <2>2. p[1] \in Delivering(f, p[2])
    BY <1>2, <2>1 DEF Delivers
  <2> QED  BY <1>1, <2>1, <2>2, DeliveringValid
<1>3. ASSUME \A p \in Pairs : Valid(f, p[1], p[2]), NEW d \in Nodes, NEW n \in Nodes
      PROVE  n \in Delivering(f, d)
  <2>1. n # d => <<n, d>> \in Pairs
    BY DEF Pairs
  <2>2. n # d => Valid(f, n, d)
    <3> SUFFICES ASSUME n # d PROVE Valid(f, n, d)
      OBVIOUS
    <3> DEFINE p == <<n, d>>
    <3>1. p \in Pairs /\ p[1] = n /\ p[2] = d
      BY <2>1
    <3> HIDE DEF p
    <3> QED  BY <1>3, <3>1
  <2>3. d \in Delivering(f, d)
    BY DeliveringClosed
  <2> QED  BY <2>2, <2>3, StrayingInvalid
<1>4. \A d \in Nodes : Delivering(f, d) \subseteq Nodes
  BY DeliveringClosed
<1> QED  BY <1>2, <1>3, <1>4 DEF Delivers

-----------------------------------------------------------------------------
(* What the parser finds                                                   *)

\* What it has found is what the tables do; and as long as no instant has two
\* dumps, a dump after the last disruption delivers.
ExploreInv ==
  /\ dumps \in Seq(Sound)
  /\ \A i \in DOMAIN result : result[i] <=> Delivers(dumps[i])
  /\ broken \in 0..Len(dumps)
  /\ tied = 0 => \A i \in DOMAIN dumps : i > broken => Delivers(dumps[i])

FoundInv == FibInv /\ ExploreInv

LEMMA SameDelivers ==
  ASSUME UNCHANGED net
  PROVE  Sound' = Sound /\ \A f : Delivers(f)' = Delivers(f)
<1>1. Nodes' = Nodes
  BY SameNet
<1>2. \A f, d : Delivering(f, d)' = Delivering(f, d)
  BY DEF Delivering, Nodes
<1> QED  BY <1>1, <1>2, SameNet DEF Delivers, Sound

\* The tables as they are.
LEMMA FibSound == TablesOK => fib \in Sound
BY DEF TablesOK, Sound

LEMMA MixedSound ==
  ASSUME NEW f \in Sound, NEW g \in Sound, NEW older \in SUBSET Nodes
  PROVE  [m \in Nodes |-> IF m \in older THEN f[m] ELSE g[m]] \in Sound
<1> DEFINE t == [m \in Nodes |-> IF m \in older THEN f[m] ELSE g[m]]
<1>1. t \in Tables
  BY DEF Sound, Tables
<1>2. \A n \in Nodes : t[n] = f[n] \/ t[n] = g[n]
  OBVIOUS
<1> HIDE DEF t
<1>3. ASSUME NEW n \in Nodes, NEW d \in Nodes, t[n][d] # {} PROVE Hops(t, n, d) # {}
  <2>1. CASE t[n] = f[n]
    <3>1. Hops(t, n, d) = Hops(f, n, d)
      BY <2>1 DEF Hops
    <3> QED  BY <1>3, <2>1, <3>1 DEF Sound
  <2>2. CASE t[n] = g[n]
    <3>1. Hops(t, n, d) = Hops(g, n, d)
      BY <2>2 DEF Hops
    <3> QED  BY <1>3, <2>2, <3>1 DEF Sound
  <2> QED  BY <1>2, <2>1, <2>2
<1>4. t \in Sound
  BY <1>1, <1>3 DEF Sound
<1> QED  BY <1>4 DEF t

\* A step that takes no dump.
LEMMA NoDump ==
  ASSUME ExploreInv, result = <<>>, UNCHANGED <<net, dumps, tied, result>>,
         broken' = IF Delivers(fib') THEN broken ELSE Len(dumps')
  PROVE  ExploreInv'
<1>1. dumps \in Seq(Sound') /\ \A f : Delivers(f)' = Delivers(f)
  BY SameDelivers DEF ExploreInv
<1>2. broken' = broken \/ broken' = Len(dumps)
  OBVIOUS
<1>3. Len(dumps) \in Nat
  BY <1>1
<1>4. broken' \in 0..Len(dumps)
  BY <1>2, <1>3 DEF ExploreInv
<1>5. tied = 0 => \A i \in DOMAIN dumps : i > broken' => Delivers(dumps[i])
  BY <1>1, <1>2, <1>3 DEF ExploreInv
<1>6. \A i \in DOMAIN dumps : Delivers(dumps[i])' = Delivers(dumps[i])
  <2>1. \A f : Delivers(f)' = Delivers(f)
    BY <1>1
  <2> QED  BY <2>1, SameDelivers DEF Delivers, Delivering, Nodes
<1> QED  BY <1>1, <1>4, <1>5, <1>6 DEF ExploreInv

\* A step that appends a dump.
LEMMA OneDump ==
  ASSUME ExploreInv, TablesOK, result = <<>>, UNCHANGED <<net, fib, tied, result>>,
         dumps' = Append(dumps, fib),
         broken' = IF Delivers(fib') THEN broken ELSE Len(dumps')
  PROVE  ExploreInv'
<1>1. dumps \in Seq(Sound) /\ fib \in Sound
  BY FibSound DEF ExploreInv
<1>2. /\ dumps' \in Seq(Sound) /\ Len(dumps') = Len(dumps) + 1 /\ Len(dumps) \in Nat
      /\ DOMAIN dumps' = 1..Len(dumps) + 1 /\ dumps'[Len(dumps) + 1] = fib
      /\ \A i \in DOMAIN dumps : dumps'[i] = dumps[i]
  BY <1>1
<1>3. broken' \in 0..Len(dumps')
  BY <1>2 DEF ExploreInv
<1>4. ASSUME tied = 0, NEW i \in DOMAIN dumps', i > broken' PROVE Delivers(dumps'[i])
  <2>1. Delivers(fib') /\ broken' = broken
    BY <1>2, <1>4
  <2>2. CASE i = Len(dumps) + 1
    BY <1>2, <2>1, <2>2
  <2>3. CASE i # Len(dumps) + 1
    <3>1. i \in DOMAIN dumps
      BY <1>1, <1>2, <2>3
    <3> QED  BY <1>2, <1>4, <2>1, <3>1 DEF ExploreInv
  <2> QED  BY <2>2, <2>3
<1>5. ASSUME NEW i \in DOMAIN dumps' PROVE Delivers(dumps'[i]) => Delivers(dumps[i])'
  <2>1. net' = net /\ Nodes' = Nodes
    BY DEF Nodes
  <2>2. \A d : Delivering(dumps'[i], d) = Delivering(dumps[i], d)'
    BY <2>1 DEF Delivering
  <2> QED  BY <2>1, <2>2 DEF Delivers
<1>6. dumps' \in Seq(Sound')
  BY <1>2, SameDelivers
<1>7. tied' = 0 => \A i \in DOMAIN dumps' : i > broken' => Delivers(dumps[i])'
  BY <1>4, <1>5
<1>8. result' = <<>>
  OBVIOUS
<1> QED  BY <1>3, <1>6, <1>7, <1>8 DEF ExploreInv

\* A step that mixes a second dump into the last one.
LEMMA TiedDump ==
  ASSUME ExploreInv, TablesOK, result = <<>>, UNCHANGED <<net, fib, result>>,
         Len(dumps) > 1, tied' = Len(dumps), NEW older \in SUBSET Nodes,
         dumps' = Append(Front(dumps), [m \in Nodes |-> IF m \in older THEN Last(dumps)[m] ELSE fib[m]]),
         broken' = IF Delivers(fib') THEN broken ELSE Len(dumps')
  PROVE  ExploreInv'
<1> DEFINE t == [m \in Nodes |-> IF m \in older THEN Last(dumps)[m] ELSE fib[m]]
<1>1. dumps \in Seq(Sound) /\ fib \in Sound
  BY FibSound DEF ExploreInv
<1>2. Last(dumps) \in Sound /\ Front(dumps) \in Seq(Sound) /\ Len(Front(dumps)) = Len(dumps) - 1
  BY <1>1 DEF Last, Front
<1>3. t \in Sound
  BY <1>1, <1>2, MixedSound
<1> HIDE DEF t
<1>4. dumps' = Append(Front(dumps), t)
  BY DEF t
<1>5. dumps' \in Seq(Sound) /\ Len(dumps') = Len(dumps) /\ Len(dumps) \in Nat
  BY <1>1, <1>2, <1>3, <1>4
<1>6. broken' \in 0..Len(dumps')
  BY <1>5 DEF ExploreInv
<1>7. tied' # 0
  BY <1>5
<1> QED  BY <1>5, <1>6, <1>7, SameDelivers DEF ExploreInv

LEMMA InitFound == Init => FoundInv
<1> SUFFICES ASSUME Init PROVE FoundInv  OBVIOUS
<1>1. FibInv
  BY InitFib
<1>2. dumps = <<>> /\ result = <<>> /\ broken = 0
  BY DEF Init, SimInit
<1>3. ExploreInv
  BY <1>2 DEF ExploreInv
<1> QED  BY <1>1, <1>3 DEF FoundInv

LEMMA SimulateFound ==
  ASSUME FoundInv, Simulate PROVE ExploreInv'
<1>1. /\ running /\ result = <<>> /\ result' = result /\ net' = net
      /\ broken' = IF Delivers(fib') THEN broken ELSE Len(dumps')
      /\ ExploreInv /\ TablesOK
  BY DEF Simulate, FoundInv, FibInv, ResultOK, SimNext, FirstDump, Stop, InterfaceDown, StartSpf,
         FinishSpf, FinishSpfAtOnce, Install
<1>2. CASE FirstDump
  <2>1. dumps' = Append(dumps, fib) /\ UNCHANGED <<fib, tied>>
    BY <1>2 DEF FirstDump
  <2> QED  BY <1>1, <2>1, OneDump
<1>3. CASE Stop
  BY <1>1, <1>3, NoDump DEF Stop
<1>4. CASE \E n \in Nodes : InterfaceDown(n)
  BY <1>1, <1>4, NoDump DEF InterfaceDown
<1>5. CASE \E n \in Nodes : StartSpf(n)
  BY <1>1, <1>5, NoDump DEF StartSpf
<1>6. CASE \E n \in Nodes : FinishSpf(n)
  BY <1>1, <1>6, OneDump DEF FinishSpf
<1>7. ASSUME NEW n \in Nodes, FinishSpfAtOnce(n) PROVE ExploreInv'
  <2>1. PICK older \in SUBSET Nodes :
          dumps' = Append(Front(dumps), [m \in Nodes |-> IF m \in older THEN Last(dumps)[m] ELSE fib[m]])
    BY <1>7 DEF FinishSpfAtOnce
  <2>2. Len(dumps) > 1 /\ tied' = Len(dumps) /\ fib' = fib
    BY <1>7 DEF FinishSpfAtOnce
  <2> QED  BY <1>1, <2>1, <2>2, TiedDump
<1>8. CASE \E n, d \in Nodes : Install(n, d)
  BY <1>1, <1>8, NoDump DEF Install
<1>9. SimNext
  BY DEF Simulate
<1> QED  BY <1>2, <1>3, <1>4, <1>5, <1>6, <1>7, <1>8, <1>9 DEF SimNext

LEMMA EvaluateFound ==
  ASSUME FoundInv, Evaluate PROVE ExploreInv'
<1> DEFINE f == dumps[Len(result) + 1]
           v == \A p \in Pairs : Valid(f, p[1], p[2])
<1>1. /\ UNCHANGED <<net, dumps, tied, broken>>
      /\ result' = Append(result, v) /\ Len(result) < Len(dumps)
  BY DEF Evaluate, simVars
<1>2. /\ dumps \in Seq(Sound) /\ net \in Networks /\ result \in Seq(BOOLEAN)
  BY DEF FoundInv, FibInv, ExploreInv, NodesOK, ResultOK
<1>3. f \in Sound
  BY <1>1, <1>2
<1> HIDE DEF f
<1>4. v <=> Delivers(f)
  BY <1>2, <1>3, ExplorationExact
<1> HIDE DEF v
<1>5. ASSUME NEW i \in DOMAIN result' PROVE result'[i] <=> Delivers(dumps[i])
  <2>1. CASE i = Len(result) + 1
    BY <1>1, <1>2, <1>4, <2>1 DEF f
  <2>2. CASE i # Len(result) + 1
    <3>1. i \in DOMAIN result /\ result'[i] = result[i]
      BY <1>1, <1>2, <2>2
    <3> QED  BY <3>1 DEF FoundInv, ExploreInv
  <2> QED  BY <2>1, <2>2
<1>6. \A i : Delivers(dumps[i])' = Delivers(dumps[i])
  BY <1>1 DEF Delivers, Delivering, Nodes
<1> QED  BY <1>1, <1>2, <1>5, <1>6, SameDelivers DEF FoundInv, ExploreInv

LEMMA SameFound ==
  ASSUME ExploreInv, UNCHANGED <<simVars, result, broken>> PROVE ExploreInv'
<1>1. UNCHANGED <<net, dumps, tied, result, broken>>
  BY DEF simVars
<1>2. \A i : Delivers(dumps[i])' = Delivers(dumps[i])
  BY <1>1 DEF Delivers, Delivering, Nodes
<1> QED  BY <1>1, <1>2, SameDelivers DEF ExploreInv

LEMMA NextFound == FoundInv /\ [Next]_vars => FoundInv'
<1> SUFFICES ASSUME FoundInv, [Next]_vars PROVE FoundInv'  OBVIOUS
<1>1. FibInv' /\ ExploreInv
  BY NextFib DEF FoundInv
<1>2. CASE Simulate
  BY <1>1, <1>2, SimulateFound DEF FoundInv
<1>3. CASE Evaluate
  BY <1>1, <1>3, EvaluateFound DEF FoundInv
<1>4. CASE Report
  BY <1>1, <1>4, SameFound DEF FoundInv, Report
<1>5. CASE UNCHANGED vars
  BY <1>1, <1>5, SameFound DEF FoundInv, vars
<1> QED  BY <1>2, <1>3, <1>4, <1>5 DEF Next

LEMMA FoundInductive == Spec => []FoundInv
BY InitFound, NextFound, PTL DEF Spec

-----------------------------------------------------------------------------
(* Distances                                                               *)

\* Metrics of links between nodes.
Metrics(c) ==
  /\ DOMAIN c \subseteq Nodes \X Nodes
  /\ \A e \in DOMAIN c : c[e] \in Nat \ {0}

\* Distances, -1 where no path is known, and which of two is at least as good.
Known == [Nodes -> {-1} \cup Nat]
AsGood(a, b) == b = -1 \/ (a # -1 /\ a <= b)
NoneKnown == [n \in Nodes |-> -1]

\* The distances of n by way of its neighbours, and those of the next round.
Via(c, dist, n) ==
  { c[<<n, m>>] + dist[m] : m \in {m \in Nodes : <<n, m>> \in DOMAIN c /\ dist[m] # -1} }

Relaxed(c, d, dist) ==
  [n \in Nodes |-> IF n = d THEN 0 ELSE IF Via(c, dist, n) = {} THEN -1 ELSE Min(Via(c, dist, n))]

LEMMA LeastOf ==
  ASSUME NEW T \in SUBSET Nat, T # {}
  PROVE  Min(T) \in T /\ \A y \in T : Min(T) <= y
BY Least DEF Min

LEMMA ViaNumbers ==
  ASSUME NEW c, Metrics(c), NEW dist \in Known, NEW n \in Nodes
  PROVE  /\ Via(c, dist, n) \in SUBSET (Nat \ {0})
         /\ \A v \in Via(c, dist, n) : \E m \in Nodes :
              /\ <<n, m>> \in DOMAIN c /\ dist[m] # -1 /\ dist[m] \in Nat
              /\ v = c[<<n, m>>] + dist[m] /\ dist[m] < v
         /\ \A m \in Nodes : <<n, m>> \in DOMAIN c /\ dist[m] # -1 =>
              c[<<n, m>>] + dist[m] \in Via(c, dist, n)
<1>1. ASSUME NEW m \in Nodes, <<n, m>> \in DOMAIN c, dist[m] # -1
      PROVE  /\ dist[m] \in Nat /\ c[<<n, m>>] + dist[m] \in Nat \ {0}
             /\ dist[m] < c[<<n, m>>] + dist[m]
  <2>1. dist[m] \in Nat /\ c[<<n, m>>] \in Nat /\ c[<<n, m>>] # 0
    BY <1>1 DEF Known, Metrics
  <2> DEFINE x == c[<<n, m>>]
             y == dist[m]
  <2>2. x \in Nat /\ y \in Nat /\ x # 0
    BY <2>1
  <2> HIDE DEF x, y
  <2>3. y \in Nat /\ x + y \in Nat \ {0} /\ y < x + y
    BY <2>2
  <2> QED  BY <2>3 DEF x, y
<1> QED  BY <1>1 DEF Via

\* What a round makes of the distances of n.
LEMMA RelaxedOf ==
  ASSUME NEW c, Metrics(c), NEW d \in Nodes, NEW dist \in Known, NEW n \in Nodes
  PROVE  /\ n = d => Relaxed(c, d, dist)[n] = 0
         /\ n # d /\ Via(c, dist, n) = {} => Relaxed(c, d, dist)[n] = -1
         /\ n # d /\ Via(c, dist, n) # {} =>
              /\ Relaxed(c, d, dist)[n] \in Via(c, dist, n) /\ Relaxed(c, d, dist)[n] \in Nat \ {0}
              /\ \A v \in Via(c, dist, n) : Relaxed(c, d, dist)[n] <= v
<1>1. Via(c, dist, n) \in SUBSET (Nat \ {0})
  BY ViaNumbers
<1> QED  BY <1>1, LeastOf DEF Relaxed

LEMMA RelaxedKnown ==
  ASSUME NEW c, Metrics(c), NEW d \in Nodes, NEW dist \in Known
  PROVE  Relaxed(c, d, dist) \in Known
<1>1. \A n \in Nodes : Relaxed(c, d, dist)[n] \in {-1} \cup Nat
  BY RelaxedOf
<1>2. Relaxed(c, d, dist) = [n \in Nodes |-> Relaxed(c, d, dist)[n]]
  BY DEF Relaxed
<1> QED  BY <1>1, <1>2 DEF Known

LEMMA RelaxedMonotone ==
  ASSUME NEW c, Metrics(c), NEW d \in Nodes, NEW a \in Known, NEW b \in Known,
         \A n \in Nodes : AsGood(a[n], b[n])
  PROVE  \A n \in Nodes : AsGood(Relaxed(c, d, a)[n], Relaxed(c, d, b)[n])
<1> SUFFICES ASSUME NEW n \in Nodes PROVE AsGood(Relaxed(c, d, a)[n], Relaxed(c, d, b)[n])
  OBVIOUS
<1>1. CASE n = d
  BY <1>1, RelaxedOf DEF AsGood
<1>2. CASE n # d /\ Via(c, b, n) = {}
  <2>1. Relaxed(c, d, b)[n] = -1
    BY <1>2, RelaxedOf
  <2> QED  BY <2>1 DEF AsGood
<1>3. CASE n # d /\ Via(c, b, n) # {}
  <2> DEFINE v == Relaxed(c, d, b)[n]
             u == Relaxed(c, d, a)[n]
  <2>1. v \in Via(c, b, n)
    BY <1>3, RelaxedOf
  <2> HIDE DEF v
  <2>2. PICK m \in Nodes : /\ <<n, m>> \in DOMAIN c /\ b[m] # -1 /\ b[m] \in Nat
                           /\ v = c[<<n, m>>] + b[m]
    BY <2>1, ViaNumbers
  <2>3. a[m] # -1 /\ a[m] <= b[m] /\ a[m] \in Nat
    <3>1. AsGood(a[m], b[m]) /\ a[m] \in {-1} \cup Nat
      BY DEF Known
    <3> QED  BY <2>2, <3>1 DEF AsGood
  <2>4. c[<<n, m>>] + a[m] \in Via(c, a, n)
    BY <2>2, <2>3, ViaNumbers
  <2>5. u \in Nat \ {0} /\ u <= c[<<n, m>>] + a[m]
    BY <1>3, <2>4, RelaxedOf
  <2>6. c[<<n, m>>] \in Nat
    BY <2>2 DEF Metrics
  <2> HIDE DEF u
  <2>7. AsGood(u, v)
    BY <2>2, <2>3, <2>5, <2>6 DEF AsGood
  <2> QED  BY <2>7 DEF u, v
<1> QED  BY <1>1, <1>2, <1>3

\* w is the recursion of Distances.
Measures(w, c, d) == w = [k \in Nat |-> Relaxed(c, d, IF k = 0 THEN NoneKnown ELSE w[k - 1])]

\* The rounds of Distances.
Rounds(w, c, d) ==
  /\ w \in [Nat -> Known]
  /\ w[0] = Relaxed(c, d, NoneKnown)
  /\ \A k \in Nat : w[k + 1] = Relaxed(c, d, w[k])
  /\ Distances(c, d) = w[net.size]

LEMMA DistanceRounds ==
  ASSUME NEW c, Metrics(c), NEW d \in Nodes
  PROVE  \E w : Rounds(w, c, d)
<1> DEFINE g == [x \in Known |-> Relaxed(c, d, x)]
           w == CHOOSE u : Measures(u, c, d)
<1>1. NoneKnown \in Known
  BY DEF NoneKnown, Known
<1>2. g \in [Known -> Known] /\ g[NoneKnown] \in Known
  BY <1>1, RelaxedKnown
<1>3. \A x \in Known : g[x] = Relaxed(c, d, x)
  OBVIOUS
<1> HIDE DEF g
<1>4. PICK v : Orbit(v, Known, g[NoneKnown], g)
  BY <1>2, Repeated
<1>5. \E u : Measures(u, c, d)
  <2>1. v \in [Nat -> Known] /\ v[0] = g[NoneKnown] /\ \A k \in Nat : v[k + 1] = g[v[k]]
    BY <1>4 DEF Orbit
  <2>2. ASSUME NEW k \in Nat PROVE v[k] = Relaxed(c, d, IF k = 0 THEN NoneKnown ELSE v[k - 1])
    <3>1. CASE k = 0
      BY <1>1, <1>3, <2>1, <3>1
    <3>2. CASE k # 0
      <4>1. k - 1 \in Nat /\ (k - 1) + 1 = k
        BY <3>2
      <4>2. v[k] = g[v[k - 1]]
        BY <2>1, <4>1
      <4> QED  BY <1>3, <2>1, <3>2, <4>1, <4>2
    <3> QED  BY <3>1, <3>2
  <2>3. Measures(v, c, d)
    BY <2>1, <2>2 DEF Measures
  <2> QED  BY <2>3
<1>6. Distances(c, d) = w[net.size]
  BY DEF Distances, Measures, Relaxed, Via, NoneKnown
<1>7. Measures(w, c, d)
  BY <1>5
<1> HIDE DEF w
<1>8. w[0] = Relaxed(c, d, NoneKnown) /\ \A k \in Nat : w[k + 1] = Relaxed(c, d, w[k])
  <2>1. \A k \in Nat : k + 1 \in Nat /\ k + 1 # 0 /\ (k + 1) - 1 = k
    OBVIOUS
  <2> QED  BY <1>7, <2>1 DEF Measures
<1>9. \A k \in Nat : w[k] = v[k]
  BY <1>1, <1>3, <1>4, <1>8, OneOrbit
<1>10. w \in [Nat -> Known]
  <2>1. w = [k \in Nat |-> w[k]]
    BY <1>7 DEF Measures
  <2> QED  BY <1>4, <1>9, <2>1 DEF Orbit
<1> QED  BY <1>6, <1>8, <1>10 DEF Rounds

\* A round is at least as good as the rounds before it.
LEMMA RoundsImprove ==
  ASSUME NEW c, Metrics(c), NEW d \in Nodes, NEW w, Rounds(w, c, d),
         NEW i \in Nat, NEW j \in Nat, i <= j
  PROVE  \A n \in Nodes : AsGood(w[j][n], w[i][n])
<1>1. /\ w \in [Nat -> Known] /\ w[0] = Relaxed(c, d, NoneKnown)
      /\ \A k \in Nat : w[k] \in Known /\ w[k + 1] = Relaxed(c, d, w[k])
  BY DEF Rounds
<1>2. \A k \in Nat : \A n \in Nodes : AsGood(w[k + 1][n], w[k][n])
  <2> DEFINE T == {k \in Nat : ~ \A n \in Nodes : AsGood(w[k + 1][n], w[k][n])}
  <2> SUFFICES ASSUME T # {} PROVE FALSE
    OBVIOUS
  <2>1. PICK k \in T : \A l \in T : k <= l
    <3>1. T \in SUBSET Nat
      OBVIOUS
    <3> HIDE DEF T
    <3> QED  BY <3>1, Least
  <2>2. k \in Nat /\ ~ \A n \in Nodes : AsGood(w[k + 1][n], w[k][n])
    OBVIOUS
  <2>3. CASE k = 0
    <3>1. NoneKnown \in Known /\ \A n \in Nodes : AsGood(w[0][n], NoneKnown[n])
      BY DEF NoneKnown, Known, AsGood
    <3>2. w[k] \in Known /\ w[k] = Relaxed(c, d, NoneKnown) /\ w[k + 1] = Relaxed(c, d, w[k])
      BY <1>1, <2>2, <2>3
    <3>3. \A n \in Nodes : AsGood(Relaxed(c, d, w[k])[n], Relaxed(c, d, NoneKnown)[n])
      BY <2>3, <3>1, <3>2, RelaxedMonotone
    <3> QED  BY <2>2, <3>2, <3>3
  <2>4. CASE k # 0
    <3>1. k - 1 \in Nat /\ k - 1 < k /\ (k - 1) + 1 = k
      BY <2>2, <2>4
    <3>2. \A n \in Nodes : AsGood(w[(k - 1) + 1][n], w[k - 1][n])
      <4>1. k - 1 \notin T
        <5> HIDE DEF T
        <5> QED  BY <2>1, <2>2, <3>1
      <4> QED  BY <3>1, <4>1
    <3> HIDE DEF T
    <3>3. w[k] = Relaxed(c, d, w[k - 1]) /\ w[k + 1] = Relaxed(c, d, w[k])
      <4>1. w[(k - 1) + 1] = Relaxed(c, d, w[k - 1])
        BY <1>1, <3>1
      <4> QED  BY <1>1, <2>2, <3>1, <4>1
    <3>4. w[k] \in Known /\ w[k - 1] \in Known /\ \A n \in Nodes : AsGood(w[k][n], w[k - 1][n])
      BY <1>1, <2>2, <3>1, <3>2
    <3> QED  BY <2>2, <3>3, <3>4, RelaxedMonotone
  <2> QED  BY <2>3, <2>4
<1> DEFINE U == {k \in Nat : i <= k /\ ~ \A n \in Nodes : AsGood(w[k][n], w[i][n])}
<1> SUFFICES ASSUME U # {} PROVE FALSE
  OBVIOUS
<1>3. PICK k \in U : \A l \in U : k <= l
  <2>1. U \in SUBSET Nat
    OBVIOUS
  <2> HIDE DEF U
  <2> QED  BY <2>1, Least
<1>4. k \in Nat /\ i <= k /\ ~ \A n \in Nodes : AsGood(w[k][n], w[i][n])
  OBVIOUS
<1>5. \A n \in Nodes : w[i][n] \in {-1} \cup Nat
  BY <1>1 DEF Known
<1>6. k # i
  BY <1>4, <1>5 DEF AsGood
<1>7. k - 1 \in Nat /\ i <= k - 1 /\ k - 1 < k /\ (k - 1) + 1 = k
  BY <1>4, <1>6
<1>8. k - 1 \notin U
  <2> HIDE DEF U
  <2> QED  BY <1>3, <1>4, <1>7
<1>9. \A n \in Nodes : AsGood(w[k - 1][n], w[i][n])
  BY <1>7, <1>8
<1> HIDE DEF U
<1>10. \A n \in Nodes : AsGood(w[k][n], w[k - 1][n])
  <2>1. \A n \in Nodes : AsGood(w[(k - 1) + 1][n], w[k - 1][n])
    BY <1>2, <1>7
  <2> QED  BY <1>7, <2>1
<1>11. \A n \in Nodes : w[k][n] \in {-1} \cup Nat /\ w[k - 1][n] \in {-1} \cup Nat
  BY <1>1, <1>4, <1>7 DEF Known
<1>12. \A n \in Nodes : AsGood(w[k][n], w[i][n])
  <2> SUFFICES ASSUME NEW n \in Nodes PROVE AsGood(w[k][n], w[i][n])
    OBVIOUS
  <2> DEFINE x == w[k][n]
             y == w[k - 1][n]
             z == w[i][n]
  <2>1. x \in {-1} \cup Nat /\ y \in {-1} \cup Nat /\ z \in {-1} \cup Nat /\ AsGood(x, y) /\ AsGood(y, z)
    BY <1>5, <1>9, <1>10, <1>11
  <2> HIDE DEF x, y, z
  <2>2. AsGood(x, z)
    BY <2>1 DEF AsGood
  <2> QED  BY <2>2 DEF x, z
<1> QED  BY <1>4, <1>12

\* The nodes that a round has at their distance for good.
Settling(w) == [k \in Nat |-> {n \in Nodes : \A j \in Nat : k <= j => w[j][n] = w[k][n]}]

\* A round in which no more of them settle has settled all.
LEMMA AllSettle ==
  ASSUME NEW c, Metrics(c), NEW d \in Nodes, NEW w, Rounds(w, c, d),
         NEW k \in Nat, Settling(w)[k + 1] = Settling(w)[k]
  PROVE  Settling(w)[k] = Nodes
<1> DEFINE F == Settling(w)[k]
           Late(v) == \E n \in Nodes \ F : \E j \in Nat : k + 1 <= j /\ w[j][n] # w[k + 1][n] /\ w[j][n] = v
           T == {v \in Nat : Late(v)}
<1>1. k + 1 \in Nat
  OBVIOUS
<1>2. F \subseteq Nodes /\ \A n \in F : \A j \in Nat : k <= j => w[j][n] = w[k][n]
  BY DEF Settling
<1>3. \A n \in Nodes \ F : \E j \in Nat : k + 1 <= j /\ w[j][n] # w[k + 1][n]
  <2>1. F = {n \in Nodes : \A j \in Nat : k + 1 <= j => w[j][n] = w[k + 1][n]}
    BY <1>1 DEF Settling
  <2> HIDE DEF F
  <2> QED  BY <2>1
<1>4. /\ \A j \in Nat : w[j] \in Known /\ w[j + 1] = Relaxed(c, d, w[j])
      /\ \A j \in Nat : \A n \in Nodes : w[j][n] \in {-1} \cup Nat
  BY DEF Rounds, Known
<1> HIDE DEF F
\* What changes gets a smaller number.
<1>5. \A j \in Nat, n \in Nodes : k + 1 <= j /\ w[j][n] # w[k + 1][n] =>
        w[j][n] \in Nat /\ (w[k + 1][n] = -1 \/ w[j][n] < w[k + 1][n])
  <2> SUFFICES ASSUME NEW j \in Nat, NEW n \in Nodes, k + 1 <= j, w[j][n] # w[k + 1][n]
               PROVE  w[j][n] \in Nat /\ (w[k + 1][n] = -1 \/ w[j][n] < w[k + 1][n])
    OBVIOUS
  <2> DEFINE x == w[j][n]
             y == w[k + 1][n]
  <2>1. x \in {-1} \cup Nat /\ y \in {-1} \cup Nat /\ AsGood(x, y) /\ x # y
    BY <1>1, <1>4, RoundsImprove
  <2> HIDE DEF x, y
  <2>2. x \in Nat /\ (y = -1 \/ x < y)
    BY <2>1 DEF AsGood
  <2> QED  BY <2>2 DEF x, y
<1>6. SUFFICES ASSUME F # Nodes PROVE FALSE
  BY <1>2 DEF F
<1>7. T # {}
  <2>1. PICK n \in Nodes \ F : TRUE
    BY <1>2, <1>6
  <2>2. PICK j \in Nat : k + 1 <= j /\ w[j][n] # w[k + 1][n]
    BY <1>3, <2>1
  <2>3. w[j][n] \in Nat
    BY <1>5, <2>2
  <2> QED  BY <2>2, <2>3
<1>8. PICK v \in T : \A u \in T : v <= u
  <2>1. T \in SUBSET Nat
    OBVIOUS
  <2> HIDE DEF T
  <2> QED  BY <1>7, <2>1, Least
<1>9. v \in Nat /\ Late(v)
  OBVIOUS
<1>10. ASSUME NEW m \in Nodes \ F, NEW i \in Nat, k + 1 <= i, w[i][m] # w[k + 1][m] PROVE v <= w[i][m]
  <2>1. w[i][m] \in Nat /\ Late(w[i][m])
    BY <1>5, <1>10
  <2>2. w[i][m] \in T
    BY <2>1
  <2> HIDE DEF T
  <2> QED  BY <1>8, <2>2
<1> HIDE DEF T
<1>11. PICK n \in Nodes \ F, j \in Nat : k + 1 <= j /\ w[j][n] # w[k + 1][n] /\ w[j][n] = v
  BY <1>9
<1>12. w[k + 1][n] = -1 \/ v < w[k + 1][n]
  BY <1>5, <1>11
<1>13. j # k + 1
  BY <1>11
<1>14. j - 1 \in Nat /\ k + 1 <= j - 1 /\ k <= j - 1 /\ (j - 1) + 1 = j
  BY <1>11, <1>13
<1>15. w[j][n] = Relaxed(c, d, w[j - 1])[n] /\ w[k + 1][n] = Relaxed(c, d, w[k])[n]
  <2>1. w[(j - 1) + 1] = Relaxed(c, d, w[j - 1])
    BY <1>4, <1>14
  <2> QED  BY <1>4, <1>14, <2>1
<1>16. n # d
  <2>1. n = d => Relaxed(c, d, w[j - 1])[n] = 0 /\ Relaxed(c, d, w[k])[n] = 0
    BY <1>4, <1>14, RelaxedOf
  <2> QED  BY <1>11, <1>15, <2>1
<1>17. PICK m \in Nodes : /\ <<n, m>> \in DOMAIN c /\ w[j - 1][m] # -1 /\ w[j - 1][m] \in Nat
                          /\ v = c[<<n, m>>] + w[j - 1][m] /\ w[j - 1][m] < v
  <2>1. w[j - 1] \in Known /\ Via(c, w[j - 1], n) # {}
    <3>1. Via(c, w[j - 1], n) = {} => Relaxed(c, d, w[j - 1])[n] = -1
      BY <1>4, <1>14, <1>16, RelaxedOf
    <3> QED  BY <1>4, <1>9, <1>11, <1>14, <1>15, <3>1
  <2>2. v \in Via(c, w[j - 1], n)
    BY <1>11, <1>15, <1>16, <2>1, RelaxedOf
  <2> QED  BY <2>1, <2>2, ViaNumbers
<1>18. CASE m \in F
  <2>1. w[j - 1][m] = w[k][m]
    BY <1>2, <1>14, <1>18
  <2>2. v \in Via(c, w[k], n)
    <3>1. c[<<n, m>>] + w[k][m] \in Via(c, w[k], n)
      BY <1>4, <1>17, <2>1, ViaNumbers
    <3> QED  BY <1>17, <2>1, <3>1
  <2>3. Relaxed(c, d, w[k])[n] \in Nat /\ Relaxed(c, d, w[k])[n] <= v
    BY <1>4, <1>16, <2>2, RelaxedOf
  <2> QED  BY <1>9, <1>12, <1>15, <2>3
<1>19. CASE m \notin F
  <2>1. PICK i \in Nat : k + 1 <= i /\ w[i][m] # w[k + 1][m]
    BY <1>3, <1>19
  <2>2. w[i][m] \in Nat /\ v <= w[i][m] /\ (w[k + 1][m] = -1 \/ w[i][m] < w[k + 1][m])
    BY <1>5, <1>10, <1>19, <2>1
  <2>3. w[j - 1][m] = w[k + 1][m]
    <3> SUFFICES ASSUME w[j - 1][m] # w[k + 1][m] PROVE FALSE
      OBVIOUS
    <3>1. v <= w[j - 1][m]
      BY <1>10, <1>14, <1>19
    <3> QED  BY <1>9, <1>17, <3>1
  <2> QED  BY <1>9, <1>17, <2>2, <2>3
<1> QED  BY <1>18, <1>19

\* One more round finds no better distances.
LEMMA DistancesFixed ==
  ASSUME net \in Networks, NEW c, Metrics(c), NEW d \in Nodes
  PROVE  Distances(c, d) \in Known /\ Relaxed(c, d, Distances(c, d)) = Distances(c, d)
<1> DEFINE N == net.size
<1>1. PICK w : Rounds(w, c, d)
  BY DistanceRounds
<1>2. N \in Nat /\ Nodes = 1..N
  BY FibDumpsAssumption DEF Nodes
<1>3. /\ w \in [Nat -> Known] /\ Distances(c, d) = w[N]
      /\ \A k \in Nat : w[k + 1] = Relaxed(c, d, w[k])
  BY <1>1 DEF Rounds
<1> HIDE DEF N
<1> DEFINE F == Settling(w)
<1>4. F \in [Nat -> SUBSET (1..N)]
  BY <1>2 DEF Settling
<1>5. ASSUME NEW k \in Nat PROVE F[k] \subseteq F[k + 1]
  <2>1. k + 1 \in Nat /\ \A j \in Nat : k + 1 <= j => k <= j
    OBVIOUS
  <2>2. \A n \in F[k] : n \in Nodes /\ \A j \in Nat : k <= j => w[j][n] = w[k][n]
    BY DEF Settling
  <2>3. \A n \in F[k] : n \in Nodes /\ \A j \in Nat : k + 1 <= j => w[j][n] = w[k + 1][n]
    BY <2>1, <2>2
  <2> QED  BY <2>1, <2>3 DEF Settling
<1>6. PICK k \in 0..N : F[k + 1] = F[k]
  <2> HIDE DEF F
  <2> QED  BY <1>2, <1>4, <1>5, StopsGrowing
<1>7. k \in Nat /\ k <= N /\ N + 1 \in Nat /\ k <= N + 1
  BY <1>2
<1>8. F[k] = Nodes
  BY <1>1, <1>6, <1>7, AllSettle
<1>9. \A n \in Nodes : w[N][n] = w[k][n] /\ w[N + 1][n] = w[k][n]
  BY <1>2, <1>7, <1>8 DEF Settling
<1>10. w[N] \in Known /\ w[N + 1] \in Known
  BY <1>2, <1>3, <1>7
<1>11. w[N + 1] = w[N]
  BY <1>9, <1>10 DEF Known
<1> QED  BY <1>2, <1>3, <1>10, <1>11

-----------------------------------------------------------------------------
(* A connected network and its tables                                      *)

\* What is left of the network has the links of both directions, or of none.
LEMMA RemainingMetrics ==
  ASSUME net \in Networks
  PROVE  /\ Metrics(Remaining) /\ 1 \in Nodes
         /\ \A n, m \in Nodes : <<n, m>> \in DOMAIN Remaining => <<m, n>> \in DOMAIN Remaining
<1>1. /\ net.size \in Nat /\ DOMAIN net.cost \subseteq (1..net.size) \X (1..net.size)
      /\ net.failed \in DOMAIN net.cost
      /\ \A e \in DOMAIN net.cost : <<e[2], e[1]>> \in DOMAIN net.cost /\ net.cost[e] \in Nat \ {0}
  BY FibDumpsAssumption
<1>2. /\ DOMAIN Remaining = {l \in DOMAIN net.cost : {l[1], l[2]} # Failed}
      /\ \A e \in DOMAIN Remaining : Remaining[e] = net.cost[e]
  BY DEF Remaining
<1>3. Metrics(Remaining)
  BY <1>1, <1>2 DEF Metrics, Nodes
<1>4. ASSUME NEW n \in Nodes, NEW m \in Nodes, <<n, m>> \in DOMAIN Remaining
      PROVE  <<m, n>> \in DOMAIN Remaining
  <2>1. <<n, m>> \in DOMAIN net.cost /\ {n, m} # Failed
    BY <1>2, <1>4
  <2>2. <<m, n>> \in DOMAIN net.cost
    <3> DEFINE e == <<n, m>>
    <3>1. e \in DOMAIN net.cost /\ e[1] = n /\ e[2] = m
      BY <2>1
    <3> HIDE DEF e
    <3> QED  BY <1>1, <3>1
  <2>3. {m, n} # Failed
    BY <2>1
  <2> QED  BY <1>2, <2>2, <2>3
<1>5. 1 \in Nodes
  <2>1. PICK a \in 1..net.size : TRUE
    BY <1>1
  <2> QED  BY <1>1, <2>1 DEF Nodes
<1> QED  BY <1>3, <1>4, <1>5

\* The distances of a node, of its next hops and of its neighbours.
LEMMA ShortestHops ==
  ASSUME net \in Networks, NEW c, Metrics(c), NEW d \in Nodes, NEW n \in Nodes
  PROVE  /\ Distances(c, d)[d] = 0 /\ Distances(c, d)[n] \in {-1} \cup Nat
         /\ n # d /\ Distances(c, d)[n] # -1 => NextHops(c, n, d) # {}
         /\ n # d => \A m \in NextHops(c, n, d) :
              /\ m \in Nodes /\ <<n, m>> \in DOMAIN c
              /\ Distances(c, d)[m] \in Nat /\ Distances(c, d)[n] \in Nat
              /\ Distances(c, d)[m] < Distances(c, d)[n]
         /\ \A m \in Nodes : <<n, m>> \in DOMAIN c /\ Distances(c, d)[m] # -1 =>
              Distances(c, d)[n] # -1
<1> DEFINE D == Distances(c, d)
<1>1. D \in Known /\ Relaxed(c, d, D) = D
  BY DistancesFixed
<1>2. n # d => NextHops(c, n, d) = { m \in Nodes : /\ <<n, m>> \in DOMAIN c /\ D[m] # -1
                                                   /\ D[n] = c[<<n, m>>] + D[m] }
  BY DEF NextHops
<1> HIDE DEF D
<1>3. D[d] = 0 /\ \A m \in Nodes : D[m] \in {-1} \cup Nat
  BY <1>1, RelaxedOf DEF Known
<1>4. ASSUME n # d, D[n] # -1 PROVE NextHops(c, n, d) # {}
  <2>1. Via(c, D, n) # {}
    BY <1>1, <1>4, RelaxedOf
  <2>2. D[n] \in Via(c, D, n)
    BY <1>1, <1>4, <2>1, RelaxedOf
  <2>3. \A v \in Via(c, D, n) : \E m \in Nodes :
          <<n, m>> \in DOMAIN c /\ D[m] # -1 /\ v = c[<<n, m>>] + D[m]
    BY DEF Via
  <2>4. PICK m \in Nodes : <<n, m>> \in DOMAIN c /\ D[m] # -1 /\ D[n] = c[<<n, m>>] + D[m]
    BY <2>2, <2>3
  <2> QED  BY <1>2, <1>4, <2>4
<1>5. ASSUME n # d, NEW m \in NextHops(c, n, d)
      PROVE  m \in Nodes /\ <<n, m>> \in DOMAIN c /\ D[m] \in Nat /\ D[n] \in Nat /\ D[m] < D[n]
  <2>1. m \in Nodes /\ <<n, m>> \in DOMAIN c /\ D[m] # -1 /\ D[n] = c[<<n, m>>] + D[m]
    BY <1>2, <1>5
  <2>2. D[m] \in Nat /\ c[<<n, m>>] \in Nat \ {0}
    <3>1. D[m] \in Nat
      BY <1>3, <2>1
    <3>2. c[<<n, m>>] \in Nat \ {0}
      BY <2>1 DEF Metrics
    <3> QED  BY <3>1, <3>2
  <2> DEFINE x == D[m]
             y == c[<<n, m>>]
             z == D[n]
  <2>3. x \in Nat /\ y \in Nat \ {0} /\ z = y + x
    BY <2>1, <2>2
  <2> HIDE DEF x, y, z
  <2>4. x \in Nat /\ z \in Nat /\ x < z
    BY <2>3
  <2> QED  BY <2>1, <2>4 DEF x, z
<1>6. ASSUME NEW m \in Nodes, <<n, m>> \in DOMAIN c, D[m] # -1 PROVE D[n] # -1
  <2>1. CASE n = d
    BY <1>3, <2>1
  <2>2. CASE n # d
    <3>1. Via(c, D, n) # {}
      BY <1>1, <1>6, ViaNumbers
    <3>2. D[n] \in Nat
      BY <1>1, <2>2, <3>1, RelaxedOf
    <3> QED  BY <3>2
  <2> QED  BY <2>1, <2>2
<1> QED  BY <1>3, <1>4, <1>5, <1>6 DEF D

\* A network connected to node 1 is connected.
LEMMA LinkedAll ==
  ASSUME net \in Networks, \A n \in Nodes : Linked(Remaining, n, 1), NEW d \in Nodes, NEW o \in Nodes
  PROVE  Linked(Remaining, o, d)
<1> DEFINE One(n) == Distances(Remaining, 1)[n]
           All(n) == Distances(Remaining, d)[n]
<1>1. /\ Metrics(Remaining) /\ 1 \in Nodes
      /\ \A n, m \in Nodes : <<n, m>> \in DOMAIN Remaining => <<m, n>> \in DOMAIN Remaining
  BY RemainingMetrics
<1>2. \A n \in Nodes : One(n) \in Nat
  <2>1. \A n \in Nodes : One(n) # -1 /\ One(n) \in {-1} \cup Nat
    BY <1>1, ShortestHops DEF Linked
  <2> QED  BY <2>1
<1>3. ASSUME NEW n \in Nodes, n # 1
      PROVE  \E m \in Nodes : /\ <<n, m>> \in DOMAIN Remaining /\ <<m, n>> \in DOMAIN Remaining
                              /\ One(m) < One(n)
  <2>1. NextHops(Remaining, n, 1) # {}
    BY <1>1, <1>3, ShortestHops DEF Linked
  <2>2. PICK m \in NextHops(Remaining, n, 1) : TRUE
    BY <2>1
  <2>3. m \in Nodes /\ <<n, m>> \in DOMAIN Remaining /\ One(m) < One(n)
    BY <1>1, <1>3, <2>2, ShortestHops
  <2> QED  BY <1>1, <2>3
<1>4. All(d) = 0 /\ \A n, m \in Nodes : <<n, m>> \in DOMAIN Remaining /\ All(m) # -1 => All(n) # -1
  BY <1>1, ShortestHops
<1> HIDE DEF One, All
<1>5. All(1) # -1
  <2> DEFINE T == {One(n) : n \in {n \in Nodes : All(n) # -1}}
  <2>1. T \in SUBSET Nat
    BY <1>2
  <2>2. T # {}
    BY <1>4
  <2>3. PICK x \in T : \A y \in T : x <= y
    <3> HIDE DEF T
    <3> QED  BY <2>1, <2>2, Least
  <2>4. PICK n \in Nodes : All(n) # -1 /\ x = One(n)
    OBVIOUS
  <2>5. ASSUME n # 1 PROVE FALSE
    <3>1. PICK m \in Nodes : <<m, n>> \in DOMAIN Remaining /\ One(m) < One(n)
      BY <1>3, <2>5
    <3>2. All(m) # -1
      BY <1>4, <2>4, <3>1
    <3>3. One(m) \in T
      BY <3>2
    <3> HIDE DEF T
    <3> QED  BY <1>2, <2>3, <2>4, <3>1, <3>3
  <2> QED  BY <2>4, <2>5
<1>6. \A n \in Nodes : All(n) # -1
  <2> DEFINE T == {One(n) : n \in {n \in Nodes : All(n) = -1}}
  <2> SUFFICES ASSUME T # {} PROVE FALSE
    OBVIOUS
  <2>1. T \in SUBSET Nat
    BY <1>2
  <2>3. PICK x \in T : \A y \in T : x <= y
    <3> HIDE DEF T
    <3> QED  BY <2>1, Least
  <2>4. PICK n \in Nodes : All(n) = -1 /\ x = One(n)
    OBVIOUS
  <2>5. n # 1
    BY <1>5, <2>4
  <2>6. PICK m \in Nodes : <<n, m>> \in DOMAIN Remaining /\ One(m) < One(n)
    BY <1>3, <2>5
  <2>7. All(m) = -1
    BY <1>4, <2>4, <2>6
  <2>8. One(m) \in T
    BY <2>7
  <2> HIDE DEF T
  <2> QED  BY <1>2, <2>3, <2>4, <2>6, <2>8
<1> QED  BY <1>6 DEF Linked, All

\* Tables of shortest paths deliver exactly if the network is connected.
LEMMA ShortestDelivers ==
  ASSUME net \in Networks, NEW f \in Tables, \A n, d \in Nodes : Hops(f, n, d) = NextHops(Remaining, n, d)
  PROVE  Delivers(f) <=> \A n \in Nodes : Linked(Remaining, n, 1)
<1>1. Metrics(Remaining) /\ 1 \in Nodes
  BY RemainingMetrics
<1>2. ASSUME Delivers(f), NEW n \in Nodes PROVE Linked(Remaining, n, 1)
  <2>1. CASE n = 1
    <3>1. Distances(Remaining, 1)[1] = 0
      BY <1>1, ShortestHops
    <3> QED  BY <2>1, <3>1 DEF Linked
  <2>2. CASE n # 1
    <3>1. PICK r : Ranks(r, f, 1)
      BY <1>1, DeliveringRanked
    <3>2. n \in Delivering(f, 1)
      BY <1>1, <1>2 DEF Delivers
    <3>3. NextHops(Remaining, n, 1) # {}
      BY <1>1, <2>2, <3>1, <3>2 DEF Ranks
    <3>4. Distances(Remaining, 1)[n] \in Nat
      BY <1>1, <2>2, <3>3, ShortestHops
    <3> QED  BY <3>4 DEF Linked
  <2> QED  BY <2>1, <2>2
<1>3. ASSUME \A n \in Nodes : Linked(Remaining, n, 1), NEW d \in Nodes PROVE Delivering(f, d) = Nodes
  <2> DEFINE D == Delivering(f, d)
             far(n) == Distances(Remaining, d)[n]
             T == {far(n) : n \in Nodes \ D}
  <2>1. /\ D \subseteq Nodes /\ d \in D
        /\ \A n \in Nodes : Hops(f, n, d) # {} /\ Hops(f, n, d) \subseteq D => n \in D
    BY DeliveringClosed
  <2>2. \A n \in Nodes : far(n) \in Nat
    <3>1. \A n \in Nodes : far(n) # -1 /\ far(n) \in {-1} \cup Nat
      BY <1>1, <1>3, LinkedAll, ShortestHops DEF Linked
    <3> QED  BY <3>1
  <2>3. ASSUME NEW n \in Nodes, n # d
        PROVE  /\ Hops(f, n, d) # {}
               /\ \A m \in Hops(f, n, d) : m \in Nodes /\ far(m) < far(n)
    <3>1. Distances(Remaining, d)[n] # -1
      BY <2>2
    <3>2. NextHops(Remaining, n, d) # {}
      BY <1>1, <2>3, <3>1, ShortestHops
    <3>3. \A m \in NextHops(Remaining, n, d) : m \in Nodes /\ far(m) < far(n)
      BY <1>1, <2>3, ShortestHops
    <3> HIDE DEF far
    <3> QED  BY <3>2, <3>3
  <2> HIDE DEF D, far
  <2> SUFFICES ASSUME T # {} PROVE FALSE
    BY <2>1 DEF D
  <2>4. T \in SUBSET Nat
    BY <2>2
  <2>5. PICK x \in T : \A y \in T : x <= y
    <3> HIDE DEF T
    <3> QED  BY <2>4, Least
  <2>6. PICK n \in Nodes \ D : x = far(n)
    OBVIOUS
  <2>7. PICK m \in Hops(f, n, d) : m \notin D
    BY <2>1, <2>3, <2>6
  <2>8. m \in Nodes \ D /\ far(m) < far(n)
    BY <2>1, <2>3, <2>6, <2>7
  <2>9. far(m) \in T
    BY <2>8
  <2> HIDE DEF T
  <2> QED  BY <2>2, <2>5, <2>6, <2>8, <2>9
<1> QED  BY <1>2, <1>3 DEF Delivers

-----------------------------------------------------------------------------
(* Theorems                                                                *)

\* A route always has a next hop that is alive, and only a node that is
\* installing has routes left to install, for every network and every order
\* in which its nodes recalculate: TypeOK in every state.
THEOREM FibTypeCorrect == Spec => []TypeOK
<1>1. FibInv => TypeOK
  BY DEF FibInv, NodesOK, TablesOK, ResultOK, Route, TypeOK
<1> QED  BY <1>1, FibInductive, PTL

\* Whatever the network, and however the recalculations of BIRD overlap: when
\* the last one has finished and had its dump to itself, that dump has the
\* tables as they are and stay.
THEOREM LastDumpHasFinalTables == Spec => []LastDumpFinal
<1>1. FibInv => LastDumpFinal
  <2> SUFFICES ASSUME FibInv, Settled, tied # Len(dumps), NEW n \in Nodes, NEW d \in Nodes
               PROVE  Hops(Last(dumps), n, d) = Hops(fib, n, d)
    BY DEF LastDumpFinal
  <2>1. AllDone
    BY DEF Settled, AllDone
  <2>2. todo[n] = {} /\ spf[n] # "waiting"
    BY <2>1 DEF AllDone, FibInv, NodesOK
  <2>3. Hops(fib, n, d) = NextHops(Remaining, n, d)
    BY <2>2 DEF FibInv, RoutesOK
  <2>4. Hops(Last(dumps), n, d) = NextHops(Remaining, n, d)
    BY <2>1 DEF FibInv, DumpsOK
  <2> QED  BY <2>3, <2>4
<1> QED  BY <1>1, FibInductive, PTL

\* The backward search of instant_of_convergence, its index past the end of
\* the list included, for any number of dumps: if the last dump is valid, the
\* reported instant begins the longest series of valid dumps at the end.
THEOREM InstantBeginsLastSeries == Spec => []BeginsLastSeries
<1>1. FibInv => BeginsLastSeries
  BY DEF FibInv
<1> QED  BY <1>1, FibInductive, PTL

\* explore(), for every network and every state of its tables: that all pairs
\* are valid is that every packet is delivered, whichever next hops it takes.
THEOREM ExplorationsExact == Spec => []ExploreExact
<1>1. FoundInv => ExploreExact
  <2> SUFFICES ASSUME FoundInv, result # <<>> PROVE Last(result) <=> Delivers(dumps[Len(result)])
    BY DEF ExploreExact
  <2>1. result \in Seq(BOOLEAN)
    BY DEF FoundInv, FibInv, ResultOK
  <2>2. Len(result) \in DOMAIN result /\ Last(result) = result[Len(result)]
    BY <2>1 DEF Last
  <2> QED  BY <2>2 DEF FoundInv, ExploreInv
<1> QED  BY <1>1, FoundInductive, PTL

\* evaluate_convergence, unless two dumps have one timestamp: the instant that
\* it reports is at most the first dump after the tables last failed to
\* deliver, and is that dump if the one before saw them fail.
THEOREM SuffixReported == Spec => []ReportedSuffix
<1>1. FoundInv => ReportedSuffix
  <2> SUFFICES ASSUME FoundInv PROVE ReportedSuffix
    OBVIOUS
  <2>1. BeginsLastSeries /\ ResultOK
    BY DEF FoundInv, FibInv
  <2> SUFFICES ASSUME ioc # 0, Last(result), tied = 0
               PROVE  /\ ioc <= broken + 1
                      /\ broken \in DOMAIN result /\ ~result[broken] => ioc = broken + 1
    BY <2>1 DEF ReportedSuffix
  <2>2. /\ ioc \in DOMAIN result /\ \A i \in ioc..Len(result) : result[i]
        /\ ioc > 1 => ~result[ioc - 1]
    BY <2>1 DEF BeginsLastSeries
  <2>3. /\ result \in Seq(BOOLEAN) /\ Len(result) = Len(dumps) /\ dumps \in Seq(Sound)
    BY <2>1 DEF FoundInv, ExploreInv, ResultOK
  <2>4. broken \in Nat /\ \A i \in DOMAIN dumps : i > broken => Delivers(dumps[i])
    BY <2>3 DEF FoundInv, ExploreInv
  <2>5. ioc \in Nat /\ ioc >= 1 /\ ioc <= Len(result) /\ Len(result) \in Nat
    BY <2>2, <2>3
  <2>6. ioc > 1 => ioc - 1 <= broken
    <3> SUFFICES ASSUME ioc > 1, ioc - 1 > broken PROVE FALSE
      BY <2>4, <2>5
    <3>1. ioc - 1 \in DOMAIN result /\ ioc - 1 \in DOMAIN dumps
      BY <2>3, <2>5
    <3>2. Delivers(dumps[ioc - 1])
      BY <2>4, <3>1
    <3> QED  BY <2>2, <3>1, <3>2 DEF FoundInv, ExploreInv
  <2>7. ioc <= broken + 1
    BY <2>4, <2>5, <2>6
  <2>8. ASSUME broken \in DOMAIN result, ~result[broken] PROVE ioc = broken + 1
    <3>1. ~(broken \in ioc..Len(result))
      BY <2>2, <2>8
    <3>2. broken < ioc
      BY <2>3, <2>4, <2>5, <2>8, <3>1
    <3> QED  BY <2>4, <2>5, <2>7, <3>2
  <2> QED  BY <2>7, <2>8
<1> QED  BY <1>1, FoundInductive, PTL

\* For every network, however the recalculations of BIRD overlap, if the
\* simulation ran until the last one had finished and had its dump to itself:
\* the last dump is valid exactly if the network is connected without the link
\* that failed.  A reported convergence is then one of the protocol, and a
\* missing one a partition.
THEOREM ConvergenceIsSeen == Spec => []ConvergenceSeen
<1>1. FoundInv => ConvergenceSeen
  <2> SUFFICES ASSUME FoundInv, Settled, tied # Len(dumps), ioc # 0
               PROVE  Last(result) <=> \A n \in Nodes : Linked(Remaining, n, 1)
    BY DEF ConvergenceSeen
  <2> DEFINE f == Last(dumps)
  <2>1. /\ net \in Networks /\ result \in Seq(BOOLEAN) /\ Len(result) = Len(dumps) /\ dumps \in Seq(Sound)
        /\ ioc \in {-1, 0} \cup DOMAIN dumps /\ running \in BOOLEAN /\ ~running
    BY DEF FoundInv, FibInv, ExploreInv, ResultOK, NodesOK
  <2>2. dumps # <<>>
    BY <2>1 DEF FoundInv, FibInv, DumpsOK
  <2>3. /\ Len(dumps) \in DOMAIN dumps /\ f = dumps[Len(dumps)] /\ f \in Sound
        /\ Len(result) \in DOMAIN result /\ Last(result) = result[Len(dumps)]
    BY <2>1, <2>2 DEF Last
  <2>4. Last(result) <=> Delivers(f)
    BY <2>1, <2>3 DEF FoundInv, ExploreInv
  <2>5. \A n, d \in Nodes : Hops(f, n, d) = NextHops(Remaining, n, d)
    <3>1. AllDone
      BY DEF Settled, AllDone
    <3> QED  BY <3>1 DEF FoundInv, FibInv, DumpsOK
  <2>6. f \in Tables
    BY <2>3 DEF Sound
  <2> HIDE DEF f
  <2> QED  BY <2>1, <2>4, <2>5, <2>6, ShortestDelivers
<1> QED  BY <1>1, FoundInductive, PTL
===============================================================================
