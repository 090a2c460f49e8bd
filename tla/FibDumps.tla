------------------------------- MODULE FibDumps -------------------------------
(***************************************************************************)
(* The forwarding tables of a simulation and their dumps, from the failure *)
(* of a link on.  Every node dumps its table at 60 s (ntf.cc), and all of  *)
(* them do whenever a node's BIRD, patched by bird.patch, has recalculated *)
(* its routes and calls system("ip r"), which dce-system.patch turns into  *)
(* an "ip r" on every node.                                                *)
(*                                                                         *)
(* BIRD and the kernel are outside of the repository.  What is assumed of  *)
(* them: routes follow shortest paths, with all of the equal ones; a node  *)
(* installs its new routes one by one, with a delay after each             *)
(* (bird.patch); a route through a dead interface is withdrawn, and stays, *)
(* marked, if it has another next hop.                                     *)
(***************************************************************************)
EXTENDS Integers, Sequences, FiniteSets, SequencesExt, FiniteSetsExt

CONSTANTS Networks,   \* [size, cost, failed]: cost[<<a, b>>] for each direction of a link
          TiedSize    \* a bound: the largest network in which recalculations end at one instant

Endpoints(net) == {e[1] : e \in DOMAIN net.cost} \cup {e[2] : e \in DOMAIN net.cost}

ASSUME FibDumpsAssumption == \A net \in Networks :
  /\ net.size \in Nat /\ Endpoints(net) = 1..net.size
  /\ DOMAIN net.cost \subseteq (1..net.size) \X (1..net.size) /\ net.failed \in DOMAIN net.cost
  \* A link joins two nodes, and has a metric in each direction.
  /\ \A e \in DOMAIN net.cost : /\ e[1] # e[2] /\ <<e[2], e[1]>> \in DOMAIN net.cost
                                /\ net.cost[e] \in Nat \ {0}

VARIABLES net,      \* the network and its link that fails
          running,  \* the simulation has not been stopped
          down,     \* the ends of the failed link whose interface is down
          fib,      \* fib[n][d]: the next hops of n to d, as [hop, alive]
          todo,     \* todo[n]: the routes that n has recalculated, not installed
          spf,      \* spf[n]: "waiting", "installing" or "done"
          dumps,    \* the dumps, one for each instant that has any
          tied      \* the last instant that has several dumps of each node, 0 if none has

simVars == <<net, running, down, fib, todo, spf, dumps, tied>>

Nodes == 1..net.size
Failed == ToSet(net.failed)

-----------------------------------------------------------------------------
(* Routes                                                                  *)

\* The links without the one that fails.
Remaining == [e \in {l \in DOMAIN net.cost : {l[1], l[2]} # Failed} |-> net.cost[e]]

\* Distances to d; -1 if there is no path.
Distances(cost, d) ==
  LET Relax(dist, n) ==
        LET via == { cost[<<n, m>>] + dist[m] :
                       m \in {m \in Nodes : <<n, m>> \in DOMAIN cost /\ dist[m] # -1} }
        IN IF n = d THEN 0 ELSE IF via = {} THEN -1 ELSE Min(via)
      within[k \in Nat] ==
        LET closer == IF k = 0 THEN [n \in Nodes |-> -1] ELSE within[k - 1]
        IN [n \in Nodes |-> Relax(closer, n)]
  IN within[net.size]

\* The next hops of n on its shortest paths to d.
NextHops(cost, n, d) ==
  LET dist == Distances(cost, d)
  IN IF n = d THEN {}
     ELSE { m \in Nodes : /\ <<n, m>> \in DOMAIN cost /\ dist[m] # -1
                          /\ dist[n] = cost[<<n, m>>] + dist[m] }

Alive(hops) == { [hop |-> m, alive |-> TRUE] : m \in hops }

\* n and m are connected by links of cost.
Linked(cost, n, m) == Distances(cost, m)[n] # -1

-----------------------------------------------------------------------------
(* The simulation                                                          *)

SimInit ==
  /\ net \in Networks
  /\ running = TRUE
  /\ down = {}
  /\ fib = [n \in Nodes |-> [d \in Nodes |-> Alive(NextHops(net.cost, n, d))]]
  /\ todo = [n \in Nodes |-> {}]
  /\ spf = [n \in Nodes |-> "waiting"]
  /\ dumps = <<>>
  /\ tied = 0

\* At 60 s, 15 ms before the first interface goes down.
FirstDump ==
  /\ running /\ dumps = <<>>
  /\ dumps' = <<fib>>
  /\ UNCHANGED <<net, running, down, fib, todo, spf, tied>>

\* The kernel's part of "ip link set dev simI down", at one of the two ends.
InterfaceDown(n) ==
  /\ running /\ dumps # <<>>
  /\ n \in Failed \ down
  /\ down' = down \cup {n}
  /\ LET Kill(route) == { [r EXCEPT !.alive = @ /\ r.hop \notin Failed] : r \in route }
     IN fib' = [fib EXCEPT ![n] = [d \in Nodes |->
                 IF \E r \in Kill(@[d]) : r.alive THEN Kill(@[d]) ELSE {}]]
  /\ UNCHANGED <<net, running, todo, spf, dumps, tied>>

\* ospf_rt_spf(): n has heard of the failure, from a node that saw it, and
\* calculates its routes without the failed link.
StartSpf(n) ==
  /\ running /\ spf[n] = "waiting"
  /\ \E m \in down : Linked(Remaining, n, m)
  /\ spf' = [spf EXCEPT ![n] = "installing"]
  /\ todo' = [todo EXCEPT ![n] = {d \in Nodes : NextHops(Remaining, n, d) # NextHops(net.cost, n, d)}]
  /\ UNCHANGED <<net, running, down, fib, dumps, tied>>

\* rte_recalculate(), for one route.
Install(n, d) ==
  /\ running /\ d \in todo[n]
  /\ fib' = [fib EXCEPT ![n][d] = Alive(NextHops(Remaining, n, d))]
  /\ todo' = [todo EXCEPT ![n] = @ \ {d}]
  /\ UNCHANGED <<net, running, down, spf, dumps, tied>>

\* Mutant of FinishSpf: the dump is taken when the routes are still to be installed.
FinishSpfEarly(n) ==
  /\ running /\ spf[n] = "installing" /\ todo[n] # {}
  /\ spf' = [spf EXCEPT ![n] = "done"]
  /\ dumps' = Append(dumps, fib)
  /\ UNCHANGED <<net, running, down, fib, todo, tied>>

\* Mutant of FinishSpf: the tables are dumped once only.
FinishSpfOnce(n) ==
  /\ running /\ spf[n] = "installing" /\ todo[n] = {}
  /\ spf' = [spf EXCEPT ![n] = "done"]
  /\ dumps' = IF Len(dumps) > 1 THEN dumps ELSE Append(dumps, fib)
  /\ UNCHANGED <<net, running, down, fib, todo, tied>>

\* The end of ospf_rt_spf(): system("ip r") dumps the tables of all nodes.
FinishSpf(n) ==
  /\ running /\ spf[n] = "installing" /\ todo[n] = {}
  /\ spf' = [spf EXCEPT ![n] = "done"]
  /\ dumps' = Append(dumps, fib)
  /\ UNCHANGED <<net, running, down, fib, todo, tied>>

\* The same, at the instant of the last dump: each node then has two dumps of
\* one timestamp, of which the one that os.listdir() names last is kept.
FinishSpfAtOnce(n) ==
  /\ running /\ spf[n] = "installing" /\ todo[n] = {}
  /\ Len(dumps) > 1 /\ net.size <= TiedSize
  /\ spf' = [spf EXCEPT ![n] = "done"]
  /\ \E older \in SUBSET Nodes :
       dumps' = Append(Front(dumps), [m \in Nodes |-> IF m \in older THEN Last(dumps)[m] ELSE fib[m]])
  /\ tied' = Len(dumps)
  /\ UNCHANGED <<net, running, down, fib, todo>>

\* Simulator::Stop, wherever the run time puts it after 60 s.
Stop ==
  /\ running /\ dumps # <<>>
  /\ running' = FALSE
  /\ UNCHANGED <<net, down, fib, todo, spf, dumps, tied>>

SimNext ==
  \/ FirstDump \/ Stop
  \/ \E n \in Nodes : \/ InterfaceDown(n) \/ StartSpf(n)
                      \/ FinishSpf(n) \/ FinishSpfAtOnce(n)
                      \/ \E d \in Nodes : Install(n, d)

\* The last BIRD has finished.
Settled == down = Failed /\ \A n \in Nodes : spf[n] = "done"
=============================================================================
