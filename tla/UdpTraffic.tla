------------------------------ MODULE UdpTraffic ------------------------------
(***************************************************************************)
(* The UDP pings of a simulation, from the clients' sockets to the report: *)
(* udp_ping/udp_client.c sends a packet with the time every dx,            *)
(* udp_ping/udp_server.c logs each packet it receives with its source and  *)
(* the time, and when the simulation has ended udp_parser.py reads the     *)
(* logs (UdpParser.tla).                                                   *)
(*                                                                         *)
(* The network between them is outside of the programs: while the path of  *)
(* a client's packets is down they are lost, otherwise each takes the time *)
(* of the path at its sending, so that packets may overtake each other     *)
(* when the path changes.                                                  *)
(***************************************************************************)
EXTENDS UdpParser

CONSTANTS Networks,    \* [servers, flows, packets, free], see IsNetwork
          Delays,      \* how long a packet may take
          Usual,       \* the delay before any failure
          FailUntil,   \* a bound: no path that is not free changes later
          MaxOutage    \* a bound: how many packets its outage takes

\* A flow is a client, named by its source address, and the server it pings; a
\* client sends `packets' packets, which is a bound.  No client is started twice
\* for the same server.
\* A path that is `free' may change at each packet, another one changes once,
\* with an outage or without.
IsNetwork(n) ==
  /\ n.servers \in Nat \ {0} /\ n.packets \in Nat /\ n.free \in BOOLEAN
  /\ \A i \in DOMAIN n.flows : n.flows[i].src \in Sources /\ n.flows[i].server \in 1..n.servers
  /\ \A i, j \in DOMAIN n.flows :
       n.flows[i].src = n.flows[j].src /\ n.flows[i].server = n.flows[j].server => i = j

ASSUME UdpTrafficAssumption ==
  /\ \A n \in Networks : IsNetwork(n)
  /\ Delays \subseteq Nat \ {0} /\ Usual \in Delays
  /\ FailUntil \in Nat /\ MaxOutage \in Nat \ {0}

VARIABLES network,
          clock,       \* the time, and the number of the next packet
          path,        \* path[f]: the delay of the packets of flow f, or Down
          outage,      \* outage[f]: the packets of f that were lost
          flight       \* the packets under way

trafficVars == <<network, clock, path, outage, flight>>
vars == <<logs, parserVars, trafficVars>>

Down == 0
Flows == DOMAIN network.flows

Init ==
  /\ network \in Networks
  /\ logs = [s \in 1..network.servers |-> <<>>]
  /\ clock = 1
  /\ path = [f \in Flows |-> Usual]
  /\ outage = [f \in Flows |-> {}]
  /\ flight = {}
  /\ ParserInit

-----------------------------------------------------------------------------
(* The simulation                                                          *)

Due == {p \in flight : p.due = clock}

\* The paths a packet of flow f may now take.
Paths(f) ==
  CASE network.free -> Delays \cup {Down}
    [] ~network.free /\ path[f] = Down ->
         Delays \cup (IF Cardinality(outage[f]) < MaxOutage THEN {Down} ELSE {})
    [] ~network.free /\ path[f] = Usual /\ outage[f] = {} /\ clock \in 3..FailUntil ->
         Delays \cup {Down}
    [] OTHER -> {path[f]}

\* One round of the clients' loops: read the clock, sendto(), whose result is
\* not looked at, usleep().
Send ==
  /\ clock <= network.packets /\ Due = {}
  /\ \E p \in [Flows -> Delays \cup {Down}] :
       /\ \A f \in Flows : p[f] \in Paths(f)
       /\ path' = p
       /\ outage' = [f \in Flows |-> IF p[f] = Down THEN outage[f] \cup {clock} ELSE outage[f]]
       /\ flight' = flight \cup { [flow |-> f, timestamp |-> clock, due |-> clock + p[f]] :
                                    f \in {g \in Flows : p[g] # Down} }
  /\ clock' = clock + 1
  /\ UNCHANGED <<network, logs, parserVars>>

\* One round of a server's loop: recvfrom(), read the clock, log.  Packets of
\* one flow that arrive together do so in either order, those of different
\* flows in the order of the flows (every network is there with its flows'
\* roles exchanged).
Receive(p) ==
  /\ p \in Due
  /\ \A q \in Due : p.flow <= q.flow
  /\ LET f == network.flows[p.flow]
     IN logs' = [logs EXCEPT ![f.server] =
                   Append(@, [src |-> f.src, timestamp |-> p.timestamp, received |-> clock])]
  /\ flight' = flight \ {p}
  /\ UNCHANGED <<network, clock, path, outage, parserVars>>

\* The last packets arrive.
Drain ==
  /\ clock > network.packets /\ flight # {} /\ Due = {}
  /\ clock' = clock + 1
  /\ UNCHANGED <<network, logs, path, outage, flight, parserVars>>

SimulationEnded == clock > network.packets /\ flight = {}

Next ==
  \/ Send \/ (\E p \in flight : Receive(p)) \/ Drain
  \/ SimulationEnded /\ ParserNext /\ UNCHANGED trafficVars
  \/ result # NotReported /\ UNCHANGED vars

Spec == Init /\ [][Next]_vars

-----------------------------------------------------------------------------
(* Properties                                                              *)

\* What the network did to a flow that was cut once, as a gap: from the last
\* packet before to the arrival of the first one after.
CutOf(f) == [low |-> Min(outage[f]) - 1, high |-> Max(outage[f]) + 1 + path[f]]
Cut == {f \in Flows : outage[f] # {}}

\* The parser can see each cut: enough packets follow it, and it contains
\* exactly one of the failures.
Visible ==
  \A f \in Cut : /\ network.packets - Max(outage[f]) >= Validate + 3
                 /\ Cardinality(Fitting(CutOf(f), 1)) = 1

\* No packet overtakes another one of its source.
InOrder ==
  \A s \in DOMAIN logs : \A i, j \in DOMAIN logs[s] :
    i < j /\ logs[s][i].src = logs[s][j].src => logs[s][i].timestamp < logs[s][j].timestamp

\* What the network did to the flows that failure i cut.
CutBy(i) == {CutOf(f) : f \in {g \in Cut : Fitting(CutOf(g), 1) = {i}}}
Span(cuts) == IF cuts = {} THEN None ELSE Max({o.high : o \in cuts}) - Min({o.low : o \in cuts})

\* If each flow is cut at most once, around one failure, the convergence time
\* of a failure spans what the network did to all the flows it cut, and not to
\* those that another failure cut, whatever delays the new paths have, as long
\* as their packets do not overtake those of the old ones, and in whatever
\* order the gaps are closed; the report is that of the first failure.
ConvergenceSpans ==
  result # NotReported /\ ~network.free /\ Visible /\ InOrder =>
    /\ \A i \in DOMAIN Fails : convergence[i] = Span(CutBy(i))
    /\ result = Span(CutBy(1))

\* `No gap' (udp_parser.py:181), a convergence time of 0, is only said of a
\* simulation in which the first failure cut no flow.
NoGapMeansUncut ==
  result = 0 => \A f \in Cut : Fails[1] \notin outage[f]
=============================================================================
