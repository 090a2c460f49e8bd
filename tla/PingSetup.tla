------------------------------- MODULE PingSetup -------------------------------
(***************************************************************************)
(* The programs of a simulation on its verified network (ntf.cc): with     *)
(* --udp, spfs.py writes the file udp.ping, whose line i has the addresses *)
(* that node i pings, and a client is started for each of them; then each  *)
(* node gets a server and the dump of its table at 60 s.                   *)
(*                                                                         *)
(* spfs.py reads the topology file by itself: it numbers the nodes again   *)
(* (SpfsNodes) and computes their loopbacks again (Scripted).  Unlike      *)
(* ntf_parser.py and test.py, to which every layout of a file is the same, *)
(* it does not pass over empty lines and drops what follows the last       *)
(* newline, so the layout is part of its input.                            *)
(***************************************************************************)
EXTENDS NtfTopoGen

VARIABLES udp,       \* --udp
          layout,    \* how the lines of the file are laid out; spfs.py alone looks
          pings,     \* where main() of ntf.cc is: "setup", "clients", "nodes", "run", "aborted"
          udpPing,   \* the file udp.ping
          clients,   \* the clients started, as <<node, address>>
          servers,   \* the nodes with a server
          dumping    \* the number of nodes whose dump is scheduled

pingVars == <<udp, layout, pings, udpPing, clients, servers, dumping>>

\* The file has an empty line; its last link ends in a newline.
Layouts == [blank : BOOLEAN, ended : BOOLEAN]

PingInit ==
  /\ TopoInit
  /\ udp = FALSE
  /\ layout = [blank |-> FALSE, ended |-> TRUE]
  /\ pings = "setup"
  /\ udpPing = <<>> /\ clients = <<>>
  /\ servers = {} /\ dumping = 0

\* Until the network is ready nothing is started.
SetUp ==
  /\ Parse \/ ReadRows \/ InstallLink \/ LinksDone \/ ConfigureNode \/ NodesDone \/ Verify
  /\ UNCHANGED pingVars

\* Without --udp no pair is computed.
NoPings ==
  /\ stage = "ready" /\ pings = "setup"
  /\ pings' = "nodes"
  /\ UNCHANGED <<allVars, udp, layout, udpPing, clients, servers, dumping>>

\* split('\n')[:-1]: the last line is dropped if no newline ends it.
SpfsLines(written) == IF written.ended \/ Lines = <<>> THEN Len(Lines) ELSE Len(Lines) - 1

SpfsNodes(written) == Seen[SpfsLines(written)]

\* line[0] fails on an empty line, split(' ') must give four fields, a node
\* that is no line's source has no entry in `links', and dijkstra() refuses a
\* graph without nodes.
SpfsReads(written) ==
  /\ ~written.blank
  /\ \A i \in 1..SpfsLines(written) : Lines[i].begin = Missing /\ Lines[i].end = Missing
  /\ ToSet(SpfsNodes(written)) = {Lines[i].src : i \in 1..SpfsLines(written)}
  /\ SpfsNodes(written) # <<>>

\* Mutant of Leaves: a node pings itself too.
LeavesWithSelf(n) == [j \in 1..n |-> [i \in 1..n |-> Scripted(i - 1)]]

\* A line for each node, with the addresses of the others.
Leaves(n) == [j \in 1..n |-> [i \in 1..(n - 1) |-> Scripted(IF i < j THEN i - 1 ELSE i)]]

\* NS_ABORT_MSG_IF(WEXITSTATUS(ret) != 0) if spfs.py fails.
Spfs ==
  /\ stage = "ready" /\ pings = "setup"
  /\ udp' = TRUE
  /\ layout' \in Layouts
  /\ IF SpfsReads(layout') THEN udpPing' = Leaves(Len(SpfsNodes(layout'))) /\ pings' = "clients"
     ELSE UNCHANGED udpPing /\ pings' = "aborted"
  /\ UNCHANGED <<allVars, clients, servers, dumping>>

\* strtok() on a line: of one without an address its newline is left.
Tokens(line) == IF line = <<>> THEN << <<>> >> ELSE line

\* One line of udp.ping: its clients run on node `iteration'; Get() fails if
\* there is no such node.
StartClients ==
  /\ pings = "clients"
  /\ LET iteration == Cardinality({clients[i][1] : i \in DOMAIN clients})
         tokens == Tokens(udpPing[iteration + 1])
     IN
       /\ iteration < Len(udpPing) /\ iteration < nNodes
       /\ clients' = clients \o [i \in DOMAIN tokens |-> <<iteration, tokens[i]>>]
       /\ pings' = IF iteration + 1 = Len(udpPing) THEN "nodes" ELSE "clients"
  /\ UNCHANGED <<allVars, udp, layout, udpPing, servers, dumping>>

\* One node's server and its dump.
StartNode ==
  /\ pings = "nodes" /\ dumping < nNodes
  /\ servers' = IF udp THEN servers \cup {dumping} ELSE servers
  /\ dumping' = dumping + 1
  /\ pings' = IF dumping' = nNodes THEN "run" ELSE "nodes"
  /\ UNCHANGED <<allVars, udp, layout, udpPing, clients>>

PingEnded ==
  \/ pings \in {"run", "aborted"} \/ stage = "aborted"
  \/ file.kind = "failures" /\ Ended

PingNext ==
  \/ SetUp \/ NoPings \/ Spfs \/ StartClients \/ StartNode
  \/ PingEnded /\ UNCHANGED <<allVars, pingVars>>

PingSpec == PingInit /\ [][PingNext]_<<allVars, pingVars>>

-----------------------------------------------------------------------------
(* Properties                                                              *)

\* When a checked simulation starts, every node pings every other exactly once,
\* at an address that this other node has, and all of them answer: the numbers
\* and addresses that spfs.py computes from the file, also from one whose last
\* line it drops, are those of the network.  From the wrap of the loopbacks on
\* this fails (see LoAgreesBelowWrap).
PingsCoverPairs ==
  pings = "run" /\ udp /\ Check /\ nNodes < LoWrap =>
    /\ LET Others == { p \in (0..(nNodes - 1)) \X (0..(nNodes - 1)) : p[1] # p[2] }
       IN  ToBag(clients) = SetToBag({ <<p[1], lo[p[2] + 1]>> : p \in Others })
    /\ servers = 0..(nNodes - 1)

\* The last line's node is the source of another line too.
LastSourceKnown == \E i \in 1..(Len(Lines) - 1) : Lines[i].src = Last(Lines).src

\* Of a network that was verified, spfs.py aborts the simulation in two cases
\* only, in which the file has an empty line, or its last line has no newline
\* and alone has its source.  In no other file is a node or a direction of a
\* link missed, although ntf_parser.py and test.py, which passed it, read it in
\* another way (ntf_parser.py:32, test.py:83).
SpfsRuns ==
  Check /\ Lines # <<>> /\ udp =>
    (pings # "aborted" <=> ~layout.blank /\ (layout.ended \/ LastSourceKnown))
=============================================================================
