------------------------------ MODULE NtfTopoGen ------------------------------
(***************************************************************************)
(* How a topology file becomes a simulated network: the parser             *)
(* (NtfParser), then NtfContent, TopoHelper::TopoGen and ConfigureBird     *)
(* (helper/NtfParser.cc, helper/NtfTopoGen.cc) on the rows it printed,     *)
(* then test.py, which reads the network back from the simulator's         *)
(* devices and BIRD's configuration files and compares it with the file.   *)
(*                                                                         *)
(* An address 10.0.h.l of an interface or 10.1.h.l of a loopback is        *)
(* <<h, l>>.                                                               *)
(***************************************************************************)
EXTENDS NtfParser

CONSTANTS Check,      \* --check, true by default
          IfaceWrap,  \* 244: the last byte at which the interfaces' counter wraps
          LoWrap,     \* 250: the last byte at which the loopbacks' counter wraps
          U32         \* 2^32; TLC's integers need a smaller one

ASSUME NtfTopoGenAssumption ==
  /\ Check \in BOOLEAN /\ {IfaceWrap, LoWrap, U32} \subseteq Nat \ {0, 1}
  \* A link joins two nodes: a device of its own for each end.
  /\ \A f \in Files : f.kind = "topology" =>
       \A i \in DOMAIN f.lines : f.lines[i].src # f.lines[i].dst

VARIABLES stage,    \* "parsing", "links", "bird", "checking", "ready", "aborted"
          nNodes,   \* NtfContent::nNodes
          row,      \* the row that is installed next
          devs,     \* devs[n]: the devices of node n, in order, as <<link, end>>
          delays,   \* delays[c]: the delay of the channel of link c
          metrics,  \* TopoHelper::metrics, from <<node, iface>>
          addr,     \* the address of each <<node, iface>>
          counter,  \* <<three, four>>
          lo,       \* the loopback addresses given so far, by node
          loNext,   \* <<lo_counter_high, lo_counter_low>>
          cost      \* cost[n]: the costs in node n's bird.conf, by iface

netVars == <<stage, nNodes, row, devs, delays, metrics, addr, counter, lo, loNext, cost>>
allVars == <<vars, netVars>>

TopoInit ==
  /\ Init
  /\ stage = "parsing"
  /\ nNodes = 0
  /\ row = 1
  /\ devs = <<>> /\ delays = <<>>
  /\ metrics = <<>> /\ addr = <<>>
  /\ counter = <<0, 1>> /\ loNext = <<0, 1>>
  /\ lo = <<>> /\ cost = <<>>

\* Mutant of Wrapped: the counter wraps one address early.
WrappedEarly(c, wrap) == IF c[2] >= wrap - 1 THEN <<c[1] + 1, 1>> ELSE c

\* The next address of a counter <<high, low>> that wraps at a last byte.
Wrapped(c, wrap) == IF c[2] >= wrap THEN <<c[1] + 1, 1>> ELSE c
After(address) == <<address[1], address[2] + 1>>

\* An int stored as a uint32_t.
AsU32(n) == n % U32

\* The number of devices a node has before the current step.
NDevices(n) == Len(devs[n + 1])

-----------------------------------------------------------------------------
(* The parser runs in a pipe                                               *)

Parse == /\ stage = "parsing"
         /\ ReadLine \/ Unexpected \/ EndReading \/ PrintPair \/ UnknownName \/ Finish
         /\ UNCHANGED netVars

HighestId == Max({0} \cup UNION { {rows[i].src, rows[i].dst} : i \in DOMAIN rows })

\* pclose(): the rows are taken, the exit status is not.
ReadRows ==
  /\ stage = "parsing" /\ file.kind = "topology" /\ Ended
  /\ nNodes' = 1 + HighestId
  /\ devs' = [n \in 1..nNodes' |-> <<>>]
  /\ stage' = "links"
  /\ UNCHANGED <<vars, row, delays, metrics, addr, counter, lo, loNext, cost>>

-----------------------------------------------------------------------------
(* TopoGen                                                                 *)

\* Mutant of Interfaces: the metrics of the two ends are swapped.
InterfacesSwapped(r) ==
  << [node |-> r.src, iface |-> NDevices(r.src), metric |-> AsU32(r.r)],
     [node |-> r.dst, iface |-> NDevices(r.dst), metric |-> AsU32(r.f)] >>

\* Mutant of Interfaces: the index is taken before the installation.
InterfacesBefore(r) ==
  << [node |-> r.src, iface |-> NDevices(r.src) - 1, metric |-> AsU32(r.f)],
     [node |-> r.dst, iface |-> NDevices(r.dst) - 1, metric |-> AsU32(r.r)] >>

\* The two devices p2p.Install adds for a row, each the last of its node.
Interfaces(r) ==
  << [node |-> r.src, iface |-> NDevices(r.src), metric |-> AsU32(r.f)],
     [node |-> r.dst, iface |-> NDevices(r.dst), metric |-> AsU32(r.r)] >>

\* Mutant of IfaceAddresses: the second wrap forgets the third byte.
IfaceAddressesOneWrap ==
  LET ip1 == Wrapped(counter, IfaceWrap)
      ip2 == <<ip1[1], Wrapped(After(ip1), IfaceWrap)[2]>>
  IN <<ip1, ip2, After(ip2)>>

\* ip1, ip2 and the counter after them; each draw may wrap.
IfaceAddresses ==
  LET ip1 == Wrapped(counter, IfaceWrap)
      ip2 == Wrapped(After(ip1), IfaceWrap)
  IN <<ip1, ip2, After(ip2)>>

\* map::insert keeps what is already there.
Insert(f, k, v) == [x \in DOMAIN f \cup {k} |-> IF x \in DOMAIN f THEN f[x] ELSE v]
Assign(f, k, v) == [x \in DOMAIN f \cup {k} |-> IF x = k THEN v ELSE f[x]]

InstallLink ==
  /\ stage = "links" /\ row <= Len(rows)
  /\ LET r == rows[row]
         i == Interfaces(r)
         a == IfaceAddresses
         Key(k) == <<i[k].node, i[k].iface>>
     IN /\ devs' = [n \in DOMAIN devs |->
                      devs[n] \o (IF n = r.src + 1 THEN << <<row, 0>> >> ELSE <<>>)
                              \o (IF n = r.dst + 1 THEN << <<row, 1>> >> ELSE <<>>)]
        /\ metrics' = Insert(Insert(metrics, Key(1), i[1].metric), Key(2), i[2].metric)
        /\ addr' = Assign(Assign(addr, Key(1), a[1]), Key(2), a[2])
        /\ counter' = a[3]
        /\ delays' = Append(delays, r.delay)
  /\ row' = row + 1
  /\ UNCHANGED <<vars, stage, nNodes, lo, loNext, cost>>

LinksDone ==
  /\ stage = "links" /\ row > Len(rows)
  /\ stage' = "bird"
  /\ UNCHANGED <<vars, nNodes, row, devs, delays, metrics, addr, counter, lo, loNext, cost>>

-----------------------------------------------------------------------------
(* ConfigureBird                                                           *)

\* The cost of an interface in node n's bird.conf.
CostOf(n, iface) ==
  IF <<n, iface>> \in DOMAIN metrics THEN metrics[<<n, iface>>] ELSE 0

\* One node: its loopback address and its bird.conf.
ConfigureNode ==
  /\ stage = "bird" /\ Len(lo) < nNodes
  /\ LET n == Len(lo)
         a == Wrapped(loNext, LoWrap)
     IN /\ lo' = Append(lo, a)
        /\ loNext' = After(a)
        /\ cost' = Append(cost, [i \in DOMAIN devs[n + 1] |-> CostOf(n, i - 1)])
  /\ UNCHANGED <<vars, stage, nNodes, row, devs, delays, metrics, addr, counter>>

NodesDone ==
  /\ stage = "bird" /\ Len(lo) = nNodes
  /\ stage' = IF Check THEN "checking" ELSE "ready"
  /\ UNCHANGED <<vars, nNodes, row, devs, delays, metrics, addr, counter, lo, loNext, cost>>

-----------------------------------------------------------------------------
(* The .check file and test.py                                             *)

\* The node at the other end of a device, as the corrected code at
\* NtfTopoGen.cc:374 finds it.
Peer(d) == (CHOOSE n \in DOMAIN devs : Contains(devs[n], <<d[1], 1 - d[2]>>)) - 1

\* generated_topo: a line per device of each node.
Generated ==
  FlattenSeq([n \in DOMAIN devs |-> [i \in DOMAIN devs[n] |->
    LET d == devs[n][i] IN Plain(map[n], map[Peer(d) + 1], cost[n][i], delays[d[1]])]])

\* The parser has read the topology to its end and written a .map.
MapWritten == pos > Len(Lines)

\* Mutant of TestPasses: links that the file does not have are not looked for.
TestFindsLines ==
  MapWritten /\ \A i \in DOMAIN Lines : Contains(Generated, Text(Lines[i]))

\* Every line of the file is removed from the generated topology once, and
\* nothing is left.  Without a .map the script fails.
TestPasses ==
  MapWritten /\ ToBag(Generated) = ToBag([i \in DOMAIN Lines |-> Text(Lines[i])])

\* NS_ABORT_MSG_IF
Verify ==
  /\ stage = "checking"
  /\ stage' = IF TestPasses THEN "ready" ELSE "aborted"
  /\ UNCHANGED <<vars, nNodes, row, devs, delays, metrics, addr, counter, lo, loNext, cost>>

TopoEnded == stage \in {"ready", "aborted"} \/ (file.kind = "failures" /\ Ended)

TopoNext ==
  \/ Parse \/ ReadRows \/ InstallLink \/ LinksDone \/ ConfigureNode \/ NodesDone \/ Verify
  \/ TopoEnded /\ UNCHANGED allVars

TopoSpec == TopoInit /\ [][TopoNext]_allVars

-----------------------------------------------------------------------------
(* Properties                                                              *)

\* Every interface has one address, one metric and one cost entry in its
\* node's bird.conf, and belongs to an installed link.
NetOK ==
  /\ DOMAIN metrics = DOMAIN addr
  /\ DOMAIN addr = UNION { {n} \X (0..(NDevices(n) - 1)) : n \in {m - 1 : m \in DOMAIN devs} }
  /\ \A n \in DOMAIN cost : DOMAIN cost[n] = DOMAIN devs[n]
  /\ \A n \in DOMAIN devs : \A i \in DOMAIN devs[n] : devs[n][i][1] \in DOMAIN delays

\* No two interfaces, and no two loopbacks, share an address, also when a
\* counter wraps between the two ends of a link.
AddressesDistinct == IsInjective(addr) /\ IsInjective(lo)

\* What BIRD will be told of link c from its end e.
Told(c, e) ==
  LET n == CHOOSE m \in DOMAIN devs : Contains(devs[m], <<c, e>>)
      i == CHOOSE j \in DOMAIN devs[n] : devs[n][j] = <<c, e>>
  IN <<n, cost[n][i]>>

\* The network that a checked simulation starts on is the one of its file:
\* for each link, the cost that each end's bird.conf gives it and its delay
\* are those of a line of its own, and no line is without its link.
ReadyFaithful ==
  stage = "ready" /\ Check =>
    ToBag(FlattenSeq([c \in DOMAIN delays |->
            LET s == Told(c, 0)  t == Told(c, 1)
            IN << Plain(map[s[1]], map[t[1]], s[2], delays[c]),
                  Plain(map[t[1]], map[s[1]], t[2], delays[c]) >>]))
      = ToBag([i \in DOMAIN Lines |-> Text(Lines[i])])

\* A well-formed and connected topology, whose metrics fit their type, is
\* simulated: no order of its lines makes the check abort.
WellFormedRuns ==
  stage \in {"ready", "aborted"} /\ WellFormed /\ FileConnected
    /\ (\A i \in DOMAIN Lines : Lines[i].metric < U32)
  => stage = "ready"

\* gen_addresses() of spfs.py and fib_parser.py wraps one address later.
Scripted(n) == <<n \div LoWrap, 1 + (n % LoWrap)>>

\* Below the wrap, the loopback addresses are those spfs.py and fib_parser.py
\* compute, and the last byte less one, by which fib_parser.py and udp_parser.py
\* tell the nodes (fib_parser.py:31, udp_parser.py:77), is the node's number.
LoAgreesBelowWrap ==
  \A n \in DOMAIN lo : n < LoWrap => lo[n] = Scripted(n - 1) /\ lo[n][2] - 1 = n - 1

\* A topology with a link that the parser rejects is not simulated.
RejectedNeverRuns == stage = "ready" /\ Lines # <<>> => status = "accepted"
=============================================================================
