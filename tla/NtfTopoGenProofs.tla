--------------------------- MODULE NtfTopoGenProofs ---------------------------
(***************************************************************************)
(* For every set of files, of .map files and every value of the wraps: the *)
(* network and the programs started on it leave the parser to its own      *)
(* specification, no two interfaces and no two loopbacks share an address, *)
(* a network that passed the check is the one of its file, a well-formed   *)
(* file passes it, spfs.py reads a file that passed it if its layout       *)
(* allows, and its clients reach every node.                               *)
(*                                                                         *)
(* AddressesDistinct is not inductive: nothing in it keeps the next        *)
(* address of a counter from being in use.  Ahead adds that each counter   *)
(* is greater, its third byte first, than every address drawn from it.     *)
(*                                                                         *)
(* The check of test.py compares two lists as bags.  The lines of the      *)
(* devices by node and those of the links are the same elements in another *)
(* order and grouping: SameElements makes their bags equal.                *)
(*                                                                         *)
(* WellFormedRuns only relates the file to the end.  TraceInv follows the  *)
(* rows through the build: each device is in the place, and each cost is   *)
(* the metric, that the row of its link says, so that the lines which the  *)
(* check sees are those that the rows express, and these are the file's    *)
(* (TopologyFaithful).                                                     *)
(***************************************************************************)
EXTENDS PingSetup, NtfParserProofs

-----------------------------------------------------------------------------
(* The parser in its pipe                                                  *)

\* Building the network takes only the parser's steps on the parser's state:
\* what is proved of ntf_parser.py alone holds here.
THEOREM TopoImplementsParser == TopoSpec => Spec
<1>1. TopoInit => Init
  BY DEF TopoInit
<1>2. [TopoNext]_allVars => [Next]_vars
  BY DEF TopoNext, allVars, Parse, ReadRows, InstallLink, LinksDone, ConfigureNode, NodesDone,
         Verify, Next
<1> QED  BY <1>1, <1>2, PTL DEF TopoSpec, Spec

\* Starting the programs takes only the network's steps on the network.
THEOREM PingImplementsTopo == PingSpec => TopoSpec
<1>1. PingInit => TopoInit
  BY DEF PingInit
<1>2. [PingNext]_<<allVars, pingVars>> => [TopoNext]_allVars
  BY DEF PingNext, SetUp, NoPings, Spfs, StartClients, StartNode, TopoNext
<1> QED  BY <1>1, <1>2, PTL DEF PingSpec, TopoSpec

\* No step changes the file.
LEMMA FileSame ==
  ASSUME [PingNext]_<<allVars, pingVars>>
  PROVE  file' = file
BY DEF PingNext, SetUp, NoPings, Spfs, StartClients, StartNode, Parse, ReadRows, InstallLink, LinksDone,
       ConfigureNode, NodesDone, Verify, ReadLine, ReadOn, Unexpected, EndReading, PrintPair, UnknownName,
       Finish, allVars, vars

-----------------------------------------------------------------------------
(* Addresses                                                               *)

Addresses == Nat \X Nat

Below(a, b) == a[1] < b[1] \/ (a[1] = b[1] /\ a[2] < b[2])

\* coming is an address greater than each of the addresses given.
Ahead(coming, given) ==
  /\ coming \in Addresses
  /\ \A k \in DOMAIN given : given[k] \in Addresses /\ Below(given[k], coming)

CountersAhead ==
  /\ Ahead(counter, addr) /\ Ahead(loNext, lo)
  /\ lo \in Seq(Addresses)

AddrInv == AddressesDistinct /\ CountersAhead

\* A counter never goes back, and the address after it is greater.
LEMMA WrappedAhead ==
  ASSUME NEW c \in Addresses, NEW w \in Nat
  PROVE  /\ Wrapped(c, w) \in Addresses
         /\ \A a \in Addresses : Below(a, c) => Below(a, Wrapped(c, w))
         /\ After(Wrapped(c, w)) \in Addresses
         /\ \A a \in Addresses : Below(a, c) => Below(a, After(Wrapped(c, w)))
         /\ Below(Wrapped(c, w), After(Wrapped(c, w)))
  BY SMT DEF Wrapped, After, Addresses, Below

LEMMA BelowIrreflexive ==
  ASSUME NEW a \in Addresses, NEW b \in Addresses, Below(a, b)
  PROVE  a # b
  BY SMT DEF Addresses, Below

LEMMA BelowTransitive ==
  ASSUME NEW a \in Addresses, NEW b \in Addresses, NEW c \in Addresses,
         Below(a, b), Below(b, c)
  PROVE  Below(a, c)
  BY SMT DEF Addresses, Below

\* A function that gets one more address, not below the counter, stays
\* injective and behind the counter that has passed it.
LEMMA GiveOne ==
  ASSUME NEW f, NEW c \in Addresses, Ahead(c, f), IsInjective(f),
         NEW k, NEW a \in Addresses, NEW d \in Addresses,
         \A x \in Addresses : Below(x, c) => Below(x, a) /\ Below(x, d),
         Below(a, d)
  PROVE  IsInjective(Assign(f, k, a)) /\ Ahead(d, Assign(f, k, a))
<1> DEFINE g == Assign(f, k, a)
<1>1. /\ DOMAIN g = {k} \cup DOMAIN f
      /\ g[k] = a
      /\ \A x \in DOMAIN f : x # k => g[x] = f[x]
  BY DEF Assign
<1>2. \A x \in DOMAIN f : f[x] \in Addresses /\ Below(f[x], a) /\ Below(f[x], d) /\ f[x] # a
  BY BelowIrreflexive DEF Ahead
<1>3. \A x, y \in DOMAIN f : f[x] = f[y] => x = y
  BY DEF IsInjective
<1> HIDE DEF g
<1>4. IsInjective(g)
  BY <1>1, <1>2, <1>3 DEF IsInjective
<1>5. Ahead(d, g)
  BY <1>1, <1>2 DEF Ahead
<1> QED  BY <1>4, <1>5 DEF g

\* The same for a sequence.
LEMMA AppendOne ==
  ASSUME NEW s \in Seq(Addresses), NEW c \in Addresses, Ahead(c, s), IsInjective(s),
         NEW a \in Addresses, NEW d \in Addresses,
         \A x \in Addresses : Below(x, c) => Below(x, a) /\ Below(x, d),
         Below(a, d)
  PROVE  /\ Append(s, a) \in Seq(Addresses)
         /\ IsInjective(Append(s, a)) /\ Ahead(d, Append(s, a))
<1> DEFINE g == Append(s, a)
           n == Len(s) + 1
<1>1. /\ DOMAIN g = 1..n /\ DOMAIN s = 1..Len(s) /\ Len(s) \in Nat
      /\ g[n] = a
      /\ \A x \in DOMAIN s : g[x] = s[x]
      /\ g \in Seq(Addresses)
  BY SMT
<1>2. \A x \in DOMAIN s : s[x] \in Addresses /\ Below(s[x], a) /\ Below(s[x], d) /\ s[x] # a
  BY BelowIrreflexive DEF Ahead
<1>3. \A x, y \in DOMAIN s : s[x] = s[y] => x = y
  BY DEF IsInjective
<1>a. DOMAIN g = DOMAIN s \cup {n}
  BY <1>1, SMT
<1> HIDE DEF g, n
<1>4. IsInjective(g)
  BY <1>1, <1>2, <1>3, <1>a DEF IsInjective
<1>5. Ahead(d, g)
  BY <1>1, <1>2, <1>a DEF Ahead
<1> QED  BY <1>1, <1>4, <1>5 DEF g

-----------------------------------------------------------------------------
(* The invariant                                                           *)

LEMMA AddrInit == TopoInit => AddrInv
<1> SUFFICES ASSUME TopoInit PROVE AddrInv  OBVIOUS
<1>1. addr = <<>> /\ lo = <<>> /\ counter = <<0, 1>> /\ loNext = <<0, 1>>
  BY DEF TopoInit
<1>2. DOMAIN addr = {} /\ DOMAIN lo = {} /\ lo \in Seq(Addresses)
  BY <1>1, SMT
<1>3. counter \in Addresses /\ loNext \in Addresses
  BY <1>1, SMT DEF Addresses
<1> QED  BY <1>2, <1>3 DEF AddrInv, AddressesDistinct, CountersAhead, Ahead, IsInjective

LEMMA AddrNext == AddrInv /\ [TopoNext]_allVars => AddrInv'
<1> SUFFICES ASSUME AddrInv, [TopoNext]_allVars PROVE AddrInv'  OBVIOUS
<1>0. IfaceWrap \in Nat /\ LoWrap \in Nat
  BY NtfTopoGenAssumption
<1>a. ASSUME UNCHANGED <<addr, counter, lo, loNext>> PROVE AddrInv'
  BY <1>a DEF AddrInv, AddressesDistinct, CountersAhead, Ahead, IsInjective
<1>1. CASE InstallLink
  <2> DEFINE ip1 == Wrapped(counter, IfaceWrap)
             ip2 == Wrapped(After(ip1), IfaceWrap)
  <2>1. UNCHANGED <<lo, loNext>>
    BY <1>1 DEF InstallLink
  <2>2. PICK k1, k2 : addr' = Assign(Assign(addr, k1, ip1), k2, ip2)
    BY <1>1 DEF InstallLink, IfaceAddresses
  <2>3. counter' = After(ip2)
    BY <1>1 DEF InstallLink, IfaceAddresses
  <2> DEFINE once == Assign(addr, k1, ip1)
  <2>4. /\ Ahead(counter, addr) /\ IsInjective(addr) /\ counter \in Addresses
    BY DEF AddrInv, AddressesDistinct, CountersAhead, Ahead
  <2>5. /\ ip1 \in Addresses /\ After(ip1) \in Addresses /\ Below(ip1, After(ip1))
        /\ \A x \in Addresses : Below(x, counter) => Below(x, ip1) /\ Below(x, After(ip1))
    BY <1>0, <2>4, WrappedAhead
  <2>6. /\ ip2 \in Addresses /\ After(ip2) \in Addresses /\ Below(ip2, After(ip2))
        /\ \A x \in Addresses : Below(x, After(ip1)) => Below(x, ip2) /\ Below(x, After(ip2))
    BY <1>0, <2>5, WrappedAhead
  <2> HIDE DEF ip1, ip2
  <2>7. IsInjective(once) /\ Ahead(After(ip1), once)
    BY <2>4, <2>5, GiveOne
  <2> HIDE DEF once
  <2>8. IsInjective(Assign(once, k2, ip2)) /\ Ahead(After(ip2), Assign(once, k2, ip2))
    BY <2>5, <2>6, <2>7, GiveOne
  <2>9. IsInjective(addr)' /\ Ahead(counter, addr)'
    BY <2>2, <2>3, <2>8 DEF once
  <2> QED
    BY <2>1, <2>9 DEF AddrInv, AddressesDistinct, CountersAhead, Ahead
<1>2. CASE ConfigureNode
  <2> DEFINE a == Wrapped(loNext, LoWrap)
  <2>1. lo' = Append(lo, a) /\ loNext' = After(a) /\ UNCHANGED <<addr, counter>>
    BY <1>2 DEF ConfigureNode
  <2>2. /\ Ahead(loNext, lo) /\ IsInjective(lo) /\ lo \in Seq(Addresses) /\ loNext \in Addresses
    BY DEF AddrInv, AddressesDistinct, CountersAhead, Ahead
  <2>3. /\ a \in Addresses /\ After(a) \in Addresses /\ Below(a, After(a))
        /\ \A x \in Addresses : Below(x, loNext) => Below(x, a) /\ Below(x, After(a))
    BY <1>0, <2>2, WrappedAhead
  <2> HIDE DEF a
  <2>4. /\ Append(lo, a) \in Seq(Addresses)
        /\ IsInjective(Append(lo, a)) /\ Ahead(After(a), Append(lo, a))
    BY <2>2, <2>3, AppendOne
  <2> QED
    BY <2>1, <2>4 DEF AddrInv, AddressesDistinct, CountersAhead, Ahead
<1>3. CASE UNCHANGED allVars
  BY <1>3, <1>a DEF allVars, netVars
<1>4. CASE Parse
  BY <1>4, <1>a DEF Parse, netVars
<1>5. CASE ReadRows \/ LinksDone \/ NodesDone \/ Verify
  BY <1>5, <1>a DEF ReadRows, LinksDone, NodesDone, Verify
<1> QED
  BY <1>1, <1>2, <1>3, <1>4, <1>5 DEF TopoNext

\* Distinct addresses, for any topology: AddressesDistinct in every state.
THEOREM AddressesAlwaysDistinct == TopoSpec => []AddressesDistinct
<1>1. AddrInv => AddressesDistinct
  BY DEF AddrInv
<1> QED  BY AddrInit, AddrNext, <1>1, PTL DEF TopoSpec

-----------------------------------------------------------------------------
(* The addresses that the scripts compute                                  *)

\* Until its first wrap the loopbacks' counter has counted the nodes.
LoInv ==
  /\ lo \in Seq(Addresses)
  /\ \A n \in DOMAIN lo : n < LoWrap => lo[n] = <<0, n>>
  /\ Len(lo) < LoWrap => loNext = <<0, Len(lo) + 1>>

LEMMA QuotientBelow ==
  ASSUME NEW n \in Nat, NEW w \in Nat \ {0}, n < w
  PROVE  n \div w = 0 /\ n % w = n
  BY SMT

LEMMA LoInit == TopoInit => LoInv
<1> SUFFICES ASSUME TopoInit PROVE LoInv  OBVIOUS
<1>1. lo = <<>> /\ loNext = <<0, 1>>
  BY DEF TopoInit
<1> QED  BY <1>1, SMT DEF LoInv

LEMMA LoNext == AddrInv /\ LoInv /\ [TopoNext]_allVars => LoInv'
<1> SUFFICES ASSUME AddrInv, LoInv, [TopoNext]_allVars PROVE LoInv'  OBVIOUS
<1>0. LoWrap \in Nat /\ LoWrap > 1
  BY NtfTopoGenAssumption, SMT
<1>a. ASSUME UNCHANGED <<lo, loNext>> PROVE LoInv'
  BY <1>a DEF LoInv
<1>1. CASE ConfigureNode
  <2> DEFINE a == Wrapped(loNext, LoWrap)
  <2>1. lo' = Append(lo, a) /\ loNext' = After(a)
    BY <1>1 DEF ConfigureNode
  <2>2. lo \in Seq(Addresses) /\ loNext \in Addresses
    BY DEF LoInv, AddrInv, CountersAhead, Ahead
  <2>3. a \in Addresses
    BY <1>0, <2>2, WrappedAhead
  <2>4. Len(lo) + 1 < LoWrap => a = <<0, Len(lo) + 1>>
    BY <1>0, <2>2, SMT DEF LoInv, Wrapped
  <2> HIDE DEF a
  <2>5. lo' \in Seq(Addresses) /\ Len(lo') = Len(lo) + 1 /\ Len(lo) \in Nat
    BY <2>1, <2>2, <2>3, SMT
  <2>6. ASSUME NEW n \in DOMAIN lo', n < LoWrap PROVE lo'[n] = <<0, n>>
    BY <1>0, <2>1, <2>2, <2>3, <2>4, <2>6, SMT DEF LoInv
  <2>7. ASSUME Len(lo') < LoWrap PROVE loNext' = <<0, Len(lo') + 1>>
    BY <2>1, <2>4, <2>5, <2>7, SMT DEF After
  <2> QED  BY <2>5, <2>6, <2>7 DEF LoInv
<1>2. CASE UNCHANGED allVars
  BY <1>2, <1>a DEF allVars, netVars
<1>3. CASE Parse
  BY <1>3, <1>a DEF Parse, netVars
<1>4. CASE ReadRows \/ InstallLink \/ LinksDone \/ NodesDone \/ Verify
  BY <1>4, <1>a DEF ReadRows, InstallLink, LinksDone, NodesDone, Verify
<1> QED
  BY <1>1, <1>2, <1>3, <1>4 DEF TopoNext

\* Below the wrap, the simulator gives a node the loopback address that
\* spfs.py and fib_parser.py compute for it, and its last byte less one is the
\* node's number, as fib_parser.py and udp_parser.py take it: for any number of
\* nodes.
THEOREM LoopbacksAgree == TopoSpec => []LoAgreesBelowWrap
<1>1. LoInv => LoAgreesBelowWrap
  <2> SUFFICES ASSUME LoInv, NEW n \in DOMAIN lo, n < LoWrap
               PROVE  lo[n] = Scripted(n - 1) /\ lo[n][2] - 1 = n - 1
    BY DEF LoAgreesBelowWrap
  <2>1. n \in Nat \ {0} /\ LoWrap \in Nat \ {0}
    BY NtfTopoGenAssumption, SMT DEF LoInv
  <2>2. (n - 1) \div LoWrap = 0 /\ (n - 1) % LoWrap = n - 1
    BY <2>1, QuotientBelow, SMT
  <2>3. Scripted(n - 1) = <<0, n>>
    BY <2>1, <2>2, SMT DEF Scripted
  <2>4. lo[n] = <<0, n>>
    BY DEF LoInv
  <2> QED  BY <2>3, <2>4
<1> QED  BY AddrInit, AddrNext, LoInit, LoNext, <1>1, PTL DEF TopoSpec
-----------------------------------------------------------------------------
(* The network                                                             *)

Device == Nat \X {0, 1}

\* The interfaces of the nodes, from 0 as in ns-3.
Ifaces == UNION { {<<n - 1, i - 1>> : i \in DOMAIN devs[n]} : n \in DOMAIN devs }

\* While the script runs there is no network yet; then its rows do not change
\* any more, and each of them joins two different nodes of the network.
StageOK ==
  /\ stage = "parsing" => /\ row = 1 /\ devs = <<>> /\ delays = <<>>
                          /\ metrics = <<>> /\ addr = <<>> /\ cost = <<>>
  /\ stage # "parsing" =>
       /\ Ended
       /\ \A i \in DOMAIN rows : /\ {rows[i].src, rows[i].dst} \subseteq 0..(Len(devs) - 1)
                                 /\ rows[i].src # rows[i].dst

\* Only links that were installed have devices, and those are all numbered
\* in metrics and addr.
DevicesOK ==
  /\ devs \in Seq(Seq(Device))
  /\ delays \in Seq(Nat) /\ row = Len(delays) + 1
  /\ \A n \in DOMAIN devs : \A i \in DOMAIN devs[n] : devs[n][i][1] \in DOMAIN delays
  /\ DOMAIN metrics = Ifaces /\ DOMAIN addr = Ifaces

\* The costs are written when no device is added any more.
CostsOK ==
  /\ stage = "links" => cost = <<>>
  /\ IsSequence(cost) /\ Len(cost) = Len(lo) /\ lo \in Seq(Addresses)
  /\ Len(lo) <= nNodes /\ nNodes = Len(devs)
  /\ \A n \in DOMAIN cost : DOMAIN cost[n] = DOMAIN devs[n]

\* Each end of each installed link has one device.
EndsOK ==
  /\ \A n, m \in DOMAIN devs : \A i \in DOMAIN devs[n], j \in DOMAIN devs[m] :
       devs[n][i] = devs[m][j] => n = m /\ i = j
  /\ \A c \in DOMAIN delays, e \in {0, 1} :
       \E n \in DOMAIN devs : \E i \in DOMAIN devs[n] : devs[n][i] = <<c, e>>

NetInv == StageOK /\ DevicesOK /\ CostsOK /\ EndsOK

LEMMA RowFields ==
  ASSUME ParserInv, NEW i \in DOMAIN rows
  PROVE  rows[i].src \in 0..(Len(map) - 1) /\ rows[i].dst \in 0..(Len(map) - 1) /\ rows[i].delay \in Nat
<1>1. rows[i] \in Row
  BY DEF ParserInv, RowsOK
<1> QED  BY <1>1 DEF Row

\* The number of nodes leaves room for every number in the rows.
LEMMA Highest ==
  ASSUME ParserInv
  PROVE  /\ HighestId \in Nat /\ (HighestId = 0 \/ HighestId <= Len(map) - 1)
         /\ \A i \in DOMAIN rows : rows[i].src <= HighestId /\ rows[i].dst <= HighestId
<1> DEFINE S == {0} \cup UNION { {rows[i].src, rows[i].dst} : i \in DOMAIN rows }
           b == Len(map)
           T == { b - x : x \in S }
<1>1. b \in Nat
  BY Indices DEF ParserInv, InputOK
<1>2. \A x \in S : x \in Nat /\ x <= b /\ (x = 0 \/ x <= b - 1)
  <2>1. \A i \in DOMAIN rows : rows[i].src \in 0..(b - 1) /\ rows[i].dst \in 0..(b - 1)
    BY RowFields
  <2> HIDE DEF b
  <2> QED  BY <1>1, <2>1
<1>3. 0 \in S /\ \A i \in DOMAIN rows : rows[i].src \in S /\ rows[i].dst \in S
  OBVIOUS
<1>4. HighestId = CHOOSE x \in S : \A y \in S : x >= y
  BY DEF HighestId, Max
<1> HIDE DEF b, S
<1>5. T \in SUBSET Nat /\ T # {}
  BY <1>1, <1>2, <1>3
<1>6. PICK t \in T : \A u \in T : t <= u
  BY <1>5, Least
<1>7. PICK x \in S : t = b - x
  BY <1>6
<1>8. \A y \in S : x >= y
  <2> SUFFICES ASSUME NEW y \in S PROVE x >= y  OBVIOUS
  <2>1. b - x <= b - y
    BY <1>6, <1>7
  <2> QED  BY <1>1, <1>2, <2>1
<1>9. HighestId \in S /\ \A y \in S : HighestId >= y
  BY <1>4, <1>8
<1> QED  BY <1>2, <1>3, <1>9 DEF b

\* A row of a topology joins two different nodes.
LEMMA RowEnds ==
  ASSUME ParserInv, file \in Files, file.kind = "topology", NEW i \in DOMAIN rows
  PROVE  rows[i].src # rows[i].dst
<1>1. PICK j \in DOMAIN Lines :
        {map[rows[i].src + 1], map[rows[i].dst + 1]} = {Lines[j].src, Lines[j].dst}
  BY DEF ParserInv, RowsOK, Stems
<1>2. Lines[j].src # Lines[j].dst
  BY NtfTopoGenAssumption DEF Lines
<1> QED  BY <1>1, <1>2

LEMMA NetInit == TopoInit => NetInv
<1> SUFFICES ASSUME TopoInit PROVE NetInv  OBVIOUS
<1>1. /\ stage = "parsing" /\ nNodes = 0 /\ row = 1 /\ devs = <<>> /\ delays = <<>>
      /\ metrics = <<>> /\ addr = <<>> /\ lo = <<>> /\ cost = <<>>
  BY DEF TopoInit
<1>2. DOMAIN devs = {} /\ DOMAIN metrics = {} /\ DOMAIN addr = {} /\ Ifaces = {}
  BY <1>1 DEF Ifaces
<1>3. DevicesOK
  BY <1>1, <1>2 DEF DevicesOK
<1>4. CostsOK
  BY <1>1 DEF CostsOK, IsSequence
<1>5. EndsOK
  BY <1>1 DEF EndsOK
<1> QED  BY <1>1, <1>3, <1>4, <1>5 DEF NetInv, StageOK

LEMMA ReadRowsInv ==
  ASSUME NetInv, ParserInv, file \in Files, ReadRows PROVE NetInv'
<1> DEFINE h == HighestId
<1>1. /\ stage = "parsing" /\ file.kind = "topology" /\ Ended
      /\ nNodes' = 1 + h /\ devs' = [n \in 1..nNodes' |-> <<>>] /\ stage' = "links"
      /\ UNCHANGED <<vars, row, delays, metrics, addr, lo, cost>>
  BY DEF ReadRows
<1>2. /\ row = 1 /\ delays = <<>> /\ metrics = <<>> /\ addr = <<>> /\ cost = <<>>
      /\ devs = <<>>
  BY <1>1 DEF NetInv, StageOK
<1>3. h \in Nat /\ \A i \in DOMAIN rows : rows[i].src <= h /\ rows[i].dst <= h
  BY Highest
<1> HIDE DEF h
<1>4. /\ devs' \in Seq(Seq(Device)) /\ Len(devs') = 1 + h /\ DOMAIN devs' = 1..(1 + h)
      /\ \A n \in DOMAIN devs' : devs'[n] = <<>>
  BY <1>1, <1>3
<1>5. Ended' /\ rows' = rows
  BY <1>1 DEF Ended, vars
<1>6. StageOK'
  <2>1. \A i \in DOMAIN rows : rows[i].src \in Nat /\ rows[i].dst \in Nat
    BY RowFields
  <2>2. \A i \in DOMAIN rows : {rows[i].src, rows[i].dst} \subseteq 0..(Len(devs') - 1)
    BY <1>3, <1>4, <2>1
  <2>3. \A i \in DOMAIN rows : rows[i].src # rows[i].dst
    BY <1>1, RowEnds
  <2> QED  BY <1>1, <1>5, <2>2, <2>3 DEF StageOK
<1>7. DevicesOK'
  <2>1. Ifaces' = {}
    BY <1>4 DEF Ifaces
  <2>2. DOMAIN metrics' = {} /\ DOMAIN addr' = {}
    BY <1>1, <1>2
  <2>3. delays' = <<>> /\ row' = 1
    BY <1>1, <1>2
  <2> QED  BY <1>4, <2>1, <2>2, <2>3 DEF DevicesOK
<1>8. CostsOK'
  <2>1. Len(devs) = 0 /\ Len(lo) \in Nat /\ Len(lo) <= 0 /\ Len(cost) = Len(lo)
        /\ lo \in Seq(Addresses)
    BY <1>2 DEF NetInv, CostsOK
  <2>2. cost' = <<>> /\ lo' = lo
    BY <1>1, <1>2
  <2> QED  BY <1>1, <1>3, <1>4, <2>1, <2>2 DEF CostsOK, IsSequence
<1>9. EndsOK'
  <2>1. DOMAIN delays' = {} /\ \A n \in DOMAIN devs' : DOMAIN devs'[n] = {}
    BY <1>1, <1>2, <1>4
  <2> QED  BY <2>1 DEF EndsOK
<1> QED  BY <1>6, <1>7, <1>8, <1>9 DEF NetInv

LEMMA InstallLinkInv ==
  ASSUME NetInv, ParserInv, InstallLink PROVE NetInv'
<1> DEFINE r == rows[row]
           x == r.src + 1
           y == r.dst + 1
           k1 == <<r.src, NDevices(r.src)>>
           k2 == <<r.dst, NDevices(r.dst)>>
<1>1. /\ stage = "links" /\ row \in DOMAIN rows
      /\ devs' = [n \in DOMAIN devs |->
                    devs[n] \o (IF n = x THEN << <<row, 0>> >> ELSE <<>>)
                            \o (IF n = y THEN << <<row, 1>> >> ELSE <<>>)]
      /\ delays' = Append(delays, r.delay) /\ row' = row + 1
      /\ UNCHANGED <<vars, stage, nNodes, lo, cost>>
  <2>1. row \in Nat \ {0} /\ DOMAIN rows = 1..Len(rows)
    BY DEF NetInv, DevicesOK, ParserInv, RowsOK
  <2>2. row <= Len(rows) /\ Len(rows) \in Nat
    BY DEF InstallLink, ParserInv, RowsOK
  <2> QED  BY <2>1, <2>2 DEF InstallLink
<1>2. DOMAIN metrics' = DOMAIN metrics \cup {k1, k2} /\ DOMAIN addr' = DOMAIN addr \cup {k1, k2}
  BY DEF InstallLink, Interfaces, Insert, Assign
<1>3. /\ devs \in Seq(Seq(Device)) /\ delays \in Seq(Nat) /\ row = Len(delays) + 1
      /\ DOMAIN metrics = Ifaces /\ DOMAIN addr = Ifaces /\ DOMAIN devs = 1..Len(devs)
      /\ \A n \in DOMAIN devs : \A i \in DOMAIN devs[n] : devs[n][i][1] \in DOMAIN delays
  BY DEF NetInv, DevicesOK
<1>4. /\ r.src # r.dst /\ r.src \in Nat /\ r.dst \in Nat /\ r.delay \in Nat
      /\ x \in DOMAIN devs /\ y \in DOMAIN devs /\ x # y
  <2>1. r.delay \in Nat
    BY <1>1, RowFields
  <2>2. r.src \in 0..(Len(devs) - 1) /\ r.dst \in 0..(Len(devs) - 1) /\ r.src # r.dst
    BY <1>1 DEF NetInv, StageOK
  <2> HIDE DEF r
  <2>3. Len(devs) \in Nat /\ DOMAIN devs = 1..Len(devs)
    BY <1>3
  <2>4. ASSUME NEW l \in Nat, NEW a \in 0..(l - 1) PROVE a \in Nat /\ a + 1 \in 1..l
    OBVIOUS
  <2>5. r.src \in Nat /\ r.dst \in Nat /\ x \in DOMAIN devs /\ y \in DOMAIN devs
    BY <2>2, <2>3, <2>4
  <2> QED  BY <2>1, <2>2, <2>5
<1>5. r.src = x - 1 /\ r.dst = y - 1 /\ x \in Nat /\ y \in Nat
  BY <1>4
<1>6. k1 = <<x - 1, Len(devs[x])>> /\ k2 = <<y - 1, Len(devs[y])>>
  <2>1. k1 = <<r.src, Len(devs[x])>> /\ k2 = <<r.dst, Len(devs[y])>>
    BY DEF NDevices
  <2> HIDE DEF r, x, y, k1, k2
  <2> QED  BY <1>5, <2>1
<1> DEFINE d1 == <<row, 0>>
           d2 == <<row, 1>>
<1>7. d1 \in Device /\ d2 \in Device /\ d1[1] = row /\ d2[1] = row
  BY <1>3 DEF Device
<1> HIDE DEF r, x, y, k1, k2, d1, d2
<1>8. /\ DOMAIN devs' = DOMAIN devs
      /\ devs'[x] = Append(devs[x], d1) /\ devs'[y] = Append(devs[y], d2)
      /\ \A n \in DOMAIN devs : n # x /\ n # y => devs'[n] = devs[n]
  <2>1. \A n \in DOMAIN devs : devs[n] \in Seq(Device)
    BY <1>3
  <2>2. DOMAIN devs' = DOMAIN devs
    BY <1>1
  <2>3. devs'[x] = devs[x] \o <<d1>> \o <<>>
    BY <1>1, <1>4 DEF d1
  <2>4. devs'[y] = devs[y] \o <<>> \o <<d2>>
    BY <1>1, <1>4 DEF d2
  <2>5. \A n \in DOMAIN devs : n # x /\ n # y => devs'[n] = devs[n] \o <<>> \o <<>>
    BY <1>1
  <2>6. ASSUME NEW s \in Seq(Device), NEW d \in Device
        PROVE  /\ s \o <<d>> \o <<>> = Append(s, d) /\ s \o <<>> \o <<d>> = Append(s, d)
               /\ s \o <<>> \o <<>> = s
    BY <2>6
  <2> QED  BY <1>4, <1>7, <2>1, <2>2, <2>3, <2>4, <2>5, <2>6
<1>9. /\ \A n \in DOMAIN devs : devs'[n] \in Seq(Device)
      /\ devs' \in Seq(Seq(Device)) /\ Len(devs') = Len(devs)
  <2>1. devs[x] \in Seq(Device) /\ devs[y] \in Seq(Device)
    BY <1>3, <1>4
  <2>2. devs'[x] \in Seq(Device) /\ devs'[y] \in Seq(Device)
    BY <1>7, <1>8, <2>1
  <2>3. ASSUME NEW n \in DOMAIN devs PROVE devs'[n] \in Seq(Device)
    <3>1. devs[n] \in Seq(Device)
      BY <1>3
    <3> QED  BY <1>8, <2>2, <3>1
  <2> DEFINE g(n) == devs[n] \o (IF n = x THEN << <<row, 0>> >> ELSE <<>>)
                             \o (IF n = y THEN << <<row, 1>> >> ELSE <<>>)
  <2>4. devs' = [n \in DOMAIN devs |-> g(n)]
    BY <1>1
  <2> HIDE DEF g
  <2>5. devs' \in Seq(Seq(Device)) /\ Len(devs') = Len(devs)
    <3>1. Len(devs) \in Nat /\ DOMAIN devs = 1..Len(devs)
      BY <1>3
    <3>2. \A n \in 1..Len(devs) : g(n) \in Seq(Device)
      BY <2>3, <2>4, <3>1
    <3> QED  BY <2>4, <3>1, <3>2
  <2> QED  BY <2>3, <2>5
<1>10. /\ Len(devs[x]) \in Nat /\ Len(devs[y]) \in Nat
       /\ DOMAIN devs[x] = 1..Len(devs[x]) /\ DOMAIN devs[y] = 1..Len(devs[y])
       /\ DOMAIN devs'[x] = 1..(Len(devs[x]) + 1) /\ DOMAIN devs'[y] = 1..(Len(devs[y]) + 1)
       /\ \A i \in 1..Len(devs[x]) : devs'[x][i] = devs[x][i]
       /\ \A i \in 1..Len(devs[y]) : devs'[y][i] = devs[y][i]
       /\ devs'[x][Len(devs[x]) + 1] = d1 /\ devs'[y][Len(devs[y]) + 1] = d2
  <2>1. devs[x] \in Seq(Device) /\ devs[y] \in Seq(Device)
    BY <1>3, <1>4
  <2> QED  BY <1>7, <1>8, <2>1
<1>11. Ifaces' = Ifaces \cup {k1, k2}
  <2>1. \A i : i \in 1..(Len(devs[x]) + 1) <=> i \in 1..Len(devs[x]) \/ i = Len(devs[x]) + 1
    BY <1>10
  <2>2. \A i : i \in 1..(Len(devs[y]) + 1) <=> i \in 1..Len(devs[y]) \/ i = Len(devs[y]) + 1
    BY <1>10
  <2>3. k1 = <<x - 1, (Len(devs[x]) + 1) - 1>> /\ k2 = <<y - 1, (Len(devs[y]) + 1) - 1>>
    BY <1>6, <1>10
  <2>4. \A n \in DOMAIN devs : \A i :
          i \in DOMAIN devs'[n] <=> \/ i \in DOMAIN devs[n]
                                    \/ n = x /\ i = Len(devs[x]) + 1
                                    \/ n = y /\ i = Len(devs[y]) + 1
    BY <1>4, <1>8, <1>10, <2>1, <2>2
  <2>5. \A k : k \in Ifaces' <=> \E n \in DOMAIN devs : \E i \in DOMAIN devs'[n] : k = <<n - 1, i - 1>>
    BY <1>8 DEF Ifaces
  <2>6. \A k : k \in Ifaces <=> \E n \in DOMAIN devs : \E i \in DOMAIN devs[n] : k = <<n - 1, i - 1>>
    BY DEF Ifaces
  <2>7. \A k \in Ifaces' : k \in Ifaces \cup {k1, k2}
    BY <2>3, <2>4, <2>5, <2>6
  <2>8. \A k \in Ifaces : k \in Ifaces'
    BY <2>4, <2>5, <2>6
  <2>9. k1 \in Ifaces' /\ k2 \in Ifaces'
    BY <1>4, <2>3, <2>4, <2>5
  <2> QED  BY <2>7, <2>8, <2>9
<1>12. /\ delays' \in Seq(Nat) /\ row' = Len(delays') + 1
       /\ DOMAIN delays \subseteq DOMAIN delays' /\ row \in DOMAIN delays'
  <2>1. delays' \in Seq(Nat) /\ Len(delays') = Len(delays) + 1
    BY <1>1, <1>3, <1>4
  <2>2. /\ DOMAIN delays = 1..Len(delays) /\ DOMAIN delays' = 1..Len(delays')
        /\ Len(delays) \in Nat
    BY <1>3, <2>1
  <2>3. row = Len(delays) + 1 /\ row' = row + 1
    BY <1>1, <1>3
  <2> QED  BY <2>1, <2>2, <2>3
<1>13. ASSUME NEW n \in DOMAIN devs', NEW i \in DOMAIN devs'[n]
       PROVE  devs'[n][i][1] \in DOMAIN delays'
  <2>0. n \in DOMAIN devs
    BY <1>8
  <2>1. CASE n # x /\ n # y
    <3>1. devs'[n] = devs[n]
      BY <1>8, <2>0, <2>1
    <3> QED  BY <1>3, <1>12, <1>13, <2>0, <3>1
  <2>2. CASE n = x
    <3>1. i \in 1..Len(devs[x]) \/ i = Len(devs[x]) + 1
      BY <1>10, <1>13, <2>2
    <3>2. CASE i \in 1..Len(devs[x])
      BY <1>3, <1>4, <1>10, <1>12, <2>2, <3>2
    <3>3. CASE i = Len(devs[x]) + 1
      BY <1>7, <1>10, <1>12, <2>2, <3>3
    <3> QED  BY <3>1, <3>2, <3>3
  <2>3. CASE n = y
    <3>1. i \in 1..Len(devs[y]) \/ i = Len(devs[y]) + 1
      BY <1>10, <1>13, <2>3
    <3>2. CASE i \in 1..Len(devs[y])
      BY <1>3, <1>4, <1>10, <1>12, <2>3, <3>2
    <3>3. CASE i = Len(devs[y]) + 1
      BY <1>7, <1>10, <1>12, <2>3, <3>3
    <3> QED  BY <3>1, <3>2, <3>3
  <2> QED  BY <2>1, <2>2, <2>3
<1>14. DevicesOK'
  <2>1. DOMAIN metrics' = Ifaces' /\ DOMAIN addr' = Ifaces'
    BY <1>2, <1>3, <1>11
  <2> QED  BY <1>9, <1>12, <1>13, <2>1 DEF DevicesOK
<1>15. StageOK'
  <2>1. Ended' /\ rows' = rows /\ stage' = "links"
    BY <1>1 DEF NetInv, StageOK, Ended, vars
  <2>2. \A i \in DOMAIN rows : /\ {rows[i].src, rows[i].dst} \subseteq 0..(Len(devs) - 1)
                               /\ rows[i].src # rows[i].dst
    BY <1>1 DEF NetInv, StageOK
  <2> QED  BY <1>9, <2>1, <2>2 DEF StageOK
<1>16. CostsOK'
  <2>1. /\ cost' = <<>> /\ lo' = lo /\ nNodes' = nNodes /\ Len(cost) = Len(lo) /\ cost = <<>>
        /\ lo \in Seq(Addresses) /\ Len(lo) <= nNodes /\ nNodes = Len(devs)
    BY <1>1 DEF NetInv, CostsOK
  <2> QED  BY <1>9, <2>1 DEF CostsOK, IsSequence
<1>17. \A n \in DOMAIN devs' : \A i \in DOMAIN devs'[n] :
         \/ n \in DOMAIN devs /\ i \in DOMAIN devs[n] /\ devs'[n][i] = devs[n][i]
         \/ n = x /\ i = Len(devs[x]) + 1 /\ devs'[n][i] = d1
         \/ n = y /\ i = Len(devs[y]) + 1 /\ devs'[n][i] = d2
  <2> SUFFICES ASSUME NEW n \in DOMAIN devs', NEW i \in DOMAIN devs'[n]
               PROVE  \/ n \in DOMAIN devs /\ i \in DOMAIN devs[n] /\ devs'[n][i] = devs[n][i]
                      \/ n = x /\ i = Len(devs[x]) + 1 /\ devs'[n][i] = d1
                      \/ n = y /\ i = Len(devs[y]) + 1 /\ devs'[n][i] = d2
    OBVIOUS
  <2>1. CASE n # x /\ n # y
    BY <1>8, <2>1
  <2>2. CASE n = x
    <3>1. i \in 1..Len(devs[x]) \/ i = Len(devs[x]) + 1
      BY <1>10, <2>2
    <3> QED  BY <1>4, <1>10, <2>2, <3>1
  <2>3. CASE n = y
    <3>1. i \in 1..Len(devs[y]) \/ i = Len(devs[y]) + 1
      BY <1>10, <2>3
    <3> QED  BY <1>4, <1>10, <2>3, <3>1
  <2> QED  BY <2>1, <2>2, <2>3
<1>18. ~(row \in DOMAIN delays) /\ DOMAIN delays' = DOMAIN delays \cup {row}
  <2>1. Len(delays) \in Nat /\ DOMAIN delays = 1..Len(delays)
    BY <1>3
  <2>2. DOMAIN delays' = 1..(Len(delays) + 1)
    BY <1>1, <1>3, <1>4
  <2> QED  BY <1>3, <2>1, <2>2
<1>19. d1 # d2 /\ d1 = <<row, 0>> /\ d2 = <<row, 1>>
  BY DEF d1, d2
<1>20. ASSUME NEW n \in DOMAIN devs', NEW m \in DOMAIN devs',
              NEW i \in DOMAIN devs'[n], NEW j \in DOMAIN devs'[m], devs'[n][i] = devs'[m][j]
       PROVE  n = m /\ i = j
  <2>1. \A a \in DOMAIN devs : \A b \in DOMAIN devs[a] : devs[a][b] # d1 /\ devs[a][b] # d2
    BY <1>3, <1>7, <1>18
  <2>2. CASE n \in DOMAIN devs /\ i \in DOMAIN devs[n] /\ devs'[n][i] = devs[n][i]
    <3>1. devs'[m][j] # d1 /\ devs'[m][j] # d2
      BY <1>20, <2>1, <2>2
    <3>2. m \in DOMAIN devs /\ j \in DOMAIN devs[m] /\ devs'[m][j] = devs[m][j]
      BY <1>17, <3>1
    <3>3. devs[n][i] = devs[m][j]
      BY <1>20, <2>2, <3>2
    <3>4. ASSUME NEW a \in DOMAIN devs, NEW b \in DOMAIN devs,
                 NEW p \in DOMAIN devs[a], NEW q \in DOMAIN devs[b], devs[a][p] = devs[b][q]
          PROVE  a = b /\ p = q
      <4>1. EndsOK
        BY DEF NetInv
      <4> QED  BY <3>4, <4>1 DEF EndsOK
    <3> QED  BY <2>2, <3>2, <3>3, <3>4
  <2>3. CASE n = x /\ i = Len(devs[x]) + 1 /\ devs'[n][i] = d1
    BY <1>17, <1>19, <1>20, <2>1, <2>3
  <2>4. CASE n = y /\ i = Len(devs[y]) + 1 /\ devs'[n][i] = d2
    BY <1>17, <1>19, <1>20, <2>1, <2>4
  <2> QED  BY <1>17, <2>2, <2>3, <2>4
<1>21. ASSUME NEW c \in DOMAIN delays', NEW e \in {0, 1}
       PROVE  \E n \in DOMAIN devs' : \E i \in DOMAIN devs'[n] : devs'[n][i] = <<c, e>>
  <2>1. CASE c \in DOMAIN delays
    <3>1. PICK n \in DOMAIN devs : \E i \in DOMAIN devs[n] : devs[n][i] = <<c, e>>
      BY <2>1 DEF NetInv, EndsOK
    <3>2. PICK i \in DOMAIN devs[n] : devs[n][i] = <<c, e>>
      BY <3>1
    <3>3. i \in DOMAIN devs'[n] /\ devs'[n][i] = devs[n][i]
      <4>1. CASE n # x /\ n # y
        BY <1>8, <4>1
      <4>2. CASE n = x
        BY <1>10, <4>2
      <4>3. CASE n = y
        BY <1>10, <4>3
      <4> QED  BY <4>1, <4>2, <4>3
    <3> QED  BY <1>8, <3>2, <3>3
  <2>2. CASE c = row
    <3>1. /\ Len(devs[x]) + 1 \in DOMAIN devs'[x] /\ Len(devs[y]) + 1 \in DOMAIN devs'[y]
      BY <1>10
    <3>2. CASE e = 0
      BY <1>4, <1>8, <1>10, <1>19, <2>2, <3>1, <3>2
    <3>3. CASE e = 1
      BY <1>4, <1>8, <1>10, <1>19, <2>2, <3>1, <3>3
    <3> QED  BY <3>2, <3>3
  <2> QED  BY <1>18, <2>1, <2>2
<1>22. EndsOK'
  BY <1>20, <1>21 DEF EndsOK
<1> QED  BY <1>14, <1>15, <1>16, <1>22 DEF NetInv

LEMMA ConfigureNodeInv ==
  ASSUME NetInv, AddrInv', ConfigureNode PROVE NetInv'
<1> DEFINE m == Len(lo)
           c == [i \in DOMAIN devs[m + 1] |-> CostOf(m, i - 1)]
<1>1. /\ stage = "bird" /\ m < nNodes
      /\ cost' = Append(cost, c)
      /\ UNCHANGED <<vars, stage, nNodes, row, devs, delays, metrics, addr>>
  BY DEF ConfigureNode
<1>2. lo' = Append(lo, Wrapped(loNext, LoWrap)) /\ lo' \in Seq(Addresses)
  BY DEF ConfigureNode, AddrInv, CountersAhead
<1>3. /\ IsSequence(cost) /\ Len(cost) = m /\ lo \in Seq(Addresses) /\ m \in Nat
      /\ nNodes = Len(devs) /\ Len(devs) \in Nat
      /\ \A n \in DOMAIN cost : DOMAIN cost[n] = DOMAIN devs[n]
  BY DEF NetInv, CostsOK, DevicesOK
<1>4. StageOK'
  BY <1>1 DEF NetInv, StageOK, Ended, vars
<1>5. DevicesOK'
  <2>1. Ifaces' = Ifaces
    BY <1>1 DEF Ifaces
  <2> QED  BY <1>1, <2>1 DEF NetInv, DevicesOK
<1>6. Len(lo') = m + 1
  BY <1>2, <1>3
<1>7. DOMAIN c = DOMAIN devs[m + 1]
  OBVIOUS
<1> HIDE DEF m, c
<1>8. /\ cost \in Seq(ToSet(cost) \cup {c}) /\ cost' \in Seq(ToSet(cost) \cup {c})
      /\ Len(cost') = m + 1 /\ DOMAIN cost' = 1..(m + 1) /\ DOMAIN cost = 1..m
      /\ cost'[m + 1] = c /\ \A i \in 1..m : cost'[i] = cost[i]
  <2>1. cost \in Seq(ToSet(cost) \cup {c})
    BY <1>3 DEF IsSequence, ToSet
  <2> QED  BY <1>1, <1>3, <2>1
<1>9. IsSequence(cost')
  BY <1>8 DEF IsSequence, ToSet
<1>10. \A n \in DOMAIN cost' : DOMAIN cost'[n] = DOMAIN devs[n]
  BY <1>3, <1>7, <1>8
<1>11. CostsOK'
  BY <1>1, <1>2, <1>3, <1>6, <1>8, <1>9, <1>10 DEF CostsOK
<1>12. EndsOK'
  BY <1>1 DEF NetInv, EndsOK
<1> QED  BY <1>4, <1>5, <1>11, <1>12 DEF NetInv

LEMMA NetNext ==
  ParserInv /\ file \in Files /\ NetInv /\ AddrInv' /\ [TopoNext]_allVars => NetInv'
<1> SUFFICES ASSUME ParserInv, file \in Files, NetInv, AddrInv', [TopoNext]_allVars PROVE NetInv'
  OBVIOUS
<1>a. ASSUME UNCHANGED <<row, devs, delays, metrics, addr, lo, nNodes, cost>>,
             stage' = stage \/ (stage # "parsing" /\ stage' \notin {"parsing", "links"}),
             stage = "parsing" \/ UNCHANGED vars
      PROVE  NetInv'
  <2>1. StageOK'
    BY <1>a DEF NetInv, StageOK, Ended, vars
  <2>2. Ifaces' = Ifaces
    BY <1>a DEF Ifaces
  <2>3. DevicesOK'
    BY <1>a, <2>2 DEF NetInv, DevicesOK
  <2>4. CostsOK'
    BY <1>a DEF NetInv, CostsOK
  <2>5. EndsOK'
    BY <1>a DEF NetInv, EndsOK
  <2> QED  BY <2>1, <2>3, <2>4, <2>5 DEF NetInv
<1>1. CASE ReadRows
  BY <1>1, ReadRowsInv
<1>2. CASE InstallLink
  BY <1>2, InstallLinkInv
<1>3. CASE ConfigureNode
  BY <1>3, ConfigureNodeInv
<1>4. CASE Parse
  BY <1>4, <1>a DEF Parse, netVars
<1>5. CASE UNCHANGED allVars
  BY <1>5, <1>a DEF allVars, netVars
<1>6. CASE LinksDone \/ NodesDone \/ Verify
  BY <1>6, <1>a DEF LinksDone, NodesDone, Verify
<1> QED
  BY <1>1, <1>2, <1>3, <1>4, <1>5, <1>6 DEF TopoNext

LEMMA FileKept == Init => file \in Files
BY DEF Init

LEMMA FileStays == [Next]_vars /\ file \in Files => (file \in Files)'
<1> SUFFICES ASSUME [Next]_vars PROVE file' = file  OBVIOUS
<1> QED  BY DEF Next, vars, ReadLine, ReadOn, Unexpected, EndReading, PrintPair, UnknownName, Finish,
                Terminated

\* Every interface of an installed link has its address, its metric and, once
\* its node is configured, its cost, and nothing else has one: NetOK in every
\* state, for any topology that joins different nodes.
THEOREM NetworkComplete == TopoSpec => []NetOK
<1>1. NetInv => NetOK
  <2> SUFFICES ASSUME NetInv PROVE NetOK  OBVIOUS
  <2> DEFINE I == UNION { {n} \X (0..(NDevices(n) - 1)) : n \in {m - 1 : m \in DOMAIN devs} }
  <2>1. Ifaces = I
    <3>1. \A n \in DOMAIN devs : /\ n \in Nat /\ (n - 1) + 1 = n /\ Len(devs[n]) \in Nat
                                 /\ DOMAIN devs[n] = 1..Len(devs[n])
      BY DEF NetInv, DevicesOK
    <3>2. ASSUME NEW n \in DOMAIN devs
          PROVE  {n - 1} \X (0..(NDevices(n - 1) - 1)) = {<<n - 1, i - 1>> : i \in DOMAIN devs[n]}
      <4>1. NDevices(n - 1) = Len(devs[n])
        BY <3>1 DEF NDevices
      <4> DEFINE w == Len(devs[n])
      <4>2. w \in Nat /\ DOMAIN devs[n] = 1..w
        BY <3>1
      <4> HIDE DEF w
      <4>3. \A j \in 0..(w - 1) : j + 1 \in 1..w /\ j = (j + 1) - 1
        BY <4>2
      <4>4. \A i \in 1..w : i - 1 \in 0..(w - 1)
        BY <4>2
      <4>5. \A k : k \in {n - 1} \X (0..(w - 1)) <=> \E j \in 0..(w - 1) : k = <<n - 1, j>>
        OBVIOUS
      <4>6. \A k : (\E j \in 0..(w - 1) : k = <<n - 1, j>>) <=> (\E i \in 1..w : k = <<n - 1, i - 1>>)
        BY <4>3, <4>4
      <4>7. {n - 1} \X (0..(w - 1)) = {<<n - 1, i - 1>> : i \in 1..w}
        BY <4>5, <4>6
      <4> QED  BY <4>1, <4>2, <4>7 DEF w
    <3>3. \A k : k \in I <=> \E n \in DOMAIN devs : k \in {n - 1} \X (0..(NDevices(n - 1) - 1))
      OBVIOUS
    <3> HIDE DEF I
    <3>4. \A k : k \in Ifaces <=> \E n \in DOMAIN devs : k \in {<<n - 1, i - 1>> : i \in DOMAIN devs[n]}
      BY DEF Ifaces
    <3> QED  BY <3>2, <3>3, <3>4
  <2> QED  BY <2>1 DEF NetInv, DevicesOK, CostsOK, NetOK
<1>2. Spec => []ParserInv /\ [](file \in Files)
  BY ParserInductive, FileKept, FileStays, PTL DEF Spec
<1> QED
  BY TopoImplementsParser, AddrInit, AddrNext, NetInit, NetNext, <1>1, <1>2, PTL DEF TopoSpec

-----------------------------------------------------------------------------
(* The network that is verified                                            *)

\* The devices' lines, and the links': the lists that Generated and
\* ReadyFaithful flatten.
DeviceLine(n, i) ==
  Plain(map[n], map[Peer(devs[n][i]) + 1], cost[n][i], delays[devs[n][i][1]])
LinkLines(c) ==
  LET s == Told(c, 0)  t == Told(c, 1)
  IN << Plain(map[s[1]], map[t[1]], s[2], delays[c]),
        Plain(map[t[1]], map[s[1]], t[2], delays[c]) >>

ByDevice == [n \in DOMAIN devs |-> [i \in DOMAIN devs[n] |-> DeviceLine(n, i)]]
ByLink == [c \in DOMAIN delays |-> LinkLines(c)]

\* The node that has device d.
Owner(d) == CHOOSE m \in DOMAIN devs : Contains(devs[m], d)

LEMMA GeneratedIs == Generated = FlattenSeq(ByDevice)
BY DEF Generated, ByDevice, DeviceLine

\* Device i of node n is end e of link c.
IsEnd(n, i, c, e) == n \in DOMAIN devs /\ i \in DOMAIN devs[n] /\ devs[n][i] = <<c, e>>

\* The owner of an end, and what it is told.
LEMMA EndFound ==
  ASSUME EndsOK, devs \in Seq(Seq(Device)), NEW n, NEW i, NEW c, NEW e, IsEnd(n, i, c, e)
  PROVE  Owner(<<c, e>>) = n /\ Told(c, e) = <<n, cost[n][i]>>
<1>0. n \in DOMAIN devs /\ i \in DOMAIN devs[n] /\ devs[n][i] = <<c, e>>
  BY DEF IsEnd
<1>1. \A m \in DOMAIN devs : DOMAIN devs[m] = 1..Len(devs[m])
  OBVIOUS
<1>2. \A m \in DOMAIN devs : Contains(devs[m], <<c, e>>) <=> \E j \in DOMAIN devs[m] : devs[m][j] = <<c, e>>
  BY <1>1 DEF Contains
<1>3. ASSUME NEW m \in DOMAIN devs, NEW j \in DOMAIN devs[m], devs[m][j] = <<c, e>>
      PROVE  m = n /\ j = i
  <2>1. ASSUME NEW a \in DOMAIN devs, NEW b \in DOMAIN devs,
               NEW p \in DOMAIN devs[a], NEW q \in DOMAIN devs[b], devs[a][p] = devs[b][q]
        PROVE  a = b /\ p = q
    BY <2>1 DEF EndsOK
  <2> QED  BY <1>0, <1>3, <2>1
<1>4. (CHOOSE m \in DOMAIN devs : Contains(devs[m], <<c, e>>)) = n
  BY <1>0, <1>2, <1>3
<1>5. (CHOOSE j \in DOMAIN devs[n] : devs[n][j] = <<c, e>>) = i
  BY <1>0, <1>3
<1>6. Told(c, e) = <<n, cost[n][i]>>
  BY <1>4, <1>5 DEF Told
<1> QED  BY <1>4, <1>6 DEF Owner

\* A device's line is the line of its end of its link.
LEMMA DeviceIsEnd ==
  ASSUME EndsOK, DevicesOK, NEW n \in DOMAIN devs, NEW i \in DOMAIN devs[n]
  PROVE  /\ devs[n][i][1] \in DOMAIN delays /\ devs[n][i][2] \in {0, 1}
         /\ DeviceLine(n, i) = LinkLines(devs[n][i][1])[devs[n][i][2] + 1]
         /\ Peer(devs[n][i]) + 1 \in DOMAIN devs
         /\ \E j \in DOMAIN devs[Peer(devs[n][i]) + 1] : 
              devs[Peer(devs[n][i]) + 1][j] = <<devs[n][i][1], 1 - devs[n][i][2]>>
<1>1. PICK c \in DOMAIN delays, e \in {0, 1} : devs[n][i] = <<c, e>>
  <2>1. devs[n][i] \in Device /\ devs[n][i][1] \in DOMAIN delays
    BY DEF DevicesOK
  <2>2. devs[n][i] = <<devs[n][i][1], devs[n][i][2]>> /\ devs[n][i][2] \in {0, 1}
    BY <2>1 DEF Device
  <2> QED  BY <2>1, <2>2
<1>2. devs \in Seq(Seq(Device)) /\ DOMAIN devs \subseteq Nat
  <2>1. devs \in Seq(Seq(Device))
    BY DEF DevicesOK
  <2> QED  BY <2>1
<1>3. 1 - e \in {0, 1} /\ (e = 0 \/ e = 1)
  OBVIOUS
<1>4. PICK m \in DOMAIN devs : \E j \in DOMAIN devs[m] : devs[m][j] = <<c, 1 - e>>
  BY <1>3 DEF EndsOK
<1>5. PICK j \in DOMAIN devs[m] : devs[m][j] = <<c, 1 - e>>
  BY <1>4
<1>6. Told(c, e) = <<n, cost[n][i]>>
  <2>1. IsEnd(n, i, c, e)
    BY <1>1 DEF IsEnd
  <2>2. Owner(<<c, e>>) = n /\ Told(c, e) = <<n, cost[n][i]>>
    BY ONLY EndsOK, <1>2, <2>1, EndFound
  <2> QED  BY <2>2
<1>7. /\ Told(c, 1 - e) = <<m, cost[m][j]>>
      /\ Owner(<<c, 1 - e>>) = m
  <2>1. IsEnd(m, j, c, 1 - e)
    BY <1>5 DEF IsEnd
  <2> QED  BY ONLY EndsOK, <1>2, <2>1, EndFound
<1>8. Peer(devs[n][i]) + 1 = m
  <2>1. ASSUME NEW d PROVE Peer(d) = Owner(<<d[1], 1 - d[2]>>) - 1
    BY DEF Peer, Owner
  <2>2. devs[n][i][1] = c /\ devs[n][i][2] = e
    BY <1>1
  <2>3. Peer(devs[n][i]) = Owner(<<c, 1 - e>>) - 1
    BY <2>1, <2>2
  <2> QED  BY <1>2, <1>7, <2>3
<1>9. DeviceLine(n, i) = Plain(map[n], map[m], cost[n][i], delays[c])
  BY <1>1, <1>8 DEF DeviceLine
<1>10. LinkLines(c)[e + 1] = Plain(map[n], map[m], cost[n][i], delays[c])
  <2>1. CASE e = 0
    BY <1>6, <1>7, <2>1 DEF LinkLines
  <2>2. CASE e = 1
    BY <1>6, <1>7, <2>2 DEF LinkLines
  <2> QED  BY <1>3, <2>1, <2>2
<1> QED  BY <1>1, <1>5, <1>8, <1>9, <1>10

\* A place of a list of lists is the index of a list and one in it.
LEMMA PlacesAre ==
  ASSUME NEW S, NEW ss \in Seq(Seq(S))
  PROVE  \A p : p \in Places(ss, Len(ss)) <=>
           \E n \in DOMAIN ss : \E i \in DOMAIN ss[n] : p = <<n, i>>
<1>1. /\ DOMAIN ss = 1..Len(ss)
      /\ \A n \in DOMAIN ss : DOMAIN ss[n] \subseteq Nat
  OBVIOUS
<1>2. ASSUME NEW p \in Places(ss, Len(ss)) PROVE \E n \in DOMAIN ss : \E i \in DOMAIN ss[n] : p = <<n, i>>
  <2>1. p \in (1..Len(ss)) \X Nat /\ p[2] \in DOMAIN ss[p[1]]
    BY DEF Places
  <2>2. p = <<p[1], p[2]>> /\ p[1] \in DOMAIN ss
    BY <1>1, <2>1
  <2> QED  BY <2>1, <2>2
<1>3. ASSUME NEW n \in DOMAIN ss, NEW i \in DOMAIN ss[n] PROVE <<n, i>> \in Places(ss, Len(ss))
  BY <1>1 DEF Places
<1> QED  BY <1>2, <1>3

\* The lines that the check sees are those of the ends of the links: each
\* device has one, and is one end of one link.
LEMMA GeneratedByLink ==
  ASSUME EndsOK, DevicesOK
  PROVE  ToBag(Generated) = ToBag(FlattenSeq(ByLink))
<1> DEFINE D == ByDevice
           L == ByLink
           SD == UNION {Range(D[n]) : n \in DOMAIN D}
           SL == UNION {Range(L[n]) : n \in DOMAIN L}
           S == SD \cup SL
           P == Places(D, Len(D))
           Q == Places(L, Len(L))
           g == [p \in P |-> <<devs[p[1]][p[2]][1], devs[p[1]][p[2]][2] + 1>>]
<1>1. Generated = FlattenSeq(D)
  BY GeneratedIs
<1>2. /\ Len(devs) \in Nat /\ DOMAIN devs = 1..Len(devs)
      /\ Len(delays) \in Nat /\ DOMAIN delays = 1..Len(delays)
      /\ \A n \in DOMAIN devs : Len(devs[n]) \in Nat /\ DOMAIN devs[n] = 1..Len(devs[n])
  BY DEF DevicesOK
<1>3. /\ DOMAIN D = DOMAIN devs
      /\ \A n \in DOMAIN devs : /\ D[n] = [i \in DOMAIN devs[n] |-> DeviceLine(n, i)]
                                /\ DOMAIN D[n] = DOMAIN devs[n]
                                /\ \A i \in DOMAIN devs[n] : D[n][i] = DeviceLine(n, i)
  BY DEF ByDevice
<1>4. /\ DOMAIN L = DOMAIN delays
      /\ \A c \in DOMAIN delays : /\ L[c] = LinkLines(c)
                                  /\ DOMAIN L[c] = 1..2 /\ Len(L[c]) = 2
  BY DEF ByLink, LinkLines
<1>5. D = [n \in 1..Len(devs) |-> D[n]] /\ L = [c \in 1..Len(delays) |-> L[c]]
  BY <1>2 DEF ByDevice, ByLink
<1> HIDE DEF D, L
<1>6. ASSUME NEW n \in DOMAIN D, NEW i \in DOMAIN D[n] PROVE D[n][i] \in S
  <2>1. D[n][i] \in Range(D[n])
    BY DEF Range
  <2> QED  BY <2>1
<1>7. ASSUME NEW n \in DOMAIN L, NEW i \in DOMAIN L[n] PROVE L[n][i] \in S
  <2>1. L[n][i] \in Range(L[n])
    BY DEF Range
  <2>2. L[n][i] \in SL
    BY <2>1
  <2> HIDE DEF SD, SL
  <2> QED  BY <2>2
<1> HIDE DEF S
<1>8. D \in Seq(Seq(S))
  <2>1. ASSUME NEW n \in 1..Len(devs) PROVE D[n] \in Seq(S)
    <3>1. D[n] = [i \in 1..Len(devs[n]) |-> DeviceLine(n, i)] /\ Len(devs[n]) \in Nat
      BY <1>2, <1>3
    <3>2. \A i \in 1..Len(devs[n]) : DeviceLine(n, i) \in S
      BY <1>2, <1>3, <1>6
    <3> QED  BY <3>1, <3>2
  <2> QED  BY <1>2, <1>5, <2>1
<1>9. L \in Seq(Seq(S))
  <2>1. ASSUME NEW c \in 1..Len(delays) PROVE L[c] \in Seq(S)
    <3>1. L[c] = <<L[c][1], L[c][2]>>
      BY <1>2, <1>4 DEF LinkLines
    <3>2. L[c][1] \in S /\ L[c][2] \in S
      BY <1>2, <1>4, <1>7
    <3>3. ASSUME NEW a \in S, NEW b \in S PROVE <<a, b>> \in Seq(S)
      OBVIOUS
    <3> QED  BY <3>1, <3>2, <3>3
  <2> QED  BY <1>2, <1>5, <2>1
<1>10. \A p : p \in P <=> \E n \in DOMAIN devs : \E i \in DOMAIN devs[n] : p = <<n, i>>
  <2>1. \A p : p \in P <=> \E n \in DOMAIN D : \E i \in DOMAIN D[n] : p = <<n, i>>
    BY <1>8, PlacesAre
  <2> HIDE DEF P
  <2> QED  BY <1>3, <2>1
<1>11. \A q : q \in Q <=> \E c \in DOMAIN delays : \E e \in {0, 1} : q = <<c, e + 1>>
  <2>1. \A q : q \in Q <=> \E c \in DOMAIN L : \E i \in DOMAIN L[c] : q = <<c, i>>
    BY <1>9, PlacesAre
  <2>2. \A i : i \in 1..2 <=> \E e \in {0, 1} : i = e + 1
    OBVIOUS
  <2> HIDE DEF Q
  <2> QED  BY <1>4, <2>1, <2>2
<1> HIDE DEF P, Q
<1>12. \A n \in DOMAIN devs : \A i \in DOMAIN devs[n] :
         /\ <<n, i>> \in P
         /\ g[<<n, i>>] = <<devs[n][i][1], devs[n][i][2] + 1>>
  BY <1>10
<1> HIDE DEF g
<1>13. ASSUME NEW p \in P
       PROVE  g[p] \in Q /\ Element(L, g[p]) = Element(D, p)
  <2>1. PICK n \in DOMAIN devs : \E i \in DOMAIN devs[n] : p = <<n, i>>
    BY <1>10
  <2>2. PICK i \in DOMAIN devs[n] : p = <<n, i>>
    BY <2>1
  <2>3. /\ devs[n][i][1] \in DOMAIN delays /\ devs[n][i][2] \in {0, 1}
        /\ DeviceLine(n, i) = LinkLines(devs[n][i][1])[devs[n][i][2] + 1]
    BY DeviceIsEnd
  <2>4. g[p] = <<devs[n][i][1], devs[n][i][2] + 1>>
    BY <1>12, <2>2
  <2>5. g[p] \in Q
    BY <1>11, <2>3, <2>4
  <2>6. Element(D, p) = DeviceLine(n, i)
    BY <1>3, <2>2 DEF Element
  <2>7. Element(L, g[p]) = LinkLines(devs[n][i][1])[devs[n][i][2] + 1]
    BY <1>4, <2>3, <2>4 DEF Element
  <2> QED  BY <2>3, <2>5, <2>6, <2>7
<1>14. ASSUME NEW p \in P, NEW q \in P, g[p] = g[q]
       PROVE  p = q
  <2>1. PICK n \in DOMAIN devs : \E i \in DOMAIN devs[n] : p = <<n, i>>
    BY <1>10
  <2>2. PICK i \in DOMAIN devs[n] : p = <<n, i>>
    BY <2>1
  <2>3. PICK m \in DOMAIN devs : \E j \in DOMAIN devs[m] : q = <<m, j>>
    BY <1>10
  <2>4. PICK j \in DOMAIN devs[m] : q = <<m, j>>
    BY <2>3
  <2>5. devs[n][i] \in Device /\ devs[m][j] \in Device
    <3>1. devs \in Seq(Seq(Device))
      BY Zenon DEF DevicesOK
    <3>2. devs[n] \in Seq(Device) /\ devs[m] \in Seq(Device)
      BY ONLY <3>1, n \in DOMAIN devs, m \in DOMAIN devs
    <3> QED  BY ONLY <3>2, i \in DOMAIN devs[n], j \in DOMAIN devs[m]
  <2>6. <<devs[n][i][1], devs[n][i][2] + 1>> = <<devs[m][j][1], devs[m][j][2] + 1>>
    BY <1>12, <1>14, <2>2, <2>4
  <2>7. devs[n][i] = devs[m][j]
    <3>1. devs[n][i][1] = devs[m][j][1] /\ devs[n][i][2] + 1 = devs[m][j][2] + 1
      BY <2>6
    <3>2. ASSUME NEW a \in Device, NEW b \in Device, a[1] = b[1], a[2] + 1 = b[2] + 1 PROVE a = b
      BY <3>2 DEF Device
    <3> QED  BY <2>5, <3>1, <3>2
  <2>8. n = m /\ i = j
    <3>1. ASSUME NEW a \in DOMAIN devs, NEW b \in DOMAIN devs,
                 NEW x \in DOMAIN devs[a], NEW y \in DOMAIN devs[b], devs[a][x] = devs[b][y]
          PROVE  a = b /\ x = y
      BY <3>1 DEF EndsOK
    <3> QED  BY <2>7, <3>1
  <2> QED  BY <2>2, <2>4, <2>8
<1>15. ASSUME NEW q \in Q
       PROVE  \E p \in P : g[p] = q
  <2>1. PICK c \in DOMAIN delays : \E e \in {0, 1} : q = <<c, e + 1>>
    BY <1>11
  <2>2. PICK e \in {0, 1} : q = <<c, e + 1>>
    BY <2>1
  <2>3. PICK n \in DOMAIN devs : \E i \in DOMAIN devs[n] : devs[n][i] = <<c, e>>
    BY DEF EndsOK
  <2>4. PICK i \in DOMAIN devs[n] : devs[n][i] = <<c, e>>
    BY <2>3
  <2>5. devs[n][i][1] = c /\ devs[n][i][2] = e
    BY <2>4
  <2> QED  BY <1>12, <2>2, <2>5
<1>16. /\ \A p \in P : g[p] \in Q /\ Element(L, g[p]) = Element(D, p)
       /\ \A p, q \in P : g[p] = g[q] => p = q
       /\ \A q \in Q : \E p \in P : g[p] = q
  BY <1>13, <1>14, <1>15
<1>17. ToBag(FlattenSeq(D)) = ToBag(FlattenSeq(L))
  <2>1. Matches(g, D, L)
    BY <1>16 DEF P, Q, Matches
  <2> QED  BY ONLY <1>8, <1>9, <2>1, SameElements
<1> QED  BY <1>1, <1>17 DEF L

\* The check of a network that a checked simulation starts on has passed.
CheckedInv == Check /\ stage = "ready" => TestPasses

\* Generated depends on the network only.
LEMMA TestStays ==
  ASSUME UNCHANGED <<file, map, pos, devs, delays, cost>>
  PROVE  TestPasses' = TestPasses
<1> DEFINE T == [i \in DOMAIN Lines |-> Text(Lines[i])]
<1>1. /\ devs' = devs /\ map' = map /\ cost' = cost /\ delays' = delays
      /\ Lines' = Lines /\ file' = file /\ MapWritten' = MapWritten
  BY DEF Lines, MapWritten
<1>2. ASSUME NEW d PROVE Peer(d)' = Peer(d)
  BY <1>1 DEF Peer
<1>3. Generated' = Generated
  <2>1. ASSUME NEW n, NEW i PROVE DeviceLine(n, i)' = DeviceLine(n, i)
    BY <1>1, <1>2 DEF DeviceLine
  <2>2. ByDevice' = ByDevice
    BY <1>1, <2>1 DEF ByDevice
  <2>3. (Generated = FlattenSeq(ByDevice))'
    BY DEF Generated, ByDevice, DeviceLine
  <2> QED  BY <2>2, <2>3, GeneratedIs
<1>4. T' = T
  BY <1>1
<1> HIDE DEF T
<1>5. TestPasses = (MapWritten /\ ToBag(Generated) = ToBag(T))
  BY DEF TestPasses, T
<1>6. TestPasses' = (MapWritten' /\ ToBag(Generated') = ToBag(T'))
  BY DEF TestPasses, T
<1> QED  BY <1>1, <1>3, <1>4, <1>5, <1>6

LEMMA CheckedInit == TopoInit => CheckedInv
BY DEF TopoInit, CheckedInv

LEMMA CheckedNext == CheckedInv /\ [TopoNext]_allVars => CheckedInv'
<1> SUFFICES ASSUME CheckedInv, [TopoNext]_allVars PROVE CheckedInv'
  OBVIOUS
<1>a. Check' = Check
  OBVIOUS
<1>1. CASE Verify
  <2>1. UNCHANGED <<file, map, pos, devs, delays, cost>> /\ stage' = IF TestPasses THEN "ready" ELSE "aborted"
    BY <1>1 DEF Verify, vars
  <2>2. TestPasses' = TestPasses
    BY <2>1, TestStays
  <2> HIDE DEF TestPasses
  <2> QED  BY <2>1, <2>2 DEF CheckedInv
<1>2. CASE NodesDone
  BY <1>2 DEF NodesDone, CheckedInv
<1>3. CASE UNCHANGED allVars
  <2>1. UNCHANGED <<file, map, pos, devs, delays, cost>> /\ stage' = stage
    BY <1>3 DEF allVars, netVars, vars
  <2> QED  BY <2>1, TestStays DEF CheckedInv
<1>4. CASE Parse \/ ReadRows \/ InstallLink \/ LinksDone \/ ConfigureNode
  <2>1. stage' # "ready"
    BY <1>4 DEF Parse, netVars, ReadRows, InstallLink, LinksDone, ConfigureNode
  <2> QED  BY <2>1 DEF CheckedInv
<1> QED  BY <1>1, <1>2, <1>3, <1>4 DEF TopoNext

\* The invariants of this module, together.
LEMMA TopoInductive == TopoSpec => [](ParserInv /\ NumberInv /\ NetInv /\ LoInv /\ AddrInv /\ CheckedInv /\ file \in Files)
<1>1. Spec => []ParserInv /\ []NumberInv /\ [](file \in Files)
  BY InitParserInv, NextParserInv, InitNumber, NextNumber, FileKept, FileStays, PTL DEF Spec
<1> QED
  BY TopoImplementsParser, AddrInit, AddrNext, LoInit, LoNext, NetInit, NetNext, CheckedInit, CheckedNext,
     <1>1, PTL DEF TopoSpec

\* The network that a checked simulation starts on is the one of its file:
\* the costs of the two ends of every link, in bird.conf, and its delay are
\* those of two lines of the file, one for each, and no line is without its
\* link (test.py, NtfTopoGen.cc:374).
THEOREM ReadyNetworkFaithful == TopoSpec => []ReadyFaithful
<1>1. NetInv /\ CheckedInv => ReadyFaithful
  <2> SUFFICES ASSUME NetInv, CheckedInv, stage = "ready", Check
               PROVE  ToBag(FlattenSeq(ByLink)) = ToBag([i \in DOMAIN Lines |-> Text(Lines[i])])
    BY Zenon DEF ReadyFaithful, ByLink, LinkLines
  <2>1. ToBag(Generated) = ToBag([i \in DOMAIN Lines |-> Text(Lines[i])])
    BY Zenon DEF CheckedInv, TestPasses
  <2>2. ToBag(Generated) = ToBag(FlattenSeq(ByLink))
    BY GeneratedByLink DEF NetInv
  <2> QED  BY <2>1, <2>2
<1> QED  BY <1>1, TopoInductive, PTL

\* The lines of the .check file are those of the devices.
LEMMA GeneratedLines ==
  ASSUME DevicesOK
  PROVE  \A x : x \in ToSet(Generated) <=>
           \E n \in DOMAIN devs : \E i \in DOMAIN devs[n] : x = DeviceLine(n, i)
<1> DEFINE D == ByDevice
           S == UNION {Range(D[n]) : n \in DOMAIN D}
<1>1. /\ Len(devs) \in Nat /\ DOMAIN devs = 1..Len(devs)
      /\ \A n \in DOMAIN devs : Len(devs[n]) \in Nat /\ DOMAIN devs[n] = 1..Len(devs[n])
  BY DEF DevicesOK
<1>2. /\ DOMAIN D = DOMAIN devs /\ D = [n \in 1..Len(devs) |-> D[n]]
      /\ \A n \in DOMAIN devs : /\ D[n] = [i \in DOMAIN devs[n] |-> DeviceLine(n, i)]
                                /\ DOMAIN D[n] = DOMAIN devs[n]
                                /\ \A i \in DOMAIN devs[n] : D[n][i] = DeviceLine(n, i)
  BY <1>1 DEF ByDevice
<1> HIDE DEF D
<1>3. ASSUME NEW n \in DOMAIN D, NEW i \in DOMAIN D[n] PROVE D[n][i] \in S
  <2>1. D[n][i] \in Range(D[n])
    BY DEF Range
  <2> QED  BY <2>1
<1> HIDE DEF S
<1>4. D \in Seq(Seq(S))
  <2>1. ASSUME NEW n \in 1..Len(devs) PROVE D[n] \in Seq(S)
    <3>1. D[n] = [i \in 1..Len(devs[n]) |-> DeviceLine(n, i)] /\ Len(devs[n]) \in Nat
      BY <1>1, <1>2
    <3>2. \A i \in 1..Len(devs[n]) : DeviceLine(n, i) \in S
      BY <1>1, <1>2, <1>3
    <3> QED  BY <3>1, <3>2
  <2> QED  BY <1>1, <1>2, <2>1
<1>5. \A p : p \in Places(D, Len(D)) <=> \E n \in DOMAIN D : \E i \in DOMAIN D[n] : p = <<n, i>>
  BY <1>4, PlacesAre
<1>6. PICK g : Placing(g, D, Len(D), FlattenSeq(D))
  BY <1>4, FlattenPlaces
<1> DEFINE F == FlattenSeq(D)
           P == Places(D, Len(D))
<1>7. /\ \A k \in DOMAIN F : g[k] \in P /\ Element(D, g[k]) = F[k]
      /\ \A p \in P : \E k \in DOMAIN F : g[k] = p
  BY <1>6 DEF Placing
<1> HIDE DEF F, P
<1>8. \A n \in DOMAIN devs : \A i \in DOMAIN devs[n] : Element(D, <<n, i>>) = DeviceLine(n, i)
  BY <1>2 DEF Element
<1>9. ASSUME NEW x \in ToSet(F)
      PROVE  \E n \in DOMAIN devs : \E i \in DOMAIN devs[n] : x = DeviceLine(n, i)
  <2>1. PICK k \in DOMAIN F : F[k] = x
    BY DEF ToSet
  <2>2. PICK p \in P : g[k] = p
    BY <1>7
  <2>3. PICK n \in DOMAIN D : \E i \in DOMAIN D[n] : p = <<n, i>>
    BY <1>5, <2>2 DEF P
  <2>4. PICK i \in DOMAIN D[n] : p = <<n, i>>
    BY <2>3
  <2>5. n \in DOMAIN devs /\ i \in DOMAIN devs[n]
    BY <1>2, <2>4
  <2>6. x = DeviceLine(n, i)
    BY <1>7, <1>8, <2>1, <2>2, <2>4, <2>5
  <2> QED  BY <2>5, <2>6
<1>10. ASSUME NEW n \in DOMAIN devs, NEW i \in DOMAIN devs[n]
       PROVE  DeviceLine(n, i) \in ToSet(F)
  <2>1. <<n, i>> \in P
    BY <1>2, <1>5 DEF P
  <2>2. PICK k \in DOMAIN F : g[k] = <<n, i>>
    BY <1>7, <2>1
  <2>3. F[k] = DeviceLine(n, i)
    BY <1>7, <1>8, <2>2
  <2> QED  BY <2>3 DEF ToSet
<1>11. Generated = F
  BY GeneratedIs DEF D, F
<1> QED  BY <1>9, <1>10, <1>11

\* A text without a begin and an end is shorter, and has the line's nodes.
LEMMA PlainText ==
  ASSUME NEW l, NEW a, NEW b, NEW m, NEW d, Text(l) = Plain(a, b, m, d)
  PROVE  l.begin = Missing /\ l.end = Missing /\ l.src = a /\ l.dst = b
<1>1. Len(Plain(a, b, m, d)) = 4
  BY DEF Plain
<1>2. Len(<<l.src, l.dst, l.metric, l.delay, l.begin, l.end>>) = 6
  OBVIOUS
<1>3. l.begin = Missing /\ l.end = Missing
  BY <1>1, <1>2 DEF Text
<1>4. Plain(l.src, l.dst, l.metric, l.delay) = Plain(a, b, m, d)
  BY <1>3 DEF Text
<1> QED  BY <1>3, <1>4 DEF Plain

\* In a topology that passed the check every line is plain and has another for
\* the direction back.
LEMMA CheckedLines ==
  ASSUME ParserInv, NetInv, CheckedInv, stage = "ready", Check, NEW k \in DOMAIN Lines
  PROVE  /\ Lines[k].begin = Missing /\ Lines[k].end = Missing
         /\ \E j \in DOMAIN Lines : Lines[j].src = Lines[k].dst /\ Lines[j].dst = Lines[k].src
<1> DEFINE T == [i \in DOMAIN Lines |-> Text(Lines[i])]
<1>1. ToSet(Generated) = ToSet(T)
  <2>1. ToBag(Generated) = ToBag(T)
    BY Zenon DEF CheckedInv, TestPasses
  <2> HIDE DEF T
  <2> QED  BY <2>1, SameBagSameSet
<1>2. \A x : x \in ToSet(T) <=> \E i \in DOMAIN Lines : x = Text(Lines[i])
  BY DEF ToSet
<1> HIDE DEF T
<1>3. \A x : x \in ToSet(Generated) <=> \E n \in DOMAIN devs : \E i \in DOMAIN devs[n] : x = DeviceLine(n, i)
  BY GeneratedLines DEF NetInv
<1>4. PICK n \in DOMAIN devs : \E i \in DOMAIN devs[n] : Text(Lines[k]) = DeviceLine(n, i)
  BY <1>1, <1>2, <1>3
<1>5. PICK i \in DOMAIN devs[n] : Text(Lines[k]) = DeviceLine(n, i)
  BY <1>4
<1> DEFINE m == Peer(devs[n][i]) + 1
<1>6. Lines[k].begin = Missing /\ Lines[k].end = Missing /\ Lines[k].src = map[n] /\ Lines[k].dst = map[m]
  BY <1>5, PlainText DEF DeviceLine
<1>7. /\ m \in DOMAIN devs /\ \E j \in DOMAIN devs[m] : devs[m][j] = <<devs[n][i][1], 1 - devs[n][i][2]>>
      /\ devs[n][i][2] \in {0, 1}
  BY DeviceIsEnd DEF NetInv
<1> HIDE DEF m
<1>8. PICK j \in DOMAIN devs[m] : devs[m][j] = <<devs[n][i][1], 1 - devs[n][i][2]>>
  BY <1>7
<1> DEFINE b == Peer(devs[m][j]) + 1
<1>9. b = n
  <2>1. b \in DOMAIN devs /\ \E a \in DOMAIN devs[b] : devs[b][a] = <<devs[m][j][1], 1 - devs[m][j][2]>>
    BY <1>7, DeviceIsEnd DEF NetInv
  <2> HIDE DEF b
  <2>2. PICK a \in DOMAIN devs[b] : devs[b][a] = <<devs[m][j][1], 1 - devs[m][j][2]>>
    BY <2>1
  <2>3. devs[n][i] = <<devs[n][i][1], devs[n][i][2]>>
    <3>1. devs[n][i] \in Device
      BY DEF NetInv, DevicesOK
    <3> QED  BY <3>1 DEF Device
  <2>4. devs[b][a] = devs[n][i]
    <3>1. 1 - (1 - devs[n][i][2]) = devs[n][i][2]
      BY <1>7
    <3> QED  BY <1>8, <2>2, <2>3, <3>1
  <2> QED  BY <2>1, <2>4 DEF NetInv, EndsOK
<1>10. PICK h \in DOMAIN Lines : Text(Lines[h]) = DeviceLine(m, j)
  BY <1>1, <1>2, <1>3, <1>7
<1>11. Lines[h].src = map[m] /\ Lines[h].dst = map[b]
  BY <1>10, PlainText DEF DeviceLine
<1> HIDE DEF b
<1> QED  BY <1>6, <1>9, <1>11

\* The names that spfs.py notes, when it notes any, are those of the lines it
\* reads.
LEMMA LinesRead ==
  ASSUME ParserInv, NEW written \in Layouts
  PROVE  LET K == SpfsLines(written) IN
           /\ Len(Lines) \in Nat /\ DOMAIN Lines = 1..Len(Lines) /\ K \in 0..Len(Lines)
           /\ Lines = <<>> <=> Len(Lines) = 0
           /\ written.ended => K = Len(Lines)
           /\ ~written.ended /\ Lines # <<>> => K = Len(Lines) - 1
           /\ SpfsNodes(written) \in Seq(FileNames)
           /\ ToSet(SpfsNodes(written)) = {Lines[i].src : i \in 1..K} \cup {Lines[i].dst : i \in 1..K}
           /\ K = 0 => SpfsNodes(written) = <<>>
<1>1. IsSequence(Lines)
  BY DEF ParserInv, InputOK
<1>2. Len(Lines) \in Nat /\ DOMAIN Lines = 1..Len(Lines)
  BY <1>1, Indices
<1>3. Lines = <<>> <=> Len(Lines) = 0
  BY <1>1, EmptySeq DEF IsSequence
<1> DEFINE K == SpfsLines(written)
<1>4. /\ K \in 0..Len(Lines)
      /\ written.ended => K = Len(Lines)
      /\ ~written.ended /\ Lines # <<>> => K = Len(Lines) - 1
  <2>1. Len(Lines) \in 0..Len(Lines) /\ (Lines # <<>> => Len(Lines) - 1 \in 0..Len(Lines))
    BY <1>2, <1>3
  <2>2. K = IF written.ended \/ Lines = <<>> THEN Len(Lines) ELSE Len(Lines) - 1
    BY DEF SpfsLines
  <2> HIDE DEF K
  <2> QED  BY <2>1, <2>2, Zenon
<1> HIDE DEF K, Seen
<1>5. SpfsNodes(written) = Seen[K]
  BY DEF SpfsNodes, K
<1>6. Seen[0] = <<>>
  BY <1>1, SeenLines
<1>7. Seen[K] \in Seq(FileNames) /\ ToSet(Seen[K]) = {Lines[i].src : i \in 1..K} \cup {Lines[i].dst : i \in 1..K}
  BY <1>1, <1>4, SeenUpTo
<1> QED  BY <1>2, <1>3, <1>4, <1>5, <1>6, <1>7 DEF K

\* In a topology that passed the check every node is the source of a line, also
\* without the last line if its source is that of another.
LEMMA CheckedReads ==
  ASSUME ParserInv, NetInv, CheckedInv, stage = "ready", Check, NEW written \in Layouts,
         Lines # <<>>, ~written.blank, written.ended \/ LastSourceKnown
  PROVE  SpfsReads(written)
<1> DEFINE K == SpfsLines(written)
           N == Len(Lines)
           Sources == {Lines[i].src : i \in 1..K}
<1>1. /\ N \in Nat \ {0} /\ DOMAIN Lines = 1..N /\ K \in 0..N
      /\ written.ended => K = N
      /\ ~written.ended => K = N - 1
      /\ SpfsNodes(written) \in Seq(FileNames)
      /\ ToSet(SpfsNodes(written)) = Sources \cup {Lines[i].dst : i \in 1..K}
  BY LinesRead
<1>2. \A i \in 1..K : i \in DOMAIN Lines
  BY <1>1
<1>3. K = N \/ (K = N - 1 /\ \E i \in 1..K : Lines[i].src = Lines[N].src)
  <2>1. Last(Lines) = Lines[N]
    BY DEF Last
  <2>2. CASE written.ended
    BY <1>1, <2>2
  <2>3. CASE ~written.ended
    BY <1>1, <2>1, <2>3 DEF LastSourceKnown
  <2> QED  BY <2>2, <2>3
<1> HIDE DEF K, N
<1>4. K >= 1
  BY <1>1, <1>3
<1>5. ASSUME NEW j \in DOMAIN Lines PROVE Lines[j].src \in Sources
  <2>1. j \in 1..K \/ j = N
    BY <1>1, <1>3
  <2> QED  BY <1>1, <1>3, <1>4, <2>1
<1>6. \A i \in 1..K : Lines[i].dst \in Sources
  <2> SUFFICES ASSUME NEW i \in 1..K PROVE Lines[i].dst \in Sources
    OBVIOUS
  <2>1. PICK j \in DOMAIN Lines : Lines[j].src = Lines[i].dst
    BY <1>2, CheckedLines
  <2> QED  BY <1>5, <2>1
<1>7. ToSet(SpfsNodes(written)) = Sources
  BY <1>1, <1>6
<1>8. SpfsNodes(written) # <<>>
  <2>1. Lines[1].src \in Sources
    BY <1>1, <1>4
  <2>2. ToSet(<<>>) = {}
    BY DEF ToSet
  <2> HIDE DEF Sources
  <2> QED  BY <1>7, <2>1, <2>2
<1>9. \A i \in 1..K : Lines[i].begin = Missing /\ Lines[i].end = Missing
  BY <1>2, CheckedLines
<1> QED  BY <1>7, <1>8, <1>9 DEF SpfsReads, K

-----------------------------------------------------------------------------
(* The programs                                                            *)

\* The number of nodes that spfs.py counts.
Counted == Len(FirstAppearance)

\* The network has the nodes that spfs.py counts, or only one.
SizeInv ==
  /\ stage # "parsing" => /\ file.kind = "topology"
                          /\ nNodes \in Nat \ {0} /\ (nNodes = 1 \/ nNodes <= Counted)
  /\ stage \in {"checking", "ready"} => Len(lo) = nNodes

LEMMA CountedIsNat ==
  ASSUME ParserInv
  PROVE  Counted \in Nat
<1>1. FirstAppearance \in Seq(FileNames)
  BY SeenNames DEF ParserInv, InputOK
<1> HIDE DEF FirstAppearance
<1> QED  BY <1>1 DEF Counted

LEMMA CountedStays ==
  ASSUME file' = file
  PROVE  Counted' = Counted
BY DEF Counted, FirstAppearance, Seen, Lines

LEMMA SizeInit == TopoInit => SizeInv
BY DEF TopoInit, SizeInv

LEMMA SizeNext == ParserInv /\ NumberInv /\ SizeInv /\ [TopoNext]_allVars => SizeInv'
<1> SUFFICES ASSUME ParserInv, NumberInv, SizeInv, [TopoNext]_allVars PROVE SizeInv'
  OBVIOUS
<1>1. CASE ReadRows
  <2>1. /\ UNCHANGED <<vars, lo>> /\ nNodes' = 1 + HighestId /\ stage' = "links" /\ file.kind = "topology"
    BY <1>1 DEF ReadRows
  <2>2. Counted' = Counted
    BY <2>1, CountedStays DEF vars
  <2>3. HighestId \in Nat
    BY Highest
  <2>4. HighestId = 0 \/ HighestId <= Len(map) - 1
    BY Highest
  <2>5. map = <<>> \/ Len(map) = Counted
    BY <2>1 DEF NumberInv, Counted
  <2>6. Len(<<>>) = 0
    OBVIOUS
  <2>7. nNodes' = 1 \/ nNodes' <= Counted
    <3> HIDE DEF HighestId
    <3>1. CASE map = <<>>
      BY <2>1, <2>3, <2>4, <2>6, <3>1
    <3>2. CASE Len(map) = Counted
      BY <2>1, <2>3, <2>4, <3>2, CountedIsNat
    <3> QED  BY <2>5, <3>1, <3>2
  <2> HIDE DEF HighestId
  <2> QED  BY <2>1, <2>2, <2>3, <2>7 DEF SizeInv, vars
<1>2. CASE Parse
  BY <1>2 DEF Parse, netVars, SizeInv
<1>3. CASE InstallLink \/ LinksDone \/ ConfigureNode \/ NodesDone \/ Verify \/ UNCHANGED allVars
  <2>1. file' = file /\ nNodes' = nNodes
    BY <1>3 DEF InstallLink, LinksDone, ConfigureNode, NodesDone, Verify, allVars, netVars, vars
  <2>2. Counted' = Counted
    BY <2>1, CountedStays
  <2>3. stage' # "parsing" => stage # "parsing"
    BY <1>3 DEF InstallLink, LinksDone, ConfigureNode, NodesDone, Verify, allVars, netVars
  <2>4. stage' \in {"checking", "ready"} => Len(lo') = nNodes'
    BY <1>3 DEF InstallLink, LinksDone, ConfigureNode, NodesDone, Verify, allVars, netVars, SizeInv
  <2> QED  BY <2>1, <2>2, <2>3, <2>4 DEF SizeInv
<1> QED  BY <1>1, <1>2, <1>3 DEF TopoNext

\* A last line that is dropped is known from the line for the direction back; if
\* it alone has its source, that line names a node without an entry in `links'.
LEMMA ReadsOnlyThen ==
  ASSUME ParserInv, NetInv, CheckedInv, file \in Files, file.kind = "topology", stage = "ready", Check,
         NEW written \in Layouts, Lines # <<>>, SpfsReads(written)
  PROVE  ~written.blank /\ (written.ended \/ LastSourceKnown)
<1> DEFINE K == SpfsLines(written)
           N == Len(Lines)
           Sources == {Lines[i].src : i \in 1..K}
<1>1. ~written.blank /\ ToSet(SpfsNodes(written)) = Sources
  BY DEF SpfsReads
<1> SUFFICES ASSUME ~written.ended PROVE LastSourceKnown
  BY <1>1
<1>2. /\ N \in Nat \ {0} /\ DOMAIN Lines = 1..N /\ K = N - 1
      /\ ToSet(SpfsNodes(written)) = Sources \cup {Lines[i].dst : i \in 1..K}
  BY LinesRead
<1>3. Last(Lines) = Lines[N]
  BY DEF Last
<1>4. LastSourceKnown <=> Lines[N].src \in Sources
  BY <1>2, <1>3 DEF LastSourceKnown
<1> HIDE DEF K, N
<1>5. \A i \in DOMAIN Lines : Lines[i].src # Lines[i].dst
  BY NtfTopoGenAssumption DEF Lines
<1>6. N \in DOMAIN Lines
  BY <1>2
<1>7. PICK j \in DOMAIN Lines : Lines[j].src = Lines[N].dst /\ Lines[j].dst = Lines[N].src
  BY <1>6, CheckedLines
<1>8. j \in 1..K
  BY <1>2, <1>5, <1>6, <1>7
<1>9. Lines[N].src \in {Lines[i].dst : i \in 1..K}
  BY <1>7, <1>8
<1> HIDE DEF Sources
<1> QED  BY <1>1, <1>2, <1>4, <1>9

\* Of the topologies whose network passed the check, spfs.py can read exactly
\* those that have no empty line and no unterminated last line that alone has its
\* source: no other simulation is aborted because of it (spfs.py:27, 33, 35 and
\* 51, ntf.cc:41).
THEOREM SpfsAlwaysRuns == PingSpec => []SpfsRuns
<1>1. PingInit => SpfsRuns
  BY DEF PingInit, SpfsRuns
<1>2. /\ ParserInv /\ NetInv /\ CheckedInv /\ SizeInv /\ file \in Files /\ SpfsRuns
      /\ [PingNext]_<<allVars, pingVars>>
      => SpfsRuns'
  <2> SUFFICES ASSUME ParserInv, NetInv, CheckedInv, SizeInv, file \in Files, SpfsRuns,
                      [PingNext]_<<allVars, pingVars>>, Check, Lines' # <<>>, udp'
               PROVE  pings' # "aborted" <=> ~layout'.blank /\ (layout'.ended \/ LastSourceKnown')
    BY DEF SpfsRuns
  <2>1. file' = file
    BY FileSame
  <2>2. Lines' = Lines /\ (LastSourceKnown' <=> LastSourceKnown)
    BY <2>1 DEF Lines, LastSourceKnown
  <2>3. CASE Spfs
    <3>1. stage = "ready" /\ layout' \in Layouts /\ pings' = IF SpfsReads(layout') THEN "clients" ELSE "aborted"
      BY <2>3 DEF Spfs
    <3>2. PICK written \in Layouts : written = layout'
      BY <3>1
    <3>3. file.kind = "topology"
      BY <3>1 DEF SizeInv
    <3>4. SpfsReads(written) <=> ~written.blank /\ (written.ended \/ LastSourceKnown)
      BY <2>2, <3>1, <3>3, CheckedReads, ReadsOnlyThen
    <3> QED  BY <2>2, <3>1, <3>2, <3>4
  <2>4. CASE SetUp \/ UNCHANGED <<allVars, pingVars>>
    <3>1. pings' = pings /\ layout' = layout /\ udp' = udp
      BY <2>4 DEF SetUp, pingVars
    <3> QED  BY <2>2, <3>1 DEF SpfsRuns
  <2>5. CASE NoPings \/ StartClients \/ StartNode
    <3>1. pings # "aborted" /\ pings' # "aborted" /\ layout' = layout /\ udp' = udp
      BY <2>5 DEF NoPings, StartClients, StartNode
    <3> QED  BY <2>2, <3>1 DEF SpfsRuns
  <2> QED  BY <2>3, <2>4, <2>5 DEF PingNext
<1> QED
  BY <1>1, <1>2, PingImplementsTopo, TopoInductive, SizeInit, SizeNext, PTL DEF PingSpec, TopoSpec

-----------------------------------------------------------------------------
(* A well-formed topology runs                                             *)

\* The node, from 1, and the metric that row c gives its end e.
RowNode(c, e) == (IF e = 0 THEN rows[c].src ELSE rows[c].dst) + 1
RowMetric(c, e) == IF e = 0 THEN rows[c].f ELSE rows[c].r

\* Device i of node n is where the row of its link says, with its metric.
InPlace(n, i) ==
  LET d == devs[n][i] IN
    n = RowNode(d[1], d[2]) /\ metrics[<<n - 1, i - 1>>] = AsU32(RowMetric(d[1], d[2]))

\* The network is built from the rows, all of them before it is verified, and
\* the check aborts a simulation only if it fails.
TraceInv ==
  /\ \A n \in DOMAIN devs : \A i \in DOMAIN devs[n] : InPlace(n, i)
  /\ \A c \in DOMAIN delays : delays[c] = rows[c].delay
  /\ \A n \in DOMAIN cost : \A i \in DOMAIN cost[n] : cost[n][i] = metrics[<<n - 1, i - 1>>]
  /\ Len(delays) <= Len(rows)
  /\ stage \in {"bird", "checking", "ready", "aborted"} => Len(delays) = Len(rows)
  /\ stage \in {"checking", "ready", "aborted"} => Len(cost) = Len(devs)
  /\ stage = "aborted" => ~TestPasses

LEMMA TraceInit == TopoInit => TraceInv
<1> SUFFICES ASSUME TopoInit PROVE TraceInv
  OBVIOUS
<1>1. stage = "parsing" /\ devs = <<>> /\ delays = <<>> /\ cost = <<>> /\ rows = <<>>
  BY DEF TopoInit, Init
<1>2. DOMAIN devs = {} /\ DOMAIN delays = {} /\ DOMAIN cost = {} /\ Len(delays) <= Len(rows)
  BY <1>1
<1> QED  BY <1>1, <1>2 DEF TraceInv

\* The devices of a link are the last of its two nodes.
LEMMA NewDevices ==
  ASSUME NetInv, ParserInv, InstallLink, NEW n \in DOMAIN devs', NEW i \in DOMAIN devs'[n]
  PROVE  /\ n \in DOMAIN devs
         /\ \/ i \in DOMAIN devs[n] /\ devs'[n][i] = devs[n][i]
            \/ \E e \in {0, 1} : /\ n = RowNode(row, e) /\ i = Len(devs[n]) + 1
                                 /\ devs'[n][i] = <<row, e>>
<1> DEFINE r == rows[row]
           a == IF n = r.src + 1 THEN << <<row, 0>> >> ELSE <<>>
           b == IF n = r.dst + 1 THEN << <<row, 1>> >> ELSE <<>>
           s == devs[n]
<1>1. /\ n \in DOMAIN devs /\ devs'[n] = s \o a \o b
      /\ row \in DOMAIN rows
  <2>1. row \in Nat \ {0} /\ DOMAIN rows = 1..Len(rows)
    BY DEF NetInv, DevicesOK, ParserInv, RowsOK
  <2>2. row <= Len(rows) /\ Len(rows) \in Nat
    BY DEF InstallLink, ParserInv, RowsOK
  <2>3. row \in DOMAIN rows
    BY <2>1, <2>2
  <2>4. devs' = [m \in DOMAIN devs |-> devs[m] \o (IF m = r.src + 1 THEN << <<row, 0>> >> ELSE <<>>)
                                            \o (IF m = r.dst + 1 THEN << <<row, 1>> >> ELSE <<>>)]
    BY DEF InstallLink
  <2> HIDE DEF r
  <2>5. n \in DOMAIN devs
    BY <2>4
  <2> QED  BY <2>3, <2>4, <2>5
<1>2. r.src # r.dst /\ r.src \in Int /\ r.dst \in Int
  BY <1>1 DEF NetInv, StageOK, InstallLink
<1>3. s \in Seq(Device) /\ <<row, 0>> \in Device /\ <<row, 1>> \in Device
  BY <1>1 DEF NetInv, DevicesOK, Device
<1>4. /\ n = RowNode(row, 0) <=> n = r.src + 1
      /\ n = RowNode(row, 1) <=> n = r.dst + 1
  BY DEF RowNode
<1> HIDE DEF r, s
<1>5. ASSUME NEW d \in Device, devs'[n] = Append(s, d)
      PROVE  (i \in DOMAIN s /\ devs'[n][i] = s[i]) \/ (i = Len(s) + 1 /\ devs'[n][i] = d)
  BY <1>3, <1>5
<1>6. CASE n = r.src + 1
  <2>1. n # r.dst + 1
    BY <1>2, <1>6
  <2>2. devs'[n] = Append(s, <<row, 0>>)
    BY <1>1, <1>3, <1>6, <2>1
  <2> QED  BY <1>1, <1>3, <1>4, <1>5, <1>6, <2>2 DEF s
<1>7. CASE n = r.dst + 1
  <2>1. n # r.src + 1
    BY <1>2, <1>7
  <2>2. devs'[n] = Append(s, <<row, 1>>)
    BY <1>1, <1>3, <1>7, <2>1
  <2> QED  BY <1>1, <1>3, <1>4, <1>5, <1>7, <2>2 DEF s
<1>8. CASE n # r.src + 1 /\ n # r.dst + 1
  <2>1. devs'[n] = s
    BY <1>1, <1>3, <1>8
  <2> QED  BY <1>1, <2>1 DEF s
<1> QED  BY <1>6, <1>7, <1>8

LEMMA InstallLinkTrace ==
  ASSUME NetInv, ParserInv, TraceInv, InstallLink
  PROVE  TraceInv'
<1> DEFINE r == rows[row]
           k1 == <<r.src, NDevices(r.src)>>
           k2 == <<r.dst, NDevices(r.dst)>>
           v1 == AsU32(r.f)
           v2 == AsU32(r.r)
<1>1. /\ stage = "links" /\ row \in DOMAIN rows
      /\ metrics' = Insert(Insert(metrics, k1, v1), k2, v2)
      /\ delays' = Append(delays, r.delay)
      /\ rows' = rows /\ stage' = stage /\ cost' = cost
  <2>1. row \in Nat \ {0} /\ DOMAIN rows = 1..Len(rows)
    BY DEF NetInv, DevicesOK, ParserInv, RowsOK
  <2>2. row <= Len(rows) /\ Len(rows) \in Nat
    BY DEF InstallLink, ParserInv, RowsOK
  <2> QED  BY <2>1, <2>2 DEF InstallLink, Interfaces, vars
<1>2. /\ devs \in Seq(Seq(Device)) /\ delays \in Seq(Nat) /\ row = Len(delays) + 1
      /\ DOMAIN metrics = Ifaces /\ DOMAIN devs = 1..Len(devs)
      /\ \A n \in DOMAIN devs : \A i \in DOMAIN devs[n] : devs[n][i][1] \in DOMAIN delays
  BY DEF NetInv, DevicesOK
<1>3. r.src # r.dst /\ r.src \in Int /\ r.dst \in Int /\ r.delay \in Nat
  <2>1. r.delay \in Nat
    BY <1>1, RowFields
  <2>2. r.src # r.dst /\ r.src \in Int /\ r.dst \in Int
    BY <1>1 DEF NetInv, StageOK
  <2> QED  BY <2>1, <2>2
<1>4. k1 \notin Ifaces /\ k2 \notin Ifaces
  <2>1. ASSUME NEW a \in Int, <<a, NDevices(a)>> \in Ifaces PROVE FALSE
    <3>1. PICK n \in DOMAIN devs : \E i \in DOMAIN devs[n] : <<a, NDevices(a)>> = <<n - 1, i - 1>>
      BY <2>1 DEF Ifaces
    <3>2. PICK i \in DOMAIN devs[n] : a = n - 1 /\ NDevices(a) = i - 1
      BY <3>1
    <3>3. n \in Int /\ a + 1 = n
      BY <1>2, <3>2
    <3>4. NDevices(a) = Len(devs[n])
      BY <3>3 DEF NDevices
    <3>5. Len(devs[n]) \in Nat /\ i \in 1..Len(devs[n])
      BY <1>2, <3>2
    <3> QED  BY <3>2, <3>4, <3>5
  <2> QED  BY <1>3, <2>1
<1>5. k1 # k2
  BY <1>3
<1>6. /\ \A k \in DOMAIN metrics : metrics'[k] = metrics[k]
      /\ metrics'[k1] = v1 /\ metrics'[k2] = v2
  <2> HIDE DEF k1, k2, v1, v2
  <2> QED  BY <1>1, <1>2, <1>4, <1>5 DEF Insert
<1>7. \A c : c \in DOMAIN delays' => \/ c \in DOMAIN delays /\ delays'[c] = delays[c]
                                     \/ c = row /\ delays'[c] = r.delay
  <2> HIDE DEF r
  <2> QED  BY <1>1, <1>2, <1>3
<1>8. \A c \in DOMAIN delays' : delays'[c] = rows'[c].delay
  <2>1. \A c \in DOMAIN delays : delays[c] = rows[c].delay
    BY DEF TraceInv
  <2> QED  BY <1>1, <1>7, <2>1
<1>9. Len(delays') <= Len(rows')
  <2>1. Len(delays') = row
    <3> HIDE DEF r
    <3> QED  BY <1>1, <1>2, <1>3
  <2>2. row <= Len(rows)
    BY DEF InstallLink
  <2> QED  BY <1>1, <2>1, <2>2
<1>10. cost' = <<>> /\ DOMAIN cost' = {}
  BY <1>1 DEF NetInv, CostsOK
<1>11. ASSUME NEW n \in DOMAIN devs', NEW i \in DOMAIN devs'[n] PROVE InPlace(n, i)'
  <2> DEFINE d == devs'[n][i]
  <2>1. n \in DOMAIN devs
    BY NewDevices
  <2>2. CASE i \in DOMAIN devs[n] /\ devs'[n][i] = devs[n][i]
    <3>1. n = RowNode(d[1], d[2]) /\ metrics[<<n - 1, i - 1>>] = AsU32(RowMetric(d[1], d[2]))
      BY <2>1, <2>2 DEF TraceInv, InPlace
    <3>2. <<n - 1, i - 1>> \in DOMAIN metrics
      BY <1>2, <2>1, <2>2 DEF Ifaces
    <3>3. metrics'[<<n - 1, i - 1>>] = metrics[<<n - 1, i - 1>>]
      BY <1>6, <3>2
    <3> HIDE DEF d
    <3>4. PICK c, e : c = d[1] /\ e = d[2]
      OBVIOUS
    <3>5. n = RowNode(c, e)' /\ metrics'[<<n - 1, i - 1>>] = AsU32(RowMetric(c, e))'
      BY <1>1, <3>1, <3>3, <3>4 DEF RowNode, RowMetric, AsU32
    <3> QED  BY <3>4, <3>5 DEF InPlace, d
  <2>3. CASE \E e \in {0, 1} : n = RowNode(row, e) /\ i = Len(devs[n]) + 1 /\ d = <<row, e>>
    <3>1. PICK e \in {0, 1} : n = RowNode(row, e) /\ i = Len(devs[n]) + 1 /\ d = <<row, e>>
      BY <2>3
    <3>2. Len(devs[n]) \in Nat /\ n \in Nat
      BY <1>2, <2>1
    <3>3. i - 1 = Len(devs[n])
      BY <3>1, <3>2
    <3>4. <<n - 1, i - 1>> = IF e = 0 THEN k1 ELSE k2
      <4>1. CASE e = 0
        <5>1. n = r.src + 1
          BY <3>1, <4>1 DEF RowNode
        <5>2. n - 1 = r.src
          BY <1>3, <5>1
        <5> QED  BY <3>3, <4>1, <5>1, <5>2 DEF NDevices
      <4>2. CASE e = 1
        <5>1. n = r.dst + 1
          BY <3>1, <4>2 DEF RowNode
        <5>2. n - 1 = r.dst
          BY <1>3, <5>1
        <5> QED  BY <3>3, <4>2, <5>1, <5>2 DEF NDevices
      <4> QED  BY <4>1, <4>2
    <3>5. metrics'[<<n - 1, i - 1>>] = AsU32(RowMetric(row, e))
      <4>1. AsU32(RowMetric(row, e)) = IF e = 0 THEN v1 ELSE v2
        BY DEF RowMetric
      <4> HIDE DEF k1, k2, v1, v2
      <4> QED  BY <1>6, <3>4, <4>1
    <3>6. d[1] = row /\ d[2] = e
      BY <3>1
    <3> HIDE DEF d, k1, k2, v1, v2, r
    <3>7. PICK w : w = row
      OBVIOUS
    <3>8. n = RowNode(w, e)' /\ metrics'[<<n - 1, i - 1>>] = AsU32(RowMetric(w, e))'
      BY <1>1, <3>1, <3>5, <3>7 DEF RowNode, RowMetric, AsU32
    <3>9. d[1] = w /\ d[2] = e
      BY <3>6, <3>7
    <3> QED  BY <3>8, <3>9 DEF InPlace, d
  <2> QED  BY <2>2, <2>3, NewDevices
<1> QED  BY <1>1, <1>8, <1>9, <1>10, <1>11 DEF TraceInv

\* A node's costs are the metrics of its interfaces.
LEMMA ConfigureNodeTrace ==
  ASSUME NetInv, TraceInv, ConfigureNode
  PROVE  TraceInv'
<1> DEFINE m == Len(lo)
           c == [i \in DOMAIN devs[m + 1] |-> CostOf(m, i - 1)]
<1>1. /\ stage = "bird" /\ m < nNodes
      /\ cost' = Append(cost, c)
      /\ UNCHANGED <<rows, stage, devs, delays, metrics>>
  BY DEF ConfigureNode, vars
<1>2. /\ IsSequence(cost) /\ Len(cost) = m /\ m \in Nat
      /\ nNodes = Len(devs) /\ Len(devs) \in Nat /\ DOMAIN devs = 1..Len(devs)
      /\ DOMAIN metrics = Ifaces
  BY DEF NetInv, CostsOK, DevicesOK
<1>3. m + 1 \in DOMAIN devs /\ (m + 1) - 1 = m
  <2> HIDE DEF m
  <2> QED  BY <1>1, <1>2
<1>4. \A i \in DOMAIN c : c[i] = metrics[<<m, i - 1>>]
  <2> SUFFICES ASSUME NEW i \in DOMAIN devs[m + 1] PROVE CostOf(m, i - 1) = metrics[<<m, i - 1>>]
    OBVIOUS
  <2>1. <<(m + 1) - 1, i - 1>> \in Ifaces
    BY <1>3 DEF Ifaces
  <2>2. <<m, i - 1>> \in DOMAIN metrics
    BY <1>2, <1>3, <2>1
  <2> QED  BY <2>2 DEF CostOf
<1> HIDE DEF m, c
<1>5. /\ DOMAIN cost' = 1..(m + 1) /\ DOMAIN cost = 1..m
      /\ cost'[m + 1] = c /\ \A i \in 1..m : cost'[i] = cost[i]
  <2>1. cost \in Seq(ToSet(cost) \cup {c})
    BY <1>2 DEF IsSequence, ToSet
  <2> QED  BY <1>1, <1>2, <2>1
<1>6. ASSUME NEW n \in DOMAIN cost', NEW i \in DOMAIN cost'[n]
      PROVE  cost'[n][i] = metrics'[<<n - 1, i - 1>>]
  <2>1. n \in 1..m \/ n = m + 1
    BY <1>2, <1>5
  <2>2. CASE n \in 1..m
    <3>1. n \in DOMAIN cost /\ cost'[n] = cost[n]
      BY <1>5, <2>2
    <3>2. cost[n][i] = metrics[<<n - 1, i - 1>>]
      BY <1>6, <3>1 DEF TraceInv
    <3> QED  BY <1>1, <3>1, <3>2
  <2>3. CASE n = m + 1
    <3>1. n - 1 = m /\ cost'[n] = c
      BY <1>3, <1>5, <2>3
    <3> QED  BY <1>1, <1>4, <1>6, <3>1
  <2> QED  BY <2>1, <2>2, <2>3
<1>7. \A n \in DOMAIN devs' : \A i \in DOMAIN devs'[n] : InPlace(n, i)'
  <2> SUFFICES ASSUME NEW n \in DOMAIN devs, NEW i \in DOMAIN devs[n] PROVE InPlace(n, i)'
    BY <1>1
  <2>1. InPlace(n, i)
    BY DEF TraceInv
  <2>2. PICK d : d = devs[n][i]
    OBVIOUS
  <2> QED  BY <1>1, <2>1, <2>2 DEF InPlace, RowNode, RowMetric, AsU32
<1> QED  BY <1>1, <1>6, <1>7 DEF TraceInv

LEMMA TraceNext ==
  ParserInv /\ NetInv /\ TraceInv /\ ParserInv' /\ [TopoNext]_allVars => TraceInv'
<1> SUFFICES ASSUME ParserInv, NetInv, TraceInv, ParserInv', [TopoNext]_allVars PROVE TraceInv'
  OBVIOUS
<1>a. ASSUME UNCHANGED <<rows, devs, delays, metrics, cost>>
      PROVE  /\ \A n \in DOMAIN devs' : \A i \in DOMAIN devs'[n] : InPlace(n, i)'
             /\ \A c \in DOMAIN delays' : delays'[c] = rows'[c].delay
             /\ \A n \in DOMAIN cost' : \A i \in DOMAIN cost'[n] :
                  cost'[n][i] = metrics'[<<n - 1, i - 1>>]
             /\ Len(delays') <= Len(rows')
  <2>1. ASSUME NEW n \in DOMAIN devs, NEW i \in DOMAIN devs[n] PROVE InPlace(n, i)'
    <3>1. InPlace(n, i)
      BY DEF TraceInv
    <3>2. PICK d : d = devs[n][i]
      OBVIOUS
    <3> QED  BY <1>a, <3>1, <3>2 DEF InPlace, RowNode, RowMetric, AsU32
  <2> QED  BY <1>a, <2>1 DEF TraceInv
<1>b. ASSUME UNCHANGED <<delays, cost>>, stage = "parsing", stage' \in {"parsing", "links"},
             \A n \in DOMAIN devs' : DOMAIN devs'[n] = {}
      PROVE  TraceInv'
  <2>1. delays' = <<>> /\ cost' = <<>>
    BY <1>b DEF NetInv, StageOK
  <2>2. Len(rows') \in Nat
    BY DEF ParserInv, RowsOK
  <2>3. DOMAIN delays' = {} /\ DOMAIN cost' = {} /\ Len(delays') <= Len(rows')
    BY <2>1, <2>2
  <2> QED  BY <1>b, <2>3 DEF TraceInv
<1>1. CASE Parse
  <2>1. UNCHANGED netVars /\ stage = "parsing" /\ devs = <<>>
    BY <1>1 DEF Parse, NetInv, StageOK
  <2>2. DOMAIN devs' = {}
    BY <2>1 DEF netVars
  <2> QED  BY <1>b, <2>1, <2>2 DEF netVars
<1>2. CASE ReadRows
  <2>1. \A n \in DOMAIN devs' : DOMAIN devs'[n] = {}
    BY <1>2 DEF ReadRows
  <2> QED  BY <1>2, <1>b, <2>1 DEF ReadRows
<1>3. CASE InstallLink
  BY <1>3, InstallLinkTrace
<1>4. CASE LinksDone
  <2>1. /\ UNCHANGED <<rows, devs, delays, metrics, cost>>
        /\ stage = "links" /\ row > Len(rows) /\ stage' = "bird"
    BY <1>4 DEF LinksDone, vars
  <2>2. /\ row = Len(delays) + 1 /\ Len(delays) \in Nat /\ Len(rows) \in Nat
        /\ Len(delays) <= Len(rows)
    BY DEF NetInv, DevicesOK, ParserInv, RowsOK, TraceInv
  <2>3. Len(delays) = Len(rows)
    BY <2>1, <2>2
  <2> QED  BY <1>a, <2>1, <2>3 DEF TraceInv
<1>5. CASE ConfigureNode
  BY <1>5, ConfigureNodeTrace
<1>6. CASE NodesDone
  <2>1. /\ UNCHANGED <<rows, devs, delays, metrics, cost>>
        /\ stage = "bird" /\ Len(lo) = nNodes /\ stage' \in {"checking", "ready"}
    BY <1>6 DEF NodesDone, vars
  <2>2. Len(cost) = Len(devs) /\ Len(delays) = Len(rows)
    BY <2>1 DEF NetInv, CostsOK, TraceInv
  <2> QED  BY <1>a, <2>1, <2>2 DEF TraceInv
<1>7. CASE Verify
  <2>1. /\ UNCHANGED <<rows, devs, delays, metrics, cost>> /\ UNCHANGED <<file, map, pos, devs, delays, cost>>
        /\ stage = "checking" /\ stage' = IF TestPasses THEN "ready" ELSE "aborted"
    BY <1>7 DEF Verify, vars
  <2>2. TestPasses' = TestPasses
    BY <2>1, TestStays
  <2>3. Len(cost) = Len(devs) /\ Len(delays) = Len(rows)
    BY <2>1 DEF TraceInv
  <2> HIDE DEF TestPasses
  <2> QED  BY <1>a, <2>1, <2>2, <2>3 DEF TraceInv
<1>8. CASE UNCHANGED allVars
  <2>1. /\ UNCHANGED <<rows, devs, delays, metrics, cost>> /\ UNCHANGED <<file, map, pos, devs, delays, cost>>
        /\ stage' = stage
    BY <1>8 DEF allVars, netVars, vars
  <2>2. TestPasses' = TestPasses
    BY <2>1, TestStays
  <2> HIDE DEF TestPasses
  <2> QED  BY <1>a, <2>1, <2>2 DEF TraceInv
<1> QED  BY <1>1, <1>2, <1>3, <1>4, <1>5, <1>6, <1>7, <1>8 DEF TopoNext

\* What BIRD is told of the two ends of a link whose metrics fit their type is
\* what its row expresses.
LEMMA LinkAsRow ==
  ASSUME ParserInv, NetInv, TraceInv, stage \in {"checking", "ready", "aborted"},
         NEW c \in DOMAIN rows,
         \A e \in {0, 1} : RowMetric(c, e) \in Nat /\ RowMetric(c, e) < U32
  PROVE  c \in DOMAIN delays /\ LinkLines(c) = Expressed(rows[c])
<1> DEFINE r == rows[c]
<1>1. devs \in Seq(Seq(Device)) /\ DOMAIN devs = 1..Len(devs)
  BY DEF NetInv, DevicesOK
<1>a. DOMAIN delays = 1..Len(delays) /\ DOMAIN rows = 1..Len(rows) /\ EndsOK
  BY DEF NetInv, DevicesOK, ParserInv, RowsOK
<1>2. /\ Len(delays) = Len(rows) /\ Len(cost) = Len(devs) /\ IsSequence(cost)
      /\ \A n \in DOMAIN cost : DOMAIN cost[n] = DOMAIN devs[n]
  BY DEF TraceInv, NetInv, CostsOK
<1>3. c \in DOMAIN delays /\ DOMAIN cost = DOMAIN devs
  <2>1. DOMAIN cost = 1..Len(cost)
    BY <1>2 DEF IsSequence
  <2> QED  BY <1>1, <1>a, <1>2, <2>1
<1>4. delays[c] = r.delay
  BY <1>3 DEF TraceInv
<1>5. r.src \in Int /\ r.dst \in Int /\ U32 \in Nat \ {0}
  <2>1. r.src \in 0..(Len(map) - 1) /\ r.dst \in 0..(Len(map) - 1)
    BY RowFields
  <2> HIDE DEF r
  <2> QED  BY <2>1, NtfTopoGenAssumption
<1>6. ASSUME NEW e \in {0, 1}
      PROVE  Told(c, e) = <<RowNode(c, e), RowMetric(c, e)>>
  <2>1. PICK n \in DOMAIN devs : \E i \in DOMAIN devs[n] : devs[n][i] = <<c, e>>
    BY <1>a, <1>3 DEF EndsOK
  <2>2. PICK i \in DOMAIN devs[n] : devs[n][i] = <<c, e>>
    BY <2>1
  <2>3. IsEnd(n, i, c, e)
    BY <2>2 DEF IsEnd
  <2>4. Told(c, e) = <<n, cost[n][i]>>
    <3>1. Owner(<<c, e>>) = n /\ Told(c, e) = <<n, cost[n][i]>>
      BY ONLY <1>a, <1>1, <2>3, EndFound
    <3> QED  BY <3>1
  <2>5. n = RowNode(c, e) /\ metrics[<<n - 1, i - 1>>] = AsU32(RowMetric(c, e))
    <3>1. InPlace(n, i)
      BY DEF TraceInv
    <3>2. devs[n][i][1] = c /\ devs[n][i][2] = e
      BY <2>2
    <3> QED  BY <3>1, <3>2 DEF InPlace
  <2>6. cost[n][i] = metrics[<<n - 1, i - 1>>]
    BY <1>2, <1>3 DEF TraceInv
  <2>7. AsU32(RowMetric(c, e)) = RowMetric(c, e)
    <3> DEFINE m == RowMetric(c, e)
    <3>1. m \in Nat /\ m < U32
      OBVIOUS
    <3> HIDE DEF m
    <3>2. m % U32 = m
      BY <1>5, <3>1, QuotientBelow
    <3> QED  BY <3>2 DEF AsU32, m
  <2> QED  BY <2>4, <2>5, <2>6, <2>7
<1>7. /\ Told(c, 0) = <<r.src + 1, r.f>> /\ Told(c, 1) = <<r.dst + 1, r.r>>
  BY <1>6 DEF RowNode, RowMetric
<1>8. /\ LinkLines(c)  = << Plain(map[r.src + 1], map[r.dst + 1], r.f, r.delay),
                            Plain(map[r.dst + 1], map[r.src + 1], r.r, r.delay) >>
  <2>1. PICK s : s = Told(c, 0)
    OBVIOUS
  <2>2. PICK t : t = Told(c, 1)
    OBVIOUS
  <2>3. LinkLines(c) = << Plain(map[s[1]], map[t[1]], s[2], delays[c]),
                          Plain(map[t[1]], map[s[1]], t[2], delays[c]) >>
    BY <2>1, <2>2 DEF LinkLines
  <2>4. s[1] = r.src + 1 /\ s[2] = r.f /\ t[1] = r.dst + 1 /\ t[2] = r.r
    BY <1>7, <2>1, <2>2
  <2> QED  BY <1>4, <2>3, <2>4
<1>9. r.f # Missing /\ r.r # Missing
  <2>1. r.f \in Nat /\ r.r \in Nat
    BY DEF RowMetric
  <2> HIDE DEF r
  <2> QED  BY <2>1 DEF Missing
<1>10. Expressed(r) = <<ForwardLine(r), ReverseLine(r)>>
  BY <1>9, ExpressedIs
<1> QED  BY <1>3, <1>8, <1>10 DEF ForwardLine, ReverseLine

\* The check passes on the network of a well-formed topology.
LEMMA WellFormedPasses ==
  ASSUME ParserInv, NumberInv, BalanceInv, AcceptInv, AcceptedFaithful, WellFormedAccepted,
         NetInv, SizeInv, TraceInv, stage \in {"checking", "ready", "aborted"},
         WellFormed, FileConnected, \A i \in DOMAIN Lines : Lines[i].metric < U32
  PROVE  TestPasses
<1>1. Ended /\ file.kind = "topology"
  BY DEF NetInv, StageOK, SizeInv
<1>2. status = "accepted"
  BY <1>1 DEF WellFormedAccepted
<1>3. MapWritten
  <2>1. PICK first : PairedBy(first)
    BY <1>1 DEF WellFormed, PairedBy
  <2>2. pos = Len(Lines) + 1 /\ Len(Lines) \in Nat
    BY <1>2, <2>1, Indices DEF AcceptInv, AcceptOK, ParserInv, InputOK
  <2> QED  BY <2>2 DEF MapWritten
<1>4. ASSUME NEW c \in DOMAIN rows, NEW e \in {0, 1}
      PROVE  RowMetric(c, e) \in Nat /\ RowMetric(c, e) < U32
  <2>1. rows[c].f \in Nat \ {0} /\ rows[c].r \in Nat \ {0}
    BY <1>1, RowsComplete
  <2> DEFINE y == <<c, e + 1>>
  <2>2. Metric(rows[c], e + 1) = RowMetric(c, e) /\ e + 1 \in {1, 2}
    BY DEF Metric, RowMetric
  <2>3. RowMetric(c, e) \in Nat
    BY <2>1 DEF RowMetric
  <2>4. Metric(rows[c], e + 1) # Missing
    BY <2>2, <2>3 DEF Missing
  <2>5. y \in Directions /\ y[1] = c /\ y[2] = e + 1
    BY <2>2, <2>4 DEF Directions
  <2> HIDE DEF y
  <2>6. PICK j \in DOMAIN Lines : Lines[j].metric = Metric(rows[y[1]], y[2])
    BY <1>1, <1>2, <2>5, RowFromLine DEF WellFormed
  <2>7. Lines[j].metric = RowMetric(c, e)
    BY <2>2, <2>5, <2>6
  <2> QED  BY <2>3, <2>7
<1>5. \A c \in DOMAIN rows : c \in DOMAIN delays /\ LinkLines(c) = Expressed(rows[c])
  BY <1>4, LinkAsRow
<1>6. ByLink = ExpressedRows
  <2>1. DOMAIN delays = DOMAIN rows
    <3>1. Len(delays) = Len(rows)
      BY DEF TraceInv
    <3> QED  BY <3>1 DEF NetInv, DevicesOK, ParserInv, RowsOK
  <2> QED  BY <1>5, <2>1, Zenon DEF ByLink, ExpressedRows
<1>7. ToBag(FlattenSeq(ExpressedRows)) = ToBag([i \in DOMAIN Lines |-> Text(Lines[i])])
  BY <1>1, <1>2, Zenon DEF AcceptedFaithful, ExpressedRows
<1>8. ToBag(Generated) = ToBag(FlattenSeq(ByLink))
  BY GeneratedByLink DEF NetInv
<1>9. ToBag(Generated) = ToBag([i \in DOMAIN Lines |-> Text(Lines[i])])
  BY <1>6, <1>7, <1>8
<1> QED  BY <1>3, <1>9 DEF TestPasses

\* Every well-formed and connected topology whose metrics fit their type is
\* simulated: the check of test.py, on the network that is built from the rows
\* of ntf_parser.py, never aborts it (NtfTopoGen.cc:120-135, 378-391).
THEOREM WellFormedAlwaysRuns == TopoSpec => []WellFormedRuns
<1>1. /\ ParserInv /\ NumberInv /\ BalanceInv /\ AcceptInv /\ AcceptedFaithful /\ WellFormedAccepted
      /\ NetInv /\ SizeInv /\ TraceInv
      => WellFormedRuns
  <2> SUFFICES ASSUME ParserInv, NumberInv, BalanceInv, AcceptInv, AcceptedFaithful, WellFormedAccepted,
                      NetInv, SizeInv, TraceInv, stage \in {"ready", "aborted"},
                      WellFormed, FileConnected, \A i \in DOMAIN Lines : Lines[i].metric < U32
               PROVE  stage = "ready"
    BY DEF WellFormedRuns
  <2>1. TestPasses
    BY WellFormedPasses
  <2> HIDE DEF TestPasses
  <2> QED  BY <2>1 DEF TraceInv
<1>2. Spec => [](ParserInv /\ NumberInv /\ BalanceInv /\ AcceptInv)
  BY AcceptInductive
<1> QED
  BY <1>1, <1>2, TopoImplementsParser, TopoInductive, SizeInit, SizeNext, TraceInit, TraceNext,
     TopologyFaithful, AlwaysAccepted, PTL DEF TopoSpec

-----------------------------------------------------------------------------
(* The clients                                                             *)

\* A file that spfs.py can read has two nodes, and if it drops the last line it
\* has seen its nodes in the line for the direction back.
LEMMA CheckedCounts ==
  ASSUME ParserInv, NetInv, CheckedInv, file \in Files, file.kind = "topology", stage = "ready", Check,
         NEW written \in Layouts, SpfsReads(written)
  PROVE  Len(SpfsNodes(written)) = Counted /\ Counted \in Nat /\ Counted >= 2
<1> DEFINE K == SpfsLines(written)
           N == Len(Lines)
           s == SpfsNodes(written)
<1>1. /\ N \in Nat /\ DOMAIN Lines = 1..N /\ K \in 0..N
      /\ Lines = <<>> <=> N = 0
      /\ written.ended => K = N
      /\ ~written.ended /\ Lines # <<>> => K = N - 1
      /\ s \in Seq(FileNames)
      /\ ToSet(s) = {Lines[i].src : i \in 1..K} \cup {Lines[i].dst : i \in 1..K}
      /\ K = 0 => s = <<>>
  BY LinesRead
<1>2. K # 0 /\ s = Seen[K]
  BY <1>1 DEF SpfsReads, SpfsNodes
<1> HIDE DEF s, K, N
<1>3. \A i \in DOMAIN Lines : Lines[i].src # Lines[i].dst
  BY NtfTopoGenAssumption DEF Lines
<1>4. s = FirstAppearance
  <2>1. CASE K = N
    BY <1>2, <2>1 DEF FirstAppearance, N
  <2>2. CASE K # N
    <3>1. K = N - 1 /\ N \in DOMAIN Lines /\ N - 1 = K
      BY <1>1, <1>2, <2>2
    <3>2. PICK j \in DOMAIN Lines : Lines[j].src = Lines[N].dst /\ Lines[j].dst = Lines[N].src
      BY <3>1, CheckedLines
    <3>3. j \in 1..K
      BY <1>1, <1>3, <3>1, <3>2
    <3>4. Lines[N].src \in ToSet(s) /\ Lines[N].dst \in ToSet(s)
      BY <1>1, <3>2, <3>3
    <3> HIDE DEF Seen
    <3>5. Seen[N] = NotedLine(N, s)
      <4>1. IsSequence(Lines)
        BY DEF ParserInv, InputOK
      <4>2. N \in 1..Len(Lines)
        BY <1>1, <3>1 DEF N
      <4> QED  BY <1>2, <3>1, <4>1, <4>2, SeenLines
    <3>6. Noted(s, Lines[N].src) = s /\ Noted(s, Lines[N].dst) = s
      BY <1>1, <3>4, NotedNames
    <3> QED  BY <3>5, <3>6 DEF NotedLine, FirstAppearance, N
  <2> QED  BY <2>1, <2>2
<1>5. Len(s) >= 2
  <2>1. 1 \in 1..K /\ 1 \in DOMAIN Lines
    BY <1>1, <1>2
  <2>2. Lines[1].src \in ToSet(s) /\ Lines[1].dst \in ToSet(s) /\ Lines[1].src # Lines[1].dst
    BY <1>1, <1>3, <2>1
  <2>3. PICK a \in DOMAIN s : s[a] = Lines[1].src
    BY <2>2 DEF ToSet
  <2>4. PICK b \in DOMAIN s : s[b] = Lines[1].dst
    BY <2>2 DEF ToSet
  <2>5. a # b
    BY <2>2, <2>3, <2>4
  <2>6. DOMAIN s = 1..Len(s) /\ Len(s) \in Nat
    BY <1>1
  <2> QED  BY <2>5, <2>6
<1>6. Len(s) \in Nat
  BY <1>1
<1> QED  BY <1>4, <1>5, <1>6 DEF Counted, s

\* The clients of node a, when the file has n nodes, and those of the first k.
ClientsOf(a, n) == { <<a, Scripted(b)>> : b \in 0..(n - 1) \ {a} }
ClientsUpTo(k, n) == UNION { ClientsOf(a, n) : a \in 0..(k - 1) }

\* c lists the clients of the first k nodes; below the wrap, each once.
Starts(c, k, n) ==
  /\ c \in Seq(ClientsUpTo(k, n)) /\ ToSet(c) = ClientsUpTo(k, n)
  /\ n < LoWrap => IsInjective(c)

\* Below the wrap, the scripts give distinct addresses.
LEMMA ScriptedBelow ==
  ASSUME NEW a \in Nat, a < LoWrap
  PROVE  Scripted(a) = <<0, a + 1>>
<1>1. LoWrap \in Nat \ {0}
  BY NtfTopoGenAssumption
<1>2. a \div LoWrap = 0 /\ a % LoWrap = a
  BY <1>1, QuotientBelow
<1> QED  BY <1>2 DEF Scripted

\* The clients of a line of udp.ping.
LEMMA OneLine ==
  ASSUME NEW n \in Nat, NEW k \in 0..(n - 1), NEW t,
         t = [i \in DOMAIN Leaves(n)[k + 1] |-> <<k, Leaves(n)[k + 1][i]>>]
  PROVE  /\ t \in Seq(ClientsOf(k, n)) /\ ToSet(t) = ClientsOf(k, n)
         /\ n < LoWrap => IsInjective(t)
<1> DEFINE g(i) == IF i < k + 1 THEN i - 1 ELSE i
<1>1. Leaves(n)[k + 1] = [i \in 1..(n - 1) |-> Scripted(g(i))]
  BY DEF Leaves
<1>2. /\ \A i \in 1..(n - 1) : g(i) \in 0..(n - 1) /\ g(i) # k
      /\ \A i, j \in 1..(n - 1) : g(i) = g(j) => i = j
  OBVIOUS
<1>3. \A b \in 0..(n - 1) \ {k} : \E i \in 1..(n - 1) : g(i) = b
  <2> SUFFICES ASSUME NEW b \in 0..(n - 1) \ {k} PROVE \E i \in 1..(n - 1) : g(i) = b
    OBVIOUS
  <2>1. CASE b < k
    <3>1. b + 1 \in 1..(n - 1) /\ g(b + 1) = b
      BY <2>1
    <3> HIDE DEF g
    <3> QED  BY <3>1
  <2>2. CASE ~(b < k)
    <3>1. b \in 1..(n - 1) /\ g(b) = b
      BY <2>2
    <3> HIDE DEF g
    <3> QED  BY <3>1
  <2> QED  BY <2>1, <2>2
<1> HIDE DEF g
<1>4. t = [i \in 1..(n - 1) |-> <<k, Scripted(g(i))>>]
  BY <1>1
<1>5. \A i \in 1..(n - 1) : t[i] \in ClientsOf(k, n)
  BY <1>2, <1>4 DEF ClientsOf
<1>6. t \in Seq(ClientsOf(k, n))
  <2> DEFINE m == n - 1
             C == ClientsOf(k, n)
  <2>1. m \in Nat /\ t = [i \in 1..m |-> t[i]]
    BY <1>4
  <2>2. \A i \in 1..m : t[i] \in C
    BY <1>5
  <2> HIDE DEF m, C
  <2>3. t \in [1..m -> C]
    BY <2>1, <2>2
  <2>4. t \in Seq(C)
    BY <2>1, <2>3, SeqDef
  <2> QED  BY <2>4 DEF C
<1>7. ASSUME NEW x \in ClientsOf(k, n) PROVE x \in ToSet(t)
  <2>1. PICK b \in 0..(n - 1) \ {k} : x = <<k, Scripted(b)>>
    BY DEF ClientsOf
  <2>2. PICK i \in 1..(n - 1) : g(i) = b
    BY <1>3
  <2>3. i \in DOMAIN t /\ t[i] = x
    BY <1>4, <2>1, <2>2
  <2> QED  BY <2>3 DEF ToSet
<1>8. ToSet(t) = ClientsOf(k, n)
  <2>1. \A x \in ToSet(t) : x \in ClientsOf(k, n)
    BY <1>4, <1>5 DEF ToSet
  <2> QED  BY <1>7, <2>1
<1>9. ASSUME n < LoWrap, NEW i \in 1..(n - 1), NEW j \in 1..(n - 1), t[i] = t[j] PROVE i = j
  <2>1. LoWrap \in Nat
    BY NtfTopoGenAssumption
  <2>2. g(i) \in Nat /\ g(j) \in Nat /\ g(i) < LoWrap /\ g(j) < LoWrap
    BY <1>2, <1>9, <2>1
  <2>3. Scripted(g(i)) = Scripted(g(j))
    BY <1>4, <1>9
  <2>4. g(i) + 1 = g(j) + 1
    BY <2>2, <2>3, ScriptedBelow
  <2>5. g(i) = g(j)
    BY <2>2, <2>4
  <2> QED  BY <1>2, <2>5
<1>10. n < LoWrap => IsInjective(t)
  BY <1>4, <1>9 DEF IsInjective
<1> QED  BY <1>6, <1>8, <1>10

\* One line more.
LEMMA OneLineMore ==
  ASSUME NEW n \in Nat, NEW k \in 0..(n - 1), NEW c, Starts(c, k, n), NEW t,
         t = [i \in DOMAIN Leaves(n)[k + 1] |-> <<k, Leaves(n)[k + 1][i]>>]
  PROVE  Starts(c \o t, k + 1, n)
<1> DEFINE U == ClientsUpTo(k, n)
           L == ClientsOf(k, n)
           V == ClientsUpTo(k + 1, n)
<1>1. V = U \cup L
  <2>1. \A a : a \in 0..((k + 1) - 1) <=> a \in 0..(k - 1) \/ a = k
    OBVIOUS
  <2> QED  BY <2>1 DEF ClientsUpTo
<1>2. U \cap L = {}
  <2> SUFFICES ASSUME NEW x \in U, x \in L PROVE FALSE
    OBVIOUS
  <2>1. PICK a \in 0..(k - 1) : x \in ClientsOf(a, n)
    BY DEF ClientsUpTo
  <2>2. x[1] = a /\ x[1] = k
    BY <2>1 DEF ClientsOf
  <2> QED  BY <2>1, <2>2
<1>3. t \in Seq(L) /\ ToSet(t) = L /\ (n < LoWrap => IsInjective(t))
  BY OneLine
<1>4. c \in Seq(U) /\ ToSet(c) = U /\ (n < LoWrap => IsInjective(c))
  BY DEF Starts
<1> HIDE DEF U, L, V
<1>5. c \in Seq(V) /\ t \in Seq(V)
  BY <1>1, <1>3, <1>4, SeqMonotonic
<1>6. PICK u : u = c \o t
  OBVIOUS
<1>7. /\ u \in Seq(V) /\ \A x : x \in ToSet(u) <=> x \in ToSet(c) \/ x \in ToSet(t)
      /\ IsInjective(c) /\ IsInjective(t) /\ (\A x \in ToSet(c) : x \notin ToSet(t)) => IsInjective(u)
  BY ONLY <1>5, <1>6, Concatenated
<1>8. ToSet(u) = V /\ (\A x \in ToSet(c) : x \notin ToSet(t))
  BY <1>1, <1>2, <1>3, <1>4, <1>7
<1>9. n < LoWrap => IsInjective(u)
  BY <1>3, <1>4, <1>7, <1>8
<1> QED  BY <1>6, <1>7, <1>8, <1>9 DEF Starts, V

\* ntf.cc counts the lines; the model, the nodes that have clients.
LEMMA LinesStarted ==
  ASSUME NEW n \in Nat, NEW k \in 0..(n - 1), NEW c, ToSet(c) = ClientsUpTo(k, n)
  PROVE  Cardinality({c[i][1] : i \in DOMAIN c}) = k
<1> DEFINE S == {c[i][1] : i \in DOMAIN c}
<1>1. \A x \in S : x \in 0..(k - 1)
  <2> SUFFICES ASSUME NEW i \in DOMAIN c PROVE c[i][1] \in 0..(k - 1)
    OBVIOUS
  <2>1. c[i] \in ClientsUpTo(k, n)
    BY DEF ToSet
  <2>2. PICK a \in 0..(k - 1) : c[i] \in ClientsOf(a, n)
    BY <2>1 DEF ClientsUpTo
  <2>3. c[i][1] = a
    BY <2>2 DEF ClientsOf
  <2> QED  BY <2>3
<1>2. \A a \in 0..(k - 1) : a \in S
  <2> SUFFICES ASSUME NEW a \in 0..(k - 1) PROVE \E i \in DOMAIN c : c[i][1] = a
    OBVIOUS
  <2>1. PICK b \in 0..(n - 1) : b # a
    <3>1. 0 \in 0..(n - 1) /\ 1 \in 0..(n - 1)
      OBVIOUS
    <3> QED  BY <3>1
  <2>2. <<a, Scripted(b)>> \in ClientsUpTo(k, n)
    BY <2>1 DEF ClientsUpTo, ClientsOf
  <2>3. PICK i \in DOMAIN c : c[i] = <<a, Scripted(b)>>
    BY <2>2 DEF ToSet
  <2> QED  BY <2>3
<1>3. S = 0..(k - 1)
  BY <1>1, <1>2
<1> HIDE DEF S
<1>4. Cardinality(0..(k - 1)) = k
  BY FS_Interval
<1> QED  BY <1>3, <1>4 DEF S

\* Where main() of ntf.cc is, what it has started: the clients of the lines
\* of udp.ping read so far, then the servers and dumps of the nodes so far.
PingInv == Check =>
  /\ pings \in {"setup", "clients", "nodes", "run", "aborted"}
  /\ pings # "setup" => stage = "ready"
  /\ pings = "setup" => clients = <<>> /\ udp = FALSE
  /\ pings \in {"setup", "clients"} => dumping = 0 /\ servers = {}
  /\ pings = "clients" =>
       /\ udp /\ udpPing = Leaves(Counted) /\ Counted >= 2
       /\ \E k \in 0..(Counted - 1) : Starts(clients, k, Counted)
  /\ pings \in {"nodes", "run"} /\ udp => Counted = nNodes /\ Starts(clients, Counted, Counted)
  /\ pings \in {"nodes", "run"} => dumping \in 0..nNodes /\ (udp => servers = 0..(dumping - 1))
  /\ pings = "run" => dumping = nNodes

LEMMA PingStart == PingInit => PingInv
BY DEF PingInit, PingInv

LEMMA StartClientsInv ==
  ASSUME ParserInv, SizeInv, PingInv, StartClients, Check
  PROVE  PingInv'
<1> DEFINE n == Counted
           iteration == Cardinality({clients[i][1] : i \in DOMAIN clients})
           tokens == Tokens(udpPing[iteration + 1])
           t == [i \in DOMAIN tokens |-> <<iteration, tokens[i]>>]
<1>1. /\ pings = "clients" /\ stage = "ready" /\ udp /\ udpPing = Leaves(n) /\ dumping = 0 /\ servers = {}
      /\ nNodes \in Nat \ {0} /\ (nNodes = 1 \/ nNodes <= n)
  BY DEF StartClients, PingInv, SizeInv
<1>2. n \in Nat /\ n' = n /\ n >= 2
  BY CountedIsNat, CountedStays DEF StartClients, PingInv, allVars, vars
<1>3. /\ iteration < Len(udpPing) /\ iteration < nNodes
      /\ clients' = clients \o t
      /\ pings' = IF iteration + 1 = Len(udpPing) THEN "nodes" ELSE "clients"
      /\ UNCHANGED <<allVars, udp, udpPing, servers, dumping>>
  BY DEF StartClients
<1>4. Len(udpPing) = n
  BY <1>1, <1>2 DEF Leaves
<1>5. PICK k \in 0..(n - 1) : Starts(clients, k, n)
  BY <1>1 DEF PingInv
<1> HIDE DEF n
<1>6. iteration = k
  BY <1>2, <1>5, LinesStarted DEF Starts
<1> HIDE DEF iteration
<1>7. t = [i \in DOMAIN Leaves(n)[k + 1] |-> <<k, Leaves(n)[k + 1][i]>>]
  <2>1. tokens = Leaves(n)[k + 1]
    <3>1. 1 \in DOMAIN Leaves(n)[k + 1]
      BY <1>2, <1>5 DEF Leaves
    <3>2. DOMAIN <<>> = {}
      OBVIOUS
    <3>3. Leaves(n)[k + 1] # <<>>
      BY <3>1, <3>2
    <3> QED  BY <1>1, <1>6, <3>3 DEF Tokens
  <2> HIDE DEF tokens
  <2> QED  BY <1>6, <2>1
<1> HIDE DEF t, tokens
<1>8. Starts(clients', k + 1, n)
  BY <1>2, <1>3, <1>5, <1>6, <1>7, OneLineMore
<1>9. CASE k + 1 = n
  <2>1. pings' = "nodes"
    BY <1>3, <1>4, <1>6, <1>9
  <2>2. n = nNodes
    BY <1>1, <1>2, <1>3, <1>6, <1>9
  <2>3. Starts(clients, n, n)'
    BY <1>2, <1>8, <1>9 DEF Starts
  <2>4. dumping' \in 0..nNodes' /\ servers' = 0..(dumping' - 1)
    BY <1>1, <1>3 DEF allVars, netVars
  <2> QED  BY <1>1, <1>2, <1>3, <2>1, <2>2, <2>3, <2>4 DEF PingInv, allVars, netVars, n
<1>10. CASE k + 1 # n
  <2>1. pings' = "clients" /\ k + 1 \in 0..(n' - 1)
    BY <1>2, <1>3, <1>4, <1>5, <1>6, <1>10
  <2>2. Starts(clients', k + 1, n')
    BY <1>2, <1>8
  <2>3. \E j \in 0..(n' - 1) : Starts(clients', j, n')
    BY <2>1, <2>2
  <2> QED  BY <1>1, <1>2, <1>3, <2>1, <2>3 DEF PingInv, Starts, allVars, netVars, n
<1> QED  BY <1>9, <1>10

LEMMA StartNodeInv ==
  ASSUME ParserInv, SizeInv, PingInv, StartNode, Check
  PROVE  PingInv'
<1>1. /\ pings = "nodes" /\ dumping < nNodes /\ dumping' = dumping + 1
      /\ servers' = IF udp THEN servers \cup {dumping} ELSE servers
      /\ pings' = IF dumping' = nNodes THEN "run" ELSE "nodes"
      /\ UNCHANGED <<stage, nNodes, udp, udpPing, clients>> /\ file' = file
  BY DEF StartNode, allVars, netVars, vars
<1>2. /\ stage = "ready" /\ dumping \in 0..nNodes /\ (udp => servers = 0..(dumping - 1))
      /\ udp => Counted = nNodes /\ Starts(clients, Counted, Counted)
  BY <1>1 DEF PingInv
<1>3. nNodes \in Nat
  BY <1>2 DEF SizeInv
<1>4. dumping' \in 0..nNodes /\ (udp => servers' = 0..(dumping' - 1))
  <2>1. dumping + 1 \in 0..nNodes
    BY <1>1, <1>2, <1>3
  <2>2. 0..((dumping + 1) - 1) = (0..(dumping - 1)) \cup {dumping}
    BY <1>2, <1>3
  <2> QED  BY <1>1, <1>2, <2>1, <2>2
<1>5. Counted' = Counted
  BY <1>1, CountedStays
<1> QED  BY <1>1, <1>2, <1>4, <1>5 DEF PingInv, Starts

LEMMA PingStep ==
  /\ ParserInv /\ NetInv /\ CheckedInv /\ SizeInv /\ file \in Files /\ PingInv
  /\ [PingNext]_<<allVars, pingVars>>
  => PingInv'
<1> SUFFICES ASSUME ParserInv, NetInv, CheckedInv, SizeInv, file \in Files, PingInv,
                    [PingNext]_<<allVars, pingVars>>, Check
             PROVE  PingInv'
  BY DEF PingInv
<1>1. CASE SetUp
  <2>1. stage # "ready"
    BY <1>1 DEF SetUp, Parse, ReadRows, InstallLink, LinksDone, ConfigureNode, NodesDone, Verify
  <2>2. pings = "setup" /\ UNCHANGED pingVars
    BY <1>1, <2>1 DEF SetUp, PingInv
  <2> QED  BY <2>2 DEF PingInv, pingVars
<1>2. CASE NoPings
  <2>1. /\ pings = "setup" /\ pings' = "nodes" /\ stage' = "ready" /\ stage = "ready"
        /\ UNCHANGED <<nNodes, udp, clients, servers, dumping>>
    BY <1>2 DEF NoPings, allVars, netVars
  <2>2. udp = FALSE /\ dumping = 0 /\ nNodes \in Nat
    BY <2>1 DEF PingInv, SizeInv
  <2>3. dumping' \in 0..nNodes' /\ udp' = FALSE
    BY <2>1, <2>2
  <2> QED  BY <2>1, <2>3 DEF PingInv
<1>3. CASE Spfs
  <2>1. /\ pings = "setup" /\ stage = "ready" /\ stage' = "ready" /\ udp' = TRUE
        /\ \/ udpPing' = Leaves(Counted) /\ pings' = "clients" /\ Counted >= 2
           \/ pings' = "aborted"
        /\ UNCHANGED <<clients, servers, dumping>> /\ file' = file
    <3>1. /\ pings = "setup" /\ stage = "ready" /\ stage' = "ready" /\ udp' = TRUE /\ layout' \in Layouts
          /\ IF SpfsReads(layout') THEN udpPing' = Leaves(Len(SpfsNodes(layout'))) /\ pings' = "clients"
             ELSE pings' = "aborted"
          /\ UNCHANGED <<clients, servers, dumping>> /\ file' = file
      BY <1>3 DEF Spfs, allVars, netVars, vars
    <3>2. PICK written \in Layouts : written = layout'
      BY <3>1
    <3>3. file.kind = "topology"
      BY <3>1 DEF SizeInv
    <3>4. SpfsReads(written) => Len(SpfsNodes(written)) = Counted /\ Counted >= 2
      BY <3>1, <3>3, CheckedCounts
    <3> QED  BY <3>1, <3>2, <3>4
  <2>2. clients = <<>> /\ dumping = 0 /\ servers = {}
    BY <2>1 DEF PingInv
  <2>3. Counted' = Counted /\ Counted \in Nat
    BY <2>1, CountedStays, CountedIsNat
  <2>4. Starts(clients, 0, Counted)
    <3>1. ClientsUpTo(0, Counted) = {}
      BY DEF ClientsUpTo
    <3> QED  BY <2>2, <3>1 DEF Starts, ToSet, IsInjective
  <2>5. Counted' >= 2 => \E k \in 0..(Counted' - 1) : Starts(clients', k, Counted')
    BY <2>1, <2>3, <2>4
  <2> QED  BY <2>1, <2>2, <2>3, <2>5 DEF PingInv, Starts
<1>4. CASE UNCHANGED <<allVars, pingVars>>
  <2>1. Counted' = Counted
    BY <1>4, CountedStays DEF allVars, vars
  <2> QED  BY <1>4, <2>1 DEF PingInv, Starts, pingVars, allVars, netVars
<1>5. CASE StartClients
  BY <1>5, StartClientsInv
<1>6. CASE StartNode
  BY <1>6, StartNodeInv
<1> QED  BY <1>1, <1>2, <1>3, <1>4, <1>5, <1>6 DEF PingNext

\* With --udp, a checked simulation that starts has, for each ordered pair of
\* nodes, one client at the first, to the address that the second has in the network,
\* and a server at every node: for any topology of fewer nodes than the wrap of
\* the loopbacks' counter (ntf.cc:36-84, spfs.py:47-66).
THEOREM PingsReachEveryNode == PingSpec => []PingsCoverPairs
<1>1. LoInv /\ SizeInv /\ PingInv => PingsCoverPairs
  <2> SUFFICES ASSUME LoInv, SizeInv, PingInv, Check, pings = "run", udp, nNodes < LoWrap
               PROVE  /\ ToBag(clients) = SetToBag({ <<p[1], lo[p[2] + 1]>> : p \in
                           { p \in (0..(nNodes - 1)) \X (0..(nNodes - 1)) : p[1] # p[2] } })
                      /\ servers = 0..(nNodes - 1)
    BY DEF PingsCoverPairs
  <2> DEFINE Others == { p \in (0..(nNodes - 1)) \X (0..(nNodes - 1)) : p[1] # p[2] }
             Reached == { <<p[1], lo[p[2] + 1]>> : p \in Others }
  <2>1. /\ Counted = nNodes /\ Starts(clients, nNodes, nNodes) /\ dumping = nNodes
        /\ servers = 0..(nNodes - 1) /\ stage = "ready"
    BY DEF PingInv
  <2>2. nNodes \in Nat /\ Len(lo) = nNodes /\ lo \in Seq(Addresses) /\ LoWrap \in Nat
    BY <2>1, NtfTopoGenAssumption DEF SizeInv, LoInv
  <2>3. \A b \in 0..(nNodes - 1) : lo[b + 1] = Scripted(b)
    <3> SUFFICES ASSUME NEW b \in 0..(nNodes - 1) PROVE lo[b + 1] = Scripted(b)
      OBVIOUS
    <3>1. b + 1 \in DOMAIN lo /\ b + 1 < LoWrap /\ b \in Nat /\ b < LoWrap
      BY <2>2
    <3>2. lo[b + 1] = <<0, b + 1>>
      BY <3>1 DEF LoInv
    <3> QED  BY <3>1, <3>2, ScriptedBelow
  <2>4. ASSUME NEW x \in ClientsUpTo(nNodes, nNodes) PROVE x \in Reached
    <3>1. PICK a \in 0..(nNodes - 1) : x \in ClientsOf(a, nNodes)
      BY DEF ClientsUpTo
    <3>2. PICK b \in 0..(nNodes - 1) \ {a} : x = <<a, Scripted(b)>>
      BY <3>1 DEF ClientsOf
    <3>3. <<a, b>> \in Others /\ x = <<a, lo[b + 1]>>
      BY <2>3, <3>2
    <3> QED  BY <3>3
  <2>5. ASSUME NEW x \in Reached PROVE x \in ClientsUpTo(nNodes, nNodes)
    <3>1. PICK p \in Others : x = <<p[1], lo[p[2] + 1]>>
      OBVIOUS
    <3>2. p[1] \in 0..(nNodes - 1) /\ p[2] \in 0..(nNodes - 1) \ {p[1]}
      OBVIOUS
    <3>3. x = <<p[1], Scripted(p[2])>>
      BY <2>3, <3>1, <3>2
    <3>4. x \in ClientsOf(p[1], nNodes)
      BY <3>2, <3>3 DEF ClientsOf
    <3> QED  BY <3>2, <3>4 DEF ClientsUpTo
  <2> HIDE DEF Reached
  <2>6. ToSet(clients) = Reached /\ IsInjective(clients)
    BY <2>1, <2>4, <2>5 DEF Starts
  <2>7. ToBag(clients) = SetToBag(Reached)
    BY <2>6, BagOfDistinct
  <2> QED  BY <2>1, <2>7 DEF Reached
<1> QED
  BY <1>1, PingImplementsTopo, TopoInductive, SizeInit, SizeNext, PingStart, PingStep, PTL
     DEF PingSpec, TopoSpec
=============================================================================
