--------------------------- MODULE UdpTrafficProofs ---------------------------
(***************************************************************************)
(* For every network, every delay of its paths and every loss: what        *)
(* udp_parser.py keeps about the sources of a log, the gaps it finds, and  *)
(* the convergence time it reports.                                        *)
(*                                                                         *)
(* The properties speak of gaps only.  StateOK ties the state of a source  *)
(* to its lines that have been read: where a gap opened, and where its     *)
(* candidate stands.  BehindOK does the same for the gaps already closed.  *)
(* MeasureOK follows a source with a single outage: Phase says what its    *)
(* state is when k of its lines are read, whatever other lines are between *)
(* them (Picks).  TrafficOK says what the network did to each flow, and    *)
(* SpansOK that the gaps filed so far are those of the cut flows.          *)
(***************************************************************************)
EXTENDS UdpTraffic, FiniteSetTheorems, WellFoundedInduction, TLAPS

Time == Nat \ {0}
Control == [low : Nat, lowReceived : Nat, previous : Nat, previousReceived : Nat,
            candidate : Nat, highReceived : Nat, validate : 0..Validate]
Packet == [flow : Flows, timestamp : Time, due : Time]

-----------------------------------------------------------------------------
(* The invariant: the logs                                                 *)

\* Lines are in the order of their arrival, after a delay of some path.
LogsOK ==
  /\ network \in Networks /\ clock \in Time
  /\ logs \in Seq(Seq(Line)) /\ Len(logs) = network.servers
  /\ flight \subseteq Packet
  /\ \A p \in flight : p.due - p.timestamp \in Delays /\ p.due >= clock
  /\ \A s \in DOMAIN logs : \A i \in DOMAIN logs[s] :
       /\ logs[s][i].received - logs[s][i].timestamp \in Delays
       /\ logs[s][i].received <= clock
       /\ \A j \in 1..(i - 1) : logs[s][j].received <= logs[s][i].received

\* The parser, before its first line of a log.
Fresh ==
  /\ pos = 1 /\ gaps = <<>> /\ fitting = 0 /\ idx = 1
  /\ control = [s \in Sources |-> Unknown]

CursorsOK ==
  /\ SimulationEnded \/ Fresh
  /\ dir \in Time /\ pos \in Time /\ idx \in 1..(Len(Fails) + 1) /\ fitting \in 0..(Len(gaps) + 1)
  /\ pos > 1 => dir \in DOMAIN logs /\ pos <= Len(Log) + 1

-----------------------------------------------------------------------------
(* The invariant: the sources                                              *)

\* The lines of s that have been read, and the last of them.
Seen(s) == {i \in 1..(pos - 1) : Log[i].src = s}
LastSeen(s, i) == i \in Seen(s) /\ \A j \in Seen(s) : j <= i

\* A gap opens after line i, whose time is low.
Opening(s, low, i, n) ==
  /\ {i, n} \subseteq Seen(s) /\ Successive(i, n)
  /\ Log[i].timestamp = low /\ Log[n].timestamp # low + 1

\* It ends with line j, which arrives at high.
Ending(s, high, j, m) ==
  /\ {j, m} \subseteq Seen(s) /\ Successive(j, m)
  /\ Log[j].received = high /\ Log[m].timestamp = Log[j].timestamp + 1

Disrupted(s, low, high, candidate) ==
  \E i, n, j, m \in Seen(s) :
    Opening(s, low, i, n) /\ n <= j /\ Ending(s, high, j, m) /\ Log[j].timestamp = candidate

StateOK(s, c) ==
  /\ c \in Control
  /\ c # Unknown => c.low # None
  /\ c = Unknown => Seen(s) = {}
  /\ c # Unknown /\ c.previous = None => \E i \in Seen(s) : LastSeen(s, i) /\ Log[i].timestamp = c.low
  /\ c.previous # None =>
       /\ c # Unknown
       /\ \E i \in Seen(s) : /\ LastSeen(s, i) /\ Log[i].timestamp = c.previous
                             /\ Log[i].received = c.previousReceived
       /\ \E i, n \in Seen(s) : Opening(s, c.low, i, n)
  /\ (c.candidate = None) = (c.highReceived = None)
  /\ c.candidate # None =>
       /\ c.previous # None /\ c.candidate < c.previous
       /\ Disrupted(s, c.low, c.highReceived, c.candidate)

SourcesOK == control \in [Sources -> Control] /\ \A s \in Sources : StateOK(s, control[s])

IsGap(g) ==
  g.src \in Sources /\ \E t \in Time : Disrupted(g.src, g.low, g.high, t)

GapsOK == \A g \in ToSet(gaps) : IsGap(g)

-----------------------------------------------------------------------------
(* The invariant: closed gaps                                              *)

\* Line w ended gap g, line z confirmed it, and the search has left w behind.
Behind(g, w, z) == LET c == control[g.src] IN
  /\ {w, z} \subseteq Seen(g.src)
  /\ Log[w].received = g.high /\ Log[z].timestamp >= Log[w].timestamp + 2
  /\ c.low > Log[w].timestamp
  /\ c.previous # None => c.previous >= Log[w].timestamp - 1
  /\ c.candidate # None => c.candidate >= Log[w].timestamp - 1

BehindOK ==
  /\ \A g \in ToSet(gaps) : /\ control[g.src].lowReceived # None
                            /\ \E w, z \in Seen(g.src) : Behind(g, w, z)
  /\ GapsDisjoint

ReadOK == SourcesOK /\ gaps \in Seq(ToSet(gaps)) /\ GapsOK

UdpInv == LogsOK /\ CursorsOK /\ ReadOK

-----------------------------------------------------------------------------
(* The simulation                                                          *)

LEMMA SendInv ==
  ASSUME LogsOK, Send PROVE LogsOK'
<1>1. /\ clock' = clock + 1 /\ UNCHANGED <<network, logs>> /\ Due = {}
  BY DEF Send
<1>2. PICK p \in [Flows -> Delays \cup {Down}] :
        flight' = flight \cup { [flow |-> f, timestamp |-> clock, due |-> clock + p[f]] :
                                  f \in {g \in Flows : p[g] # Down} }
  BY DEF Send
<1>3. clock \in Time /\ clock' \in Time /\ Delays \subseteq Nat \ {0}
  BY <1>1, UdpTrafficAssumption DEF LogsOK, Time
<1>4. ASSUME NEW q \in flight' PROVE q \in Packet /\ q.due - q.timestamp \in Delays /\ q.due >= clock'
  <2>1. CASE q \in flight
    <3>1. q \in Packet /\ q.due - q.timestamp \in Delays /\ q.due >= clock
      BY <2>1 DEF LogsOK
    <3>2. q.due # clock
      BY <1>1, <2>1 DEF Due
    <3>3. q.due \in Time
      BY <3>1 DEF Packet
    <3> QED  BY <1>1, <1>3, <3>1, <3>2, <3>3 DEF Time
  <2>2. ASSUME NEW f \in Flows, p[f] # Down,
               q = [flow |-> f, timestamp |-> clock, due |-> clock + p[f]]
        PROVE  q \in Packet /\ q.due - q.timestamp \in Delays /\ q.due >= clock'
    <3>1. p[f] \in Delays /\ p[f] \in Nat \ {0}
      BY <1>3, <2>2 DEF Down
    <3>2. q.due = clock + p[f] /\ q.timestamp = clock /\ q.flow = f
      BY <2>2
    <3>3. clock + p[f] \in Time /\ (clock + p[f]) - clock = p[f] /\ clock + p[f] >= clock + 1
      BY <1>3, <3>1 DEF Time
    <3>4. q \in Packet
      BY <1>3, <2>2, <3>3 DEF Packet
    <3> QED  BY <1>1, <3>1, <3>2, <3>3, <3>4
  <2> QED  BY <1>2, <2>1, <2>2
<1>5. flight' \subseteq Packet'
  BY <1>1, <1>4 DEF Packet, Flows
<1>6. ASSUME NEW s \in DOMAIN logs, NEW i \in DOMAIN logs[s]
      PROVE  logs[s][i].received <= clock'
  <2>1. logs[s][i] \in Line /\ logs[s][i].received <= clock
    BY DEF LogsOK
  <2>2. logs[s][i].received \in Nat
    BY <2>1 DEF Line
  <2> QED  BY <1>1, <1>3, <2>1, <2>2 DEF Time
<1> QED  BY <1>1, <1>3, <1>4, <1>5, <1>6 DEF LogsOK

LEMMA DrainInv ==
  ASSUME LogsOK, Drain PROVE LogsOK'
<1>1. /\ clock' = clock + 1 /\ UNCHANGED <<network, logs, flight>> /\ Due = {}
  BY DEF Drain
<1>2. clock \in Time /\ clock' \in Time
  BY <1>1 DEF LogsOK, Time
<1>3. ASSUME NEW q \in flight PROVE q.due >= clock'
  <2>1. q \in Packet /\ q.due >= clock
    BY DEF LogsOK
  <2>2. q.due # clock
    BY <1>1 DEF Due
  <2>3. q.due \in Time
    BY <2>1 DEF Packet
  <2> QED  BY <1>1, <1>2, <2>1, <2>2, <2>3 DEF Time
<1>4. ASSUME NEW s \in DOMAIN logs, NEW i \in DOMAIN logs[s]
      PROVE  logs[s][i].received <= clock'
  <2>1. logs[s][i] \in Line /\ logs[s][i].received <= clock
    BY DEF LogsOK
  <2>2. logs[s][i].received \in Nat
    BY <2>1 DEF Line
  <2> QED  BY <1>1, <1>2, <2>1, <2>2 DEF Time
<1>5. Packet' = Packet
  BY <1>1 DEF Packet, Flows
<1> QED  BY <1>1, <1>2, <1>3, <1>4, <1>5 DEF LogsOK

LEMMA ReceiveInv ==
  ASSUME LogsOK, NEW p \in flight, Receive(p) PROVE LogsOK'
<1> DEFINE f == network.flows[p.flow]
           l == [src |-> f.src, timestamp |-> p.timestamp, received |-> clock]
           v == f.server
<1>1. /\ logs' = [logs EXCEPT ![v] = Append(logs[v], l)]
      /\ flight' = flight \ {p} /\ p.due = clock /\ UNCHANGED <<network, clock>>
  BY DEF Receive, Due
<1>2. /\ clock \in Time /\ p \in Packet /\ p.due - p.timestamp \in Delays /\ Delays \subseteq Nat \ {0}
  BY UdpTrafficAssumption DEF LogsOK
<1>3. p.flow \in Flows /\ p.timestamp \in Time
  BY <1>2 DEF Packet
<1>4. f.src \in Sources /\ v \in 1..network.servers /\ network.servers \in Nat
  BY <1>3, UdpTrafficAssumption DEF LogsOK, IsNetwork, Flows
<1>5. l \in Line /\ l.received = clock /\ l.received - l.timestamp \in Delays
  <2>1. l \in Line
    BY <1>2, <1>3, <1>4 DEF Line, Time
  <2> QED  BY <1>1, <1>2, <2>1
<1> HIDE DEF f, l, v
<1>6. DOMAIN logs = 1..Len(logs) /\ v \in DOMAIN logs /\ logs \in Seq(Seq(Line))
  BY <1>4 DEF LogsOK
<1>7. logs[v] \in Seq(Line)
  BY <1>6
<1>8. /\ logs'[v] \in Seq(Line) /\ DOMAIN logs[v] = 1..Len(logs[v]) /\ Len(logs[v]) \in Nat
      /\ DOMAIN logs'[v] = 1..(Len(logs[v]) + 1)
      /\ \A i \in DOMAIN logs[v] : logs'[v][i] = logs[v][i]
      /\ logs'[v][Len(logs[v]) + 1] = l
  <2>1. logs'[v] = Append(logs[v], l)
    BY <1>1, <1>6
  <2> QED  BY <1>5, <1>7, <2>1
<1>9. logs' \in Seq(Seq(Line)) /\ Len(logs') = Len(logs) /\ DOMAIN logs' = DOMAIN logs
  <2>1. Append(logs[v], l) \in Seq(Line)
    BY <1>5, <1>7
  <2> QED  BY <1>1, <1>6, <2>1
<1>10. \A s \in DOMAIN logs : s # v => logs'[s] = logs[s]
  BY <1>1, <1>6
<1>11. ASSUME NEW i \in DOMAIN logs'[v]
       PROVE  /\ logs'[v][i].received - logs'[v][i].timestamp \in Delays
              /\ logs'[v][i].received <= clock
              /\ \A j \in 1..(i - 1) : logs'[v][j].received <= logs'[v][i].received
  <2>1. CASE i \in DOMAIN logs[v]
    <3>1. \A j \in 1..(i - 1) : j \in DOMAIN logs[v]
      BY <1>8, <2>1
    <3> QED  BY <1>6, <1>8, <2>1, <3>1 DEF LogsOK
  <2>2. CASE i = Len(logs[v]) + 1
    <3>1. \A j \in 1..(i - 1) : j \in DOMAIN logs[v] /\ logs[v][j].received <= clock
      <4>1. \A j \in 1..(i - 1) : j \in DOMAIN logs[v]
        BY <1>8, <2>2
      <4>2. \A j \in DOMAIN logs[v] : logs[v][j].received <= clock
        BY <1>6 DEF LogsOK
      <4> QED  BY <4>1, <4>2
    <3>2. logs'[v][i] = l
      BY <1>8, <2>2
    <3>3. \A j \in 1..(i - 1) : logs'[v][j].received <= clock
      BY <1>8, <3>1
    <3>4. clock <= clock
      BY <1>2 DEF Time
    <3> QED  BY <1>5, <3>2, <3>3, <3>4
  <2> QED  BY <1>8, <2>1, <2>2
<1>12. ASSUME NEW s \in DOMAIN logs', NEW i \in DOMAIN logs'[s]
       PROVE  /\ logs'[s][i].received - logs'[s][i].timestamp \in Delays
              /\ logs'[s][i].received <= clock
              /\ \A j \in 1..(i - 1) : logs'[s][j].received <= logs'[s][i].received
  <2>1. CASE s = v
    BY <1>11, <1>12, <2>1
  <2>2. CASE s # v
    BY <1>9, <1>10, <1>12, <2>2 DEF LogsOK
  <2> QED  BY <2>1, <2>2
<1>13. /\ flight' \subseteq Packet'
       /\ \A q \in flight' : q.due - q.timestamp \in Delays /\ q.due >= clock
  BY <1>1 DEF LogsOK, Packet, Flows
<1> QED  BY <1>1, <1>9, <1>12, <1>13 DEF LogsOK

-----------------------------------------------------------------------------
(* Steps that read no line                                                 *)

\* Nothing is known before the first line.
LEMMA FreshOK ==
  Fresh => ReadOK /\ BehindOK
<1> SUFFICES ASSUME Fresh PROVE ReadOK /\ BehindOK
  OBVIOUS
<1>1. /\ gaps = <<>> /\ ToSet(gaps) = {} /\ DOMAIN gaps = {}
  BY DEF Fresh, ToSet
<1>2. ASSUME NEW s \in Sources PROVE Seen(s) = {} /\ control[s] = Unknown
  BY DEF Fresh, Seen
<1>3. Unknown \in Control
  BY UdpParserAssumption DEF Unknown, Control, None
<1>4. control \in [Sources -> Control]
  BY <1>3 DEF Fresh
<1>5. Unknown.previous = None /\ Unknown.candidate = None /\ Unknown.highReceived = None
  BY DEF Unknown
<1>6. SourcesOK
  BY <1>2, <1>3, <1>4, <1>5 DEF SourcesOK, StateOK
<1> QED  BY <1>1, <1>6 DEF ReadOK, GapsOK, BehindOK, GapsDisjoint

\* The state of the sources changes with a line only.
LEMMA Still ==
  ASSUME UNCHANGED <<logs, dir, pos, control, gaps>>
  PROVE  (ReadOK => ReadOK') /\ (BehindOK => BehindOK')
<1>1. Log' = Log /\ \A s : Seen(s)' = Seen(s)
  BY DEF Log, Seen
<1>2. \A i, j : Successive(i, j)' <=> Successive(i, j)
  BY <1>1 DEF Successive
<1>3. /\ \A s, i : LastSeen(s, i)' <=> LastSeen(s, i)
      /\ \A s, low, i, n : Opening(s, low, i, n)' <=> Opening(s, low, i, n)
      /\ \A s, high, j, m : Ending(s, high, j, m)' <=> Ending(s, high, j, m)
  BY <1>1, <1>2 DEF LastSeen, Opening, Ending
<1>4. \A s, low, high, t : Disrupted(s, low, high, t)' <=> Disrupted(s, low, high, t)
  BY <1>1, <1>3 DEF Disrupted
<1>5. ASSUME NEW s, NEW c, StateOK(s, c) PROVE StateOK(s, c)'
  BY <1>1, <1>3, <1>4, <1>5 DEF StateOK
<1>6. SourcesOK => SourcesOK'
  BY <1>5 DEF SourcesOK
<1>7. GapsOK => GapsOK'
  BY <1>4 DEF GapsOK, IsGap
<1>8. \A g, w, z : Behind(g, w, z)' <=> Behind(g, w, z)
  BY <1>1 DEF Behind
<1>9. BehindOK => BehindOK'
  BY <1>1, <1>8 DEF BehindOK, GapsDisjoint
<1> QED  BY <1>6, <1>7, <1>9 DEF ReadOK

\* A sequence and its elements, after one more.
LEMMA Appended ==
  ASSUME NEW q, q \in Seq(ToSet(q)), NEW e, NEW r, r = Append(q, e)
  PROVE  /\ ToSet(r) = ToSet(q) \cup {e} /\ r \in Seq(ToSet(q) \cup {e})
         /\ DOMAIN q = 1..Len(q) /\ Len(q) \in Nat /\ DOMAIN r = 1..(Len(q) + 1)
         /\ Len(r) = Len(q) + 1 /\ r[Len(q) + 1] = e /\ \A i \in DOMAIN q : r[i] = q[i]
<1>1. q \in Seq(ToSet(q) \cup {e})
  <2>1. \A i \in 1..Len(q) : q[i] \in ToSet(q) \cup {e}
    OBVIOUS
  <2> QED  BY <2>1
<1>2. /\ r \in Seq(ToSet(q) \cup {e}) /\ Len(q) \in Nat /\ DOMAIN q = 1..Len(q)
      /\ Len(r) = Len(q) + 1 /\ DOMAIN r = 1..(Len(q) + 1)
      /\ r[Len(q) + 1] = e /\ \A i \in DOMAIN q : r[i] = q[i]
  BY <1>1
<1>3. ToSet(r) = ToSet(q) \cup {e}
  BY <1>2 DEF ToSet
<1> QED  BY <1>2, <1>3

\* A set of natural numbers has a least element.
Less == {p \in Nat \X Nat : p[1] < p[2]}

LEMMA LeastElement ==
  ASSUME NEW T \in SUBSET Nat, T # {}
  PROVE  \E x \in T : \A y \in T : x <= y
<1>1. IsWellFoundedOn(Less, Nat)
  <2>1. OpToRel(<, Nat) = Less
    BY DEF OpToRel, Less
  <2> QED  BY <2>1, NatLessThanWellFounded
<1>2. PICK x \in T : \A y \in T : ~(<<y, x>> \in Less)
  BY <1>1, WFMin
<1>3. \A y \in T : ~(y < x)
  BY <1>2 DEF Less
<1> QED  BY <1>3

LEMMA LeastIn ==
  ASSUME NEW S \in SUBSET Nat, S # {}
  PROVE  Min(S) \in S
BY LeastElement DEF Min

-----------------------------------------------------------------------------
(* One line                                                                *)

\* Line l, number p of its log, is read, and the state of its source was c.
Reads(p, c, l) ==
  /\ LogsOK /\ CursorsOK /\ ReadOK
  /\ dir \in DOMAIN logs /\ pos <= Len(Log)
  /\ UNCHANGED <<logs, dir>> /\ pos' = pos + 1
  /\ p = pos /\ l = Log[p] /\ c = control[l.src]

LEMMA ReadsTypes ==
  ASSUME NEW p, NEW c, NEW l, Reads(p, c, l)
  PROVE  /\ Log \in Seq(Line) /\ DOMAIN Log = 1..Len(Log) /\ Len(Log) \in Nat
         /\ pos \in DOMAIN Log /\ pos \in Nat \ {0} /\ Log' = Log
         /\ l.src \in Sources /\ l.timestamp \in Nat \ {0} /\ l.received \in Nat \ {0}
         /\ StateOK(l.src, c) /\ c \in Control
<1>1. Log \in Seq(Line)
  BY DEF Reads, LogsOK, Log
<1>2. pos \in Time /\ pos <= Len(Log)
  BY DEF Reads, CursorsOK
<1>3. DOMAIN Log = 1..Len(Log) /\ Len(Log) \in Nat /\ pos \in DOMAIN Log /\ pos \in Nat \ {0}
  BY <1>1, <1>2 DEF Time
<1>4. l \in Line
  BY <1>1, <1>3 DEF Reads
<1>5. l.src \in Sources /\ l.timestamp \in Nat \ {0} /\ l.received \in Nat \ {0}
  BY <1>4 DEF Line
<1>6. Log' = Log
  BY DEF Reads, Log
<1>7. StateOK(l.src, c)
  BY <1>5 DEF Reads, ReadOK, SourcesOK
<1> QED  BY <1>1, <1>3, <1>5, <1>6, <1>7 DEF StateOK

LEMMA LineTypes ==
  ASSUME NEW p, NEW c, NEW l, Reads(p, c, l)
  PROVE  /\ c \in Control /\ l.timestamp \in Nat /\ l.received \in Nat
         /\ l.timestamp # None /\ l.received # None
         /\ c.low \in Nat /\ c.previous \in Nat /\ c.candidate \in Nat /\ c.validate \in 0..Validate
         /\ Log' = Log /\ Log[p] = l
<1>1. c \in Control /\ l.timestamp \in Nat \ {0} /\ l.received \in Nat \ {0} /\ Log' = Log
  BY ReadsTypes
<1>2. Log[p] = l
  BY DEF Reads
<1> QED  BY <1>1, <1>2 DEF Control, None

\* What has been read remains read, and one line more.
LEMMA Grown ==
  ASSUME NEW p, NEW c, NEW l, Reads(p, c, l)
  PROVE  /\ \A s : Seen(s) \subseteq Seen(s)' /\ Seen(s) \subseteq 1..(pos - 1)
         /\ \A s : s # l.src => Seen(s)' = Seen(s)
         /\ Seen(l.src)' = Seen(l.src) \cup {p}
         /\ \A i, j : Successive(i, j)' <=> Successive(i, j)
         /\ \A s, low, i, n : Opening(s, low, i, n) => Opening(s, low, i, n)'
         /\ \A s, high, j, m : Ending(s, high, j, m) => Ending(s, high, j, m)'
         /\ \A s, low, high, t : Disrupted(s, low, high, t) => Disrupted(s, low, high, t)'
         /\ \A s, i : s # l.src /\ LastSeen(s, i) => LastSeen(s, i)'
         /\ LastSeen(l.src, p)'
<1>1. /\ Log' = Log /\ pos \in Nat \ {0} /\ pos' = pos + 1 /\ p = pos /\ l = Log[p]
  BY ReadsTypes DEF Reads
<1>2. 1..(pos' - 1) = 1..(pos - 1) \cup {pos} /\ pos \notin 1..(pos - 1)
  BY <1>1
<1>3. \A s : Seen(s)' = {i \in 1..(pos - 1) \cup {pos} : Log[i].src = s}
  BY <1>1, <1>2 DEF Seen
<1>4. /\ \A s : Seen(s) \subseteq Seen(s)' /\ Seen(s) \subseteq 1..(pos - 1)
      /\ \A s : s # l.src => Seen(s)' = Seen(s)
      /\ Seen(l.src)' = Seen(l.src) \cup {p}
  BY <1>1, <1>3 DEF Seen
<1>5. \A i, j : Successive(i, j)' <=> Successive(i, j)
  BY <1>1 DEF Successive
<1>6. /\ \A s, low, i, n : Opening(s, low, i, n) => Opening(s, low, i, n)'
      /\ \A s, high, j, m : Ending(s, high, j, m) => Ending(s, high, j, m)'
  BY <1>1, <1>4, <1>5 DEF Opening, Ending
<1>7. \A s, low, high, t : Disrupted(s, low, high, t) => Disrupted(s, low, high, t)'
  BY <1>1, <1>4, <1>6 DEF Disrupted
<1>8. \A s, i : s # l.src /\ LastSeen(s, i) => LastSeen(s, i)'
  BY <1>4 DEF LastSeen
<1>9. LastSeen(l.src, p)'
  <2>1. \A j \in Seen(l.src) \cup {p} : j <= p
    BY <1>1, <1>4
  <2> QED  BY <1>4, <2>1 DEF LastSeen
<1> QED  BY <1>4, <1>5, <1>6, <1>7, <1>8, <1>9

\* The line follows the last one of its source.
LEMMA NextOfSource ==
  ASSUME NEW p, NEW c, NEW l, Reads(p, c, l), NEW i, LastSeen(l.src, i)
  PROVE  Successive(i, p)'
<1>1. /\ Log' = Log /\ pos \in Nat \ {0} /\ p = pos /\ l = Log[p]
  BY ReadsTypes DEF Reads
<1>2. i \in 1..(pos - 1) /\ Log[i].src = l.src
  BY DEF LastSeen, Seen
<1>3. ASSUME NEW k \in (i + 1)..(pos - 1) PROVE Log[k].src # l.src
  <2>1. k \in 1..(pos - 1) /\ ~(k <= i)
    BY <1>1, <1>2
  <2> QED  BY <2>1 DEF LastSeen, Seen
<1>4. Successive(i, p)
  BY <1>1, <1>2, <1>3 DEF Successive
<1> QED  BY <1>4, Grown

\* Only the source of the line has a new state.
LEMMA OneSource ==
  ASSUME NEW p, NEW c, NEW l, Reads(p, c, l), NEW d, Keep(d), StateOK(l.src, d)'
  PROVE  SourcesOK' /\ control'[l.src] = d /\ \A s \in Sources : s # l.src => control'[s] = control[s]
<1>1. control' = [control EXCEPT ![l.src] = d] /\ l.src \in Sources
  BY ReadsTypes DEF Keep, Reads
<1>2. control \in [Sources -> Control] /\ \A s \in Sources : StateOK(s, control[s])
  BY DEF Reads, ReadOK, SourcesOK
<1>3. control'[l.src] = d /\ \A s \in Sources : s # l.src => control'[s] = control[s]
  BY <1>1, <1>2
<1>4. d \in Control
  BY DEF StateOK, Control
<1>5. control' \in [Sources -> Control]
  BY <1>1, <1>2, <1>4
<1>6. ASSUME NEW s \in Sources, s # l.src, NEW e, StateOK(s, e)
      PROVE  StateOK(s, e)'
  <2>1. Seen(s)' = Seen(s) /\ \A i : LastSeen(s, i) => LastSeen(s, i)'
    BY <1>6, Grown
  <2>2. /\ \A low, i, n : Opening(s, low, i, n) => Opening(s, low, i, n)'
        /\ \A low, high, t : Disrupted(s, low, high, t) => Disrupted(s, low, high, t)'
    BY Grown
  <2>3. Log' = Log
    BY ReadsTypes
  <2> QED  BY <1>6, <2>1, <2>2, <2>3 DEF StateOK, Control
<1>7. Control' = Control
  BY DEF Control
<1>8. ASSUME NEW s \in Sources PROVE StateOK(s, control[s])'
  BY <1>2, <1>3, <1>6
<1> QED  BY <1>3, <1>5, <1>7, <1>8 DEF SourcesOK

\* The first line of a source, or of a source that is taken for a new one.
LEMMA NewSource ==
  ASSUME NEW p, NEW c, NEW l, Reads(p, c, l), NEW d, d = [Unknown EXCEPT !.low = l.timestamp]
  PROVE  StateOK(l.src, d)'
<1>1. /\ d.low = l.timestamp /\ d.low # None /\ d.previous = None /\ d.candidate = None
      /\ d.highReceived = None /\ d # Unknown /\ d \in Control
  <2>1. l.timestamp \in Nat \ {0} /\ Validate \in 0..Validate
    BY ReadsTypes, UdpParserAssumption
  <2>2. d \in Control
    BY <2>1 DEF Unknown, Control, None
  <2>3. d.low # Unknown.low
    BY <2>1 DEF Unknown, None
  <2> QED  BY <2>1, <2>2, <2>3 DEF Unknown, None
<1>2. p \in Seen(l.src)' /\ LastSeen(l.src, p)' /\ Log'[p].timestamp = l.timestamp
  BY Grown, ReadsTypes DEF LastSeen, Reads
<1>3. Control' = Control
  BY DEF Control
<1> QED  BY <1>1, <1>2, <1>3 DEF StateOK

\* No gap is open after the line.
LEMMA Settles ==
  ASSUME NEW p, NEW c, NEW l, Reads(p, c, l), NEW d \in Control,
         d.low = l.timestamp, d.previous = None, d.candidate = None, d.highReceived = None
  PROVE  StateOK(l.src, d)'
<1>1. l.timestamp # None
  BY ReadsTypes DEF None
<1>2. d # Unknown
  BY <1>1 DEF Unknown
<1>3. p \in Seen(l.src)' /\ LastSeen(l.src, p)' /\ Log'[p].timestamp = l.timestamp
  BY Grown, ReadsTypes DEF LastSeen, Reads
<1>4. Control' = Control
  BY DEF Control
<1> QED  BY <1>1, <1>2, <1>3, <1>4 DEF StateOK

\* A gap is open after the line.
LEMMA StaysOpen ==
  ASSUME NEW p, NEW c, NEW l, Reads(p, c, l), NEW d \in Control,
         d.low # None, d.previous = l.timestamp, d.previousReceived = l.received,
         \E i, n \in Seen(l.src)' : Opening(l.src, d.low, i, n)',
         (d.candidate = None) = (d.highReceived = None),
         d.candidate # None =>
           d.candidate < d.previous /\ Disrupted(l.src, d.low, d.highReceived, d.candidate)'
  PROVE  StateOK(l.src, d)'
<1>1. d.previous # None
  BY ReadsTypes DEF None
<1>2. d # Unknown
  BY <1>1 DEF Unknown
<1>3. /\ p \in Seen(l.src)' /\ LastSeen(l.src, p)' /\ Log'[p].timestamp = l.timestamp
      /\ Log'[p].received = l.received
  BY Grown, ReadsTypes DEF LastSeen, Reads
<1>4. Control' = Control
  BY DEF Control
<1> QED  BY <1>1, <1>2, <1>3, <1>4 DEF StateOK

LEMMA StepFields ==
  ASSUME NEW p, NEW c, NEW l, Reads(p, c, l)
  PROVE  LET d == Step(c, l) IN
           /\ d \in Control /\ d.previous = l.timestamp /\ d.previousReceived = l.received
           /\ d.low = c.low /\ d.lowReceived = c.lowReceived /\ d.candidate = c.candidate
           /\ d.highReceived = c.highReceived /\ d.validate = c.validate
<1>1. c \in Control /\ l.timestamp \in Nat /\ l.received \in Nat
  BY LineTypes
<1> QED  BY <1>1 DEF Step, Control

LEMMA ContinuesOK ==
  ASSUME NEW p, NEW c, NEW l, Reads(p, c, l), Continues(c, l)
  PROVE  \E d : Keep(d) /\ StateOK(l.src, d)'
<1> DEFINE d == [c EXCEPT !.low = l.timestamp, !.lowReceived = l.received]
<1>1. Keep(d) /\ c.previous = None
  BY DEF Continues
<1>2. c.candidate = None /\ c.highReceived = None
  BY <1>1, ReadsTypes DEF StateOK
<1>3. /\ d \in Control /\ d.low = l.timestamp /\ d.previous = None /\ d.candidate = None
      /\ d.highReceived = None
  <2>1. c \in Control /\ l.timestamp \in Nat /\ l.received \in Nat
    BY LineTypes
  <2> QED  BY <1>1, <1>2, <2>1 DEF Control
<1> HIDE DEF d
<1>4. StateOK(l.src, d)'
  BY <1>3, Settles
<1> QED  BY <1>1, <1>4

LEMMA ClosesOK ==
  ASSUME NEW p, NEW c, NEW l, Reads(p, c, l), Closes(c, l)
  PROVE  \E d : Keep(d) /\ StateOK(l.src, d)'
<1> DEFINE d == [c EXCEPT !.candidate = None, !.highReceived = None, !.previous = None,
                          !.validate = Validate, !.low = l.timestamp, !.lowReceived = l.received]
<1>1. Keep(d)
  BY DEF Closes
<1>2. /\ d \in Control /\ d.low = l.timestamp /\ d.previous = None /\ d.candidate = None
      /\ d.highReceived = None
  <2>1. Validate \in 0..Validate
    BY UdpParserAssumption
  <2>2. c \in Control /\ l.timestamp \in Nat /\ l.received \in Nat
    BY LineTypes
  <2> QED  BY <2>1, <2>2 DEF Control, None
<1> HIDE DEF d
<1>3. StateOK(l.src, d)'
  BY <1>2, Settles
<1> QED  BY <1>1, <1>3

LEMMA OpensOK ==
  ASSUME NEW p, NEW c, NEW l, Reads(p, c, l), Opens(c, l)
  PROVE  \E d : Keep(d) /\ StateOK(l.src, d)'
<1> DEFINE d == Step(c, l)
<1>1. Keep(d) /\ c # Unknown /\ c.previous = None /\ l.timestamp - c.low # 1
  BY DEF Opens
<1>2. /\ d \in Control /\ d.previous = l.timestamp /\ d.previousReceived = l.received
      /\ d.low = c.low /\ d.candidate = c.candidate /\ d.highReceived = c.highReceived
  BY StepFields
<1>3. c.candidate = None /\ c.highReceived = None /\ c.low # None
  BY <1>1, ReadsTypes DEF StateOK
<1>4. PICK i \in Seen(l.src) : LastSeen(l.src, i) /\ Log[i].timestamp = c.low
  BY <1>1, ReadsTypes DEF StateOK
<1>5. Opening(l.src, c.low, i, p)' /\ i \in Seen(l.src)' /\ p \in Seen(l.src)'
  <2>1. Successive(i, p)'
    BY <1>4, NextOfSource
  <2>2. i \in Seen(l.src)' /\ p \in Seen(l.src)'
    BY <1>4, Grown
  <2>3. Log'[i].timestamp = c.low /\ Log'[p].timestamp # c.low + 1
    <3>1. l.timestamp # c.low + 1
      BY <1>1, LineTypes
    <3> QED  BY <1>4, <3>1, LineTypes
  <2> QED  BY <2>1, <2>2, <2>3 DEF Opening
<1> HIDE DEF d
<1>6. StateOK(l.src, d)'
  BY <1>2, <1>3, <1>5, StaysOpen
<1> QED  BY <1>1, <1>6

\* What is known of a source while its gap is open.
LEMMA OpenGap ==
  ASSUME NEW p, NEW c, NEW l, Reads(p, c, l), c.previous # None
  PROVE  /\ c.low # None
         /\ \E i, n \in Seen(l.src)' : Opening(l.src, c.low, i, n)'
         /\ \E j \in Seen(l.src) : /\ LastSeen(l.src, j) /\ Log[j].timestamp = c.previous
                                   /\ Log[j].received = c.previousReceived
<1>1. /\ c # Unknown /\ c.low # None
      /\ \E j \in Seen(l.src) : /\ LastSeen(l.src, j) /\ Log[j].timestamp = c.previous
                                /\ Log[j].received = c.previousReceived
      /\ \E i, n \in Seen(l.src) : Opening(l.src, c.low, i, n)
  BY ReadsTypes DEF StateOK
<1>2. \E i, n \in Seen(l.src)' : Opening(l.src, c.low, i, n)'
  BY <1>1, Grown
<1> QED  BY <1>1, <1>2

LEMMA ProposesOK ==
  ASSUME NEW p, NEW c, NEW l, Reads(p, c, l), Proposes(c, l)
  PROVE  \E d : Keep(d) /\ StateOK(l.src, d)'
<1> DEFINE e == Step(c, l)
           d == [e EXCEPT !.candidate = c.previous, !.highReceived = c.previousReceived]
<1>1. Keep(d) /\ c.previous # None /\ l.timestamp - c.previous = 1
  BY DEF Proposes, Follows
<1>2. /\ d \in Control /\ d.previous = l.timestamp /\ d.previousReceived = l.received
      /\ d.low = c.low /\ d.candidate = c.previous /\ d.highReceived = c.previousReceived
  <2>1. e \in Control /\ e.previous = l.timestamp /\ e.previousReceived = l.received /\ e.low = c.low
    BY StepFields
  <2>2. c \in Control
    BY LineTypes
  <2> HIDE DEF e
  <2> QED  BY <2>1, <2>2 DEF Control
<1> HIDE DEF e
<1>3. PICK j \in Seen(l.src) : /\ LastSeen(l.src, j) /\ Log[j].timestamp = c.previous
                               /\ Log[j].received = c.previousReceived
  BY <1>1, OpenGap
<1>4. PICK i \in Seen(l.src), n \in Seen(l.src) : Opening(l.src, c.low, i, n)
  BY <1>1, ReadsTypes DEF StateOK
<1>5. d.highReceived # None
  <2>1. j \in DOMAIN Log
    BY <1>3, Grown, ReadsTypes
  <2>2. Log[j] \in Line
    BY <2>1, ReadsTypes
  <2> QED  BY <1>2, <1>3, <2>2 DEF Line, None
<1>6. Disrupted(l.src, c.low, c.previousReceived, c.previous)'
  <2>1. Ending(l.src, c.previousReceived, j, p)'
    <3>1. Successive(j, p)' /\ j \in Seen(l.src)' /\ p \in Seen(l.src)'
      BY <1>3, NextOfSource, Grown
    <3>2. Log'[p].timestamp = Log'[j].timestamp + 1 /\ Log'[j].received = c.previousReceived
      BY <1>1, <1>3, LineTypes
    <3> QED  BY <3>1, <3>2 DEF Ending
  <2>2. Opening(l.src, c.low, i, n)' /\ n <= j
    BY <1>3, <1>4, Grown DEF LastSeen
  <2>3. {i, n, j, p} \subseteq Seen(l.src)' /\ Log'[j].timestamp = c.previous
    BY <1>3, <1>4, Grown, LineTypes
  <2> QED  BY <2>1, <2>2, <2>3 DEF Disrupted
<1>7. d.candidate < d.previous
  BY <1>1, <1>2, LineTypes
<1>8. c.low # None /\ \E a, b \in Seen(l.src)' : Opening(l.src, c.low, a, b)'
  BY <1>1, OpenGap
<1> HIDE DEF d
<1>9. StateOK(l.src, d)'
  BY <1>1, <1>2, <1>5, <1>6, <1>7, <1>8, StaysOpen
<1> QED  BY <1>1, <1>9 DEF e, d

LEMMA ValidatesOK ==
  ASSUME NEW p, NEW c, NEW l, Reads(p, c, l), Validates(c, l)
  PROVE  \E d : Keep(d) /\ StateOK(l.src, d)'
<1> DEFINE e == Step(c, l)
           d == [e EXCEPT !.validate = @ - 1]
<1>1. /\ Keep(d) /\ c.previous # None /\ l.timestamp - c.previous = 1
      /\ c.candidate # None /\ c.validate # 0
  BY DEF Validates, Follows
<1>2. /\ e \in Control /\ e.previous = l.timestamp /\ e.previousReceived = l.received
      /\ e.low = c.low /\ e.candidate = c.candidate /\ e.highReceived = c.highReceived
      /\ e.validate = c.validate
  BY StepFields
<1>3. c.validate - 1 \in 0..Validate
  BY <1>1, LineTypes, UdpParserAssumption
<1> HIDE DEF e
<1>4. /\ d \in Control /\ d.previous = l.timestamp /\ d.previousReceived = l.received
      /\ d.low = c.low /\ d.candidate = c.candidate /\ d.highReceived = c.highReceived
  BY <1>2, <1>3 DEF Control
<1>5. /\ (c.candidate = None) = (c.highReceived = None) /\ c.candidate < c.previous
      /\ Disrupted(l.src, c.low, c.highReceived, c.candidate)'
  BY <1>1, ReadsTypes, Grown DEF StateOK
<1>6. c.candidate < l.timestamp
  BY <1>1, <1>5, LineTypes
<1>7. c.low # None /\ \E a, b \in Seen(l.src)' : Opening(l.src, c.low, a, b)'
  BY <1>1, OpenGap
<1> HIDE DEF d
<1>8. StateOK(l.src, d)'
  BY <1>4, <1>5, <1>6, <1>7, StaysOpen
<1> QED  BY <1>1, <1>8 DEF e, d

LEMMA BreaksOK ==
  ASSUME NEW p, NEW c, NEW l, Reads(p, c, l), Breaks(c, l)
  PROVE  \E d : Keep(d) /\ StateOK(l.src, d)'
<1> DEFINE e == Step(c, l)
           d == [e EXCEPT !.candidate = None, !.highReceived = None]
<1>1. Keep(d) /\ c.previous # None
  BY DEF Breaks
<1>2. e \in Control /\ e.previous = l.timestamp /\ e.previousReceived = l.received /\ e.low = c.low
  BY StepFields
<1> HIDE DEF e
<1>3. /\ d \in Control /\ d.previous = l.timestamp /\ d.previousReceived = l.received
      /\ d.low = c.low /\ d.candidate = None /\ d.highReceived = None
  BY <1>2 DEF Control, None
<1>4. c.low # None /\ \E a, b \in Seen(l.src)' : Opening(l.src, c.low, a, b)'
  BY <1>1, OpenGap
<1> HIDE DEF d
<1>5. StateOK(l.src, d)'
  BY <1>3, <1>4, StaysOpen
<1> QED  BY <1>1, <1>5 DEF e, d

Transition(c, l) ==
  \/ Start(c, l) \/ Continues(c, l) \/ Opens(c, l) \/ Proposes(c, l)
  \/ Validates(c, l) \/ Closes(c, l) \/ Forgets(c, l) \/ Breaks(c, l)

LEMMA TransitionOK ==
  ASSUME NEW p, NEW c, NEW l, Reads(p, c, l), Transition(c, l)
  PROVE  SourcesOK'
<1>1. CASE Start(c, l) \/ Forgets(c, l)
  <2>1. Keep([Unknown EXCEPT !.low = l.timestamp])
    BY <1>1 DEF Start, Forgets
  <2> QED  BY <2>1, NewSource, OneSource
<1>2. ASSUME NEW d, Keep(d), StateOK(l.src, d)' PROVE SourcesOK'
  BY <1>2, OneSource
<1> QED
  BY <1>1, <1>2, ContinuesOK, ClosesOK, OpensOK, ProposesOK, ValidatesOK, BreaksOK DEF Transition

\* The gap that is closed was one.
LEMMA ClosedGap ==
  ASSUME NEW p, NEW c, NEW l, Reads(p, c, l), Closes(c, l)
  PROVE  IsGap(Gap(c, l.src))'
<1>1. c.candidate # None
  BY DEF Closes
<1>2. Disrupted(l.src, c.low, c.highReceived, c.candidate)
  BY <1>1, ReadsTypes DEF StateOK
<1>3. Disrupted(l.src, c.low, c.highReceived, c.candidate)'
  BY <1>2, Grown
<1>4. c.candidate \in Time
  BY <1>1, LineTypes DEF Time, None
<1>5. l.src \in Sources
  BY ReadsTypes
<1> QED  BY <1>3, <1>4, <1>5 DEF IsGap, Gap

LEMMA TransitionGaps ==
  ASSUME NEW p, NEW c, NEW l, Reads(p, c, l), Transition(c, l)
  PROVE  /\ gaps' \in Seq(ToSet(gaps)') /\ GapsOK'
         /\ gaps' = gaps \/ Closes(c, l)
<1>1. gaps \in Seq(ToSet(gaps)) /\ GapsOK
  BY DEF Reads, ReadOK
<1>2. ASSUME NEW g, IsGap(g) PROVE IsGap(g)'
  BY <1>2, Grown DEF IsGap
<1>3. gaps' = gaps \/ Closes(c, l)
  BY DEF Transition, Start, Continues, Opens, Proposes, Validates, Forgets, Breaks
<1>4. CASE gaps' = gaps
  <2>1. ToSet(gaps)' = ToSet(gaps)
    BY <1>4 DEF ToSet
  <2> QED  BY <1>1, <1>2, <1>3, <1>4, <2>1 DEF GapsOK
<1>5. CASE Closes(c, l)
  <2> DEFINE new == Gap(c, l.src)
  <2>1. gaps' = Append(gaps, new) /\ IsGap(new)'
    BY <1>5, ClosedGap DEF Closes
  <2> HIDE DEF new
  <2>2. ToSet(gaps)' = ToSet(gaps) \cup {new} /\ gaps' \in Seq(ToSet(gaps) \cup {new})
    BY <1>1, <2>1, Appended
  <2> QED  BY <1>1, <1>2, <1>3, <2>1, <2>2 DEF GapsOK
<1> QED  BY <1>3, <1>4, <1>5

LEMMA LineRead ==
  ASSUME LogsOK, CursorsOK, ReadOK, ReadLine
  PROVE  \E p, c, l : Reads(p, c, l) /\ Transition(c, l)
<1>1. /\ dir \in DOMAIN logs /\ pos <= Len(Log) /\ UNCHANGED <<logs, dir>> /\ pos' = pos + 1
      /\ Transition(control[Log[pos].src], Log[pos])
  BY DEF ReadLine, Transition
<1> QED  BY <1>1 DEF Reads

-----------------------------------------------------------------------------
(* The positions in the logs, the gaps and the failures                    *)

LEMMA ParserCursors ==
  ASSUME LogsOK, CursorsOK, ReadOK, SimulationEnded, ParserNext, UNCHANGED trafficVars
  PROVE  CursorsOK'
<1>1. SimulationEnded' /\ UNCHANGED logs
  BY DEF SimulationEnded, trafficVars, ParserNext, ReadLine, EndLog, FileGap, SkipGap, NextLog,
         Converge, Report
<1>2. /\ dir \in Time /\ pos \in Time /\ idx \in 1..(Len(Fails) + 1) /\ fitting \in 0..(Len(gaps) + 1)
      /\ (pos > 1 => dir \in DOMAIN logs /\ pos <= Len(Log) + 1)
  BY DEF CursorsOK
<1>3. Len(gaps) \in Nat /\ DOMAIN gaps = 1..Len(gaps) /\ Len(Fails) \in Nat
  BY UdpParserAssumption DEF ReadOK
<1>4. CASE ReadLine
  <2>1. PICK p, c, l : Reads(p, c, l) /\ Transition(c, l)
    BY <1>4, LineRead
  <2>2. gaps' \in Seq(ToSet(gaps)')
    BY <2>1, TransitionGaps
  <2>3. Len(gaps') \in Nat
    BY <2>2
  <2>4. /\ dir \in DOMAIN logs /\ fitting = 0 /\ pos <= Len(Log) /\ pos' = pos + 1
        /\ UNCHANGED <<dir, fitting, idx>>
    BY <1>4 DEF ReadLine
  <2>5. Len(Log') = Len(Log) /\ pos' <= Len(Log) + 1 /\ pos' \in Time
    <3>1. Log' = Log /\ Len(Log) \in Nat
      BY <2>1, ReadsTypes
    <3> QED  BY <1>2, <2>4, <3>1 DEF Time
  <2>6. fitting' \in 0..(Len(gaps') + 1)
    BY <2>3, <2>4
  <2> QED  BY <1>1, <1>2, <2>4, <2>5, <2>6 DEF CursorsOK
<1>5. CASE EndLog
  BY <1>1, <1>2, <1>3, <1>5 DEF CursorsOK, EndLog, Log
<1>6. CASE FileGap
  <2>1. Fitting(gaps[fitting], idx) \in SUBSET Nat /\ Fitting(gaps[fitting], idx) # {}
    BY <1>2, <1>3, <1>6 DEF FileGap, Fitting
  <2>2. idx' \in idx..Len(Fails)
    BY <1>6, <2>1, LeastIn DEF FileGap, Fitting
  <2>3. idx' \in 1..(Len(Fails) + 1)
    BY <1>2, <1>3, <2>2
  <2>4. fitting' \in 0..(Len(gaps) + 1)
    BY <1>3, <1>6 DEF FileGap
  <2>5. UNCHANGED <<dir, pos, gaps>>
    BY <1>6 DEF FileGap
  <2> QED  BY <1>1, <1>2, <2>3, <2>4, <2>5 DEF CursorsOK, Log
<1>7. CASE SkipGap
  <2>1. fitting' \in 0..(Len(gaps) + 1)
    BY <1>3, <1>7 DEF SkipGap
  <2> QED  BY <1>1, <1>2, <1>7, <2>1 DEF CursorsOK, SkipGap, Log
<1>8. CASE NextLog
  <2>1. dir' = dir + 1 /\ pos' = 1 /\ idx' = 1 /\ fitting' = 0 /\ gaps' = <<>>
    BY <1>8 DEF NextLog
  <2>2. dir' \in Time /\ pos' \in Time /\ ~(pos' > 1)
    BY <1>2, <2>1 DEF Time
  <2>3. Len(gaps') = 0 /\ fitting' \in 0..(Len(gaps') + 1) /\ idx' \in 1..(Len(Fails) + 1)
    BY <1>3, <2>1
  <2> QED  BY <1>1, <2>2, <2>3 DEF CursorsOK
<1>9. CASE Converge
  BY <1>1, <1>2, <1>9 DEF CursorsOK, Converge, Log
<1>10. CASE Report
  BY <1>1, <1>2, <1>10 DEF CursorsOK, Report, Log
<1> QED  BY <1>4, <1>5, <1>6, <1>7, <1>8, <1>9, <1>10 DEF ParserNext

LEMMA ParserStep ==
  ASSUME UdpInv, SimulationEnded, ParserNext, UNCHANGED trafficVars
  PROVE  UdpInv'
<1>1. LogsOK /\ CursorsOK /\ ReadOK
  BY DEF UdpInv
<1>2. CursorsOK'
  BY <1>1, ParserCursors
<1>3. LogsOK'
  <2>1. UNCHANGED <<logs, network, clock, flight>>
    BY DEF trafficVars, ParserNext, ReadLine, EndLog, FileGap, SkipGap, NextLog, Converge, Report
  <2>2. Packet' = Packet
    BY <2>1 DEF Packet, Flows
  <2> QED  BY <1>1, <2>1, <2>2 DEF LogsOK
<1>4. ReadOK'
  <2>1. CASE ReadLine
    <3>1. PICK p, c, l : Reads(p, c, l) /\ Transition(c, l)
      BY <1>1, <2>1, LineRead
    <3> QED  BY <3>1, TransitionOK, TransitionGaps DEF ReadOK
  <2>2. CASE NextLog
    <3>1. Fresh'
      BY <2>2 DEF NextLog, Fresh
    <3>2. Fresh' => ReadOK'
      BY FreshOK, PTL
    <3> QED  BY <3>1, <3>2
  <2>3. CASE EndLog \/ FileGap \/ SkipGap \/ Converge \/ Report
    <3>1. UNCHANGED <<logs, dir, pos, control, gaps>>
      BY <2>3 DEF EndLog, FileGap, SkipGap, Converge, Report
    <3> QED  BY <1>1, <3>1, Still
  <2> QED  BY <2>1, <2>2, <2>3 DEF ParserNext
<1> QED  BY <1>2, <1>3, <1>4 DEF UdpInv

LEMMA SimulationStep ==
  ASSUME UdpInv, Send \/ (\E p \in flight : Receive(p)) \/ Drain
  PROVE  LogsOK' /\ Fresh' /\ UdpInv'
<1>1. LogsOK'
  BY SendInv, ReceiveInv, DrainInv DEF UdpInv
<1>2. UNCHANGED parserVars /\ ~SimulationEnded
  <2>1. clock \in Nat /\ network.packets \in Nat
    BY UdpTrafficAssumption DEF UdpInv, LogsOK, Time, IsNetwork
  <2>2. CASE Send
    BY <2>1, <2>2 DEF Send, SimulationEnded
  <2>3. CASE \E p \in flight : Receive(p)
    BY <2>3 DEF Receive, SimulationEnded
  <2>4. CASE Drain
    BY <2>4 DEF Drain, SimulationEnded
  <2> QED  BY <2>2, <2>3, <2>4
<1>3. Fresh'
  BY <1>2 DEF UdpInv, CursorsOK, Fresh, parserVars
<1>4. CursorsOK'
  <2>1. dir' \in Time
    BY <1>2 DEF UdpInv, CursorsOK, parserVars
  <2>2. /\ pos' \in Time /\ ~(pos' > 1) /\ idx' \in 1..(Len(Fails) + 1)
        /\ fitting' \in 0..(Len(gaps') + 1)
    <3>1. pos' = 1 /\ idx' = 1 /\ fitting' = 0 /\ gaps' = <<>>
      BY <1>3 DEF Fresh
    <3> QED  BY <3>1, UdpParserAssumption DEF Time
  <2> QED  BY <1>3, <2>1, <2>2 DEF CursorsOK
<1>5. Fresh' => ReadOK'
  BY FreshOK, PTL
<1> QED  BY <1>1, <1>3, <1>4, <1>5 DEF UdpInv

LEMMA Copies ==
  ASSUME NEW S, NEW e \in S, NEW n \in Nat
  PROVE  [s \in 1..n |-> e] \in Seq(S) /\ Len([s \in 1..n |-> e]) = n
OBVIOUS

LEMMA UdpInvInit ==
  Init => UdpInv /\ Fresh
<1> SUFFICES ASSUME Init PROVE UdpInv /\ Fresh
  OBVIOUS
<1>1. Fresh /\ dir = 1 /\ flight = {} /\ clock = 1 /\ network \in Networks
  BY DEF Init, ParserInit, Fresh
<1>2. network.servers \in Nat \ {0}
  BY <1>1, UdpTrafficAssumption DEF IsNetwork
<1>3. /\ logs = [s \in 1..network.servers |-> <<>>] /\ logs \in Seq(Seq(Line))
      /\ Len(logs) = network.servers /\ \A s \in DOMAIN logs : DOMAIN logs[s] = {}
  <2>1. logs = [s \in 1..network.servers |-> <<>>]
    BY DEF Init
  <2>2. <<>> \in Seq(Line)
    OBVIOUS
  <2>3. logs \in Seq(Seq(Line)) /\ Len(logs) = network.servers
    BY <1>2, <2>1, <2>2, Copies
  <2>4. \A s \in DOMAIN logs : logs[s] = <<>>
    BY <2>1
  <2>5. \A s \in DOMAIN logs : DOMAIN logs[s] = {}
    BY <2>4
  <2> QED  BY <2>1, <2>3, <2>5
<1>4. LogsOK
  <2>1. \A s \in DOMAIN logs : \A i \in DOMAIN logs[s] : FALSE
    BY <1>3
  <2>2. flight \subseteq Packet /\ clock \in Time
    BY <1>1 DEF Time
  <2> QED  BY <1>1, <1>3, <2>1, <2>2 DEF LogsOK
<1>5. CursorsOK
  <2>1. pos = 1 /\ idx = 1 /\ fitting = 0 /\ gaps = <<>>
    BY <1>1 DEF Fresh
  <2>2. idx \in 1..(Len(Fails) + 1) /\ ~(pos > 1)
    BY <2>1, UdpParserAssumption
  <2>3. fitting \in 0..(Len(gaps) + 1)
    BY <2>1
  <2>4. dir \in Time /\ pos \in Time
    BY <1>1, <2>1 DEF Time
  <2> QED  BY <1>1, <2>2, <2>3, <2>4 DEF CursorsOK
<1> QED  BY <1>1, <1>4, <1>5, FreshOK DEF UdpInv

LEMMA UdpInvNext ==
  UdpInv /\ [Next]_vars => UdpInv'
<1> SUFFICES ASSUME UdpInv, [Next]_vars PROVE UdpInv'
  OBVIOUS
<1>1. CASE Send \/ (\E p \in flight : Receive(p)) \/ Drain
  BY <1>1, SimulationStep
<1>2. CASE SimulationEnded /\ ParserNext /\ UNCHANGED trafficVars
  BY <1>2, ParserStep
<1>3. CASE UNCHANGED vars
  <2>1. UNCHANGED <<logs, dir, pos, control, gaps, idx, fitting, network, clock, flight>>
    BY <1>3 DEF vars, parserVars, trafficVars
  <2>2. Packet' = Packet
    BY <2>1 DEF Packet, Flows
  <2>3. LogsOK'
    BY <2>1, <2>2 DEF UdpInv, LogsOK
  <2>4. CursorsOK'
    BY <2>1 DEF UdpInv, CursorsOK, SimulationEnded, Fresh, Log
  <2> QED  BY <2>1, <2>3, <2>4, Still DEF UdpInv
<1> QED  BY <1>1, <1>2, <1>3 DEF Next

LEMMA UdpInvAlways == Spec => []UdpInv
<1>1. Init => UdpInv
  BY UdpInvInit
<1> QED  BY <1>1, UdpInvNext, PTL DEF Spec

-----------------------------------------------------------------------------
(* What the parser says of a log                                           *)

\* In every simulation, udp_parser.py keeps its types: a source has a candidate
\* for the end of its gap only while the gap is open, always with its arrival,
\* validate does not become negative, and the search for the failures of the
\* gaps remains within their lists.
THEOREM UdpTypeCorrect == Spec => []TypeOK
<1>1. UdpInv => TypeOK
  <2> SUFFICES ASSUME UdpInv PROVE TypeOK
    OBVIOUS
  <2>1. logs \in Seq(Seq(Line)) /\ CursorsOK
    BY DEF UdpInv, LogsOK
  <2>2. ASSUME NEW s \in DOMAIN control
        PROVE  /\ control[s].validate \in 0..Validate
               /\ (control[s].candidate = None) = (control[s].highReceived = None)
               /\ control[s].candidate # None =>
                    control[s].previous # None /\ control[s].candidate < control[s].previous
               /\ control[s].low = None => control[s] = Unknown
    <3>1. StateOK(s, control[s])
      BY DEF UdpInv, ReadOK, SourcesOK
    <3>2. control[s] \in Control
      BY <3>1 DEF StateOK
    <3>3. control[s].validate \in 0..Validate
      BY <3>2 DEF Control
    <3> QED  BY <3>1, <3>3 DEF StateOK
  <2> QED  BY <2>1, <2>2 DEF TypeOK, CursorsOK
<1> QED  BY <1>1, UdpInvAlways, PTL

\* Every gap that udp_parser.py finds is a real disruption of its source: its
\* lower bound is the time of a packet that the next one did not follow, its
\* upper bound the arrival of a later packet that the next one did follow; for
\* every network, whatever was lost and in whatever order the rest arrived.
THEOREM GapsAreDisruptions == Spec => []GapIsDisruption
<1>1. UdpInv => GapIsDisruption
  <2> SUFFICES ASSUME UdpInv, NEW g \in ToSet(gaps)
               PROVE  \E i, j \in DOMAIN Log :
                        /\ Log[i].src = g.src /\ Log[i].timestamp = g.low
                        /\ Log[j].src = g.src /\ Log[j].received = g.high
                        /\ \E n \in (i + 1)..j : Successive(i, n) /\ Log[n].timestamp # g.low + 1
                        /\ \E n \in (j + 1)..Len(Log) :
                             Successive(j, n) /\ Log[n].timestamp = Log[j].timestamp + 1
    BY DEF GapIsDisruption
  <2>1. PICK t \in Time : Disrupted(g.src, g.low, g.high, t)
    BY DEF UdpInv, ReadOK, GapsOK, IsGap
  <2>2. PICK i \in Seen(g.src), n \in Seen(g.src), j \in Seen(g.src), m \in Seen(g.src) :
          Opening(g.src, g.low, i, n) /\ n <= j /\ Ending(g.src, g.high, j, m)
    BY <2>1 DEF Disrupted
  <2>3. pos \in Time /\ (pos > 1 => dir \in DOMAIN logs /\ pos <= Len(Log) + 1)
    BY DEF UdpInv, CursorsOK
  <2>4. pos > 1
    BY <2>2, <2>3 DEF Seen, Time
  <2>5. Log \in Seq(Line)
    BY <2>3, <2>4 DEF UdpInv, LogsOK, Log
  <2>6. ASSUME NEW k \in Seen(g.src) PROVE k \in DOMAIN Log /\ k \in Nat /\ Log[k].src = g.src
    BY <2>3, <2>4, <2>5 DEF Seen, Time
  <2>7. n \in (i + 1)..j /\ m \in (j + 1)..Len(Log)
    <3>1. i < n /\ n <= j /\ j < m
      BY <2>2 DEF Opening, Ending, Successive
    <3>2. {i, n, j, m} \subseteq DOMAIN Log /\ DOMAIN Log = 1..Len(Log) /\ Len(Log) \in Nat
      BY <2>5, <2>6
    <3> QED  BY <3>1, <3>2
  <2>8. /\ Successive(i, n) /\ Log[i].timestamp = g.low /\ Log[n].timestamp # g.low + 1
        /\ Successive(j, m) /\ Log[j].received = g.high /\ Log[m].timestamp = Log[j].timestamp + 1
    BY <2>2 DEF Opening, Ending
  <2> QED  BY <2>6, <2>7, <2>8
<1> QED  BY <1>1, UdpInvAlways, PTL

-----------------------------------------------------------------------------
(* Paths of similar length                                                 *)

\* No path is slower than another by four packets or more.
Similar == \A a, b \in Delays : a - b < 4

\* Then no packet arrives after one that was sent four packets later.
LEMMA Lag ==
  ASSUME Similar, NEW p, NEW c, NEW l, Reads(p, c, l), NEW s, NEW i \in Seen(s)
  PROVE  Log[i].timestamp \in Nat /\ l.timestamp >= Log[i].timestamp - 3
<1>1. dir \in DOMAIN logs /\ l = Log[p] /\ p \in DOMAIN Log /\ p \in Nat \ {0} /\ i \in 1..(p - 1)
  BY ReadsTypes DEF Reads, Seen
<1>2. i \in DOMAIN Log /\ Log \in Seq(Line)
  <2>1. DOMAIN Log = 1..Len(Log) /\ Len(Log) \in Nat /\ Log \in Seq(Line)
    BY ReadsTypes
  <2> QED  BY <1>1, <2>1
<1>3. /\ Log[i].received - Log[i].timestamp \in Delays /\ l.received - l.timestamp \in Delays
      /\ Log[i].received <= l.received
  BY <1>1, <1>2 DEF Reads, LogsOK, Log
<1>4. Log[i] \in Line /\ l \in Line
  BY <1>1, <1>2
<1>5. /\ Log[i].received \in Nat /\ Log[i].timestamp \in Nat
      /\ l.received \in Nat /\ l.timestamp \in Nat
  BY <1>4 DEF Line
<1>6. (l.received - l.timestamp) - (Log[i].received - Log[i].timestamp) < 4
  BY <1>3 DEF Similar
<1> QED  BY <1>3, <1>5, <1>6

LEMMA Kept ==
  ASSUME NEW p, NEW c, NEW l, Reads(p, c, l), NEW d, Keep(d)
  PROVE  control'[l.src] = d /\ \A s \in Sources : s # l.src => control'[s] = control[s]
<1>1. control' = [control EXCEPT ![l.src] = d] /\ l.src \in Sources
  BY ReadsTypes DEF Keep, Reads
<1>2. control \in [Sources -> Control]
  BY DEF Reads, ReadOK, SourcesOK
<1> QED  BY <1>1, <1>2

\* How the state of a source that has lowReceived changes with a line.
Moves(c, l, d) ==
  /\ d.lowReceived # None
  /\ d.low = c.low \/ d.low = c.low + 1 \/ (c.candidate # None /\ d.low >= c.candidate + 2)
  /\ d.previous \in {None, l.timestamp}
  /\ d.candidate \in {None, c.candidate, c.previous}

\* The packet that closes a gap follows its candidate.
LEMMA ClosingLine ==
  ASSUME NEW p, NEW c, NEW l, Reads(p, c, l), Closes(c, l)
  PROVE  c.candidate # None /\ l.timestamp >= c.candidate + 2
<1>1. c.previous # None /\ l.timestamp - c.previous = 1 /\ c.candidate # None
  BY DEF Closes, Follows
<1>2. c.candidate < c.previous
  BY <1>1, ReadsTypes DEF StateOK
<1> QED  BY <1>1, <1>2, LineTypes

LEMMA MovesOK ==
  ASSUME NEW p, NEW c, NEW l, Reads(p, c, l), Transition(c, l), c.lowReceived # None
  PROVE  Moves(c, l, control'[l.src])
<1>1. /\ c \in Control /\ l.timestamp \in Nat /\ l.received \in Nat /\ l.received # None
      /\ c.low \in Nat
  BY LineTypes
<1>2. c # Unknown
  BY DEF Unknown
<1>3. CASE Continues(c, l)
  <2> DEFINE d == [c EXCEPT !.low = l.timestamp, !.lowReceived = l.received]
  <2>1. control'[l.src] = d /\ c.previous = None /\ l.timestamp - c.low = 1
    BY <1>3, Kept DEF Continues
  <2>2. /\ d.low = l.timestamp /\ d.lowReceived = l.received /\ d.previous = c.previous
        /\ d.candidate = c.candidate
    BY <1>1 DEF Control
  <2>3. l.timestamp = c.low + 1
    BY <1>1, <2>1
  <2> HIDE DEF d
  <2> QED  BY <1>1, <2>1, <2>2, <2>3 DEF Moves
<1>4. CASE Closes(c, l)
  <2> DEFINE d == [c EXCEPT !.candidate = None, !.highReceived = None, !.previous = None,
                            !.validate = Validate, !.low = l.timestamp, !.lowReceived = l.received]
  <2>1. control'[l.src] = d
    BY <1>4, Kept DEF Closes
  <2>2. /\ d.low = l.timestamp /\ d.lowReceived = l.received /\ d.previous = None
        /\ d.candidate = None
    BY <1>1 DEF Control
  <2>3. c.candidate # None /\ l.timestamp >= c.candidate + 2
    BY <1>4, ClosingLine
  <2> HIDE DEF d
  <2> QED  BY <1>1, <2>1, <2>2, <2>3 DEF Moves
<1>5. ASSUME NEW d, d.low = c.low, d.lowReceived = c.lowReceived, d.previous = l.timestamp,
             d.candidate \in {None, c.candidate, c.previous}
      PROVE  Moves(c, l, d)
  BY <1>5 DEF Moves
<1> DEFINE e == Step(c, l)
<1>6. /\ e \in Control /\ e.previous = l.timestamp /\ e.low = c.low
      /\ e.lowReceived = c.lowReceived /\ e.candidate = c.candidate
  BY StepFields
<1>7. CASE Opens(c, l)
  <2>1. control'[l.src] = e
    BY <1>7, Kept DEF Opens
  <2> HIDE DEF e
  <2> QED  BY <1>5, <1>6, <2>1
<1>8. CASE Proposes(c, l)
  <2> DEFINE d == [e EXCEPT !.candidate = c.previous, !.highReceived = c.previousReceived]
  <2>1. control'[l.src] = d
    BY <1>8, Kept DEF Proposes
  <2> HIDE DEF e
  <2>2. /\ d.previous = l.timestamp /\ d.low = c.low /\ d.lowReceived = c.lowReceived
        /\ d.candidate = c.previous
    BY <1>6 DEF Control
  <2> HIDE DEF d
  <2> QED  BY <1>5, <2>1, <2>2
<1>9. CASE Validates(c, l)
  <2> DEFINE d == [e EXCEPT !.validate = @ - 1]
  <2>1. control'[l.src] = d
    BY <1>9, Kept DEF Validates
  <2> HIDE DEF e
  <2>2. /\ d.previous = l.timestamp /\ d.low = c.low /\ d.lowReceived = c.lowReceived
        /\ d.candidate = c.candidate
    BY <1>6 DEF Control
  <2> HIDE DEF d
  <2> QED  BY <1>5, <2>1, <2>2
<1>10. CASE Breaks(c, l)
  <2> DEFINE d == [e EXCEPT !.candidate = None, !.highReceived = None]
  <2>1. control'[l.src] = d
    BY <1>10, Kept DEF Breaks
  <2> HIDE DEF e
  <2>2. /\ d.previous = l.timestamp /\ d.low = c.low /\ d.lowReceived = c.lowReceived
        /\ d.candidate = None
    BY <1>6 DEF Control
  <2> HIDE DEF d
  <2> QED  BY <1>5, <2>1, <2>2
<1> HIDE DEF e
<1>11. ~Start(c, l) /\ ~Forgets(c, l)
  BY <1>2 DEF Start, Forgets
<1> QED  BY <1>3, <1>4, <1>7, <1>8, <1>9, <1>10, <1>11 DEF Transition

\* The packets after line z do not bring the search back behind line w.
LEMMA StaysBehind ==
  ASSUME Similar, NEW p, NEW c, NEW l, Reads(p, c, l), Transition(c, l), BehindOK,
         NEW g \in ToSet(gaps)
  PROVE  control'[g.src].lowReceived # None /\ \E w, z \in Seen(g.src)' : Behind(g, w, z)'
<1>1. g.src \in Sources
  BY DEF Reads, ReadOK, GapsOK, IsGap
<1>2. PICK w \in Seen(g.src), z \in Seen(g.src) : Behind(g, w, z)
  BY DEF BehindOK
<1>3. control[g.src].lowReceived # None
  BY DEF BehindOK
<1>4. Log' = Log /\ w \in Seen(g.src)' /\ z \in Seen(g.src)'
  BY Grown, ReadsTypes
<1>5. CASE g.src # l.src
  <2>1. control'[g.src] = control[g.src]
    <3>1. \E d : Keep(d)
      BY DEF Transition, Start, Continues, Opens, Proposes, Validates, Closes, Forgets, Breaks
    <3> QED  BY <1>1, <1>5, <3>1, Kept
  <2> QED  BY <1>2, <1>3, <1>4, <2>1 DEF Behind
<1>6. CASE g.src = l.src
  <2> DEFINE d == control'[l.src]
             t == Log[w].timestamp
  <2>1. /\ Log[w].received = g.high /\ Log[z].timestamp >= t + 2 /\ c.low > t
        /\ c.previous # None => c.previous >= t - 1
        /\ c.candidate # None => c.candidate >= t - 1
    BY <1>2, <1>6 DEF Behind, Reads
  <2>2. Moves(c, l, d)
    BY <1>3, <1>6, MovesOK DEF Reads
  <2>3. t \in Nat /\ Log[z].timestamp \in Nat /\ l.timestamp >= Log[z].timestamp - 3
    BY Lag
  <2>4. c.low \in Nat /\ c.previous \in Nat /\ c.candidate \in Nat /\ l.timestamp \in Nat
    BY LineTypes
  <2> HIDE DEF d, t
  <2>5. l.timestamp >= t - 1
    BY <2>1, <2>3, <2>4
  <2>6. d.low > t
    <3>1. CASE d.low = c.low
      BY <2>1, <3>1
    <3>2. CASE d.low = c.low + 1
      BY <2>1, <2>3, <2>4, <3>2
    <3>3. CASE c.candidate # None /\ d.low >= c.candidate + 2
      <4>1. d.low \in Nat
        <5>1. SourcesOK'
          BY TransitionOK
        <5>2. d \in Control
          BY <1>1, <1>6, <5>1 DEF SourcesOK, Control, d
        <5> QED  BY <5>2 DEF Control
      <4> QED  BY <2>1, <2>3, <2>4, <3>3, <4>1
    <3> QED  BY <2>2, <3>1, <3>2, <3>3 DEF Moves
  <2>7. d.previous # None => d.previous >= t - 1
    BY <2>2, <2>5 DEF Moves
  <2>8. d.candidate # None => d.candidate >= t - 1
    BY <2>1, <2>2 DEF Moves
  <2>9. Behind(g, w, z)'
    BY <1>4, <1>6, <2>1, <2>6, <2>7, <2>8 DEF Behind, d, t
  <2> QED  BY <1>4, <1>6, <2>2, <2>9 DEF Moves, d
<1> QED  BY <1>5, <1>6

\* The packet that closes a gap has left its end behind.
LEMMA LeavesBehind ==
  ASSUME NEW p, NEW c, NEW l, Reads(p, c, l), Closes(c, l)
  PROVE  LET g == Gap(c, l.src) IN
           control'[g.src].lowReceived # None /\ \E w, z \in Seen(g.src)' : Behind(g, w, z)'
<1> DEFINE d == [c EXCEPT !.candidate = None, !.highReceived = None, !.previous = None,
                          !.validate = Validate, !.low = l.timestamp, !.lowReceived = l.received]
           g == Gap(c, l.src)
<1>1. control'[l.src] = d
  BY Kept DEF Closes
<1>2. /\ d.low = l.timestamp /\ d.lowReceived # None /\ d.previous = None /\ d.candidate = None
  BY LineTypes DEF Control
<1>3. c.candidate # None /\ l.timestamp >= c.candidate + 2
  BY ClosingLine
<1>4. Disrupted(l.src, c.low, c.highReceived, c.candidate)
  BY <1>3, ReadsTypes DEF StateOK
<1>5. PICK j \in Seen(l.src) : Log[j].received = c.highReceived /\ Log[j].timestamp = c.candidate
  BY <1>4 DEF Disrupted, Ending
<1>6. j \in Seen(l.src)' /\ p \in Seen(l.src)' /\ Log' = Log /\ Log[p] = l
  BY Grown, LineTypes
<1>7. g.src = l.src /\ g.high = c.highReceived
  BY DEF Gap
<1> HIDE DEF d, g
<1>8. l.timestamp > c.candidate
  BY <1>3, LineTypes
<1>9. Behind(g, j, p)'
  BY <1>1, <1>2, <1>3, <1>5, <1>6, <1>7, <1>8 DEF Behind
<1> QED  BY <1>1, <1>2, <1>6, <1>7, <1>9 DEF g

LEMMA BehindRead ==
  ASSUME Similar, NEW p, NEW c, NEW l, Reads(p, c, l), Transition(c, l), BehindOK
  PROVE  BehindOK'
<1>1. Log' = Log
  BY ReadsTypes
<1>2. CASE gaps' = gaps
  BY <1>1, <1>2, StaysBehind DEF BehindOK, GapsDisjoint, ToSet
<1>3. CASE Closes(c, l)
  <2> DEFINE new == Gap(c, l.src)
             n == Len(gaps) + 1
  <2>1. gaps' = Append(gaps, new) /\ new.src = l.src /\ new.low = c.low
    BY <1>3 DEF Closes, Gap
  <2>2. control'[new.src].lowReceived # None /\ \E w, z \in Seen(new.src)' : Behind(new, w, z)'
    BY <1>3, LeavesBehind
  <2> HIDE DEF new
  <2>3. /\ ToSet(gaps)' = ToSet(gaps) \cup {new} /\ DOMAIN gaps' = 1..n /\ DOMAIN gaps = 1..(n - 1)
        /\ n \in Nat /\ gaps'[n] = new /\ \A j \in DOMAIN gaps : gaps'[j] = gaps[j]
    <3>1. gaps \in Seq(ToSet(gaps))
      BY DEF Reads, ReadOK
    <3>2. gaps' = Append(gaps, new)
      BY <2>1
    <3>3. ToSet(gaps') = ToSet(gaps) \cup {new} /\ Len(gaps) \in Nat
      BY <3>1, <3>2, Appended
    <3>4. /\ DOMAIN gaps = 1..Len(gaps) /\ DOMAIN gaps' = 1..(Len(gaps) + 1)
          /\ gaps'[Len(gaps) + 1] = new /\ \A j \in DOMAIN gaps : gaps'[j] = gaps[j]
      BY <3>1, <3>2, Appended
    <3>5. n \in Nat /\ n - 1 = Len(gaps)
      BY <3>3
    <3> QED  BY <3>3, <3>4, <3>5
  <2> HIDE DEF n
  <2>4. ASSUME NEW g \in ToSet(gaps)'
        PROVE  control'[g.src].lowReceived # None /\ \E w, z \in Seen(g.src)' : Behind(g, w, z)'
    BY <2>2, <2>3, StaysBehind
  <2>5. ASSUME NEW j \in DOMAIN gaps, gaps[j].src = new.src
        PROVE  \E e \in ToSet(Log) : /\ e.src = gaps[j].src /\ e.received = gaps[j].high
                                      /\ e.timestamp < new.low
    <3>1. gaps[j] \in ToSet(gaps)
      BY DEF ToSet
    <3>2. PICK w \in Seen(gaps[j].src), z \in Seen(gaps[j].src) : Behind(gaps[j], w, z)
      BY <3>1 DEF BehindOK
    <3>3. Log[w].received = gaps[j].high /\ control[gaps[j].src].low > Log[w].timestamp
      BY <3>2 DEF Behind
    <3>4. control[gaps[j].src].low = new.low
      BY <2>1, <2>5 DEF Reads
    <3>5. Log[w].src = gaps[j].src /\ w \in DOMAIN Log
      <4>1. w \in 1..(pos - 1) /\ pos \in 1..Len(Log) /\ Len(Log) \in Nat /\ DOMAIN Log = 1..Len(Log)
        BY ReadsTypes DEF Seen
      <4> QED  BY <4>1 DEF Seen
    <3>6. Log[w] \in ToSet(Log)
      BY <3>5 DEF ToSet
    <3>7. Log[w].timestamp < new.low
      <4>1. Log[w].timestamp \in Nat /\ c.low \in Nat
        <5>1. Log[w] \in Line
          BY <3>5, ReadsTypes
        <5> QED  BY <5>1, LineTypes DEF Line
      <4> QED  BY <2>1, <3>3, <3>4, <4>1
    <3> QED  BY <3>3, <3>5, <3>6, <3>7
  <2>6. ASSUME NEW j \in DOMAIN gaps', NEW k \in DOMAIN gaps', j < k, gaps'[j].src = gaps'[k].src
        PROVE  \E e \in ToSet(Log) : /\ e.src = gaps'[j].src /\ e.received = gaps'[j].high
                                      /\ e.timestamp < gaps'[k].low
    <3>1. j \in DOMAIN gaps /\ gaps'[j] = gaps[j]
      BY <2>3, <2>6
    <3>2. CASE k = n
      BY <2>3, <2>5, <2>6, <3>1, <3>2
    <3>3. CASE k \in DOMAIN gaps
      <4>1. gaps'[k] = gaps[k]
        BY <2>3, <3>3
      <4> QED  BY <2>6, <3>1, <3>3, <4>1 DEF BehindOK, GapsDisjoint
    <3> QED  BY <2>3, <3>2, <3>3
  <2>7. GapsDisjoint'
    BY <1>1, <2>6 DEF GapsDisjoint, ToSet
  <2> QED  BY <2>4, <2>7 DEF BehindOK
<1> QED  BY <1>2, <1>3, TransitionGaps

LEMMA BehindNext ==
  Similar => (UdpInv /\ BehindOK /\ [Next]_vars => BehindOK')
<1> SUFFICES ASSUME Similar, UdpInv, BehindOK, [Next]_vars PROVE BehindOK'
  OBVIOUS
<1>1. Fresh' => BehindOK'
  BY FreshOK, PTL
<1>2. CASE Send \/ (\E p \in flight : Receive(p)) \/ Drain
  BY <1>1, <1>2, SimulationStep
<1>3. CASE ReadLine
  <2>1. PICK p, c, l : Reads(p, c, l) /\ Transition(c, l)
    BY <1>3, LineRead DEF UdpInv
  <2> QED  BY <2>1, BehindRead
<1>4. CASE NextLog
  BY <1>1, <1>4 DEF NextLog, Fresh
<1>5. CASE EndLog \/ FileGap \/ SkipGap \/ Converge \/ Report \/ UNCHANGED vars
  <2>1. UNCHANGED <<logs, dir, pos, control, gaps>>
    BY <1>5 DEF EndLog, FileGap, SkipGap, Converge, Report, vars, parserVars
  <2> QED  BY <2>1, Still
<1> QED  BY <1>2, <1>3, <1>4, <1>5 DEF Next, ParserNext

\* As long as no path is slower than another by four packets or more, the gaps
\* that udp_parser.py finds of a source are disjoint and in order: a packet
\* that was sent before a gap begins had ended the gap before.
THEOREM GapsOfASourceDisjoint ==
  ASSUME \A a, b \in Delays : a - b < 4
  PROVE  Spec => []GapsDisjoint
<1>1. Similar
  BY DEF Similar
<1>2. Init => BehindOK
  BY UdpInvInit, FreshOK
<1>3. UdpInv /\ BehindOK /\ [Next]_vars => BehindOK'
  BY <1>1, BehindNext
<1>4. BehindOK => GapsDisjoint
  BY DEF BehindOK
<1> QED  BY <1>2, <1>3, <1>4, UdpInvAlways, PTL DEF Spec

-----------------------------------------------------------------------------
(* The lines of one source                                                 *)

\* s are the elements of src among the first n of q; e says where they are.
Picks(e, s, q, src, n) ==
  /\ \A x \in DOMAIN s : e[x] \in 1..n /\ s[x] = q[e[x]] /\ q[e[x]].src = src
  /\ \A x, y \in DOMAIN s : x < y => e[x] < e[y]
  /\ \A p \in 1..n : q[p].src = src => \E x \in DOMAIN s : e[x] = p

\* f is the recursion of From over the first n elements of q.
Selects(f, q, src, n) ==
  f = [k \in 0..n |-> IF k = 0 THEN <<>>
                      ELSE IF q[k].src = src THEN Append(f[k - 1], q[k]) ELSE f[k - 1]]

\* The recursion has a solution for every number of elements.
LEMMA SomeSelects ==
  ASSUME NEW q, NEW src, NEW n \in Nat
  PROVE  \E f : Selects(f, q, src, n)
<1> DEFINE B == {k \in Nat : ~\E f : Selects(f, q, src, k)}
<1>1. SUFFICES ASSUME B # {} PROVE FALSE
  OBVIOUS
<1>2. PICK k \in B : \A j \in B : k <= j
  <2>1. B \in SUBSET Nat
    OBVIOUS
  <2> HIDE DEF B
  <2> QED  BY <1>1, <2>1, LeastElement
<1>3. k \in Nat /\ ~\E f : Selects(f, q, src, k)
  OBVIOUS
<1>4. k # 0
  <2>1. Selects([j \in 0..0 |-> <<>>], q, src, 0)
    BY DEF Selects
  <2> QED  BY <1>3, <2>1
<1>5. PICK g : Selects(g, q, src, k - 1)
  <2>1. k - 1 \in Nat /\ k - 1 < k
    BY <1>3, <1>4
  <2>2. k - 1 \notin B
    <3> HIDE DEF B
    <3> QED  BY <1>2, <1>3, <2>1
  <2> QED  BY <2>1, <2>2
<1> HIDE DEF B
<1> DEFINE h == [j \in 0..k |-> IF j = 0 THEN <<>>
                                ELSE IF q[j].src = src THEN Append(g[j - 1], q[j]) ELSE g[j - 1]]
<1>6. \A j \in 0..(k - 1) : h[j] = g[j]
  <2>1. \A j \in 0..(k - 1) : j \in 0..k
    BY <1>3
  <2> QED  BY <1>5, <2>1 DEF Selects
<1>7. \A j \in 0..k : j # 0 => h[j - 1] = g[j - 1]
  <2>1. \A j \in 0..k : j # 0 => j - 1 \in 0..(k - 1)
    BY <1>3
  <2> QED  BY <1>6, <2>1
<1>8. Selects(h, q, src, k)
  BY <1>7 DEF Selects
<1> QED  BY <1>3, <1>8

\* One element more.
LEMMA PicksMore ==
  ASSUME NEW S, NEW s \in Seq(S), NEW q, NEW src, NEW n \in Nat \ {0},
         NEW e, Picks(e, s, q, src, n - 1)
  PROVE  /\ q[n].src # src => Picks(e, s, q, src, n)
         /\ q[n].src = src => \E g : Picks(g, Append(s, q[n]), q, src, n)
<1>1. \A p \in 1..n : p \in 1..(n - 1) \/ p = n
  OBVIOUS
<1>2. \A p \in 1..(n - 1) : p \in 1..n /\ p < n
  OBVIOUS
<1>3. ASSUME q[n].src # src PROVE Picks(e, s, q, src, n)
  BY <1>1, <1>2, <1>3 DEF Picks
<1>4. ASSUME q[n].src = src PROVE \E g : Picks(g, Append(s, q[n]), q, src, n)
  <2> DEFINE m == Len(s) + 1
             t == Append(s, q[n])
             g == [x \in 1..m |-> IF x = m THEN n ELSE e[x]]
  <2>1. /\ Len(s) \in Nat /\ DOMAIN s = 1..Len(s) /\ DOMAIN t = 1..m /\ t[m] = q[n]
        /\ \A x \in DOMAIN s : t[x] = s[x]
    <3>1. q[n] \in S \cup {q[n]} /\ s \in Seq(S \cup {q[n]})
      <4>1. \A x \in 1..Len(s) : s[x] \in S \cup {q[n]}
        OBVIOUS
      <4> QED  BY <4>1
    <3> QED  BY <3>1
  <2> HIDE DEF t
  <2>2. \A x \in 1..m : x = m \/ (x \in DOMAIN s /\ x < m)
    BY <2>1
  <2>3. m \in 1..m /\ \A x \in DOMAIN s : x \in 1..m /\ x # m
    BY <2>1
  <2>4. g[m] = n /\ \A x \in DOMAIN s : g[x] = e[x]
    BY <2>3
  <2> HIDE DEF g
  <2>5. \A x \in DOMAIN t : g[x] \in 1..n /\ t[x] = q[g[x]] /\ q[g[x]].src = src
    <3>1. n \in 1..n
      OBVIOUS
    <3>2. \A x \in DOMAIN s : g[x] \in 1..n /\ t[x] = q[g[x]] /\ q[g[x]].src = src
      BY <1>2, <2>1, <2>4 DEF Picks
    <3>3. g[m] \in 1..n /\ t[m] = q[g[m]] /\ q[g[m]].src = src
      BY <1>4, <2>1, <2>4, <3>1
    <3> HIDE DEF m
    <3> QED  BY <2>1, <2>2, <3>2, <3>3
  <2>6. ASSUME NEW x \in DOMAIN t, NEW y \in DOMAIN t, x < y PROVE g[x] < g[y]
    <3>1. x \in DOMAIN s
      BY <2>1, <2>2, <2>6
    <3>2. CASE y = m
      <4>1. g[x] \in 1..(n - 1)
        BY <2>4, <3>1 DEF Picks
      <4> QED  BY <1>2, <2>4, <3>2, <4>1
    <3>3. CASE y \in DOMAIN s
      BY <2>4, <2>6, <3>1, <3>3 DEF Picks
    <3> QED  BY <2>1, <2>2, <3>2, <3>3
  <2>7. \A p \in 1..n : q[p].src = src => \E x \in DOMAIN t : g[x] = p
    <3>1. \A p \in 1..(n - 1) : q[p].src = src => \E x \in DOMAIN s : e[x] = p
      BY DEF Picks
    <3>2. \A x \in DOMAIN s : x \in DOMAIN t
      BY <2>1, <2>3
    <3>3. m \in DOMAIN t
      BY <2>1, <2>3
    <3> HIDE DEF m
    <3>4. ASSUME NEW p \in 1..n, q[p].src = src PROVE \E x \in DOMAIN t : g[x] = p
      <4>1. CASE p = n
        BY <2>4, <3>3, <4>1
      <4>2. CASE p \in 1..(n - 1)
        BY <2>4, <3>1, <3>2, <3>4, <4>2
      <4> QED  BY <1>1, <4>1, <4>2
    <3> QED  BY <3>4
  <2>8. Picks(g, t, q, src, n)
    BY <2>5, <2>6, <2>7 DEF Picks
  <2> QED  BY <2>8 DEF t
<1> QED  BY <1>3, <1>4

\* From keeps the elements of a source, all of them, in their order.
LEMMA Selected ==
  ASSUME NEW S, NEW q \in Seq(S), NEW src
  PROVE  From(q, src) \in Seq(S) /\ \E e : Picks(e, From(q, src), q, src, Len(q))
<1> DEFINE n == Len(q)
           f == CHOOSE g : Selects(g, q, src, n)
           Good(k) == f[k] \in Seq(S) /\ \E e : Picks(e, f[k], q, src, k)
           B == {k \in 0..n : ~Good(k)}
<1>1. n \in Nat /\ DOMAIN q = 1..n
  OBVIOUS
<1>2. From(q, src) = f[n]
  BY DEF From, Selects
<1>3. Selects(f, q, src, n)
  BY <1>1, SomeSelects
<1> HIDE DEF f
<1>4. /\ f[0] = <<>>
      /\ \A k \in 1..n : f[k] = IF q[k].src = src THEN Append(f[k - 1], q[k]) ELSE f[k - 1]
  <2>1. 0 \in 0..n /\ \A k \in 1..n : k \in 0..n /\ k # 0
    BY <1>1
  <2> HIDE DEF n
  <2> QED  BY <1>3, <2>1 DEF Selects
<1>5. Good(0)
  <2>1. Picks(<<>>, <<>>, q, src, 0)
    BY DEF Picks
  <2> QED  BY <1>4, <2>1
<1>6. ASSUME NEW k \in 1..n, Good(k - 1) PROVE Good(k)
  <2>1. PICK e : Picks(e, f[k - 1], q, src, k - 1)
    BY <1>6
  <2>2. f[k - 1] \in Seq(S) /\ q[k] \in S /\ k \in Nat \ {0}
    BY <1>1, <1>6
  <2> DEFINE s == f[k - 1]
  <2> HIDE DEF s, n
  <2>3. /\ q[k].src # src => Picks(e, s, q, src, k)
        /\ q[k].src = src => \E g : Picks(g, Append(s, q[k]), q, src, k)
    BY <2>1, <2>2, PicksMore DEF s
  <2>4. q[k].src = src => f[k] = Append(s, q[k]) /\ f[k] \in Seq(S)
    <3>1. s \in Seq(S)
      BY <2>2 DEF s
    <3>2. Append(s, q[k]) \in Seq(S)
      BY <2>2, <3>1
    <3> QED  BY <1>4, <3>2 DEF s
  <2>5. q[k].src # src => f[k] = s /\ f[k] \in Seq(S)
    BY <1>4, <2>2 DEF s
  <2> QED  BY <2>3, <2>4, <2>5
<1>7. B = {}
  <2> SUFFICES ASSUME B # {} PROVE FALSE
    OBVIOUS
  <2>1. PICK k \in B : \A j \in B : k <= j
    <3>1. B \in SUBSET Nat
      BY <1>1
    <3> HIDE DEF B
    <3> QED  BY <3>1, LeastElement
  <2>2. k \in 0..n /\ ~Good(k)
    OBVIOUS
  <2>3. k \in 1..n
    BY <1>1, <1>5, <2>2
  <2>4. k - 1 \in 0..n /\ ~(k <= k - 1)
    BY <1>1, <2>3
  <2>5. Good(k - 1)
    BY <2>1, <2>4
  <2> QED  BY <1>6, <2>2, <2>3, <2>5
<1>8. Good(n)
  <2>1. n \in 0..n
    BY <1>1
  <2> QED  BY <1>7, <2>1
<1> QED  BY <1>2, <1>8

-----------------------------------------------------------------------------
(* A single outage                                                         *)

Measured(src, s, i) ==
  [src |-> src, low |-> s[i].timestamp, high |-> s[i + 1].received,
   width |-> s[i + 1].received - s[i].received]

\* The last line that the confirmation takes, and the line that ends it.
Confirming(i) == i + 2 + Validate

\* c is the state of a source that has its outage after line i of s, when k
\* of its lines are read.
Phase(s, i, k, c) ==
  /\ k = 0 => c = Unknown
  /\ k \in 1..i => /\ c.low = s[k].timestamp /\ c.previous = None /\ c.candidate = None
                   /\ c.validate = Validate
                   /\ k > 1 => c.lowReceived = s[k].received
  /\ k \in (i + 1)..Confirming(i) =>
       /\ c.low = s[i].timestamp /\ c.lowReceived = s[i].received
       /\ c.previous = s[k].timestamp /\ c.previousReceived = s[k].received
  /\ k = i + 1 => c.candidate = None /\ c.validate = Validate
  /\ k \in (i + 2)..Confirming(i) =>
       /\ c.candidate = s[i + 1].timestamp /\ c.highReceived = s[i + 1].received
       /\ c.validate = Validate - (k - i - 2)
  /\ k > Confirming(i) => c.low = s[k].timestamp /\ c.previous = None

\* Line k + 1 of the source is read.
Advances(s, i, k, c, l) ==
  /\ s \in Seq(Line) /\ Outage(s, i) /\ k \in 0..(Len(s) - 1) /\ l = s[k + 1]
  /\ c \in Control /\ Phase(s, i, k, c) /\ Transition(c, l)

Advanced(src, s, i, k) ==
  /\ \E d : Keep(d) /\ Phase(s, i, k + 1, d)
  /\ k = Confirming(i) => gaps' = Append(gaps, Measured(src, s, i))
  /\ k # Confirming(i) => UNCHANGED gaps

LEMMA AdvanceTypes ==
  ASSUME NEW s, NEW i, NEW k, NEW c, NEW l, Advances(s, i, k, c, l)
  PROVE  /\ i \in Nat \ {0, 1} /\ k \in Nat /\ Validate \in Nat /\ Confirming(i) \in Nat
         /\ Confirming(i) = i + 2 + Validate
         /\ DOMAIN s = 1..Len(s) /\ Len(s) \in Nat
         /\ \A x \in 1..Len(s) : s[x].timestamp \in Nat \ {0} /\ s[x].received \in Nat \ {0}
         /\ k + 1 \in 1..Len(s) /\ k + 1 # 0 /\ (k # 0 => k \in 1..Len(s))
         /\ i \in 1..Len(s) /\ i + 1 \in 1..Len(s)
         /\ s[i + 1].timestamp > s[i].timestamp + 1
         /\ k # 0 /\ k # i => s[k + 1].timestamp = s[k].timestamp + 1
         /\ l.timestamp = s[k + 1].timestamp /\ l.received = s[k + 1].received
         /\ l.timestamp \in Nat \ {0} /\ l.received \in Nat \ {0}
<1>1. s \in Seq(Line) /\ Validate \in Nat
  BY UdpParserAssumption DEF Advances
<1>2. DOMAIN s = 1..Len(s) /\ Len(s) \in Nat /\ \A x \in 1..Len(s) : s[x] \in Line
  BY <1>1
<1>3. \A x \in 1..Len(s) : s[x].timestamp \in Nat \ {0} /\ s[x].received \in Nat \ {0}
  BY <1>2 DEF Line
<1>4. /\ i \in 2..(Len(s) - Validate - 3) /\ s[i + 1].timestamp > s[i].timestamp + 1
      /\ \A x \in 1..(Len(s) - 1) : x # i => s[x + 1].timestamp = s[x].timestamp + 1
      /\ k \in 0..(Len(s) - 1) /\ l = s[k + 1]
  BY DEF Advances, Outage
<1>5. /\ i \in Nat \ {0, 1} /\ k \in Nat /\ k + 1 \in 1..Len(s) /\ k + 1 # 0
      /\ (k # 0 => k \in 1..Len(s)) /\ i \in 1..Len(s) /\ i + 1 \in 1..Len(s)
      /\ (k # 0 => k \in 1..(Len(s) - 1))
  BY <1>1, <1>2, <1>4
<1>6. Confirming(i) = i + 2 + Validate /\ Confirming(i) \in Nat
  BY <1>1, <1>5 DEF Confirming
<1>7. k # 0 /\ k # i => s[k + 1].timestamp = s[k].timestamp + 1
  BY <1>4, <1>5
<1>8. /\ l.timestamp = s[k + 1].timestamp /\ l.received = s[k + 1].received
      /\ l.timestamp \in Nat \ {0} /\ l.received \in Nat \ {0}
  BY <1>3, <1>4, <1>5
<1> QED  BY <1>1, <1>2, <1>3, <1>4, <1>5, <1>6, <1>7, <1>8

LEMMA AdvanceNumbers ==
  ASSUME NEW s, NEW i, NEW k, NEW c, NEW l, Advances(s, i, k, c, l)
  PROVE  /\ i \in Nat \ {0, 1} /\ k \in Nat /\ Validate \in Nat
         /\ Confirming(i) = i + 2 + Validate
         /\ DOMAIN s = 1..Len(s) /\ (k # 0 => k \in 1..Len(s)) /\ i \in 1..Len(s) /\ i + 1 \in 1..Len(s)
BY AdvanceTypes

\* In order, but for the outage.
LEMMA AdvanceOrder ==
  ASSUME NEW s, NEW i, NEW k, NEW c, NEW l, Advances(s, i, k, c, l), k # 0
  PROVE  /\ k # i => l.timestamp - s[k].timestamp = 1
         /\ k = i => l.timestamp - s[k].timestamp # 1
         /\ s[k].timestamp # None /\ s[i].received # None /\ s[i + 1].timestamp # None
<1>1. /\ s[k].timestamp \in Nat \ {0} /\ s[i].received \in Nat \ {0}
      /\ s[i + 1].timestamp \in Nat \ {0}
  BY AdvanceTypes
<1>2. k # i => l.timestamp = s[k].timestamp + 1
  BY AdvanceTypes
<1>3. k = i => l.timestamp > s[k].timestamp + 1
  BY AdvanceTypes
<1>4. l.timestamp \in Nat
  BY AdvanceTypes
<1> QED  BY <1>1, <1>2, <1>3, <1>4 DEF None

\* Nothing has been read of the source.
LEMMA FirstLine ==
  ASSUME NEW src, NEW s, NEW i, NEW k, NEW c, NEW l, Advances(s, i, k, c, l), k = 0
  PROVE  Advanced(src, s, i, k)
<1>1. c = Unknown /\ c.previous = None
  BY DEF Advances, Phase, Unknown
<1>2. Start(c, l)
  BY <1>1 DEF Advances, Transition, Start, Continues, Opens, Proposes, Validates, Closes, Forgets,
              Breaks, Follows
<1> DEFINE d == [Unknown EXCEPT !.low = l.timestamp]
<1>3. Keep(d) /\ UNCHANGED gaps
  BY <1>1, <1>2 DEF Start
<1>4. /\ d.low = l.timestamp /\ d.previous = None /\ d.candidate = None /\ d.validate = Validate
  BY DEF Unknown
<1> HIDE DEF d
<1>5. /\ k # Confirming(i) /\ k + 1 # 0 /\ ~(k + 1 > 1) /\ ~(k + 1 \in (i + 1)..Confirming(i))
      /\ k + 1 # i + 1 /\ ~(k + 1 \in (i + 2)..Confirming(i)) /\ ~(k + 1 > Confirming(i))
  BY AdvanceNumbers
<1>6. Phase(s, i, k + 1, d)
  BY <1>4, <1>5, AdvanceTypes DEF Phase
<1> QED  BY <1>3, <1>5, <1>6 DEF Advanced

\* No gap is open, and the packet follows the last one.
LEMMA NextInOrder ==
  ASSUME NEW src, NEW s, NEW i, NEW k, NEW c, NEW l, Advances(s, i, k, c, l),
         k \in 1..(i - 1) \/ k > Confirming(i)
  PROVE  Advanced(src, s, i, k)
<1>1. /\ c.low = s[k].timestamp /\ c.previous = None
      /\ k \in 1..i => c.candidate = None /\ c.validate = Validate
  BY AdvanceTypes DEF Advances, Phase
<1>2. k # 0 /\ k # i /\ k # Confirming(i)
  BY AdvanceTypes
<1>3. l.timestamp - c.low = 1 /\ c.low # None
  BY <1>1, <1>2, AdvanceOrder
<1>4. c # Unknown
  BY <1>3 DEF Unknown
<1>5. Continues(c, l)
  BY <1>1, <1>3, <1>4 DEF Advances, Transition, Start, Continues, Opens, Proposes, Validates,
                           Closes, Forgets, Breaks, Follows
<1> DEFINE d == [c EXCEPT !.low = l.timestamp, !.lowReceived = l.received]
<1>6. Keep(d) /\ UNCHANGED gaps
  BY <1>5 DEF Continues
<1>7. /\ d.low = l.timestamp /\ d.lowReceived = l.received /\ d.previous = c.previous
      /\ d.candidate = c.candidate /\ d.validate = c.validate
  <2>1. c \in Control
    BY DEF Advances
  <2> QED  BY <2>1 DEF Control
<1> HIDE DEF d
<1>8. /\ k \in 1..(i - 1) => k + 1 \in 1..i /\ k + 1 <= Confirming(i)
      /\ k > Confirming(i) => k + 1 > Confirming(i) /\ ~(k + 1 \in 1..i)
      /\ ~(k + 1 \in (i + 1)..Confirming(i)) /\ k + 1 # i + 1
      /\ ~(k + 1 \in (i + 2)..Confirming(i)) /\ k + 1 # 0 /\ k \in 1..(i - 1) => k \in 1..i
  BY AdvanceTypes
<1>9. Phase(s, i, k + 1, d)
  BY <1>1, <1>7, <1>8, AdvanceTypes DEF Phase
<1> QED  BY <1>2, <1>6, <1>9 DEF Advanced

\* The first packet after the outage.
LEMMA OutageOpens ==
  ASSUME NEW src, NEW s, NEW i, NEW k, NEW c, NEW l, Advances(s, i, k, c, l), k = i
  PROVE  Advanced(src, s, i, k)
<1>1. /\ k \in 1..i /\ k > 1 /\ k # Confirming(i)
  BY AdvanceTypes
<1>2. /\ c.low = s[i].timestamp /\ c.lowReceived = s[i].received /\ c.previous = None
      /\ c.candidate = None /\ c.validate = Validate
  BY <1>1 DEF Advances, Phase
<1>3. l.timestamp - c.low # 1 /\ c.low # None
  BY <1>1, <1>2, AdvanceOrder
<1>4. c # Unknown
  BY <1>3 DEF Unknown
<1>5. Opens(c, l)
  BY <1>2, <1>3, <1>4 DEF Advances, Transition, Start, Continues, Opens, Proposes, Validates,
                           Closes, Forgets, Breaks, Follows
<1> DEFINE d == Step(c, l)
<1>6. Keep(d) /\ UNCHANGED gaps
  BY <1>5 DEF Opens
<1>7. /\ d.low = c.low /\ d.lowReceived = c.lowReceived /\ d.previous = l.timestamp
      /\ d.previousReceived = l.received /\ d.candidate = c.candidate /\ d.validate = c.validate
  <2>1. c \in Control
    BY DEF Advances
  <2> QED  BY <2>1 DEF Control, Step
<1> HIDE DEF d
<1>8. /\ k + 1 # 0 /\ ~(k + 1 \in 1..i) /\ ~(k + 1 \in (i + 2)..Confirming(i))
      /\ ~(k + 1 > Confirming(i))
  BY AdvanceTypes
<1>9. Phase(s, i, k + 1, d)
  BY <1>2, <1>7, <1>8, AdvanceTypes DEF Phase
<1> QED  BY <1>1, <1>6, <1>9 DEF Advanced

\* The second one makes the first the end of the gap.
LEMMA OutageEnds ==
  ASSUME NEW src, NEW s, NEW i, NEW k, NEW c, NEW l, Advances(s, i, k, c, l), k = i + 1
  PROVE  Advanced(src, s, i, k)
<1>1. /\ k # 0 /\ k # i /\ k # Confirming(i) /\ k \in (i + 1)..Confirming(i) /\ k \in 1..Len(s)
  BY AdvanceTypes
<1>2. /\ c.low = s[i].timestamp /\ c.lowReceived = s[i].received
      /\ c.previous = s[i + 1].timestamp /\ c.previousReceived = s[i + 1].received
      /\ c.candidate = None /\ c.validate = Validate
  BY <1>1 DEF Advances, Phase
<1>3. l.timestamp - c.previous = 1 /\ c.previous # None
  BY <1>1, <1>2, AdvanceOrder
<1>4. c # Unknown
  BY <1>3 DEF Unknown
<1>5. Proposes(c, l)
  BY <1>2, <1>3, <1>4 DEF Advances, Transition, Start, Continues, Opens, Proposes, Validates,
                           Closes, Forgets, Breaks, Follows
<1> DEFINE d == [Step(c, l) EXCEPT !.candidate = c.previous, !.highReceived = c.previousReceived]
<1>6. Keep(d) /\ UNCHANGED gaps
  BY <1>5 DEF Proposes
<1>7. /\ d.low = c.low /\ d.lowReceived = c.lowReceived /\ d.previous = l.timestamp
      /\ d.previousReceived = l.received /\ d.candidate = c.previous
      /\ d.highReceived = c.previousReceived /\ d.validate = c.validate
  <2>1. c \in Control
    BY DEF Advances
  <2> QED  BY <2>1 DEF Control, Step
<1> HIDE DEF d
<1>8. /\ k + 1 # 0 /\ ~(k + 1 \in 1..i) /\ k + 1 # i + 1 /\ ~(k + 1 > Confirming(i))
      /\ Validate - ((k + 1) - i - 2) = Validate
  BY AdvanceNumbers
<1>9. Phase(s, i, k + 1, d)
  BY <1>2, <1>7, <1>8, AdvanceTypes DEF Phase
<1> QED  BY <1>1, <1>6, <1>9 DEF Advanced

\* The following ones confirm it.
LEMMA OutageConfirmed ==
  ASSUME NEW src, NEW s, NEW i, NEW k, NEW c, NEW l, Advances(s, i, k, c, l),
         k \in (i + 2)..(Confirming(i) - 1)
  PROVE  Advanced(src, s, i, k)
<1>1. /\ k # 0 /\ k # i /\ k # Confirming(i) /\ k \in (i + 1)..Confirming(i)
      /\ k \in (i + 2)..Confirming(i) /\ k \in 1..Len(s)
  BY AdvanceTypes
<1>2. /\ c.low = s[i].timestamp /\ c.lowReceived = s[i].received
      /\ c.previous = s[k].timestamp
      /\ c.candidate = s[i + 1].timestamp /\ c.highReceived = s[i + 1].received
      /\ c.validate = Validate - (k - i - 2)
  BY <1>1 DEF Advances, Phase
<1>3. l.timestamp - c.previous = 1 /\ c.previous # None /\ c.candidate # None /\ c.validate # 0
  <2>1. Validate - (k - i - 2) # 0
    BY AdvanceNumbers
  <2> QED  BY <1>1, <1>2, <2>1, AdvanceOrder
<1>4. c # Unknown
  BY <1>3 DEF Unknown
<1>5. Validates(c, l)
  BY <1>3, <1>4 DEF Advances, Transition, Start, Continues, Opens, Proposes, Validates,
                     Closes, Forgets, Breaks, Follows
<1> DEFINE d == [Step(c, l) EXCEPT !.validate = @ - 1]
<1>6. Keep(d) /\ UNCHANGED gaps
  BY <1>5 DEF Validates
<1>7. /\ d.low = c.low /\ d.lowReceived = c.lowReceived /\ d.previous = l.timestamp
      /\ d.previousReceived = l.received /\ d.candidate = c.candidate
      /\ d.highReceived = c.highReceived /\ d.validate = c.validate - 1
  <2>1. c \in Control
    BY DEF Advances
  <2> QED  BY <2>1 DEF Control, Step
<1> HIDE DEF d
<1>8. /\ k + 1 # 0 /\ ~(k + 1 \in 1..i) /\ k + 1 # i + 1 /\ ~(k + 1 > Confirming(i))
      /\ (Validate - (k - i - 2)) - 1 = Validate - ((k + 1) - i - 2)
  BY AdvanceNumbers
<1>9. d.validate = Validate - ((k + 1) - i - 2)
  BY <1>2, <1>7, <1>8
<1>10. l.timestamp = s[k + 1].timestamp /\ l.received = s[k + 1].received
  BY AdvanceTypes
<1>11. Phase(s, i, k + 1, d)
  BY <1>2, <1>7, <1>8, <1>9, <1>10 DEF Phase
<1> QED  BY <1>1, <1>6, <1>11 DEF Advanced

\* The last one closes the gap.
LEMMA OutageCloses ==
  ASSUME NEW s, NEW i, NEW k, NEW c, NEW l, Advances(s, i, k, c, l), k = Confirming(i)
  PROVE  Advanced(l.src, s, i, k)
<1>1. /\ k # 0 /\ k # i /\ k \in (i + 1)..Confirming(i) /\ k \in (i + 2)..Confirming(i)
      /\ k \in 1..Len(s) /\ Validate - (k - i - 2) = 0
  BY AdvanceNumbers
<1>2. /\ c.low = s[i].timestamp /\ c.lowReceived = s[i].received
      /\ c.previous = s[k].timestamp
      /\ c.candidate = s[i + 1].timestamp /\ c.highReceived = s[i + 1].received
      /\ c.validate = 0
  BY <1>1 DEF Advances, Phase
<1>3. /\ l.timestamp - c.previous = 1 /\ c.previous # None /\ c.candidate # None
      /\ c.lowReceived # None
  BY <1>1, <1>2, AdvanceOrder
<1>4. c # Unknown
  BY <1>3 DEF Unknown
<1>5. Closes(c, l)
  BY <1>2, <1>3, <1>4 DEF Advances, Transition, Start, Continues, Opens, Proposes, Validates,
                           Closes, Forgets, Breaks, Follows
<1> DEFINE d == [c EXCEPT !.candidate = None, !.highReceived = None, !.previous = None,
                          !.validate = Validate, !.low = l.timestamp, !.lowReceived = l.received]
<1>6. Keep(d) /\ gaps' = Append(gaps, Gap(c, l.src))
  BY <1>5 DEF Closes
<1>7. d.low = l.timestamp /\ d.previous = None
  <2>1. c \in Control
    BY DEF Advances
  <2> QED  BY <2>1 DEF Control
<1> HIDE DEF d
<1>8. /\ k + 1 # 0 /\ ~(k + 1 \in 1..i) /\ k + 1 # i + 1 /\ k + 1 > Confirming(i)
      /\ ~(k + 1 \in (i + 1)..Confirming(i)) /\ ~(k + 1 \in (i + 2)..Confirming(i))
  BY AdvanceTypes
<1>9. Phase(s, i, k + 1, d)
  BY <1>7, <1>8, AdvanceTypes DEF Phase
<1>10. Gap(c, l.src) = Measured(l.src, s, i)
  BY <1>2 DEF Gap, Measured
<1> QED  BY <1>6, <1>9, <1>10 DEF Advanced

LEMMA LineAdvances ==
  ASSUME NEW s, NEW i, NEW k, NEW c, NEW l, Advances(s, i, k, c, l)
  PROVE  Advanced(l.src, s, i, k)
<1>1. \/ k = 0 \/ k \in 1..(i - 1) \/ k > Confirming(i) \/ k = i \/ k = i + 1
      \/ k \in (i + 2)..(Confirming(i) - 1) \/ k = Confirming(i)
  BY AdvanceTypes
<1> QED
  BY <1>1, FirstLine, NextInOrder, OutageOpens, OutageEnds, OutageConfirmed, OutageCloses

-----------------------------------------------------------------------------
(* What has been found of an outage                                        *)

NoGap(src) == \A j \in DOMAIN gaps : gaps[j].src # src

OneGap(src, g) ==
  \E j \in DOMAIN gaps : gaps[j] = g /\ \A m \in DOMAIN gaps : gaps[m].src = src => m = j

\* k lines of s have been read.
ReadUpTo(s, e, k) == k \in 0..Len(s) /\ \A x \in DOMAIN s : e[x] < pos <=> x <= k

Tracked(src, s, e, i) == \E k \in 0..Len(s) :
  /\ ReadUpTo(s, e, k) /\ Phase(s, i, k, control[src])
  /\ k <= Confirming(i) => NoGap(src)
  /\ k > Confirming(i) => OneGap(src, Measured(src, s, i))

\* s are the lines of src, at the positions e, with an outage after line i.
Suffers(src, s, e, i) ==
  src \in Sources /\ s \in Seq(Line) /\ Picks(e, s, Log, src, Len(Log)) /\ Outage(s, i)

\* Each source with a single outage is where its lines have brought it, and
\* the gaps are looked at when all lines are read.
MeasureOK == dir \in DOMAIN logs =>
  /\ fitting > 0 => pos > Len(Log)
  /\ \A src, s, e, i : Suffers(src, s, e, i) => Tracked(src, s, e, i)

LEMMA FreshMeasured ==
  Fresh => MeasureOK
<1> SUFFICES ASSUME Fresh, dir \in DOMAIN logs,
                    NEW src, NEW s, NEW e, NEW i, Suffers(src, s, e, i)
             PROVE  Tracked(src, s, e, i)
  BY DEF MeasureOK, Fresh
<1>1. Len(s) \in Nat /\ DOMAIN s = 1..Len(s) /\ src \in Sources
  BY DEF Suffers
<1>2. ReadUpTo(s, e, 0)
  <2>1. \A x \in DOMAIN s : e[x] \in 1..Len(Log)
    BY DEF Suffers, Picks
  <2>2. \A x \in DOMAIN s : ~(e[x] < 1) /\ ~(x <= 0)
    BY <1>1, <2>1
  <2> QED  BY <1>1, <2>2 DEF ReadUpTo, Fresh
<1>3. i \in Nat /\ i > 0 /\ Confirming(i) \in Nat /\ Validate \in Nat /\ Confirming(i) = i + 2 + Validate
  <2>1. Validate \in Nat
    BY UdpParserAssumption
  <2>2. i \in 2..(Len(s) - Validate - 3)
    BY DEF Suffers, Outage
  <2> QED  BY <1>1, <2>1, <2>2 DEF Confirming
<1>4. Phase(s, i, 0, control[src])
  <2>1. control[src] = Unknown
    BY <1>1 DEF Fresh
  <2>2. /\ ~(0 \in 1..i) /\ ~(0 \in (i + 1)..Confirming(i)) /\ 0 # i + 1
        /\ ~(0 \in (i + 2)..Confirming(i)) /\ ~(0 > Confirming(i))
    BY <1>3
  <2> QED  BY <2>1, <2>2 DEF Phase
<1>5. NoGap(src)
  BY DEF NoGap, Fresh
<1> QED  BY <1>1, <1>2, <1>3, <1>4, <1>5 DEF Tracked

\* A line of another source.
LEMMA OtherTracked ==
  ASSUME NEW p, NEW c, NEW l, Reads(p, c, l), Transition(c, l),
         NEW src, NEW s, NEW e, NEW i, Suffers(src, s, e, i), Tracked(src, s, e, i), src # l.src
  PROVE  Tracked(src, s, e, i)'
<1>1. PICK k \in 0..Len(s) :
        /\ ReadUpTo(s, e, k) /\ Phase(s, i, k, control[src])
        /\ k <= Confirming(i) => NoGap(src)
        /\ k > Confirming(i) => OneGap(src, Measured(src, s, i))
  BY DEF Tracked
<1>2. pos \in Nat /\ pos' = pos + 1 /\ Log[pos] = l
  BY ReadsTypes DEF Reads
<1>3. ReadUpTo(s, e, k)'
  <2>1. ASSUME NEW x \in DOMAIN s PROVE e[x] < pos' <=> x <= k
    <3>1. e[x] \in 1..Len(Log) /\ Log[e[x]].src = src
      BY DEF Suffers, Picks
    <3>2. e[x] # pos /\ e[x] \in Nat
      BY <1>2, <3>1
    <3>3. e[x] < pos <=> x <= k
      BY <1>1 DEF ReadUpTo
    <3> QED  BY <1>2, <3>2, <3>3
  <2> QED  BY <2>1 DEF ReadUpTo
<1>4. control'[src] = control[src]
  <2>1. control \in [Sources -> Control] /\ src \in Sources
    BY DEF Reads, ReadOK, SourcesOK, Suffers
  <2>2. \E d : Keep(d)
    BY DEF Transition, Start, Continues, Opens, Proposes, Validates, Closes, Forgets, Breaks
  <2>3. Log[pos].src = l.src
    BY <1>2
  <2> QED  BY <2>1, <2>2, <2>3 DEF Keep
<1>5. \/ gaps' = gaps
      \/ \E g : g.src = l.src /\ gaps' = Append(gaps, g)
  <2>1. Gap(c, l.src).src = l.src
    BY DEF Gap
  <2> QED  BY <2>1, TransitionGaps DEF Closes
<1>6. (NoGap(src) => NoGap(src)') /\ \A g : OneGap(src, g) => OneGap(src, g)'
  <2>1. CASE gaps' = gaps
    BY <2>1 DEF NoGap, OneGap
  <2>2. ASSUME NEW g, g.src = l.src, gaps' = Append(gaps, g)
        PROVE  (NoGap(src) => NoGap(src)') /\ \A h : OneGap(src, h) => OneGap(src, h)'
    <3>1. gaps \in Seq(ToSet(gaps))
      BY DEF Reads, ReadOK
    <3>2. /\ DOMAIN gaps = 1..Len(gaps) /\ Len(gaps) \in Nat /\ DOMAIN gaps' = 1..(Len(gaps) + 1)
          /\ gaps'[Len(gaps) + 1] = g /\ \A j \in DOMAIN gaps : gaps'[j] = gaps[j]
      BY <2>2, <3>1, Appended
    <3>3. \A j \in DOMAIN gaps' : j \in DOMAIN gaps \/ gaps'[j].src # src
      <4>1. \A j \in 1..(Len(gaps) + 1) : j \in 1..Len(gaps) \/ j = Len(gaps) + 1
        BY <3>2
      <4> QED  BY <2>2, <3>2, <4>1
    <3>4. \A j \in DOMAIN gaps : j \in DOMAIN gaps'
      BY <3>2
    <3> QED  BY <3>2, <3>3, <3>4 DEF NoGap, OneGap
  <2> QED  BY <1>5, <2>1, <2>2
<1>7. Phase(s, i, k, control[src])'
  BY <1>1, <1>4 DEF Phase
<1> QED  BY <1>1, <1>3, <1>6, <1>7 DEF Tracked, Measured

\* The next line of the source itself.
LEMMA OwnTracked ==
  ASSUME NEW p, NEW c, NEW l, Reads(p, c, l), Transition(c, l),
         NEW s, NEW e, NEW i, Suffers(l.src, s, e, i), Tracked(l.src, s, e, i)
  PROVE  Tracked(l.src, s, e, i)'
<1>1. PICK k \in 0..Len(s) :
        /\ ReadUpTo(s, e, k) /\ Phase(s, i, k, control[l.src])
        /\ k <= Confirming(i) => NoGap(l.src)
        /\ k > Confirming(i) => OneGap(l.src, Measured(l.src, s, i))
  BY DEF Tracked
<1>2. /\ pos \in Nat /\ pos' = pos + 1 /\ Log[pos] = l /\ c = control[l.src] /\ c \in Control
      /\ pos \in 1..Len(Log)
  BY ReadsTypes DEF Reads
<1>3. /\ s \in Seq(Line) /\ DOMAIN s = 1..Len(s) /\ Len(s) \in Nat
      /\ \A x \in DOMAIN s : e[x] \in Nat /\ s[x] = Log[e[x]]
      /\ \A x, y \in DOMAIN s : x < y => e[x] < e[y]
      /\ \A x \in DOMAIN s : e[x] < pos <=> x <= k
  BY <1>1 DEF Suffers, Picks, ReadUpTo
<1>4. PICK z \in DOMAIN s : e[z] = pos
  BY <1>2 DEF Suffers, Picks
<1>5. z = k + 1
  <2>1. ~(z <= k)
    BY <1>2, <1>3, <1>4
  <2>2. k + 1 \in DOMAIN s /\ ~(k + 1 <= k)
    BY <1>3, <2>1
  <2>3. ~(e[k + 1] < e[z])
    BY <1>3, <1>4, <2>2
  <2>4. ~(k + 1 < z)
    BY <1>3, <2>2, <2>3
  <2> QED  BY <1>3, <2>1, <2>4
<1>6. k \in 0..(Len(s) - 1) /\ k + 1 \in 0..Len(s) /\ l = s[k + 1]
  BY <1>2, <1>3, <1>4, <1>5
<1>7. ReadUpTo(s, e, k + 1)'
  <2>1. ASSUME NEW x \in DOMAIN s PROVE e[x] < pos' <=> x <= k + 1
    <3>1. e[x] \in Nat /\ x \in Nat /\ k \in Nat
      BY <1>3
    <3>2. CASE x <= k
      BY <1>2, <1>3, <3>1, <3>2
    <3>3. CASE x = k + 1
      BY <1>2, <1>4, <1>5, <3>1, <3>3
    <3>4. CASE x > k + 1
      <4>1. e[z] < e[x]
        BY <1>3, <1>5, <3>4
      <4> QED  BY <1>2, <1>4, <3>1, <3>4, <4>1
    <3> QED  BY <3>1, <3>2, <3>3, <3>4
  <2> QED  BY <1>6, <2>1 DEF ReadUpTo
<1>8. Advances(s, i, k, c, l)
  BY <1>1, <1>2, <1>3, <1>6 DEF Advances, Suffers
<1>9. Advanced(l.src, s, i, k)
  BY <1>8, LineAdvances
<1>10. Phase(s, i, k + 1, control'[l.src])
  <2>1. PICK d : Keep(d) /\ Phase(s, i, k + 1, d)
    BY <1>9 DEF Advanced
  <2>2. control' = [control EXCEPT ![l.src] = d]
    BY <1>2, <2>1 DEF Keep
  <2>3. control \in [Sources -> Control] /\ l.src \in Sources
    BY DEF Reads, ReadOK, SourcesOK, Suffers
  <2>4. control'[l.src] = d
    BY <2>2, <2>3
  <2> QED  BY <2>1, <2>4
<1>11. k \in Nat /\ Confirming(i) \in Nat
  BY <1>8, AdvanceTypes
<1>12. CASE k = Confirming(i)
  <2> DEFINE g == Measured(l.src, s, i)
  <2>1. gaps' = Append(gaps, g) /\ g.src = l.src /\ NoGap(l.src)
    BY <1>1, <1>9, <1>11, <1>12 DEF Advanced, Measured
  <2> HIDE DEF g
  <2>2. gaps \in Seq(ToSet(gaps))
    BY DEF Reads, ReadOK
  <2>3. /\ DOMAIN gaps = 1..Len(gaps) /\ Len(gaps) \in Nat /\ DOMAIN gaps' = 1..(Len(gaps) + 1)
        /\ gaps'[Len(gaps) + 1] = g /\ \A j \in DOMAIN gaps : gaps'[j] = gaps[j]
    BY <2>1, <2>2, Appended
  <2>4. \A j \in DOMAIN gaps' : j \in DOMAIN gaps \/ j = Len(gaps) + 1
    BY <2>3
  <2>5. Len(gaps) + 1 \in DOMAIN gaps'
    BY <2>3
  <2>6. OneGap(l.src, g)'
    <3>1. \A m \in DOMAIN gaps' : gaps'[m].src = l.src => m = Len(gaps) + 1
      BY <2>1, <2>3, <2>4 DEF NoGap
    <3> QED  BY <2>3, <2>5, <3>1 DEF OneGap, g, Measured
  <2>7. ~(k + 1 <= Confirming(i))
    BY <1>11, <1>12
  <2> QED  BY <1>6, <1>7, <1>10, <2>6, <2>7 DEF Tracked, g, Measured, Phase
<1>13. CASE k # Confirming(i)
  <2>1. gaps' = gaps
    BY <1>9, <1>13 DEF Advanced
  <2>2. /\ NoGap(l.src) => NoGap(l.src)'
        /\ OneGap(l.src, Measured(l.src, s, i)) => OneGap(l.src, Measured(l.src, s, i))'
    BY <2>1 DEF NoGap, OneGap, Measured
  <2>3. (k + 1 <= Confirming(i) => k <= Confirming(i)) /\ (k + 1 > Confirming(i) => k > Confirming(i))
    BY <1>11, <1>13
  <2> QED  BY <1>1, <1>6, <1>7, <1>10, <2>2, <2>3 DEF Tracked, Phase
<1> QED  BY <1>12, <1>13

LEMMA MeasureRead ==
  ASSUME NEW p, NEW c, NEW l, Reads(p, c, l), Transition(c, l), MeasureOK, fitting' = 0
  PROVE  MeasureOK'
<1>1. Log' = Log /\ dir \in DOMAIN logs
  BY ReadsTypes DEF Reads
<1>2. ASSUME NEW src, NEW s, NEW e, NEW i, Suffers(src, s, e, i)' PROVE Tracked(src, s, e, i)'
  <2>1. Suffers(src, s, e, i)
    BY <1>1, <1>2 DEF Suffers, Picks, Outage
  <2>2. Tracked(src, s, e, i)
    BY <1>1, <2>1 DEF MeasureOK
  <2>3. CASE src # l.src
    BY <2>1, <2>2, <2>3, OtherTracked
  <2>4. CASE src = l.src
    BY <2>1, <2>2, <2>4, OwnTracked
  <2> QED  BY <2>3, <2>4
<1> QED  BY <1>2 DEF MeasureOK

LEMMA MeasureNext ==
  UdpInv /\ MeasureOK /\ [Next]_vars => MeasureOK'
<1> SUFFICES ASSUME UdpInv, MeasureOK, [Next]_vars PROVE MeasureOK'
  OBVIOUS
<1>1. Fresh' => MeasureOK'
  BY FreshMeasured, PTL
<1>2. CASE Send \/ (\E p \in flight : Receive(p)) \/ Drain
  BY <1>1, <1>2, SimulationStep
<1>3. CASE ReadLine
  <2>1. PICK p, c, l : Reads(p, c, l) /\ Transition(c, l)
    BY <1>3, LineRead DEF UdpInv
  <2>2. fitting' = 0
    BY <1>3 DEF ReadLine
  <2> QED  BY <2>1, <2>2, MeasureRead
<1>4. CASE NextLog
  BY <1>1, <1>4 DEF NextLog, Fresh
<1>5. CASE EndLog \/ FileGap \/ SkipGap \/ Converge \/ Report \/ UNCHANGED vars
  <2>1. UNCHANGED <<logs, dir, pos, control, gaps>> /\ Log' = Log
    BY <1>5 DEF EndLog, FileGap, SkipGap, Converge, Report, vars, parserVars, Log
  <2>2. dir \in DOMAIN logs /\ fitting' > 0 => pos > Len(Log)
    <3>1. CASE EndLog
      BY <3>1 DEF EndLog
    <3>2. CASE FileGap \/ SkipGap
      <4>1. Len(gaps) \in Nat /\ DOMAIN gaps = 1..Len(gaps)
        BY DEF UdpInv, ReadOK
      <4>2. fitting > 0
        BY <3>2, <4>1 DEF FileGap, SkipGap
      <4> QED  BY <4>2 DEF MeasureOK
    <3>3. CASE Converge \/ Report \/ UNCHANGED vars
      BY <3>3 DEF MeasureOK, Converge, Report, vars, parserVars
    <3> QED  BY <1>5, <3>1, <3>2, <3>3
  <2>3. ASSUME NEW src, NEW s, NEW e, NEW i, Suffers(src, s, e, i)', dir \in DOMAIN logs
        PROVE  Tracked(src, s, e, i)'
    <3>1. Suffers(src, s, e, i)
      BY <2>1, <2>3 DEF Suffers, Picks, Outage
    <3>2. Tracked(src, s, e, i)
      BY <2>3, <3>1 DEF MeasureOK
    <3> QED  BY <2>1, <3>2 DEF Tracked, ReadUpTo, Phase, NoGap, OneGap, Measured
  <2> QED  BY <2>1, <2>2, <2>3 DEF MeasureOK
<1> QED  BY <1>2, <1>3, <1>4, <1>5 DEF Next, ParserNext

\* When all lines are read the gap of an outage has been found.
LEMMA OutageFound ==
  ASSUME UdpInv, MeasureOK, dir \in DOMAIN logs, fitting > 0,
         NEW src, NEW s, NEW e, NEW i, Suffers(src, s, e, i)
  PROVE  OneGap(src, Measured(src, s, i))
<1>1. pos > Len(Log) /\ s \in Seq(Line) /\ Picks(e, s, Log, src, Len(Log)) /\ Outage(s, i)
  BY DEF MeasureOK, Suffers
<1>2. PICK k \in 0..Len(s) :
        ReadUpTo(s, e, k) /\ (k > Confirming(i) => OneGap(src, Measured(src, s, i)))
  BY DEF MeasureOK, Tracked
<1>3. k = Len(s)
  <2>1. Len(s) \in Nat /\ DOMAIN s = 1..Len(s) /\ Len(Log) \in Nat /\ pos \in Nat
    BY <1>1 DEF UdpInv, CursorsOK, Time, LogsOK, Log
  <2>2. \A x \in DOMAIN s : e[x] \in 1..Len(Log) /\ (e[x] < pos <=> x <= k)
    BY <1>1, <1>2 DEF Picks, ReadUpTo
  <2>3. \A x \in DOMAIN s : x <= k
    BY <1>1, <2>1, <2>2
  <2>4. Len(s) = 0 \/ Len(s) \in DOMAIN s
    BY <2>1
  <2>5. Len(s) = 0 \/ Len(s) <= k
    BY <2>3, <2>4
  <2> DEFINE n == Len(s)
  <2>6. n \in Nat /\ k \in 0..n /\ (n = 0 \/ n <= k)
    BY <2>1, <2>5
  <2> HIDE DEF n
  <2>7. k = n
    BY <2>6
  <2> QED  BY <2>7 DEF n
<1>4. k > Confirming(i)
  <2>1. i \in 2..(Len(s) - Validate - 3) /\ Validate \in Nat /\ Len(s) \in Nat
    BY <1>1, UdpParserAssumption DEF Outage
  <2> QED  BY <1>3, <2>1 DEF Confirming
<1> QED  BY <1>2, <1>4

\* Of every single outage that two packets in order precede and VALIDATE + 3
\* follow, udp_parser.py finds exactly one gap, from the time of the last
\* packet before it to the arrival of the first one after it, for any
\* VALIDATE, any number of sources and any interleaving of their packets.
THEOREM OutagesMeasured == Spec => []OutageMeasured
<1>1. ASSUME UdpInv, MeasureOK PROVE OutageMeasured
  <2> SUFFICES ASSUME dir \in DOMAIN logs, fitting > 0, NEW src \in Sources, NEW s,
                      s = From(Log, src), NEW i, Outage(s, i)
               PROVE  From(gaps, src) = << Measured(src, s, i) >>
    BY DEF OutageMeasured, Measured
  <2>1. Log \in Seq(Line) /\ gaps \in Seq(ToSet(gaps))
    BY <1>1 DEF UdpInv, LogsOK, Log, ReadOK
  <2>2. PICK e : s \in Seq(Line) /\ Picks(e, s, Log, src, Len(Log))
    BY <2>1, Selected
  <2>3. Suffers(src, s, e, i) /\ pos > Len(Log)
    BY <1>1, <2>2 DEF Suffers, MeasureOK
  <2>4. OneGap(src, Measured(src, s, i))
    BY <1>1, <2>3, OutageFound
  <2> DEFINE t == From(gaps, src)
             g == Measured(src, s, i)
  <2>5. PICK f : t \in Seq(ToSet(gaps)) /\ Picks(f, t, gaps, src, Len(gaps))
    BY <2>1, Selected
  <2>6. PICK j \in DOMAIN gaps : gaps[j] = g /\ \A m \in DOMAIN gaps : gaps[m].src = src => m = j
    BY <2>4 DEF OneGap
  <2>7. g.src = src /\ j \in 1..Len(gaps) /\ DOMAIN gaps = 1..Len(gaps)
    BY <2>1 DEF Measured
  <2> HIDE DEF t, g
  <2>8. /\ Len(t) \in Nat /\ DOMAIN t = 1..Len(t)
        /\ \A x \in DOMAIN t : f[x] \in 1..Len(gaps) /\ t[x] = gaps[f[x]] /\ gaps[f[x]].src = src
        /\ \A x, y \in DOMAIN t : x < y => f[x] < f[y]
    BY <2>5 DEF Picks
  <2>9. PICK x \in DOMAIN t : f[x] = j
    BY <2>5, <2>6, <2>7 DEF Picks
  <2>10. \A y \in DOMAIN t : f[y] = j
    BY <2>6, <2>7, <2>8
  <2>11. \A y \in DOMAIN t : y = x
    <3>1. j \in Nat
      BY <2>7
    <3>2. \A y \in DOMAIN t : ~(y < x) /\ ~(x < y)
      BY <2>8, <2>10, <3>1
    <3> QED  BY <2>8, <3>2
  <2>12. Len(t) = 1 /\ t[1] = g
    <3>1. 1 \in DOMAIN t /\ Len(t) \in DOMAIN t
      BY <2>8, <2>9
    <3>2. 1 = x /\ Len(t) = x
      BY <2>11, <3>1
    <3> QED  BY <2>6, <2>8, <2>9, <3>2
  <2>13. t = <<g>>
    BY <2>5, <2>12
  <2> QED  BY <2>13 DEF t, g
<1>2. Init => MeasureOK
  BY UdpInvInit, FreshMeasured
<1> QED  BY <1>1, <1>2, MeasureNext, UdpInvAlways, PTL DEF Spec

-----------------------------------------------------------------------------
(* What the network does to a flow                                         *)

\* A packet of flow f that is sent at t arrives at r: it is under way, or it
\* is in the log.
UnderWay(f, t, r) == \E p \in flight : p.flow = f /\ p.timestamp = t /\ p.due = r
LogLine(f, t, r) == [src |-> network.flows[f].src, timestamp |-> t, received |-> r]
Logged(f, t, r) ==
  LET log == logs[network.flows[f].server] IN \E i \in DOMAIN log : log[i] = LogLine(f, t, r)
Trip(f, t, r) == UnderWay(f, t, r) \/ Logged(f, t, r)

\* The times at which packets were sent so far.
Sent == {t \in 1..network.packets : t < clock}

\* A flow of a network that is not free: the packets that are lost are in
\* succession, those before them took the usual time and those after them the
\* time of the new path.
CutOnce(f) == LET lost == outage[f] IN
  /\ lost \subseteq {t \in Sent : t >= 3} /\ \A x, y \in lost : \A t \in x..y : t \in lost
  /\ path[f] = Down => lost # {} /\ \A x \in lost, t \in Sent : x < t => t \in lost

TripsOf(f) == LET lost == outage[f] IN
  /\ \A t, r : Trip(f, t, r) => t \in Sent \ lost /\ r \in Nat
  /\ \A t \in Sent \ lost : \E r : Trip(f, t, r)
  /\ lost = {} /\ path[f] = Usual => \A t, r : Trip(f, t, r) => r = t + Usual
  /\ lost # {} => \A t, r : Trip(f, t, r) =>
       /\ (\A x \in lost : t < x) => r = t + Usual
       /\ (\E x \in lost : x < t) => path[f] # Down /\ r = t + path[f]

\* Each line is of a flow.
LinesOK ==
  \A s \in DOMAIN logs : \A i \in DOMAIN logs[s] : \E f \in Flows :
    network.flows[f].server = s /\ network.flows[f].src = logs[s][i].src

PathsOK ==
  /\ path \in [Flows -> Delays \cup {Down}] /\ outage \in [Flows -> SUBSET Nat]
  /\ \A f \in Flows : CutOnce(f) /\ TripsOf(f)

TrafficOK == LinesOK /\ (~network.free => PathsOK)

LEMMA NetworkTypes ==
  ASSUME LogsOK
  PROVE  /\ network.packets \in Nat /\ clock \in Nat \ {0} /\ Sent \subseteq Nat \ {0}
         /\ DOMAIN logs = 1..network.servers
         /\ \A f \in Flows : /\ network.flows[f].src \in Sources
                             /\ network.flows[f].server \in DOMAIN logs
         /\ \A f, g \in Flows : network.flows[f].src = network.flows[g].src
              /\ network.flows[f].server = network.flows[g].server => f = g
         /\ Delays \subseteq Nat \ {0} /\ Usual \in Delays /\ Down \notin Delays
<1>1. network \in Networks /\ clock \in Nat \ {0}
  BY DEF LogsOK, Time
<1>2. IsNetwork(network)
  BY <1>1, UdpTrafficAssumption
<1>3. /\ network.packets \in Nat /\ network.servers \in Nat
      /\ \A f \in Flows : network.flows[f].src \in Sources /\ network.flows[f].server \in 1..network.servers
      /\ \A f, g \in Flows : network.flows[f].src = network.flows[g].src
           /\ network.flows[f].server = network.flows[g].server => f = g
  BY <1>2 DEF IsNetwork, Flows
<1>4. Sent \subseteq Nat \ {0}
  BY <1>3 DEF Sent
<1>5. DOMAIN logs = 1..network.servers
  BY <1>3 DEF LogsOK
<1> QED  BY <1>1, <1>3, <1>4, <1>5, UdpTrafficAssumption DEF Down

\* Nothing changes for the flows.
LEMMA SameTrips ==
  ASSUME UNCHANGED <<network, path, outage>>, Sent' = Sent,
         \A f \in Flows : \A t, r : Trip(f, t, r)' <=> Trip(f, t, r)
  PROVE  (~network.free => PathsOK) => (~network.free => PathsOK)'
<1>1. Flows' = Flows
  BY DEF Flows
<1>2. ASSUME NEW f \in Flows PROVE (CutOnce(f) => CutOnce(f)') /\ (TripsOf(f) => TripsOf(f)')
  BY DEF CutOnce, TripsOf
<1> QED  BY <1>1, <1>2 DEF PathsOK

LEMMA TrafficInit ==
  Init => TrafficOK
<1> SUFFICES ASSUME Init PROVE TrafficOK
  OBVIOUS
<1>1. LogsOK
  BY UdpInvInit DEF UdpInv
<1>2. /\ logs = [s \in 1..network.servers |-> <<>>] /\ flight = {} /\ clock = 1
      /\ path = [f \in Flows |-> Usual] /\ outage = [f \in Flows |-> {}]
  BY DEF Init
<1>3. Sent = {}
  BY <1>2, NetworkTypes, <1>1 DEF Sent
<1>4. ASSUME NEW f \in Flows, NEW t, NEW r PROVE ~Trip(f, t, r)
  <2>1. network.flows[f].server \in DOMAIN logs
    BY <1>1, NetworkTypes
  <2>2. DOMAIN logs[network.flows[f].server] = {}
    BY <1>2, <2>1
  <2> QED  BY <1>2, <2>2 DEF Trip, UnderWay, Logged
<1>5. LinesOK
  BY <1>2 DEF LinesOK
<1>6. ASSUME NEW f \in Flows PROVE CutOnce(f) /\ TripsOf(f)
  <2>1. outage[f] = {} /\ path[f] = Usual /\ Usual # Down
    BY <1>1, <1>2, NetworkTypes
  <2> QED  BY <1>3, <1>4, <2>1 DEF CutOnce, TripsOf
<1>7. path \in [Flows -> Delays \cup {Down}] /\ outage \in [Flows -> SUBSET Nat]
  BY <1>1, <1>2, NetworkTypes
<1> QED  BY <1>5, <1>6, <1>7 DEF TrafficOK, PathsOK

LEMMA DrainTraffic ==
  ASSUME LogsOK, TrafficOK, Drain PROVE TrafficOK'
<1>1. UNCHANGED <<network, logs, path, outage, flight>> /\ clock > network.packets /\ clock' = clock + 1
  BY DEF Drain
<1>2. Sent' = Sent
  BY <1>1, NetworkTypes DEF Sent
<1>3. \A f \in Flows : \A t, r : Trip(f, t, r)' <=> Trip(f, t, r)
  BY <1>1 DEF Trip, UnderWay, Logged, LogLine
<1>4. LinesOK'
  BY <1>1 DEF TrafficOK, LinesOK, Flows
<1> QED  BY <1>1, <1>2, <1>3, <1>4, SameTrips DEF TrafficOK

LEMMA ReceiveTraffic ==
  ASSUME LogsOK, TrafficOK, NEW p \in flight, Receive(p) PROVE TrafficOK'
<1> DEFINE g == network.flows[p.flow]
           l == [src |-> g.src, timestamp |-> p.timestamp, received |-> clock]
           v == g.server
<1>1. /\ logs' = [logs EXCEPT ![v] = Append(logs[v], l)]
      /\ flight' = flight \ {p} /\ p.due = clock /\ UNCHANGED <<network, clock, path, outage>>
  BY DEF Receive, Due
<1>2. p.flow \in Flows
  BY DEF LogsOK, Packet
<1>3. v \in DOMAIN logs /\ g.src \in Sources
  BY <1>2, NetworkTypes
<1>4. logs[v] \in Seq(Line)
  BY <1>3 DEF LogsOK
<1>5. /\ l.src = g.src /\ l = LogLine(p.flow, p.timestamp, p.due)
  BY <1>1 DEF LogLine
<1> HIDE DEF l
<1>6. /\ DOMAIN logs' = DOMAIN logs /\ logs'[v] = Append(logs[v], l)
      /\ \A s \in DOMAIN logs : s # v => logs'[s] = logs[s]
  BY <1>1, <1>3
<1>7. /\ DOMAIN logs[v] = 1..Len(logs[v]) /\ Len(logs[v]) \in Nat
      /\ DOMAIN logs'[v] = 1..(Len(logs[v]) + 1) /\ logs'[v][Len(logs[v]) + 1] = l
      /\ \A i \in DOMAIN logs[v] : logs'[v][i] = logs[v][i]
  <2>1. l \in Line
    <3>1. clock \in Nat \ {0} /\ p.timestamp \in Nat \ {0}
      BY NetworkTypes DEF LogsOK, Packet, Time
    <3> QED  BY <1>3, <3>1 DEF l, Line
  <2> DEFINE q == logs[v]
             u == logs'[v]
  <2>2. q \in Seq(Line) /\ u = Append(q, l)
    BY <1>4, <1>6
  <2> HIDE DEF q, u
  <2>3. /\ DOMAIN q = 1..Len(q) /\ Len(q) \in Nat /\ DOMAIN u = 1..(Len(q) + 1)
        /\ u[Len(q) + 1] = l /\ \A i \in DOMAIN q : u[i] = q[i]
    BY <2>1, <2>2
  <2> QED  BY <2>3 DEF q, u
<1>8. \A i \in DOMAIN logs'[v] : i \in DOMAIN logs[v] \/ i = Len(logs[v]) + 1
  BY <1>7
<1>9. \A i \in DOMAIN logs[v] : i \in DOMAIN logs'[v]
  BY <1>7
<1>10. Len(logs[v]) + 1 \in DOMAIN logs'[v]
  BY <1>7
<1>11. Flows' = Flows
  BY <1>1 DEF Flows
<1>12. LinesOK'
  <2> SUFFICES ASSUME NEW s \in DOMAIN logs', NEW i \in DOMAIN logs'[s]
               PROVE  \E f \in Flows : network.flows[f].server = s /\ network.flows[f].src = logs'[s][i].src
    BY <1>1, <1>11 DEF LinesOK
  <2>1. CASE s # v
    BY <1>6, <2>1 DEF TrafficOK, LinesOK
  <2>2. CASE s = v
    <3>1. CASE i \in DOMAIN logs[v]
      BY <1>3, <1>7, <2>2, <3>1 DEF TrafficOK, LinesOK
    <3>2. CASE i = Len(logs[v]) + 1
      BY <1>2, <1>5, <1>7, <2>2, <3>2
    <3> QED  BY <1>8, <2>2, <3>1, <3>2
  <2> QED  BY <2>1, <2>2
<1>13. ASSUME NEW f \in Flows, NEW t, NEW r PROVE Trip(f, t, r)' <=> Trip(f, t, r)
  <2> DEFINE w == network.flows[f].server
             m == LogLine(f, t, r)
  <2>1. w \in DOMAIN logs /\ m.src = network.flows[f].src
    BY NetworkTypes DEF LogLine
  <2>2. Logged(f, t, r) <=> \E i \in DOMAIN logs[w] : logs[w][i] = m
    BY DEF Logged
  <2>3. Logged(f, t, r)' <=> \E i \in DOMAIN logs'[w] : logs'[w][i] = m
    BY <1>1 DEF Logged, LogLine
  <2>4. l = m /\ w = v => f = p.flow
    BY <1>2, <1>5, <2>1, NetworkTypes
  <2>5. l = m => t = p.timestamp /\ r = p.due
    BY <1>5 DEF LogLine
  <2>6. f = p.flow /\ t = p.timestamp /\ r = p.due => l = m /\ w = v
    BY <1>5
  <2> HIDE DEF m
  <2>7. Logged(f, t, r)' <=> Logged(f, t, r) \/ (w = v /\ l = m)
    <3>1. CASE w # v
      BY <1>6, <2>1, <2>2, <2>3, <3>1
    <3>2. CASE w = v
      <4> HIDE DEF w
      <4>1. (\E i \in DOMAIN logs'[v] : logs'[v][i] = m) <=> (\E i \in DOMAIN logs[v] : logs[v][i] = m) \/ l = m
        BY <1>7, <1>8, <1>9, <1>10
      <4> QED  BY <2>2, <2>3, <3>2, <4>1
    <3> QED  BY <3>1, <3>2
  <2>8. UnderWay(f, t, r)' => UnderWay(f, t, r)
    BY <1>1 DEF UnderWay
  <2>9. UnderWay(f, t, r) => UnderWay(f, t, r)' \/ (f = p.flow /\ t = p.timestamp /\ r = p.due)
    BY <1>1 DEF UnderWay
  <2>10. f = p.flow /\ t = p.timestamp /\ r = p.due => UnderWay(f, t, r)
    BY DEF UnderWay
  <2> HIDE DEF w
  <2> QED  BY <2>4, <2>5, <2>6, <2>7, <2>8, <2>9, <2>10 DEF Trip
<1>14. Sent' = Sent
  BY <1>1 DEF Sent
<1> QED  BY <1>1, <1>12, <1>13, <1>14, SameTrips DEF TrafficOK

\* What a flow's round of the clients' loop may do.
Round(f, a) ==
  \/ path[f] = Down
  \/ path[f] = Usual /\ outage[f] = {} /\ clock >= 3
  \/ a = path[f] /\ a # Down

LEMMA SendTraffic ==
  ASSUME LogsOK, TrafficOK, Send PROVE TrafficOK'
<1>1. PICK p \in [Flows -> Delays \cup {Down}] :
        /\ \A f \in Flows : p[f] \in Paths(f)
        /\ path' = p
        /\ outage' = [f \in Flows |-> IF p[f] = Down THEN outage[f] \cup {clock} ELSE outage[f]]
        /\ flight' = flight \cup { [flow |-> f, timestamp |-> clock, due |-> clock + p[f]] :
                                     f \in {g \in Flows : p[g] # Down} }
  BY DEF Send
<1>2. /\ clock <= network.packets /\ clock' = clock + 1 /\ UNCHANGED <<network, logs>>
  BY DEF Send
<1>3. Flows' = Flows
  BY <1>2 DEF Flows
<1>4. LinesOK'
  BY <1>2, <1>3 DEF TrafficOK, LinesOK
<1>5. /\ clock \in Nat \ {0} /\ network.packets \in Nat /\ Delays \subseteq Nat \ {0}
      /\ Usual \in Delays /\ Down \notin Delays /\ Sent \subseteq Nat \ {0}
  BY NetworkTypes
<1>6. /\ Sent' = Sent \cup {clock} /\ clock \notin Sent /\ \A t \in Sent : t < clock
  BY <1>2, <1>5 DEF Sent
<1>7. SUFFICES ASSUME ~network.free, PathsOK PROVE PathsOK'
  BY <1>2, <1>4 DEF TrafficOK
<1>8. ASSUME NEW f \in Flows PROVE CutOnce(f)' /\ TripsOf(f)'
  <2> DEFINE a == p[f]
  <2>1. a \in Delays \cup {Down} /\ a \in Nat /\ (a # Down => a \in Delays)
    <3>1. p[f] \in Delays \cup {Down} /\ Down \in Nat /\ \A d \in Delays : d \in Nat
      BY <1>1, <1>5 DEF Down
    <3> QED  BY <3>1
  <2>2. ASSUME NEW t, NEW r
        PROVE  Trip(f, t, r)' <=> Trip(f, t, r) \/ (a # Down /\ t = clock /\ r = clock + a)
    <3>1. Logged(f, t, r)' <=> Logged(f, t, r)
      BY <1>2 DEF Logged, LogLine
    <3>2. UnderWay(f, t, r)' <=> UnderWay(f, t, r) \/ (a # Down /\ t = clock /\ r = clock + a)
      <4> DEFINE z == [flow |-> f, timestamp |-> clock, due |-> clock + p[f]]
      <4>1. a # Down => z \in flight'
        BY <1>1
      <4>2. ASSUME NEW x \in flight', x.flow = f, x.timestamp = t, x.due = r
            PROVE  x \in flight \/ (a # Down /\ t = clock /\ r = clock + a)
        <5>1. CASE x \notin flight
          <6>1. PICK g \in Flows : p[g] # Down /\ x = [flow |-> g, timestamp |-> clock, due |-> clock + p[g]]
            BY <1>1, <5>1
          <6>2. g = f
            BY <4>2, <6>1
          <6> QED  BY <4>2, <6>1, <6>2
        <5> QED  BY <5>1
      <4>3. \A x \in flight : x \in flight'
        BY <1>1
      <4>4. z.flow = f /\ z.timestamp = clock /\ z.due = clock + a
        OBVIOUS
      <4> HIDE DEF z, a
      <4> QED  BY <4>1, <4>2, <4>3, <4>4 DEF UnderWay
    <3> QED  BY <3>1, <3>2 DEF Trip
  <2>3. /\ path'[f] = a
        /\ a = Down => outage'[f] = outage[f] \cup {clock}
        /\ a # Down => outage'[f] = outage[f]
    BY <1>1
  <2>4. Round(f, a)
    <3>1. p[f] \in Paths(f)
      BY <1>1
    <3>2. Down # Usual
      BY <1>5
    <3>3. CASE path[f] = Down
      BY <3>3 DEF Round
    <3>4. CASE path[f] = Usual /\ outage[f] = {} /\ clock \in 3..FailUntil
      <4>1. clock >= 3
        BY <1>5, <3>4, UdpTrafficAssumption
      <4> QED  BY <3>4, <4>1 DEF Round
    <3>5. CASE path[f] # Down /\ ~(path[f] = Usual /\ outage[f] = {} /\ clock \in 3..FailUntil)
      <4>1. Paths(f) = {path[f]}
        BY <1>7, <3>5 DEF Paths
      <4> QED  BY <3>1, <3>5, <4>1 DEF Round
    <3> QED  BY <3>3, <3>4, <3>5
  <2>5. CutOnce(f) /\ TripsOf(f)
    BY <1>7 DEF PathsOK
  <2> DEFINE o == outage[f]
             u == outage'[f]
  <2> HIDE DEF a
  <2>6. o \subseteq {t \in Sent : t >= 3} /\ \A x, y \in o : \A t \in x..y : t \in o
    BY <2>5 DEF CutOnce
  <2>7. path[f] = Down => o # {} /\ \A x \in o, t \in Sent : x < t => t \in o
    BY <2>5 DEF CutOnce
  <2>8. clock >= 3 \/ a # Down
    <3>1. CASE path[f] = Down
      <4>1. PICK x \in o : TRUE
        BY <2>7, <3>1
      <4>2. x \in Nat /\ x >= 3 /\ x < clock
        BY <1>5, <1>6, <2>6
      <4> QED  BY <1>5, <4>2
    <3> QED  BY <2>4, <3>1 DEF Round
  <2>9. CutOnce(f)'
    <3>1. CASE a # Down
      <4>1. path'[f] # Down /\ u = o
        BY <2>3, <3>1
      <4> QED  BY <1>6, <2>6, <4>1 DEF CutOnce
    <3>2. CASE a = Down
      <4>1. u = o \cup {clock}
        BY <2>3, <3>2
      <4>2. u \subseteq {t \in Sent' : t >= 3}
        BY <1>6, <2>6, <2>8, <3>2, <4>1
      <4>3. path[f] = Down \/ o = {}
        BY <2>4, <3>2 DEF Round
      <4>4. ASSUME NEW x \in u, NEW y \in u, NEW t \in x..y PROVE t \in u
        <5>1. o \subseteq Nat /\ x \in Nat /\ y \in Nat /\ t \in Nat /\ x <= t /\ t <= y /\ y <= clock
          <6> HIDE DEF u, o
          <6>1. \A z \in o : z \in Nat /\ z < clock
            BY <1>5, <1>6, <2>6
          <6>2. \A z \in u : z \in Nat /\ z <= clock
            BY <1>5, <4>1, <6>1
          <6>3. x \in Nat /\ y \in Nat /\ y <= clock
            BY <6>2
          <6> QED  BY <1>5, <6>1, <6>3
        <5>2. CASE y \in o /\ x \in o
          BY <2>6, <4>1, <5>2
        <5>3. CASE x = clock
          BY <1>5, <4>1, <5>1, <5>3
        <5>4. CASE x \in o /\ y = clock
          <6>1. CASE t = clock
            BY <4>1, <6>1
          <6>2. CASE t = x
            BY <4>1, <5>4, <6>2
          <6>3. CASE t # clock /\ t # x
            <7>1. t \in Sent
              <8>1. t \in 1..network.packets /\ t < clock
                <9>1. x \in Nat \ {0}
                  BY <1>5, <2>6, <5>4
                <9> QED  BY <1>2, <1>5, <5>1, <5>4, <6>3, <9>1
              <8> QED  BY <8>1 DEF Sent
            <7>2. x < t
              BY <5>1, <6>3
            <7> QED  BY <2>7, <4>1, <4>3, <5>4, <7>1, <7>2
          <6> QED  BY <6>1, <6>2, <6>3
        <5> QED  BY <4>1, <5>2, <5>3, <5>4
      <4>5. ASSUME NEW x \in u, NEW t \in Sent', x < t PROVE t \in u
        <5>1. CASE t = clock
          BY <4>1, <5>1
        <5>2. CASE t \in Sent
          <6>1. x \in o
            <7>1. x # clock
              BY <1>5, <1>6, <4>5, <5>2
            <7> QED  BY <4>1, <7>1
          <6> QED  BY <2>7, <4>1, <4>3, <4>5, <5>2, <6>1
        <5> QED  BY <1>6, <5>1, <5>2
      <4>6. u # {}
        BY <4>1
      <4> HIDE DEF u, o
      <4> QED  BY <4>2, <4>4, <4>5, <4>6 DEF CutOnce, u
    <3> QED  BY <3>1, <3>2
  <2>10. /\ \A t, r : Trip(f, t, r) => t \in Sent \ o /\ r \in Nat
         /\ \A t \in Sent \ o : \E r : Trip(f, t, r)
         /\ o = {} /\ path[f] = Usual => \A t, r : Trip(f, t, r) => r = t + Usual
         /\ o # {} => \A t, r : Trip(f, t, r) =>
              /\ (\A x \in o : t < x) => r = t + Usual
              /\ (\E x \in o : x < t) => path[f] # Down /\ r = t + path[f]
    BY <2>5 DEF TripsOf
  <2>11. u \subseteq o \cup {clock} /\ o \subseteq u /\ (a = Down <=> clock \in u) /\ clock \notin o
    BY <1>6, <2>3, <2>6
  <2> HIDE DEF u
  <2>12. ASSUME NEW t, NEW r, Trip(f, t, r)' PROVE t \in Sent' \ u /\ r \in Nat
    <3>1. CASE Trip(f, t, r)
      BY <1>6, <2>10, <2>11, <3>1
    <3>2. CASE a # Down /\ t = clock /\ r = clock + a
      BY <1>5, <1>6, <2>1, <2>11, <3>2
    <3> QED  BY <2>2, <2>12, <3>1, <3>2
  <2>13. ASSUME NEW t \in Sent' \ u PROVE \E r : Trip(f, t, r)'
    <3>1. CASE t = clock
      BY <2>2, <2>11, <3>1
    <3>2. CASE t \in Sent
      BY <2>2, <2>10, <2>11, <3>2
    <3> QED  BY <1>6, <3>1, <3>2
  <2>14. ASSUME u = {}, path'[f] = Usual, NEW t, NEW r, Trip(f, t, r)' PROVE r = t + Usual
    <3>1. a = Usual /\ o = {} /\ a # Down
      BY <1>5, <2>3, <2>11, <2>14
    <3>2. path[f] = Usual
      BY <2>4, <2>7, <3>1 DEF Round
    <3> QED  BY <2>2, <2>10, <2>14, <3>1, <3>2
  <2>15. ASSUME u # {}, NEW t, NEW r, Trip(f, t, r)'
         PROVE  /\ (\A x \in u : t < x) => r = t + Usual
                /\ (\E x \in u : x < t) => path'[f] # Down /\ r = t + path'[f]
    <3>1. CASE Trip(f, t, r)
      <4>1. t \in Sent \ o /\ t < clock /\ t \in Nat
        BY <1>5, <1>6, <2>10, <3>1
      <4>2. ASSUME \A x \in u : t < x PROVE r = t + Usual
        <5>1. CASE o = {}
          <6>1. a = Down
            BY <2>11, <2>15, <5>1
          <6>2. path[f] = Usual
            BY <2>4, <2>7, <5>1, <6>1 DEF Round
          <6> QED  BY <2>10, <3>1, <5>1, <6>2
        <5>2. CASE o # {}
          BY <2>10, <2>11, <3>1, <4>2, <5>2
        <5> QED  BY <5>1, <5>2
      <4>3. ASSUME NEW x \in u, x < t PROVE path'[f] # Down /\ r = t + path'[f]
        <5>1. x \in o
          BY <1>5, <2>11, <4>1, <4>3
        <5>2. path[f] # Down
          BY <2>7, <4>1, <4>3, <5>1
        <5>3. r = t + path[f]
          BY <2>10, <3>1, <4>3, <5>1
        <5>4. a = path[f]
          BY <2>4, <5>1, <5>2 DEF Round
        <5> QED  BY <2>3, <5>2, <5>3, <5>4
      <4> QED  BY <4>2, <4>3
    <3>2. CASE a # Down /\ t = clock /\ r = clock + a
      <4>1. path'[f] # Down /\ r = t + path'[f]
        BY <2>3, <3>2
      <4>2. ~(\A x \in u : t < x)
        <5>1. PICK x \in u : TRUE
          BY <2>15
        <5>2. x \in o
          BY <2>11, <3>2
        <5>3. x < clock /\ x \in Nat
          BY <1>5, <1>6, <2>6, <5>2
        <5> QED  BY <1>5, <3>2, <5>3
      <4> QED  BY <4>1, <4>2
    <3> QED  BY <2>2, <2>15, <3>1, <3>2
  <2>16. TripsOf(f)'
    BY <2>12, <2>13, <2>14, <2>15 DEF TripsOf, u
  <2> QED  BY <2>9, <2>16
<1>9. path' \in [Flows -> Delays \cup {Down}] /\ outage' \in [Flows -> SUBSET Nat]
  <2>1. outage \in [Flows -> SUBSET Nat] /\ clock \in Nat
    BY <1>5, <1>7 DEF PathsOK
  <2> QED  BY <1>1, <2>1
<1> QED  BY <1>3, <1>8, <1>9 DEF PathsOK

LEMMA TrafficNext ==
  UdpInv /\ TrafficOK /\ [Next]_vars => TrafficOK'
<1> SUFFICES ASSUME UdpInv, TrafficOK, [Next]_vars PROVE TrafficOK'
  OBVIOUS
<1>1. CASE Send \/ (\E p \in flight : Receive(p)) \/ Drain
  BY <1>1, SendTraffic, ReceiveTraffic, DrainTraffic DEF UdpInv
<1>2. CASE (ParserNext /\ UNCHANGED trafficVars) \/ UNCHANGED vars
  <2>1. UNCHANGED <<logs, network, clock, path, outage, flight>>
    BY <1>2 DEF ParserNext, ReadLine, EndLog, FileGap, SkipGap, NextLog, Converge, Report,
                vars, trafficVars
  <2>2. Sent' = Sent /\ \A f \in Flows : \A t, r : Trip(f, t, r)' <=> Trip(f, t, r)
    BY <2>1 DEF Sent, Trip, UnderWay, Logged, LogLine
  <2>3. LinesOK'
    BY <2>1 DEF TrafficOK, LinesOK, Flows
  <2> QED  BY <2>1, <2>2, <2>3, SameTrips DEF TrafficOK
<1> QED  BY <1>1, <1>2 DEF Next

-----------------------------------------------------------------------------
(* A cut flow leaves a single outage                                       *)

LEMMA GreatestIn ==
  ASSUME NEW n \in Nat, NEW S \in SUBSET (0..n), S # {}
  PROVE  Max(S) \in S /\ \A y \in S : y <= Max(S)
<1> DEFINE T == {n - x : x \in S}
<1>1. T \in SUBSET Nat /\ T # {}
  <2>1. \A x \in S : n - x \in Nat
    OBVIOUS
  <2>2. PICK x \in S : TRUE
    OBVIOUS
  <2>3. n - x \in T
    OBVIOUS
  <2> QED  BY <2>1, <2>3
<1>2. PICK t \in T : \A y \in T : t <= y
  <2> HIDE DEF T
  <2> QED  BY <1>1, LeastElement
<1>3. PICK x \in S : t = n - x
  OBVIOUS
<1>4. \A y \in S : y <= x
  <2> SUFFICES ASSUME NEW y \in S PROVE y <= x
    OBVIOUS
  <2>1. n - x <= n - y
    BY <1>2, <1>3
  <2> QED  BY <2>1
<1>5. \E m \in S : \A y \in S : m >= y
  BY <1>4
<1>6. Max(S) \in S /\ \A y \in S : Max(S) >= y
  BY <1>5 DEF Max
<1> QED  BY <1>6

LEMMA LeastOfAll ==
  ASSUME NEW S \in SUBSET Nat, S # {}
  PROVE  Min(S) \in S /\ \A y \in S : Min(S) <= y
BY LeastElement DEF Min

\* The times 1..last but for those from lo to hi, in order.
Times(ts, n, last, lo, hi) ==
  /\ n \in Nat /\ {last, lo, hi} \subseteq Nat /\ 3 <= lo /\ lo <= hi /\ hi <= last
  /\ \A x \in 1..n : ts[x] \in 1..last /\ ~(ts[x] >= lo /\ ts[x] <= hi)
  /\ \A t \in 1..last : ~(t >= lo /\ t <= hi) => \E x \in 1..n : ts[x] = t
  /\ \A x, y \in 1..n : x < y => ts[x] < ts[y]

\* They are in succession but after number i, and enough of them follow it.
Enough(ts, n, lo, hi, v, i) ==
  /\ i \in 2..(n - v - 3)
  /\ ts[i] = lo - 1
  /\ \A k \in 1..(n - 1) : k # i => ts[k + 1] = ts[k] + 1
  /\ \A m \in 0..(v + 2) : ts[i + 1 + m] = hi + 1 + m

LEMMA TimesOrder ==
  ASSUME NEW ts, NEW n, NEW last, NEW lo, NEW hi, Times(ts, n, last, lo, hi),
         NEW x \in 1..n, NEW y \in 1..n, ts[x] < ts[y]
  PROVE  x < y
<1>1. n \in Nat /\ last \in Nat /\ ts[x] \in 1..last /\ ts[y] \in 1..last
  BY DEF Times
<1>2. x # y
  BY <1>1
<1>3. ~(y < x)
  <2>1. y < x => ts[y] < ts[x]
    BY DEF Times
  <2> QED  BY <1>1, <2>1
<1> QED  BY <1>1, <1>2, <1>3

\* The next time is the next line's.
LEMMA TimesNext ==
  ASSUME NEW ts, NEW n, NEW last, NEW lo, NEW hi, Times(ts, n, last, lo, hi),
         NEW x \in 1..n, NEW t \in 1..last, t > ts[x], ~(t >= lo /\ t <= hi)
  PROVE  x + 1 \in 1..n /\ ts[x + 1] > ts[x] /\ ts[x + 1] <= t
<1>1. n \in Nat /\ last \in Nat /\ ts[x] \in 1..last /\ \A y \in 1..n : ts[y] \in 1..last
  BY DEF Times
<1>2. PICK y \in 1..n : ts[y] = t
  BY DEF Times
<1>3. x < y
  BY <1>2, TimesOrder
<1>4. x + 1 \in 1..n /\ x < x + 1 /\ (x + 1 = y \/ x + 1 < y)
  BY <1>1, <1>3
<1>5. ts[x] < ts[x + 1]
  BY <1>4 DEF Times
<1>6. x + 1 < y => ts[x + 1] < ts[y]
  BY <1>4 DEF Times
<1>7. ts[x + 1] <= t
  BY <1>1, <1>2, <1>4, <1>6
<1> QED  BY <1>1, <1>4, <1>5, <1>7

\* The lines are in succession but for one, and all that follow are there.
LEMMA TimesOfCut ==
  ASSUME NEW ts, NEW n, NEW last, NEW lo, NEW hi, Times(ts, n, last, lo, hi),
         NEW v \in Nat, last - hi >= v + 3
  PROVE  \E i : Enough(ts, n, lo, hi, v, i)
<1>1. /\ n \in Nat /\ last \in Nat /\ lo \in Nat /\ hi \in Nat /\ 3 <= lo /\ lo <= hi /\ hi <= last
      /\ \A x \in 1..n : ts[x] \in 1..last /\ ~(ts[x] >= lo /\ ts[x] <= hi)
  BY DEF Times
<1>2. PICK i \in 1..n : ts[i] = lo - 1
  <2>1. lo - 1 \in 1..last /\ ~(lo - 1 >= lo)
    BY <1>1
  <2> QED  BY <2>1 DEF Times
<1>3. i + 1 \in 1..n /\ ts[i + 1] = hi + 1
  <2>1. hi + 1 \in 1..last /\ hi + 1 > ts[i] /\ ~(hi + 1 <= hi)
    BY <1>1, <1>2
  <2>2. i + 1 \in 1..n /\ ts[i + 1] > ts[i] /\ ts[i + 1] <= hi + 1
    BY <2>1, TimesNext
  <2>3. ts[i + 1] \in 1..last /\ ~(ts[i + 1] >= lo /\ ts[i + 1] <= hi)
    BY <1>1, <2>2
  <2> QED  BY <1>1, <1>2, <2>2, <2>3
<1>4. ASSUME NEW k \in 1..(n - 1), k # i PROVE ts[k + 1] = ts[k] + 1
  <2>1. k \in 1..n /\ k + 1 \in 1..n /\ k < k + 1
    BY <1>1
  <2>2. ts[k] < ts[k + 1]
    BY <2>1 DEF Times
  <2>3. /\ ts[k] \in 1..last /\ ~(ts[k] >= lo /\ ts[k] <= hi) /\ ts[k + 1] \in 1..last
    BY <1>1, <2>1
  <2>4. ts[k] # lo - 1
    <3>1. ~(k < i) => i < k
      BY <1>4, <1>1
    <3>2. (k < i => ts[k] < ts[i]) /\ (i < k => ts[i] < ts[k])
      BY <2>1 DEF Times
    <3> QED  BY <1>1, <1>2, <2>3, <3>1, <3>2
  <2>5. ts[k] + 1 \in 1..last /\ ts[k] + 1 > ts[k] /\ ~(ts[k] + 1 >= lo /\ ts[k] + 1 <= hi)
    BY <1>1, <2>2, <2>3, <2>4
  <2>6. ts[k + 1] <= ts[k] + 1
    BY <2>1, <2>5, TimesNext
  <2> QED  BY <1>1, <2>2, <2>3, <2>6
<1>5. i >= 2
  <2>1. 1 \in 1..last /\ ~(1 >= lo)
    BY <1>1
  <2>2. PICK y \in 1..n : ts[y] = 1
    BY <2>1 DEF Times
  <2>3. ts[y] < ts[i]
    BY <1>1, <1>2, <2>2
  <2>4. y < i
    BY <2>3, TimesOrder
  <2> QED  BY <1>1, <2>4
<1>6. \A m \in 0..(v + 2) : i + 1 + m \in 1..n /\ ts[i + 1 + m] = hi + 1 + m
  <2> DEFINE B == {m \in 0..(v + 2) : ~(i + 1 + m \in 1..n /\ ts[i + 1 + m] = hi + 1 + m)}
  <2> SUFFICES ASSUME B # {} PROVE FALSE
    OBVIOUS
  <2>1. PICK m \in B : \A j \in B : m <= j
    <3>1. B \in SUBSET Nat
      OBVIOUS
    <3> HIDE DEF B
    <3> QED  BY <3>1, LeastElement
  <2>2. m \in 0..(v + 2) /\ ~(i + 1 + m \in 1..n /\ ts[i + 1 + m] = hi + 1 + m)
    OBVIOUS
  <2>3. m # 0
    BY <1>1, <1>3, <2>2
  <2>4. m - 1 \in 0..(v + 2) /\ ~(m <= m - 1)
    BY <2>2, <2>3
  <2>5. i + 1 + (m - 1) \in 1..n /\ ts[i + 1 + (m - 1)] = hi + 1 + (m - 1)
    BY <2>1, <2>4
  <2>6. i + m \in 1..n /\ ts[i + m] = hi + m
    <3>1. i + 1 + (m - 1) = i + m /\ hi + 1 + (m - 1) = hi + m
      BY <1>1, <2>2
    <3> QED  BY <2>5, <3>1
  <2>7. hi + 1 + m \in 1..last /\ hi + 1 + m > ts[i + m] /\ ~(hi + 1 + m <= hi)
    BY <1>1, <2>2, <2>6
  <2>8. /\ (i + m) + 1 \in 1..n /\ ts[(i + m) + 1] > ts[i + m] /\ ts[(i + m) + 1] <= hi + 1 + m
    BY <2>6, <2>7, TimesNext
  <2>9. (i + m) + 1 = i + 1 + m
    BY <1>1, <2>2
  <2>10. i + 1 + m \in 1..n /\ ts[i + 1 + m] > hi + m /\ ts[i + 1 + m] <= hi + 1 + m
    BY <2>6, <2>8, <2>9
  <2>11. ts[i + 1 + m] \in Nat
    BY <1>1, <2>10
  <2>12. ts[i + 1 + m] = hi + 1 + m
    BY <1>1, <2>2, <2>10, <2>11
  <2> QED  BY <2>2, <2>10, <2>12
<1>7. i \in 2..(n - v - 3)
  <2>1. v + 2 \in 0..(v + 2)
    OBVIOUS
  <2>2. i + 1 + (v + 2) \in 1..n
    BY <1>6, <2>1
  <2> QED  BY <1>1, <1>5, <2>2
<1> QED  BY <1>2, <1>4, <1>6, <1>7 DEF Enough

\* What the convergence times are compared with, in a simulation that is over.
Clear == SimulationEnded /\ ~network.free /\ Visible /\ InOrder

LEMMA CutBounds ==
  ASSUME LogsOK, TrafficOK, Clear, NEW f \in Cut
  PROVE  /\ f \in Flows /\ CutOnce(f) /\ TripsOf(f)
         /\ Min(outage[f]) \in Nat /\ Max(outage[f]) \in Nat
         /\ 3 <= Min(outage[f]) /\ Min(outage[f]) <= Max(outage[f])
         /\ Max(outage[f]) <= network.packets
         /\ \A t \in Nat : t \in outage[f] <=> Min(outage[f]) <= t /\ t <= Max(outage[f])
         /\ network.packets - Max(outage[f]) >= Validate + 3
         /\ Sent = 1..network.packets /\ network.packets \in Nat
<1>1. f \in Flows /\ outage[f] # {} /\ CutOnce(f) /\ TripsOf(f)
  BY DEF Cut, TrafficOK, Clear, PathsOK
<1>2. network.packets \in Nat /\ clock \in Nat /\ clock > network.packets
  BY NetworkTypes DEF Clear, SimulationEnded
<1>3. Sent = 1..network.packets
  BY <1>2 DEF Sent
<1> DEFINE o == outage[f]
<1>4. o # {} /\ o \subseteq {t \in Sent : t >= 3} /\ \A x, y \in o : \A t \in x..y : t \in o
  BY <1>1 DEF CutOnce
<1>5. network.packets - Max(o) >= Validate + 3
  BY DEF Clear, Visible
<1> HIDE DEF o
<1>6. o \in SUBSET Nat /\ o \in SUBSET (0..network.packets) /\ \A x \in o : x >= 3
  BY <1>2, <1>3, <1>4
<1>7. Min(o) \in o /\ \A y \in o : Min(o) <= y
  BY <1>4, <1>6, LeastOfAll
<1>8. Max(o) \in o /\ \A y \in o : y <= Max(o)
  BY <1>2, <1>4, <1>6, GreatestIn
<1>9. /\ Min(o) \in Nat /\ Max(o) \in Nat /\ 3 <= Min(o) /\ Min(o) <= Max(o)
      /\ Max(o) <= network.packets
  <2>1. Min(o) \in Nat /\ Max(o) \in 0..network.packets
    BY <1>6, <1>7, <1>8
  <2>2. Min(o) >= 3
    BY <1>6, <1>7
  <2>3. Min(o) <= Max(o)
    BY <1>7, <1>8
  <2> QED  BY <1>2, <2>1, <2>2, <2>3
<1>10. ASSUME NEW t \in Nat PROVE t \in o <=> Min(o) <= t /\ t <= Max(o)
  <2>1. Min(o) <= t /\ t <= Max(o) => t \in Min(o)..Max(o)
    BY <1>9
  <2> QED  BY <1>4, <1>7, <1>8, <2>1
<1> QED  BY <1>1, <1>2, <1>3, <1>5, <1>9, <1>10 DEF o

\* The lines of a flow are its trips.
LEMMA FlowLines ==
  ASSUME LogsOK, Clear, NEW f \in Flows, dir = network.flows[f].server
  PROVE  /\ Log \in Seq(Line)
         /\ \A i \in DOMAIN Log : Log[i].src = network.flows[f].src =>
              Trip(f, Log[i].timestamp, Log[i].received)
         /\ \A t, r : Trip(f, t, r) => \E i \in DOMAIN Log : Log[i] = LogLine(f, t, r)
<1>1. dir \in DOMAIN logs
  BY NetworkTypes
<1>2. Log \in Seq(Line) /\ Log = logs[network.flows[f].server]
  BY <1>1 DEF LogsOK, Log
<1>3. ASSUME NEW i \in DOMAIN Log, Log[i].src = network.flows[f].src
      PROVE  Trip(f, Log[i].timestamp, Log[i].received)
  <2>1. Log[i] \in Line
    BY <1>2
  <2>2. Log[i] = LogLine(f, Log[i].timestamp, Log[i].received)
    BY <1>3, <2>1 DEF Line, LogLine
  <2> QED  BY <1>2, <1>3, <2>2 DEF Trip, Logged
<1>4. ASSUME NEW t, NEW r, Trip(f, t, r) PROVE \E i \in DOMAIN Log : Log[i] = LogLine(f, t, r)
  <2>1. flight = {}
    BY DEF Clear, SimulationEnded
  <2> QED  BY <1>2, <1>4, <2>1 DEF Trip, UnderWay, Logged
<1> QED  BY <1>2, <1>3, <1>4

\* In the order of its lines, their times are all but the lost ones.
LEMMA FlowTimes ==
  ASSUME LogsOK, TrafficOK, Clear, NEW f \in Flows, dir = network.flows[f].server,
         NEW s \in Seq(Line), NEW e, Picks(e, s, Log, network.flows[f].src, Len(Log))
  PROVE  /\ \A x \in DOMAIN s : /\ Trip(f, s[x].timestamp, s[x].received)
                                /\ s[x].timestamp \in Sent \ outage[f]
         /\ \A t \in Sent \ outage[f] : \E x \in DOMAIN s : s[x].timestamp = t
         /\ \A x, y \in DOMAIN s : x < y => s[x].timestamp < s[y].timestamp
<1> DEFINE src == network.flows[f].src
<1>1. TripsOf(f)
  BY DEF TrafficOK, Clear, PathsOK
<1>2. Log \in Seq(Line) /\ Len(Log) \in Nat /\ DOMAIN Log = 1..Len(Log)
  BY FlowLines
<1>3. \A x \in DOMAIN s : e[x] \in DOMAIN Log /\ s[x] = Log[e[x]] /\ Log[e[x]].src = src
  BY <1>2 DEF Picks
<1>4. ASSUME NEW x \in DOMAIN s
      PROVE  /\ Trip(f, s[x].timestamp, s[x].received)
             /\ s[x].timestamp \in Sent \ outage[f]
  <2>1. Trip(f, s[x].timestamp, s[x].received)
    BY <1>3, FlowLines
  <2> QED  BY <1>1, <2>1 DEF TripsOf
<1>5. ASSUME NEW t \in Sent \ outage[f] PROVE \E x \in DOMAIN s : s[x].timestamp = t
  <2>1. PICK r : Trip(f, t, r)
    BY <1>1 DEF TripsOf
  <2>2. PICK i \in DOMAIN Log : Log[i] = LogLine(f, t, r)
    BY <2>1, FlowLines
  <2>3. Log[i].src = src /\ Log[i].timestamp = t
    BY <2>2 DEF LogLine
  <2>4. PICK x \in DOMAIN s : e[x] = i
    BY <1>2, <2>3 DEF Picks
  <2> QED  BY <1>3, <2>3, <2>4
<1>6. ASSUME NEW x \in DOMAIN s, NEW y \in DOMAIN s, x < y PROVE s[x].timestamp < s[y].timestamp
  <2>1. e[x] < e[y]
    BY <1>6 DEF Picks
  <2>2. dir \in DOMAIN logs /\ Log = logs[dir]
    BY NetworkTypes DEF Log
  <2>3. \A i, j \in DOMAIN Log :
          i < j /\ Log[i].src = Log[j].src => Log[i].timestamp < Log[j].timestamp
    BY <2>2 DEF Clear, InOrder
  <2> QED  BY <1>3, <2>1, <2>3
<1> QED  BY <1>4, <1>5, <1>6

\* Line i of s is the last before the outage of flow f.
CutAfter(f, s, i) ==
  /\ i \in 2..(Len(s) - Validate - 3)
  /\ s[i].timestamp = CutOf(f).low /\ s[i + 1].received = CutOf(f).high
  /\ s[i + 3 + Validate].received = CutOf(f).high + Validate + 2

\* A cut flow is a source with a single outage: what the network did to it.
LEMMA CutSuffers ==
  ASSUME LogsOK, TrafficOK, Clear, NEW f \in Cut, dir = network.flows[f].server,
         NEW s \in Seq(Line), NEW e, Picks(e, s, Log, network.flows[f].src, Len(Log))
  PROVE  \E i : Suffers(network.flows[f].src, s, e, i) /\ CutAfter(f, s, i)
<1> DEFINE lo == Min(outage[f])
           hi == Max(outage[f])
           last == network.packets
           n == Len(s)
           ts == [x \in 1..n |-> s[x].timestamp]
<1>1. /\ f \in Flows /\ TripsOf(f) /\ CutOnce(f) /\ lo \in Nat /\ hi \in Nat /\ 3 <= lo /\ lo <= hi /\ hi <= last
      /\ \A t \in Nat : t \in outage[f] <=> lo <= t /\ t <= hi
      /\ last - hi >= Validate + 3 /\ Sent = 1..last /\ last \in Nat
  BY CutBounds
<1>2. n \in Nat /\ DOMAIN s = 1..n /\ Validate \in Nat
  BY UdpParserAssumption
<1>3. \A x \in 1..n : ts[x] = s[x].timestamp
  OBVIOUS
<1>4. /\ \A x \in 1..n : /\ Trip(f, s[x].timestamp, s[x].received)
                         /\ s[x].timestamp \in Sent \ outage[f]
      /\ \A t \in Sent \ outage[f] : \E x \in 1..n : s[x].timestamp = t
      /\ \A x, y \in 1..n : x < y => s[x].timestamp < s[y].timestamp
  <2>1. /\ \A x \in DOMAIN s : /\ Trip(f, s[x].timestamp, s[x].received)
                                /\ s[x].timestamp \in Sent \ outage[f]
        /\ \A t \in Sent \ outage[f] : \E x \in DOMAIN s : s[x].timestamp = t
        /\ \A x, y \in DOMAIN s : x < y => s[x].timestamp < s[y].timestamp
    <3>1. f \in Flows
      BY <1>1
    <3> QED  BY <3>1, FlowTimes
  <2> HIDE DEF n
  <2> QED  BY <1>2, <2>1
<1> HIDE DEF ts, lo, hi, last, n
<1>5. Times(ts, n, last, lo, hi)
  <2>1. ASSUME NEW x \in 1..n PROVE ts[x] \in 1..last /\ ~(ts[x] >= lo /\ ts[x] <= hi)
    <3>1. ts[x] \in Sent \ outage[f]
      BY <1>3, <1>4
    <3>2. ts[x] \in 1..last /\ ts[x] \in Nat /\ ts[x] \notin outage[f]
      BY <1>1, <3>1
    <3> QED  BY <1>1, <3>2
  <2>2. ASSUME NEW t \in 1..last, ~(t >= lo /\ t <= hi) PROVE \E x \in 1..n : ts[x] = t
    <3>1. t \in Sent \ outage[f]
      BY <1>1, <2>2
    <3> QED  BY <1>3, <1>4, <3>1
  <2>3. \A x, y \in 1..n : x < y => ts[x] < ts[y]
    BY <1>3, <1>4
  <2> QED  BY <1>1, <1>2, <2>1, <2>2, <2>3 DEF Times
<1>6. PICK i : Enough(ts, n, lo, hi, Validate, i)
  BY <1>1, <1>2, <1>5, TimesOfCut
<1>7. /\ i \in 2..(n - Validate - 3) /\ ts[i] = lo - 1
      /\ \A k \in 1..(n - 1) : k # i => ts[k + 1] = ts[k] + 1
      /\ \A m \in 0..(Validate + 2) : ts[i + 1 + m] = hi + 1 + m
  BY <1>6 DEF Enough
<1>8. /\ i \in 1..n /\ i + 1 \in 1..n /\ i + 3 + Validate \in 1..n
      /\ 0 \in 0..(Validate + 2) /\ Validate + 2 \in 0..(Validate + 2)
      /\ i + 1 + 0 = i + 1 /\ i + 1 + (Validate + 2) = i + 3 + Validate
      /\ hi + 1 + 0 = hi + 1 /\ hi + 1 + (Validate + 2) = hi + 3 + Validate
  BY <1>1, <1>2, <1>7
<1>9. ts[i + 1] = hi + 1 /\ ts[i + 3 + Validate] = hi + 3 + Validate
  <2>1. ts[i + 1 + 0] = hi + 1 + 0 /\ ts[i + 1 + (Validate + 2)] = hi + 1 + (Validate + 2)
    BY <1>7, <1>8
  <2> QED  BY <1>8, <2>1
<1>10. Outage(s, i)
  <2>1. s[i + 1].timestamp > s[i].timestamp + 1
    <3>1. s[i].timestamp = lo - 1 /\ s[i + 1].timestamp = hi + 1
      BY <1>3, <1>7, <1>8, <1>9
    <3> QED  BY <1>1, <3>1
  <2>2. \A k \in 1..(n - 1) : k \in 1..n /\ k + 1 \in 1..n
    BY <1>2
  <2>3. \A k \in 1..(n - 1) : k # i => s[k + 1].timestamp = s[k].timestamp + 1
    BY <1>3, <1>7, <2>2
  <2> QED  BY <1>7, <2>1, <2>3 DEF Outage, n
<1>11. CutOf(f).low = lo - 1 /\ CutOf(f).high = hi + 1 + path[f]
  BY DEF CutOf, lo, hi
<1>12. path[f] # Down /\ path[f] \in Nat
  <2>1. last \in Sent /\ last \notin outage[f] /\ hi \in outage[f] /\ hi < last
    BY <1>1, <1>2
  <2>2. path[f] # Down
    BY <1>1, <2>1 DEF CutOnce
  <2>3. path[f] \in Delays \cup {Down}
    BY <1>1 DEF TrafficOK, Clear, PathsOK
  <2> QED  BY <2>2, <2>3, NetworkTypes
<1>13. ASSUME NEW x \in 1..n, ts[x] > hi PROVE s[x].received = ts[x] + path[f]
  <2>1. Trip(f, ts[x], s[x].received) /\ hi \in outage[f] /\ hi < ts[x]
    BY <1>1, <1>3, <1>4, <1>13
  <2> QED  BY <1>1, <2>1 DEF TripsOf
<1>14. /\ s[i + 1].received = hi + 1 + path[f]
       /\ s[i + 3 + Validate].received = hi + 3 + Validate + path[f]
  BY <1>1, <1>2, <1>8, <1>9, <1>13
<1>15. CutAfter(f, s, i)
  <2>1. hi + 3 + Validate + path[f] = (hi + 1 + path[f]) + Validate + 2
    BY <1>1, <1>2, <1>12
  <2> QED  BY <1>3, <1>7, <1>8, <1>11, <1>14, <2>1 DEF CutAfter, n
<1>16. network.flows[f].src \in Sources
  BY <1>1, NetworkTypes
<1> QED  BY <1>10, <1>15, <1>16 DEF Suffers

-----------------------------------------------------------------------------
(* The gaps are those of the cut flows                                     *)

\* No gap opens in a flow that is not cut.
LEMMA UncutSteady ==
  ASSUME UdpInv, TrafficOK, Clear, NEW f \in Flows, f \notin Cut, dir = network.flows[f].server,
         NEW low, NEW i, NEW n, Opening(network.flows[f].src, low, i, n)
  PROVE  FALSE
<1> DEFINE src == network.flows[f].src
<1>1. LogsOK /\ TripsOf(f) /\ outage[f] = {}
  BY DEF UdpInv, Clear, TrafficOK, PathsOK, Cut
<1>2. /\ Log \in Seq(Line) /\ dir \in DOMAIN logs /\ Log = logs[dir]
      /\ DOMAIN Log = 1..Len(Log) /\ Len(Log) \in Nat
  BY <1>1, FlowLines, NetworkTypes DEF Log
<1>3. pos \in Nat /\ (pos > 1 => pos <= Len(Log) + 1)
  BY DEF UdpInv, CursorsOK, Time
<1>4. /\ {i, n} \subseteq Seen(src) /\ Successive(i, n)
      /\ Log[i].timestamp = low /\ Log[n].timestamp # low + 1
  BY DEF Opening
<1>5. ASSUME NEW x \in Seen(src) PROVE x \in DOMAIN Log /\ Log[x].src = src
  <2>1. x \in 1..(pos - 1) /\ Log[x].src = src
    BY <1>5 DEF Seen
  <2> QED  BY <1>2, <1>3, <2>1
<1>6. i \in DOMAIN Log /\ n \in DOMAIN Log /\ Log[i].src = src /\ Log[n].src = src /\ i < n
  BY <1>4, <1>5 DEF Successive
<1>7. \A x \in DOMAIN Log : Log[x].src = src => Log[x].timestamp \in Sent
  BY <1>1, FlowLines DEF TripsOf
<1>8. \A x, y \in DOMAIN Log : x < y /\ Log[x].src = src /\ Log[y].src = src
        => Log[x].timestamp < Log[y].timestamp
  BY <1>2 DEF Clear, InOrder
<1>9. Sent = 1..network.packets /\ network.packets \in Nat
  <2>1. network.packets \in Nat /\ clock \in Nat /\ clock > network.packets
    BY <1>1, NetworkTypes DEF Clear, SimulationEnded
  <2> QED  BY <2>1 DEF Sent
<1>10. low \in Sent /\ Log[n].timestamp \in Sent /\ low < Log[n].timestamp
  BY <1>4, <1>6, <1>7, <1>8
<1>11. low + 1 \in Sent
  BY <1>9, <1>10
<1>12. PICK r : Trip(f, low + 1, r)
  BY <1>1, <1>11 DEF TripsOf
<1>13. PICK x \in DOMAIN Log : Log[x] = LogLine(f, low + 1, r)
  BY <1>1, <1>12, FlowLines
<1>14. Log[x].src = src /\ Log[x].timestamp = low + 1
  BY <1>13 DEF LogLine
<1>15. x # i /\ x # n /\ ~(x < i)
  <2>1. x < i => low + 1 < low
    BY <1>4, <1>6, <1>8, <1>14
  <2> QED  BY <1>4, <1>9, <1>10, <1>14, <2>1
<1>16. ~(n < x)
  <2>1. n < x => Log[n].timestamp < low + 1
    BY <1>6, <1>8, <1>14
  <2> QED  BY <1>9, <1>10, <2>1
<1>17. x \in (i + 1)..(n - 1)
  BY <1>2, <1>6, <1>15, <1>16
<1> QED  BY <1>4, <1>6, <1>14, <1>17 DEF Successive

\* Gap g is what the network did to flow f.
ByCut(g, f) ==
  /\ g.src = network.flows[f].src
  /\ g.low = CutOf(f).low /\ g.high = CutOf(f).high

\* The line with which the gap of flow f is closed arrives then.
Closing(f) == CutOf(f).high + Validate + 2

\* A flow of the log that is read, where it is cut, and where the parser is.
CutRead(f, s, e, i) ==
  /\ f \in Cut /\ network.flows[f].server = dir /\ CutAfter(f, s, i)
  /\ Suffers(network.flows[f].src, s, e, i) /\ Tracked(network.flows[f].src, s, e, i)

LEMMA CutTracked ==
  ASSUME UdpInv, TrafficOK, MeasureOK, Clear, dir \in DOMAIN logs,
         NEW f \in Cut, network.flows[f].server = dir
  PROVE  \E s, e, i : CutRead(f, s, e, i)
<1> DEFINE src == network.flows[f].src
<1>1. LogsOK /\ Log \in Seq(Line)
  BY DEF UdpInv, LogsOK, Log
<1> DEFINE s == From(Log, src)
<1>2. PICK e : s \in Seq(Line) /\ Picks(e, s, Log, src, Len(Log))
  BY <1>1, Selected
<1> HIDE DEF s
<1>3. PICK i : Suffers(src, s, e, i) /\ CutAfter(f, s, i)
  BY <1>1, <1>2, CutSuffers
<1>4. Tracked(src, s, e, i)
  BY <1>3 DEF MeasureOK
<1> QED  BY <1>3, <1>4 DEF CutRead

\* What is measured of it is what the network did.
LEMMA MeasuredCut ==
  ASSUME NEW f, NEW s, NEW e, NEW i, CutRead(f, s, e, i)
  PROVE  ByCut(Measured(network.flows[f].src, s, i), f)
BY DEF CutRead, CutAfter, Measured, ByCut

\* The line that closes it is in the log.
LEMMA ClosingInLog ==
  ASSUME NEW f, NEW s, NEW e, NEW i, CutRead(f, s, e, i)
  PROVE  /\ Confirming(i) + 1 \in DOMAIN s /\ e[Confirming(i) + 1] \in 1..Len(Log)
         /\ Log[e[Confirming(i) + 1]].src = network.flows[f].src
         /\ Log[e[Confirming(i) + 1]].received = Closing(f)
         /\ Confirming(i) \in Nat
<1>1. i \in 2..(Len(s) - Validate - 3) /\ s[i + 3 + Validate].received = Closing(f) /\ s \in Seq(Line)
  BY DEF CutRead, CutAfter, Suffers, Closing
<1>2. Validate \in Nat /\ Len(s) \in Nat /\ DOMAIN s = 1..Len(s)
  BY <1>1, UdpParserAssumption
<1>3. /\ Confirming(i) + 1 = i + 3 + Validate /\ Confirming(i) + 1 \in DOMAIN s
      /\ Confirming(i) \in Nat
  BY <1>1, <1>2 DEF Confirming
<1>4. Picks(e, s, Log, network.flows[f].src, Len(Log))
  BY DEF CutRead, Suffers
<1> DEFINE z == Confirming(i) + 1
<1>5. z \in DOMAIN s /\ s[z].received = Closing(f)
  BY <1>1, <1>3
<1> HIDE DEF z
<1>6. e[z] \in 1..Len(Log) /\ Log[e[z]] = s[z] /\ Log[e[z]].src = network.flows[f].src
  BY <1>4, <1>5 DEF Picks
<1> QED  BY <1>3, <1>5, <1>6 DEF z

\* The flow of a line.
LEMMA FlowOfLine ==
  ASSUME LinesOK, dir \in DOMAIN logs, NEW x \in DOMAIN Log
  PROVE  \E f \in Flows : network.flows[f].server = dir /\ network.flows[f].src = Log[x].src
BY DEF LinesOK, Log

\* Where the parser reads: what the following is about.
Reading == UdpInv /\ TrafficOK /\ MeasureOK /\ Clear /\ dir \in DOMAIN logs

LEMMA SeenInLog ==
  ASSUME Reading, NEW src, NEW x \in Seen(src)
  PROVE  x \in DOMAIN Log /\ x \in Nat /\ x < pos /\ Log[x].src = src
<1>1. Log \in Seq(Line) /\ pos \in Nat /\ (pos > 1 => pos <= Len(Log) + 1)
  BY DEF Reading, UdpInv, LogsOK, Log, CursorsOK, Time
<1>2. DOMAIN Log = 1..Len(Log) /\ Len(Log) \in Nat /\ x \in 1..(pos - 1) /\ Log[x].src = src
  BY <1>1 DEF Seen
<1> QED  BY <1>1, <1>2

\* Each gap is that of a cut flow, and the line that closed it has been read.
LEMMA GapsOfCuts ==
  ASSUME Reading, NEW g \in ToSet(gaps)
  PROVE  \E f \in Cut : /\ network.flows[f].server = dir /\ ByCut(g, f)
                        /\ \E x \in DOMAIN Log : x < pos /\ Log[x].received = Closing(f)
<1>1. UdpInv /\ TrafficOK /\ MeasureOK /\ Clear /\ dir \in DOMAIN logs
  BY DEF Reading
<1>2. PICK t \in Time : Disrupted(g.src, g.low, g.high, t)
  BY <1>1 DEF UdpInv, ReadOK, GapsOK, IsGap
<1>3. PICK a \in Seen(g.src), b \in Seen(g.src) : Opening(g.src, g.low, a, b)
  BY <1>2 DEF Disrupted
<1>4. a \in DOMAIN Log /\ Log[a].src = g.src
  BY SeenInLog
<1>5. PICK f \in Flows : network.flows[f].server = dir /\ network.flows[f].src = g.src
  BY <1>1, <1>4, FlowOfLine DEF TrafficOK
<1>6. f \in Cut
  BY <1>1, <1>3, <1>5, UncutSteady
<1>7. PICK s, e, i : CutRead(f, s, e, i)
  BY <1>1, <1>5, <1>6, CutTracked
<1>8. PICK k \in 0..Len(s) :
        /\ ReadUpTo(s, e, k)
        /\ k <= Confirming(i) => NoGap(g.src)
        /\ k > Confirming(i) => OneGap(g.src, Measured(g.src, s, i))
  BY <1>5, <1>7 DEF CutRead, Tracked
<1>9. PICK m \in DOMAIN gaps : gaps[m] = g
  BY DEF ToSet
<1>10. /\ Confirming(i) + 1 \in DOMAIN s /\ e[Confirming(i) + 1] \in 1..Len(Log)
       /\ Log[e[Confirming(i) + 1]].received = Closing(f) /\ Confirming(i) \in Nat
  BY <1>7, ClosingInLog
<1>11. k > Confirming(i)
  <2>1. ~NoGap(g.src)
    BY <1>9 DEF NoGap
  <2>2. Len(s) \in Nat
    BY <1>7 DEF CutRead, Suffers
  <2> QED  BY <1>8, <1>10, <2>1, <2>2
<1>12. g = Measured(g.src, s, i)
  BY <1>8, <1>9, <1>11 DEF OneGap
<1>13. ByCut(g, f)
  <2>1. ByCut(Measured(network.flows[f].src, s, i), f)
    BY <1>7, MeasuredCut
  <2> QED  BY <1>5, <1>12, <2>1
<1>14. e[Confirming(i) + 1] < pos
  <2>1. Confirming(i) + 1 <= k
    <3>1. Len(s) \in Nat /\ k \in Nat
      BY <1>7 DEF CutRead, Suffers
    <3> QED  BY <1>10, <1>11, <3>1
  <2> QED  BY <1>8, <1>10, <2>1 DEF ReadUpTo
<1>15. e[Confirming(i) + 1] \in DOMAIN Log
  <2>1. Log \in Seq(Line)
    BY <1>1 DEF UdpInv, LogsOK, Log
  <2> QED  BY <1>10, <2>1
<1> QED  BY <1>5, <1>6, <1>10, <1>13, <1>14, <1>15

\* Of each cut flow the gap has been found when all lines are read.
LEMMA CutsFound ==
  ASSUME Reading, fitting > 0, NEW f \in Cut, network.flows[f].server = dir
  PROVE  \E j \in DOMAIN gaps : ByCut(gaps[j], f)
<1>1. UdpInv /\ TrafficOK /\ MeasureOK /\ Clear /\ dir \in DOMAIN logs
  BY DEF Reading
<1>2. PICK s, e, i : CutRead(f, s, e, i)
  BY <1>1, CutTracked
<1>3. Suffers(network.flows[f].src, s, e, i)
  BY <1>2 DEF CutRead
<1>4. OneGap(network.flows[f].src, Measured(network.flows[f].src, s, i))
  BY <1>1, <1>3, OutageFound
<1>5. ByCut(Measured(network.flows[f].src, s, i), f)
  BY <1>2, MeasuredCut
<1> QED  BY <1>4, <1>5 DEF OneGap

\* The bounds of a cut are numbers.
LEMMA CutNumbers ==
  ASSUME UdpInv, TrafficOK, Clear, NEW f \in Cut
  PROVE  /\ CutOf(f).low \in Nat /\ CutOf(f).high \in Nat /\ CutOf(f).low < CutOf(f).high
         /\ Closing(f) = CutOf(f).high + Validate + 2 /\ Validate \in Nat
<1> DEFINE lo == Min(outage[f])
           hi == Max(outage[f])
<1>1. f \in Flows /\ lo \in Nat /\ hi \in Nat /\ 3 <= lo /\ lo <= hi
  BY CutBounds DEF UdpInv
<1>2. path[f] \in Nat
  <2>1. LogsOK /\ path[f] \in Delays \cup {Down}
    BY <1>1 DEF UdpInv, TrafficOK, Clear, PathsOK
  <2>2. \A d \in Delays : d \in Nat
    BY <2>1, NetworkTypes
  <2> QED  BY <2>1, <2>2 DEF Down
<1>3. CutOf(f).low = lo - 1 /\ CutOf(f).high = hi + 1 + path[f]
  BY DEF CutOf
<1> HIDE DEF lo, hi
<1> QED  BY <1>1, <1>2, <1>3, UdpParserAssumption DEF Closing

-----------------------------------------------------------------------------
(* Gaps are closed in the order of their ends                              *)

Ordered == \A j, k \in DOMAIN gaps : j < k => gaps[j].high <= gaps[k].high

\* The gap that a line closes is that of a cut flow, which it closes.
LEMMA ClosingCut ==
  ASSUME Reading, MeasureOK', NEW p, NEW c, NEW l, Reads(p, c, l), Transition(c, l), Closes(c, l)
  PROVE  \E f \in Cut : ByCut(Gap(c, l.src), f) /\ l.received = Closing(f)
<1> DEFINE src == l.src
           new == Gap(c, src)
<1>1. UdpInv /\ TrafficOK /\ MeasureOK /\ Clear /\ dir \in DOMAIN logs /\ dir' = dir /\ logs' = logs
  BY DEF Reading, Reads
<1>2. /\ pos \in Nat /\ pos' = pos + 1 /\ p = pos /\ Log[pos] = l /\ Log' = Log /\ pos \in DOMAIN Log
  BY ReadsTypes DEF Reads
<1>3. PICK f \in Flows : network.flows[f].server = dir /\ network.flows[f].src = src
  BY <1>1, <1>2, FlowOfLine DEF TrafficOK
<1>4. f \in Cut
  <2>1. c.candidate # None
    BY DEF Closes
  <2>2. Disrupted(src, c.low, c.highReceived, c.candidate)
    BY <2>1, ReadsTypes DEF StateOK
  <2>3. PICK a, b : Opening(src, c.low, a, b)
    BY <2>2 DEF Disrupted
  <2> QED  BY <1>1, <1>3, <2>3, UncutSteady
<1>5. PICK s, e, i : CutRead(f, s, e, i)
  BY <1>1, <1>3, <1>4, CutTracked
<1>6. Suffers(src, s, e, i) /\ Tracked(src, s, e, i)
  BY <1>3, <1>5 DEF CutRead
<1>7. Tracked(src, s, e, i)'
  <2>1. Suffers(src, s, e, i)'
    BY <1>2, <1>6 DEF Suffers, Picks, Outage
  <2> QED  BY <1>1, <2>1 DEF MeasureOK
<1>8. PICK k \in 0..Len(s) :
        /\ ReadUpTo(s, e, k)
        /\ k > Confirming(i) => OneGap(src, Measured(src, s, i))
  BY <1>6 DEF Tracked
<1>9. PICK h \in 0..Len(s) :
        /\ ReadUpTo(s, e, h)'
        /\ h <= Confirming(i) => NoGap(src)'
        /\ h > Confirming(i) => OneGap(src, Measured(src, s, i))'
  BY <1>7 DEF Tracked, Measured
<1>10. new.src = src /\ gaps' = Append(gaps, new)
  BY DEF Gap, Closes
<1> HIDE DEF new
<1>11. /\ DOMAIN gaps = 1..Len(gaps) /\ Len(gaps) \in Nat /\ DOMAIN gaps' = 1..(Len(gaps) + 1)
       /\ gaps'[Len(gaps) + 1] = new /\ \A j \in DOMAIN gaps : gaps'[j] = gaps[j]
  <2>1. gaps \in Seq(ToSet(gaps))
    BY DEF Reads, ReadOK
  <2> QED  BY <1>10, <2>1, Appended
<1>12. Len(gaps) + 1 \in DOMAIN gaps' /\ \A j \in DOMAIN gaps : j \in DOMAIN gaps' /\ j # Len(gaps) + 1
  BY <1>11
<1>13. /\ Confirming(i) + 1 \in DOMAIN s /\ e[Confirming(i) + 1] \in 1..Len(Log)
       /\ Log[e[Confirming(i) + 1]].received = Closing(f) /\ Confirming(i) \in Nat
  BY <1>5, ClosingInLog
<1>14. Len(s) \in Nat /\ k \in Nat /\ h \in Nat
  BY <1>6 DEF Suffers
<1>15. h > Confirming(i)
  <2>1. ~NoGap(src)'
    BY <1>10, <1>11, <1>12 DEF NoGap
  <2> QED  BY <1>9, <1>13, <1>14, <2>1
<1>16. new = Measured(src, s, i)
  <2>1. OneGap(src, Measured(src, s, i))'
    BY <1>9, <1>15
  <2>2. \E j \in DOMAIN gaps' :
          gaps'[j] = Measured(src, s, i) /\ \A m \in DOMAIN gaps' : gaps'[m].src = src => m = j
    BY <2>1 DEF OneGap, Measured
  <2> QED  BY <1>10, <1>11, <1>12, <2>2
<1>17. NoGap(src)
  <2>1. \E j \in DOMAIN gaps' : \A m \in DOMAIN gaps' : gaps'[m].src = src => m = j
    BY <1>9, <1>15 DEF OneGap
  <2> QED  BY <1>10, <1>11, <1>12, <2>1 DEF NoGap
<1>18. k <= Confirming(i)
  <2>1. ~OneGap(src, Measured(src, s, i))
    BY <1>17 DEF OneGap, NoGap, Measured
  <2> QED  BY <1>8, <1>13, <1>14, <2>1
<1>19. e[Confirming(i) + 1] = pos
  <2>1. ~(e[Confirming(i) + 1] < pos)
    <3>1. ~(Confirming(i) + 1 <= k)
      BY <1>13, <1>14, <1>18
    <3> QED  BY <1>8, <1>13, <3>1 DEF ReadUpTo
  <2>2. e[Confirming(i) + 1] < pos'
    <3>1. Confirming(i) + 1 <= h
      BY <1>13, <1>14, <1>15
    <3> QED  BY <1>9, <1>13, <3>1 DEF ReadUpTo
  <2>3. e[Confirming(i) + 1] \in Nat
    BY <1>13
  <2> QED  BY <1>2, <2>1, <2>2, <2>3
<1>20. l.received = Closing(f)
  BY <1>2, <1>13, <1>19
<1>21. ByCut(new, f)
  <2>1. ByCut(Measured(network.flows[f].src, s, i), f)
    BY <1>5, MeasuredCut
  <2> QED  BY <1>3, <1>16, <2>1
<1> QED  BY <1>4, <1>20, <1>21 DEF new

LEMMA OrderedRead ==
  ASSUME Reading, MeasureOK', Ordered, NEW p, NEW c, NEW l, Reads(p, c, l), Transition(c, l)
  PROVE  Ordered'
<1>1. CASE gaps' = gaps
  BY <1>1 DEF Ordered
<1>2. CASE Closes(c, l)
  <2> DEFINE new == Gap(c, l.src)
             n == Len(gaps) + 1
  <2>1. gaps' = Append(gaps, new)
    BY <1>2 DEF Closes
  <2>2. PICK f \in Cut : ByCut(new, f) /\ l.received = Closing(f)
    BY <1>2, ClosingCut
  <2>3. gaps \in Seq(ToSet(gaps))
    BY DEF Reads, ReadOK
  <2> HIDE DEF new
  <2>4. /\ DOMAIN gaps = 1..Len(gaps) /\ Len(gaps) \in Nat /\ DOMAIN gaps' = 1..n
        /\ gaps'[n] = new /\ \A j \in DOMAIN gaps : gaps'[j] = gaps[j]
    BY <2>1, <2>3, Appended
  <2>5. ASSUME NEW j \in DOMAIN gaps PROVE gaps[j].high <= new.high
    <3>1. gaps[j] \in ToSet(gaps)
      BY DEF ToSet
    <3>2. PICK h \in Cut : /\ ByCut(gaps[j], h)
                           /\ \E x \in DOMAIN Log : x < pos /\ Log[x].received = Closing(h)
      BY <3>1, GapsOfCuts
    <3>3. PICK x \in DOMAIN Log : x < pos /\ Log[x].received = Closing(h)
      BY <3>2
    <3>4. dir \in DOMAIN logs /\ LogsOK /\ pos \in DOMAIN Log /\ pos \in Nat /\ Log[pos] = l
      BY ReadsTypes DEF Reads
    <3>5. Log[x].received <= l.received
      <4>1. x \in 1..(pos - 1)
        <5>1. Log \in Seq(Line)
          BY <3>4 DEF LogsOK, Log
        <5>2. x \in Nat /\ x >= 1
          BY <5>1
        <5> QED  BY <3>3, <3>4, <5>2
      <4> QED  BY <3>4, <4>1 DEF LogsOK, Log
    <3>6. /\ CutOf(f).high \in Nat /\ CutOf(h).high \in Nat /\ Validate \in Nat
          /\ Closing(f) = CutOf(f).high + Validate + 2 /\ Closing(h) = CutOf(h).high + Validate + 2
      BY CutNumbers DEF Reading
    <3>7. Closing(h) <= Closing(f)
      BY <2>2, <3>3, <3>5
    <3>8. CutOf(h).high <= CutOf(f).high
      BY <3>6, <3>7
    <3> QED  BY <2>2, <3>2, <3>8 DEF ByCut
  <2>6. ASSUME NEW j \in DOMAIN gaps', NEW k \in DOMAIN gaps', j < k
        PROVE  gaps'[j].high <= gaps'[k].high
    <3>1. j \in DOMAIN gaps
      BY <2>4, <2>6
    <3>2. CASE k = n
      BY <2>4, <2>5, <3>1, <3>2
    <3>3. CASE k \in DOMAIN gaps
      BY <2>4, <2>6, <3>1, <3>3 DEF Ordered
    <3> QED  BY <2>4, <3>2, <3>3
  <2> QED  BY <2>6 DEF Ordered
<1> QED  BY <1>1, <1>2, TransitionGaps

-----------------------------------------------------------------------------
(* Each gap is filed under its failure                                     *)

\* Failure i, and no other, is within what the network did to flow f.
CutAt(f, i) == Fitting(CutOf(f), 1) = {i}

\* The gap of flow f has been looked at.
LookedAt(f) ==
  \/ network.flows[f].server < dir
  \/ network.flows[f].server = dir /\ \E k \in 1..(fitting - 1) : k \in DOMAIN gaps /\ ByCut(gaps[k], f)

\* The search starts again for each log, at the failure of a gap before.
SearchOK ==
  /\ fitting > 0 => dir \in DOMAIN logs
  /\ idx # 1 => \E k \in 1..(fitting - 1) : k \in DOMAIN gaps /\ idx \in Fitting(gaps[k], 1)

FiledOK ==
  /\ DOMAIN allGaps = DOMAIN Fails
  /\ \A i \in DOMAIN Fails : allGaps[i] \in Seq(ToSet(allGaps[i]))
  /\ \A i \in DOMAIN Fails : \A g \in ToSet(allGaps[i]) : \E f \in Cut : CutAt(f, i) /\ ByCut(g, f)
  /\ \A f \in Cut : LookedAt(f) => \A i \in DOMAIN Fails :
       CutAt(f, i) => \E g \in ToSet(allGaps[i]) : ByCut(g, f)

ReportOK ==
  /\ convergence # <<>> => \A i \in DOMAIN Fails : convergence[i] = Span(CutBy(i))
  /\ convergence # <<>> => Fails # <<>>
  /\ result # NotReported => convergence # <<>> /\ result = convergence[1]

SpansOK ==
  /\ SimulationEnded \/ ParserInit
  /\ Clear => Ordered /\ SearchOK /\ FiledOK /\ ReportOK

LEMMA FailsTypes ==
  /\ Len(Fails) \in Nat /\ DOMAIN Fails = 1..Len(Fails)
  /\ \A i \in DOMAIN Fails : Fails[i] \in Nat
  /\ \A i, j \in DOMAIN Fails : i <= j => Fails[i] <= Fails[j]
BY UdpParserAssumption

\* Each cut is at one failure.
LEMMA OneFailure ==
  ASSUME Clear, NEW f \in Cut
  PROVE  \E i \in DOMAIN Fails : CutAt(f, i)
<1> DEFINE S == Fitting(CutOf(f), 1)
<1>1. S \subseteq 1..Len(Fails) /\ Len(Fails) \in Nat /\ DOMAIN Fails = 1..Len(Fails)
  BY FailsTypes DEF Fitting
<1>2. Cardinality(S) = 1
  BY DEF Clear, Visible
<1> HIDE DEF S
<1>3. IsFiniteSet(S)
  <2> DEFINE T == 1..Len(Fails)
  <2>1. IsFiniteSet(T)
    <3>1. 1 \in Int /\ Len(Fails) \in Int
      BY <1>1
    <3> QED  BY <3>1, FS_Interval
  <2>2. S \subseteq T
    BY <1>1
  <2> HIDE DEF T
  <2> QED  BY <2>1, <2>2, FS_Subset
<1>4. S # {}
  BY <1>2, FS_EmptySet
<1>5. PICK i \in S : TRUE
  BY <1>4
<1>6. S = {i}
  <2>1. IsFiniteSet({i}) /\ Cardinality({i}) = 1
    BY FS_Singleton
  <2> QED  BY <1>2, <1>3, <1>5, <2>1, FS_Subset
<1> QED  BY <1>1, <1>5, <1>6 DEF CutAt, S

LEMMA FreshSpans ==
  ParserInit /\ LogsOK => Ordered /\ SearchOK /\ FiledOK /\ ReportOK
<1> SUFFICES ASSUME ParserInit, LogsOK PROVE Ordered /\ SearchOK /\ FiledOK /\ ReportOK
  OBVIOUS
<1>1. /\ dir = 1 /\ gaps = <<>> /\ fitting = 0 /\ idx = 1 /\ allGaps = [i \in DOMAIN Fails |-> <<>>]
      /\ convergence = <<>> /\ result = NotReported
  BY DEF ParserInit
<1>2. Ordered /\ SearchOK /\ ReportOK
  BY <1>1 DEF Ordered, SearchOK, ReportOK
<1>3. ASSUME NEW f \in Cut PROVE ~LookedAt(f)
  <2>1. f \in Flows
    BY DEF Cut
  <2>2. network.flows[f].server \in 1..network.servers
    <3>1. network.flows[f].server \in DOMAIN logs /\ DOMAIN logs = 1..network.servers
      BY <2>1, NetworkTypes
    <3> QED  BY <3>1
  <2>3. network.servers \in Nat
    BY UdpTrafficAssumption DEF LogsOK, IsNetwork
  <2>4. ~(network.flows[f].server < 1)
    BY <2>2, <2>3
  <2>5. \A k : ~(k \in 1..(0 - 1))
    OBVIOUS
  <2> QED  BY <1>1, <2>4, <2>5 DEF LookedAt
<1>4. ASSUME NEW i \in DOMAIN Fails PROVE allGaps[i] \in Seq(ToSet(allGaps[i])) /\ ToSet(allGaps[i]) = {}
  <2>1. allGaps[i] = <<>>
    BY <1>1
  <2> QED  BY <2>1 DEF ToSet
<1>5. FiledOK
  BY <1>1, <1>3, <1>4 DEF FiledOK
<1> QED  BY <1>2, <1>5

\* The failure of a gap is found, and it is the next one from idx on.
LEMMA FoundFailure ==
  ASSUME Reading, Ordered, SearchOK, idx \in 1..(Len(Fails) + 1), fitting \in DOMAIN gaps,
         gaps \in Seq(ToSet(gaps)),
         NEW f \in Cut, ByCut(gaps[fitting], f), NEW i \in DOMAIN Fails, CutAt(f, i)
  PROVE  Fitting(gaps[fitting], idx) = {i}
<1> DEFINE g == gaps[fitting]
<1>1. /\ Len(Fails) \in Nat /\ DOMAIN Fails = 1..Len(Fails)
      /\ \A j \in DOMAIN Fails : Fails[j] \in Nat
      /\ \A j, k \in DOMAIN Fails : j <= k => Fails[j] <= Fails[k]
  BY FailsTypes
<1>2. g.low = CutOf(f).low /\ g.high = CutOf(f).high /\ g.low \in Nat /\ g.high \in Nat
  BY CutNumbers DEF ByCut, Reading
<1>3. \A j : j \in DOMAIN Fails /\ Fails[j] >= g.low /\ Fails[j] <= g.high <=> j = i
  <2>1. Fitting(CutOf(f), 1) = {j \in 1..Len(Fails) : Fails[j] >= g.low /\ Fails[j] <= g.high}
    BY <1>2 DEF Fitting
  <2> QED  BY <1>1, <2>1 DEF CutAt
<1>4. idx <= i
  <2>1. CASE idx = 1
    BY <1>1, <2>1
  <2>2. CASE idx # 1
    <3>1. PICK k \in 1..(fitting - 1) : k \in DOMAIN gaps /\ idx \in Fitting(gaps[k], 1)
      BY <2>2 DEF SearchOK
    <3>2. idx \in DOMAIN Fails /\ Fails[idx] >= gaps[k].low /\ Fails[idx] <= gaps[k].high
      BY <1>1, <3>1 DEF Fitting
    <3>3. k < fitting
      <4>1. fitting \in Nat
        BY DOMAIN gaps = 1..Len(gaps)
      <4> QED  BY <3>1, <4>1
    <3>4. gaps[k].high <= g.high
      BY <3>1, <3>3 DEF Ordered
    <3>5. gaps[k].high \in Nat
      <4>1. gaps[k] \in ToSet(gaps)
        BY <3>1 DEF ToSet
      <4>2. PICK h \in Cut : ByCut(gaps[k], h)
        BY <4>1, GapsOfCuts
      <4> QED  BY <4>2, CutNumbers DEF ByCut, Reading
    <3>6. Fails[idx] <= g.high
      BY <1>1, <1>2, <3>2, <3>4, <3>5
    <3>7. i <= idx => idx = i
      <4>1. ASSUME i <= idx PROVE idx = i
        <5>1. Fails[i] <= Fails[idx] /\ Fails[i] >= g.low
          BY <1>1, <1>3, <3>2, <4>1
        <5>2. Fails[idx] >= g.low
          BY <1>1, <1>2, <3>2, <5>1
        <5> QED  BY <1>3, <3>2, <3>6, <5>2
      <4> QED  BY <4>1
    <3> QED  BY <1>1, <3>2, <3>7
  <2> QED  BY <2>1, <2>2
<1>5. Fitting(g, idx) = {j \in idx..Len(Fails) : Fails[j] >= g.low /\ Fails[j] <= g.high}
  BY DEF Fitting
<1> HIDE DEF g
<1>6. \A j : j \in idx..Len(Fails) /\ Fails[j] >= g.low /\ Fails[j] <= g.high <=> j = i
  <2>1. \A j \in idx..Len(Fails) : j \in DOMAIN Fails
    BY <1>1
  <2>2. i \in idx..Len(Fails)
    BY <1>1, <1>4
  <2> QED  BY <1>3, <2>1, <2>2
<1>7. Fitting(g, idx) = {i}
  BY <1>5, <1>6
<1> QED  BY <1>7 DEF g

-----------------------------------------------------------------------------
(* The parser's steps                                                      *)

\* What the network did stays as it is.
LEMMA ParserFrame ==
  ASSUME ParserNext, UNCHANGED trafficVars
  PROVE  /\ UNCHANGED <<logs, network, path, outage>> /\ Clear' = Clear /\ Cut' = Cut
         /\ \A f, i : CutAt(f, i)' <=> CutAt(f, i)
         /\ \A g, f : ByCut(g, f)' <=> ByCut(g, f)
         /\ \A i : CutBy(i)' = CutBy(i)
<1>1. UNCHANGED <<logs, network, clock, path, outage, flight>>
  BY DEF trafficVars, ParserNext, ReadLine, EndLog, FileGap, SkipGap, NextLog, Converge, Report
<1>2. Flows' = Flows
  BY <1>1 DEF Flows
<1>3. Cut' = Cut
  BY <1>1, <1>2 DEF Cut
<1>4. \A f : CutOf(f)' = CutOf(f)
  BY <1>1 DEF CutOf
<1>5. Visible' = Visible /\ InOrder' = InOrder
  BY <1>1, <1>3, <1>4 DEF Visible, InOrder, Fitting
<1>6. Clear' = Clear
  BY <1>1, <1>5 DEF Clear, SimulationEnded
<1>7. \A f, i : CutAt(f, i)' <=> CutAt(f, i)
  BY <1>4 DEF CutAt, Fitting
<1>8. \A g, f : ByCut(g, f)' <=> ByCut(g, f)
  BY <1>1, <1>4 DEF ByCut
<1>9. \A i : CutBy(i)' = CutBy(i)
  BY <1>3, <1>4 DEF CutBy, Fitting
<1> QED  BY <1>1, <1>3, <1>6, <1>7, <1>8, <1>9

\* The parser's step in a simulation that is over.
Steps ==
  /\ UdpInv /\ TrafficOK /\ MeasureOK /\ MeasureOK' /\ Clear
  /\ Ordered /\ SearchOK /\ FiledOK /\ ReportOK
  /\ ParserNext /\ UNCHANGED trafficVars

\* Nothing is filed, and no more gaps have been looked at.
LEMMA FiledStill ==
  ASSUME Steps, UNCHANGED allGaps, \A f \in Cut : LookedAt(f)' => LookedAt(f)
  PROVE  FiledOK'
<1>1. /\ Cut' = Cut /\ \A f, i : CutAt(f, i)' <=> CutAt(f, i)
      /\ \A g, f : ByCut(g, f)' <=> ByCut(g, f)
  BY ParserFrame DEF Steps
<1>2. FiledOK
  BY DEF Steps
<1> QED  BY <1>1, <1>2 DEF FiledOK

LEMMA EmptyRange == \A k : ~(k \in 1..(0 - 1)) /\ ~(k \in 1..(1 - 1))
OBVIOUS

\* While a log is read, or its first gap is looked for, none has been.
LEMMA NoneLookedAt ==
  ASSUME UNCHANGED <<network, dir>>, fitting' = 0 \/ fitting' = 1
  PROVE  \A f : LookedAt(f)' => LookedAt(f)
BY EmptyRange DEF LookedAt

LEMMA StartOfSearch ==
  ASSUME SearchOK, fitting = 0 PROVE idx = 1
BY EmptyRange DEF SearchOK

LEMMA StepReadLine ==
  ASSUME Steps, ReadLine PROVE Ordered' /\ SearchOK' /\ FiledOK' /\ ReportOK'
<1>1. /\ dir \in DOMAIN logs /\ fitting = 0 /\ fitting' = 0
      /\ UNCHANGED <<dir, idx, allGaps, convergence, result>>
  BY DEF ReadLine
<1>2. Reading /\ UdpInv
  BY <1>1 DEF Steps, Reading
<1>3. PICK p, c, l : Reads(p, c, l) /\ Transition(c, l)
  BY <1>2, LineRead DEF UdpInv
<1>4. Ordered'
  BY <1>2, <1>3, OrderedRead DEF Steps
<1>5. SearchOK'
  <2>1. idx = 1
    BY <1>1, StartOfSearch DEF Steps
  <2> QED  BY <1>1, <2>1 DEF SearchOK
<1>6. UNCHANGED network /\ \A i : CutBy(i)' = CutBy(i)
  BY ParserFrame DEF Steps
<1>7. FiledOK'
  BY <1>1, <1>6, NoneLookedAt, FiledStill
<1>8. ReportOK'
  BY <1>1, <1>6 DEF Steps, ReportOK, Span
<1> QED  BY <1>4, <1>5, <1>7, <1>8

LEMMA StepEndLog ==
  ASSUME Steps, EndLog PROVE Ordered' /\ SearchOK' /\ FiledOK' /\ ReportOK'
<1>1. /\ dir \in DOMAIN logs /\ fitting = 0 /\ fitting' = 1
      /\ UNCHANGED <<logs, dir, gaps, idx, allGaps, convergence, result>>
  BY DEF EndLog
<1>2. Ordered'
  BY <1>1 DEF Steps, Ordered
<1>3. SearchOK'
  <2>1. idx = 1
    BY <1>1, StartOfSearch DEF Steps
  <2> QED  BY <1>1, <2>1 DEF SearchOK
<1>4. UNCHANGED network /\ \A i : CutBy(i)' = CutBy(i)
  BY ParserFrame DEF Steps
<1>5. FiledOK'
  BY <1>1, <1>4, NoneLookedAt, FiledStill
<1>6. ReportOK'
  BY <1>1, <1>4 DEF Steps, ReportOK, Span
<1> QED  BY <1>2, <1>3, <1>5, <1>6

\* The gap that is looked at, and its failure.
Filing(f, i) ==
  /\ Reading /\ fitting \in Nat \ {0} /\ gaps \in Seq(ToSet(gaps))
  /\ f \in Cut /\ network.flows[f].server = dir /\ ByCut(gaps[fitting], f)
  /\ i \in DOMAIN Fails /\ i \in Nat \ {0} /\ CutAt(f, i) /\ Fitting(gaps[fitting], idx) = {i}

LEMMA FilingOne ==
  ASSUME Steps, fitting \in DOMAIN gaps
  PROVE  \E f, i : Filing(f, i)
<1>1. gaps \in Seq(ToSet(gaps)) /\ idx \in 1..(Len(Fails) + 1)
  BY DEF Steps, UdpInv, ReadOK, CursorsOK
<1>2. DOMAIN gaps = 1..Len(gaps) /\ Len(gaps) \in Nat
  BY <1>1
<1>3. fitting \in Nat \ {0} /\ fitting > 0
  BY <1>2
<1>4. Reading
  BY <1>3 DEF Steps, Reading, SearchOK
<1>5. gaps[fitting] \in ToSet(gaps)
  BY DEF ToSet
<1>6. PICK f \in Cut : network.flows[f].server = dir /\ ByCut(gaps[fitting], f)
  BY <1>4, <1>5, GapsOfCuts
<1>7. PICK i \in DOMAIN Fails : CutAt(f, i)
  BY OneFailure DEF Steps
<1>8. Fitting(gaps[fitting], idx) = {i}
  BY <1>1, <1>4, <1>6, <1>7, FoundFailure DEF Steps
<1>9. i \in Nat \ {0}
  BY FailsTypes
<1> QED  BY <1>1, <1>3, <1>4, <1>6, <1>7, <1>8, <1>9 DEF Filing

LEMMA StepSkipGap ==
  ASSUME Steps, SkipGap PROVE FALSE
<1>1. fitting \in DOMAIN gaps /\ Fitting(gaps[fitting], idx) = {}
  BY DEF SkipGap
<1>2. PICK f, i : Filing(f, i)
  BY <1>1, FilingOne
<1> QED  BY <1>1, <1>2 DEF Filing

LEMMA LeastOfOne ==
  ASSUME NEW i \in Nat PROVE Min({i}) = i
<1>1. Min({i}) \in {i}
  BY LeastOfAll
<1> QED  BY <1>1

LEMMA StepFileGap ==
  ASSUME Steps, FileGap PROVE Ordered' /\ SearchOK' /\ FiledOK' /\ ReportOK'
<1>1. /\ fitting \in DOMAIN gaps /\ idx' = Min(Fitting(gaps[fitting], idx))
      /\ allGaps' = [allGaps EXCEPT ![idx'] = Append(allGaps[idx'], gaps[fitting])]
      /\ fitting' = fitting + 1 /\ UNCHANGED <<logs, dir, gaps, convergence, result>>
  BY DEF FileGap
<1>2. PICK f, i : Filing(f, i)
  BY <1>1, FilingOne
<1>3. PICK g : g = gaps[fitting]
  OBVIOUS
<1>4. /\ fitting \in Nat \ {0} /\ f \in Cut /\ network.flows[f].server = dir /\ ByCut(g, f)
      /\ i \in DOMAIN Fails /\ i \in Nat \ {0} /\ CutAt(f, i) /\ Fitting(g, idx) = {i}
      /\ dir \in DOMAIN logs /\ LogsOK
  BY <1>2, <1>3 DEF Filing, Reading, UdpInv
<1>5. idx' = i
  BY <1>1, <1>3, <1>4, LeastOfOne
<1>6. Ordered'
  BY <1>1 DEF Steps, Ordered
<1>7. SearchOK'
  <2>1. i \in Fitting(g, 1)
    <3>1. i \in Fitting(g, idx)
      BY <1>4
    <3>2. idx \in 1..(Len(Fails) + 1) /\ Len(Fails) \in Nat
      BY UdpParserAssumption DEF Steps, UdpInv, CursorsOK
    <3> QED  BY <3>1, <3>2 DEF Fitting
  <2>2. fitting \in 1..(fitting' - 1)
    BY <1>1, <1>4
  <2>3. Fitting(gaps[fitting], 1) = Fitting(g, 1)
    BY <1>3
  <2>4. \E k \in 1..(fitting' - 1) : k \in DOMAIN gaps' /\ idx' \in Fitting(gaps'[k], 1)
    BY <1>1, <1>5, <2>1, <2>2, <2>3
  <2> QED  BY <1>1, <1>4, <2>4 DEF SearchOK, Fitting
<1>8. /\ UNCHANGED <<network, path, outage>> /\ Cut' = Cut /\ \A h, j : CutAt(h, j)' <=> CutAt(h, j)
      /\ \A d, h : ByCut(d, h)' <=> ByCut(d, h)
      /\ \A j : CutBy(j)' = CutBy(j)
  BY ParserFrame DEF Steps
<1>9. /\ DOMAIN allGaps = DOMAIN Fails
      /\ \A j \in DOMAIN Fails : allGaps[j] \in Seq(ToSet(allGaps[j]))
      /\ \A j \in DOMAIN Fails : \A d \in ToSet(allGaps[j]) : \E h \in Cut : CutAt(h, j) /\ ByCut(d, h)
      /\ \A h \in Cut : LookedAt(h) => \A j \in DOMAIN Fails :
           CutAt(h, j) => \E d \in ToSet(allGaps[j]) : ByCut(d, h)
  BY DEF Steps, FiledOK
<1>10. /\ DOMAIN allGaps' = DOMAIN Fails /\ allGaps'[i] = Append(allGaps[i], g)
       /\ \A j \in DOMAIN Fails : j # i => allGaps'[j] = allGaps[j]
  BY <1>1, <1>3, <1>4, <1>5, <1>9
<1>11. /\ ToSet(allGaps'[i]) = ToSet(allGaps[i]) \cup {g}
       /\ allGaps'[i] \in Seq(ToSet(allGaps'[i]))
  <2>1. allGaps[i] \in Seq(ToSet(allGaps[i]))
    BY <1>4, <1>9
  <2>2. PICK q, r : q = allGaps[i] /\ r = allGaps'[i]
    OBVIOUS
  <2>3. ToSet(r) = ToSet(q) \cup {g} /\ r \in Seq(ToSet(q) \cup {g})
    BY <1>10, <2>1, <2>2, Appended
  <2> QED  BY <2>2, <2>3
<1>12. ASSUME NEW j \in DOMAIN Fails, NEW d \in ToSet(allGaps'[j])
       PROVE  \E h \in Cut : CutAt(h, j) /\ ByCut(d, h)
  <2>1. CASE j = i /\ d = g
    BY <1>4, <2>1
  <2>2. CASE j # i \/ d # g
    <3>1. d \in ToSet(allGaps[j])
      BY <1>10, <1>11, <1>12, <2>2
    <3> QED  BY <1>9, <3>1
  <2> QED  BY <2>1, <2>2
<1>13. ASSUME NEW h \in Cut, LookedAt(h)', NEW j \in DOMAIN Fails, CutAt(h, j)
       PROVE  \E d \in ToSet(allGaps'[j]) : ByCut(d, h)
  <2>1. CASE LookedAt(h)
    BY <1>9, <1>10, <1>11, <1>13, <2>1
  <2>2. CASE ~LookedAt(h)
    <3>1. /\ network.flows[h].server = dir
          /\ \E k \in 1..(fitting + 1 - 1) : k \in DOMAIN gaps /\ ByCut(gaps[k], h)
          /\ ~ \E k \in 1..(fitting - 1) : k \in DOMAIN gaps /\ ByCut(gaps[k], h)
      <4>1. \/ network.flows[h].server < dir
            \/ /\ network.flows[h].server = dir
               /\ \E k \in 1..(fitting + 1 - 1) : k \in DOMAIN gaps /\ ByCut(gaps[k], h)
        <5>1. UNCHANGED <<network, path, outage, gaps, dir>> /\ fitting' = fitting + 1
          BY <1>1, <1>8
        <5>2. CutOf(h)' = CutOf(h)
          BY <5>1 DEF CutOf
        <5> QED  BY <1>4, <1>13, <5>1, <5>2 DEF LookedAt, ByCut
      <4> QED  BY <2>2, <4>1 DEF LookedAt
    <3>2. ByCut(g, h)
      <4>1. \A k \in 1..(fitting + 1 - 1) : k \in 1..(fitting - 1) \/ k = fitting
        BY <1>4
      <4> QED  BY <1>3, <3>1, <4>1
    <3>3. h = f
      <4>1. h \in Flows /\ f \in Flows
        BY <1>4 DEF Cut
      <4>2. network.flows[h].src = network.flows[f].src
        BY <1>4, <3>2 DEF ByCut
      <4> QED  BY <1>4, <3>1, <4>1, <4>2, NetworkTypes
    <3>4. j = i
      BY <1>4, <1>13, <3>3 DEF CutAt
    <3> QED  BY <1>11, <3>2, <3>4
  <2> QED  BY <2>1, <2>2
<1>14. \A j \in DOMAIN Fails : allGaps'[j] \in Seq(ToSet(allGaps'[j]))
  BY <1>9, <1>10, <1>11
<1>15. FiledOK'
  BY <1>8, <1>10, <1>12, <1>13, <1>14 DEF FiledOK
<1>16. ReportOK'
  BY <1>1, <1>8 DEF Steps, ReportOK, Span
<1> QED  BY <1>6, <1>7, <1>15, <1>16

LEMMA StepNextLog ==
  ASSUME Steps, NextLog PROVE Ordered' /\ SearchOK' /\ FiledOK' /\ ReportOK'
<1>1. /\ fitting = Len(gaps) + 1 /\ dir' = dir + 1 /\ gaps' = <<>> /\ fitting' = 0 /\ idx' = 1
      /\ UNCHANGED <<logs, allGaps, convergence, result>>
  BY DEF NextLog
<1>2. UNCHANGED network /\ \A i : CutBy(i)' = CutBy(i)
  BY ParserFrame DEF Steps
<1>3. Ordered' /\ SearchOK'
  BY <1>1 DEF Ordered, SearchOK
<1>4. ReportOK'
  BY <1>1, <1>2 DEF Steps, ReportOK, Span
<1>5. gaps \in Seq(ToSet(gaps)) /\ LogsOK /\ dir \in Nat
  BY DEF Steps, UdpInv, ReadOK, CursorsOK, Time
<1>6. DOMAIN gaps = 1..(fitting - 1) /\ fitting > 0
  <2>1. DOMAIN gaps = 1..Len(gaps) /\ Len(gaps) \in Nat
    BY <1>5
  <2> QED  BY <1>1, <2>1
<1>7. Reading
  BY <1>6 DEF Steps, Reading, SearchOK
<1>8. ASSUME NEW f \in Cut, LookedAt(f)' PROVE LookedAt(f)
  <2>1. network.flows[f].server < dir + 1
    BY <1>1, <1>2, <1>8, EmptyRange DEF LookedAt
  <2>2. network.flows[f].server \in Nat
    <3>1. f \in Flows
      BY DEF Cut
    <3>2. network.flows[f].server \in DOMAIN logs /\ DOMAIN logs = 1..network.servers
      BY <1>5, <3>1, NetworkTypes
    <3> QED  BY <3>2
  <2>3. CASE network.flows[f].server = dir
    <3>1. PICK j \in DOMAIN gaps : ByCut(gaps[j], f)
      BY <1>6, <1>7, <2>3, CutsFound
    <3> QED  BY <1>6, <2>3, <3>1 DEF LookedAt
  <2>4. CASE network.flows[f].server # dir
    <3>1. network.flows[f].server < dir
      BY <1>5, <2>1, <2>2, <2>4
    <3> QED  BY <3>1 DEF LookedAt
  <2> QED  BY <2>3, <2>4
<1>9. FiledOK'
  BY <1>1, <1>8, FiledStill
<1> QED  BY <1>3, <1>4, <1>9

-----------------------------------------------------------------------------
(* What is reported                                                        *)

\* When all logs are read the gaps of a failure have the bounds of its cuts.
LEMMA BoundsFiled ==
  ASSUME Steps, Done, NEW i \in DOMAIN Fails
  PROVE  /\ {g.high : g \in ToSet(allGaps[i])} = {o.high : o \in CutBy(i)}
         /\ {g.low : g \in ToSet(allGaps[i])} = {o.low : o \in CutBy(i)}
         /\ ToSet(allGaps[i]) = {} <=> CutBy(i) = {}
<1> DEFINE found == ToSet(allGaps[i])
<1>1. ASSUME NEW g \in found PROVE \E o \in CutBy(i) : g.high = o.high /\ g.low = o.low
  <2>1. PICK f \in Cut : CutAt(f, i) /\ ByCut(g, f)
    BY DEF Steps, FiledOK
  <2>2. CutOf(f) \in CutBy(i)
    BY <2>1 DEF CutBy, CutAt
  <2> QED  BY <2>1, <2>2 DEF ByCut
<1>2. ASSUME NEW o \in CutBy(i) PROVE \E g \in found : g.high = o.high /\ g.low = o.low
  <2>1. PICK f \in Cut : CutAt(f, i) /\ o = CutOf(f)
    BY DEF CutBy, CutAt
  <2>2. LookedAt(f)
    <3>1. f \in Flows /\ LogsOK /\ dir \in Nat
      BY DEF Cut, Steps, UdpInv, CursorsOK, Time
    <3>2. network.flows[f].server \in DOMAIN logs /\ logs \in Seq(Seq(Line))
      BY <3>1, NetworkTypes DEF LogsOK
    <3>3. DOMAIN logs = 1..Len(logs) /\ Len(logs) \in Nat
      BY <3>2
    <3>4. network.flows[f].server < dir
      BY <3>1, <3>2, <3>3 DEF Done
    <3> QED  BY <3>4 DEF LookedAt
  <2>3. PICK g \in found : ByCut(g, f)
    BY <2>1, <2>2 DEF Steps, FiledOK
  <2> QED  BY <2>1, <2>3 DEF ByCut
<1> HIDE DEF found
<1>3. /\ {g.high : g \in found} = {o.high : o \in CutBy(i)}
      /\ {g.low : g \in found} = {o.low : o \in CutBy(i)}
      /\ found = {} <=> CutBy(i) = {}
  BY <1>1, <1>2
<1> QED  BY <1>3 DEF found

LEMMA StepConverge ==
  ASSUME Steps, Converge PROVE Ordered' /\ SearchOK' /\ FiledOK' /\ ReportOK'
<1>1. /\ Done /\ convergence = <<>>
      /\ UNCHANGED <<logs, dir, gaps, fitting, idx, allGaps, result>>
  BY DEF Converge
<1>2. UNCHANGED <<network, path, outage>> /\ \A i : CutBy(i)' = CutBy(i)
  BY ParserFrame DEF Steps
<1>3. Ordered' /\ SearchOK'
  BY <1>1 DEF Steps, Ordered, SearchOK
<1>4. \A f \in Cut : LookedAt(f)' => LookedAt(f)
  <2>1. \A f : CutOf(f)' = CutOf(f)
    BY <1>2 DEF CutOf
  <2> QED  BY <1>1, <1>2, <2>1 DEF LookedAt, ByCut
<1>5. FiledOK'
  BY <1>1, <1>4, FiledStill
<1>6. ASSUME NEW i \in DOMAIN Fails PROVE convergence'[i] = Span(CutBy(i))
  <2>1. convergence'[i] = LET found == ToSet(allGaps[i])
          IN IF found = {} THEN None ELSE Max({g.high : g \in found}) - Min({g.low : g \in found})
    BY DEF Converge
  <2>2. /\ {g.high : g \in ToSet(allGaps[i])} = {o.high : o \in CutBy(i)}
        /\ {g.low : g \in ToSet(allGaps[i])} = {o.low : o \in CutBy(i)}
        /\ ToSet(allGaps[i]) = {} <=> CutBy(i) = {}
    BY <1>1, BoundsFiled
  <2> QED  BY <2>1, <2>2 DEF Span
<1>7. convergence' # <<>> => Fails # <<>>
  <2>1. ASSUME Fails = <<>> PROVE convergence' = <<>>
    <3>1. DOMAIN Fails = {}
      BY <2>1
    <3>2. DOMAIN convergence' = DOMAIN Fails /\ convergence' = [i \in DOMAIN Fails |-> convergence'[i]]
      BY DEF Converge
    <3> QED  BY <3>1, <3>2
  <2> QED  BY <2>1
<1>8. result' = NotReported
  BY <1>1 DEF Steps, ReportOK
<1>9. ReportOK'
  <2>1. \A i : Span(CutBy(i))' = Span(CutBy(i))
    BY <1>2 DEF Span
  <2> QED  BY <1>6, <1>7, <1>8, <2>1 DEF ReportOK
<1> QED  BY <1>3, <1>5, <1>9

LEMMA StepReport ==
  ASSUME Steps, Report PROVE Ordered' /\ SearchOK' /\ FiledOK' /\ ReportOK'
<1>1. /\ convergence # <<>> /\ result' = IF convergence[1] = None THEN 0 ELSE convergence[1]
      /\ UNCHANGED <<logs, dir, gaps, fitting, idx, allGaps, convergence>>
  BY DEF Report
<1>2. UNCHANGED <<network, path, outage>> /\ \A i : CutBy(i)' = CutBy(i)
  BY ParserFrame DEF Steps
<1>3. Ordered' /\ SearchOK'
  BY <1>1 DEF Steps, Ordered, SearchOK
<1>4. \A f \in Cut : LookedAt(f)' => LookedAt(f)
  <2>1. \A f : CutOf(f)' = CutOf(f)
    BY <1>2 DEF CutOf
  <2> QED  BY <1>1, <1>2, <2>1 DEF LookedAt, ByCut
<1>5. FiledOK'
  BY <1>1, <1>4, FiledStill
<1>6. result' = convergence[1]
  BY <1>1 DEF None
<1>7. ReportOK'
  <2>1. \A i : Span(CutBy(i))' = Span(CutBy(i))
    BY <1>2 DEF Span
  <2> QED  BY <1>1, <1>6, <2>1 DEF Steps, ReportOK
<1> QED  BY <1>3, <1>5, <1>7

LEMMA SpansStep ==
  ASSUME UdpInv, TrafficOK, MeasureOK, MeasureOK', SpansOK,
         SimulationEnded, ParserNext, UNCHANGED trafficVars
  PROVE  SpansOK'
<1>1. SimulationEnded' /\ Clear' = Clear
  <2>1. UNCHANGED <<clock, network, flight>>
    BY DEF trafficVars
  <2> QED  BY <2>1, ParserFrame DEF SimulationEnded
<1>2. ASSUME Clear PROVE Ordered' /\ SearchOK' /\ FiledOK' /\ ReportOK'
  <2>1. Steps
    BY <1>2 DEF Steps, SpansOK
  <2> QED
    BY <2>1, StepReadLine, StepEndLog, StepFileGap, StepSkipGap, StepNextLog, StepConverge,
       StepReport DEF ParserNext
<1> QED  BY <1>1, <1>2 DEF SpansOK

LEMMA SpansNext ==
  UdpInv /\ TrafficOK /\ MeasureOK /\ SpansOK /\ [Next]_vars => SpansOK'
<1> SUFFICES ASSUME UdpInv, TrafficOK, MeasureOK, SpansOK, [Next]_vars PROVE SpansOK'
  OBVIOUS
<1>1. CASE Send \/ (\E p \in flight : Receive(p)) \/ Drain
  <2>1. ~SimulationEnded /\ UNCHANGED parserVars
    <3>1. clock \in Nat /\ network.packets \in Nat
      BY NetworkTypes DEF UdpInv
    <3>2. CASE Send
      BY <3>1, <3>2 DEF Send, SimulationEnded
    <3>3. CASE \E p \in flight : Receive(p)
      BY <3>3 DEF Receive, SimulationEnded
    <3>4. CASE Drain
      BY <3>4 DEF Drain, SimulationEnded
    <3> QED  BY <1>1, <3>2, <3>3, <3>4
  <2>2. ParserInit'
    BY <2>1 DEF SpansOK, ParserInit, parserVars
  <2>3. LogsOK'
    BY <1>1, SimulationStep
  <2>4. ParserInit' /\ LogsOK' => Ordered' /\ SearchOK' /\ FiledOK' /\ ReportOK'
    BY FreshSpans, PTL
  <2> QED  BY <2>2, <2>3, <2>4 DEF SpansOK
<1>2. CASE SimulationEnded /\ ParserNext /\ UNCHANGED trafficVars
  BY <1>2, MeasureNext, SpansStep
<1>3. CASE UNCHANGED vars
  <2>1. /\ UNCHANGED <<logs, network, clock, path, outage, flight>>
        /\ UNCHANGED <<dir, pos, control, gaps, fitting, idx, allGaps, convergence, result>>
    BY <1>3 DEF vars, parserVars, trafficVars
  <2>2. Flows' = Flows /\ SimulationEnded' = SimulationEnded /\ ParserInit' = ParserInit
    BY <2>1 DEF Flows, SimulationEnded, ParserInit
  <2>3. Cut' = Cut /\ \A f : CutOf(f)' = CutOf(f)
    BY <2>1, <2>2 DEF Cut, CutOf
  <2>4. Clear' = Clear
    BY <2>1, <2>2, <2>3 DEF Clear, Visible, InOrder, Fitting
  <2>5. /\ \A f, i : CutAt(f, i)' <=> CutAt(f, i)
        /\ \A g, f : ByCut(g, f)' <=> ByCut(g, f)
        /\ \A i : CutBy(i)' = CutBy(i)
    BY <2>1, <2>3 DEF CutAt, ByCut, CutBy, Fitting
  <2>6. \A f : LookedAt(f)' <=> LookedAt(f)
    BY <2>1, <2>3 DEF LookedAt, ByCut
  <2>7. Ordered' = Ordered /\ SearchOK' = SearchOK
    BY <2>1 DEF Ordered, SearchOK, Fitting
  <2>8. FiledOK => FiledOK'
    BY <2>1, <2>3, <2>5, <2>6 DEF FiledOK
  <2>9. ReportOK => ReportOK'
    BY <2>1, <2>5 DEF ReportOK, Span
  <2> QED  BY <2>2, <2>4, <2>7, <2>8, <2>9 DEF SpansOK
<1> QED  BY <1>1, <1>2, <1>3 DEF Next

\* In every simulation of any size in which each path is cut at most once,
\* around one failure, and no packet overtakes another one of its source, the
\* convergence time of each failure spans what the network did to the flows it
\* cut, and the report is that of the first failure.
THEOREM ConvergenceIsSpan == Spec => []ConvergenceSpans
<1>1. SpansOK => ConvergenceSpans
  <2> SUFFICES ASSUME SpansOK, result # NotReported, ~network.free, Visible, InOrder
               PROVE  /\ \A i \in DOMAIN Fails : convergence[i] = Span(CutBy(i))
                      /\ result = Span(CutBy(1))
    BY DEF ConvergenceSpans
  <2>1. SimulationEnded
    BY DEF SpansOK, ParserInit
  <2>2. ReportOK
    BY <2>1 DEF SpansOK, Clear
  <2>3. 1 \in DOMAIN Fails
    <3>1. Fails # <<>>
      BY <2>2 DEF ReportOK
    <3> QED  BY <3>1, UdpParserAssumption
  <2> QED  BY <2>2, <2>3 DEF ReportOK
<1>2. Init => MeasureOK /\ TrafficOK /\ SpansOK
  <2>1. Init => ParserInit
    BY DEF Init
  <2>2. Init => LogsOK
    BY UdpInvInit DEF UdpInv
  <2> QED  BY <2>1, <2>2, UdpInvInit, FreshMeasured, TrafficInit, FreshSpans DEF SpansOK
<1>3. Spec => []SpansOK
  BY <1>2, UdpInvAlways, MeasureNext, TrafficNext, SpansNext, PTL DEF Spec
<1> QED  BY <1>1, <1>3, PTL
===============================================================================
