--------------------------- MODULE LinkFailureProofs ---------------------------
(***************************************************************************)
(* The simulator's event queue in one run of link failures, for every      *)
(* topology, every list of failures and every runtime: what is in the      *)
(* queue and what has left it, in terms of the rows of the failures file.  *)
(*                                                                         *)
(* SimInv is the inductive invariant.  The events that have left the queue *)
(* are the past: a row's failure of a link is done once its event is gone, *)
(* the newest of the failures done on a link says which error model the    *)
(* link has and when that model is lifted, and an interface is down once   *)
(* one of the events that take it down is gone.                            *)
(*                                                                         *)
(* CountInv adds how many failures have been done: one error model for     *)
(* each, and at the stop all that begin by then.                           *)
(***************************************************************************)
EXTENDS LinkFailure, NtfParserProofs

Start(i) == AsU32(rows[i].begin)
Length(i) == AsU32(rows[i].end)

\* The numbers of the events that ScheduleFailure creates for row i follow
\* Base(i); those of link c come at 3 * c, and d[2] says which end d is.
Base(i) == (i - 1) * (3 * (Len(links) + 1))
FailOf(i, c) == Fail(rows[i], c, Base(i) + 3 * c)
DownOf(i, d) == Down(rows[i], d, 15 + 3 * d[2], Base(i) + 3 * d[1] + 1 + d[2])

\* The rows, of those scheduled, that fail link c, those whose failure is
\* done, and the newest of these.
Hits(c) == {i \in 1..(row - 1) : c \in Selected(rows[i])}
Done(c) == {i \in Hits(c) : FailOf(i, c) \notin queue}
Earlier(i, j) == Start(i) < Start(j) \/ (Start(i) = Start(j) /\ i < j)
Newest(i, c) == i \in Done(c) /\ \A j \in Done(c) : j = i \/ Earlier(j, i)

IsLift(e) == e.kind = "lift" /\ e.model \in DOMAIN models
IsStop(e) == e.kind = "stop" /\ e.at = Runtime * 1000

Event(e) ==
  /\ e.at \in Nat /\ e.at >= now
  /\ e.uid \in Nat /\ e.uid < uid
  /\ \/ \E c \in Chans : \E i \in Hits(c) : e = FailOf(i, c)
     \/ \E c \in Chans : \E i \in Hits(c) : \E d \in Ends(c) : e = DownOf(i, d)
     \/ IsLift(e) \/ IsStop(e)

QueueOK == \A e \in queue : Event(e)

PastOK == \A c \in Chans : \A i \in Hits(c) :
  /\ FailOf(i, c) \notin queue => FailOf(i, c).at <= now
  /\ \A d \in Ends(c) : DownOf(i, d) \notin queue => DownOf(i, d).at <= now

OrderOK == \A c \in Chans : \A i \in Done(c) : \A j \in Hits(c) \ Done(c) : Earlier(i, j)

\* Error model m carries out the failure of row i.
CarriesOut(m, i) ==
  /\ \A e \in queue : e.kind = "lift" /\ e.model = m =>
       Length(i) # 0 /\ e.at = (Start(i) + Length(i)) * 1000
  /\ models[m] => Length(i) = 0 \/ \E e \in queue : e.kind = "lift" /\ e.model = m
  /\ ~models[m] => Length(i) # 0 /\ now >= (Start(i) + Length(i)) * 1000

ModelOK(c) ==
  /\ em[<<c, 0>>] = em[<<c, 1>>]
  /\ em[<<c, 0>>] = 0 => Done(c) = {}
  /\ em[<<c, 0>>] # 0 =>
       /\ \E i \in Done(c) : Newest(i, c) /\ CarriesOut(em[<<c, 0>>], i)
       /\ \A x \in Chans : x # c => em[<<x, 0>>] # em[<<c, 0>>]

ModelsOK == \A c \in Chans : ModelOK(c)

IfacesOK == \A c \in Chans : \A d \in Ends(c) :
  iface[d] = "down" <=> \E i \in Hits(c) : DownOf(i, d) \notin queue

TypesOK ==
  /\ IsSequence(links)
  /\ row \in 1..(Len(rows) + 1)
  /\ now \in Nat /\ uid \in Nat
  /\ models \in Seq(BOOLEAN)
  /\ em \in [Devices -> 0..Len(models)]
  /\ iface \in [Devices -> {"up", "down"}]

\* What is still as it was, and what is already settled, in each phase.
StagesOK ==
  /\ phase \in {"topology", "installed", "failures", "setup", "running", "stopped"}
  /\ phase = "topology" => links = <<>>
  /\ phase \in {"topology", "installed", "failures"} => row = 1 /\ queue = {}
  /\ phase \in {"topology", "installed", "failures", "setup"} =>
       /\ uid = Base(row) /\ now = 0 /\ models = <<>>
       /\ \A d \in Devices : iface[d] = "up"
       /\ \A e \in queue : e.kind # "stop"
  /\ phase \in {"running", "stopped"} => row = Len(rows) + 1
  /\ phase = "running" => \E e \in queue : IsStop(e)
  /\ phase = "stopped" => now = Runtime * 1000

SimInv == TypesOK /\ StagesOK /\ QueueOK /\ PastOK /\ OrderOK /\ ModelsOK /\ IfacesOK
\* The begin of no line wraps in milliseconds.
TimesOK == \A i \in DOMAIN Lines : Lines[i].begin * 1000 + 18 < U32

-----------------------------------------------------------------------------
(* Numbers of events and their times                                       *)

\* What is left of a number that is q times n and a rest.
LEMMA Rest ==
  ASSUME NEW n \in Nat, NEW q \in Nat, NEW r \in 0..(n - 1)
  PROVE  (q * n + r) % n = r
OBVIOUS

\* An absent begin is 2^32 - 1, and its milliseconds wrap to the last second
\* of the clock; any other is what it is, and no time wraps.
LEMMA Times ==
  ASSUME NEW b \in Missable, b * 1000 + 18 < U32, NEW o \in {15, 18}
  PROVE  /\ AsU32(b) \in Nat
         /\ b # Missing => AsU32(b) = b /\ (AsU32(b) * 1000 + o) % U32 = b * 1000 + o
         /\ b = Missing => /\ AsU32(b) = U32 - 1
                           /\ (AsU32(b) * 1000 + o) % U32 = U32 - 1000 + o
<1>1. U32 \in Nat /\ U32 > 1000
  BY LinkFailureAssumption
<1>2. CASE b = Missing
  <2>1. AsU32(b) = U32 - 1
    <3>1. (-1) % U32 = U32 - 1
      BY <1>1
    <3> QED  BY <1>2, <3>1 DEF AsU32, Missing
  <2>2. (U32 - 1) * 1000 + o = 999 * U32 + (U32 - 1000 + o) /\ U32 - 1000 + o \in 0..(U32 - 1)
    BY <1>1
  <2>3. (999 * U32 + (U32 - 1000 + o)) % U32 = U32 - 1000 + o
    BY <1>1, <2>2, Rest
  <2> QED  BY <1>1, <1>2, <2>1, <2>2, <2>3
<1>3. CASE b # Missing
  <2>1. b \in Nat /\ b < U32 /\ b * 1000 + o \in 0..(U32 - 1)
    BY <1>1, <1>3 DEF Missable, Missing
  <2>2. AsU32(b) = b
    BY <1>1, <2>1 DEF AsU32
  <2> QED  BY <1>1, <1>3, <2>1, <2>2
<1> QED  BY <1>2, <1>3

\* The events of a later row have higher numbers.
LEMMA BaseGrows ==
  ASSUME NEW w \in Nat, NEW i \in Nat, NEW j \in Nat, i < j
  PROVE  (i - 1) * w + w <= (j - 1) * w
<1>1. (i - 1) * w + w = i * w
  OBVIOUS
<1> DEFINE k == j - 1 - i
<1>2. k \in Nat /\ j - 1 = i + k
  OBVIOUS
<1>3. (i + k) * w = i * w + k * w /\ k * w \in Nat /\ i * w \in Nat
  BY <1>2
<1> HIDE DEF k
<1> QED  BY <1>1, <1>2, <1>3

LEMMA FailFields ==
  ASSUME NEW i, NEW c
  PROVE  /\ FailOf(i, c).kind = "fail" /\ FailOf(i, c).at = Start(i) * 1000
         /\ FailOf(i, c).uid = Base(i) + 3 * c
         /\ FailOf(i, c).link = c /\ FailOf(i, c).duration = Length(i)
BY DEF FailOf, Fail, Start, Length

LEMMA DownFields ==
  ASSUME NEW i, NEW d
  PROVE  /\ DownOf(i, d).kind = "down" /\ DownOf(i, d).device = d
         /\ DownOf(i, d).at = (Start(i) * 1000 + (15 + 3 * d[2])) % U32
         /\ DownOf(i, d).uid = Base(i) + 3 * d[1] + 1 + d[2]
BY DEF DownOf, Down, DownAt, Start

\* What a step that leaves the rows and the links alone leaves alone.
LEMMA Frame ==
  ASSUME UNCHANGED <<vars, links>>
  PROVE  /\ Chans' = Chans /\ Devices' = Devices
         /\ \A i : Start(i)' = Start(i) /\ Length(i)' = Length(i) /\ Base(i)' = Base(i)
         /\ \A i, c : FailOf(i, c)' = FailOf(i, c) /\ DownOf(i, c)' = DownOf(i, c)
         /\ \A i, j : Earlier(i, j)' <=> Earlier(i, j)
         /\ row' = row => \A c : Hits(c)' = Hits(c)
BY DEF vars, Chans, Devices, Start, Length, FailOf, Fail, DownOf, Down, DownAt, Base, Hits,
       Selected, Earlier

\* An event to come stays one.
LEMMA EventStays ==
  ASSUME NEW e, Event(e), e.uid < uid', e.at >= now', UNCHANGED <<vars, links>>,
         \A c \in Chans : Hits(c) \subseteq Hits(c)', DOMAIN models \subseteq DOMAIN models'
  PROVE  Event(e)'
<1>1. /\ Chans' = Chans
      /\ \A i, c : FailOf(i, c)' = FailOf(i, c) /\ DownOf(i, c)' = DownOf(i, c)
  BY Frame
<1>2. CASE \E c \in Chans : \E i \in Hits(c) : e = FailOf(i, c)
  BY <1>1, <1>2 DEF Event
<1>3. CASE \E c \in Chans : \E i \in Hits(c) : \E d \in Ends(c) : e = DownOf(i, d)
  BY <1>1, <1>3 DEF Event, Ends
<1>4. CASE IsLift(e) \/ IsStop(e)
  BY <1>4 DEF Event, IsLift, IsStop
<1> QED  BY <1>2, <1>3, <1>4 DEF Event

LEMMA Links ==
  ASSUME TypesOK
  PROVE  /\ Len(links) \in Nat /\ Chans = 1..Len(links)
         /\ \A c \in Chans : \A d \in Ends(c) : d \in Devices /\ d[1] = c /\ d[2] \in {0, 1}
BY Indices DEF TypesOK, Chans, Ends, Devices

\* A scheduled row is a row.
LEMMA HitRow ==
  ASSUME TypesOK, ParserInv, NEW c, NEW i \in Hits(c)
  PROVE  i \in DOMAIN rows /\ i \in Nat /\ i < row
<1>1. Len(rows) \in Nat /\ DOMAIN rows = 1..Len(rows)
  BY DEF ParserInv, RowsOK
<1>2. i \in 1..(row - 1) /\ row \in 1..(Len(rows) + 1)
  BY DEF Hits, TypesOK
<1> QED  BY <1>1, <1>2

\* The times of a row.
LEMMA RowTimes ==
  ASSUME ParserInv, TimesOK, NEW i \in DOMAIN rows
  PROVE  /\ rows[i].begin \in Missable /\ rows[i].begin * 1000 + 18 < U32
         /\ Start(i) \in Nat /\ Length(i) \in Nat
<1>1. rows[i] \in Row
  BY DEF ParserInv, RowsOK
<1>2. rows[i].begin \in Missable /\ rows[i].end \in Missable
  BY <1>1 DEF Row
<1>3. PICK j \in DOMAIN Lines :
        Stems(rows[i], {map[rows[i].src + 1], map[rows[i].dst + 1]}, Lines[j])
  BY DEF ParserInv, RowsOK
<1>4. rows[i].begin * 1000 + 18 < U32
  BY <1>3 DEF Stems, TimesOK
<1>5. Start(i) \in Nat
  BY <1>2, <1>4, Times DEF Start
<1>6. Length(i) \in Nat
  <2>1. U32 \in Nat /\ U32 > 0
    BY LinkFailureAssumption
  <2>2. \A n \in Int : n % U32 \in Nat
    BY <2>1
  <2> QED  BY <1>2, <2>2 DEF Length, AsU32, Missable, Missing
<1> QED  BY <1>2, <1>4, <1>5, <1>6

\* An interface goes down 15 or 18 ms after the failure, or the line has no
\* begin and neither event comes before the end of the run.
LEMMA DownTime ==
  ASSUME TypesOK, ParserInv, TimesOK, NEW i \in DOMAIN rows, NEW c \in Chans, NEW d \in Ends(c)
  PROVE  /\ DownOf(i, d).at \in Nat
         /\ \/ /\ rows[i].begin # Missing /\ Start(i) = rows[i].begin
               /\ DownOf(i, d).at \in {Start(i) * 1000 + 15, Start(i) * 1000 + 18}
            \/ /\ rows[i].begin = Missing
               /\ DownOf(i, d).at > Runtime * 1000 /\ Start(i) > Runtime
<1> DEFINE o == 15 + 3 * d[2]
           b == rows[i].begin
<1>1. o \in {15, 18}
  BY Links
<1>2. b \in Missable /\ b * 1000 + 18 < U32
  BY RowTimes
<1>3. DownOf(i, d).at = (Start(i) * 1000 + o) % U32 /\ Start(i) = AsU32(b)
  BY DownFields DEF Start
<1> HIDE DEF o, b
<1>4. /\ b # Missing => AsU32(b) = b /\ (AsU32(b) * 1000 + o) % U32 = b * 1000 + o
      /\ b = Missing => /\ AsU32(b) = U32 - 1
                        /\ (AsU32(b) * 1000 + o) % U32 = U32 - 1000 + o
  BY <1>1, <1>2, Times
<1>5. Runtime \in Nat /\ U32 \in Nat /\ Runtime * 1000 < U32 - 1000
  BY LinkFailureAssumption
<1> HIDE DEF Missing
<1>6. CASE b = Missing
  BY <1>1, <1>3, <1>4, <1>5, <1>6 DEF b
<1>7. CASE b # Missing
  <2>1. b \in Nat
    BY <1>2, <1>7 DEF Missable
  <2> QED  BY <1>1, <1>3, <1>4, <1>7, <2>1 DEF b
<1> QED  BY <1>6, <1>7

-----------------------------------------------------------------------------
(* Set-up                                                                  *)

\* Nothing has happened as long as no error model exists.
LEMMA NothingDone ==
  ASSUME SimInv, models = <<>>, \A d \in Devices : iface[d] = "up"
  PROVE  /\ \A d \in Devices : em[d] = 0
         /\ \A c \in Chans : \A i \in Hits(c) :
              FailOf(i, c) \in queue /\ \A d \in Ends(c) : DownOf(i, d) \in queue
<1>1. \A d \in Devices : em[d] = 0
  <2>1. Len(models) = 0
    OBVIOUS
  <2> QED  BY <2>1 DEF SimInv, TypesOK
<1> SUFFICES ASSUME NEW c \in Chans, NEW i \in Hits(c)
             PROVE  FailOf(i, c) \in queue /\ \A d \in Ends(c) : DownOf(i, d) \in queue
  BY <1>1
<1>2. <<c, 0>> \in Ends(c) /\ \A d \in Ends(c) : d \in Devices
  BY Links DEF SimInv, Ends
<1>3. Done(c) = {}
  BY <1>1, <1>2 DEF SimInv, ModelsOK, ModelOK
<1>4. \A d \in Ends(c) : iface[d] # "down"
  BY <1>2
<1> QED  BY <1>3, <1>4 DEF Done, SimInv, IfacesOK

\* No event has left the queue and no device has a model.
Fresh ==
  /\ \A c \in Chans : em[<<c, 0>>] = 0 /\ em[<<c, 1>>] = 0
  /\ \A c \in Chans : \A d \in Ends(c) : iface[d] # "down"
  /\ \A c \in Chans : \A i \in Hits(c) :
       FailOf(i, c) \in queue /\ \A d \in Ends(c) : DownOf(i, d) \in queue

LEMMA FreshPast == Fresh => PastOK /\ OrderOK /\ ModelsOK /\ IfacesOK
<1>1. Fresh => \A c \in Chans : Done(c) = {}
  BY DEF Fresh, Done
<1> QED  BY <1>1 DEF Fresh, PastOK, OrderOK, ModelsOK, ModelOK, IfacesOK

LEMMA FreshSetup ==
  ASSUME SimInv, models = <<>>, \A d \in Devices : iface[d] = "up"
  PROVE  Fresh
<1>1. \A c \in Chans : <<c, 0>> \in Devices /\ <<c, 1>> \in Devices
  BY DEF Devices
<1>2. \A c \in Chans : \A d \in Ends(c) : d \in Devices
  BY <1>1 DEF Ends
<1> QED  BY <1>1, <1>2, NothingDone DEF Fresh

LEMMA ScheduleFailureInv ==
  ASSUME SimInv, ParserInv, TimesOK, ScheduleFailure
  PROVE  SimInv'
<1> DEFINE r == rows[row]
           w == 3 * (Len(links) + 1)
           new == UNION { {Fail(r, c, uid + 3 * c),
                           Down(r, <<c, 0>>, 15, uid + 3 * c + 1),
                           Down(r, <<c, 1>>, 18, uid + 3 * c + 2)} : c \in Selected(r) }
<1>1. /\ phase = "setup" /\ row <= Len(rows)
      /\ queue' = queue \cup new
      /\ uid' = uid + 3 * (Len(links) + 1)
      /\ row' = row + 1
      /\ UNCHANGED <<vars, links, phase, now, models, em, iface>>
  BY DEF ScheduleFailure
<1>2. /\ rows' = rows /\ Len(rows) \in Nat /\ DOMAIN rows = 1..Len(rows)
      /\ row \in DOMAIN rows /\ row \in Nat \ {0} /\ uid \in Nat
      /\ Len(links) \in Nat /\ Chans = 1..Len(links)
  BY <1>1, Links DEF vars, SimInv, TypesOK, ParserInv, RowsOK
<1>3. /\ Chans' = Chans /\ Devices' = Devices
      /\ \A i : Start(i)' = Start(i) /\ Length(i)' = Length(i) /\ Base(i)' = Base(i)
      /\ \A i, c : FailOf(i, c)' = FailOf(i, c) /\ DownOf(i, c)' = DownOf(i, c)
  BY <1>1, Frame
<1>4. /\ uid = Base(row) /\ now = 0 /\ models = <<>> /\ \A d \in Devices : iface[d] = "up"
      /\ \A e \in queue : e.kind # "stop"
  BY <1>1 DEF SimInv, StagesOK
<1>5. Fresh /\ \A d \in Devices : em[d] = 0
  BY <1>4, FreshSetup, NothingDone
\* The three events of a link.
<1>6. \A c \in Chans : /\ FailOf(row, c) = Fail(r, c, uid + 3 * c)
                       /\ DownOf(row, <<c, 0>>) = Down(r, <<c, 0>>, 15, uid + 3 * c + 1)
                       /\ DownOf(row, <<c, 1>>) = Down(r, <<c, 1>>, 18, uid + 3 * c + 2)
  <2> SUFFICES ASSUME NEW c \in Chans
               PROVE  /\ FailOf(row, c) = Fail(r, c, uid + 3 * c)
                      /\ DownOf(row, <<c, 0>>) = Down(r, <<c, 0>>, 15, uid + 3 * c + 1)
                      /\ DownOf(row, <<c, 1>>) = Down(r, <<c, 1>>, 18, uid + 3 * c + 2)
    OBVIOUS
  <2>1. 15 + 3 * 0 = 15 /\ 15 + 3 * 1 = 18 /\ c \in Nat
    BY <1>2
  <2>2. uid + 3 * c + 1 + 0 = uid + 3 * c + 1 /\ uid + 3 * c + 1 + 1 = uid + 3 * c + 2
    BY <1>2, <2>1
  <2> QED  BY <1>4, <2>1, <2>2, Zenon DEF FailOf, DownOf
<1>7. /\ \A c \in Chans : \A i \in Hits(c)' : i \in Hits(c) \/ (i = row /\ c \in Selected(r))
      /\ \A c \in Chans : Hits(c) \subseteq Hits(c)'
      /\ \A c \in Selected(r) : c \in Chans /\ row \in Hits(c)'
  BY <1>1, <1>2 DEF Hits, Selected, Chans
<1>8. \A c \in Selected(r) : FailOf(row, c) \in new /\ \A d \in Ends(c) : DownOf(row, d) \in new
  <2> SUFFICES ASSUME NEW c \in Selected(r)
               PROVE  FailOf(row, c) \in new /\ \A d \in Ends(c) : DownOf(row, d) \in new
    OBVIOUS
  <2>1. {Fail(r, c, uid + 3 * c), Down(r, <<c, 0>>, 15, uid + 3 * c + 1),
         Down(r, <<c, 1>>, 18, uid + 3 * c + 2)} \subseteq new
    OBVIOUS
  <2> HIDE DEF new
  <2>2. c \in Chans
    BY <1>7
  <2> QED  BY <1>6, <2>1, <2>2 DEF Ends
<1>9. \A e \in new : \E c \in Selected(r) :
        e = FailOf(row, c) \/ \E d \in Ends(c) : e = DownOf(row, d)
  BY <1>6, <1>7 DEF Ends
<1> HIDE DEF new, r
<1>10. Fresh'
  BY <1>1, <1>3, <1>5, <1>7, <1>8 DEF Fresh
<1>11. PastOK' /\ OrderOK' /\ ModelsOK' /\ IfacesOK'
  BY <1>10, FreshPast, PTL
<1>12. TypesOK'
  BY <1>1, <1>2, <1>3 DEF SimInv, TypesOK
<1>13. \A e \in new : e.kind # "stop" /\ Event(e)'
  <2> SUFFICES ASSUME NEW e \in new PROVE e.kind # "stop" /\ Event(e)'
    OBVIOUS
  <2>1. PICK c \in Selected(r) : e = FailOf(row, c) \/ \E d \in Ends(c) : e = DownOf(row, d)
    BY <1>9
  <2>2. c \in Chans /\ c \in Nat /\ c <= Len(links) /\ row \in Hits(c)'
    BY <1>2, <1>7
  <2>3. Start(row) \in Nat
    BY <1>2, RowTimes
  <2>4. CASE e = FailOf(row, c)
    <3>1. e.kind = "fail" /\ e.at = Start(row) * 1000 /\ e.uid = uid + 3 * c
      BY <1>4, <2>4, FailFields
    <3>2. e.at \in Nat /\ e.at >= now'
      BY <1>1, <1>2, <1>4, <2>3, <3>1
    <3>3. e.uid \in Nat /\ e.uid < uid'
      BY <1>1, <1>2, <1>4, <2>2, <3>1
    <3> QED  BY <1>3, <2>2, <2>4, <3>1, <3>2, <3>3 DEF Event
  <2>5. ASSUME NEW d \in Ends(c), e = DownOf(row, d) PROVE e.kind # "stop" /\ Event(e)'
    <3>1. e.kind = "down" /\ e.uid = uid + 3 * d[1] + 1 + d[2]
      BY <1>4, <2>5, DownFields
    <3>2. d[1] = c /\ d[2] \in {0, 1}
      BY <2>2, Links DEF SimInv
    <3>3. e.at \in Nat
      BY <1>2, <2>2, <2>5, DownTime DEF SimInv
    <3>4. e.at >= now' /\ e.uid \in Nat /\ e.uid < uid'
      <4>1. e.uid = uid + 3 * c + 1 \/ e.uid = uid + 3 * c + 1 + 1
        BY <1>2, <2>2, <3>1, <3>2
      <4>2. e.uid \in Nat /\ e.uid < uid'
        <5>1. ASSUME NEW a \in Nat, NEW b \in Nat, b <= Len(links)
              PROVE  a + 3 * b + 1 + 1 \in Nat /\ a + 3 * b + 1 + 1 < a + 3 * (Len(links) + 1)
          BY <1>2, <5>1
        <5>2. uid' = uid + 3 * (Len(links) + 1)
          BY <1>1
        <5>3. /\ uid + 3 * c + 1 + 1 \in Nat /\ uid + 3 * c + 1 + 1 < uid'
              /\ uid + 3 * c + 1 \in Nat /\ uid + 3 * c + 1 < uid + 3 * c + 1 + 1
              /\ uid' \in Nat
          BY <1>2, <2>2, <5>1, <5>2
        <5> QED  BY <4>1, <5>3
      <4>3. e.at >= now'
        BY <1>1, <1>2, <1>4, <3>3
      <4> QED  BY <4>2, <4>3
    <3>5. d \in Ends(c)'
      BY DEF Ends
    <3> QED  BY <1>3, <2>2, <2>5, <3>1, <3>3, <3>4, <3>5 DEF Event
  <2> QED  BY <2>1, <2>4, <2>5
<1>14. \A e \in queue : Event(e)'
  <2> SUFFICES ASSUME NEW e \in queue PROVE Event(e)'
    OBVIOUS
  <2>1. Event(e) /\ e.kind # "stop"
    BY <1>4 DEF SimInv, QueueOK
  <2>2. e.uid < uid'
    BY <1>1, <1>2, <2>1 DEF Event
  <2>3. e.at >= now'
    BY <1>1, <2>1 DEF Event
  <2> QED  BY <1>1, <1>7, <2>1, <2>2, <2>3, EventStays
<1>15. QueueOK'
  BY <1>1, <1>13, <1>14 DEF QueueOK
<1>16. uid' = Base(row)'
  <2>1. (row - 1) * w + w = ((row + 1) - 1) * w
    BY <1>2
  <2>2. uid' = (row - 1) * w + w
    BY <1>1, <1>4 DEF Base
  <2> QED  BY <1>1, <2>1, <2>2 DEF Base
<1>17. StagesOK'
  BY <1>1, <1>3, <1>4, <1>13, <1>16 DEF StagesOK
<1> QED  BY <1>11, <1>12, <1>15, <1>17 DEF SimInv

LEMMA RunInv ==
  ASSUME SimInv, ParserInv, Run
  PROVE  SimInv'
<1>1. /\ phase = "setup" /\ row > Len(rows) /\ phase' = "running"
      /\ uid' = uid + 1
      /\ UNCHANGED <<vars, links, row, now, models, em, iface>>
  BY DEF Run
<1>2. PICK stop : /\ queue' = queue \cup {stop}
                  /\ stop.kind = "stop" /\ stop.at = Runtime * 1000 /\ stop.uid = uid
  <2> DEFINE s == [kind |-> "stop", at |-> Runtime * 1000, uid |-> uid]
  <2>1. s.kind = "stop" /\ s.at = Runtime * 1000 /\ s.uid = uid
    OBVIOUS
  <2>2. queue' = queue \cup {s}
    BY DEF Run
  <2> HIDE DEF s
  <2> QED  BY <2>1, <2>2
<1>3. /\ Chans' = Chans /\ Devices' = Devices
      /\ \A i, c : FailOf(i, c)' = FailOf(i, c) /\ DownOf(i, c)' = DownOf(i, c)
      /\ \A c : Hits(c)' = Hits(c)
  BY <1>1, Frame
<1>4. now = 0 /\ models = <<>> /\ \A d \in Devices : iface[d] = "up"
  BY <1>1 DEF SimInv, StagesOK
<1>5. Fresh'
  <2>1. Fresh
    BY <1>4, FreshSetup
  <2> QED  BY <1>1, <1>2, <1>3, <2>1 DEF Fresh, Ends
<1>6. PastOK' /\ OrderOK' /\ ModelsOK' /\ IfacesOK'
  BY <1>5, FreshPast, PTL
<1>7. rows' = rows /\ Len(rows) \in Nat /\ row = Len(rows) + 1 /\ uid \in Nat
  BY <1>1 DEF vars, SimInv, TypesOK, ParserInv, RowsOK
<1>8. TypesOK'
  BY <1>1, <1>3, <1>7 DEF SimInv, TypesOK
<1>9. QueueOK'
  <2>1. ASSUME NEW e \in queue PROVE Event(e)'
    <3>1. Event(e)
      BY DEF SimInv, QueueOK
    <3>2. e.uid < uid'
      BY <1>1, <1>7, <3>1 DEF Event
    <3>3. e.at >= now'
      BY <1>1, <3>1 DEF Event
    <3> QED  BY <1>1, <1>3, <3>1, <3>2, <3>3, EventStays
  <2>2. Event(stop)'
    <3>1. Runtime \in Nat
      BY LinkFailureAssumption
    <3>2. stop.at \in Nat /\ stop.at >= now' /\ stop.uid \in Nat /\ stop.uid < uid'
      BY <1>1, <1>2, <1>4, <1>7, <3>1
    <3> QED  BY <1>2, <3>2 DEF Event, IsStop
  <2> QED  BY <1>2, <2>1, <2>2 DEF QueueOK
<1>10. StagesOK'
  BY <1>1, <1>2, <1>7 DEF StagesOK, IsStop
<1> QED  BY <1>6, <1>8, <1>9, <1>10 DEF SimInv

-----------------------------------------------------------------------------
(* The simulation                                                          *)

\* What kind of event comes from where.
LEMMA EventKinds ==
  ASSUME NEW e, Event(e)
  PROVE  /\ e.kind \in {"fail", "down", "lift", "stop"}
         /\ e.kind = "fail" => \E c \in Chans : \E i \in Hits(c) : e = FailOf(i, c)
         /\ e.kind = "down" =>
              \E c \in Chans : \E i \in Hits(c) : \E d \in Ends(c) : e = DownOf(i, d)
         /\ e.kind = "lift" => e.model \in DOMAIN models
         /\ e.kind = "stop" => e.at = Runtime * 1000
<1>1. CASE \E c \in Chans : \E i \in Hits(c) : e = FailOf(i, c)
  BY <1>1, FailFields
<1>2. CASE \E c \in Chans : \E i \in Hits(c) : \E d \in Ends(c) : e = DownOf(i, d)
  BY <1>2, DownFields
<1>3. CASE IsLift(e) \/ IsStop(e)
  BY <1>3 DEF IsLift, IsStop
<1> QED  BY <1>1, <1>2, <1>3 DEF Event

\* Two failures of a link are two events, and the event of the later row has
\* the higher number.
LEMMA FailOnce ==
  ASSUME TypesOK, ParserInv, NEW c \in Chans, NEW i \in Hits(c), NEW j \in Hits(c), i < j
  PROVE  FailOf(i, c).uid < FailOf(j, c).uid /\ FailOf(i, c) # FailOf(j, c)
<1> DEFINE w == 3 * (Len(links) + 1)
<1>1. w \in Nat /\ w > 0 /\ c \in Nat
  BY Links
<1>2. i \in Nat /\ j \in Nat
  BY DEF TypesOK, Hits, ParserInv, RowsOK
<1>3. Base(i) = (i - 1) * w /\ Base(j) = (j - 1) * w
  BY DEF Base
<1> HIDE DEF w
<1>4. (i - 1) * w + w <= (j - 1) * w /\ (i - 1) * w \in Int /\ (j - 1) * w \in Int
  BY <1>1, <1>2, BaseGrows
<1>5. Base(i) + 3 * c < Base(j) + 3 * c /\ Base(i) + 3 * c # Base(j) + 3 * c
  BY <1>1, <1>3, <1>4
<1> QED  BY <1>5, FailFields

\* The simulator takes event e, and only LinkFailure creates other events.
Takes(e) ==
  /\ e \in queue /\ Dispatch(e)
  /\ e \notin queue' /\ queue \ {e} \subseteq queue'
  /\ \A f \in queue' : f \in queue \/ f.kind = "lift"
  /\ UNCHANGED <<vars, links, row>>

LEMMA Dispatched ==
  ASSUME SimInv, NEW e \in queue, Dispatch(e)
  PROVE  /\ Event(e)
         /\ now' = e.at /\ now \in Nat /\ now' \in Nat /\ now <= now' /\ now' <= Runtime * 1000
         /\ \A f \in queue : f.at \in Nat /\ f.at >= now'
         /\ phase = "running" /\ row = Len(rows) + 1
<1>1. now' = e.at /\ phase = "running"
  BY DEF Dispatch
<1>2. \A f \in queue : Event(f) /\ f.at \in Nat /\ f.at >= now
  BY DEF SimInv, QueueOK, Event
<1>3. \A f \in queue : f.at >= e.at
  <2>1. \A f \in queue \ {e} : f.at >= e.at
    BY <1>2 DEF Dispatch
  <2> QED  BY <1>2, <2>1
<1>4. e.at <= Runtime * 1000
  <2>1. PICK f \in queue : f.at = Runtime * 1000
    BY <1>1 DEF SimInv, StagesOK, IsStop
  <2> QED  BY <1>2, <1>3, <2>1
<1> QED  BY <1>1, <1>2, <1>3, <1>4 DEF SimInv, StagesOK, TypesOK

\* The events that are left are still good, and e belongs to the past.
LEMMA TakenQueue ==
  ASSUME SimInv, ParserInv, TimesOK, NEW e, Takes(e), uid' \in Nat, uid <= uid', DOMAIN models \subseteq DOMAIN models'
  PROVE  (\A f \in queue \ {e} : Event(f)') /\ PastOK'
<1>1. /\ Chans' = Chans /\ \A c : Hits(c)' = Hits(c)
      /\ \A i, c : FailOf(i, c)' = FailOf(i, c) /\ DownOf(i, c)' = DownOf(i, c)
  BY Frame DEF Takes
<1>2. /\ now' = e.at /\ now \in Nat /\ now' \in Nat /\ now <= now'
      /\ \A f \in queue : f.at \in Nat /\ f.at >= now'
  BY Dispatched DEF Takes
<1>3. ASSUME NEW f \in queue \ {e} PROVE Event(f)'
  <2>1. Event(f)
    BY DEF SimInv, QueueOK
  <2>2. f.uid < uid' /\ f.at >= now'
    BY <1>2, <2>1 DEF Event, SimInv, TypesOK
  <2> QED  BY <1>1, <2>1, <2>2, EventStays DEF Takes
<1>4. \A f : f \notin queue' => f \notin queue \/ f = e
  BY DEF Takes
<1>5. PastOK'
  <2> SUFFICES ASSUME NEW c \in Chans, NEW i \in Hits(c)
               PROVE  /\ FailOf(i, c) \notin queue' => FailOf(i, c).at <= now'
                      /\ \A d \in Ends(c) : DownOf(i, d) \notin queue' => DownOf(i, d).at <= now'
    BY <1>1 DEF PastOK, Ends
  <2>1. ASSUME NEW f, f.at \in Nat, f \notin queue => f.at <= now, f \notin queue'
        PROVE  f.at <= now'
    BY <1>2, <1>4, <2>1
  <2>2. i \in DOMAIN rows /\ Start(i) \in Nat
    BY HitRow, RowTimes DEF SimInv
  <2>3. FailOf(i, c).at \in Nat /\ \A d \in Ends(c) : DownOf(i, d).at \in Nat
    BY <2>2, FailFields, DownTime DEF SimInv
  <2>4. /\ FailOf(i, c) \notin queue => FailOf(i, c).at <= now
        /\ \A d \in Ends(c) : DownOf(i, d) \notin queue => DownOf(i, d).at <= now
    BY DEF SimInv, PastOK
  <2> QED  BY <2>1, <2>3, <2>4
<1> QED  BY <1>3, <1>5

\* Which failures are done after e: those done before, and e's.
LEMMA TakenDone ==
  ASSUME NEW e, Takes(e), NEW c \in Chans
  PROVE  /\ \A i \in Hits(c) : FailOf(i, c) # e => (i \in Done(c)' <=> i \in Done(c))
         /\ \A i \in Hits(c) : FailOf(i, c) = e => i \in Done(c)' /\ i \notin Done(c)
         /\ Done(c)' \subseteq Hits(c)
<1>1. /\ \A i \in Hits(c) : FailOf(i, c)' = FailOf(i, c)
      /\ Hits(c)' = Hits(c)
  BY Frame DEF Takes
<1>2. \A i \in Hits(c) : FailOf(i, c).kind = "fail"
  BY FailFields
<1>3. \A i \in Hits(c) : FailOf(i, c) # e => (FailOf(i, c) \in queue' <=> FailOf(i, c) \in queue)
  BY <1>2 DEF Takes
<1>4. \A i \in Hits(c) : FailOf(i, c) = e => FailOf(i, c) \notin queue' /\ FailOf(i, c) \in queue
  BY DEF Takes
<1>5. \A i : i \in Done(c)' <=> i \in Hits(c) /\ FailOf(i, c) \notin queue'
  BY <1>1 DEF Done
<1>6. \A i : i \in Done(c) <=> i \in Hits(c) /\ FailOf(i, c) \notin queue
  BY DEF Done
<1> QED  BY <1>3, <1>4, <1>5, <1>6

\* What is done is done in the order of begins and rows.
LEMMA TakenOrder ==
  ASSUME SimInv, ParserInv, TimesOK, NEW e, Takes(e)
  PROVE  OrderOK'
<1>1. Chans' = Chans /\ \A i, j : Earlier(i, j)' <=> Earlier(i, j)
  BY Frame DEF Takes
<1>2. \A c \in Chans : Hits(c)' = Hits(c)
  BY Frame DEF Takes
<1> SUFFICES ASSUME NEW c \in Chans, NEW i \in Done(c)', NEW j \in Hits(c), j \notin Done(c)'
             PROVE  Earlier(i, j)
  BY <1>1, <1>2 DEF OrderOK
<1>3. i \in Hits(c)
  BY TakenDone
<1>4. FailOf(j, c) # e /\ j \notin Done(c) /\ FailOf(j, c) \in queue
  BY TakenDone DEF Done
<1>5. CASE FailOf(i, c) # e
  <2>1. i \in Done(c)
    BY <1>3, <1>5, TakenDone
  <2> QED  BY <1>4, <2>1 DEF SimInv, OrderOK
<1>6. CASE FailOf(i, c) = e
  <2>1. e.at < FailOf(j, c).at \/ (e.at = FailOf(j, c).at /\ e.uid < FailOf(j, c).uid)
    BY <1>4 DEF Takes, Dispatch
  <2>2. /\ Start(i) \in Nat /\ Start(j) \in Nat /\ i \in Nat /\ j \in Nat
    BY <1>3, HitRow, RowTimes DEF SimInv
  <2>3. Start(i) < Start(j) \/ (Start(i) = Start(j) /\ FailOf(i, c).uid < FailOf(j, c).uid)
    BY <1>6, <2>1, <2>2, FailFields
  <2>4. FailOf(i, c).uid < FailOf(j, c).uid => i < j
    <3>1. /\ FailOf(i, c).uid \in Int /\ FailOf(j, c).uid \in Int
      <4>1. Event(e) /\ Event(FailOf(j, c))
        BY <1>4 DEF SimInv, QueueOK, Takes
      <4> QED  BY <1>6, <4>1 DEF Event
    <3>2. CASE j < i
      <4>1. FailOf(j, c).uid < FailOf(i, c).uid
        BY <1>3, <3>2, FailOnce DEF SimInv
      <4> QED  BY <3>1, <4>1
    <3>3. CASE i = j
      BY <1>4, <1>6, <3>3
    <3> QED  BY <2>2, <3>2, <3>3
  <2> QED  BY <2>3, <2>4 DEF Earlier
<1> QED  BY <1>5, <1>6

\* A model goes on carrying out its row when nothing happens to it.
LEMMA CarriesOn ==
  ASSUME NEW m, NEW i, CarriesOut(m, i), now \in Nat, now' \in Nat, now <= now',
         Start(i) \in Nat, Length(i) \in Nat,
         models'[m] = models[m], UNCHANGED <<vars, links>>,
         \A f : f.kind = "lift" /\ f.model = m => (f \in queue' <=> f \in queue)
  PROVE  CarriesOut(m, i)'
<1>1. Start(i)' = Start(i) /\ Length(i)' = Length(i)
  BY Frame
<1>2. \A f \in queue' : f.kind = "lift" /\ f.model = m =>
        Length(i) # 0 /\ f.at = (Start(i) + Length(i)) * 1000
  BY DEF CarriesOut
<1>3. models'[m] => Length(i) = 0 \/ \E f \in queue' : f.kind = "lift" /\ f.model = m
  BY DEF CarriesOut
<1>4. ~models'[m] => Length(i) # 0 /\ now' >= (Start(i) + Length(i)) * 1000
  BY DEF CarriesOut
<1> QED  BY <1>1, <1>2, <1>3, <1>4 DEF CarriesOut

\* A link whose devices keep their model, and on which nothing new is done.
LEMMA LinkStays ==
  ASSUME SimInv, ParserInv, TimesOK, NEW e, Takes(e), NEW c \in Chans,
         e.kind = "fail" => e.link # c,
         em'[<<c, 0>>] = em[<<c, 0>>], em'[<<c, 1>>] = em[<<c, 1>>],
         \A x \in Chans : x # c => em'[<<x, 0>>] = em[<<x, 0>>] \/ em'[<<x, 0>>] \notin DOMAIN models,
         em[<<c, 0>>] # 0 => \A i \in Done(c) :
           CarriesOut(em[<<c, 0>>], i) => CarriesOut(em[<<c, 0>>], i)'
  PROVE  ModelOK(c)'
<1>1. /\ Chans' = Chans /\ Hits(c)' = Hits(c) /\ \A i, j : Earlier(i, j)' <=> Earlier(i, j)
  BY Frame DEF Takes
<1>2. Done(c)' = Done(c)
  <2>1. \A i \in Hits(c) : FailOf(i, c) # e
    BY FailFields
  <2>2. Done(c) \subseteq Hits(c)
    BY DEF Done
  <2> QED  BY <2>1, <2>2, TakenDone
<1>3. ModelOK(c)
  BY DEF SimInv, ModelsOK
<1> DEFINE m == em[<<c, 0>>]
<1>4. m # 0 => \E i \in Done(c) : Newest(i, c)' /\ CarriesOut(m, i)'
  <2> SUFFICES ASSUME m # 0 PROVE \E i \in Done(c) : Newest(i, c)' /\ CarriesOut(m, i)'
    OBVIOUS
  <2>1. PICK i \in Done(c) : Newest(i, c) /\ CarriesOut(m, i)
    BY <1>3 DEF ModelOK
  <2>2. Newest(i, c)'
    BY <1>1, <1>2, <2>1 DEF Newest
  <2> QED  BY <2>1, <2>2
<1>5. m # 0 => \A x \in Chans : x # c => em'[<<x, 0>>] # m
  <2>1. m \in 0..Len(models) /\ Len(models) \in Nat /\ DOMAIN models = 1..Len(models)
    <3>1. <<c, 0>> \in Devices
      BY DEF Devices
    <3> QED  BY <3>1 DEF SimInv, TypesOK
  <2>2. m # 0 => m \in DOMAIN models
    BY <2>1
  <2> QED  BY <1>3, <2>2 DEF ModelOK
<1>6. em'[<<c, 0>>] = em'[<<c, 1>>] /\ (m = 0 => Done(c)' = {})
  BY <1>2, <1>3 DEF ModelOK
<1>7. em'[<<c, 0>>] = m
  OBVIOUS
<1> HIDE DEF m
<1>8. m # 0 => \E i \in Done(c)' : Newest(i, c)' /\ CarriesOut(em[<<c, 0>>], i)'
  BY <1>2, <1>4 DEF m
<1> QED  BY <1>1, <1>5, <1>6, <1>7, <1>8 DEF ModelOK, m

\* The devices' models are numbers, and 0 is none.
LEMMA ModelNumbers ==
  ASSUME TypesOK
  PROVE  /\ Len(models) \in Nat /\ DOMAIN models = 1..Len(models)
         /\ \A c \in Chans : /\ em[<<c, 0>>] \in 0..Len(models)
                             /\ em[<<c, 0>>] # 0 => em[<<c, 0>>] \in DOMAIN models
<1>1. Len(models) \in Nat /\ DOMAIN models = 1..Len(models)
  BY DEF TypesOK
<1>2. \A c \in Chans : em[<<c, 0>>] \in 0..Len(models)
  BY DEF TypesOK, Devices
<1> QED  BY <1>1, <1>2

\* The interfaces that are down do not change unless e takes one down.
LEMMA TakenIfaces ==
  ASSUME SimInv, NEW e, Takes(e), e.kind # "down", iface' = iface
  PROVE  IfacesOK'
<1>1. /\ Chans' = Chans
      /\ \A i, d : DownOf(i, d)' = DownOf(i, d)
      /\ \A c : Hits(c)' = Hits(c)
  BY Frame DEF Takes
<1>2. \A i, d : DownOf(i, d) \in queue' <=> DownOf(i, d) \in queue
  <2>1. \A i, d : DownOf(i, d).kind = "down"
    BY DownFields
  <2> QED  BY <2>1 DEF Takes
<1>3. \A c \in Chans : \A d \in Ends(c) :
        iface[d] = "down" <=> \E i \in Hits(c) : DownOf(i, d) \notin queue
  BY DEF SimInv, IfacesOK
<1> QED  BY <1>1, <1>2, <1>3 DEF IfacesOK, Ends

LEMMA FailLinkInv ==
  ASSUME SimInv, ParserInv, TimesOK, NEW e \in queue, FailLink(e)
  PROVE  SimInv'
<1> DEFINE n == Len(models')
<1>1. /\ e.kind = "fail" /\ Dispatch(e)
      /\ models' = Append(models, TRUE)
      /\ em' = [d \in Devices |-> IF d \in Ends(e.link) THEN n ELSE em[d]]
      /\ uid' = uid + 1
      /\ UNCHANGED <<vars, links, row, phase, iface>>
      /\ e.duration = 0 => queue' = queue \ {e}
  BY DEF FailLink
<1>2. PICK lift : /\ lift.kind = "lift" /\ lift.at = e.at + e.duration * 1000 /\ lift.uid = uid
                  /\ lift.model = n
                  /\ e.duration # 0 => queue' = (queue \ {e}) \cup {lift}
  <2> DEFINE l == [kind |-> "lift", at |-> e.at + e.duration * 1000, uid |-> uid, model |-> n]
  <2>1. l.kind = "lift" /\ l.at = e.at + e.duration * 1000 /\ l.uid = uid /\ l.model = n
    OBVIOUS
  <2>2. e.duration # 0 => queue' = (queue \ {e}) \cup {l}
    BY DEF FailLink
  <2> HIDE DEF l, n
  <2> QED  BY <2>1, <2>2
<1>3. Takes(e)
  BY <1>1, <1>2 DEF Takes
<1>4. /\ n = Len(models) + 1 /\ DOMAIN models = 1..(n - 1) /\ DOMAIN models' = 1..n
      /\ models' \in Seq(BOOLEAN) /\ n \in Nat \ {0}
      /\ models'[n] = TRUE /\ \A m \in DOMAIN models : models'[m] = models[m]
  <2>1. models \in Seq(BOOLEAN) /\ TRUE \in BOOLEAN /\ Len(models) \in Nat
    BY DEF SimInv, TypesOK
  <2>2. /\ models' \in Seq(BOOLEAN) /\ n = Len(models) + 1
        /\ \A m \in 1..Len(models) : models'[m] = models[m]
        /\ models'[Len(models) + 1] = TRUE
    BY <1>1, <2>1, AppendProperties
  <2>3. DOMAIN models = 1..Len(models) /\ DOMAIN models' = 1..n
    BY <2>1, <2>2
  <2> HIDE DEF n
  <2>4. n - 1 = Len(models) /\ n \in Nat \ {0}
    BY <2>1, <2>2
  <2> QED  BY <2>2, <2>3, <2>4
<1> HIDE DEF n
<1>b. \A x \in Chans : /\ em[<<x, 0>>] \in Int /\ em[<<x, 0>>] < n
                       /\ em[<<x, 0>>] # 0 => em[<<x, 0>>] \in DOMAIN models
  <2> SUFFICES ASSUME NEW x \in Chans
               PROVE  /\ em[<<x, 0>>] \in Int /\ em[<<x, 0>>] < n
                      /\ em[<<x, 0>>] # 0 => em[<<x, 0>>] \in DOMAIN models
    OBVIOUS
  <2>1. /\ em[<<x, 0>>] \in 0..Len(models) /\ Len(models) \in Nat
        /\ em[<<x, 0>>] # 0 => em[<<x, 0>>] \in DOMAIN models
    BY ModelNumbers DEF SimInv
  <2> QED  BY <1>4, <2>1
<1>a. PICK c \in Chans : \E i \in Hits(c) : e = FailOf(i, c)
  BY <1>1, EventKinds DEF SimInv, QueueOK
<1>5. PICK i \in Hits(c) : e = FailOf(i, c)
  BY <1>a
<1>6. e.link = c /\ e.duration = Length(i) /\ e.at = Start(i) * 1000
  BY <1>5, FailFields
<1>7. Start(i) \in Nat /\ Length(i) \in Nat /\ i \in Nat
  BY HitRow, RowTimes DEF SimInv
<1>8. /\ now' = e.at /\ now \in Nat /\ now' \in Nat /\ now <= now'
      /\ phase = "running" /\ row = Len(rows) + 1 /\ Event(e)
  BY <1>1, Dispatched
<1>9. /\ Chans' = Chans /\ Devices' = Devices
      /\ \A j : Start(j)' = Start(j) /\ Length(j)' = Length(j)
      /\ \A j, k : Earlier(j, k)' <=> Earlier(j, k)
      /\ Hits(c)' = Hits(c)
  BY <1>1, Frame
<1>10. uid \in Nat /\ uid' \in Nat /\ uid <= uid'
  BY <1>1 DEF SimInv, TypesOK
<1>11. (\A f \in queue \ {e} : Event(f)') /\ PastOK'
  BY <1>3, <1>4, <1>10, TakenQueue
<1>12. OrderOK' /\ IfacesOK'
  BY <1>1, <1>3, TakenOrder, TakenIfaces
<1>13. TypesOK'
  <2>1. em \in [Devices -> 0..(n - 1)]
    BY <1>4 DEF SimInv, TypesOK
  <2>2. em' \in [Devices -> 0..n]
    BY <1>1, <1>4, <2>1
  <2>3. n = Len(models')
    BY DEF n
  <2> QED  BY <1>1, <1>4, <1>8, <1>9, <1>10, <2>2, <2>3 DEF SimInv, TypesOK, vars
<1>14. QueueOK'
  <2>1. e.duration # 0 => Event(lift)'
    <3>1. lift.at \in Nat /\ lift.at >= now'
      <4>1. lift.at = now' + Length(i) * 1000
        BY <1>2, <1>6, <1>8
      <4> QED  BY <1>7, <1>8, <4>1
    <3>2. lift.uid \in Nat /\ lift.uid < uid'
      BY <1>1, <1>2, <1>10
    <3>3. IsLift(lift)'
      BY <1>2, <1>4 DEF IsLift
    <3> QED  BY <3>1, <3>2, <3>3 DEF Event
  <2> QED  BY <1>1, <1>2, <1>11, <2>1 DEF QueueOK
<1>15. StagesOK'
  <2>1. PICK f \in queue : IsStop(f)
    BY <1>8 DEF SimInv, StagesOK
  <2>2. f \in queue' /\ IsStop(f)'
    BY <1>1, <1>3, <2>1 DEF Takes, IsStop
  <2> QED  BY <1>1, <1>8, <2>2 DEF StagesOK, vars
<1>16. \A x \in Chans : /\ <<x, 0>> \in Devices /\ <<x, 1>> \in Devices
                        /\ <<x, 0>> \in Ends(c) <=> x = c
                        /\ <<x, 1>> \in Ends(c) <=> x = c
  BY DEF Devices, Ends
<1>17. /\ em'[<<c, 0>>] = n /\ em'[<<c, 1>>] = n
       /\ \A x \in Chans : x # c => em'[<<x, 0>>] = em[<<x, 0>>] /\ em'[<<x, 1>>] = em[<<x, 1>>]
  BY <1>1, <1>6, <1>16
\* The other links.
<1>18. ASSUME NEW x \in Chans, x # c PROVE ModelOK(x)'
  <2>1. PICK m : m = em[<<x, 0>>]
    OBVIOUS
  <2>2. m # 0 => m \in DOMAIN models /\ m # n
    <3>1. m \in Int /\ m < n /\ (m # 0 => m \in DOMAIN models)
      BY <1>b, <2>1
    <3> QED  BY <1>4, <3>1
  <2>3. ASSUME m # 0, NEW j \in Done(x), CarriesOut(m, j) PROVE CarriesOut(m, j)'
    <3>1. \A f : f.kind = "lift" /\ f.model = m => (f \in queue' <=> f \in queue)
      BY <1>1, <1>2, <2>2, <2>3
    <3>2. models'[m] = models[m]
      BY <1>4, <2>2, <2>3
    <3>3. j \in Hits(x)
      BY DEF Done
    <3>4. Start(j) \in Nat /\ Length(j) \in Nat
      BY <3>3, HitRow, RowTimes DEF SimInv
    <3> QED  BY <1>1, <1>8, <2>3, <3>1, <3>2, <3>4, CarriesOn
  <2>4. em'[<<x, 0>>] = m /\ em'[<<x, 1>>] = em[<<x, 1>>]
    BY <1>17, <1>18, <2>1
  <2>5. ASSUME em[<<x, 0>>] # 0, NEW j \in Done(x), CarriesOut(em[<<x, 0>>], j)
        PROVE  CarriesOut(em[<<x, 0>>], j)'
    <3>1. CarriesOut(m, j)'
      BY <2>1, <2>3, <2>5
    <3> QED  BY <2>4, <3>1 DEF CarriesOut
  <2>6. \A y \in Chans : y # x => em'[<<y, 0>>] = em[<<y, 0>>] \/ em'[<<y, 0>>] \notin DOMAIN models
    <3> SUFFICES ASSUME NEW y \in Chans, y # x
                 PROVE  em'[<<y, 0>>] = em[<<y, 0>>] \/ em'[<<y, 0>>] \notin DOMAIN models
      OBVIOUS
    <3>1. CASE y = c
      BY <1>4, <1>17, <3>1
    <3>2. CASE y # c
      BY <1>17, <3>2
    <3> QED  BY <3>1, <3>2
  <2>7. em[<<x, 0>>] # 0 => \A j \in Done(x) :
          CarriesOut(em[<<x, 0>>], j) => CarriesOut(em[<<x, 0>>], j)'
    BY <2>5
  <2>8. e.link # x /\ em'[<<x, 0>>] = em[<<x, 0>>] /\ em'[<<x, 1>>] = em[<<x, 1>>]
    BY <1>6, <1>18, <2>1, <2>4
  <2> QED  BY <1>3, <2>6, <2>7, <2>8, LinkStays
\* The link that fails.
<1>19. ModelOK(c)'
  <2>1. i \in Done(c)' /\ i \notin Done(c)
    BY <1>3, <1>5, TakenDone
  <2>2. \A j \in Done(c)' : j = i \/ Earlier(j, i)
    <3> SUFFICES ASSUME NEW j \in Done(c)', j # i PROVE Earlier(j, i)
      OBVIOUS
    <3>1. j \in Hits(c)
      BY <1>3, TakenDone
    <3>2. FailOf(j, c) # e
      <4>1. i < j \/ j < i
        BY <1>7, <3>1, HitRow DEF SimInv
      <4> QED  BY <1>5, <3>1, <4>1, FailOnce DEF SimInv
    <3>3. j \in Done(c)
      BY <1>3, <3>1, <3>2, TakenDone
    <3> QED  BY <2>1, <3>3 DEF SimInv, OrderOK
  <2>3. Newest(i, c)'
    BY <1>9, <2>1, <2>2 DEF Newest
  <2>4. \A f \in queue : f.kind = "lift" => f.model # n
    <3>1. \A f \in queue : f.kind = "lift" => f.model \in DOMAIN models
      BY EventKinds DEF SimInv, QueueOK
    <3> QED  BY <1>4, <3>1
  <2>5. \A f \in queue' : f.kind = "lift" /\ f.model = n => f = lift /\ Length(i) # 0
    BY <1>1, <1>2, <1>6, <2>4
  <2>6. lift.at = (Start(i) + Length(i)) * 1000
    BY <1>2, <1>6, <1>7
  <2>7. Length(i) = 0 \/ \E f \in queue' : f.kind = "lift" /\ f.model = n
    BY <1>1, <1>2, <1>6
  <2>8. CarriesOut(em[<<c, 0>>], i)'
    BY <1>4, <1>9, <1>17, <2>5, <2>6, <2>7 DEF CarriesOut
  <2>9. \A x \in Chans : x # c => em'[<<x, 0>>] # n
    <3> SUFFICES ASSUME NEW x \in Chans, x # c PROVE em'[<<x, 0>>] # n
      OBVIOUS
    <3>1. em'[<<x, 0>>] = em[<<x, 0>>]
      BY <1>17
    <3>2. em[<<x, 0>>] \in Int /\ em[<<x, 0>>] < n
      BY <1>b
    <3> QED  BY <1>4, <3>1, <3>2
  <2> QED  BY <1>4, <1>9, <1>17, <2>1, <2>3, <2>8, <2>9 DEF ModelOK
<1>20. ModelsOK'
  BY <1>9, <1>18, <1>19 DEF ModelsOK
<1> QED  BY <1>11, <1>12, <1>13, <1>14, <1>15, <1>20 DEF SimInv

\* A step that takes an event other than a failure, and ends models at most of
\* that event.
LEMMA QuietLinks ==
  ASSUME SimInv, ParserInv, TimesOK, NEW e, Takes(e), e.kind # "fail",
         queue' = queue \ {e}, em' = em,
         \A m \in DOMAIN models : (e.kind = "lift" => m # e.model) => models'[m] = models[m],
         e.kind = "lift" => models'[e.model] = FALSE
  PROVE  ModelsOK'
<1>1. Chans' = Chans
  BY Frame DEF Takes
<1>2. /\ now' = e.at /\ now \in Nat /\ now' \in Nat /\ now <= now'
  BY Dispatched DEF Takes
<1> SUFFICES ASSUME NEW c \in Chans PROVE ModelOK(c)'
  BY <1>1 DEF ModelsOK
<1>3. PICK m : m = em[<<c, 0>>]
  OBVIOUS
<1>4. m # 0 => m \in DOMAIN models
  BY <1>3, ModelNumbers DEF SimInv
<1>5. ASSUME m # 0, NEW i \in Done(c), CarriesOut(m, i) PROVE CarriesOut(m, i)'
  <2>1. Start(i) \in Nat /\ Length(i) \in Nat
    <3>1. i \in Hits(c)
      BY DEF Done
    <3> QED  BY <3>1, HitRow, RowTimes DEF SimInv
  <2>2. CASE e.kind = "lift" => m # e.model
    <3>1. \A f : f.kind = "lift" /\ f.model = m => (f \in queue' <=> f \in queue)
      BY <2>2
    <3>2. models'[m] = models[m]
      BY <1>4, <1>5, <2>2
    <3>3. UNCHANGED <<vars, links>>
      BY DEF Takes
    <3> QED  BY <1>2, <1>5, <2>1, <3>1, <3>2, <3>3, CarriesOn
  <2>3. CASE e.kind = "lift" /\ m = e.model
    <3>1. Length(i) # 0 /\ e.at = (Start(i) + Length(i)) * 1000
      BY <1>5, <2>3 DEF CarriesOut, Takes
    <3>2. ~models'[m]
      BY <2>3
    <3>3. Start(i)' = Start(i) /\ Length(i)' = Length(i)
      BY Frame DEF Takes
    <3>4. now' >= (Start(i) + Length(i)) * 1000
      BY <1>2, <3>1
    <3>5. \A f \in queue' : f.kind = "lift" /\ f.model = m =>
            Length(i) # 0 /\ f.at = (Start(i) + Length(i)) * 1000
      BY <1>5 DEF CarriesOut
    <3> QED  BY <3>1, <3>2, <3>3, <3>4, <3>5 DEF CarriesOut
  <2> QED  BY <2>2, <2>3
<1>6. em[<<c, 0>>] # 0 => \A i \in Done(c) :
        CarriesOut(em[<<c, 0>>], i) => CarriesOut(em[<<c, 0>>], i)'
  <2> SUFFICES ASSUME em[<<c, 0>>] # 0, NEW i \in Done(c), CarriesOut(em[<<c, 0>>], i)
               PROVE  CarriesOut(em[<<c, 0>>], i)'
    OBVIOUS
  <2>1. CarriesOut(m, i)' /\ em'[<<c, 0>>] = m
    BY <1>3, <1>5
  <2> QED  BY <2>1 DEF CarriesOut
<1> QED  BY <1>6, LinkStays

\* What the three quiet events have in common.
LEMMA QuietEvent ==
  ASSUME SimInv, ParserInv, TimesOK, NEW e \in queue, Dispatch(e), queue' = queue \ {e},
         e.kind # "fail", UNCHANGED <<vars, links, row, uid>>, DOMAIN models' = DOMAIN models
  PROVE  Takes(e) /\ QueueOK' /\ PastOK' /\ OrderOK'
<1>1. Takes(e)
  BY DEF Takes
<1>2. uid' \in Nat /\ uid <= uid'
  BY DEF SimInv, TypesOK
<1>3. (\A f \in queue \ {e} : Event(f)') /\ PastOK'
  BY <1>1, <1>2, TakenQueue
<1>4. QueueOK'
  BY <1>3 DEF QueueOK
<1> QED  BY <1>1, <1>3, <1>4, TakenOrder

\* The stop event is still to come, unless it is the one that is taken.
LEMMA StopStays ==
  ASSUME SimInv, NEW e \in queue, Dispatch(e), e.kind # "stop", queue' = queue \ {e},
         UNCHANGED <<vars, links, row, phase>>
  PROVE  StagesOK'
<1>1. phase = "running" /\ row = Len(rows) + 1
  BY Dispatched
<1>2. PICK f \in queue : IsStop(f)
  BY <1>1 DEF SimInv, StagesOK
<1>3. f \in queue' /\ IsStop(f)'
  BY <1>2 DEF IsStop
<1> QED  BY <1>1, <1>3 DEF StagesOK, vars

LEMMA LiftFailureInv ==
  ASSUME SimInv, ParserInv, TimesOK, NEW e \in queue, LiftFailure(e)
  PROVE  SimInv'
<1>1. /\ e.kind = "lift" /\ Dispatch(e)
      /\ models' = [models EXCEPT ![e.model] = FALSE]
      /\ queue' = queue \ {e}
      /\ UNCHANGED <<vars, links, row, phase, uid, em, iface>>
  BY DEF LiftFailure
<1>2. e.model \in DOMAIN models
  BY <1>1, EventKinds DEF SimInv, QueueOK
<1>3. /\ models \in Seq(BOOLEAN) /\ models' \in Seq(BOOLEAN)
      /\ DOMAIN models' = DOMAIN models /\ Len(models') = Len(models)
      /\ \A m \in DOMAIN models : m # e.model => models'[m] = models[m]
      /\ models'[e.model] = FALSE
  BY <1>1, <1>2 DEF SimInv, TypesOK
<1>4. Takes(e) /\ QueueOK' /\ PastOK' /\ OrderOK'
  BY <1>1, <1>3, QuietEvent
<1>5. StagesOK'
  BY <1>1, StopStays
<1>6. ModelsOK' /\ IfacesOK'
  BY <1>1, <1>3, <1>4, QuietLinks, TakenIfaces
<1>7. TypesOK'
  <2>1. Devices' = Devices /\ now' \in Nat /\ rows' = rows
    BY <1>1, Frame, Dispatched DEF vars
  <2> QED  BY <1>1, <1>3, <2>1 DEF SimInv, TypesOK
<1> QED  BY <1>4, <1>5, <1>6, <1>7 DEF SimInv

LEMMA SetDownInv ==
  ASSUME SimInv, ParserInv, TimesOK, NEW e \in queue, SetDown(e)
  PROVE  SimInv'
<1>1. /\ e.kind = "down" /\ Dispatch(e)
      /\ iface' = [iface EXCEPT ![e.device] = "down"]
      /\ queue' = queue \ {e}
      /\ UNCHANGED <<vars, links, row, phase, uid, models, em>>
  BY DEF SetDown
<1>2. Takes(e) /\ QueueOK' /\ PastOK' /\ OrderOK'
  BY <1>1, QuietEvent
<1>3. StagesOK'
  BY <1>1, StopStays
<1>4. ModelsOK'
  BY <1>1, <1>2, QuietLinks
<1>a. PICK c \in Chans : \E i \in Hits(c) : \E d \in Ends(c) : e = DownOf(i, d)
  BY <1>1, EventKinds DEF SimInv, QueueOK
<1>b. PICK i \in Hits(c) : \E d \in Ends(c) : e = DownOf(i, d)
  BY <1>a
<1>5. PICK d \in Ends(c) : e = DownOf(i, d)
  BY <1>b
<1>6. e.device = d /\ d \in Devices
  BY <1>5, Links, DownFields DEF SimInv
<1>7. /\ iface' \in [Devices -> {"up", "down"}]
      /\ iface'[d] = "down" /\ \A x \in Devices : x # d => iface'[x] = iface[x]
  BY <1>1, <1>6 DEF SimInv, TypesOK
<1>8. /\ Chans' = Chans /\ Devices' = Devices
      /\ \A j, x : DownOf(j, x)' = DownOf(j, x)
      /\ \A x : Hits(x)' = Hits(x)
  BY <1>1, Frame
<1>9. TypesOK'
  <2>1. now' \in Nat /\ rows' = rows
    BY <1>1, Dispatched DEF vars
  <2> QED  BY <1>1, <1>7, <1>8, <2>1 DEF SimInv, TypesOK
<1>10. IfacesOK'
  <2> SUFFICES ASSUME NEW x \in Chans, NEW y \in Ends(x)
               PROVE  iface'[y] = "down" <=> \E j \in Hits(x) : DownOf(j, y) \notin queue'
    BY <1>8 DEF IfacesOK, Ends
  <2>1. y \in Devices /\ y[1] = x /\ d[1] = c
    BY Links DEF SimInv
  <2>2. CASE y = d
    <3>1. x = c
      BY <2>1, <2>2
    <3>2. DownOf(i, y) \notin queue'
      BY <1>1, <1>5, <2>2
    <3> QED  BY <1>7, <2>2, <3>1, <3>2
  <2>3. CASE y # d
    <3>1. \A j : DownOf(j, y) # e
      BY <1>6, <2>3, DownFields
    <3>2. \A j : DownOf(j, y) \in queue' <=> DownOf(j, y) \in queue
      BY <1>1, <3>1
    <3> QED  BY <1>7, <2>1, <2>3, <3>2 DEF SimInv, IfacesOK
  <2> QED  BY <2>2, <2>3
<1> QED  BY <1>2, <1>3, <1>4, <1>9, <1>10 DEF SimInv

LEMMA StopRunInv ==
  ASSUME SimInv, ParserInv, TimesOK, NEW e \in queue, StopRun(e)
  PROVE  SimInv'
<1>1. /\ e.kind = "stop" /\ Dispatch(e) /\ phase' = "stopped"
      /\ queue' = queue \ {e}
      /\ UNCHANGED <<vars, links, row, uid, models, em, iface>>
  BY DEF StopRun
<1>2. Takes(e) /\ QueueOK' /\ PastOK' /\ OrderOK'
  BY <1>1, QuietEvent
<1>3. ModelsOK' /\ IfacesOK'
  BY <1>1, <1>2, QuietLinks, TakenIfaces
<1>4. now' = e.at /\ now' \in Nat /\ row = Len(rows) + 1 /\ e.at = Runtime * 1000
  BY <1>1, Dispatched, EventKinds
<1>5. StagesOK'
  BY <1>1, <1>4 DEF StagesOK, vars
<1>6. TypesOK'
  <2>1. Devices' = Devices /\ rows' = rows
    BY <1>1, Frame DEF vars
  <2> QED  BY <1>1, <1>4, <2>1 DEF SimInv, TypesOK
<1> QED  BY <1>2, <1>3, <1>5, <1>6 DEF SimInv

\* Every step of the set-up and of the simulation keeps the invariant.
LEMMA SimNextInv ==
  ASSUME SimInv, ParserInv, TimesOK, SimNext
  PROVE  SimInv'
BY ScheduleFailureInv, RunInv, FailLinkInv, LiftFailureInv, SetDownInv, StopRunInv DEF SimNext

-----------------------------------------------------------------------------
(* What the invariant says                                                 *)

LEMMA SimTypes == SimInv => SimTypeOK
<1> SUFFICES ASSUME SimInv PROVE SimTypeOK
  OBVIOUS
<1>1. ASSUME NEW e \in queue
      PROVE  /\ e.at >= now /\ e.uid < uid
             /\ e.kind = "lift" => e.model \in DOMAIN models
             /\ e.kind = "fail" => e.link \in Chans
             /\ e.kind = "down" => e.device \in Devices
  <2>1. Event(e)
    BY DEF SimInv, QueueOK
  <2>2. e.kind = "fail" => e.link \in Chans
    BY <2>1, EventKinds, FailFields
  <2>3. e.kind = "down" => e.device \in Devices
    BY <2>1, EventKinds, DownFields, Links DEF SimInv
  <2>4. e.kind = "lift" => e.model \in DOMAIN models
    BY <2>1, EventKinds
  <2> QED  BY <2>1, <2>2, <2>3, <2>4 DEF Event
<1> QED  BY <1>1 DEF SimInv, TypesOK, StagesOK, SimTypeOK

\* Between events the failures that have begun are those that are done.
LEMMA SettledDone ==
  ASSUME SimInv, ParserInv, TimesOK, Settled, NEW c \in Chans
  PROVE  /\ StartedRows(c) = Done(c)
         /\ \A i : Governs(i, c) <=> Newest(i, c)
<1>1. Len(rows) \in Nat /\ DOMAIN rows = 1..Len(rows) /\ row - 1 = Len(rows) /\ now \in Nat
  BY DEF ParserInv, RowsOK, Settled, SimInv, StagesOK, TypesOK
<1>2. Hits(c) = {i \in DOMAIN rows : c \in Selected(rows[i])}
  BY <1>1 DEF Hits
<1>3. ASSUME NEW i \in Hits(c)
      PROVE  Start(i) * 1000 <= now <=> FailOf(i, c) \notin queue
  <2>1. Start(i) \in Nat /\ FailOf(i, c).at = Start(i) * 1000
    BY HitRow, RowTimes, FailFields DEF SimInv
  <2>2. FailOf(i, c) \in queue => FailOf(i, c).at > now
    BY DEF Settled
  <2>3. FailOf(i, c) \notin queue => FailOf(i, c).at <= now
    BY DEF SimInv, PastOK
  <2> QED  BY <1>1, <2>1, <2>2, <2>3
<1>4. StartedRows(c) = Done(c)
  BY <1>2, <1>3 DEF StartedRows, Done, Start
<1>5. \A i \in Done(c) : i \in Nat /\ Start(i) \in Nat
  BY HitRow, RowTimes DEF Done, SimInv
<1>6. ASSUME NEW i PROVE Governs(i, c) <=> Newest(i, c)
  <2>1. Governs(i, c) <=>
          /\ i \in Done(c)
          /\ \A j \in Done(c) : Start(j) < Start(i) \/ (Start(j) = Start(i) /\ j <= i)
    BY <1>4 DEF Governs, Start
  <2>2. \A j \in Done(c) : i \in Done(c) =>
          (Start(j) < Start(i) \/ (Start(j) = Start(i) /\ j <= i)) <=> (j = i \/ Earlier(j, i))
    BY <1>5 DEF Earlier
  <2> QED  BY <2>1, <2>2 DEF Newest
<1> QED  BY <1>4, <1>6

LEMMA DarkHolds == SimInv /\ ParserInv /\ TimesOK => DarkExactly
<1> SUFFICES ASSUME SimInv, ParserInv, TimesOK, Settled, NEW c \in Chans, NEW d \in Ends(c)
             PROVE  Filters(d) <=> \E i \in DOMAIN rows : Governs(i, c) /\ InWindow(i)
  BY DEF DarkExactly
<1> DEFINE m == em[<<c, 0>>]
<1>1. ModelOK(c)
  BY DEF SimInv, ModelsOK
<1>2. em[d] = m
  BY <1>1 DEF ModelOK, Ends
<1>3. \A i : Governs(i, c) <=> Newest(i, c)
  BY SettledDone
<1>4. CASE m = 0
  <2>1. \A i : ~Newest(i, c)
    BY <1>1, <1>4 DEF ModelOK, Newest
  <2> QED  BY <1>2, <1>3, <1>4, <2>1 DEF Filters
<1>5. CASE m # 0
  <2>1. PICK i \in Done(c) : Newest(i, c) /\ CarriesOut(m, i)
    BY <1>1, <1>5 DEF ModelOK
  <2>2. \A j \in Done(c) : j \in DOMAIN rows /\ j \in Nat /\ Start(j) \in Nat /\ Length(j) \in Nat
    BY HitRow, RowTimes DEF Done, SimInv
  <2>3. \A j : Newest(j, c) => j = i
    <3> SUFFICES ASSUME NEW j, Newest(j, c), j # i PROVE FALSE
      OBVIOUS
    <3>1. j \in Done(c) /\ Earlier(j, i) /\ Earlier(i, j)
      BY <2>1 DEF Newest
    <3> QED  BY <2>2, <3>1 DEF Earlier
  <2>4. InWindow(i) <=> Length(i) = 0 \/ now < (Start(i) + Length(i)) * 1000
    BY DEF InWindow, Length, Start
  <2>5. models[m] <=> InWindow(i)
    <3>1. now \in Nat
      BY DEF SimInv, TypesOK
    <3>2. CASE models[m]
      <4>1. CASE Length(i) = 0
        BY <2>4, <3>2, <4>1
      <4>2. CASE Length(i) # 0
        <5>1. PICK e \in queue : e.kind = "lift" /\ e.model = m
          BY <2>1, <3>2, <4>2 DEF CarriesOut
        <5>2. e.at = (Start(i) + Length(i)) * 1000
          BY <2>1, <5>1 DEF CarriesOut
        <5>3. e.at > now
          BY DEF Settled
        <5> QED  BY <2>4, <3>1, <3>2, <5>2, <5>3
      <4> QED  BY <4>1, <4>2
    <3>3. CASE ~models[m]
      <4>1. Length(i) # 0 /\ now >= (Start(i) + Length(i)) * 1000
        BY <2>1, <3>3 DEF CarriesOut
      <4> QED  BY <2>2, <2>4, <3>1, <3>3, <4>1
    <3> QED  BY <3>2, <3>3
  <2> QED  BY <1>2, <1>3, <1>5, <2>1, <2>2, <2>3, <2>5 DEF Filters
<1> QED  BY <1>4, <1>5

\* A failure that begins before the end takes its interfaces down before it,
\* any other does not take them down before it.
LEMMA StoppedHolds == SimInv /\ ParserInv /\ TimesOK => DownAtStop
<1> SUFFICES ASSUME SimInv, ParserInv, TimesOK, phase = "stopped", NEW c \in Chans, NEW d \in Ends(c)
             PROVE  iface[d] = "down" <=>
                      \E i \in DOMAIN rows : c \in Selected(rows[i]) /\ AsU32(rows[i].begin) < Runtime
  BY DEF DownAtStop
<1>1. /\ Len(rows) \in Nat /\ DOMAIN rows = 1..Len(rows) /\ row - 1 = Len(rows)
      /\ now = Runtime * 1000 /\ Runtime \in Nat
  BY LinkFailureAssumption DEF ParserInv, RowsOK, SimInv, StagesOK, TypesOK
<1>2. Hits(c) = {i \in DOMAIN rows : c \in Selected(rows[i])}
  BY <1>1 DEF Hits
<1>3. ASSUME NEW i \in Hits(c) PROVE DownOf(i, d) \notin queue <=> Start(i) < Runtime
  <2>1. i \in DOMAIN rows /\ Start(i) \in Nat
    BY HitRow, RowTimes DEF SimInv
  <2>2. /\ DownOf(i, d).at \in Nat
        /\ \/ DownOf(i, d).at \in {Start(i) * 1000 + 15, Start(i) * 1000 + 18}
           \/ DownOf(i, d).at > Runtime * 1000 /\ Start(i) > Runtime
    BY <2>1, DownTime DEF SimInv
  <2>3. DownOf(i, d) \in queue => DownOf(i, d).at >= now
    BY DEF SimInv, QueueOK, Event
  <2>4. DownOf(i, d) \notin queue => DownOf(i, d).at <= now
    BY DEF SimInv, PastOK
  <2>5. CASE Start(i) < Runtime
    BY <1>1, <2>1, <2>2, <2>3, <2>5
  <2>6. CASE ~(Start(i) < Runtime)
    BY <1>1, <2>1, <2>2, <2>4, <2>6
  <2> QED  BY <2>5, <2>6
<1> QED  BY <1>2, <1>3 DEF SimInv, IfacesOK, Start

\* An interface goes down within 18 ms of the failure, which is done by then;
\* whatever failure is newer began in the same second, so that its model is
\* not lifted yet.
LEMMA DownStep ==
  ASSUME SimInv, ParserInv, TimesOK, NEW e \in queue, SetDown(e), NEW c \in Chans, NEW d \in Ends(c),
         iface[d] = "up", iface'[d] = "down", NEW x \in Ends(c)
  PROVE  Filters(x)
<1>1. /\ e.kind = "down" /\ Dispatch(e) /\ iface' = [iface EXCEPT ![e.device] = "down"]
  BY DEF SetDown
<1>2. e.device = d
  BY <1>1
<1>a. PICK y \in Chans : \E i \in Hits(y) : \E z \in Ends(y) : e = DownOf(i, z)
  BY <1>1, EventKinds DEF SimInv, QueueOK
<1>3. PICK i \in Hits(c) : e = DownOf(i, d)
  <2>1. PICK i \in Hits(y) : \E z \in Ends(y) : e = DownOf(i, z)
    BY <1>a
  <2>2. d \in Ends(y) /\ e = DownOf(i, d)
    BY <1>2, <2>1, DownFields
  <2>3. y = c
    BY <2>2, Links DEF SimInv
  <2> QED  BY <2>2, <2>3
<1>4. i \in DOMAIN rows /\ Start(i) \in Nat /\ Runtime \in Nat
  BY HitRow, RowTimes, LinkFailureAssumption DEF SimInv
<1>5. /\ now' = e.at /\ now \in Nat /\ now' \in Nat /\ now <= now' /\ now' <= Runtime * 1000
      /\ \A f \in queue : f.at \in Nat /\ f.at >= now'
  BY <1>1, Dispatched
<1>6. e.at = Start(i) * 1000 + 15 \/ e.at = Start(i) * 1000 + 18
  <2>1. \/ DownOf(i, d).at \in {Start(i) * 1000 + 15, Start(i) * 1000 + 18}
        \/ DownOf(i, d).at > Runtime * 1000
    BY <1>4, DownTime DEF SimInv
  <2> QED  BY <1>3, <1>4, <1>5, <2>1
<1>7. i \in Done(c)
  <2>1. FailOf(i, c).at = Start(i) * 1000
    BY FailFields
  <2>2. FailOf(i, c) \notin queue
    BY <1>4, <1>5, <1>6, <2>1
  <2> QED  BY <2>2 DEF Done
<1> DEFINE m == em[<<c, 0>>]
<1>8. ModelOK(c)
  BY DEF SimInv, ModelsOK
<1>9. m # 0 /\ em[x] = m
  BY <1>7, <1>8 DEF ModelOK, Ends
<1>10. PICK j \in Done(c) : Newest(j, c) /\ CarriesOut(m, j)
  BY <1>8, <1>9 DEF ModelOK
<1>11. /\ j \in Hits(c) /\ FailOf(j, c) \notin queue
       /\ j \in DOMAIN rows /\ Start(j) \in Nat /\ Length(j) \in Nat
  BY HitRow, RowTimes DEF Done, SimInv
<1>12. Start(j) * 1000 <= now
  BY <1>11, FailFields DEF SimInv, PastOK
<1>13. Start(i) <= Start(j)
  BY <1>4, <1>7, <1>10, <1>11 DEF Newest, Earlier
<1>14. models[m]
  <2> SUFFICES ASSUME ~models[m] PROVE FALSE
    OBVIOUS
  <2>1. Length(j) # 0 /\ now >= (Start(j) + Length(j)) * 1000
    BY <1>10 DEF CarriesOut
  <2> HIDE DEF m
  <2> QED  BY <1>4, <1>5, <1>6, <1>11, <1>13, <2>1
<1> QED  BY <1>9, <1>14 DEF Filters

\* The device of a link whose error model changes belongs to a link that a row
\* names, and the row begins now; a row without a begin never gets there.
LEMMA FailStep ==
  ASSUME SimInv, ParserInv, TimesOK, NEW e \in queue, FailLink(e), NEW c \in Chans, NEW d \in Ends(c),
         em'[d] # em[d]
  PROVE  \E i \in DOMAIN rows : c \in Selected(rows[i]) /\ rows[i].begin * 1000 = now'
<1>1. /\ e.kind = "fail" /\ Dispatch(e)
      /\ em' = [x \in Devices |-> IF x \in Ends(e.link) THEN Len(models') ELSE em[x]]
  BY DEF FailLink
<1>2. d \in Devices /\ d[1] = c
  BY Links DEF SimInv
<1>3. d \in Ends(e.link)
  BY <1>1, <1>2
<1>a. PICK y \in Chans : \E i \in Hits(y) : e = FailOf(i, y)
  BY <1>1, EventKinds DEF SimInv, QueueOK
<1>4. PICK i \in Hits(y) : e = FailOf(i, y)
  BY <1>a
<1>5. y = c
  <2>1. d \in Ends(y)
    BY <1>3, <1>4, FailFields
  <2> QED  BY <1>2, <2>1, Links DEF SimInv
<1>6. i \in DOMAIN rows /\ c \in Selected(rows[i])
  BY <1>5, HitRow DEF SimInv, Hits
<1>7. e.at = Start(i) * 1000 /\ now' = e.at /\ now' <= Runtime * 1000
  BY <1>1, <1>4, FailFields, Dispatched
<1>8. Start(i) \in Nat /\ Runtime \in Nat
  BY <1>6, RowTimes, LinkFailureAssumption
<1>9. Start(i) <= Runtime
  BY <1>7, <1>8
<1>10. Start(i) = rows[i].begin
  <2>1. \/ Start(i) = rows[i].begin \/ Start(i) > Runtime
    BY <1>6, <1>2, DownTime DEF SimInv
  <2> QED  BY <1>8, <1>9, <2>1
<1> QED  BY <1>6, <1>7, <1>10

-----------------------------------------------------------------------------
(* How many links have failed                                              *)

\* The failures done, each a row and a link.
Failed == {p \in (DOMAIN rows) \X Chans : p[1] \in Done(p[2])}

\* There is one error model for each failure done, the stop is newer than any
\* failure, so that all of those begun by then are done when it is taken.
Counted == Len(models) = Cardinality(Failed)
CountInv ==
  /\ Counted
  /\ \A e \in queue : e.kind = "stop" => \A c \in Chans : \A i \in Hits(c) : FailOf(i, c).uid < e.uid
  /\ phase = "stopped" => \A c \in Chans : \A i \in Hits(c) : i \in Done(c) \/ Start(i) * 1000 > now

Unfailed == models = <<>> /\ \A d \in Devices : iface[d] = "up"

LEMMA NoneFailed == SimInv /\ Unfailed => Counted
<1> SUFFICES ASSUME SimInv, models = <<>>, \A d \in Devices : iface[d] = "up"
             PROVE  Counted
  BY DEF Unfailed
<1>1. Failed = {}
  BY NothingDone DEF Failed, Done
<1>2. Cardinality({}) = 0
  BY FS_EmptySet
<1> QED  BY <1>1, <1>2 DEF Counted

Before == phase \in {"topology", "installed", "failures", "setup"}

LEMMA BeforeCount == SimInv /\ Before => CountInv
<1> SUFFICES ASSUME SimInv, Before PROVE CountInv
  OBVIOUS
<1>1. /\ models = <<>> /\ \A d \in Devices : iface[d] = "up"
      /\ \A e \in queue : e.kind # "stop"
  BY DEF SimInv, StagesOK, Before
<1> QED  BY <1>1, NoneFailed DEF CountInv, Unfailed, Before

LEMMA RunCount ==
  ASSUME SimInv, SimInv', ParserInv, Run
  PROVE  CountInv'
<1>1. /\ phase = "setup" /\ phase' = "running"
      /\ queue' = queue \cup {[kind |-> "stop", at |-> Runtime * 1000, uid |-> uid]}
      /\ UNCHANGED <<vars, links, row, now, models, em, iface>>
  BY DEF Run
<1>2. /\ Chans' = Chans /\ Devices' = Devices
      /\ \A i, c : FailOf(i, c)' = FailOf(i, c)
      /\ \A c : Hits(c)' = Hits(c)
  BY <1>1, Frame
<1>3. /\ models = <<>> /\ \A d \in Devices : iface[d] = "up"
      /\ \A e \in queue : e.kind # "stop"
      /\ uid = Base(row)
  BY <1>1 DEF SimInv, StagesOK
<1>4. Counted'
  <2>1. Unfailed'
    BY <1>1, <1>2, <1>3 DEF Unfailed
  <2> QED  BY <2>1, NoneFailed, PTL
<1>5. ASSUME NEW c \in Chans, NEW i \in Hits(c) PROVE FailOf(i, c).uid < uid
  <2> DEFINE w == 3 * (Len(links) + 1)
  <2>1. Len(links) \in Nat /\ c \in 1..Len(links)
    BY Links DEF SimInv
  <2>2. i \in Nat /\ row \in Nat /\ i < row
    BY HitRow DEF SimInv, TypesOK
  <2>3. FailOf(i, c).uid = (i - 1) * w + 3 * c
    BY FailFields DEF Base
  <2>4. uid = (row - 1) * w
    BY <1>3 DEF Base
  <2>5. w \in Nat /\ 3 * c < w /\ 3 * c \in Nat
    BY <2>1
  <2> HIDE DEF w
  <2>6. (i - 1) * w + w <= (row - 1) * w
    BY <2>2, <2>5, BaseGrows
  <2>7. (i - 1) * w \in Int /\ (row - 1) * w \in Int
    BY <2>2, <2>5
  <2> DEFINE p == (i - 1) * w
             q == (row - 1) * w
  <2> HIDE DEF p, q
  <2>8. p + 3 * c < q
    BY <2>5, <2>6, <2>7 DEF p, q
  <2> QED  BY <2>3, <2>4, <2>8 DEF p, q
<1>6. \A e \in queue' : e.kind = "stop" => e.uid = uid
  BY <1>1, <1>3
<1> QED  BY <1>1, <1>2, <1>4, <1>5, <1>6 DEF CountInv

\* The stop stays newer than any failure.
LEMMA StopNewer ==
  ASSUME SimInv, CountInv, NEW e, Takes(e)
  PROVE  \A f \in queue' : f.kind = "stop" => \A c \in Chans' : \A i \in Hits(c)' : FailOf(i, c)'.uid < f.uid
<1>1. /\ Chans' = Chans /\ \A i, c : FailOf(i, c)' = FailOf(i, c)
      /\ \A c : Hits(c)' = Hits(c)
  BY Frame DEF Takes
<1> QED  BY <1>1 DEF Takes, CountInv

\* An event that is not a failure fails nothing.
LEMMA QuietCount ==
  ASSUME SimInv, CountInv, NEW e, Takes(e), e.kind # "fail", Len(models') = Len(models),
         phase' # "stopped"
  PROVE  CountInv'
<1>1. Chans' = Chans /\ rows' = rows
  BY Frame DEF Takes, vars
<1>2. ASSUME NEW c \in Chans PROVE Done(c)' = Done(c)
  <2>1. \A i \in Hits(c) : FailOf(i, c) # e
    BY FailFields
  <2>2. Done(c) \subseteq Hits(c)
    BY DEF Done
  <2> QED  BY <2>1, <2>2, TakenDone
<1>3. Failed' = Failed
  BY <1>1, <1>2 DEF Failed
<1> QED  BY <1>3, StopNewer DEF CountInv, Counted

LEMMA FailTakes ==
  ASSUME NEW e \in queue, FailLink(e)
  PROVE  Takes(e) /\ models' = Append(models, TRUE) /\ phase' = phase /\ phase = "running" /\ e.kind = "fail"
<1>1. /\ e.kind = "fail" /\ Dispatch(e)
      /\ models' = Append(models, TRUE)
      /\ UNCHANGED <<vars, links, row, phase, iface>>
      /\ e.duration = 0 => queue' = queue \ {e}
  BY DEF FailLink
<1>2. PICK lift : /\ lift.kind = "lift"
                  /\ e.duration # 0 => queue' = (queue \ {e}) \cup {lift}
  <2> DEFINE l == [kind |-> "lift", at |-> e.at + e.duration * 1000, uid |-> uid, model |-> Len(models')]
  <2>1. l.kind = "lift"
    OBVIOUS
  <2>2. e.duration # 0 => queue' = (queue \ {e}) \cup {l}
    BY DEF FailLink
  <2> HIDE DEF l
  <2> QED  BY <2>1, <2>2
<1>3. Takes(e)
  BY <1>1, <1>2 DEF Takes
<1> QED  BY <1>1, <1>3 DEF Dispatch

LEMMA FailLinkCount ==
  ASSUME SimInv, ParserInv, TimesOK, CountInv, NEW e \in queue, FailLink(e)
  PROVE  CountInv'
<1>1. Takes(e) /\ models' = Append(models, TRUE) /\ phase' # "stopped" /\ e.kind = "fail"
  BY FailTakes
<1>2. PICK c \in Chans : \E i \in Hits(c) : e = FailOf(i, c)
  BY <1>1, EventKinds DEF SimInv, QueueOK
<1>3. PICK i \in Hits(c) : e = FailOf(i, c)
  BY <1>2
<1>4. Chans' = Chans /\ rows' = rows
  BY <1>1, Frame DEF Takes, vars
<1>5. ASSUME NEW x \in Chans, NEW j \in Hits(x), FailOf(j, x) = e PROVE x = c /\ j = i
  <2>1. x = c
    BY <1>3, <1>5, FailFields
  <2>2. i \in Nat /\ j \in Nat
    BY HitRow DEF SimInv
  <2>3. ~(i < j) /\ ~(j < i)
    BY <1>3, <1>5, <2>1, FailOnce DEF SimInv
  <2> QED  BY <2>1, <2>2, <2>3
<1>6. i \in Done(c)' /\ i \notin Done(c)
  BY <1>1, <1>3, TakenDone
<1>7. ASSUME NEW x \in Chans, NEW j PROVE j \in Done(x)' <=> j \in Done(x) \/ (x = c /\ j = i)
  <2>1. Done(x) \subseteq Hits(x) /\ Done(x)' \subseteq Hits(x)
    BY <1>1, TakenDone DEF Done
  <2>2. CASE j \in Hits(x)
    BY <1>1, <1>5, <1>6, <2>2, TakenDone
  <2>3. CASE j \notin Hits(x)
    BY <1>3, <2>1, <2>3
  <2> QED  BY <2>2, <2>3
<1>8. i \in DOMAIN rows
  BY HitRow DEF SimInv
<1>9. Failed' = Failed \cup {<<i, c>>} /\ <<i, c>> \notin Failed
  <2>1. <<i, c>> \notin Failed
    BY <1>6 DEF Failed
  <2>2. ASSUME NEW p PROVE p \in Failed' <=> p \in Failed \/ p = <<i, c>>
    <3>1. CASE p \in (DOMAIN rows) \X Chans
      <4>1. p = <<p[1], p[2]>> /\ p[2] \in Chans
        BY <3>1
      <4>2. p[1] \in Done(p[2])' <=> p[1] \in Done(p[2]) \/ (p[2] = c /\ p[1] = i)
        BY <1>7, <4>1
      <4>3. p \in Failed' <=> p[1] \in Done(p[2])'
        BY <1>4, <3>1 DEF Failed
      <4>4. p \in Failed <=> p[1] \in Done(p[2])
        BY <3>1 DEF Failed
      <4>5. p = <<i, c>> <=> p[2] = c /\ p[1] = i
        BY <4>1
      <4> QED  BY <4>2, <4>3, <4>4, <4>5
    <3>2. CASE p \notin (DOMAIN rows) \X Chans
      BY <1>4, <1>8, <3>2 DEF Failed
    <3> QED  BY <3>1, <3>2
  <2> QED  BY <2>1, <2>2
<1>10. IsFiniteSet(Failed)
  <2>1. IsFiniteSet(DOMAIN rows) /\ IsFiniteSet(Chans)
    <3>1. Len(rows) \in Nat /\ DOMAIN rows = 1..Len(rows) /\ Len(links) \in Nat /\ Chans = 1..Len(links)
      BY Links DEF ParserInv, RowsOK, SimInv
    <3> QED  BY <3>1, FS_Interval
  <2>2. IsFiniteSet((DOMAIN rows) \X Chans)
    BY <2>1, FS_Product
  <2>3. Failed \subseteq (DOMAIN rows) \X Chans
    BY DEF Failed
  <2> QED  BY <2>2, <2>3, FS_Subset
<1>11. Cardinality(Failed') = Cardinality(Failed) + 1
  BY <1>9, <1>10, FS_AddElement
<1>12. Len(models') = Len(models) + 1
  <2>1. models \in Seq(BOOLEAN)
    BY DEF SimInv, TypesOK
  <2> QED  BY <1>1, <2>1
<1> QED  BY <1>1, <1>11, <1>12, StopNewer DEF CountInv, Counted

LEMMA StopCount ==
  ASSUME SimInv, ParserInv, TimesOK, CountInv, NEW e \in queue, StopRun(e)
  PROVE  CountInv'
<1>1. /\ e.kind = "stop" /\ Dispatch(e) /\ phase' = "stopped"
      /\ queue' = queue \ {e}
      /\ UNCHANGED <<vars, links, row, uid, models, em, iface>>
  BY DEF StopRun
<1>2. Takes(e)
  BY <1>1, QuietEvent
<1>3. /\ Chans' = Chans /\ rows' = rows /\ \A i, c : FailOf(i, c)' = FailOf(i, c)
      /\ \A c : Hits(c)' = Hits(c) /\ \A i : Start(i)' = Start(i)
  BY <1>1, Frame DEF vars
<1>4. ASSUME NEW c \in Chans PROVE Done(c)' = Done(c)
  <2>1. \A i \in Hits(c) : FailOf(i, c) # e
    BY <1>1, FailFields
  <2>2. Done(c) \subseteq Hits(c)
    BY DEF Done
  <2> QED  BY <1>2, <2>1, <2>2, TakenDone
<1>5. Failed' = Failed
  BY <1>3, <1>4 DEF Failed
<1>6. ASSUME NEW c \in Chans, NEW i \in Hits(c), i \notin Done(c) PROVE Start(i) * 1000 > now'
  <2>1. FailOf(i, c) \in queue /\ FailOf(i, c) # e
    BY <1>1, <1>6, FailFields DEF Done
  <2>2. FailOf(i, c).uid < e.uid
    BY <1>1 DEF CountInv
  <2>3. e.at < FailOf(i, c).at \/ e.uid < FailOf(i, c).uid
    BY <1>1, <2>1 DEF Dispatch
  <2>4. Event(e) /\ Event(FailOf(i, c))
    BY <2>1 DEF SimInv, QueueOK
  <2>5. e.uid \in Nat /\ FailOf(i, c).uid \in Nat /\ e.at \in Nat /\ FailOf(i, c).at \in Nat
    BY <2>4 DEF Event
  <2>6. e.at < FailOf(i, c).at
    BY <2>2, <2>3, <2>5
  <2>7. now' = e.at /\ FailOf(i, c).at = Start(i) * 1000
    BY <1>1, FailFields DEF Dispatch
  <2> QED  BY <2>5, <2>6, <2>7
<1> QED  BY <1>1, <1>2, <1>3, <1>4, <1>5, <1>6, StopNewer DEF CountInv, Counted

LEMMA SimNextCount ==
  ASSUME SimInv, SimInv', ParserInv, TimesOK, CountInv, SimNext
  PROVE  CountInv'
<1>1. CASE ScheduleFailure
  <2>1. Before'
    BY <1>1 DEF ScheduleFailure, Before
  <2> QED  BY <2>1, BeforeCount, PTL
<1>2. CASE Run
  BY <1>2, RunCount
<1>3. ASSUME NEW e \in queue, FailLink(e) PROVE CountInv'
  BY <1>3, FailLinkCount
<1>4. ASSUME NEW e \in queue, LiftFailure(e) \/ SetDown(e) PROVE CountInv'
  <2>1. /\ e.kind # "fail" /\ Dispatch(e) /\ queue' = queue \ {e}
        /\ UNCHANGED <<vars, links, row, phase, uid>>
        /\ models' = models \/ models' = [models EXCEPT ![e.model] = FALSE]
    BY <1>4 DEF LiftFailure, SetDown
  <2>2. DOMAIN models' = DOMAIN models /\ Len(models') = Len(models)
    <3>1. models \in Seq(BOOLEAN)
      BY DEF SimInv, TypesOK
    <3> QED  BY <2>1, <3>1
  <2>3. Takes(e)
    BY <2>1, <2>2, QuietEvent
  <2>4. phase' # "stopped"
    BY <2>1 DEF Dispatch
  <2> QED  BY <2>1, <2>2, <2>3, <2>4, QuietCount
<1>5. ASSUME NEW e \in queue, StopRun(e) PROVE CountInv'
  BY <1>5, StopCount
<1> QED  BY <1>1, <1>2, <1>3, <1>4, <1>5 DEF SimNext

\* Row i fails link c during the run.
Strikes(i, c) == i \in DOMAIN rows /\ c \in Selected(rows[i]) /\ rows[i].begin <= Runtime

\* Failures without an end: those that begin during the run are done at its
\* end, a failure at the very end of it included, and their links are dark.
LEMMA StoppedLinks ==
  ASSUME SimInv, ParserInv, TimesOK, CountInv, phase = "stopped",
         \A i \in DOMAIN rows : rows[i].begin \in Nat /\ rows[i].end = Missing,
         NEW c \in Chans
  PROVE  /\ \A i : i \in Done(c) <=> Strikes(i, c)
         /\ \A d \in Ends(c) : /\ em[d] # 0 <=> \E i : Strikes(i, c)
                               /\ Filters(d) <=> \E i : Strikes(i, c)
<1>1. /\ Len(rows) \in Nat /\ DOMAIN rows = 1..Len(rows) /\ row - 1 = Len(rows)
      /\ now = Runtime * 1000 /\ Runtime \in Nat
  BY LinkFailureAssumption DEF ParserInv, RowsOK, SimInv, StagesOK, TypesOK
<1>2. Hits(c) = {i \in DOMAIN rows : c \in Selected(rows[i])}
  BY <1>1 DEF Hits
<1>3. ASSUME NEW i \in DOMAIN rows PROVE Start(i) = rows[i].begin /\ Length(i) = U32 - 1
  <2>1. rows[i].begin \in Missable /\ rows[i].begin * 1000 + 18 < U32 /\ rows[i].begin # Missing
    BY RowTimes DEF Missing
  <2>2. Start(i) = rows[i].begin
    BY <2>1, Times DEF Start
  <2>3. U32 \in Nat /\ U32 > 1000
    BY LinkFailureAssumption
  <2>4. (-1) % U32 = U32 - 1
    BY <2>3
  <2>5. Length(i) = U32 - 1
    BY <2>4 DEF Length, AsU32, Missing
  <2> QED  BY <2>2, <2>5
<1>4. ASSUME NEW i \in Hits(c) PROVE i \in Done(c) <=> rows[i].begin <= Runtime
  <2>1. i \in DOMAIN rows /\ Start(i) = rows[i].begin /\ rows[i].begin \in Nat
    BY <1>2, <1>3
  <2>2. i \in Done(c) \/ Start(i) * 1000 > now
    BY DEF CountInv
  <2>3. i \in Done(c) => Start(i) * 1000 <= now
    BY FailFields DEF Done, SimInv, PastOK
  <2> QED  BY <1>1, <2>1, <2>2, <2>3
<1>5. \A i : i \in Done(c) <=> Strikes(i, c)
  BY <1>2, <1>4 DEF Done, Strikes
<1>6. ModelOK(c)
  BY DEF SimInv, ModelsOK
<1> DEFINE m == em[<<c, 0>>]
<1>7. m # 0 <=> \E i : Strikes(i, c)
  BY <1>5, <1>6 DEF ModelOK
<1>8. m # 0 => models[m]
  <2> SUFFICES ASSUME m # 0, ~models[m] PROVE FALSE
    OBVIOUS
  <2>1. PICK i \in Done(c) : CarriesOut(m, i)
    BY <1>6 DEF ModelOK
  <2>2. i \in DOMAIN rows /\ rows[i].begin \in Nat
    BY <1>5, <2>1 DEF Strikes
  <2>3. now >= (Start(i) + Length(i)) * 1000
    BY <2>1 DEF CarriesOut
  <2>4. U32 \in Nat /\ Runtime * 1000 < U32 - 1000
    BY LinkFailureAssumption
  <2>5. Runtime * 1000 >= (rows[i].begin + (U32 - 1)) * 1000
    BY <1>1, <1>3, <2>2, <2>3
  <2> QED  BY <1>1, <2>2, <2>4, <2>5
<1>9. \A d \in Ends(c) : em[d] = m
  BY <1>6 DEF ModelOK, Ends
<1> QED  BY <1>5, <1>7, <1>8, <1>9 DEF Filters
=============================================================================
