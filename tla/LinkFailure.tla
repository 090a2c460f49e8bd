----------------------------- MODULE LinkFailure -----------------------------
(***************************************************************************)
(* Link failures in one simulation: what TopoHelper::ScheduleFailures,     *)
(* LinkCallback and Run (helper/NtfTopoGen.cc) put into the simulator's    *)
(* event queue for each row that the parser printed for the failures file  *)
(* (NtfParser), and what the events do to the devices: LinkFailure         *)
(* installs a new BlackholeErrorModel on both ends, its end disables that  *)
(* model, and `ip l set dev simX down' takes the two interfaces down 15 ms *)
(* and 18 ms after the failure.                                            *)
(*                                                                         *)
(* A link is an index of links.  p2p.Install(n1, n2) attaches n1's device  *)
(* to the channel first: device <<c, 0>> is on links[c].src and <<c, 1>>   *)
(* on links[c].dst.  Times are milliseconds.  The simulator runs events in *)
(* the order of their time, then of their creation.                        *)
(***************************************************************************)
EXTENDS NtfParser

CONSTANTS Runtime,  \* --runtime, in seconds
          U32       \* 2^32; TLC's integers need a smaller one

ASSUME LinkFailureAssumption ==
  /\ Runtime \in Nat /\ U32 \in Nat
  \* A start is absent or its milliseconds do not wrap; nothing that wraps
  \* comes before the end of the simulation.
  /\ \A f \in Files : \A i \in DOMAIN f.lines : f.lines[i].begin * 1000 + 18 < U32
  /\ Runtime * 1000 < U32 - 1000
  \* A link joins two nodes, also in a failures file.
  /\ \A f \in Files : \A i \in DOMAIN f.lines : f.lines[i].src # f.lines[i].dst

VARIABLES links,    \* the links TopoGen installed: rows of the topology
          row,      \* the row of the failures that ScheduleFailures handles
          phase,    \* "topology", "installed", "failures", "setup",
            \* "running" or "stopped"
          now,      \* Simulator::Now()
          queue,    \* the events to come
          uid,      \* the number of events created so far
          models,   \* models[m]: whether error model m corrupts packets
          em,       \* em[d]: the receive error model of device d, 0 if none
          iface     \* iface[d]: "up" or "down"

simVars == <<links, row, phase, now, queue, uid, models, em, iface>>

Chans == DOMAIN links
Devices == Chans \X {0, 1}
Ends(c) == {<<c, 0>>, <<c, 1>>}

SimInit ==
  /\ links = <<>>
  /\ row = 1
  /\ phase = "topology"
  /\ now = 0
  /\ queue = {}
  /\ uid = 0
  /\ models = <<>>
  /\ em = <<>> /\ iface = <<>>

-----------------------------------------------------------------------------
(* Set-up                                                                  *)

\* An int passed as a uint32_t: -1, an absent field, is 2^32 - 1.
AsU32(n) == n % U32

\* The links LinkCallback selects.  From device 0 of a channel it goes to
\* device 1; from device 1 it stays where it is, which is never on dst_id.
\* delay_value is not looked at.
Selected(r) == {c \in Chans : links[c].src = r.src /\ links[c].dst = r.dst}

\* Mutant of DownAt: the seconds are taken for milliseconds.
DownAtSeconds(r, offset) == (AsU32(r.begin) + offset) % U32

\* callback_delay*1000+15 and +18 are computed in 32 bits.
DownAt(r, offset) == (AsU32(r.begin) * 1000 + offset) % U32

Fail(r, c, u) == [kind |-> "fail", at |-> AsU32(r.begin) * 1000, uid |-> u,
                  link |-> c, duration |-> AsU32(r.end)]
Down(r, d, offset, u) == [kind |-> "down", at |-> DownAt(r, offset), uid |-> u, device |-> d]

\* MakeLinkFail for one row: three events for each selected link.
ScheduleFailure ==
  /\ phase = "setup" /\ row <= Len(rows)
  /\ LET r == rows[row] IN
       queue' = queue \cup UNION { {Fail(r, c, uid + 3 * c),
                                    Down(r, <<c, 0>>, 15, uid + 3 * c + 1),
                                    Down(r, <<c, 1>>, 18, uid + 3 * c + 2)} : c \in Selected(r) }
  /\ uid' = uid + 3 * (Len(links) + 1)
  /\ row' = row + 1
  /\ UNCHANGED <<vars, links, phase, now, models, em, iface>>

\* Simulator::Stop, then Simulator::Run.
Run ==
  /\ phase = "setup" /\ row > Len(rows)
  /\ phase' = "running"
  /\ queue' = queue \cup {[kind |-> "stop", at |-> Runtime * 1000, uid |-> uid]}
  /\ uid' = uid + 1
  /\ UNCHANGED <<vars, links, row, now, models, em, iface>>

-----------------------------------------------------------------------------
(* The simulation                                                          *)

\* e is the next event and the simulator takes it from the queue.
Dispatch(e) ==
  /\ phase = "running"
  /\ \A f \in queue \ {e} : e.at < f.at \/ (e.at = f.at /\ e.uid < f.uid)
  /\ now' = e.at

\* Mutant of FailLink: only the receiver of the first device is filtered.
FailOneEnd(e) ==
  /\ e.kind = "fail" /\ Dispatch(e)
  /\ models' = Append(models, TRUE)
  /\ em' = [em EXCEPT ![<<e.link, 0>>] = Len(models')]
  /\ queue' = (queue \ {e}) \cup
       IF e.duration = 0 THEN {}
       ELSE {[kind |-> "lift", at |-> e.at + e.duration * 1000, uid |-> uid,
              model |-> Len(models')]}
  /\ uid' = uid + 1
  /\ UNCHANGED <<vars, links, row, phase, iface>>

\* Mutant of FailLink: the duration is taken for the instant of the end.
FailUntil(e) ==
  /\ e.kind = "fail" /\ Dispatch(e)
  /\ models' = Append(models, TRUE)
  /\ em' = [d \in Devices |-> IF d \in Ends(e.link) THEN Len(models') ELSE em[d]]
  /\ queue' = (queue \ {e}) \cup
       IF e.duration = 0 THEN {}
       ELSE {[kind |-> "lift", at |-> e.duration * 1000, uid |-> uid,
              model |-> Len(models')]}
  /\ uid' = uid + 1
  /\ UNCHANGED <<vars, links, row, phase, iface>>

\* LinkFailure: a new model replaces whatever the devices had.
FailLink(e) ==
  /\ e.kind = "fail" /\ Dispatch(e)
  /\ models' = Append(models, TRUE)
  /\ em' = [d \in Devices |-> IF d \in Ends(e.link) THEN Len(models') ELSE em[d]]
  /\ queue' = (queue \ {e}) \cup
       IF e.duration = 0 THEN {}
       ELSE {[kind |-> "lift", at |-> e.at + e.duration * 1000, uid |-> uid,
              model |-> Len(models')]}
  /\ uid' = uid + 1
  /\ UNCHANGED <<vars, links, row, phase, iface>>

\* Disable(em, next, 1): its counter never allows a repetition.
LiftFailure(e) ==
  /\ e.kind = "lift" /\ Dispatch(e)
  /\ models' = [models EXCEPT ![e.model] = FALSE]
  /\ queue' = queue \ {e}
  /\ UNCHANGED <<vars, links, row, phase, uid, em, iface>>

\* ip l set dev simX down
SetDown(e) ==
  /\ e.kind = "down" /\ Dispatch(e)
  /\ iface' = [iface EXCEPT ![e.device] = "down"]
  /\ queue' = queue \ {e}
  /\ UNCHANGED <<vars, links, row, phase, uid, models, em>>

\* Simulator::Run returns with the events that are left undone.
StopRun(e) ==
  /\ e.kind = "stop" /\ Dispatch(e)
  /\ phase' = "stopped"
  /\ queue' = queue \ {e}
  /\ UNCHANGED <<vars, links, row, uid, models, em, iface>>

SimNext == \/ ScheduleFailure \/ Run
           \/ \E e \in queue : FailLink(e) \/ LiftFailure(e) \/ SetDown(e) \/ StopRun(e)

-----------------------------------------------------------------------------
(* Properties                                                              *)

\* Device d corrupts every packet it receives.
Filters(d) == em[d] # 0 /\ models[em[d]]

\* Every variable has its type: an error model in use exists, and the events
\* to come refer to existing links and models and lie in the future.
SimTypeOK ==
  /\ row \in 1..(Len(rows) + 1)
  /\ phase \in {"topology", "installed", "failures", "setup", "running", "stopped"}
  /\ models \in Seq(BOOLEAN)
  /\ em \in [Devices -> 0..Len(models)]
  /\ iface \in [Devices -> {"up", "down"}]
  /\ \A e \in queue :
       /\ e.at >= now /\ e.uid < uid
       /\ e.kind = "lift" => e.model \in DOMAIN models
       /\ e.kind = "fail" => e.link \in Chans
       /\ e.kind = "down" => e.device \in Devices

\* No event of the current instant is left.
Settled == phase = "running" /\ \A e \in queue : e.at > now

\* The rows that have failed link c so far, and the last of them: rows that
\* start together take effect in the order of the file.
StartedRows(c) == {i \in DOMAIN rows : c \in Selected(rows[i]) /\ AsU32(rows[i].begin) * 1000 <= now}
Governs(i, c) ==
  /\ i \in StartedRows(c)
  /\ \A j \in StartedRows(c) :
       \/ AsU32(rows[j].begin) < AsU32(rows[i].begin)
       \/ AsU32(rows[j].begin) = AsU32(rows[i].begin) /\ j <= i

\* Whether row i's failure has not ended yet.
InWindow(i) == LET r == rows[i] IN
  AsU32(r.end) = 0 \/ now < (AsU32(r.begin) + AsU32(r.end)) * 1000

\* Between events a link filters its packets, at both ends alike, exactly when
\* the last of the failures that have begun on it has not ended: an older
\* failure's end does not cut a newer one short, links that no row names and
\* rows that have not begun change nothing.
DarkExactly ==
  Settled => \A c \in Chans : \A d \in Ends(c) :
    Filters(d) <=> \E i \in DOMAIN rows : Governs(i, c) /\ InWindow(i)

\* An interface is taken down only while its link filters packets at both
\* ends, so no packet leaves for an interface that is just down.
DownWhileDark ==
  [][\A c \in Chans : \A d \in Ends(c) :
       iface[d] = "up" /\ iface'[d] = "down" => \A x \in Ends(c) : Filters(x)]_simVars

\* When the simulation stops, the interfaces that are down are exactly both
\* ends of the links whose failure began before the end of the run.
DownAtStop ==
  phase = "stopped" => \A c \in Chans : \A d \in Ends(c) :
    iface[d] = "down" <=>
      \E i \in DOMAIN rows : c \in Selected(rows[i]) /\ AsU32(rows[i].begin) < Runtime

SamePair(r, s) == {r.src, r.dst} = {s.src, s.dst}

\* The failure of a row that begins during the run fails a link between its
\* two nodes (NtfTopoGen.cc:76-80, README.md:36).
EveryRowFails ==
  phase = "stopped" => \A i \in DOMAIN rows :
    AsU32(rows[i].begin) < Runtime /\ (\E c \in Chans : SamePair(links[c], rows[i]))
      => \E c \in Chans : SamePair(links[c], rows[i]) /\ \E d \in Ends(c) : em[d] # 0
=============================================================================
