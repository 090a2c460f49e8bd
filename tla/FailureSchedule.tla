--------------------------- MODULE FailureSchedule ---------------------------
(***************************************************************************)
(* From a failures file to failed links: the parser on the topology, which *)
(* installs its rows as links and leaves the .map file; a failures file,   *)
(* written by hand or by misc/fail_gen.py (FailGen), given as a whole or   *)
(* line by line as the wrapper's --single does; the parser again, on it;   *)
(* then the simulation with what it printed (LinkFailure).                 *)
(*                                                                         *)
(* A file of the generator is taken to be given a name that belongs to the *)
(* topology, "<topology>-failures...", as the parser asks for.             *)
(***************************************************************************)
EXTENDS LinkFailure, FailGen

CONSTANT ByHand     \* the topologies that failures files are written for

ASSUME ScheduleAssumption ==
  \* The generator's begins, ten seconds apart, do not wrap in milliseconds.
  \A f \in Files : f.kind = "topology" => (BASE + 10 * Len(f.lines)) * 1000 + 18 < U32

VARIABLES topology, \* the lines of the topology
          origin    \* "none", "hand", "whole" or "single": where the failures are from

scheduleVars == <<vars, simVars, genVars, topology, origin>>

ScheduleInit ==
  /\ Init /\ file.kind = "topology"
  /\ SimInit
  /\ GenInit
  /\ topology = Lines
  /\ origin = "none"

\* One step of ntf_parser.py.
Parse ==
  /\ phase \in {"topology", "failures"}
  /\ ReadLine \/ Unexpected \/ EndReading \/ PrintPair \/ UnknownName \/ Finish
  /\ UNCHANGED <<simVars, genVars, topology, origin>>

\* p2p.Install for each row that the parser printed.  (The verification that
\* may end the program before the failures are read is in NtfTopoGen.)
InstallTopology ==
  /\ phase = "topology" /\ Ended
  /\ links' = rows
  /\ em' = [d \in (DOMAIN rows) \X {0, 1} |-> 0]
  /\ iface' = [d \in (DOMAIN rows) \X {0, 1} |-> "up"]
  /\ phase' = "installed"
  /\ UNCHANGED <<vars, genVars, row, now, queue, uid, models, topology, origin>>

\* The script is run again, on a failures file; the .map file is still there.
GiveFile(lines, from) ==
  /\ phase = "installed"
  /\ file' = [kind |-> "failures", lines |-> lines]
  /\ pos' = 1 /\ nodes' = <<>> /\ pairs' = <<>> /\ next' = 1 /\ rows' = <<>>
  /\ left' = [i \in DOMAIN lines |-> Text(lines[i])]
  /\ status' = "reading"
  /\ phase' = "failures" /\ origin' = from
  /\ UNCHANGED <<map, links, row, now, queue, uid, models, em, iface, genVars, topology>>

GiveByHand == /\ phase = "installed" /\ gen = "idle" /\ topology \in ByHand
              /\ \E f \in Files : f.kind = "failures" /\ GiveFile(f.lines, "hand")

Generator == /\ phase = "installed"
             /\ ReadTopology(topology) \/ Generate
             /\ UNCHANGED <<vars, simVars, topology, origin>>

\* The whole file, or one of its lines in a temporary file of its own.
GiveGenerated == /\ gen = "written"
                 /\ \/ GiveFile(b, "whole")
                    \/ \E k \in DOMAIN b : GiveFile(<<b[k]>>, "single")

\* NtfContent: the rows are taken, the exit status is not.
TakeFailures ==
  /\ phase = "failures" /\ Ended
  /\ phase' = "setup"
  /\ UNCHANGED <<vars, links, row, now, queue, uid, models, em, iface, genVars, topology, origin>>

Simulate == SimNext /\ UNCHANGED <<genVars, topology, origin>>

Over == (phase = "stopped" \/ gen = "crashed") /\ UNCHANGED scheduleVars

ScheduleNext ==
  \/ Parse \/ InstallTopology \/ GiveByHand \/ Generator \/ GiveGenerated
  \/ TakeFailures \/ Simulate \/ Over

ScheduleSpec == ScheduleInit /\ [][ScheduleNext]_scheduleVars

-----------------------------------------------------------------------------
(* Properties                                                              *)

\* The two names of a link, and of a line.
Names(c) == {map[links[c].src + 1], map[links[c].dst + 1]}
NamesOf(l) == {l.src, l.dst}

\* A device gets an error model only at an instant at which a line of the
\* failures file lets a link between its two nodes fail, by their names in
\* the topology: whatever the order of the names in the failures file, and
\* whichever of its rows were printed before the parser gave up.
OnlyNamedFail ==
  [][\A c \in Chans : \A d \in Ends(c) : em'[d] # em[d] =>
       \E i \in DOMAIN Lines : NamesOf(Lines[i]) = Names(c) /\ Lines[i].begin * 1000 = now']_scheduleVars

\* The topology gives each direction of a link once, and no begin or end.
Simple ==
  /\ \A i \in DOMAIN topology : topology[i].begin = Missing /\ topology[i].end = Missing
  /\ \A i, j \in DOMAIN topology :
       topology[i].src = topology[j].src /\ topology[i].dst = topology[j].dst => i = j

Dark == {c \in Chans : \A d \in Ends(c) : Filters(d)}

\* From a topology without parallel links, what the generator writes fails one
\* link for each of its lines that begins during the run, at both its ends and
\* nothing else; its whole file has a line for each link, and fails those with
\* the lowest metrics.
GeneratedFailsEach ==
  phase = "stopped" /\ origin \in {"whole", "single"} /\ Simple =>
    LET began == {i \in DOMAIN Lines : Lines[i].begin <= Runtime}
    IN /\ Cardinality(Dark) = Cardinality(began) /\ Len(models) = Cardinality(began)
       /\ {d \in Devices : em[d] # 0} = UNION {Ends(c) : c \in Dark}
       /\ {Names(c) : c \in Dark} = {NamesOf(Lines[i]) : i \in began}
       /\ origin = "whole" =>
            /\ Len(Lines) = Len(links)
            /\ \A c \in Dark : \A x \in Chans \ Dark : links[c].f <= links[x].f
=============================================================================
