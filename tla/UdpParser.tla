------------------------------ MODULE UdpParser ------------------------------
(***************************************************************************)
(* udp_parser.py: the convergence time of a simulation from the logs of    *)
(* its UDP servers.  Clients send a packet with its time every dx; a       *)
(* server logs the source, the time in the packet and the time of its      *)
(* arrival (UdpTraffic.tla).  local_gaps() finds the gaps in one log, one  *)
(* source at a time, and files each under the failure it contains;         *)
(* converge_time() merges the gaps of all logs; the report at the end      *)
(* gives one number for the simulation.                                    *)
(*                                                                         *)
(* Times are counted in dx, from 1 on.                                     *)
(***************************************************************************)
EXTENDS Integers, Sequences, FiniteSets, SequencesExt, FiniteSetsExt

CONSTANTS Sources,    \* the addresses that the logs name
          Fails,      \* the times of the failures looked for, in order
          Validate    \* VALIDATE: the packets that confirm the end of a gap

ASSUME UdpParserAssumption ==
  /\ Validate \in Nat /\ Fails \in Seq(Nat)
  /\ \A i, j \in DOMAIN Fails : i <= j => Fails[i] <= Fails[j]

VARIABLES logs,      \* the servers' logs, as sequences of lines
          dir,       \* the log that is read
          pos,       \* its next line
          control,   \* the state of each source
          gaps,      \* the gaps found in the log
          fitting,   \* the next gap to be filed under a failure; 0 while reading
          idx,       \* the failure the search starts from
          allGaps,   \* allGaps[i]: the gaps filed under failure i, of all logs
          convergence,
          result     \* the convergence time that is reported

parserVars == <<dir, pos, control, gaps, fitting, idx, allGaps, convergence, result>>

None == 0
NotReported == -1
Log == logs[dir]
Line == [src : Sources, timestamp : Nat \ {0}, received : Nat \ {0}]

Unknown == [low |-> None, lowReceived |-> None, previous |-> None, previousReceived |-> None,
            candidate |-> None, highReceived |-> None, validate |-> Validate]

ParserInit ==
  /\ dir = 1 /\ pos = 1
  /\ control = [s \in Sources |-> Unknown]
  /\ gaps = <<>>
  /\ fitting = 0 /\ idx = 1
  /\ allGaps = [i \in DOMAIN Fails |-> <<>>]
  /\ convergence = <<>>
  /\ result = NotReported

-----------------------------------------------------------------------------
(* local_gaps: one line                                                    *)

Keep(c) == control' = [control EXCEPT ![Log[pos].src] = c]

\* The first line of a source.
Start(c, l) ==
  /\ c = Unknown
  /\ Keep([c EXCEPT !.low = l.timestamp])
  /\ UNCHANGED gaps

\* No gap is open, and the packet follows the last one.
Continues(c, l) ==
  /\ c # Unknown /\ c.previous = None /\ l.timestamp - c.low = 1
  /\ Keep([c EXCEPT !.low = l.timestamp, !.lowReceived = l.received])
  /\ UNCHANGED gaps

Step(c, l) == [c EXCEPT !.previous = l.timestamp, !.previousReceived = l.received]

\* Mutant of Opens: the packet after the gap becomes the lower bound.
OpensMoving(c, l) ==
  /\ c # Unknown /\ c.previous = None /\ l.timestamp - c.low # 1
  /\ Keep([Step(c, l) EXCEPT !.low = l.timestamp])
  /\ UNCHANGED gaps

\* A gap opens; low stays its lower bound.
Opens(c, l) ==
  /\ c # Unknown /\ c.previous = None /\ l.timestamp - c.low # 1
  /\ Keep(Step(c, l))
  /\ UNCHANGED gaps

Follows(c, l) == c.previous # None /\ l.timestamp - c.previous = 1

\* Mutant of Proposes: the second packet in order is the candidate.
ProposesLate(c, l) ==
  /\ Follows(c, l) /\ c.candidate = None
  /\ Keep([Step(c, l) EXCEPT !.candidate = l.timestamp, !.highReceived = l.received])
  /\ UNCHANGED gaps

\* Two packets in order: the first of them may be the end of the gap.
Proposes(c, l) ==
  /\ Follows(c, l) /\ c.candidate = None
  /\ Keep([Step(c, l) EXCEPT !.candidate = c.previous, !.highReceived = c.previousReceived])
  /\ UNCHANGED gaps

Validates(c, l) ==
  /\ Follows(c, l) /\ c.candidate # None /\ c.validate # 0
  /\ Keep([Step(c, l) EXCEPT !.validate = @ - 1])
  /\ UNCHANGED gaps

Gap(c, src) ==
  [src |-> src, low |-> c.low, high |-> c.highReceived, width |-> c.highReceived - c.lowReceived]

\* Mutant of Closes: the gap closes, and its lower bound stays.
ClosesKeepingLow(c, l) ==
  /\ Follows(c, l) /\ c.candidate # None /\ c.validate = 0 /\ c.lowReceived # None
  /\ gaps' = Append(gaps, Gap(c, l.src))
  /\ Keep([c EXCEPT !.candidate = None, !.highReceived = None, !.previous = None,
                    !.validate = Validate, !.lowReceived = l.received])

\* The gap is closed, and the search starts again from this packet.
Closes(c, l) ==
  /\ Follows(c, l) /\ c.candidate # None /\ c.validate = 0 /\ c.lowReceived # None
  /\ gaps' = Append(gaps, Gap(c, l.src))
  /\ Keep([c EXCEPT !.candidate = None, !.highReceived = None, !.previous = None,
                    !.validate = Validate, !.low = l.timestamp, !.lowReceived = l.received])

\* KeyError: the gap came after the first packet, whose arrival is not kept.
\* The handler takes the source for a new one.
Forgets(c, l) ==
  /\ Follows(c, l) /\ c.candidate # None /\ c.validate = 0 /\ c.lowReceived = None
  /\ Keep([Unknown EXCEPT !.low = l.timestamp])
  /\ UNCHANGED gaps

\* Mutant of Breaks: the candidate goes, its arrival stays.
BreaksHalf(c, l) ==
  /\ c.previous # None /\ ~Follows(c, l)
  /\ Keep([Step(c, l) EXCEPT !.candidate = None])
  /\ UNCHANGED gaps

\* Out of order, while a gap is open: the candidate goes; validate stays.
Breaks(c, l) ==
  /\ c.previous # None /\ ~Follows(c, l)
  /\ Keep([Step(c, l) EXCEPT !.candidate = None, !.highReceived = None])
  /\ UNCHANGED gaps

ReadLine ==
  /\ dir \in DOMAIN logs /\ fitting = 0 /\ pos <= Len(Log)
  /\ LET l == Log[pos]  c == control[l.src] IN
       \/ Start(c, l) \/ Continues(c, l) \/ Opens(c, l) \/ Proposes(c, l)
       \/ Validates(c, l) \/ Closes(c, l) \/ Forgets(c, l) \/ Breaks(c, l)
  /\ pos' = pos + 1
  /\ UNCHANGED <<logs, dir, fitting, idx, allGaps, convergence, result>>

EndLog ==
  /\ dir \in DOMAIN logs /\ fitting = 0 /\ pos > Len(Log)
  /\ fitting' = 1
  /\ UNCHANGED <<logs, dir, pos, control, gaps, idx, allGaps, convergence, result>>

-----------------------------------------------------------------------------
(* local_gaps: the failures                                                *)

\* The failures from `from' on that a gap contains; low is a time of sending,
\* high one of arrival.
Fitting(gap, from) == {i \in from..Len(Fails) : Fails[i] >= gap.low /\ Fails[i] <= gap.high}

\* Mutant of FileGap: the search goes on behind the failure of the gap before.
FileGapOnce ==
  /\ fitting \in DOMAIN gaps /\ Fitting(gaps[fitting], idx) # {}
  /\ idx' = Min(Fitting(gaps[fitting], idx)) + 1
  /\ allGaps' = [allGaps EXCEPT ![idx' - 1] = Append(@, gaps[fitting])]
  /\ fitting' = fitting + 1
  /\ UNCHANGED <<logs, dir, pos, control, gaps, convergence, result>>

\* The search goes on from the failure of the gap before.
FileGap ==
  /\ fitting \in DOMAIN gaps /\ Fitting(gaps[fitting], idx) # {}
  /\ idx' = Min(Fitting(gaps[fitting], idx))
  /\ allGaps' = [allGaps EXCEPT ![idx'] = Append(@, gaps[fitting])]
  /\ fitting' = fitting + 1
  /\ UNCHANGED <<logs, dir, pos, control, gaps, convergence, result>>

\* 'Unexpected'
SkipGap ==
  /\ fitting \in DOMAIN gaps /\ Fitting(gaps[fitting], idx) = {}
  /\ fitting' = fitting + 1
  /\ UNCHANGED <<logs, dir, pos, control, gaps, idx, allGaps, convergence, result>>

NextLog ==
  /\ fitting = Len(gaps) + 1
  /\ dir' = dir + 1 /\ pos' = 1
  /\ control' = [s \in Sources |-> Unknown]
  /\ gaps' = <<>> /\ fitting' = 0 /\ idx' = 1
  /\ UNCHANGED <<logs, allGaps, convergence, result>>

-----------------------------------------------------------------------------
(* converge_time                                                           *)

Done == dir > Len(logs)

\* From the lowest low to the highest high of a failure's gaps; None if it
\* has none.
Converge ==
  /\ Done /\ convergence = <<>>
  /\ convergence' = [i \in DOMAIN Fails |->
       LET found == ToSet(allGaps[i])
       IN IF found = {} THEN None ELSE Max({g.high : g \in found}) - Min({g.low : g \in found})]
  /\ UNCHANGED <<logs, dir, pos, control, gaps, fitting, idx, allGaps, result>>

\* ret[60], the time of the first failure; 0 after 'No gap'.
Report ==
  /\ convergence # <<>> /\ result = NotReported
  /\ result' = IF convergence[1] = None THEN 0 ELSE convergence[1]
  /\ UNCHANGED <<logs, dir, pos, control, gaps, fitting, idx, allGaps, convergence>>

ParserNext == ReadLine \/ EndLog \/ FileGap \/ SkipGap \/ NextLog \/ Converge \/ Report

-----------------------------------------------------------------------------
(* Properties                                                              *)

\* Every variable has its type: a source has a candidate only while a gap is
\* open, and always with its arrival; validate does not become negative.
TypeOK ==
  /\ logs \in Seq(Seq(Line))
  /\ \A s \in DOMAIN control : LET c == control[s] IN
       /\ c.validate \in 0..Validate
       /\ (c.candidate = None) = (c.highReceived = None)
       /\ c.candidate # None => c.previous # None /\ c.candidate < c.previous
       /\ c.low = None => c = Unknown
  /\ idx \in 1..(Len(Fails) + 1) /\ fitting \in 0..(Len(gaps) + 1)

\* The lines, or the gaps, of one source, in the order of the list.
From(list, src) ==
  LET of[n \in 0..Len(list)] ==
        IF n = 0 THEN <<>>
        ELSE IF list[n].src = src THEN Append(of[n - 1], list[n]) ELSE of[n - 1]
  IN  of[Len(list)]

\* Line j is the next one of its source after line i.
Successive(i, j) ==
  i < j /\ Log[i].src = Log[j].src /\ \A k \in (i + 1)..(j - 1) : Log[k].src # Log[i].src

\* A gap is a real disruption: its lower bound is the time of a packet which
\* the next one, in order of arrival, does not follow, and its upper bound
\* the arrival of a later packet that the next one does follow.
GapIsDisruption ==
  \A g \in ToSet(gaps) : \E i, j \in DOMAIN Log :
    /\ Log[i].src = g.src /\ Log[i].timestamp = g.low
    /\ Log[j].src = g.src /\ Log[j].received = g.high
    /\ \E n \in (i + 1)..j : Successive(i, n) /\ Log[n].timestamp # g.low + 1
    /\ \E n \in (j + 1)..Len(Log) : Successive(j, n) /\ Log[n].timestamp = Log[j].timestamp + 1

\* The gaps of a source are disjoint and in order: none begins before the one
\* before it has ended, as long as no path is slower than another by four
\* packets or more.
GapsDisjoint ==
  \A j, k \in DOMAIN gaps : j < k /\ gaps[j].src = gaps[k].src =>
    \E l \in ToSet(Log) : /\ l.src = gaps[j].src /\ l.received = gaps[j].high
                          /\ l.timestamp < gaps[k].low

\* s has one outage, after its packet i: the packets before and after it are
\* complete and in order, two before and enough to validate after it.
Outage(s, i) ==
  /\ i \in 2..(Len(s) - Validate - 3) /\ s[i + 1].timestamp > s[i].timestamp + 1
  /\ \A k \in 1..(Len(s) - 1) : k # i => s[k + 1].timestamp = s[k].timestamp + 1

\* Of each single outage, exactly one gap is found, with its bounds and its
\* width, whatever the other sources' packets in between.
OutageMeasured ==
  dir \in DOMAIN logs /\ fitting > 0 => \A src \in Sources : LET s == From(Log, src) IN
    \A i \in DOMAIN s : Outage(s, i) =>
      From(gaps, src) =
        << [src |-> src, low |-> s[i].timestamp, high |-> s[i + 1].received,
            width |-> s[i + 1].received - s[i].received] >>
=============================================================================
