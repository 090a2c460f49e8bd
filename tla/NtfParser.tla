------------------------------ MODULE NtfParser ------------------------------
(***************************************************************************)
(* myscripts/bird/ntf_parser.py, the script that turns an NTF file into    *)
(* the rows that the simulator reads.  A line of the file describes one    *)
(* direction of a link; the script pairs the directions.  It is run on a   *)
(* topology, whose nodes it numbers in the order of their appearance (the  *)
(* .map file), and on a failures file (a name with "failures" in it),      *)
(* whose nodes it looks up in that .map file.                              *)
(*                                                                         *)
(* Comments and empty lines are left out of `file'.  A node's id is its    *)
(* index in the list of nodes less one, as in the script.                  *)
(***************************************************************************)
EXTENDS Integers, Sequences, FiniteSets, SequencesExt, Bags

CONSTANTS Files,    \* the files it may be run on
          Maps      \* the .map files a run on failures may find

Missing == -1       \* a metric or a field that a line does not give

IsLine(l) == /\ DOMAIN l = {"src", "dst", "metric", "delay", "begin", "end"}
             /\ l.metric \in Nat
             /\ l.delay \in Nat
             /\ l.begin \in Nat \cup {Missing} /\ l.end \in Nat \cup {Missing}

IsSequence(s) == s \in Seq(ToSet(s))

ASSUME NtfParserAssumption ==
  /\ \A f \in Files : /\ f.kind \in {"topology", "failures"}
                      /\ IsSequence(f.lines) /\ \A i \in DOMAIN f.lines : IsLine(f.lines[i])
  /\ \A m \in Maps : IsSequence(m)

VARIABLES file,     \* the NTF file, [kind, lines]
          map,      \* the names in the .map file, by id; <<>> if there is none
          pos,      \* the line that is read next
          nodes,    \* the names, in the order in which they were first seen
          pairs,    \* the dictionary `links', in insertion order
          next,     \* the pair that is printed next
          rows,     \* the rows printed so far
          left,     \* `data': the lines no printed row stands for
          status    \* "reading", "printing", or how the script ended

vars == <<file, map, pos, nodes, pairs, next, rows, left, status>>

Lines == file.lines

\* The text of a line, as `data' keeps it: a line with a begin or an end is
\* longer than any line the script compares it with.
Plain(src, dst, metric, delay) == <<src, dst, metric, delay>>
Text(l) == IF l.begin = Missing /\ l.end = Missing
           THEN Plain(l.src, l.dst, l.metric, l.delay)
           ELSE <<l.src, l.dst, l.metric, l.delay, l.begin, l.end>>

Init ==
  /\ file \in Files
  /\ map \in IF file.kind = "failures" THEN Maps ELSE {<<>>}
  /\ pos = 1
  /\ nodes = <<>>
  /\ pairs = <<>>
  /\ next = 1
  /\ rows = <<>>
  /\ left = [i \in DOMAIN Lines |-> Text(Lines[i])]
  /\ status = "reading"

-----------------------------------------------------------------------------
(* Reading: the six ways a line is taken                                   *)

Reading == status = "reading" /\ pos <= Len(Lines)

\* The key (src, dst) is at position k of the dictionary.
At(k, src, dst) == k \in DOMAIN pairs /\ pairs[k].src = src /\ pairs[k].dst = dst
Forward(l) == {k \in DOMAIN pairs : At(k, l.src, l.dst)}

\* Mutant of Reversed: the reversed key is built, but not reversed.
ReversedNever(l) == {}

\* Looked at only if there is no forward key.
Reversed(l) == IF Forward(l) = {} THEN {k \in DOMAIN pairs : At(k, l.dst, l.src)} ELSE {}

EntryOf(l, f, r) == [f |-> f, r |-> r, delay |-> l.delay, begin |-> l.begin, end |-> l.end]

AppendEntry(k, e) == [pairs EXCEPT ![k].entries = Append(@, e)]
LastEntry(k) == Last(pairs[k].entries)
SetLast(k, e) == [pairs EXCEPT ![k].entries = Append(Front(@), e)]

ReadOn == pos' = pos + 1 /\ UNCHANGED <<file, map, next, rows, left, status>>

\* A name is noted the first time it is seen.
Noted(seen, n) == IF Contains(seen, n) THEN seen ELSE Append(seen, n)

\* Mutant of NewPair: only the first node of the line is recorded.
NewPairSource(l) ==
  /\ Forward(l) = {} /\ Reversed(l) = {}
  /\ pairs' = Append(pairs, [src |-> l.src, dst |-> l.dst,
                             entries |-> <<EntryOf(l, l.metric, Missing)>>])
  /\ nodes' = Noted(nodes, l.src)

\* Mutant of NewPair: both nodes are appended, known or not.
NewPairTwice(l) ==
  /\ Forward(l) = {} /\ Reversed(l) = {}
  /\ pairs' = Append(pairs, [src |-> l.src, dst |-> l.dst,
                             entries |-> <<EntryOf(l, l.metric, Missing)>>])
  /\ nodes' = nodes \o <<l.src, l.dst>>

\* Neither direction is known: a new pair, and maybe new nodes.
NewPair(l) ==
  /\ Forward(l) = {} /\ Reversed(l) = {}
  /\ pairs' = Append(pairs, [src |-> l.src, dst |-> l.dst,
                             entries |-> <<EntryOf(l, l.metric, Missing)>>])
  /\ nodes' = Noted(Noted(nodes, l.src), l.dst)

\* Mutant of SetReverse: the metric goes to the wrong direction.
SetReverseForward(l, k) ==
  /\ k \in Reversed(l) /\ LastEntry(k).r = Missing
  /\ pairs' = SetLast(k, [LastEntry(k) EXCEPT !.r = @, !.f = l.metric])
  /\ UNCHANGED nodes

\* The last link of the reversed pair has no reverse metric yet; the rest of
\* the line, its begin and end included, is dropped.
SetReverse(l, k) ==
  /\ k \in Reversed(l) /\ LastEntry(k).r = Missing
  /\ pairs' = SetLast(k, [LastEntry(k) EXCEPT !.r = l.metric])
  /\ UNCHANGED nodes

\* It has both: a new link between the same nodes, seen from its far end.
NewReverse(l, k) ==
  /\ k \in Reversed(l) /\ LastEntry(k).r # Missing
  /\ pairs' = AppendEntry(k, EntryOf(l, Missing, l.metric))
  /\ UNCHANGED nodes

\* The last link of the pair was first seen from its far end.
SetForward(l, k) ==
  /\ k \in Forward(l) /\ LastEntry(k).r # Missing /\ LastEntry(k).f = Missing
  /\ pairs' = SetLast(k, [LastEntry(k) EXCEPT !.f = l.metric])
  /\ UNCHANGED nodes

NewForward(l, k) ==
  /\ k \in Forward(l) /\ LastEntry(k).r # Missing /\ LastEntry(k).f # Missing
  /\ pairs' = AppendEntry(k, EntryOf(l, l.metric, Missing))
  /\ UNCHANGED nodes

ReadLine ==
  /\ Reading
  /\ LET l == Lines[pos] IN
       \/ NewPair(l)
       \/ \E k \in DOMAIN pairs : \/ SetReverse(l, k) \/ NewReverse(l, k)
                                  \/ SetForward(l, k) \/ NewForward(l, k)
  /\ ReadOn

\* The same direction again, with no reverse in between: '#unexpected'.
Unexpected ==
  /\ Reading
  /\ \E k \in Forward(Lines[pos]) : LastEntry(k).r = Missing
  /\ status' = "rejected"
  /\ UNCHANGED <<file, map, pos, nodes, pairs, next, rows, left>>

-----------------------------------------------------------------------------
(* Printing                                                                *)

\* End of the file: a topology writes its .map, failures read one.
EndReading ==
  /\ status = "reading" /\ pos > Len(Lines)
  /\ IF file.kind = "topology" THEN map' = nodes /\ status' = "printing"
     ELSE UNCHANGED map /\ status' = IF map = <<>> THEN "rejected" ELSE "printing"
  /\ UNCHANGED <<file, pos, nodes, pairs, next, rows, left>>

\* Mutant of Id: failures are numbered by their own file, as a topology is.
IdInFile(name) == (CHOOSE i \in DOMAIN nodes : nodes[i] = name) - 1

Id(name) == (CHOOSE i \in DOMAIN map : map[i] = name /\ \A j \in 1..(i - 1) : map[j] # name) - 1

RowOf(p, e) == [src |-> Id(p.src), dst |-> Id(p.dst), f |-> e.f, r |-> e.r,
                delay |-> e.delay, begin |-> e.begin, end |-> e.end]

\* The lines a printed link accounts for; data.remove() takes the first.
Accounted(p, e) == <<Plain(p.src, p.dst, e.f, e.delay), Plain(p.dst, p.src, e.r, e.delay)>>

PrintPair ==
  /\ status = "printing" /\ next <= Len(pairs)
  /\ LET p == pairs[next] IN
       /\ {p.src, p.dst} \subseteq ToSet(map)
       /\ rows' = rows \o [i \in DOMAIN p.entries |-> RowOf(p, p.entries[i])]
       /\ left' = FoldLeft(RemoveFirst, left,
                           FlattenSeq([i \in DOMAIN p.entries |-> Accounted(p, p.entries[i])]))
  /\ next' = next + 1
  /\ UNCHANGED <<file, map, pos, nodes, pairs, status>>

\* ValueError: the name is not in the .map file.  What was printed stays.
UnknownName ==
  /\ status = "printing" /\ next <= Len(pairs)
  /\ ~({pairs[next].src, pairs[next].dst} \subseteq ToSet(map))
  /\ status' = "crashed"
  /\ UNCHANGED <<file, map, pos, nodes, pairs, next, rows, left>>

\* mygraph: the last link of a pair overwrites the others, and a zero is no
\* edge; connected_components() finds weak components.
Edges == { {p.src, p.dst} : p \in {q \in ToSet(pairs) : Last(q.entries).f # 0 \/ Last(q.entries).r # 0} }

Connected(vertices, edges) ==
  /\ vertices # {}
  /\ \A S \in SUBSET vertices \ {{}, vertices} :
       \E e \in edges : e \cap S # {} /\ e \ S # {}

\* Mutant of Finish: the lines no link accounts for are not looked at.
FinishUnchecked ==
  /\ status = "printing" /\ next > Len(pairs)
  /\ status' = IF file.kind = "topology" /\ ~Connected(ToSet(nodes), Edges)
               THEN "rejected" ELSE "accepted"
  /\ UNCHANGED <<file, map, pos, nodes, pairs, next, rows, left>>

Finish ==
  /\ status = "printing" /\ next > Len(pairs)
  /\ status' = IF file.kind = "topology" /\ (left # <<>> \/ ~Connected(ToSet(nodes), Edges))
               THEN "rejected" ELSE "accepted"
  /\ UNCHANGED <<file, map, pos, nodes, pairs, next, rows, left>>

Ended == status \in {"accepted", "rejected", "crashed"}

Terminated == Ended /\ UNCHANGED vars

Next == ReadLine \/ Unexpected \/ EndReading \/ PrintPair \/ UnknownName \/ Finish \/ Terminated

Spec == Init /\ [][Next]_vars

-----------------------------------------------------------------------------
(* Properties                                                              *)

Missable == Nat \cup {Missing}

\* Every variable has its type; no node has two numbers, and a link in the
\* dictionary has at least one metric.
TypeOK ==
  /\ pos \in 1..(Len(Lines) + 1) /\ next \in 1..(Len(pairs) + 1)
  /\ status \in {"reading", "printing", "accepted", "rejected", "crashed"}
  /\ IsInjective(nodes)
  /\ \A k \in DOMAIN pairs :
       /\ pairs[k].entries # <<>>
       /\ \A i \in DOMAIN pairs[k].entries : LET e == pairs[k].entries[i] IN
            /\ {e.f, e.r, e.begin, e.end} \subseteq Missable
            /\ e.f # Missing \/ e.r # Missing

\* The dictionary knows a pair of nodes in one direction only.
OneDirection ==
  \A j, k \in DOMAIN pairs : j # k => {pairs[j].src, pairs[j].dst} # {pairs[k].src, pairs[k].dst}

\* The directed lines that the printed rows stand for.
Expressed(r) ==
  (IF r.f = Missing THEN <<>> ELSE <<Plain(map[r.src + 1], map[r.dst + 1], r.f, r.delay)>>)
  \o (IF r.r = Missing THEN <<>> ELSE <<Plain(map[r.dst + 1], map[r.src + 1], r.r, r.delay)>>)

\* The rows of an accepted topology stand for exactly the lines of its file,
\* each as often as the file has it: pairing the directions loses no line,
\* swaps no metric and mixes no two delays.
AcceptedFaithful ==
  status = "accepted" /\ file.kind = "topology" =>
    ToBag(FlattenSeq([i \in DOMAIN rows |-> Expressed(rows[i])]))
      = ToBag([i \in DOMAIN Lines |-> Text(Lines[i])])

\* The nodes of a line, and of a pair.
EndsOf(l) == {l.src, l.dst}

\* Line j is the next after line i that is about the same two nodes.
NextBetween(i, j) ==
  /\ i < j /\ EndsOf(Lines[j]) = EndsOf(Lines[i])
  /\ \A k \in (i + 1)..(j - 1) : EndsOf(Lines[k]) # EndsOf(Lines[i])

\* The lines in `first' open a link, and each other line closes the one that
\* the last line about its two nodes has opened: it gives the other direction,
\* with the same delay.
Paired(first) ==
  /\ \A i \in first : \E j \in DOMAIN Lines \ first :
       NextBetween(i, j) /\ Lines[j].src = Lines[i].dst /\ Lines[j].delay = Lines[i].delay
  /\ \A j \in DOMAIN Lines \ first : \E i \in first : NextBetween(i, j)

PlainLinks ==
  \A i \in DOMAIN Lines : LET l == Lines[i] IN
    l.src # l.dst /\ l.metric > 0 /\ l.begin = Missing /\ l.end = Missing

\* Every link is given by two consecutive lines of its pair of nodes, one for
\* each direction, with the same delay; other pairs may come in between.
WellFormed == PlainLinks /\ \E first \in SUBSET DOMAIN Lines : Paired(first)

FileNames == {Lines[i].src : i \in DOMAIN Lines} \cup {Lines[i].dst : i \in DOMAIN Lines}
FileConnected == Connected(FileNames, {EndsOf(Lines[i]) : i \in DOMAIN Lines})

\* A well-formed and connected topology is accepted, in whatever order its
\* links are listed and whichever direction of a link comes first.
WellFormedAccepted ==
  Ended /\ file.kind = "topology" /\ WellFormed /\ FileConnected => status = "accepted"

\* The names of the first i lines.
Seen[i \in 0..Len(Lines)] ==
  IF i = 0 THEN <<>> ELSE Noted(Noted(Seen[i - 1], Lines[i].src), Lines[i].dst)

\* The numbering of spfs.py, when it reads the whole file: the first
\* appearance of a name, over both nodes of every line.
FirstAppearance == Seen[Len(Lines)]

\* The .map that the rest of the run uses, written from the pairs, gives every
\* node the number that spfs.py gives it, which goes over the lines themselves.
NumberingAgrees ==
  file.kind = "topology" /\ status \in {"printing", "accepted"} => map = FirstAppearance

\* A failures file that names each pair of nodes once, and only nodes of the
\* topology, gives one row per line, in order, with the direction, the ids,
\* the begin and the end of the line.
FailuresInOrder ==
  status = "accepted" /\ file.kind = "failures"
    /\ (\A i, j \in DOMAIN Lines : i # j => {Lines[i].src, Lines[i].dst} # {Lines[j].src, Lines[j].dst})
  => /\ Len(rows) = Len(Lines)
     /\ \A i \in DOMAIN rows :
          /\ map[rows[i].src + 1] = Lines[i].src /\ map[rows[i].dst + 1] = Lines[i].dst
          /\ rows[i].begin = Lines[i].begin /\ rows[i].end = Lines[i].end

\* Each line of a failures file gives a failure that begins when it says
\* (README.md:36).
EveryLineFails ==
  Ended /\ file.kind = "failures" /\ map # <<>> => \A i \in DOMAIN Lines :
    {Lines[i].src, Lines[i].dst} \subseteq ToSet(map) =>
      \E j \in DOMAIN rows :
        /\ {map[rows[j].src + 1], map[rows[j].dst + 1]} = {Lines[i].src, Lines[i].dst}
        /\ rows[j].begin = Lines[i].begin
=============================================================================
