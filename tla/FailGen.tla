------------------------------- MODULE FailGen -------------------------------
(***************************************************************************)
(* misc/fail_gen.py, the script that makes a failures file out of a        *)
(* topology: it keeps one of the two lines of each link, sorts them by     *)
(* metric and lets them fail one after the other, ten seconds apart.       *)
(*                                                                         *)
(* The reverse of a line is deleted from the list while a for loop goes    *)
(* over that list: the loop goes on with the next index of what is left.   *)
(* Lines that have a begin already are not modelled.                       *)
(***************************************************************************)
EXTENDS NtfParser, FiniteSetsExt

VARIABLES b,        \* the list, as lines
          visit,    \* the index that the loop visits next
          gen       \* "idle", "pairing", "written" or "crashed"

genVars == <<b, visit, gen>>

BASE == 60

GenInit == b = <<>> /\ visit = 1 /\ gen = "idle"

\* The topology is read.
ReadTopology(lines) ==
  /\ gen = "idle"
  /\ b' = lines
  /\ gen' = "pairing"
  /\ UNCHANGED visit

\* The positions of a line's reverse.
ReverseOf(l) == {i \in DOMAIN b : Text(b[i]) = Plain(l.dst, l.src, l.metric, l.delay)}

\* Mutant of DeleteReverse: the line itself is looked for and deleted.
DeleteItself ==
  /\ gen = "pairing" /\ visit <= Len(b) /\ ReverseOf(b[visit]) # {}
  /\ b' = RemoveFirst(b, b[visit])
  /\ visit' = visit + 1
  /\ UNCHANGED gen

\* del b[b.index(reverse)], the first one.
DeleteReverse ==
  /\ gen = "pairing" /\ visit <= Len(b) /\ ReverseOf(b[visit]) # {}
  /\ b' = RemoveAt(b, Min(ReverseOf(b[visit])))
  /\ visit' = visit + 1
  /\ UNCHANGED gen

\* ValueError: the two directions of a link differ in metric or delay, or
\* there is only one.  Nothing is written.
NoReverse ==
  /\ gen = "pairing" /\ visit <= Len(b) /\ ReverseOf(b[visit]) = {}
  /\ gen' = "crashed"
  /\ UNCHANGED <<b, visit>>

\* sort() is stable.
Sorted ==
  LET Before(i, j) == b[i].metric < b[j].metric \/ (b[i].metric = b[j].metric /\ i < j)
      Rank(i) == 1 + Cardinality({j \in DOMAIN b : Before(j, i)})
  IN [k \in DOMAIN b |-> b[CHOOSE i \in DOMAIN b : Rank(i) = k]]

WriteFailures ==
  /\ gen = "pairing" /\ visit > Len(b)
  /\ b' = [k \in DOMAIN b |-> [Sorted[k] EXCEPT !.begin = BASE + 10 * (k - 1)]]
  /\ gen' = "written"
  /\ UNCHANGED visit

Generate == DeleteReverse \/ NoReverse \/ WriteFailures
=============================================================================
