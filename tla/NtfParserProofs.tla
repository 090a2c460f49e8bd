--------------------------- MODULE NtfParserProofs ---------------------------
(***************************************************************************)
(* For every set of NTF files and of .map files: what ntf_parser.py keeps  *)
(* about nodes, pairs and rows, the rows it prints for failures, that the  *)
(* .map file numbers the nodes as spfs.py does, that the rows of           *)
(* an accepted topology stand for the lines of its file, and that a        *)
(* well-formed and connected topology is accepted.                         *)
(*                                                                         *)
(* ParserInv is the inductive invariant.  It adds to TypeOK where the data *)
(* come from: every entry of the dictionary, and every printed row, has    *)
(* the nodes, the begin and the end of one line of the file.  OrderInv     *)
(* follows the two loops for a file that names each pair of nodes once.    *)
(* NumberInv compares `nodes' with the names of the lines read so far.     *)
(*                                                                         *)
(* BalanceInv keeps the accounts of a topology: every line has a place of  *)
(* its own in `left' or in a row (Kept), every row an entry of its own     *)
(* (Origins), and there are no more metrics than lines read.  When `left'  *)
(* is empty, lines and metrics of rows are in bijection.  Placing says     *)
(* where the elements of a list of lists are in its concatenation, so that *)
(* two of them with the same elements, in whatever order and grouping,     *)
(* give the same bag (SameElements).                                       *)
(*                                                                         *)
(* AcceptInv follows a file whose lines are paired by a set `first'.  While*)
(* it is read, the last entry of a pair is half open after a line of       *)
(* `first' and complete after any other (HalvesOK), so that no line is     *)
(* unexpected, and every line read has a place of its own among the metrics*)
(* of the dictionary (Fits).  While it is printed, every line left has a   *)
(* place in a pair that is still to come, so that none is left at the end. *)
(*                                                                         *)
(* OnceInv follows a topology that gives each direction of a link once: its*)
(* rows are the links that its lines open (LinksOf).  KnownInv says that a *)
(* failures file with known names is read to its end.                      *)
(***************************************************************************)
EXTENDS NtfParser, SequenceTheorems, FiniteSetTheorems, WellFoundedInduction, TLAPS

Entry == [f : Missable, r : Missable, delay : Nat, begin : Missable, end : Missable]
Pair == [src : FileNames, dst : FileNames, entries : Seq(Entry)]
Row == [src : 0..(Len(map) - 1), dst : 0..(Len(map) - 1),
        f : Missable, r : Missable, delay : Nat, begin : Missable, end : Missable]

\* An entry or a row x of a link between two nodes has its times from line l.
Stems(x, ends, l) == ends = {l.src, l.dst} /\ x.begin = l.begin /\ x.end = l.end

GoodEntry(src, dst, e) ==
  /\ e \in Entry
  /\ e.f # Missing \/ e.r # Missing
  /\ \E j \in DOMAIN Lines : Stems(e, {src, dst}, Lines[j])

GoodEntries(src, dst, s) ==
  /\ s \in Seq(Entry) /\ s # <<>>
  /\ \A i \in DOMAIN s : GoodEntry(src, dst, s[i])

InputOK ==
  /\ file.kind \in {"topology", "failures"}
  /\ IsSequence(Lines) /\ \A i \in DOMAIN Lines : IsLine(Lines[i])
  /\ IsSequence(map)

PairsOK ==
  /\ pairs \in Seq(Pair)
  /\ \A k \in DOMAIN pairs : GoodEntries(pairs[k].src, pairs[k].dst, pairs[k].entries)

RowsOK ==
  /\ rows \in Seq(Row)
  /\ \A i \in DOMAIN rows : \E j \in DOMAIN Lines :
       Stems(rows[i], {map[rows[i].src + 1], map[rows[i].dst + 1]}, Lines[j])

CursorsOK ==
  /\ pos \in 1..(Len(Lines) + 1) /\ next \in 1..(Len(pairs) + 1)
  /\ status \in {"reading", "printing", "accepted", "rejected", "crashed"}
  /\ status = "reading" => rows = <<>> /\ next = 1

NodesOK == nodes \in Seq(FileNames) /\ IsInjective(nodes)

ParserInv == InputOK /\ PairsOK /\ RowsOK /\ CursorsOK /\ NodesOK /\ OneDirection

-----------------------------------------------------------------------------
(* Sequences                                                               *)

Less == {p \in Nat \X Nat : p[1] < p[2]}

\* A set of natural numbers has a least element.
LEMMA Least ==
  ASSUME NEW T \in SUBSET Nat, T # {}
  PROVE  \E x \in T : \A y \in T : x <= y
<1>1. OpToRel(<, Nat) = Less
  BY DEF OpToRel, Less
<1>2. IsWellFoundedOn(Less, Nat)
  BY <1>1, NatLessThanWellFounded
<1>3. PICK x \in T : \A y \in T : ~(<<y, x>> \in Less)
  BY <1>2, WFMin
<1>4. \A y \in T : ~(y < x)
  BY <1>3 DEF Less
<1>5. \A y \in T : x <= y
  BY <1>4
<1> QED  BY <1>5

\* A sequence's domain is 1..Len.
LEMMA Indices ==
  ASSUME NEW s, IsSequence(s)
  PROVE  Len(s) \in Nat /\ DOMAIN s = 1..Len(s)
BY DEF IsSequence

\* Noting a name keeps a list of distinct names.
LEMMA NotedDistinct ==
  ASSUME NEW S, NEW s \in Seq(S), IsInjective(s), NEW n \in S
  PROVE  Noted(s, n) \in Seq(S) /\ IsInjective(Noted(s, n))
<1>1. CASE Contains(s, n)
  BY <1>1 DEF Noted
<1>2. CASE ~Contains(s, n)
  <2>1. Noted(s, n) = Append(s, n)
    BY <1>2 DEF Noted
  <2>2. /\ Append(s, n) \in Seq(S) /\ Len(s) \in Nat /\ DOMAIN s = 1..Len(s)
        /\ DOMAIN Append(s, n) = 1..(Len(s) + 1)
        /\ \A i \in 1..Len(s) : Append(s, n)[i] = s[i]
        /\ Append(s, n)[Len(s) + 1] = n
    OBVIOUS
  <2>3. \A i \in 1..Len(s) : s[i] # n
    BY <1>2 DEF Contains
  <2>4. IsInjective(Append(s, n))
    <3> SUFFICES ASSUME NEW i \in 1..(Len(s) + 1), NEW j \in 1..(Len(s) + 1),
                        Append(s, n)[i] = Append(s, n)[j]
                 PROVE  i = j
      BY <2>2 DEF IsInjective
    <3>1. \A a, b \in 1..Len(s) : s[a] = s[b] => a = b
      BY <2>2 DEF IsInjective
    <3> QED  BY <2>2, <2>3, <3>1
  <2> QED  BY <2>1, <2>2, <2>4
<1> QED  BY <1>1, <1>2

LEMMA NotedKept ==
  ASSUME NEW S, NEW s \in Seq(S), NEW n \in S
  PROVE  Noted(s, n) \in Seq(S)
<1>1. Append(s, n) \in Seq(S)
  OBVIOUS
<1> QED  BY <1>1 DEF Noted

\* A list with another last element, place by place.
LEMMA LastSet ==
  ASSUME NEW S, NEW s \in Seq(S), s # <<>>, NEW e \in S
  PROVE  /\ Len(s) \in Nat \ {0} /\ DOMAIN s = 1..Len(s) /\ Last(s) = s[Len(s)]
         /\ Append(Front(s), e) \in Seq(S)
         /\ DOMAIN Append(Front(s), e) = 1..Len(s)
         /\ \A i \in 1..Len(s) : Append(Front(s), e)[i] = IF i = Len(s) THEN e ELSE s[i]
<1> DEFINE n == Len(s)
           t == Front(s)
<1>1. /\ n \in Nat \ {0} /\ DOMAIN s = 1..n
      /\ \A i \in 1..n : s[i] \in S
  BY EmptySeq
<1>2. /\ t \in Seq(S) /\ Len(t) = n - 1
      /\ \A i \in 1..(n - 1) : t[i] = s[i]
  <2>1. \A i \in 1..(n - 1) : s[i] \in S
    BY <1>1
  <2> QED  BY <1>1, <2>1, SubSeqProperties DEF Front
<1> HIDE DEF t
<1> DEFINE u == Append(t, e)
<1>3. /\ u \in Seq(S) /\ Len(u) = Len(t) + 1
      /\ \A i \in 1..Len(t) : u[i] = t[i]
      /\ u[Len(t) + 1] = e
  BY <1>2, AppendProperties
<1> HIDE DEF u
<1>4. DOMAIN u = 1..Len(u)
  BY <1>3
<1>5. Last(s) = s[n]
  BY DEF Last
<1> HIDE DEF n
<1>6. Len(u) = n /\ (n - 1) + 1 = n
  BY <1>1, <1>2, <1>3
<1>7. \A i \in 1..n : u[i] = IF i = n THEN e ELSE s[i]
  <2> SUFFICES ASSUME NEW i \in 1..n PROVE u[i] = IF i = n THEN e ELSE s[i]
    OBVIOUS
  <2>1. i # n => i \in 1..(n - 1)
    BY <1>1
  <2> QED  BY <1>2, <1>3, <1>6, <2>1
<1> QED  BY <1>1, <1>3, <1>4, <1>5, <1>6, <1>7 DEF t, u, n

\* The last element of a list that is not empty, and what is in the list with
\* another last element.
LEMMA LastReplaced ==
  ASSUME NEW S, NEW s \in Seq(S), s # <<>>, NEW e \in S
  PROVE  /\ Len(s) \in DOMAIN s /\ Last(s) = s[Len(s)] /\ Last(s) \in S
         /\ Append(Front(s), e) \in Seq(S) /\ Append(Front(s), e) # <<>>
         /\ \A i \in DOMAIN Append(Front(s), e) :
              Append(Front(s), e)[i] = e \/ (i \in DOMAIN s /\ Append(Front(s), e)[i] = s[i])
<1> DEFINE u == Append(Front(s), e)
           n == Len(s)
<1>1. /\ n \in Nat \ {0} /\ DOMAIN s = 1..n /\ Last(s) = s[n]
      /\ u \in Seq(S) /\ DOMAIN u = 1..n
      /\ \A i \in 1..n : u[i] = IF i = n THEN e ELSE s[i]
  BY LastSet
<1> HIDE DEF u
<1>2. n \in 1..n /\ s[n] \in S
  <2>1. n \in Nat \ {0} /\ DOMAIN s = 1..n
    BY <1>1
  <2>2. \A i \in DOMAIN s : s[i] \in S
    OBVIOUS
  <2> HIDE DEF n
  <2>3. n \in 1..n
    BY <2>1
  <2> QED  BY <2>1, <2>2, <2>3
<1> HIDE DEF n
<1>3. u # <<>>
  BY <1>1, <1>2
<1> QED  BY <1>1, <1>2, <1>3 DEF u, n

\* A number in a list of names is that of the name's first place.
LEMMA IdNames ==
  ASSUME IsSequence(map), NEW name \in ToSet(map)
  PROVE  Id(name) \in 0..(Len(map) - 1) /\ map[Id(name) + 1] = name
<1> DEFINE T == {i \in DOMAIN map : map[i] = name}
           P(i) == i \in DOMAIN map /\ map[i] = name /\ \A j \in 1..(i - 1) : map[j] # name
           c == CHOOSE i \in DOMAIN map : map[i] = name /\ \A j \in 1..(i - 1) : map[j] # name
<1>1. Len(map) \in Nat /\ DOMAIN map = 1..Len(map)
  BY Indices
<1>2. T \in SUBSET Nat /\ T # {}
  BY <1>1 DEF ToSet
<1>3. PICK x \in T : \A y \in T : x <= y
  BY <1>2, Least
<1>4. \A j \in 1..(x - 1) : map[j] # name
  BY <1>1, <1>3
<1>5. c \in DOMAIN map /\ map[c] = name
  BY <1>3, <1>4
<1>6. Id(name) = c - 1
  BY DEF Id
<1> HIDE DEF c
<1>7. (c - 1) \in 0..(Len(map) - 1) /\ (c - 1) + 1 = c
  BY <1>1, <1>5
<1> QED  BY <1>5, <1>6, <1>7

-----------------------------------------------------------------------------
(* Reading                                                                 *)

\* The line that is read, and the name of each of its nodes.
LEMMA ReadingLine ==
  ASSUME ParserInv, Reading
  PROVE  /\ pos \in DOMAIN Lines /\ IsLine(Lines[pos])
         /\ Lines[pos].src \in FileNames /\ Lines[pos].dst \in FileNames
         /\ pos + 1 \in 1..(Len(Lines) + 1)
<1>1. Len(Lines) \in Nat /\ DOMAIN Lines = 1..Len(Lines)
  BY Indices DEF ParserInv, InputOK
<1>2. pos \in 1..Len(Lines) /\ pos + 1 \in 1..(Len(Lines) + 1)
  BY <1>1 DEF ParserInv, CursorsOK, Reading
<1> QED  BY <1>1, <1>2 DEF ParserInv, InputOK, FileNames

\* The fresh entry of a line.
LEMMA FreshEntry ==
  ASSUME ParserInv, Reading, NEW f \in Missable, NEW r \in Missable,
         f # Missing \/ r # Missing, NEW src, NEW dst,
         {src, dst} = {Lines[pos].src, Lines[pos].dst}
  PROVE  GoodEntry(src, dst, EntryOf(Lines[pos], f, r))
BY ReadingLine DEF GoodEntry, EntryOf, Entry, Stems, IsLine, Missable

\* OneDirection, in terms of EndsOf.
LEMMA OneDirectionEnds ==
  /\ OneDirection <=> \A j, k \in DOMAIN pairs : j # k => EndsOf(pairs[j]) # EndsOf(pairs[k])
  /\ OneDirection' <=> \A j, k \in DOMAIN pairs' : j # k => EndsOf(pairs'[j]) # EndsOf(pairs'[k])
BY Zenon DEF OneDirection, EndsOf

\* A pair whose list of entries is replaced by a good one.
LEMMA PairReplaced ==
  ASSUME PairsOK, OneDirection, NEW k \in DOMAIN pairs, NEW s,
         GoodEntries(pairs[k].src, pairs[k].dst, s),
         pairs' = [pairs EXCEPT ![k].entries = s], UNCHANGED <<file>>
  PROVE  PairsOK' /\ OneDirection' /\ Len(pairs') = Len(pairs)
<1>1. /\ Len(pairs) \in Nat /\ DOMAIN pairs = 1..Len(pairs) /\ DOMAIN pairs' = DOMAIN pairs
      /\ Len(pairs') = Len(pairs)
      /\ \A i \in DOMAIN pairs : pairs[i] \in Pair
  BY DEF PairsOK
<1>2. /\ pairs'[k] \in Pair
      /\ pairs'[k].entries = s /\ pairs'[k].src = pairs[k].src /\ pairs'[k].dst = pairs[k].dst
      /\ \A i \in DOMAIN pairs : i # k => pairs'[i] = pairs[i]
  BY <1>1 DEF Pair, GoodEntries
<1>3. Lines' = Lines /\ FileNames' = FileNames /\ Pair' = Pair
  BY DEF FileNames, Pair, Lines
<1>4. \A i \in DOMAIN pairs' : pairs'[i] \in Pair
  BY <1>1, <1>2
<1>5. pairs' \in Seq(Pair)
  BY <1>1, <1>4 DEF PairsOK
<1>6. \A i \in DOMAIN pairs' : EndsOf(pairs'[i]) = EndsOf(pairs[i])
  <2> SUFFICES ASSUME NEW i \in DOMAIN pairs PROVE EndsOf(pairs'[i]) = EndsOf(pairs[i])
    BY <1>1
  <2>1. pairs'[i].src = pairs[i].src /\ pairs'[i].dst = pairs[i].dst
    BY <1>1, <1>2
  <2> QED  BY <2>1 DEF EndsOf
<1>7. OneDirection'
  BY <1>1, <1>6, OneDirectionEnds
<1>8. \A i \in DOMAIN pairs' : GoodEntries(pairs'[i].src, pairs'[i].dst, pairs'[i].entries)
  BY <1>1, <1>2 DEF PairsOK
<1>9. PairsOK'
  <2>1. ASSUME NEW i \in DOMAIN pairs'
        PROVE  GoodEntries(pairs[i].src, pairs[i].dst, pairs[i].entries)'
    <3>1. GoodEntries(pairs'[i].src, pairs'[i].dst, pairs'[i].entries)
      BY <1>8
    <3> QED  BY <1>3, <3>1 DEF GoodEntries, GoodEntry
  <2> QED  BY <1>3, <1>5, <2>1 DEF PairsOK
<1> QED  BY <1>1, <1>7, <1>9

\* The last entry of a pair gets its other metric.
LEMMA EntryCompleted ==
  ASSUME ParserInv, NEW k \in DOMAIN pairs, NEW e, e \in Entry,
         e.f # Missing \/ e.r # Missing,
         e.begin = LastEntry(k).begin, e.end = LastEntry(k).end
  PROVE  GoodEntries(pairs[k].src, pairs[k].dst, Append(Front(pairs[k].entries), e))
<1> DEFINE s == pairs[k].entries
<1>1. GoodEntries(pairs[k].src, pairs[k].dst, s)
  BY DEF ParserInv, PairsOK
<1> HIDE DEF s
<1>2. /\ Len(s) \in DOMAIN s /\ LastEntry(k) = s[Len(s)]
      /\ Append(Front(s), e) \in Seq(Entry) /\ Append(Front(s), e) # <<>>
      /\ \A i \in DOMAIN Append(Front(s), e) :
           Append(Front(s), e)[i] = e \/ (i \in DOMAIN s /\ Append(Front(s), e)[i] = s[i])
  <2>1. s \in Seq(Entry) /\ s # <<>>
    BY <1>1 DEF GoodEntries
  <2>2. LastEntry(k) = Last(s)
    BY DEF LastEntry, s
  <2> QED  BY <2>1, <2>2, LastReplaced
<1>3. GoodEntry(pairs[k].src, pairs[k].dst, e)
  <2>1. GoodEntry(pairs[k].src, pairs[k].dst, LastEntry(k))
    BY <1>1, <1>2 DEF GoodEntries
  <2>2. PICK j \in DOMAIN Lines : Stems(LastEntry(k), {pairs[k].src, pairs[k].dst}, Lines[j])
    BY <2>1 DEF GoodEntry
  <2>3. Stems(e, {pairs[k].src, pairs[k].dst}, Lines[j])
    BY <2>2 DEF Stems
  <2> QED  BY <2>3 DEF GoodEntry
<1>4. GoodEntries(pairs[k].src, pairs[k].dst, Append(Front(s), e))
  BY <1>1, <1>2, <1>3 DEF GoodEntries
<1> QED  BY <1>4 DEF s

\* The pair gets one entry more.
LEMMA EntryAdded ==
  ASSUME ParserInv, NEW k \in DOMAIN pairs, NEW e,
         GoodEntry(pairs[k].src, pairs[k].dst, e)
  PROVE  GoodEntries(pairs[k].src, pairs[k].dst, Append(pairs[k].entries, e))
<1> DEFINE s == pairs[k].entries
<1>1. GoodEntries(pairs[k].src, pairs[k].dst, s)
  BY DEF ParserInv, PairsOK
<1> HIDE DEF s
<1>2. e \in Entry /\ s \in Seq(Entry)
  BY <1>1 DEF GoodEntries, GoodEntry
<1>3. /\ Append(s, e) \in Seq(Entry) /\ Append(s, e) # <<>>
      /\ \A i \in DOMAIN Append(s, e) :
           Append(s, e)[i] = e \/ (i \in DOMAIN s /\ Append(s, e)[i] = s[i])
  BY <1>2, AppendProperties
<1>4. GoodEntries(pairs[k].src, pairs[k].dst, Append(s, e))
  BY <1>1, <1>3 DEF GoodEntries
<1> QED  BY <1>4 DEF s

\* Another pair at the end of the dictionary.
LEMMA PairAppended ==
  ASSUME ParserInv, NEW p \in Pair, GoodEntries(p.src, p.dst, p.entries),
         \A k \in DOMAIN pairs : EndsOf(pairs[k]) # EndsOf(p),
         pairs' = Append(pairs, p), UNCHANGED <<file>>
  PROVE  PairsOK' /\ OneDirection' /\ Len(pairs') = Len(pairs) + 1
<1> DEFINE n == Len(pairs)
<1>1. /\ n \in Nat /\ DOMAIN pairs = 1..n /\ pairs \in Seq(Pair)
      /\ \A i \in 1..n : GoodEntries(pairs[i].src, pairs[i].dst, pairs[i].entries)
      /\ \A i, j \in 1..n : i # j => EndsOf(pairs[i]) # EndsOf(pairs[j])
  <2>1. pairs \in Seq(Pair) /\ n \in Nat /\ DOMAIN pairs = 1..n
    BY DEF ParserInv, PairsOK
  <2>2. \A i \in DOMAIN pairs : GoodEntries(pairs[i].src, pairs[i].dst, pairs[i].entries)
    BY DEF ParserInv, PairsOK
  <2>3. \A i, j \in DOMAIN pairs : i # j => EndsOf(pairs[i]) # EndsOf(pairs[j])
    BY OneDirectionEnds DEF ParserInv
  <2> QED  BY <2>1, <2>2, <2>3
<1>2. /\ pairs' \in Seq(Pair) /\ Len(pairs') = n + 1
      /\ \A i \in 1..n : pairs'[i] = pairs[i]
      /\ pairs'[n + 1] = p
  BY <1>1, AppendProperties
<1> HIDE DEF n
<1>3. DOMAIN pairs' = 1..(n + 1)
  BY <1>1, <1>2
<1>4. \A i \in 1..(n + 1) : i = n + 1 \/ i \in 1..n
  BY <1>1
<1>5. OneDirection'
  <2>1. \A i, j \in 1..(n + 1) : i # j => EndsOf(pairs'[i]) # EndsOf(pairs'[j])
    BY <1>1, <1>2, <1>4
  <2> QED  BY <1>3, <2>1, OneDirectionEnds
<1>6. \A i \in DOMAIN pairs' : GoodEntries(pairs'[i].src, pairs'[i].dst, pairs'[i].entries)
  BY <1>1, <1>2, <1>3, <1>4
<1>7. Lines' = Lines /\ FileNames' = FileNames /\ Pair' = Pair
  BY DEF FileNames, Pair, Lines
<1> QED  BY <1>2, <1>5, <1>6, <1>7 DEF PairsOK, GoodEntries, GoodEntry, n

\* Each way of taking a line keeps the invariant.
LEMMA ReadLineInv ==
  ASSUME ParserInv, ReadLine
  PROVE  ParserInv'
<1> DEFINE l == Lines[pos]
<1>1. /\ Reading /\ ReadOn
      /\ \/ NewPair(l)
         \/ \E k \in DOMAIN pairs : SetReverse(l, k) \/ NewReverse(l, k)
                                     \/ SetForward(l, k) \/ NewForward(l, k)
  BY DEF ReadLine
<1>2. /\ file' = file /\ map' = map /\ rows' = rows /\ next' = next /\ status' = status
      /\ pos' = pos + 1 /\ Lines' = Lines /\ FileNames' = FileNames
  BY <1>1 DEF ReadOn, Lines, FileNames
<1>3. /\ IsLine(l) /\ l.src \in FileNames /\ l.dst \in FileNames
      /\ pos' \in 1..(Len(Lines) + 1) /\ l.metric \in Missable /\ l.metric # Missing
  <2>1. IsLine(l) /\ l.src \in FileNames /\ l.dst \in FileNames /\ pos + 1 \in 1..(Len(Lines) + 1)
    BY <1>1, ReadingLine
  <2>2. l.metric \in Nat
    BY <2>1 DEF IsLine
  <2> QED  BY <1>2, <2>1, <2>2 DEF Missable, Missing
<1> HIDE DEF l
<1>4. PairsOK' /\ OneDirection' /\ Len(pairs') \in Nat /\ Len(pairs') >= Len(pairs)
  <2>0. Len(pairs) \in Nat
    BY DEF ParserInv, PairsOK
  <2>1. CASE NewPair(l)
    <3> DEFINE e == EntryOf(l, l.metric, Missing)
               p == [src |-> l.src, dst |-> l.dst, entries |-> <<e>>]
    <3>1. GoodEntry(l.src, l.dst, e)
      BY <1>1, <1>3, FreshEntry DEF l, Missable
    <3>2. e \in Entry
      BY <3>1 DEF GoodEntry
    <3> HIDE DEF e
    <3>3. GoodEntries(l.src, l.dst, <<e>>)
      BY <3>1, <3>2 DEF GoodEntries
    <3>4. p \in Pair /\ GoodEntries(p.src, p.dst, p.entries)
      BY <1>3, <3>3 DEF Pair, GoodEntries
    <3>5. \A k \in DOMAIN pairs : EndsOf(pairs[k]) # EndsOf(p)
      <4> SUFFICES ASSUME NEW k \in DOMAIN pairs, EndsOf(pairs[k]) = {l.src, l.dst}
                   PROVE  FALSE
        BY DEF EndsOf
      <4>1. \/ pairs[k].src = l.src /\ pairs[k].dst = l.dst
            \/ pairs[k].src = l.dst /\ pairs[k].dst = l.src
        BY DEF EndsOf
      <4>2. Forward(l) = {} /\ {i \in DOMAIN pairs : At(i, l.dst, l.src)} = {}
        BY <2>1 DEF NewPair, Reversed
      <4> QED  BY <4>1, <4>2 DEF Forward, At
    <3>6. pairs' = Append(pairs, p)
      BY <2>1 DEF NewPair, e
    <3> QED  BY <1>2, <2>0, <3>4, <3>5, <3>6, PairAppended
  <2>2. ASSUME NEW k \in DOMAIN pairs, SetReverse(l, k) \/ SetForward(l, k)
        PROVE  PairsOK' /\ OneDirection' /\ Len(pairs') = Len(pairs)
    <3>1. PICK e : /\ e \in Entry /\ (e.f # Missing \/ e.r # Missing)
                   /\ e.begin = LastEntry(k).begin /\ e.end = LastEntry(k).end
                   /\ pairs' = [pairs EXCEPT ![k].entries = Append(Front(@), e)]
      <4>1. LastEntry(k) \in Entry
        BY LastReplaced DEF ParserInv, PairsOK, GoodEntries, LastEntry
      <4>2. CASE SetReverse(l, k)
        <5> DEFINE e == [LastEntry(k) EXCEPT !.r = l.metric]
        <5>1. e \in Entry /\ e.r # Missing /\ e.begin = LastEntry(k).begin /\ e.end = LastEntry(k).end
          BY <1>3, <4>1 DEF Entry
        <5>2. pairs' = [pairs EXCEPT ![k].entries = Append(Front(@), e)]
          BY <4>2 DEF SetReverse, SetLast
        <5> QED  BY <5>1, <5>2
      <4>3. CASE SetForward(l, k)
        <5> DEFINE e == [LastEntry(k) EXCEPT !.f = l.metric]
        <5>1. e \in Entry /\ e.f # Missing /\ e.begin = LastEntry(k).begin /\ e.end = LastEntry(k).end
          BY <1>3, <4>1 DEF Entry
        <5>2. pairs' = [pairs EXCEPT ![k].entries = Append(Front(@), e)]
          BY <4>3 DEF SetForward, SetLast
        <5> QED  BY <5>1, <5>2
      <4> QED  BY <2>2, <4>2, <4>3
    <3>2. GoodEntries(pairs[k].src, pairs[k].dst, Append(Front(pairs[k].entries), e))
      BY <3>1, EntryCompleted
    <3> QED  BY <1>2, <3>1, <3>2, PairReplaced DEF ParserInv
  <2>3. ASSUME NEW k \in DOMAIN pairs, NewReverse(l, k) \/ NewForward(l, k)
        PROVE  PairsOK' /\ OneDirection' /\ Len(pairs') = Len(pairs)
    <3>1. {pairs[k].src, pairs[k].dst} = {l.src, l.dst}
      BY <2>3 DEF NewReverse, NewForward, Reversed, Forward, At
    <3>2. PICK e : /\ GoodEntry(pairs[k].src, pairs[k].dst, e)
                   /\ pairs' = [pairs EXCEPT ![k].entries = Append(@, e)]
      <4>1. GoodEntry(pairs[k].src, pairs[k].dst, EntryOf(l, Missing, l.metric))
        BY <1>1, <1>3, <3>1, FreshEntry DEF l, Missable
      <4>2. GoodEntry(pairs[k].src, pairs[k].dst, EntryOf(l, l.metric, Missing))
        BY <1>1, <1>3, <3>1, FreshEntry DEF l, Missable
      <4> QED  BY <2>3, <4>1, <4>2 DEF NewReverse, NewForward, AppendEntry
    <3>3. GoodEntries(pairs[k].src, pairs[k].dst, Append(pairs[k].entries, e))
      BY <3>2, EntryAdded
    <3> QED  BY <1>2, <3>2, <3>3, PairReplaced DEF ParserInv
  <2> QED  BY <1>1, <2>0, <2>1, <2>2, <2>3
<1>5. NodesOK'
  <2>1. CASE NewPair(l)
    BY <1>2, <1>3, <2>1, NotedDistinct DEF NewPair, ParserInv, NodesOK
  <2>2. CASE nodes' = nodes
    BY <1>2, <2>2 DEF ParserInv, NodesOK
  <2> QED  BY <1>1, <2>1, <2>2 DEF SetReverse, NewReverse, SetForward, NewForward
<1>6. InputOK'
  BY <1>2 DEF ParserInv, InputOK
<1>7. CursorsOK'
  BY <1>1, <1>2, <1>3, <1>4 DEF ParserInv, CursorsOK, Reading
<1>8. RowsOK'
  BY <1>1, <1>2 DEF ParserInv, RowsOK, Row
<1> QED  BY <1>4, <1>5, <1>6, <1>7, <1>8 DEF ParserInv

-----------------------------------------------------------------------------
(* Printing                                                                *)

\* What a step may leave of the invariant when it moves no line and no pair.
LEMMA QuietStep ==
  ASSUME ParserInv, UNCHANGED <<file, map, pos, nodes, pairs, next, rows>>,
         status' \in {"rejected", "crashed", "accepted"}
  PROVE  ParserInv'
<1>1. Lines' = Lines /\ FileNames' = FileNames /\ Pair' = Pair /\ Row' = Row
  BY DEF Lines, FileNames, Pair, Row
<1>2. InputOK' /\ NodesOK' /\ CursorsOK'
  BY <1>1 DEF ParserInv, InputOK, NodesOK, CursorsOK
<1>3. PairsOK'
  BY <1>1 DEF ParserInv, PairsOK, GoodEntries, GoodEntry
<1>4. RowsOK'
  BY <1>1 DEF ParserInv, RowsOK, Stems
<1>5. OneDirection'
  BY DEF ParserInv, OneDirection
<1> QED  BY <1>2, <1>3, <1>4, <1>5 DEF ParserInv

\* The end of the file: a topology's names become the map.
LEMMA EndReadingInv ==
  ASSUME ParserInv, EndReading
  PROVE  ParserInv'
<1>1. Lines' = Lines /\ FileNames' = FileNames /\ Pair' = Pair
  BY DEF Lines, FileNames, Pair, EndReading
<1>2. IsSequence(map')
  <2>1. nodes \in Seq(ToSet(nodes))
    BY DEF ParserInv, NodesOK, ToSet
  <2> QED  BY <2>1 DEF EndReading, ParserInv, InputOK, IsSequence
<1>3. InputOK' /\ NodesOK' /\ CursorsOK'
  BY <1>1, <1>2 DEF ParserInv, InputOK, NodesOK, CursorsOK, EndReading
<1>4. PairsOK'
  BY <1>1 DEF ParserInv, PairsOK, GoodEntries, GoodEntry, EndReading
<1>5. RowsOK'
  <2>1. rows' = <<>>
    BY DEF ParserInv, CursorsOK, EndReading
  <2>2. rows' \in Seq(Row') /\ DOMAIN rows' = {}
    BY <2>1
  <2> QED  BY <2>2 DEF RowsOK
<1>6. OneDirection'
  <2>1. OneDirection /\ pairs' = pairs
    BY DEF ParserInv, EndReading
  <2> QED  BY <2>1 DEF OneDirection
<1> QED  BY <1>3, <1>4, <1>5, <1>6 DEF ParserInv

\* The row of an entry of a pair whose names are in the map.
LEMMA RowGood ==
  ASSUME IsSequence(map), NEW p \in Pair, {p.src, p.dst} \subseteq ToSet(map),
         NEW e, GoodEntry(p.src, p.dst, e)
  PROVE  /\ RowOf(p, e) \in Row
         /\ map[RowOf(p, e).src + 1] = p.src /\ map[RowOf(p, e).dst + 1] = p.dst
         /\ RowOf(p, e).begin = e.begin /\ RowOf(p, e).end = e.end
         /\ \E j \in DOMAIN Lines :
              Stems(RowOf(p, e), {map[RowOf(p, e).src + 1], map[RowOf(p, e).dst + 1]}, Lines[j])
<1> DEFINE r == RowOf(p, e)
<1>1. /\ Id(p.src) \in 0..(Len(map) - 1) /\ map[Id(p.src) + 1] = p.src
      /\ Id(p.dst) \in 0..(Len(map) - 1) /\ map[Id(p.dst) + 1] = p.dst
  BY IdNames
<1>2. r = [src |-> Id(p.src), dst |-> Id(p.dst), f |-> e.f, r |-> e.r,
           delay |-> e.delay, begin |-> e.begin, end |-> e.end]
  BY DEF RowOf
<1>3. e \in Entry
  BY DEF GoodEntry
<1> HIDE DEF r
<1>4. /\ r.src = Id(p.src) /\ r.dst = Id(p.dst) /\ r.begin = e.begin /\ r.end = e.end
      /\ r \in Row
  BY <1>1, <1>2, <1>3 DEF Entry, Row
<1>5. PICK j \in DOMAIN Lines : Stems(e, {p.src, p.dst}, Lines[j])
  BY DEF GoodEntry
<1>6. map[r.src + 1] = p.src /\ map[r.dst + 1] = p.dst
  BY <1>1, <1>4
<1>7. Stems(r, {map[r.src + 1], map[r.dst + 1]}, Lines[j])
  BY <1>4, <1>5, <1>6 DEF Stems
<1> QED  BY <1>4, <1>6, <1>7 DEF r

\* The rows that a pair adds to those printed.
LEMMA RowsAdded ==
  ASSUME ParserInv, PrintPair
  PROVE  LET p == pairs[next]
             m == Len(rows)
         IN /\ next \in DOMAIN pairs /\ {p.src, p.dst} \subseteq ToSet(map)
            /\ m \in Nat /\ Len(p.entries) \in Nat
            /\ rows' \in Seq(Row) /\ Len(rows') = m + Len(p.entries)
            /\ \A i \in 1..m : rows'[i] = rows[i]
            /\ \A i \in 1..Len(p.entries) :
                 rows'[m + i] = RowOf(p, p.entries[i]) /\ GoodEntry(p.src, p.dst, p.entries[i])
<1> DEFINE p == pairs[next]
           m == Len(rows)
           new == [i \in DOMAIN p.entries |-> RowOf(p, p.entries[i])]
           n == Len(p.entries)
<1>1. /\ {p.src, p.dst} \subseteq ToSet(map)
      /\ rows' = rows \o new
      /\ next \in DOMAIN pairs
  BY DEF PrintPair, ParserInv, CursorsOK, PairsOK
<1>2. p \in Pair /\ GoodEntries(p.src, p.dst, p.entries)
  BY <1>1 DEF ParserInv, PairsOK
<1>3. n \in Nat /\ DOMAIN p.entries = 1..n
  BY <1>2 DEF GoodEntries
<1>4. \A i \in 1..n : RowOf(p, p.entries[i]) \in Row /\ GoodEntry(p.src, p.dst, p.entries[i])
  BY <1>1, <1>2, <1>3, RowGood DEF GoodEntries, ParserInv, InputOK
<1> HIDE DEF p, n
<1>5. new \in Seq(Row) /\ Len(new) = n /\ \A i \in 1..n : new[i] = RowOf(p, p.entries[i])
  BY <1>3, <1>4
<1> HIDE DEF new
<1>6. rows \in Seq(Row) /\ m \in Nat
  BY DEF ParserInv, RowsOK
<1>7. /\ rows' \in Seq(Row) /\ Len(rows') = m + n
      /\ \A i \in 1..(m + n) : rows'[i] = IF i <= m THEN rows[i] ELSE new[i - m]
  BY <1>1, <1>5, <1>6, ConcatProperties
<1> HIDE DEF m
<1>8. \A i \in 1..m : rows'[i] = rows[i]
  BY <1>3, <1>6, <1>7
<1>9. \A i \in 1..n : rows'[m + i] = new[i]
  <2> SUFFICES ASSUME NEW i \in 1..n PROVE rows'[m + i] = new[i]
    OBVIOUS
  <2>1. m + i \in 1..(m + n) /\ ~(m + i <= m) /\ (m + i) - m = i
    BY <1>3, <1>6
  <2> QED  BY <1>7, <2>1
<1> QED  BY <1>1, <1>3, <1>4, <1>5, <1>6, <1>7, <1>8, <1>9 DEF p, m, n

LEMMA PrintPairInv ==
  ASSUME ParserInv, PrintPair
  PROVE  ParserInv'
<1> DEFINE p == pairs[next]
           m == Len(rows)
           n == Len(p.entries)
<1>1. /\ file' = file /\ map' = map /\ pos' = pos /\ nodes' = nodes /\ pairs' = pairs
      /\ status' = status /\ next' = next + 1 /\ status = "printing" /\ next <= Len(pairs)
  BY DEF PrintPair
<1>2. Lines' = Lines /\ FileNames' = FileNames /\ Pair' = Pair /\ Row' = Row
  BY <1>1 DEF Lines, FileNames, Pair, Row
<1>3. /\ next \in DOMAIN pairs /\ {p.src, p.dst} \subseteq ToSet(map)
      /\ m \in Nat /\ n \in Nat
      /\ rows' \in Seq(Row) /\ Len(rows') = m + n
      /\ \A i \in 1..m : rows'[i] = rows[i]
      /\ \A i \in 1..n :
           rows'[m + i] = RowOf(p, p.entries[i]) /\ GoodEntry(p.src, p.dst, p.entries[i])
  BY RowsAdded
<1>4. p \in Pair /\ IsSequence(map)
  BY <1>3 DEF ParserInv, PairsOK, InputOK
<1>5. InputOK' /\ NodesOK' /\ CursorsOK'
  BY <1>1, <1>2 DEF ParserInv, InputOK, NodesOK, CursorsOK, PairsOK
<1>6. PairsOK'
  BY <1>1, <1>2 DEF ParserInv, PairsOK, GoodEntries, GoodEntry
<1>7. OneDirection'
  <2>1. OneDirection /\ pairs' = pairs
    BY <1>1 DEF ParserInv
  <2> QED  BY <2>1 DEF OneDirection
<1>8. RowsOK'
  <2>1. DOMAIN rows' = 1..(m + n) /\ DOMAIN rows = 1..m
    BY <1>3 DEF ParserInv, RowsOK
  <2> HIDE DEF p, m, n
  <2>2. ASSUME NEW i \in 1..(m + n)
        PROVE  \E j \in DOMAIN Lines :
                 Stems(rows'[i], {map[rows'[i].src + 1], map[rows'[i].dst + 1]}, Lines[j])
    <3>1. CASE i <= m
      <4>1. i \in DOMAIN rows /\ rows'[i] = rows[i]
        BY <1>3, <2>1, <3>1
      <4> QED  BY <4>1 DEF ParserInv, RowsOK
    <3>2. CASE i > m
      <4> DEFINE k == i - m
      <4>1. k \in 1..n /\ m + k = i
        BY <1>3, <3>2
      <4> HIDE DEF k
      <4>2. rows'[i] = RowOf(p, p.entries[k]) /\ GoodEntry(p.src, p.dst, p.entries[k])
        BY <1>3, <4>1
      <4>3. GoodEntry(p.src, p.dst, p.entries[k]) /\ {p.src, p.dst} \subseteq ToSet(map)
        BY <1>3, <4>2
      <4> DEFINE r == RowOf(p, p.entries[k])
      <4>4. \E j \in DOMAIN Lines : Stems(r, {map[r.src + 1], map[r.dst + 1]}, Lines[j])
        BY <1>4, <4>3, RowGood
      <4> HIDE DEF r
      <4>5. rows'[i] = r
        BY <4>2 DEF r
      <4> QED  BY <4>4, <4>5
    <3>3. i <= m \/ i > m
      BY <1>3
    <3> QED  BY <3>1, <3>2, <3>3
  <2> QED  BY <1>1, <1>2, <1>3, <2>1, <2>2 DEF RowsOK
<1> QED  BY <1>5, <1>6, <1>7, <1>8 DEF ParserInv

-----------------------------------------------------------------------------
(* The inductive invariant                                                 *)

LEMMA InitParserInv == Init => ParserInv
<1> SUFFICES ASSUME Init PROVE ParserInv
  OBVIOUS
<1>1. InputOK
  <2>1. IsSequence(<<>>)
    BY DEF IsSequence
  <2> QED  BY <2>1, NtfParserAssumption DEF Init, InputOK, Lines
<1>2. Len(Lines) \in Nat
  BY <1>1, Indices DEF InputOK
<1>3. CursorsOK
  BY <1>2 DEF Init, CursorsOK
<1>4. PairsOK /\ RowsOK /\ NodesOK /\ OneDirection
  BY DEF Init, PairsOK, RowsOK, NodesOK, OneDirection, IsInjective
<1> QED  BY <1>1, <1>3, <1>4 DEF ParserInv

LEMMA NextParserInv == ParserInv /\ [Next]_vars => ParserInv'
<1> SUFFICES ASSUME ParserInv, [Next]_vars PROVE ParserInv'
  OBVIOUS
<1>1. CASE ReadLine
  BY <1>1, ReadLineInv
<1>2. CASE EndReading
  BY <1>2, EndReadingInv
<1>3. CASE PrintPair
  BY <1>3, PrintPairInv
<1>4. CASE Unexpected \/ UnknownName \/ Finish
  BY <1>4, QuietStep DEF Unexpected, UnknownName, Finish
<1>5. CASE vars' = vars
  <2>1. Lines' = Lines /\ FileNames' = FileNames /\ Pair' = Pair /\ Row' = Row
    BY <1>5 DEF vars, Lines, FileNames, Pair, Row
  <2>2. InputOK' /\ NodesOK' /\ CursorsOK'
    BY <1>5, <2>1 DEF vars, ParserInv, InputOK, NodesOK, CursorsOK
  <2>3. PairsOK'
    BY <1>5, <2>1 DEF vars, ParserInv, PairsOK, GoodEntries, GoodEntry
  <2>4. RowsOK' /\ OneDirection'
    BY <1>5, <2>1 DEF vars, ParserInv, RowsOK, OneDirection
  <2> QED  BY <2>2, <2>3, <2>4 DEF ParserInv
<1> QED  BY <1>1, <1>2, <1>3, <1>4, <1>5 DEF Next, Terminated

LEMMA ParserInductive == Spec => []ParserInv
BY InitParserInv, NextParserInv, PTL DEF Spec

\* Every variable keeps its type, whatever lines are read: no node gets two
\* numbers, no link of the dictionary is without a metric.
THEOREM ParserTypeCorrect == Spec => []TypeOK
<1>1. ASSUME ParserInv PROVE TypeOK
  <2>1. /\ pos \in 1..(Len(Lines) + 1) /\ next \in 1..(Len(pairs) + 1)
        /\ status \in {"reading", "printing", "accepted", "rejected", "crashed"}
    BY <1>1 DEF ParserInv, CursorsOK
  <2>2. IsInjective(nodes)
    BY <1>1 DEF ParserInv, NodesOK
  <2>3. ASSUME NEW k \in DOMAIN pairs
        PROVE  GoodEntries(pairs[k].src, pairs[k].dst, pairs[k].entries)
    BY <1>1 DEF ParserInv, PairsOK
  <2>4. ASSUME NEW k \in DOMAIN pairs, NEW i \in DOMAIN pairs[k].entries
        PROVE  LET e == pairs[k].entries[i] IN
                 /\ {e.f, e.r, e.begin, e.end} \subseteq Missable
                 /\ e.f # Missing \/ e.r # Missing
    <3> DEFINE e == pairs[k].entries[i]
    <3>1. e \in Entry /\ (e.f # Missing \/ e.r # Missing)
      BY <2>3 DEF GoodEntries, GoodEntry
    <3> HIDE DEF e
    <3>2. {e.f, e.r, e.begin, e.end} \subseteq Missable
      BY <3>1 DEF Entry
    <3> QED  BY <3>1, <3>2 DEF e
  <2>5. \A k \in DOMAIN pairs : pairs[k].entries # <<>>
    BY <2>3 DEF GoodEntries
  <2> QED  BY <2>1, <2>2, <2>4, <2>5 DEF TypeOK
<1> QED  BY <1>1, ParserInductive, PTL

\* The dictionary never holds both keys (a, b) and (b, a) (ntf_parser.py:40-67).
THEOREM PairsOneDirection == Spec => []OneDirection
<1>1. ParserInv => OneDirection
  BY DEF ParserInv
<1> QED  BY <1>1, ParserInductive, PTL

-----------------------------------------------------------------------------
(* Files that name each pair of nodes once                                 *)

EachOnce == \A i, j \in DOMAIN Lines : i # j => EndsOf(Lines[i]) # EndsOf(Lines[j])

PairOf(l) == [src |-> l.src, dst |-> l.dst, entries |-> <<EntryOf(l, l.metric, Missing)>>]

\* Row r says what line l says.
Says(r, l) == /\ map[r.src + 1] = l.src /\ map[r.dst + 1] = l.dst
              /\ r.begin = l.begin /\ r.end = l.end

\* The dictionary holds the lines read so far, each in a pair of its own, and
\* the rows are the pairs printed so far.
OrderInv ==
  EachOnce =>
    /\ Len(pairs) = pos - 1
    /\ \A k \in DOMAIN pairs : pairs[k] = PairOf(Lines[k])
    /\ Len(rows) = next - 1
    /\ \A i \in DOMAIN rows : Says(rows[i], Lines[i])
    /\ status \in {"printing", "accepted", "crashed"} => pos = Len(Lines) + 1
    /\ status = "accepted" => next = Len(pairs) + 1

LEMMA InitOrder == Init => OrderInv
BY DEF Init, OrderInv

LEMMA ReadLineOrder ==
  ASSUME ParserInv, OrderInv, ReadLine
  PROVE  OrderInv'
<1> DEFINE l == Lines[pos]
           n == Len(pairs)
<1>1. /\ Lines' = Lines /\ rows' = rows /\ map' = map /\ next' = next /\ status' = status
      /\ status = "reading" /\ pos' = pos + 1
  BY DEF ReadLine, ReadOn, Reading, Lines
<1>2. pos \in DOMAIN Lines /\ pos \in Nat
  BY ReadingLine DEF ReadLine, ParserInv, CursorsOK
<1> SUFFICES ASSUME EachOnce' PROVE OrderInv'
  BY DEF OrderInv
<1>3. EachOnce
  BY <1>1 DEF EachOnce
<1>4. /\ n = pos - 1 /\ n \in Nat /\ DOMAIN pairs = 1..n /\ pairs \in Seq(Pair)
      /\ \A k \in 1..n : pairs[k] = PairOf(Lines[k])
  BY <1>3 DEF OrderInv, ParserInv, PairsOK
<1>5. \A k \in 1..n : k \in DOMAIN Lines /\ k # pos
  <2>1. Len(Lines) \in Nat /\ DOMAIN Lines = 1..Len(Lines)
    BY Indices DEF ParserInv, InputOK
  <2> QED  BY <1>2, <1>4, <2>1
<1>6. \A k \in DOMAIN pairs : EndsOf(pairs[k]) # EndsOf(l)
  <2> SUFFICES ASSUME NEW k \in 1..n PROVE EndsOf(pairs[k]) # EndsOf(l)
    BY <1>4
  <2>1. EndsOf(pairs[k]) = EndsOf(Lines[k])
    <3>1. pairs[k].src = Lines[k].src /\ pairs[k].dst = Lines[k].dst
      BY <1>4 DEF PairOf
    <3> QED  BY <3>1 DEF EndsOf
  <2> QED  BY <1>2, <1>3, <1>5, <2>1 DEF EachOnce
<1>7. NewPair(l)
  <2>1. ASSUME NEW k \in DOMAIN pairs, k \in Forward(l) \/ k \in Reversed(l) PROVE FALSE
    <3>1. EndsOf(pairs[k]) = EndsOf(l)
      BY <2>1 DEF Forward, Reversed, At, EndsOf
    <3> QED  BY <1>6, <3>1
  <2> QED  BY <2>1 DEF ReadLine, SetReverse, NewReverse, SetForward, NewForward
<1>8. pairs' = Append(pairs, PairOf(l))
  BY <1>7 DEF NewPair, PairOf
<1>9. /\ Len(pairs') = n + 1 /\ DOMAIN pairs' = 1..(n + 1)
      /\ \A k \in 1..n : pairs'[k] = pairs[k]
      /\ pairs'[n + 1] = PairOf(l)
  <2>1. pairs \in Seq(Pair \cup {PairOf(l)})
    BY <1>4, SeqMonotonic
  <2> HIDE DEF l
  <2> QED  BY <1>4, <1>8, <2>1, AppendProperties
<1> HIDE DEF n
<1>10. \A k \in DOMAIN pairs' : pairs'[k] = PairOf(Lines'[k])
  <2>1. \A k \in 1..(n + 1) : k = n + 1 \/ k \in 1..n
    BY <1>4
  <2>2. n + 1 = pos
    BY <1>2, <1>4
  <2> QED  BY <1>1, <1>4, <1>9, <2>1, <2>2
<1>11. /\ Len(rows) = next - 1
       /\ \A i \in DOMAIN rows : Says(rows[i], Lines[i])
  BY <1>3 DEF OrderInv
<1>12. Len(pairs') = pos' - 1
  BY <1>1, <1>2, <1>4, <1>9
<1> QED  BY <1>1, <1>10, <1>11, <1>12 DEF OrderInv, Says, PairOf, EntryOf

LEMMA PrintPairOrder ==
  ASSUME ParserInv, OrderInv, PrintPair
  PROVE  OrderInv'
<1> DEFINE p == pairs[next]
           m == Len(rows)
<1>1. /\ Lines' = Lines /\ map' = map /\ pos' = pos /\ pairs' = pairs
      /\ status' = status /\ next' = next + 1 /\ status = "printing"
  BY DEF PrintPair, Lines
<1> SUFFICES ASSUME EachOnce' PROVE OrderInv'
  BY DEF OrderInv
<1>2. EachOnce
  BY <1>1 DEF EachOnce
<1>3. /\ next \in DOMAIN pairs /\ {p.src, p.dst} \subseteq ToSet(map)
      /\ m \in Nat /\ Len(p.entries) \in Nat
      /\ rows' \in Seq(Row) /\ Len(rows') = m + Len(p.entries)
      /\ \A i \in 1..m : rows'[i] = rows[i]
      /\ \A i \in 1..Len(p.entries) :
           rows'[m + i] = RowOf(p, p.entries[i]) /\ GoodEntry(p.src, p.dst, p.entries[i])
  BY RowsAdded
<1>4. /\ m = next - 1
      /\ p = PairOf(Lines[next])
      /\ \A i \in DOMAIN rows : Says(rows[i], Lines[i])
  BY <1>2, <1>3 DEF OrderInv
<1>5. p \in Pair /\ IsSequence(map) /\ next \in Nat /\ DOMAIN rows = 1..m
  BY <1>3 DEF ParserInv, PairsOK, InputOK, CursorsOK, RowsOK
<1> DEFINE e == EntryOf(Lines[next], Lines[next].metric, Missing)
<1>6. p.entries = <<e>> /\ p.src = Lines[next].src /\ p.dst = Lines[next].dst
  BY <1>4 DEF PairOf
<1>a. e.begin = Lines[next].begin /\ e.end = Lines[next].end
  BY DEF EntryOf
<1> HIDE DEF e, p, m
<1>7. Len(rows') = m + 1 /\ rows'[m + 1] = RowOf(p, e) /\ GoodEntry(p.src, p.dst, e)
  BY <1>3, <1>6
<1>8. Says(RowOf(p, e), Lines[next])
  BY <1>3, <1>5, <1>6, <1>7, <1>a, RowGood DEF Says
<1>9. DOMAIN rows' = 1..(m + 1) /\ m + 1 = next
  BY <1>3, <1>4, <1>5, <1>7
<1>10. \A i \in DOMAIN rows' : Says(rows'[i], Lines[i])
  <2>1. \A i \in 1..(m + 1) : i = m + 1 \/ i \in 1..m
    BY <1>3
  <2> QED  BY <1>3, <1>4, <1>5, <1>7, <1>8, <1>9, <2>1
<1>11. Len(rows') = next' - 1
  BY <1>1, <1>5, <1>7, <1>9
<1>12. /\ Len(pairs) = pos - 1 /\ pos = Len(Lines) + 1
       /\ \A k \in DOMAIN pairs : pairs[k] = PairOf(Lines[k])
  BY <1>1, <1>2 DEF OrderInv
<1> QED  BY <1>1, <1>10, <1>11, <1>12 DEF OrderInv, Says, PairOf, EntryOf

LEMMA NextOrder == ParserInv /\ OrderInv /\ [Next]_vars => OrderInv'
<1> SUFFICES ASSUME ParserInv, OrderInv, [Next]_vars PROVE OrderInv'
  OBVIOUS
<1>1. CASE ReadLine
  BY <1>1, ReadLineOrder
<1>2. CASE PrintPair
  BY <1>2, PrintPairOrder
<1>3. CASE EndReading
  <2>1. /\ Lines' = Lines /\ pairs' = pairs /\ pos' = pos /\ next' = next
        /\ rows' = rows /\ rows = <<>> /\ DOMAIN rows = {}
        /\ pos > Len(Lines) /\ status' \in {"printing", "rejected"}
    BY <1>3 DEF EndReading, Lines, ParserInv, CursorsOK
  <2>2. pos = Len(Lines) + 1
    BY <2>1, Indices DEF ParserInv, CursorsOK, InputOK
  <2> QED  BY <2>1, <2>2 DEF OrderInv, EachOnce, PairOf, EntryOf
<1>4. CASE Finish \/ Unexpected \/ UnknownName
  <2>1. /\ Lines' = Lines /\ pairs' = pairs /\ pos' = pos /\ next' = next
        /\ rows' = rows /\ map' = map
    BY <1>4 DEF Finish, Unexpected, UnknownName, Lines
  <2>2. CASE Finish
    <3>1. status = "printing" /\ next = Len(pairs) + 1
      BY <2>2 DEF Finish, ParserInv, CursorsOK, PairsOK
    <3> QED  BY <2>1, <3>1 DEF OrderInv, EachOnce, PairOf, EntryOf, Says
  <2>3. CASE Unexpected
    BY <2>1, <2>3 DEF Unexpected, OrderInv, EachOnce, PairOf, EntryOf, Says
  <2>4. CASE UnknownName
    BY <2>1, <2>4 DEF UnknownName, OrderInv, EachOnce, PairOf, EntryOf, Says
  <2> QED  BY <1>4, <2>2, <2>3, <2>4
<1>5. CASE vars' = vars
  <2>1. /\ Lines' = Lines /\ pairs' = pairs /\ pos' = pos /\ next' = next
        /\ rows' = rows /\ map' = map /\ status' = status
    BY <1>5 DEF vars, Lines
  <2> QED  BY <2>1 DEF OrderInv, EachOnce, PairOf, EntryOf, Says
<1> QED  BY <1>1, <1>2, <1>3, <1>4, <1>5 DEF Next, Terminated

\* The rows of an accepted failures file are its lines, in order, when it names
\* each pair of nodes once: ids, direction, begin and end (ntf_parser.py:116-122).
THEOREM FailureRowsInOrder == Spec => []FailuresInOrder
<1>1. ParserInv /\ OrderInv => FailuresInOrder
  <2> SUFFICES ASSUME ParserInv, OrderInv, status = "accepted", EachOnce
               PROVE  /\ Len(rows) = Len(Lines)
                      /\ \A i \in DOMAIN rows : Says(rows[i], Lines[i])
    BY Zenon DEF FailuresInOrder, EachOnce, EndsOf, Says
  <2>1. /\ Len(rows) = next - 1 /\ next = Len(pairs) + 1 /\ Len(pairs) = pos - 1
        /\ pos = Len(Lines) + 1 /\ \A i \in DOMAIN rows : Says(rows[i], Lines[i])
    BY DEF OrderInv
  <2>2. Len(Lines) \in Nat
    BY Indices DEF ParserInv, InputOK
  <2> QED  BY <2>1, <2>2
<1> QED  BY <1>1, InitOrder, NextOrder, InitParserInv, NextParserInv, PTL DEF Spec

-----------------------------------------------------------------------------
(* The numbering                                                           *)

\* The names known after line i, when s has those known before it.
NotedLine(i, s) == Noted(Noted(s, Lines[i].src), Lines[i].dst)

\* f is the recursion of Seen, for the first n lines.
Unfolds(f, n) == f = [i \in 0..n |-> IF i = 0 THEN <<>> ELSE NotedLine(i, f[i - 1])]

\* The recursion has a solution for every number of lines.
LEMMA SomeUnfolds ==
  ASSUME NEW n \in Nat
  PROVE  \E f : Unfolds(f, n)
<1> DEFINE T == {k \in Nat : ~\E f : Unfolds(f, k)}
<1>1. SUFFICES ASSUME T # {} PROVE FALSE
  OBVIOUS
<1>2. PICK k \in T : \A j \in T : k <= j
  <2>1. T \in SUBSET Nat
    OBVIOUS
  <2> HIDE DEF T
  <2> QED  BY <1>1, <2>1, Least
<1>3. k \in Nat /\ ~\E f : Unfolds(f, k)
  OBVIOUS
<1>4. k # 0
  <2>1. Unfolds([i \in 0..0 |-> <<>>], 0)
    BY DEF Unfolds
  <2> QED  BY <1>3, <2>1
<1>5. PICK g : Unfolds(g, k - 1)
  <2>1. k - 1 \in Nat /\ k - 1 < k
    BY <1>3, <1>4
  <2>2. k - 1 \notin T
    BY <1>2, <1>3, <2>1
  <2> QED  BY <2>1, <2>2
<1> HIDE DEF T
<1> DEFINE h == [i \in 0..k |-> IF i = 0 THEN <<>> ELSE NotedLine(i, g[i - 1])]
<1>6. \A i \in 0..(k - 1) : h[i] = g[i]
  <2>1. g = [i \in 0..(k - 1) |-> IF i = 0 THEN <<>> ELSE NotedLine(i, g[i - 1])]
    BY <1>5 DEF Unfolds
  <2>2. \A i \in 0..(k - 1) : i \in 0..k
    BY <1>3
  <2> QED  BY <2>1, <2>2
<1>7. \A i \in 0..k : i # 0 => h[i - 1] = g[i - 1]
  <2>1. \A i \in 0..k : i # 0 => i - 1 \in 0..(k - 1)
    BY <1>3
  <2> QED  BY <1>6, <2>1
<1>8. Unfolds(h, k)
  BY <1>7 DEF Unfolds
<1> QED  BY <1>3, <1>8

\* The names of no line, and of one more line.
LEMMA SeenLines ==
  ASSUME IsSequence(Lines)
  PROVE  /\ Seen[0] = <<>>
         /\ \A i \in 1..Len(Lines) : Seen[i] = NotedLine(i, Seen[i - 1])
<1>1. Len(Lines) \in Nat
  BY Indices
<1>2. \E f : Unfolds(f, Len(Lines))
  BY <1>1, SomeUnfolds
<1>3. Unfolds(Seen, Len(Lines))
  BY <1>2 DEF Seen, Unfolds, NotedLine
<1> HIDE DEF Seen
<1>4. \A i \in 1..Len(Lines) : i \in 0..Len(Lines) /\ i # 0
  BY <1>1
<1>5. 0 \in 0..Len(Lines)
  BY <1>1
<1> QED  BY <1>3, <1>4, <1>5 DEF Unfolds

\* A name that is known is not noted again, and one that is noted is known.
LEMMA NotedNames ==
  ASSUME NEW S, NEW s \in Seq(S), NEW n
  PROVE  /\ n \in ToSet(s) => Noted(s, n) = s
         /\ ToSet(Noted(s, n)) = ToSet(s) \cup {n}
<1>1. Len(s) \in Nat /\ DOMAIN s = 1..Len(s)
  OBVIOUS
<1>2. Contains(s, n) <=> n \in ToSet(s)
  BY <1>1 DEF Contains, ToSet
<1>3. CASE n \in ToSet(s)
  <2>1. Noted(s, n) = s
    BY <1>2, <1>3 DEF Noted
  <2> QED  BY <1>3, <2>1
<1>4. CASE n \notin ToSet(s)
  <2> DEFINE t == Append(s, n)
  <2>1. Noted(s, n) = t
    BY <1>2, <1>4 DEF Noted
  <2>2. s \in Seq(S \cup {n})
    BY SeqMonotonic
  <2>3. /\ Len(t) = Len(s) + 1 /\ DOMAIN t = 1..(Len(s) + 1)
        /\ \A i \in 1..Len(s) : t[i] = s[i]
        /\ t[Len(s) + 1] = n
    BY <1>1, <2>2, AppendProperties
  <2> HIDE DEF t
  <2>4. \A i : i \in 1..(Len(s) + 1) <=> i \in 1..Len(s) \/ i = Len(s) + 1
    BY <1>1
  <2>5. ToSet(t) = ToSet(s) \cup {n}
    BY <1>1, <2>3, <2>4 DEF ToSet
  <2> QED  BY <1>4, <2>1, <2>5
<1> QED  BY <1>3, <1>4

\* The numbering of the first lines knows their nodes, and no other.
LEMMA SeenUpTo ==
  ASSUME IsSequence(Lines), NEW h \in 0..Len(Lines)
  PROVE  /\ Seen[h] \in Seq(FileNames)
         /\ ToSet(Seen[h]) = {Lines[i].src : i \in 1..h} \cup {Lines[i].dst : i \in 1..h}
<1> DEFINE N == Len(Lines)
           Names(n) == {Lines[i].src : i \in 1..n} \cup {Lines[i].dst : i \in 1..n}
           Ok(n) == Seen[n] \in Seq(FileNames) /\ ToSet(Seen[n]) = Names(n)
           T == {k \in 0..N : ~Ok(k)}
<1>1. N \in Nat /\ DOMAIN Lines = 1..N
  BY Indices
<1> HIDE DEF Seen
<1>2. T = {}
  <2> SUFFICES ASSUME T # {} PROVE FALSE
    OBVIOUS
  <2>1. PICK k \in T : \A j \in T : k <= j
    <3>1. T \in SUBSET Nat
      BY <1>1
    <3> HIDE DEF T
    <3> QED  BY <3>1, Least
  <2>2. k \in 0..N /\ ~Ok(k)
    OBVIOUS
  <2>3. k # 0
    <3>1. Names(0) = {}
      OBVIOUS
    <3>2. Seen[0] = <<>>
      BY SeenLines
    <3> HIDE DEF Names
    <3>3. Ok(0)
      BY <3>1, <3>2 DEF ToSet
    <3> QED  BY <2>2, <3>3
  <2>4. Ok(k - 1)
    <3>1. k - 1 \in 0..N /\ k - 1 < k
      BY <1>1, <2>2, <2>3
    <3>2. k - 1 \notin T
      <4> HIDE DEF T
      <4> QED  BY <1>1, <2>1, <2>2, <3>1
    <3> HIDE DEF Ok
    <3> QED  BY <3>1, <3>2
  <2> HIDE DEF T
  <2>5. k \in 1..N /\ Seen[k] = NotedLine(k, Seen[k - 1])
    <3>1. k \in 1..N
      BY <1>1, <2>2, <2>3
    <3> QED  BY <3>1, SeenLines
  <2> DEFINE s == Seen[k - 1]
             t == Noted(s, Lines[k].src)
  <2>6. s \in Seq(FileNames) /\ ToSet(s) = Names(k - 1)
    BY <2>4
  <2>7. Lines[k].src \in FileNames /\ Lines[k].dst \in FileNames
    BY <1>1, <2>5 DEF FileNames
  <2> HIDE DEF s
  <2>8. t \in Seq(FileNames) /\ ToSet(t) = ToSet(s) \cup {Lines[k].src}
    BY <2>6, <2>7, NotedNames, NotedKept
  <2> HIDE DEF t
  <2>9. Noted(t, Lines[k].dst) \in Seq(FileNames) /\ ToSet(Noted(t, Lines[k].dst)) = ToSet(t) \cup {Lines[k].dst}
    BY <2>7, <2>8, NotedNames, NotedKept
  <2>10. Seen[k] = Noted(t, Lines[k].dst)
    BY <2>5 DEF NotedLine, s, t
  <2>11. Names(k) = Names(k - 1) \cup {Lines[k].src, Lines[k].dst}
    <3>1. \A i : i \in 1..k <=> i \in 1..(k - 1) \/ i = k
      BY <1>1, <2>5
    <3> QED  BY <3>1
  <2> HIDE DEF Names
  <2>12. Ok(k)
    BY <2>6, <2>8, <2>9, <2>10, <2>11
  <2> QED  BY <2>2, <2>12
<1>3. Ok(h)
  <2> HIDE DEF Ok
  <2> QED  BY <1>2
<1> QED  BY <1>3

\* The numbering of spfs.py knows every node of the file, and no other.
LEMMA SeenNames ==
  ASSUME IsSequence(Lines)
  PROVE  FirstAppearance \in Seq(FileNames) /\ ToSet(FirstAppearance) = FileNames
<1>1. Len(Lines) \in 0..Len(Lines) /\ DOMAIN Lines = 1..Len(Lines)
  BY Indices
<1>2. FileNames = {Lines[i].src : i \in 1..Len(Lines)} \cup {Lines[i].dst : i \in 1..Len(Lines)}
  BY <1>1 DEF FileNames
<1> HIDE DEF Seen
<1> QED  BY <1>1, <1>2, SeenUpTo DEF FirstAppearance

\* The script numbers the nodes as Seen does, and writes that to the .map file.
NumberInv ==
  /\ status = "reading" => nodes = Seen[pos - 1]
  /\ \A k \in DOMAIN pairs : EndsOf(pairs[k]) \subseteq ToSet(nodes)
  /\ file.kind = "topology" => map \in {<<>>, FirstAppearance}
  /\ file.kind = "topology" /\ status \in {"printing", "accepted"} => map = FirstAppearance

LEMMA InitNumber == Init /\ ParserInv => NumberInv
<1> SUFFICES ASSUME Init, ParserInv PROVE NumberInv
  OBVIOUS
<1>1. Seen[0] = <<>>
  BY SeenLines DEF ParserInv, InputOK
<1> HIDE DEF Seen
<1> QED  BY <1>1 DEF Init, NumberInv

\* One more line: a line that opens a pair notes its names, any other finds
\* them in the pair that it completes or extends.
LEMMA ReadLineNumber ==
  ASSUME ParserInv, NumberInv, ReadLine
  PROVE  NumberInv'
<1> DEFINE l == Lines[pos]
<1>1. /\ file' = file /\ Lines' = Lines /\ map' = map /\ status' = status /\ status = "reading"
      /\ pos' = pos + 1 /\ Seen' = Seen /\ FirstAppearance' = FirstAppearance
  BY DEF ReadLine, ReadOn, Reading, Lines, Seen, FirstAppearance
<1>2. pos \in 1..Len(Lines) /\ (pos + 1) - 1 = pos
  <2>1. pos \in DOMAIN Lines /\ Len(Lines) \in Nat /\ DOMAIN Lines = 1..Len(Lines)
    BY ReadingLine, Indices DEF ReadLine, ParserInv, InputOK
  <2> QED  BY <2>1
<1>3. Seen[pos] = Noted(Noted(nodes, l.src), l.dst)
  <2> HIDE DEF Seen
  <2>1. Seen[pos] = NotedLine(pos, Seen[pos - 1])
    BY <1>2, SeenLines DEF ParserInv, InputOK
  <2>2. nodes = Seen[pos - 1]
    BY <1>1 DEF NumberInv
  <2> QED  BY <2>1, <2>2 DEF NotedLine
<1> HIDE DEF Seen
<1>4. nodes \in Seq(FileNames) /\ l.src \in FileNames /\ l.dst \in FileNames
  BY ReadingLine DEF ReadLine, ParserInv, NodesOK
<1>5. \A k \in DOMAIN pairs : pairs[k].src \in ToSet(nodes) /\ pairs[k].dst \in ToSet(nodes)
  BY DEF NumberInv, EndsOf
<1>6. pairs \in Seq(Pair)
  BY DEF ParserInv, PairsOK
<1>7. ASSUME NewPair(l)
      PROVE  /\ nodes' = Noted(Noted(nodes, l.src), l.dst)
             /\ \A k \in DOMAIN pairs' : EndsOf(pairs'[k]) \subseteq ToSet(nodes')
  <2>1. nodes' = Noted(Noted(nodes, l.src), l.dst) /\ pairs' = Append(pairs, PairOf(l))
    BY <1>7 DEF NewPair, PairOf
  <2>2. ToSet(nodes') = ToSet(nodes) \cup {l.src, l.dst}
    <3>1. ToSet(Noted(nodes, l.src)) = ToSet(nodes) \cup {l.src}
      BY <1>4, NotedNames
    <3>2. Noted(nodes, l.src) \in Seq(FileNames)
      BY <1>4, NotedDistinct DEF ParserInv, NodesOK
    <3>3. ToSet(Noted(Noted(nodes, l.src), l.dst)) = ToSet(Noted(nodes, l.src)) \cup {l.dst}
      BY <3>2, NotedNames
    <3> QED  BY <2>1, <3>1, <3>3
  <2>3. PairOf(l).src = l.src /\ PairOf(l).dst = l.dst
    BY DEF PairOf
  <2> HIDE DEF l
  <2>4. /\ DOMAIN pairs' = 1..(Len(pairs) + 1) /\ DOMAIN pairs = 1..Len(pairs) /\ Len(pairs) \in Nat
        /\ \A k \in 1..Len(pairs) : pairs'[k] = pairs[k]
        /\ pairs'[Len(pairs) + 1] = PairOf(l)
    <3>1. pairs \in Seq(Pair \cup {PairOf(l)})
      BY <1>6, SeqMonotonic
    <3> QED  BY <1>6, <2>1, <3>1, AppendProperties
  <2>5. ASSUME NEW k \in DOMAIN pairs' PROVE EndsOf(pairs'[k]) \subseteq ToSet(nodes')
    <3>1. k \in DOMAIN pairs \/ k = Len(pairs) + 1
      BY <2>4
    <3> QED  BY <1>5, <2>2, <2>3, <2>4, <3>1 DEF EndsOf
  <2> QED  BY <2>1, <2>5
<1>8. ASSUME NEW k \in DOMAIN pairs,
             SetReverse(l, k) \/ NewReverse(l, k) \/ SetForward(l, k) \/ NewForward(l, k)
      PROVE  /\ nodes' = Noted(Noted(nodes, l.src), l.dst)
             /\ \A j \in DOMAIN pairs' : EndsOf(pairs'[j]) \subseteq ToSet(nodes')
  <2>1. nodes' = nodes /\ \E s : pairs' = [pairs EXCEPT ![k].entries = s]
    BY <1>8 DEF SetReverse, NewReverse, SetForward, NewForward, SetLast, AppendEntry
  <2>2. k \in Forward(l) \/ k \in Reversed(l)
    BY <1>8 DEF SetReverse, NewReverse, SetForward, NewForward
  <2>3. {pairs[k].src, pairs[k].dst} = {l.src, l.dst}
    BY <2>2 DEF Forward, Reversed, At
  <2>4. l.src \in ToSet(nodes) /\ l.dst \in ToSet(nodes)
    BY <1>5, <2>3
  <2>5. Noted(Noted(nodes, l.src), l.dst) = nodes
    BY <1>4, <2>4, NotedNames
  <2>6. PICK s : pairs' = [pairs EXCEPT ![k].entries = s]
    BY <2>1
  <2>7. DOMAIN pairs' = DOMAIN pairs
    BY <2>6
  <2>8. ASSUME NEW j \in DOMAIN pairs PROVE pairs'[j].src = pairs[j].src /\ pairs'[j].dst = pairs[j].dst
    <3>1. pairs[j] \in Pair
      BY <1>6
    <3>2. DOMAIN pairs[j] = {"src", "dst", "entries"}
      BY <3>1 DEF Pair
    <3>3. pairs'[j] = IF j = k THEN [pairs[j] EXCEPT !.entries = s] ELSE pairs[j]
      BY <2>6
    <3> QED  BY <3>2, <3>3
  <2> QED  BY <1>5, <2>1, <2>5, <2>7, <2>8 DEF EndsOf
<1>9. /\ nodes' = Noted(Noted(nodes, l.src), l.dst)
      /\ \A k \in DOMAIN pairs' : EndsOf(pairs'[k]) \subseteq ToSet(nodes')
  BY <1>7, <1>8 DEF ReadLine
<1>10. nodes' = Seen'[pos' - 1]
  BY <1>1, <1>2, <1>3, <1>9
<1>11. file'.kind = "topology" => map' \in {<<>>, FirstAppearance'}
  BY <1>1 DEF NumberInv
<1> QED  BY <1>1, <1>9, <1>10, <1>11 DEF NumberInv, EndsOf

LEMMA NextNumber == ParserInv /\ NumberInv /\ [Next]_vars => NumberInv'
<1> SUFFICES ASSUME ParserInv, NumberInv, [Next]_vars PROVE NumberInv'
  OBVIOUS
<1>1. CASE ReadLine
  BY <1>1, ReadLineNumber
<1>2. CASE EndReading
  <2>1. /\ file' = file /\ nodes' = nodes /\ pairs' = pairs /\ pos = Len(Lines) + 1
        /\ status = "reading" /\ status' # "reading"
        /\ Seen' = Seen /\ FirstAppearance' = FirstAppearance
    <3>1. Len(Lines) \in Nat
      BY Indices DEF ParserInv, InputOK
    <3>2. pos = Len(Lines) + 1
      BY <1>2, <3>1 DEF EndReading, ParserInv, CursorsOK
    <3> QED  BY <1>2, <3>2 DEF EndReading, Seen, FirstAppearance, Lines
  <2> HIDE DEF Seen
  <2>2. nodes = FirstAppearance
    <3>1. (Len(Lines) + 1) - 1 = Len(Lines)
      BY Indices DEF ParserInv, InputOK
    <3> QED  BY <2>1, <3>1 DEF NumberInv, FirstAppearance
  <2>3. file.kind = "topology" => map' = nodes
    BY <1>2 DEF EndReading
  <2> QED  BY <2>1, <2>2, <2>3 DEF NumberInv, EndsOf
<1>3. CASE UNCHANGED <<file, map, pos, nodes, pairs>> /\ (status' = status \/ status' \in {"rejected", "crashed"} \/ (status = "printing" /\ status' = "accepted"))
  <2>1. Seen' = Seen /\ FirstAppearance' = FirstAppearance
    BY <1>3 DEF Seen, FirstAppearance, Lines
  <2> HIDE DEF Seen
  <2> QED  BY <1>3, <2>1 DEF NumberInv, EndsOf
<1>4. CASE PrintPair \/ Unexpected \/ UnknownName \/ Finish \/ Terminated \/ UNCHANGED vars
  BY <1>3, <1>4 DEF PrintPair, Unexpected, UnknownName, Finish, Terminated, vars
<1> QED  BY <1>1, <1>2, <1>4 DEF Next

\* The ids of the .map file, which ns-3 and the failures use and which the script
\* takes from its new pairs, are those that spfs.py gives the nodes when it goes
\* over all the lines of the topology (ntf_parser.py:65-70, spfs.py:29-39).
THEOREM NumbersAgree == Spec => []NumberingAgrees
<1>1. NumberInv => NumberingAgrees
  BY DEF NumberInv, NumberingAgrees
<1> QED  BY <1>1, InitNumber, NextNumber, InitParserInv, NextParserInv, PTL DEF Spec

-----------------------------------------------------------------------------
(* Lists as sets and bags                                                  *)

LEMMA Concatenated ==
  ASSUME NEW S, NEW s \in Seq(S), NEW t \in Seq(S), NEW u, u = s \o t
  PROVE  /\ u \in Seq(S) /\ \A x : x \in ToSet(u) <=> x \in ToSet(s) \/ x \in ToSet(t)
         /\ IsInjective(s) /\ IsInjective(t) /\ (\A x \in ToSet(s) : x \notin ToSet(t)) => IsInjective(u)
<1> DEFINE m == Len(s)
           n == Len(t)
<1>1. /\ m \in Nat /\ n \in Nat /\ DOMAIN s = 1..m /\ DOMAIN t = 1..n
      /\ u \in Seq(S) /\ DOMAIN u = 1..(m + n)
  OBVIOUS
<1>2. /\ \A i \in 1..m : i \in 1..(m + n) /\ u[i] = s[i]
      /\ \A i \in 1..n : m + i \in 1..(m + n) /\ u[m + i] = t[i]
  BY ConcatProperties
<1> HIDE DEF m, n
<1>3. \A i \in 1..(m + n) : i \in 1..m \/ \E j \in 1..n : i = m + j
  <2> SUFFICES ASSUME NEW i \in 1..(m + n), ~(i \in 1..m) PROVE \E j \in 1..n : i = m + j
    OBVIOUS
  <2>1. i - m \in 1..n /\ i = m + (i - m)
    BY <1>1
  <2> QED  BY <2>1
<1>4. ToSet(u) = ToSet(s) \cup ToSet(t)
  <2>1. ToSet(u) = {u[i] : i \in 1..(m + n)}
    BY <1>1 DEF ToSet
  <2>2. ToSet(s) = {s[i] : i \in 1..m} /\ ToSet(t) = {t[i] : i \in 1..n}
    BY <1>1 DEF ToSet
  <2>3. ASSUME NEW x \in ToSet(u) PROVE x \in ToSet(s) \cup ToSet(t)
    <3>1. PICK i \in 1..(m + n) : x = u[i]
      BY <2>1
    <3>2. CASE i \in 1..m
      BY <1>2, <2>2, <3>1, <3>2
    <3>3. CASE \E j \in 1..n : i = m + j
      BY <1>2, <2>2, <3>1, <3>3
    <3> QED  BY <1>3, <3>2, <3>3
  <2>4. \A x \in ToSet(s) : x \in ToSet(u)
    BY <1>2, <2>1, <2>2
  <2>5. \A x \in ToSet(t) : x \in ToSet(u)
    BY <1>2, <2>1, <2>2
  <2> QED  BY <2>3, <2>4, <2>5
<1>5. ASSUME IsInjective(s), IsInjective(t), (\A x \in ToSet(s) : x \notin ToSet(t)),
             NEW i \in 1..(m + n), NEW j \in 1..(m + n), u[i] = u[j]
      PROVE  i = j
  <2>1. \A a \in 1..m : u[a] \in ToSet(s)
    BY <1>1, <1>2 DEF ToSet
  <2>2. \A a \in 1..n : u[m + a] \in ToSet(t)
    BY <1>1, <1>2 DEF ToSet
  <2>3. CASE i \in 1..m /\ j \in 1..m
    BY <1>1, <1>2, <1>5, <2>3 DEF IsInjective
  <2>4. ASSUME NEW a \in 1..n, NEW b \in 1..n, i = m + a, j = m + b PROVE i = j
    <3>1. t[a] = t[b]
      BY <1>2, <1>5, <2>4
    <3> QED  BY <1>1, <1>5, <2>4, <3>1 DEF IsInjective
  <2> QED  BY <1>3, <1>5, <2>1, <2>2, <2>3, <2>4
<1>6. IsInjective(s) /\ IsInjective(t) /\ (\A x \in ToSet(s) : x \notin ToSet(t)) => IsInjective(u)
  BY <1>1, <1>5 DEF IsInjective
<1> QED  BY <1>1, <1>4, <1>6

\* A list without repetitions has each of its elements once.
LEMMA BagOfDistinct ==
  ASSUME NEW s, IsInjective(s)
  PROVE  ToBag(s) = SetToBag(ToSet(s))
<1>1. Range(s) = ToSet(s)
  BY DEF Range, ToSet
<1>2. ASSUME NEW x \in Range(s) PROVE Cardinality({i \in DOMAIN s : s[i] = x}) = 1
  <2>1. PICK i \in DOMAIN s : s[i] = x
    BY DEF Range
  <2>2. {j \in DOMAIN s : s[j] = x} = {i}
    BY <2>1 DEF IsInjective
  <2> QED  BY <2>2, FS_Singleton
<1> QED  BY <1>1, <1>2 DEF ToBag, SetToBag

\* Two lists that are the same bag have the same elements.
LEMMA SameBagSameSet ==
  ASSUME NEW s, NEW t, ToBag(s) = ToBag(t)
  PROVE  ToSet(s) = ToSet(t)
<1>1. DOMAIN ToBag(s) = Range(s) /\ DOMAIN ToBag(t) = Range(t)
  BY DEF ToBag
<1>2. Range(s) = Range(t)
  BY <1>1
<1> QED  BY <1>2 DEF Range, ToSet

\* f is the recursion of FlattenSeq, for the first n lists.
Flattens(f, ss, n) == f = [i \in 1..n |-> IF i = 1 THEN ss[i] ELSE f[i - 1] \o ss[i]]

LEMMA SomeFlattens ==
  ASSUME NEW ss, NEW n \in Nat
  PROVE  \E f : Flattens(f, ss, n)
<1> DEFINE T == {k \in Nat : ~\E f : Flattens(f, ss, k)}
<1>1. SUFFICES ASSUME T # {} PROVE FALSE
  OBVIOUS
<1>2. PICK k \in T : \A j \in T : k <= j
  <2>1. T \in SUBSET Nat
    OBVIOUS
  <2> HIDE DEF T
  <2> QED  BY <1>1, <2>1, Least
<1>3. k \in Nat /\ ~\E f : Flattens(f, ss, k)
  OBVIOUS
<1>4. k # 0
  <2>1. Flattens([i \in 1..0 |-> <<>>], ss, 0)
    BY DEF Flattens
  <2> QED  BY <1>3, <2>1
<1>5. PICK g : Flattens(g, ss, k - 1)
  <2>1. k - 1 \in Nat /\ k - 1 < k
    BY <1>3, <1>4
  <2>2. k - 1 \notin T
    BY <1>2, <1>3, <2>1
  <2> QED  BY <2>1, <2>2
<1> HIDE DEF T
<1> DEFINE h == [i \in 1..k |-> IF i = 1 THEN ss[i] ELSE g[i - 1] \o ss[i]]
<1>6. \A i \in 1..(k - 1) : h[i] = g[i]
  <2>1. g = [i \in 1..(k - 1) |-> IF i = 1 THEN ss[i] ELSE g[i - 1] \o ss[i]]
    BY <1>5 DEF Flattens
  <2>2. \A i \in 1..(k - 1) : i \in 1..k
    BY <1>3
  <2> QED  BY <2>1, <2>2
<1>7. \A i \in 1..k : i # 1 => h[i - 1] = g[i - 1]
  <2>1. \A i \in 1..k : i # 1 => i - 1 \in 1..(k - 1)
    BY <1>3
  <2> QED  BY <1>6, <2>1
<1>8. Flattens(h, ss, k)
  BY <1>7 DEF Flattens
<1> QED  BY <1>3, <1>8

\* The places <<i, j>> of the first n lists of ss.
Places(ss, n) == {p \in (1..n) \X Nat : p[2] \in DOMAIN ss[p[1]]}
Element(ss, p) == ss[p[1]][p[2]]

\* g gives every position of u the place that its element comes from.
Placing(g, ss, n, u) ==
  /\ \A j \in DOMAIN u : g[j] \in Places(ss, n) /\ Element(ss, g[j]) = u[j]
  /\ \A j, k \in DOMAIN u : g[j] = g[k] => j = k
  /\ \A p \in Places(ss, n) : \E j \in DOMAIN u : g[j] = p

\* One more list.
LEMMA PlacedMore ==
  ASSUME NEW S, NEW ss \in Seq(Seq(S)), NEW k \in 1..Len(ss),
         NEW u \in Seq(S), NEW g, Placing(g, ss, k - 1, u)
  PROVE  u \o ss[k] \in Seq(S) /\ \E h : Placing(h, ss, k, u \o ss[k])
<1> DEFINE t == ss[k]
           w == u \o t
           m == Len(u)
           n == Len(t)
           h == [j \in 1..(m + n) |-> IF j \in 1..m THEN g[j] ELSE <<k, j - m>>]
<1>1. t \in Seq(S) /\ k \in Nat \ {0}
  OBVIOUS
<1>2. /\ m \in Nat /\ n \in Nat /\ DOMAIN u = 1..m /\ DOMAIN t = 1..n
      /\ w \in Seq(S) /\ DOMAIN w = 1..(m + n)
  BY <1>1
<1> HIDE DEF t
<1>3. /\ \A j \in 1..m : j \in 1..(m + n) /\ w[j] = u[j]
      /\ \A i \in 1..n : m + i \in 1..(m + n) /\ w[m + i] = t[i]
  BY <1>1, ConcatProperties
<1> HIDE DEF w, m, n
<1>4. \A j \in 1..(m + n) : j \in 1..m \/ (j - m \in 1..n /\ j = m + (j - m) /\ ~(j \in 1..m))
  BY <1>2
<1>5. \A i \in 1..n : ~(m + i \in 1..m) /\ (m + i) - m = i
  BY <1>2
<1>6. \A p : p \in Places(ss, k) <=> p \in Places(ss, k - 1) \/ \E i \in 1..n : p = <<k, i>>
  <2>1. \A a : a \in 1..k <=> a \in 1..(k - 1) \/ a = k
    BY <1>1
  <2>2. DOMAIN ss[k] = 1..n /\ 1..n \subseteq Nat
    BY <1>2 DEF t
  <2>3. ASSUME NEW p \in Places(ss, k)
        PROVE  p \in Places(ss, k - 1) \/ \E i \in 1..n : p = <<k, i>>
    <3>1. p \in (1..k) \X Nat /\ p[2] \in DOMAIN ss[p[1]]
      BY DEF Places
    <3>2. CASE p[1] \in 1..(k - 1)
      BY <3>1, <3>2 DEF Places
    <3>3. CASE p[1] = k
      <4>1. p = <<p[1], p[2]>>
        BY <3>1
      <4>2. p[2] \in 1..n
        BY <2>2, <3>1, <3>3
      <4> QED  BY <3>3, <4>1, <4>2
    <3> QED  BY <2>1, <3>1, <3>2, <3>3
  <2>4. Places(ss, k - 1) \subseteq Places(ss, k)
    BY <2>1 DEF Places
  <2>5. ASSUME NEW i \in 1..n PROVE <<k, i>> \in Places(ss, k)
    <3>1. k \in 1..k /\ i \in Nat /\ i \in DOMAIN ss[k]
      BY <2>1, <2>2
    <3> QED  BY <3>1 DEF Places
  <2> QED  BY <2>3, <2>4, <2>5
<1>7. /\ \A j \in 1..m : g[j] \in Places(ss, k - 1) /\ Element(ss, g[j]) = u[j]
      /\ \A i, j \in 1..m : g[i] = g[j] => i = j
      /\ \A p \in Places(ss, k - 1) : \E j \in 1..m : g[j] = p
  BY <1>2 DEF Placing
<1>8. \A p \in Places(ss, k - 1) : p[1] # k
  BY <1>1 DEF Places
<1>9. /\ \A j \in 1..m : h[j] = g[j]
      /\ \A i \in 1..n : h[m + i] = <<k, i>>
  BY <1>3, <1>5
<1> HIDE DEF h
<1>10. ASSUME NEW j \in 1..(m + n)
       PROVE  h[j] \in Places(ss, k) /\ Element(ss, h[j]) = w[j]
  <2>1. CASE j \in 1..m
    BY <1>3, <1>6, <1>7, <1>9, <2>1
  <2>2. ASSUME NEW i \in 1..n, j = m + i PROVE h[j] \in Places(ss, k) /\ Element(ss, h[j]) = w[j]
    <3>1. h[j] = <<k, i>> /\ w[j] = t[i]
      BY <1>3, <1>9, <2>2
    <3> QED  BY <1>6, <3>1 DEF Element, t
  <2> QED  BY <1>4, <2>1, <2>2
<1>11. ASSUME NEW i \in 1..(m + n), NEW j \in 1..(m + n), h[i] = h[j]
       PROVE  i = j
  <2>1. CASE i \in 1..m /\ j \in 1..m
    BY <1>7, <1>9, <1>11, <2>1
  <2>2. \A a \in 1..m : h[a][1] # k
    BY <1>7, <1>8, <1>9
  <2>3. \A a \in 1..n : h[m + a][1] = k /\ h[m + a][2] = a
    BY <1>9
  <2>4. i \in 1..m \/ \E a \in 1..n : i = m + a
    BY <1>4
  <2>5. j \in 1..m \/ \E a \in 1..n : j = m + a
    BY <1>4
  <2> QED  BY <1>11, <2>1, <2>2, <2>3, <2>4, <2>5
<1>12. ASSUME NEW p \in Places(ss, k) PROVE \E j \in 1..(m + n) : h[j] = p
  <2>1. CASE p \in Places(ss, k - 1)
    BY <1>3, <1>7, <1>9, <2>1
  <2>2. CASE \E i \in 1..n : p = <<k, i>>
    BY <1>3, <1>9, <2>2
  <2> QED  BY <1>6, <2>1, <2>2
<1>13. Placing(h, ss, k, w)
  BY <1>2, <1>10, <1>11, <1>12 DEF Placing
<1> QED  BY <1>2, <1>13 DEF w, t

\* A flattened list has each element of each list once, and nothing else.
LEMMA FlattenPlaces ==
  ASSUME NEW S, NEW ss \in Seq(Seq(S))
  PROVE  FlattenSeq(ss) \in Seq(S) /\ \E g : Placing(g, ss, Len(ss), FlattenSeq(ss))
<1> DEFINE N == Len(ss)
           f == CHOOSE h : Flattens(h, ss, N)
           Ok(k) == f[k] \in Seq(S) /\ \E g : Placing(g, ss, k, f[k])
           T == {k \in 1..N : ~Ok(k)}
<1>1. N \in Nat /\ DOMAIN ss = 1..N
  OBVIOUS
<1>2. Placing(<<>>, ss, 0, <<>>)
  BY DEF Placing, Places
<1>3. CASE N = 0
  <2>1. ss = <<>> /\ FlattenSeq(ss) = <<>>
    BY <1>3 DEF FlattenSeq
  <2>2. <<>> \in Seq(S)
    OBVIOUS
  <2>3. \E g : Placing(g, ss, N, <<>>)
    BY <1>2, <1>3
  <2> HIDE DEF N
  <2> QED  BY <2>1, <2>2, <2>3 DEF N
<1>4. CASE N # 0
  <2>1. FlattenSeq(ss) = f[N]
    BY <1>4 DEF FlattenSeq, Flattens
  <2>2. Flattens(f, ss, N)
    <3>1. \E h : Flattens(h, ss, N)
      BY <1>1, SomeFlattens
    <3> QED  BY <3>1
  <2> HIDE DEF f
  <2>3. /\ f[1] = ss[1]
        /\ \A k \in 1..N : k # 1 => f[k] = f[k - 1] \o ss[k]
    <3>1. 1 \in 1..N
      BY <1>1, <1>4
    <3> HIDE DEF N
    <3> QED  BY <2>2, <3>1 DEF Flattens
  <2>4. T = {}
    <3> SUFFICES ASSUME T # {} PROVE FALSE
      OBVIOUS
    <3>1. PICK k \in T : \A j \in T : k <= j
      <4>1. T \in SUBSET Nat
        BY <1>1
      <4> HIDE DEF T
      <4> QED  BY <4>1, Least
    <3>2. k \in 1..N /\ ~Ok(k)
      OBVIOUS
    <3> HIDE DEF Ok
    <3>3. CASE k = 1
      <4>1. /\ <<>> \o ss[1] = ss[1] /\ <<>> \in Seq(S)
        <5>1. ss[1] \in Seq(S)
          BY <3>2, <3>3
        <5> QED  BY <5>1
      <4>2. \E g : Placing(g, ss, 1, <<>> \o ss[1])
        <5>1. k \in 1..Len(ss) /\ Placing(<<>>, ss, k - 1, <<>>)
          BY <1>2, <3>2, <3>3
        <5>2. \E g : Placing(g, ss, k, <<>> \o ss[k])
          BY <4>1, <5>1, PlacedMore
        <5> QED  BY <3>3, <5>2
      <4>3. ss[1] \in Seq(S)
        BY <3>2, <3>3
      <4>4. Ok(1)
        BY <2>3, <4>1, <4>2, <4>3 DEF Ok
      <4> QED  BY <3>2, <3>3, <4>4
    <3>4. CASE k # 1
      <4>1. k - 1 \in 1..N /\ k - 1 < k
        BY <1>1, <3>2, <3>4
      <4>2. k - 1 \notin T
        <5> HIDE DEF T
        <5> QED  BY <1>1, <3>1, <3>2, <4>1
      <4>3. Ok(k - 1)
        BY <4>1, <4>2
      <4>4. PICK g : Placing(g, ss, k - 1, f[k - 1])
        BY <4>3 DEF Ok
      <4>5. f[k - 1] \in Seq(S)
        BY <4>3 DEF Ok
      <4>6. f[k - 1] \o ss[k] \in Seq(S) /\ \E h : Placing(h, ss, k, f[k - 1] \o ss[k])
        BY <3>2, <4>4, <4>5, PlacedMore
      <4>7. Ok(k)
        BY <2>3, <3>2, <3>4, <4>6 DEF Ok
      <4> QED  BY <3>2, <4>7
    <3> QED  BY <3>3, <3>4
  <2>5. N \in 1..N
    BY <1>1, <1>4
  <2> HIDE DEF Ok, N
  <2>6. Ok(N)
    BY <2>4, <2>5
  <2> QED  BY <2>1, <2>6 DEF Ok, N
<1> QED  BY <1>3, <1>4

\* A one-to-one correspondence keeps the number of elements.
LEMMA SameCount ==
  ASSUME NEW A, NEW B, IsFiniteSet(A), NEW g,
         \A a \in A : g[a] \in B,
         \A a, b \in A : g[a] = g[b] => a = b,
         \A b \in B : \E a \in A : g[a] = b
  PROVE  Cardinality(A) = Cardinality(B)
<1> DEFINE h == [a \in A |-> g[a]]
<1>1. h \in Bijection(A, B)
  BY DEF Bijection, Injection, Surjection, IsInjective
<1>2. ExistsBijection(A, B)
  BY <1>1 DEF ExistsBijection
<1> QED  BY <1>2, FS_Bijection

\* The elements of the lists of ss, and how often x is one.
Elements(ss) == {Element(ss, p) : p \in Places(ss, Len(ss))}
Count(ss, x) == Cardinality({p \in Places(ss, Len(ss)) : Element(ss, p) = x})

\* Flattening counts every place once.
LEMMA FlattenBag ==
  ASSUME NEW S, NEW ss \in Seq(Seq(S))
  PROVE  ToBag(FlattenSeq(ss)) = [x \in Elements(ss) |-> Count(ss, x)]
<1> DEFINE u == FlattenSeq(ss)
           P == Places(ss, Len(ss))
<1>1. u \in Seq(S)
  BY FlattenPlaces
<1>2. PICK g : Placing(g, ss, Len(ss), u)
  BY FlattenPlaces
<1> HIDE DEF u
<1>3. /\ \A j \in DOMAIN u : g[j] \in P /\ Element(ss, g[j]) = u[j]
      /\ \A j, k \in DOMAIN u : g[j] = g[k] => j = k
      /\ \A p \in P : \E j \in DOMAIN u : g[j] = p
  BY <1>2 DEF Placing
<1> HIDE DEF P
<1>4. Range(u) = Elements(ss)
  BY <1>3 DEF Range, Elements, P
<1>5. IsFiniteSet(DOMAIN u)
  <2>1. Len(u) \in Nat /\ DOMAIN u = 1..Len(u)
    BY <1>1
  <2> QED  BY <2>1, FS_Interval
<1>6. ASSUME NEW x
      PROVE  Cardinality({i \in DOMAIN u : u[i] = x}) = Count(ss, x)
  <2> DEFINE A == {i \in DOMAIN u : u[i] = x}
             B == {p \in P : Element(ss, p) = x}
  <2>1. IsFiniteSet(A)
    BY <1>5, FS_Subset
  <2>2. \A a \in A : g[a] \in B
    BY <1>3
  <2>3. \A a, b \in A : g[a] = g[b] => a = b
    BY <1>3
  <2>4. \A b \in B : \E a \in A : g[a] = b
    BY <1>3
  <2> HIDE DEF A, B
  <2>5. Cardinality(A) = Cardinality(B)
    BY <2>1, <2>2, <2>3, <2>4, SameCount
  <2> QED  BY <2>5 DEF A, B, P, Count
<1>7. ToBag(u) = [x \in Range(u) |-> Cardinality({i \in DOMAIN u : u[i] = x})]
  BY DEF ToBag
<1> QED  BY <1>4, <1>6, <1>7 DEF u

\* g takes each place of ss to one of tt that has the same element.
Matches(g, ss, tt) ==
  /\ \A p \in Places(ss, Len(ss)) :
       g[p] \in Places(tt, Len(tt)) /\ Element(tt, g[p]) = Element(ss, p)
  /\ \A p, q \in Places(ss, Len(ss)) : g[p] = g[q] => p = q
  /\ \A q \in Places(tt, Len(tt)) : \E p \in Places(ss, Len(ss)) : g[p] = q

\* Two lists of lists whose places correspond one to one have the same bag of
\* elements.
LEMMA SameElements ==
  ASSUME NEW S, NEW ss, NEW tt, ss \in Seq(Seq(S)), tt \in Seq(Seq(S)),
         NEW g, Matches(g, ss, tt)
  PROVE  ToBag(FlattenSeq(ss)) = ToBag(FlattenSeq(tt))
<1> DEFINE P == Places(ss, Len(ss))
           Q == Places(tt, Len(tt))
<1>1. /\ \A p \in P : g[p] \in Q /\ Element(tt, g[p]) = Element(ss, p)
      /\ \A p, q \in P : g[p] = g[q] => p = q
      /\ \A q \in Q : \E p \in P : g[p] = q
  BY DEF Matches
<1>2. IsFiniteSet(P)
  <2>1. Len(ss) \in Nat /\ \A i \in 1..Len(ss) : Len(ss[i]) \in Nat /\ DOMAIN ss[i] = 1..Len(ss[i])
    OBVIOUS
  <2>2. PICK h : Placing(h, ss, Len(ss), FlattenSeq(ss))
    BY FlattenPlaces
  <2> DEFINE D == DOMAIN FlattenSeq(ss)
             k == [j \in D |-> h[j]]
  <2>3. IsFiniteSet(D)
    <3>1. FlattenSeq(ss) \in Seq(S)
      BY FlattenPlaces
    <3>2. Len(FlattenSeq(ss)) \in Nat /\ D = 1..Len(FlattenSeq(ss))
      BY <3>1
    <3> QED  BY <3>2, FS_Interval
  <2>4. k \in Bijection(D, P)
    BY <2>2 DEF Placing, Bijection, Injection, Surjection, IsInjective
  <2>5. ExistsBijection(D, P)
    BY <2>4 DEF ExistsBijection
  <2> QED  BY <2>3, <2>5, FS_Bijection
<1>3. /\ ToBag(FlattenSeq(ss)) = [x \in Elements(ss) |-> Count(ss, x)]
      /\ ToBag(FlattenSeq(tt)) = [x \in Elements(tt) |-> Count(tt, x)]
  BY FlattenBag
<1> HIDE DEF P, Q
<1>4. Elements(ss) = Elements(tt)
  <2>1. /\ \A x : x \in Elements(ss) <=> \E p \in P : x = Element(ss, p)
        /\ \A x : x \in Elements(tt) <=> \E q \in Q : x = Element(tt, q)
    BY DEF P, Q, Elements
  <2>2. \A x \in Elements(ss) : x \in Elements(tt)
    BY <1>1, <2>1
  <2>3. \A x \in Elements(tt) : x \in Elements(ss)
    BY <1>1, <2>1
  <2> QED  BY <2>2, <2>3
<1>5. ASSUME NEW x
      PROVE  Count(ss, x) = Count(tt, x)
  <2> DEFINE A == {p \in P : Element(ss, p) = x}
             B == {q \in Q : Element(tt, q) = x}
  <2>1. IsFiniteSet(A)
    BY <1>2, FS_Subset
  <2>2. \A a \in A : g[a] \in B
    BY <1>1
  <2>3. \A a, b \in A : g[a] = g[b] => a = b
    BY <1>1
  <2>4. \A b \in B : \E a \in A : g[a] = b
    BY <1>1
  <2> HIDE DEF A, B
  <2>5. Cardinality(A) = Cardinality(B)
    BY <2>1, <2>2, <2>3, <2>4, SameCount
  <2> QED  BY <2>5 DEF A, B, P, Q, Count
<1> QED  BY <1>3, <1>4, <1>5

-----------------------------------------------------------------------------
(* Taking elements out of a list                                           *)

\* A set of numbers up to n has a greatest element.
LEMMA Greatest ==
  ASSUME NEW n \in Nat, NEW T \in SUBSET (1..n), T # {}
  PROVE  Max(T) \in T /\ \A y \in T : Max(T) >= y
<1> DEFINE U == {n - x : x \in T}
<1>1. \A x \in T : x \in Nat /\ x <= n /\ n - x \in Nat
  OBVIOUS
<1>2. U \in SUBSET Nat /\ U # {}
  <2>1. U \in SUBSET Nat
    BY <1>1
  <2>2. \E x \in T : n - x \in U
    BY <1>1
  <2> QED  BY <2>1, <2>2
<1>3. PICK u \in U : \A v \in U : u <= v
  BY <1>2, Least
<1>4. PICK x \in T : u = n - x
  BY <1>3
<1>5. \A y \in T : x >= y
  <2> SUFFICES ASSUME NEW y \in T PROVE x >= y  OBVIOUS
  <2>1. n - x <= n - y
    BY <1>3, <1>4
  <2> QED  BY <1>1, <2>1
<1>6. Max(T) = CHOOSE z \in T : \A y \in T : z >= y
  BY DEF Max
<1> QED  BY <1>5, <1>6

\* A list without one of its elements.
LEMMA WithoutOne ==
  ASSUME NEW S, NEW s \in Seq(S), NEW i \in DOMAIN s
  PROVE  /\ RemoveAt(s, i) \in Seq(S) /\ Len(RemoveAt(s, i)) = Len(s) - 1
         /\ \A k \in 1..(Len(s) - 1) : RemoveAt(s, i)[k] = IF k < i THEN s[k] ELSE s[k + 1]
<1> DEFINE n == Len(s)
           h == SubSeq(s, 1, i - 1)
           t == SubSeq(s, i + 1, n)
<1>1. n \in Nat /\ i \in 1..n /\ DOMAIN s = 1..n
  OBVIOUS
<1> HIDE DEF n
<1>2. /\ h \in Seq(S) /\ Len(h) = i - 1
      /\ \A k \in 1..(i - 1) : h[k] = s[k]
  <2>1. \A k \in 1..(i - 1) : s[k] \in S
    BY <1>1
  <2> QED  BY <1>1, <2>1, SubSeqProperties
<1>3. /\ t \in Seq(S) /\ Len(t) = n - i
      /\ \A k \in 1..(n - i) : t[k] = s[i + k]
  <2>1. \A k \in (i + 1)..n : s[k] \in S
    BY <1>1
  <2> QED  BY <1>1, <2>1, SubSeqProperties
<1>4. RemoveAt(s, i) = h \o t
  BY DEF RemoveAt, n
<1> HIDE DEF h, t
<1>5. /\ h \o t \in Seq(S) /\ Len(h \o t) = n - 1
      /\ \A k \in 1..(n - 1) : (h \o t)[k] = IF k <= i - 1 THEN h[k] ELSE t[k - (i - 1)]
  <2>1. Len(h) + Len(t) = n - 1
    BY <1>1, <1>2, <1>3
  <2> QED  BY <1>2, <1>3, <2>1, ConcatProperties
<1>6. ASSUME NEW k \in 1..(n - 1) PROVE (h \o t)[k] = IF k < i THEN s[k] ELSE s[k + 1]
  <2>1. CASE k <= i - 1
    BY <1>1, <1>2, <1>5, <2>1
  <2>2. CASE ~(k <= i - 1)
    <3> DEFINE m == k - (i - 1)
    <3>1. m \in 1..(n - i) /\ i + m = k + 1 /\ ~(k < i)
      BY <1>1, <2>2
    <3> HIDE DEF m
    <3>2. (h \o t)[k] = t[m] /\ t[m] = s[i + m]
      BY <1>3, <1>5, <2>2, <3>1 DEF m
    <3> QED  BY <3>1, <3>2
  <2> QED  BY <2>1, <2>2
<1> QED  BY <1>1, <1>4, <1>5, <1>6 DEF n

\* RemoveFirst takes out an element that is there.
LEMMA PresentRemoved ==
  ASSUME NEW S, NEW s \in Seq(S), NEW x, \E i \in DOMAIN s : s[i] = x
  PROVE  \E i \in DOMAIN s : s[i] = x /\ RemoveFirst(s, x) = RemoveAt(s, i)
<1> DEFINE I == {i \in 1..Len(s) : s[i] = x}
<1>1. Len(s) \in Nat /\ DOMAIN s = 1..Len(s)
  OBVIOUS
<1>2. I \in SUBSET Nat /\ I # {} /\ \E i \in 1..Len(s) : s[i] = x
  BY <1>1
<1>3. RemoveFirst(s, x) = RemoveAt(s, Min(I))
  BY <1>2 DEF RemoveFirst, SelectInSeq
<1>4. Min(I) \in I
  <2> HIDE DEF I
  <2>1. \E y \in I : \A z \in I : y <= z
    BY <1>2, Least
  <2> QED  BY <2>1 DEF Min
<1>5. Min(I) \in DOMAIN s /\ s[Min(I)] = x
  BY <1>1, <1>4
<1> QED  BY <1>3, <1>5

\* It leaves a list alone that does not have the element.
LEMMA AbsentKept ==
  ASSUME NEW S, NEW s \in Seq(S), NEW x, ~\E i \in DOMAIN s : s[i] = x
  PROVE  RemoveFirst(s, x) = s
<1>1. DOMAIN s = 1..Len(s)
  OBVIOUS
<1> QED  BY <1>1 DEF RemoveFirst

\* RemoveFirst takes out one element that is the one to remove, or none.
LEMMA OneRemoved ==
  ASSUME NEW S, NEW s \in Seq(S), NEW x
  PROVE  \/ RemoveFirst(s, x) = s
         \/ \E i \in DOMAIN s : s[i] = x /\ RemoveFirst(s, x) = RemoveAt(s, i)
<1>1. CASE \E i \in DOMAIN s : s[i] = x
  BY <1>1, PresentRemoved
<1>2. CASE ~\E i \in DOMAIN s : s[i] = x
  BY <1>2, AbsentKept
<1> QED  BY <1>1, <1>2

\* q gives every place of s one of r, <<1, i>>, or one of the first n of a,
\* <<2, i>>, that holds the same element, and no two places the same.
Shared(q, s, r, a, n) ==
  /\ \A j \in DOMAIN s : \/ \E i \in DOMAIN r : q[j] = <<1, i>> /\ r[i] = s[j]
                         \/ \E i \in 1..n : q[j] = <<2, i>> /\ a[i] = s[j]
  /\ \A j, k \in DOMAIN s : q[j] = q[k] => j = k

\* What is left of s and the first n elements of a have every element of s.
Accounts(s, r, a, n) == \E q : Shared(q, s, r, a, n)

\* One element more is removed from what is left.
LEMMA SharedMore ==
  ASSUME NEW S, NEW s, NEW r \in Seq(S), NEW a, NEW n \in Nat \ {0},
         Accounts(s, r, a, n - 1)
  PROVE  /\ RemoveFirst(r, a[n]) \in Seq(S)
         /\ Accounts(s, RemoveFirst(r, a[n]), a, n)
<1>1. PICK q : Shared(q, s, r, a, n - 1)
  BY DEF Accounts
<1>2. \A i : i \in 1..(n - 1) => i \in 1..n /\ i # n
  OBVIOUS
<1>3. n \in 1..n
  OBVIOUS
<1>4. CASE RemoveFirst(r, a[n]) = r
  <2>1. Shared(q, s, r, a, n)
    BY <1>1, <1>2 DEF Shared
  <2> QED  BY <1>4, <2>1 DEF Accounts
<1>5. ASSUME NEW d \in DOMAIN r, r[d] = a[n], RemoveFirst(r, a[n]) = RemoveAt(r, d)
      PROVE  /\ RemoveFirst(r, a[n]) \in Seq(S)
             /\ Accounts(s, RemoveFirst(r, a[n]), a, n)
  <2> DEFINE t == RemoveAt(r, d)
             m == Len(r)
             h == [j \in DOMAIN s |->
                    IF q[j][1] = 2 \/ q[j][2] < d THEN q[j]
                    ELSE IF q[j][2] = d THEN <<2, n>> ELSE <<1, q[j][2] - 1>>]
  <2>1. /\ t \in Seq(S) /\ Len(t) = m - 1
        /\ \A k \in 1..(m - 1) : t[k] = IF k < d THEN r[k] ELSE r[k + 1]
    BY WithoutOne
  <2>2. m \in Nat /\ DOMAIN r = 1..m /\ d \in 1..m
    OBVIOUS
  <2> HIDE DEF t, m
  <2>3. DOMAIN t = 1..(m - 1)
    BY <2>1, <2>2
  <2>4. /\ \A j \in DOMAIN s : \/ \E i \in 1..m : q[j] = <<1, i>> /\ r[i] = s[j]
                               \/ \E i \in 1..(n - 1) : q[j] = <<2, i>> /\ a[i] = s[j]
        /\ \A j, k \in DOMAIN s : q[j] = q[k] => j = k
    BY <1>1, <2>2 DEF Shared
  <2>5. \A j \in DOMAIN s :
          /\ q[j][1] = 2 \/ q[j][2] < d => h[j] = q[j]
          /\ q[j][1] # 2 /\ ~(q[j][2] < d) /\ q[j][2] = d => h[j] = <<2, n>>
          /\ q[j][1] # 2 /\ ~(q[j][2] < d) /\ q[j][2] # d => h[j] = <<1, q[j][2] - 1>>
    OBVIOUS
  <2> HIDE DEF h
  <2>6. ASSUME NEW j \in DOMAIN s
        PROVE  \/ \E i \in 1..(m - 1) : h[j] = <<1, i>> /\ t[i] = s[j]
               \/ \E i \in 1..n : h[j] = <<2, i>> /\ a[i] = s[j]
    <3>1. CASE \E i \in 1..(n - 1) : q[j] = <<2, i>> /\ a[i] = s[j]
      BY <1>2, <2>5, <3>1
    <3>2. ASSUME NEW i \in 1..m, q[j] = <<1, i>>, r[i] = s[j]
          PROVE  \/ \E k \in 1..(m - 1) : h[j] = <<1, k>> /\ t[k] = s[j]
                 \/ \E k \in 1..n : h[j] = <<2, k>> /\ a[k] = s[j]
      <4>1. q[j][1] = 1 /\ q[j][2] = i
        BY <3>2
      <4>2. CASE i < d
        <5>1. i \in 1..(m - 1) /\ t[i] = r[i]
          BY <2>1, <2>2, <4>2
        <5>2. h[j] = <<1, i>>
          BY <2>5, <3>2, <4>1, <4>2
        <5> QED  BY <3>2, <5>1, <5>2
      <4>3. CASE i = d
        <5>1. h[j] = <<2, n>>
          BY <2>2, <2>5, <4>1, <4>3
        <5> QED  BY <1>3, <1>5, <3>2, <4>3, <5>1
      <4>4. CASE i > d
        <5>1. i - 1 \in 1..(m - 1) /\ ~(i - 1 < d) /\ (i - 1) + 1 = i
          BY <2>2, <4>4
        <5>2. t[i - 1] = r[i]
          BY <2>1, <5>1
        <5>3. h[j] = <<1, i - 1>>
          BY <2>2, <2>5, <4>1, <4>4
        <5> QED  BY <3>2, <5>1, <5>2, <5>3
      <4> QED  BY <2>2, <4>2, <4>3, <4>4
    <3> QED  BY <2>4, <3>1, <3>2
  <2>7. ASSUME NEW j \in DOMAIN s, NEW k \in DOMAIN s, h[j] = h[k]
        PROVE  j = k
    <3>1. \A x \in DOMAIN s : \/ \E i \in 1..m : q[x] = <<1, i>> /\ q[x][1] = 1 /\ q[x][2] = i
                              \/ \E i \in 1..(n - 1) : q[x] = <<2, i>> /\ q[x][1] = 2 /\ q[x][2] = i
      BY <2>4
    <3>2. \A x \in DOMAIN s :
            \/ \E i \in 1..m : q[x] = <<1, i>> /\ i < d /\ h[x][1] = 1 /\ h[x][2] = i
            \/ q[x] = <<1, d>> /\ h[x][1] = 2 /\ h[x][2] = n
            \/ \E i \in 1..m : q[x] = <<1, i>> /\ i > d /\ h[x][1] = 1 /\ h[x][2] = i - 1
            \/ \E i \in 1..(n - 1) : q[x] = <<2, i>> /\ h[x][1] = 2 /\ h[x][2] = i
      <4> SUFFICES ASSUME NEW x \in DOMAIN s
                   PROVE  \/ \E i \in 1..m : q[x] = <<1, i>> /\ i < d /\ h[x][1] = 1 /\ h[x][2] = i
                          \/ q[x] = <<1, d>> /\ h[x][1] = 2 /\ h[x][2] = n
                          \/ \E i \in 1..m : q[x] = <<1, i>> /\ i > d /\ h[x][1] = 1 /\ h[x][2] = i - 1
                          \/ \E i \in 1..(n - 1) : q[x] = <<2, i>> /\ h[x][1] = 2 /\ h[x][2] = i
        OBVIOUS
      <4>1. CASE \E i \in 1..(n - 1) : q[x] = <<2, i>> /\ q[x][1] = 2 /\ q[x][2] = i
        BY <2>5, <4>1
      <4>2. ASSUME NEW i \in 1..m, q[x] = <<1, i>>, q[x][1] = 1, q[x][2] = i
            PROVE  \/ \E e \in 1..m : q[x] = <<1, e>> /\ e < d /\ h[x][1] = 1 /\ h[x][2] = e
                   \/ q[x] = <<1, d>> /\ h[x][1] = 2 /\ h[x][2] = n
                   \/ \E e \in 1..m : q[x] = <<1, e>> /\ e > d /\ h[x][1] = 1 /\ h[x][2] = e - 1
        <5>1. CASE i < d
          BY <2>5, <4>2, <5>1
        <5>2. CASE i = d
          BY <2>2, <2>5, <4>2, <5>2
        <5>3. CASE i > d
          <6>1. h[x] = <<1, i - 1>>
            BY <2>2, <2>5, <4>2, <5>3
          <6> QED  BY <4>2, <5>3, <6>1
        <5> QED  BY <2>2, <5>1, <5>2, <5>3
      <4> QED  BY <3>1, <4>1, <4>2
    <3> DEFINE Side(x) == h[x][1]
               End(x) == h[x][2]
               Was(x) == q[x]
               Left(i) == <<1, i>>
               Right(i) == <<2, i>>
    <3>3. \A x \in DOMAIN s :
            \/ \E i \in 1..m : Was(x) = Left(i) /\ i < d /\ Side(x) = 1 /\ End(x) = i
            \/ Was(x) = Left(d) /\ Side(x) = 2 /\ End(x) = n
            \/ \E i \in 1..m : Was(x) = Left(i) /\ i > d /\ Side(x) = 1 /\ End(x) = i - 1
            \/ \E i \in 1..(n - 1) : Was(x) = Right(i) /\ Side(x) = 2 /\ End(x) = i
      BY <3>2
    <3>4. Side(k) = Side(j) /\ End(k) = End(j)
      BY <2>7
    <3> HIDE DEF Side, End, Was, Left, Right
    <3>5. ASSUME NEW i \in 1..m, Was(j) = Left(i), i < d, Side(j) = 1, End(j) = i
          PROVE  Was(j) = Was(k)
      <4>1. Side(k) = 1 /\ End(k) = i
        BY <3>4, <3>5, Zenon
      <4>2. Was(k) = Left(i)
        BY <2>2, <3>3, <3>5, <4>1
      <4> QED  BY <3>5, <4>2, Zenon
    <3>6. ASSUME Was(j) = Left(d), Side(j) = 2, End(j) = n
          PROVE  Was(j) = Was(k)
      <4>1. Side(k) = 2 /\ End(k) = n
        BY <3>4, <3>6, Zenon
      <4>2. Was(k) = Left(d)
        BY <1>2, <3>3, <4>1
      <4> QED  BY <3>6, <4>2, Zenon
    <3>7. ASSUME NEW i \in 1..m, Was(j) = Left(i), i > d, Side(j) = 1, End(j) = i - 1
          PROVE  Was(j) = Was(k)
      <4>1. Side(k) = 1 /\ End(k) = i - 1
        BY <3>4, <3>7, Zenon
      <4>2. Was(k) = Left(i)
        BY <2>2, <3>3, <3>7, <4>1
      <4> QED  BY <3>7, <4>2, Zenon
    <3>8. ASSUME NEW i \in 1..(n - 1), Was(j) = Right(i), Side(j) = 2, End(j) = i
          PROVE  Was(j) = Was(k)
      <4>1. Side(k) = 2 /\ End(k) = i
        BY <3>4, <3>8, Zenon
      <4>2. Was(k) = Right(i)
        BY <1>2, <3>3, <3>8, <4>1
      <4> QED  BY <3>8, <4>2, Zenon
    <3>9. Was(j) = Was(k)
      BY <3>3, <3>5, <3>6, <3>7, <3>8
    <3> QED  BY <2>4, <3>9 DEF Was
  <2>8. Shared(h, s, t, a, n)
    BY <2>3, <2>6, <2>7 DEF Shared
  <2> QED  BY <1>5, <2>1, <2>8 DEF Accounts, t
<1> QED  BY <1>4, <1>5, OneRemoved

\* f is the recursion of FoldLeft(RemoveFirst, s, a), on sets of positions.
Removes(f, s, a, n) ==
  f = [T \in SUBSET (1..n) |-> IF T = {} THEN s ELSE RemoveFirst(f[T \ {Max(T)}], a[Max(T)])]

LEMMA Interval ==
  ASSUME NEW n \in Nat, NEW k \in 1..n
  PROVE  k \in Nat /\ (1..k) # {} /\ (1..k) \in SUBSET (1..n) /\ (1..k) \in SUBSET (1..k)
<1>1. k \in Nat /\ 1 <= k
  OBVIOUS
<1>2. 1 \in 1..k /\ \A j \in 1..k : j \in 1..n
  OBVIOUS
<1> QED  BY <1>1, <1>2

\* The recursion has a solution for every number of positions.
LEMMA SomeRemoves ==
  ASSUME NEW s, NEW a, NEW n \in Nat
  PROVE  \E f : Removes(f, s, a, n)
<1> DEFINE B == {k \in Nat : ~\E f : Removes(f, s, a, k)}
<1>1. SUFFICES ASSUME B # {} PROVE FALSE
  OBVIOUS
<1>2. PICK k \in B : \A j \in B : k <= j
  <2>1. B \in SUBSET Nat
    OBVIOUS
  <2> HIDE DEF B
  <2> QED  BY <1>1, <2>1, Least
<1>3. k \in Nat /\ ~\E f : Removes(f, s, a, k)
  OBVIOUS
<1>4. k # 0
  <2>1. Removes([T \in SUBSET (1..0) |-> s], s, a, 0)
    BY DEF Removes
  <2> QED  BY <1>3, <2>1
<1>5. PICK g : Removes(g, s, a, k - 1)
  <2>1. k - 1 \in Nat /\ k - 1 < k
    BY <1>3, <1>4
  <2>2. k - 1 \notin B
    <3> HIDE DEF B
    <3> QED  BY <1>2, <1>3, <2>1
  <2> QED  BY <2>1, <2>2
<1> HIDE DEF B
<1> DEFINE h == [T \in SUBSET (1..k) |-> IF T = {} THEN s ELSE RemoveFirst(g[T \ {Max(T)}], a[Max(T)])]
<1>6. \A T \in SUBSET (1..(k - 1)) : h[T] = g[T]
  <2>1. \A T \in SUBSET (1..(k - 1)) : T \in SUBSET (1..k)
    BY <1>3
  <2>2. g = [T \in SUBSET (1..(k - 1)) |-> IF T = {} THEN s ELSE RemoveFirst(g[T \ {Max(T)}], a[Max(T)])]
    BY <1>5 DEF Removes
  <2> QED  BY <2>1, <2>2
<1>7. ASSUME NEW T \in SUBSET (1..k), T # {}
      PROVE  h[T \ {Max(T)}] = g[T \ {Max(T)}]
  <2>1. Max(T) \in T /\ \A y \in T : Max(T) >= y
    BY <1>3, <1>7, Greatest
  <2>2. \A y \in T \ {Max(T)} : y \in 1..(k - 1)
    <3> DEFINE M == Max(T)
    <3>1. M \in 1..k /\ \A y \in T : y \in 1..k /\ M >= y
      BY <2>1
    <3> HIDE DEF M
    <3>2. \A y \in T : y # M => y \in 1..(k - 1)
      BY <1>3, <3>1
    <3> QED  BY <3>2 DEF M
  <2>3. T \ {Max(T)} \in SUBSET (1..(k - 1))
    BY <2>2
  <2> QED  BY <1>6, <2>3
<1>8. Removes(h, s, a, k)
  BY <1>7 DEF Removes
<1> QED  BY <1>3, <1>8

\* v goes from s to FoldLeft(RemoveFirst, s, a) one element at a time.
Steps(v, s, a, n) == v[0] = s /\ \A k \in 1..n : v[k] = RemoveFirst(v[k - 1], a[k])

\* FoldLeft takes those steps.
LEMMA FoldSteps ==
  ASSUME NEW s, NEW U, NEW a \in Seq(U)
  PROVE  \E v : Steps(v, s, a, Len(a)) /\ v[Len(a)] = FoldLeft(RemoveFirst, s, a)
<1> DEFINE n == Len(a)
           f == CHOOSE g : Removes(g, s, a, n)
           v == [k \in 0..n |-> f[1..k]]
<1>1. n \in Nat /\ DOMAIN a = 1..n
  OBVIOUS
<1>2. FoldLeft(RemoveFirst, s, a) = f[1..n]
  BY <1>1 DEF FoldLeft, MapThenFoldSet, Removes
<1>3. Removes(f, s, a, n)
  BY <1>1, SomeRemoves
<1> HIDE DEF f, n
<1>4. n \in 0..n /\ 0 \in 0..n
  BY <1>1
<1>5. v[0] = s
  <2>1. f[1..0] = s
    BY <1>1, <1>3 DEF Removes
  <2> QED  BY <1>4, <2>1
<1>6. ASSUME NEW k \in 1..n
      PROVE  v[k] = RemoveFirst(v[k - 1], a[k])
  <2>1. Max(1..k) \in 1..k /\ \A y \in 1..k : Max(1..k) >= y
    <3> QED  BY <1>1, Interval, Greatest
  <2>2. Max(1..k) = k /\ (1..k) \ {k} = 1..(k - 1)
    BY <1>1, <2>1
  <2>3. (1..k) \in SUBSET (1..n) /\ (1..k) # {}
    BY <1>1, Interval
  <2>4. f[1..k] = RemoveFirst(f[1..(k - 1)], a[k])
    BY <1>3, <2>2, <2>3 DEF Removes
  <2>5. k \in 0..n /\ k - 1 \in 0..n
    BY <1>1
  <2> QED  BY <2>4, <2>5
<1>7. v[n] = FoldLeft(RemoveFirst, s, a)
  BY <1>2, <1>4
<1> HIDE DEF v
<1> QED  BY <1>5, <1>6, <1>7 DEF n, Steps

\* Removing the elements of a one after the other.
LEMMA FoldRemoves ==
  ASSUME NEW S, NEW s \in Seq(S), NEW U, NEW a \in Seq(U)
  PROVE  LET r == FoldLeft(RemoveFirst, s, a)
         IN  r \in Seq(S) /\ Accounts(s, r, a, Len(a))
<1> DEFINE n == Len(a)
<1>1. n \in Nat
  OBVIOUS
<1>2. PICK v : Steps(v, s, a, n) /\ v[n] = FoldLeft(RemoveFirst, s, a)
  BY FoldSteps
<1> HIDE DEF n
<1> DEFINE Ok(k) == v[k] \in Seq(S) /\ Accounts(s, v[k], a, k)
           B == {k \in 0..n : ~Ok(k)}
<1>3. Ok(0)
  <2>1. Shared([j \in DOMAIN s |-> <<1, j>>], s, s, a, 0)
    BY DEF Shared
  <2> QED  BY <1>2, <2>1 DEF Accounts, Steps
<1>4. ASSUME NEW k \in 1..n, Ok(k - 1)
      PROVE  Ok(k)
  <2>1. v[k] = RemoveFirst(v[k - 1], a[k]) /\ k \in Nat \ {0}
    BY <1>1, <1>2 DEF Steps
  <2>2. v[k - 1] \in Seq(S) /\ Accounts(s, v[k - 1], a, k - 1)
    BY <1>4
  <2>3. RemoveFirst(v[k - 1], a[k]) \in Seq(S) /\ Accounts(s, RemoveFirst(v[k - 1], a[k]), a, k)
    BY <2>1, <2>2, SharedMore
  <2> QED  BY <2>1, <2>3
<1> HIDE DEF Ok
<1>5. B = {}
  <2> SUFFICES ASSUME B # {} PROVE FALSE
    OBVIOUS
  <2>1. PICK k \in B : \A j \in B : k <= j
    <3>1. B \in SUBSET Nat
      BY <1>1
    <3> HIDE DEF B
    <3> QED  BY <3>1, Least
  <2>2. k \in 0..n /\ ~Ok(k)
    OBVIOUS
  <2>3. k \in 1..n /\ k - 1 \in 0..n /\ k - 1 < k
    BY <1>1, <1>3, <2>2
  <2>4. k - 1 \notin B
    <3> HIDE DEF B
    <3> QED  BY <1>1, <2>1, <2>2, <2>3
  <2> QED  BY <1>4, <2>2, <2>3, <2>4
<1>6. Ok(n)
  <2>1. n \in 0..n
    BY <1>1
  <2> QED  BY <1>5, <2>1
<1> QED  BY <1>2, <1>6 DEF Ok, n

-----------------------------------------------------------------------------
(* The lines and the rows                                                  *)

Metric(e, c) == IF c = 1 THEN e.f ELSE e.r

\* The metrics of the dictionary: pair, entry, direction.
MetricPlaces ==
  {x \in (DOMAIN pairs) \X Nat \X {1, 2} :
     x[2] \in DOMAIN pairs[x[1]].entries /\ Metric(pairs[x[1]].entries[x[2]], x[3]) # Missing}

\* The metrics of the rows: row, direction; and the line that one stands for.
Directions == {y \in (DOMAIN rows) \X {1, 2} : Metric(rows[y[1]], y[2]) # Missing}

LineAt(y) ==
  LET r == rows[y[1]] IN
    IF y[2] = 1 THEN Plain(map[r.src + 1], map[r.dst + 1], r.f, r.delay)
                ELSE Plain(map[r.dst + 1], map[r.src + 1], r.r, r.delay)

Texts == [j \in DOMAIN Lines |-> Text(Lines[j])]

\* h gives every line of the file a place of its own, in `left', <<1, i>>, or
\* in a row, <<2, y>>, that has the line's text.
Kept(h) ==
  /\ \A j \in DOMAIN Lines : \/ \E i \in DOMAIN left : h[j] = <<1, i>> /\ left[i] = Text(Lines[j])
                             \/ \E y \in Directions : h[j] = <<2, y>> /\ LineAt(y) = Text(Lines[j])
  /\ \A j, k \in DOMAIN Lines : h[j] = h[k] => j = k

\* o gives every row an entry of its own, with the row's metrics.
Origins(o) ==
  /\ \A i \in DOMAIN rows : \E k \in 1..(next - 1) : \E e \in DOMAIN pairs[k].entries :
       o[i] = <<k, e>> /\ \A c \in {1, 2} : Metric(rows[i], c) = Metric(pairs[k].entries[e], c)
  /\ \A i, j \in DOMAIN rows : o[i] = o[j] => i = j

\* A line read gives the dictionary at most one metric, a row is given by an
\* entry that gives no other, and a line leaves `left' only for a row.
BalanceInv ==
  /\ left \in Seq(ToSet(Texts))
  /\ IsFiniteSet(MetricPlaces) /\ Cardinality(MetricPlaces) <= pos - 1
  /\ \E h : Kept(h)
  /\ \E o : Origins(o)
  /\ file.kind = "topology" /\ status = "accepted" => left = <<>>

LEMMA PlaceOf ==
  \A k \in DOMAIN pairs, i \in Nat, c \in {1, 2} :
    <<k, i, c>> \in MetricPlaces
      <=> i \in DOMAIN pairs[k].entries /\ Metric(pairs[k].entries[i], c) # Missing
BY DEF MetricPlaces

LEMMA NextPlaceOf ==
  ASSUME NEW x \in MetricPlaces'
  PROVE  \E k \in DOMAIN pairs', i \in Nat, c \in {1, 2} :
           /\ x = <<k, i, c>>
           /\ i \in DOMAIN pairs'[k].entries /\ Metric(pairs'[k].entries[i], c) # Missing
<1>1. /\ x \in (DOMAIN pairs') \X Nat \X {1, 2}
      /\ x[2] \in DOMAIN pairs'[x[1]].entries /\ Metric(pairs'[x[1]].entries[x[2]], x[3]) # Missing
  BY DEF MetricPlaces, Metric
<1>2. PICK k \in DOMAIN pairs', i \in Nat, c \in {1, 2} : x = <<k, i, c>>
  BY <1>1
<1>3. x[1] = k /\ x[2] = i /\ x[3] = c
  BY <1>2
<1> QED  BY <1>1, <1>2, <1>3

LEMMA InitBalance == Init /\ ParserInv => BalanceInv
<1> SUFFICES ASSUME Init, ParserInv PROVE BalanceInv
  OBVIOUS
<1>1. Len(Lines) \in Nat /\ DOMAIN Lines = 1..Len(Lines)
  BY Indices DEF ParserInv, InputOK
<1>2. left = Texts /\ left \in Seq(ToSet(Texts))
  <2>1. left = Texts
    BY DEF Init, Texts
  <2>2. DOMAIN Texts = 1..Len(Lines) /\ \A j \in 1..Len(Lines) : Texts[j] \in ToSet(Texts)
    BY <1>1 DEF Texts, ToSet
  <2>3. Texts = [j \in 1..Len(Lines) |-> Texts[j]]
    BY <1>1 DEF Texts
  <2> HIDE DEF Texts
  <2>4. Texts \in Seq(ToSet(Texts))
    BY <1>1, <2>2, <2>3
  <2> QED  BY <2>1, <2>4
<1>3. MetricPlaces = {}
  BY DEF Init, MetricPlaces
<1>4. IsFiniteSet(MetricPlaces) /\ Cardinality(MetricPlaces) <= pos - 1
  BY <1>3, FS_EmptySet DEF Init
<1>5. Kept([j \in DOMAIN Lines |-> <<1, j>>])
  BY <1>2 DEF Kept, Texts
<1>6. Origins(<<>>)
  BY DEF Init, Origins
<1> QED  BY <1>2, <1>4, <1>5, <1>6 DEF BalanceInv, Init

-----------------------------------------------------------------------------
(* One metric for each line                                                *)

\* The list of entries t has no metric that s has not, but for one.
OneMetric(t, s, n, d) ==
  \A i \in DOMAIN t, c \in {1, 2} : Metric(t[i], c) # Missing =>
    \/ i \in DOMAIN s /\ Metric(s[i], c) # Missing
    \/ i = n /\ c = d

\* The list of entries of a pair gets one metric more.
LEMMA EntriesChanged ==
  ASSUME PairsOK, NEW k \in DOMAIN pairs, NEW t, NEW n \in Nat, t \in Seq(Entry),
         NEW d \in {1, 2},
         OneMetric(t, pairs[k].entries, n, d),
         pairs' = [pairs EXCEPT ![k].entries = t]
  PROVE  MetricPlaces' \subseteq MetricPlaces \cup {<<k, n, d>>}
<1>1. /\ DOMAIN pairs' = DOMAIN pairs
      /\ pairs'[k].entries = t
      /\ \A i \in DOMAIN pairs : i # k => pairs'[i] = pairs[i]
  <2>1. pairs \in Seq(Pair) /\ pairs[k] \in Pair
    BY DEF PairsOK
  <2>2. DOMAIN pairs[k] = {"src", "dst", "entries"}
    BY <2>1 DEF Pair
  <2>3. pairs'[k] = [pairs[k] EXCEPT !.entries = t]
    OBVIOUS
  <2> QED  BY <2>2, <2>3
<1>2. DOMAIN t = 1..Len(t) /\ Len(t) \in Nat
  OBVIOUS
<1>3. ASSUME NEW x \in MetricPlaces' PROVE x \in MetricPlaces \cup {<<k, n, d>>}
  <2>1. PICK a \in DOMAIN pairs', i \in Nat, c \in {1, 2} :
          /\ x = <<a, i, c>>
          /\ i \in DOMAIN pairs'[a].entries /\ Metric(pairs'[a].entries[i], c) # Missing
    BY NextPlaceOf
  <2>2. CASE a # k
    <3>1. a \in DOMAIN pairs /\ pairs'[a] = pairs[a]
      BY <1>1, <2>2
    <3> QED  BY <2>1, <3>1, PlaceOf
  <2>3. CASE a = k
    <3>1. i \in DOMAIN t /\ Metric(t[i], c) # Missing
      BY <1>1, <2>1, <2>3
    <3>2. CASE i = n /\ c = d
      BY <2>1, <2>3, <3>2
    <3>3. CASE i \in DOMAIN pairs[k].entries /\ Metric(pairs[k].entries[i], c) # Missing
      BY <2>1, <2>3, <3>3, PlaceOf
    <3> QED  BY <3>1, <3>2, <3>3 DEF OneMetric
  <2> QED  BY <2>2, <2>3
<1> QED  BY <1>3

LEMMA OneMetricMore ==
  ASSUME ParserInv, ReadLine
  PROVE  \E x : MetricPlaces' \subseteq MetricPlaces \cup {x}
<1> DEFINE l == Lines[pos]
<1>1. /\ \/ NewPair(l)
         \/ \E k \in DOMAIN pairs : SetReverse(l, k) \/ NewReverse(l, k)
                                     \/ SetForward(l, k) \/ NewForward(l, k)
  BY DEF ReadLine
<1>2. IsLine(l) /\ l.metric \in Missable /\ l.delay \in Nat /\ l.begin \in Missable /\ l.end \in Missable
  BY ReadingLine DEF ReadLine, IsLine, Missable
<1> HIDE DEF l
<1>3. PairsOK
  BY DEF ParserInv
<1>4. CASE NewPair(l)
  <2> DEFINE n == Len(pairs)
             e == EntryOf(l, l.metric, Missing)
             p == [src |-> l.src, dst |-> l.dst, entries |-> <<e>>]
  <2>1. pairs' = Append(pairs, p) /\ pairs \in Seq(Pair) /\ n \in Nat /\ DOMAIN pairs = 1..n
    BY <1>3, <1>4 DEF NewPair, PairsOK
  <2>2. p.entries = <<e>> /\ e.r = Missing
    BY DEF EntryOf
  <2> HIDE DEF e, p
  <2>3. /\ DOMAIN pairs' = 1..(n + 1)
        /\ \A i \in 1..n : pairs'[i] = pairs[i]
        /\ pairs'[n + 1] = p
    <3>1. pairs \in Seq(Pair \cup {p})
      BY <2>1, SeqMonotonic
    <3> QED  BY <2>1, <3>1, AppendProperties
  <2> HIDE DEF n
  <2>4. ASSUME NEW x \in MetricPlaces' PROVE x \in MetricPlaces \cup {<<n + 1, 1, 1>>}
    <3>1. PICK a \in DOMAIN pairs', i \in Nat, c \in {1, 2} :
            /\ x = <<a, i, c>>
            /\ i \in DOMAIN pairs'[a].entries /\ Metric(pairs'[a].entries[i], c) # Missing
      BY NextPlaceOf
    <3>2. CASE a \in 1..n
      <4>1. a \in DOMAIN pairs /\ pairs'[a] = pairs[a]
        BY <2>1, <2>3, <3>2
      <4> QED  BY <3>1, <4>1, PlaceOf
    <3>3. CASE a = n + 1
      <4>1. i \in DOMAIN <<e>> /\ Metric(<<e>>[i], c) # Missing
        BY <2>2, <2>3, <3>1, <3>3
      <4>2. i = 1
        BY <4>1
      <4>3. c = 1
        BY <2>2, <3>1, <4>1, <4>2 DEF Metric
      <4> QED  BY <3>1, <3>3, <4>2, <4>3
    <3> QED  BY <2>1, <2>3, <3>1, <3>2, <3>3
  <2> QED  BY <2>4
<1>5. ASSUME NEW k \in DOMAIN pairs,
             SetReverse(l, k) \/ NewReverse(l, k) \/ SetForward(l, k) \/ NewForward(l, k)
      PROVE  \E x : MetricPlaces' \subseteq MetricPlaces \cup {x}
  <2> DEFINE s == pairs[k].entries
             n == Len(s)
  <2>1. s \in Seq(Entry) /\ s # <<>>
    BY <1>3 DEF PairsOK, GoodEntries
  <2>2. n \in Nat /\ DOMAIN s = 1..n /\ n # 0 /\ n + 1 \in Nat
    BY <2>1, EmptySeq
  <2> HIDE DEF s
  <2>3. LastEntry(k) = s[n] /\ s[n] \in Entry /\ LastEntry(k) \in Entry
    <3>1. n \in 1..n
      BY <2>2
    <3>2. s[n] \in Entry
      BY <2>1, <3>1
    <3> QED  BY <3>2 DEF LastEntry, Last, s
  <2>4. ASSUME NEW e \in Entry, NEW d \in {1, 2},
               \A c \in {1, 2} : c # d => Metric(e, c) = Metric(s[n], c),
               pairs' = [pairs EXCEPT ![k].entries = Append(Front(s), e)]
        PROVE  \E x : MetricPlaces' \subseteq MetricPlaces \cup {x}
    <3> DEFINE t == Append(Front(s), e)
    <3>1. /\ t \in Seq(Entry) /\ DOMAIN t = 1..n
          /\ \A i \in 1..n : t[i] = IF i = n THEN e ELSE s[i]
      BY <2>1, LastSet
    <3> HIDE DEF t
    <3>2. \A i \in DOMAIN t, c \in {1, 2} : Metric(t[i], c) # Missing =>
            (i \in DOMAIN s /\ Metric(s[i], c) # Missing) \/ (i = n /\ c = d)
      BY <2>2, <2>4, <3>1
    <3>3. pairs' = [pairs EXCEPT ![k].entries = t]
      BY <2>4 DEF t
    <3>4. OneMetric(t, pairs[k].entries, n, d)
      BY <3>2 DEF s, OneMetric
    <3> HIDE DEF n
    <3>5. MetricPlaces' \subseteq MetricPlaces \cup {<<k, n, d>>}
      BY <1>3, <2>2, <2>4, <3>1, <3>3, <3>4, EntriesChanged
    <3> QED  BY <3>5
  <2>5. ASSUME NEW e \in Entry, NEW d \in {1, 2},
               \A c \in {1, 2} : c # d => Metric(e, c) = Missing,
               pairs' = [pairs EXCEPT ![k].entries = Append(s, e)]
        PROVE  \E x : MetricPlaces' \subseteq MetricPlaces \cup {x}
    <3> DEFINE t == Append(s, e)
    <3>1. /\ t \in Seq(Entry) /\ DOMAIN t = 1..(n + 1)
          /\ \A i \in 1..n : t[i] = s[i]
          /\ t[n + 1] = e
      BY <2>1, AppendProperties
    <3> HIDE DEF t
    <3>2. \A i \in 1..(n + 1) : i \in 1..n \/ i = n + 1
      BY <2>2
    <3>3. \A i \in DOMAIN t, c \in {1, 2} : Metric(t[i], c) # Missing =>
            (i \in DOMAIN s /\ Metric(s[i], c) # Missing) \/ (i = n + 1 /\ c = d)
      BY <2>2, <2>5, <3>1, <3>2
    <3>4. pairs' = [pairs EXCEPT ![k].entries = t]
      BY <2>5 DEF t
    <3> DEFINE m == n + 1
    <3>5. m \in Nat
      BY <2>2
    <3>6. OneMetric(t, pairs[k].entries, m, d)
      BY <3>3 DEF s, OneMetric
    <3> HIDE DEF n, m
    <3>7. MetricPlaces' \subseteq MetricPlaces \cup {<<k, m, d>>}
      BY <1>3, <2>5, <3>1, <3>4, <3>5, <3>6, EntriesChanged
    <3> QED  BY <3>7
  <2>6. CASE SetReverse(l, k)
    <3> DEFINE e == [LastEntry(k) EXCEPT !.r = l.metric]
    <3>1. e \in Entry /\ Metric(e, 1) = Metric(s[n], 1)
      BY <1>2, <2>3 DEF Entry, Metric
    <3>2. pairs' = [pairs EXCEPT ![k].entries = Append(Front(s), e)]
      BY <2>6 DEF SetReverse, SetLast, s
    <3> HIDE DEF e
    <3> QED  BY <2>4, <3>1, <3>2
  <2>7. CASE SetForward(l, k)
    <3> DEFINE e == [LastEntry(k) EXCEPT !.f = l.metric]
    <3>1. e \in Entry /\ Metric(e, 2) = Metric(s[n], 2)
      BY <1>2, <2>3 DEF Entry, Metric
    <3>2. pairs' = [pairs EXCEPT ![k].entries = Append(Front(s), e)]
      BY <2>7 DEF SetForward, SetLast, s
    <3> HIDE DEF e
    <3> QED  BY <2>4, <3>1, <3>2
  <2>8. CASE NewReverse(l, k)
    <3> DEFINE e == EntryOf(l, Missing, l.metric)
    <3>1. e \in Entry /\ Metric(e, 1) = Missing
      BY <1>2 DEF Entry, Metric, EntryOf, Missable
    <3>2. pairs' = [pairs EXCEPT ![k].entries = Append(s, e)]
      BY <2>8 DEF NewReverse, AppendEntry, s
    <3> HIDE DEF e
    <3> QED  BY <2>5, <3>1, <3>2
  <2>9. CASE NewForward(l, k)
    <3> DEFINE e == EntryOf(l, l.metric, Missing)
    <3>1. e \in Entry /\ Metric(e, 2) = Missing
      BY <1>2 DEF Entry, Metric, EntryOf, Missable
    <3>2. pairs' = [pairs EXCEPT ![k].entries = Append(s, e)]
      BY <2>9 DEF NewForward, AppendEntry, s
    <3> HIDE DEF e
    <3> QED  BY <2>5, <3>1, <3>2
  <2> QED  BY <1>5, <2>6, <2>7, <2>8, <2>9
<1> QED  BY <1>1, <1>4, <1>5

LEMMA ReadLineBalance ==
  ASSUME ParserInv, BalanceInv, ReadLine
  PROVE  BalanceInv'
<1>1. /\ file' = file /\ map' = map /\ rows' = rows /\ left' = left /\ next' = next /\ status' = status
      /\ Lines' = Lines /\ Texts' = Texts /\ pos' = pos + 1 /\ rows = <<>> /\ status = "reading"
  BY DEF ReadLine, ReadOn, Reading, Lines, Texts, ParserInv, CursorsOK
<1>2. PICK h : Kept(h)
  BY DEF BalanceInv
<1>3. Kept(h)'
  <2>1. Directions' = Directions /\ \A y : LineAt(y)' = LineAt(y)
    BY <1>1 DEF Directions, LineAt, Metric
  <2> QED  BY <1>1, <1>2, <2>1 DEF Kept
<1>4. Origins(<<>>)'
  BY <1>1 DEF Origins
<1>5. IsFiniteSet(MetricPlaces') /\ Cardinality(MetricPlaces') <= pos' - 1
  <2>1. PICK x : MetricPlaces' \subseteq MetricPlaces \cup {x}
    BY OneMetricMore
  <2>2. /\ IsFiniteSet(MetricPlaces \cup {x}) /\ Cardinality(MetricPlaces \cup {x}) \in Nat
        /\ Cardinality(MetricPlaces) \in Nat
        /\ Cardinality(MetricPlaces \cup {x}) <= Cardinality(MetricPlaces) + 1
    <3>1. IsFiniteSet(MetricPlaces)
      BY DEF BalanceInv
    <3>2. Cardinality(MetricPlaces) \in Nat
      BY <3>1, FS_CardinalityType
    <3>3. /\ IsFiniteSet(MetricPlaces \cup {x})
          /\ Cardinality(MetricPlaces \cup {x}) =
               IF x \in MetricPlaces THEN Cardinality(MetricPlaces) ELSE Cardinality(MetricPlaces) + 1
      BY <3>1, FS_AddElement
    <3> QED  BY <3>2, <3>3
  <2>3. IsFiniteSet(MetricPlaces') /\ Cardinality(MetricPlaces') <= Cardinality(MetricPlaces \cup {x})
    BY <2>1, <2>2, FS_Subset
  <2>4. Cardinality(MetricPlaces') \in Nat
    BY <2>3, FS_CardinalityType
  <2>5. Cardinality(MetricPlaces) <= pos - 1 /\ pos \in Nat
    BY DEF BalanceInv, ParserInv, CursorsOK
  <2> QED  BY <1>1, <2>2, <2>3, <2>4, <2>5
<1>6. left' \in Seq(ToSet(Texts'))
  BY <1>1 DEF BalanceInv
<1> QED  BY <1>1, <1>3, <1>4, <1>5, <1>6 DEF BalanceInv

-----------------------------------------------------------------------------
(* A line that is removed is one that a row stands for                     *)

\* h followed by q, where q stays among the <<1, i>>, and by q and z, where it
\* goes to an <<2, a>>.
Through(h, q, z, D) ==
  [j \in D |-> IF h[j][1] = 2 THEN h[j]
               ELSE IF q[h[j][2]][1] = 1 THEN q[h[j][2]] ELSE <<2, z[q[h[j][2]][2]]>>]

OneToOne(h, D) == \A j, k \in D : h[j] = h[k] => j = k

\* h takes D to places <<1, i>> of L and <<2, y>> of Y, no two to the same.
Splits(h, D, L, Y) ==
  /\ \A j \in D : (\E i \in L : h[j] = <<1, i>>) \/ (\E y \in Y : h[j] = <<2, y>>)
  /\ OneToOne(h, D)

\* Where w takes the elements of D, by the way that they went.
Routed(w, h, q, z, D, L, Y, R, B) ==
  \A j \in D :
    \/ \E y \in Y : h[j] = <<2, y>> /\ w[j] = <<2, y>>
    \/ \E i \in L, x \in R : h[j] = <<1, i>> /\ q[i] = <<1, x>> /\ w[j] = <<1, x>>
    \/ \E i \in L, a \in B : h[j] = <<1, i>> /\ q[i] = <<2, a>> /\ w[j] = <<2, z[a]>>

LEMMA ThroughOne ==
  ASSUME NEW D, NEW L, NEW Y, NEW R, NEW B, NEW h, NEW q, NEW z,
         Splits(h, D, L, Y), Splits(q, L, R, B), OneToOne(z, B),
         \A a \in B : z[a] \notin Y
  PROVE  /\ Routed(Through(h, q, z, D), h, q, z, D, L, Y, R, B)
         /\ OneToOne(Through(h, q, z, D), D)
<1> DEFINE w == Through(h, q, z, D)
<1>1. \A j \in D : w[j] = IF h[j][1] = 2 THEN h[j]
                          ELSE IF q[h[j][2]][1] = 1 THEN q[h[j][2]] ELSE <<2, z[q[h[j][2]][2]]>>
  BY DEF Through
<1> HIDE DEF w
<1>4. /\ \A j \in D : (\E i \in L : h[j] = <<1, i>>) \/ (\E y \in Y : h[j] = <<2, y>>)
      /\ \A i \in L : (\E x \in R : q[i] = <<1, x>>) \/ (\E a \in B : q[i] = <<2, a>>)
  BY DEF Splits
<1>5. /\ \A j, k \in D : h[j] = h[k] => j = k
      /\ \A i, j \in L : q[i] = q[j] => i = j
      /\ \A a, b \in B : z[a] = z[b] => a = b
  BY DEF Splits, OneToOne
<1>2. ASSUME NEW j \in D
      PROVE  \/ \E y \in Y : h[j] = <<2, y>> /\ w[j] = <<2, y>>
             \/ \E i \in L, x \in R : h[j] = <<1, i>> /\ q[i] = <<1, x>> /\ w[j] = <<1, x>>
             \/ \E i \in L, a \in B : h[j] = <<1, i>> /\ q[i] = <<2, a>> /\ w[j] = <<2, z[a]>>
  <2>1. ASSUME NEW y \in Y, h[j] = <<2, y>> PROVE w[j] = <<2, y>>
    <3>1. h[j][1] = 2
      BY <2>1
    <3> QED  BY <1>1, <2>1, <3>1
  <2>2. ASSUME NEW i \in L, h[j] = <<1, i>>
        PROVE  \/ \E x \in R : q[i] = <<1, x>> /\ w[j] = <<1, x>>
               \/ \E a \in B : q[i] = <<2, a>> /\ w[j] = <<2, z[a]>>
    <3>1. h[j][1] = 1 /\ h[j][2] = i
      BY <2>2
    <3>2. w[j] = IF q[i][1] = 1 THEN q[i] ELSE <<2, z[q[i][2]]>>
      BY <1>1, <3>1
    <3>3. ASSUME NEW x \in R, q[i] = <<1, x>> PROVE w[j] = <<1, x>>
      BY <3>2, <3>3
    <3>4. ASSUME NEW a \in B, q[i] = <<2, a>> PROVE w[j] = <<2, z[a]>>
      BY <3>2, <3>4
    <3> QED  BY <1>4, <3>3, <3>4
  <2> QED  BY <1>4, <2>1, <2>2
<1> DEFINE H(d) == h[d]
           Q(i) == q[i]
           Z(a) == z[a]
           Left(i) == <<1, i>>
           Right(y) == <<2, y>>
           Side(d) == w[d][1]
           End(d) == w[d][2]
<1>8. \A d \in D :
        \/ \E y \in Y : H(d) = Right(y) /\ Side(d) = 2 /\ End(d) = y
        \/ \E i \in L, x \in R : H(d) = Left(i) /\ Q(i) = Left(x) /\ Side(d) = 1 /\ End(d) = x
        \/ \E i \in L, a \in B : H(d) = Left(i) /\ Q(i) = Right(a) /\ Side(d) = 2 /\ End(d) = Z(a)
  BY <1>2
<1>9. /\ \A i, j \in L : Q(i) = Q(j) => i = j
      /\ \A a, b \in B : Z(a) = Z(b) => a = b
      /\ \A a \in B : Z(a) \notin Y
  BY <1>5
<1>3. ASSUME NEW j \in D, NEW k \in D, w[j] = w[k] PROVE j = k
  <2>1. Side(j) = Side(k) /\ End(j) = End(k)
    BY <1>3
  <2>2. H(j) = H(k)
    <3> HIDE DEF H, Q, Z, Left, Right, Side, End
    <3>1. ASSUME NEW y \in Y, H(j) = Right(y), Side(j) = 2, End(j) = y
          PROVE  H(j) = H(k)
      <4>1. Side(k) = 2 /\ End(k) = y
        BY <2>1, <3>1, Zenon
      <4>2. H(k) = Right(y)
        BY <1>8, <1>9, <4>1
      <4> QED  BY <3>1, <4>2, Zenon
    <3>2. ASSUME NEW i \in L, NEW x \in R, H(j) = Left(i), Q(i) = Left(x), Side(j) = 1, End(j) = x
          PROVE  H(j) = H(k)
      <4>1. Side(k) = 1 /\ End(k) = x
        BY <2>1, <3>2, Zenon
      <4>2. PICK e \in L : H(k) = Left(e) /\ Q(e) = Left(x)
        BY <1>8, <4>1
      <4> QED  BY <1>9, <3>2, <4>2, Zenon
    <3>3. ASSUME NEW i \in L, NEW a \in B, H(j) = Left(i), Q(i) = Right(a), Side(j) = 2, End(j) = Z(a)
          PROVE  H(j) = H(k)
      <4>1. Side(k) = 2 /\ End(k) = Z(a)
        BY <2>1, <3>3, Zenon
      <4>2. Z(a) \notin Y
        BY <1>9
      <4>3. PICK e \in L, b \in B : H(k) = Left(e) /\ Q(e) = Right(b) /\ End(k) = Z(b)
        BY <1>8, <4>1, <4>2
      <4>4. a = b
        BY <1>9, <4>1, <4>3, Zenon
      <4> QED  BY <1>9, <3>3, <4>3, <4>4, Zenon
    <3> QED  BY <1>8, <3>1, <3>2, <3>3
  <2> QED  BY <1>5, <2>2
<1>6. Routed(w, h, q, z, D, L, Y, R, B)
  BY <1>2 DEF Routed
<1>7. OneToOne(w, D)
  BY <1>3 DEF OneToOne
<1> QED  BY <1>6, <1>7 DEF w

\* A text of a line that is one of the two lines of an entry is that of a
\* metric that the entry has.
LEMMA TextMetric ==
  ASSUME NEW l, IsLine(l), NEW p, NEW e, NEW c \in {1, 2}, Accounted(p, e)[c] = Text(l)
  PROVE  Metric(e, c) # Missing
<1>1. Text(l) = Plain(l.src, l.dst, l.metric, l.delay)
  <2>1. Accounted(p, e)[c] = IF c = 1 THEN Plain(p.src, p.dst, e.f, e.delay)
                             ELSE Plain(p.dst, p.src, e.r, e.delay)
    BY DEF Accounted
  <2>2. Len(Accounted(p, e)[c]) = 4
    BY <2>1 DEF Plain
  <2>3. Len(<<l.src, l.dst, l.metric, l.delay, l.begin, l.end>>) = 6
    OBVIOUS
  <2> QED  BY <2>2, <2>3 DEF Text
<1>2. l.metric \in Nat
  BY DEF IsLine
<1>3. CASE c = 1
  BY <1>1, <1>2, <1>3 DEF Accounted, Plain, Metric, Missing
<1>4. CASE c = 2
  BY <1>1, <1>2, <1>4 DEF Accounted, Plain, Metric, Missing
<1> QED  BY <1>3, <1>4

\* The lines that the links of a pair account for, one list for each link.
AccountedBy(p) == [i \in DOMAIN p.entries |-> Accounted(p, p.entries[i])]

\* The lines that a pair accounts for, as a list of lists.
LEMMA AccountedLists ==
  ASSUME NEW p, NEW s, s = p.entries, s \in Seq(Entry)
  PROVE  /\ \E U : AccountedBy(p) \in Seq(Seq(U))
         /\ Len(s) \in Nat /\ DOMAIN s = 1..Len(s) /\ Len(AccountedBy(p)) = Len(s)
         /\ \A i \in 1..Len(s) : AccountedBy(p)[i] = Accounted(p, s[i]) /\ DOMAIN Accounted(p, s[i]) = {1, 2}
<1> DEFINE n == Len(s)
           ss == AccountedBy(p)
           U == UNION {{Plain(p.src, p.dst, s[i].f, s[i].delay), Plain(p.dst, p.src, s[i].r, s[i].delay)} : i \in 1..n}
<1>1. n \in Nat /\ DOMAIN s = 1..n
  OBVIOUS
<1>2. ss = [i \in 1..n |-> Accounted(p, s[i])]
  BY <1>1 DEF AccountedBy
<1>3. \A i \in 1..n : ss[i] = Accounted(p, s[i])
  BY <1>2
<1>4. \A i \in 1..n : Accounted(p, s[i]) \in Seq(U) /\ DOMAIN Accounted(p, s[i]) = {1, 2}
  <2> SUFFICES ASSUME NEW i \in 1..n
               PROVE  Accounted(p, s[i]) \in Seq(U) /\ DOMAIN Accounted(p, s[i]) = {1, 2}
    OBVIOUS
  <2> DEFINE x == Plain(p.src, p.dst, s[i].f, s[i].delay)
             y == Plain(p.dst, p.src, s[i].r, s[i].delay)
  <2>1. x \in U /\ y \in U
    OBVIOUS
  <2>2. Accounted(p, s[i]) = <<x, y>>
    BY DEF Accounted
  <2> HIDE DEF x, y, U
  <2>3. <<x, y>> \in Seq(U) /\ DOMAIN <<x, y>> = {1, 2}
    <3>1. <<x, y>> \in Seq(U) /\ Len(<<x, y>>) = 2 /\ DOMAIN <<x, y>> = 1..2
      BY <2>1
    <3> QED  BY <3>1
  <2> QED  BY <2>2, <2>3
<1> HIDE DEF U
<1>5. ss \in Seq(Seq(U)) /\ Len(ss) = n
  BY <1>1, <1>2, <1>4
<1> QED  BY <1>1, <1>3, <1>4, <1>5

\* The place of each of those lines in the rows, when m are printed before.
Printed(g, m, n) == [a \in 1..n |-> <<m + g[a][1], g[a][2]>>]

Accounting(g, a, p, s, m) ==
  /\ \A i \in 1..Len(a) : \E k \in 1..Len(s), c \in {1, 2} :
       g[i] = <<m + k, c>> /\ a[i] = Accounted(p, s[k])[c]
  /\ OneToOne(g, 1..Len(a))

LEMMA AccountedPlaces ==
  ASSUME NEW p, NEW s, s = p.entries, s \in Seq(Entry), NEW m \in Nat
  PROVE  LET a == FlattenSeq(AccountedBy(p)) IN
           (\E U : a \in Seq(U)) /\ (\E g : Accounting(g, a, p, s, m))
<1> DEFINE n == Len(s)
           ss == AccountedBy(p)
           a == FlattenSeq(ss)
<1>1. n \in Nat /\ DOMAIN s = 1..n
  OBVIOUS
<1>2. /\ \E U : ss \in Seq(Seq(U))
      /\ \A i \in 1..n : ss[i] = Accounted(p, s[i]) /\ DOMAIN Accounted(p, s[i]) = {1, 2}
      /\ Len(ss) = n
  BY AccountedLists
<1>3. \A i \in 1..n : ss[i] = Accounted(p, s[i]) /\ DOMAIN Accounted(p, s[i]) = {1, 2}
  BY <1>2
<1>4. PICK U : ss \in Seq(Seq(U))
  BY <1>2
<1>5. ss \in Seq(Seq(U)) /\ Len(ss) = n
  BY <1>2, <1>4
<1> HIDE DEF ss
<1>6. a \in Seq(U) /\ \E g : Placing(g, ss, n, a)
  BY <1>5, FlattenPlaces
<1>7. PICK g : Placing(g, ss, n, a)
  BY <1>6
<1> HIDE DEF a
<1>8. DOMAIN a = 1..Len(a) /\ Len(a) \in Nat
  BY <1>6
<1> DEFINE z == Printed(g, m, Len(a))
<1>9. \A i \in 1..Len(a) : \E k \in 1..n, c \in {1, 2} : g[i] = <<k, c>> /\ a[i] = Accounted(p, s[k])[c]
  <2> SUFFICES ASSUME NEW i \in 1..Len(a)
               PROVE  \E k \in 1..n, c \in {1, 2} : g[i] = <<k, c>> /\ a[i] = Accounted(p, s[k])[c]
    OBVIOUS
  <2>1. g[i] \in Places(ss, n) /\ Element(ss, g[i]) = a[i]
    BY <1>7, <1>8 DEF Placing
  <2>2. PICK k \in 1..n, c \in Nat : g[i] = <<k, c>>
    BY <2>1 DEF Places
  <2>3. c \in DOMAIN ss[k] /\ ss[k][c] = a[i]
    BY <2>1, <2>2 DEF Places, Element
  <2> QED  BY <1>3, <1>4, <2>2, <2>3
<1>10. \A i, j \in 1..Len(a) : g[i] = g[j] => i = j
  BY <1>7, <1>8 DEF Placing
<1>11. ASSUME NEW i \in 1..Len(a)
       PROVE  \E k \in 1..n, c \in {1, 2} : /\ g[i] = <<k, c>> /\ z[i] = <<m + k, c>>
                                            /\ a[i] = Accounted(p, s[k])[c]
  <2>1. PICK k \in 1..n, c \in {1, 2} : g[i] = <<k, c>> /\ a[i] = Accounted(p, s[k])[c]
    BY <1>9
  <2>2. z[i] = <<m + k, c>>
    BY <2>1 DEF Printed
  <2> QED  BY <2>1, <2>2
<1> HIDE DEF z
<1>12. ASSUME NEW i \in 1..Len(a), NEW j \in 1..Len(a), z[i] = z[j] PROVE i = j
  <2>1. PICK k \in 1..n, c \in {1, 2} : g[i] = <<k, c>> /\ z[i] = <<m + k, c>>
    BY <1>11
  <2>2. PICK k2 \in 1..n, c2 \in {1, 2} : g[j] = <<k2, c2>> /\ z[j] = <<m + k2, c2>>
    BY <1>11
  <2>3. m + k = m + k2 /\ c = c2
    <3>1. <<m + k, c>> = <<m + k2, c2>>
      BY <1>12, <2>1, <2>2
    <3> DEFINE x == m + k
               y == m + k2
    <3> HIDE DEF x, y
    <3>2. <<x, c>> = <<y, c2>>
      BY <3>1 DEF x, y
    <3>3. x = y /\ c = c2
      BY <3>2
    <3> QED  BY <3>3 DEF x, y
  <2>4. g[i] = g[j]
    BY <1>1, <2>1, <2>2, <2>3
  <2> QED  BY <1>10, <2>4
<1>13. \A i \in 1..Len(a) : \E k \in 1..n, c \in {1, 2} : z[i] = <<m + k, c>> /\ a[i] = Accounted(p, s[k])[c]
  BY <1>11
<1>14. Accounting(z, a, p, s, m)
  BY <1>12, <1>13 DEF Accounting, OneToOne
<1> QED  BY <1>6, <1>14 DEF a, ss

\* The rows of a pair have the metrics, and stand for the lines, of its
\* entries.
LEMMA RowLines ==
  ASSUME ParserInv, PrintPair, NEW m, m = Len(rows),
         NEW i \in 1..Len(pairs[next].entries)
  PROVE  LET e == pairs[next].entries[i] IN
           \A c \in {1, 2} : /\ Metric(rows'[m + i], c) = Metric(e, c)
                             /\ LineAt(<<m + i, c>>)' = Accounted(pairs[next], e)[c]
<1> DEFINE p == pairs[next]
           e == p.entries[i]
           r == RowOf(p, e)
<1>1. /\ p \in Pair /\ IsSequence(map) /\ {p.src, p.dst} \subseteq ToSet(map)
      /\ rows'[m + i] = r /\ GoodEntry(p.src, p.dst, e)
  BY RowsAdded DEF ParserInv, PairsOK, InputOK
<1>2. map[r.src + 1] = p.src /\ map[r.dst + 1] = p.dst
  BY <1>1, RowGood
<1>3. r.f = e.f /\ r.r = e.r /\ r.delay = e.delay
  BY DEF RowOf
<1>4. map' = map
  BY DEF PrintPair
<1> HIDE DEF p, e, r
<1>5. ASSUME NEW c \in {1, 2}
      PROVE  Metric(rows'[m + i], c) = Metric(e, c) /\ LineAt(<<m + i, c>>)' = Accounted(p, e)[c]
  <2>1. LineAt(<<m + i, c>>)' =
          IF c = 1 THEN Plain(map[r.src + 1], map[r.dst + 1], r.f, r.delay)
          ELSE Plain(map[r.dst + 1], map[r.src + 1], r.r, r.delay)
    <3> PICK y : y = <<m + i, c>>
      OBVIOUS
    <3>1. y = <<m + i, c>> /\ y[1] = m + i /\ y[2] = c
      OBVIOUS
    <3>2. rows'[y[1]] = r
      BY <1>1, <3>1
    <3>3. LineAt(y)' = IF y[2] = 1 THEN Plain(map[r.src + 1], map[r.dst + 1], r.f, r.delay)
                       ELSE Plain(map[r.dst + 1], map[r.src + 1], r.r, r.delay)
      BY <1>4, <3>2 DEF LineAt
    <3> QED  BY <3>1, <3>3
  <2>2. Accounted(p, e)[c] = IF c = 1 THEN Plain(p.src, p.dst, e.f, e.delay)
                             ELSE Plain(p.dst, p.src, e.r, e.delay)
    BY DEF Accounted
  <2> QED  BY <1>1, <1>2, <1>3, <2>1, <2>2 DEF Metric
<1> QED  BY <1>5 DEF p, e

\* A pair is printed: the lines that it takes out of `left' are in its rows.
LEMMA PrintKeeps ==
  ASSUME ParserInv, BalanceInv, PrintPair
  PROVE  left' \in Seq(ToSet(Texts)) /\ \E h : Kept(h)'
<1> PICK m : m = Len(rows)
  OBVIOUS
<1> DEFINE p == pairs[next]
           s == p.entries
           n == Len(s)
           a == FlattenSeq(AccountedBy(p))
<1>1. /\ Lines' = Lines /\ left' = FoldLeft(RemoveFirst, left, a) /\ map' = map
  BY DEF PrintPair, Lines, AccountedBy
<1>2. /\ next \in DOMAIN pairs /\ m \in Nat /\ n \in Nat /\ Len(rows') = m + n
      /\ DOMAIN rows = 1..m /\ DOMAIN rows' = 1..(m + n)
      /\ \A i \in 1..m : rows'[i] = rows[i]
  <2>1. /\ next \in DOMAIN pairs /\ m \in Nat /\ n \in Nat /\ rows' \in Seq(Row)
        /\ Len(rows') = m + n /\ \A i \in 1..m : rows'[i] = rows[i]
    BY RowsAdded
  <2>2. DOMAIN rows = 1..m
    BY DEF ParserInv, RowsOK
  <2>3. DOMAIN rows' = 1..Len(rows')
    BY <2>1
  <2> QED  BY <2>1, <2>2, <2>3
<1>3. s \in Seq(Entry)
  BY <1>2 DEF ParserInv, PairsOK, GoodEntries
<1>4. \A i \in 1..n, c \in {1, 2} :
        /\ Metric(rows'[m + i], c) = Metric(s[i], c)
        /\ LineAt(<<m + i, c>>)' = Accounted(p, s[i])[c]
  BY RowLines
<1>5. s = p.entries
  OBVIOUS
<1> HIDE DEF p, s
<1>6. (\E U : a \in Seq(U)) /\ (\E g : Accounting(g, a, p, s, m))
  BY <1>2, <1>3, <1>5, AccountedPlaces
<1>7. PICK z : /\ \A i \in 1..Len(a) : \E k \in 1..n, c \in {1, 2} :
                    z[i] = <<m + k, c>> /\ a[i] = Accounted(p, s[k])[c]
               /\ OneToOne(z, 1..Len(a))
  BY <1>6 DEF Accounting
<1> HIDE DEF a
<1>8. left' \in Seq(ToSet(Texts)) /\ Accounts(left, left', a, Len(a))
  BY <1>1, <1>6, FoldRemoves DEF BalanceInv
<1>9. PICK q : Shared(q, left, left', a, Len(a))
  BY <1>8 DEF Accounts
<1>10. PICK h : Kept(h)
  BY DEF BalanceInv
<1> HIDE DEF n
<1>11. \A i \in 1..m : i \in 1..(m + n) /\ \A k \in 1..n : i # m + k
  BY <1>2
<1>12. \A k \in 1..n : m + k \in 1..(m + n)
  BY <1>2
<1>13. \A i \in 1..Len(a) : z[i] \notin Directions
  <2> SUFFICES ASSUME NEW i \in 1..Len(a), z[i] \in Directions PROVE FALSE
    OBVIOUS
  <2>1. PICK k \in 1..n, c \in {1, 2} : z[i] = <<m + k, c>>
    BY <1>7
  <2>2. z[i][1] \in 1..m
    BY <1>2 DEF Directions
  <2> QED  BY <1>11, <2>1, <2>2
<1>14. \A y \in Directions : y \in Directions' /\ LineAt(y)' = LineAt(y)
  <2> SUFFICES ASSUME NEW y \in Directions PROVE y \in Directions' /\ LineAt(y)' = LineAt(y)
    OBVIOUS
  <2>1. y \in (1..m) \X {1, 2} /\ Metric(rows[y[1]], y[2]) # Missing
    BY <1>2 DEF Directions
  <2>2. y \in (1..(m + n)) \X {1, 2} /\ rows'[y[1]] = rows[y[1]]
    BY <1>2, <1>11, <2>1
  <2>3. LineAt(y)' = LineAt(y)
    BY <1>1, <2>2 DEF LineAt
  <2> QED  BY <1>2, <2>1, <2>2, <2>3 DEF Directions, Metric
<1>15. ASSUME NEW i \in 1..Len(a), NEW l, IsLine(l), a[i] = Text(l)
       PROVE  z[i] \in Directions' /\ LineAt(z[i])' = Text(l)
  <2>1. PICK k \in 1..n, c \in {1, 2} : z[i] = <<m + k, c>> /\ a[i] = Accounted(p, s[k])[c]
    BY <1>7
  <2>2. Metric(s[k], c) # Missing
    BY <1>15, <2>1, TextMetric
  <2>3. Metric(rows'[m + k], c) # Missing /\ LineAt(<<m + k, c>>)' = Text(l)
    BY <1>4, <1>15, <2>1, <2>2
  <2>4. z[i] \in Directions'
    <3>1. <<m + k, c>> \in (DOMAIN rows') \X {1, 2}
      BY <1>2, <1>12
    <3>2. <<m + k, c>>[1] = m + k /\ <<m + k, c>>[2] = c
      OBVIOUS
    <3> QED  BY <2>1, <2>3, <3>1, <3>2 DEF Directions, Metric
  <2> QED  BY <2>1, <2>3, <2>4
<1> DEFINE D == DOMAIN Lines
           B == 1..Len(a)
           L == DOMAIN left
           R == DOMAIN left'
<1> PICK w : w = Through(h, q, z, D)
  OBVIOUS
<1>16. Splits(h, D, L, Directions)
  BY <1>10 DEF Kept, Splits, OneToOne
<1>17. Splits(q, L, R, B)
  BY <1>9 DEF Shared, Splits, OneToOne
<1>18. OneToOne(z, B) /\ \A i \in B : z[i] \notin Directions
  BY <1>7, <1>13
<1> HIDE DEF D, B, L, R
<1>19. Routed(w, h, q, z, D, L, Directions, R, B) /\ OneToOne(w, D)
  BY <1>16, <1>17, <1>18, ThroughOne
<1>20. ASSUME NEW j \in D
       PROVE  \/ \E i \in DOMAIN left' : w[j] = <<1, i>> /\ left'[i] = Text(Lines[j])
              \/ \E y \in Directions' : w[j] = <<2, y>> /\ LineAt(y)' = Text(Lines[j])
  <2>1. ASSUME NEW y \in Directions, h[j] = <<2, y>>, w[j] = <<2, y>>
        PROVE  y \in Directions' /\ LineAt(y)' = Text(Lines[j])
    <3>1. LineAt(y) = Text(Lines[j])
      BY <1>10, <2>1 DEF Kept, D
    <3> QED  BY <1>14, <3>1
  <2>2. ASSUME NEW i \in DOMAIN left, h[j] = <<1, i>>
        PROVE  left[i] = Text(Lines[j])
    BY <1>10, <2>2 DEF Kept, D
  <2>3. ASSUME NEW i \in DOMAIN left, NEW x \in DOMAIN left', q[i] = <<1, x>>
        PROVE  left'[x] = left[i]
    BY <1>9, <2>3 DEF Shared
  <2>4. ASSUME NEW i \in DOMAIN left, NEW x \in B, q[i] = <<2, x>>
        PROVE  a[x] = left[i]
    BY <1>9, <2>4 DEF Shared, B
  <2>5. ASSUME NEW i \in DOMAIN left, NEW x \in B, h[j] = <<1, i>>, q[i] = <<2, x>>
        PROVE  z[x] \in Directions' /\ LineAt(z[x])' = Text(Lines[j])
    <3>1. a[x] = Text(Lines[j])
      BY <2>2, <2>4, <2>5
    <3>2. IsLine(Lines[j])
      BY DEF D, ParserInv, InputOK
    <3> QED  BY <1>15, <3>1, <3>2 DEF B
  <2>6. CASE \E y \in Directions : h[j] = <<2, y>> /\ w[j] = <<2, y>>
    BY <2>1, <2>6
  <2>7. CASE \E i \in L, x \in R : h[j] = <<1, i>> /\ q[i] = <<1, x>> /\ w[j] = <<1, x>>
    <3>1. PICK i \in DOMAIN left, x \in DOMAIN left' :
                 h[j] = <<1, i>> /\ q[i] = <<1, x>> /\ w[j] = <<1, x>>
      BY <2>7 DEF L, R
    <3>2. left'[x] = Text(Lines[j])
      BY <2>2, <2>3, <3>1
    <3> QED  BY <3>1, <3>2
  <2>8. CASE \E i \in L, x \in B : h[j] = <<1, i>> /\ q[i] = <<2, x>> /\ w[j] = <<2, z[x]>>
    <3>1. PICK i \in DOMAIN left, x \in B :
                 h[j] = <<1, i>> /\ q[i] = <<2, x>> /\ w[j] = <<2, z[x]>>
      BY <2>8 DEF L
    <3> QED  BY <2>5, <3>1
  <2> QED  BY <1>19, <2>6, <2>7, <2>8 DEF Routed
<1>21. Kept(w)'
  <2>1. DOMAIN Lines' = D
    BY <1>1 DEF D
  <2>2. \A j \in DOMAIN Lines' :
          \/ \E i \in DOMAIN left' : w[j] = <<1, i>> /\ left'[i] = Text(Lines'[j])
          \/ \E y \in Directions' : w[j] = <<2, y>> /\ LineAt(y)' = Text(Lines'[j])
    BY <1>1, <1>20, <2>1
  <2>3. \A j, k \in DOMAIN Lines' : w[j] = w[k] => j = k
    BY <1>19, <2>1 DEF OneToOne
  <2> QED  BY <2>2, <2>3 DEF Kept
<1> QED  BY <1>8, <1>21

\* The rows of a pair come from its entries, one from each.
LEMMA PrintOrigins ==
  ASSUME ParserInv, BalanceInv, PrintPair
  PROVE  \E o : Origins(o)'
<1> DEFINE p == pairs[next]
           s == p.entries
           m == Len(rows)
           n == Len(s)
<1>1. /\ pairs' = pairs /\ next' = next + 1 /\ next \in Nat \ {0} /\ next' - 1 = next
  BY DEF PrintPair, ParserInv, CursorsOK, PairsOK
<1>2. /\ m \in Nat /\ n \in Nat
      /\ DOMAIN rows = 1..m /\ DOMAIN rows' = 1..(m + n)
      /\ \A i \in 1..m : rows'[i] = rows[i]
  <2>1. /\ m \in Nat /\ n \in Nat /\ rows' \in Seq(Row)
        /\ Len(rows') = m + n /\ \A i \in 1..m : rows'[i] = rows[i]
    BY RowsAdded
  <2>2. DOMAIN rows = 1..m
    BY DEF ParserInv, RowsOK
  <2>3. DOMAIN rows' = 1..Len(rows')
    BY <2>1
  <2> QED  BY <2>1, <2>2, <2>3
<1>3. DOMAIN s = 1..n
  <2>1. s \in Seq(Entry)
    BY RowsAdded DEF ParserInv, PairsOK, GoodEntries
  <2> QED  BY <2>1
<1>4. \A i \in 1..n, c \in {1, 2} : Metric(rows'[m + i], c) = Metric(s[i], c)
  BY RowLines
<1>5. PICK o : Origins(o)
  BY DEF BalanceInv
<1>6. /\ \A i \in 1..m : \E k \in 1..(next - 1) : \E e \in DOMAIN pairs[k].entries :
           o[i] = <<k, e>> /\ \A c \in {1, 2} : Metric(rows[i], c) = Metric(pairs[k].entries[e], c)
      /\ \A i, j \in 1..m : o[i] = o[j] => i = j
  BY <1>2, <1>5 DEF Origins
<1>7. s = pairs[next].entries
  OBVIOUS
<1> HIDE DEF p, s, m, n
<1> PICK w : w = [i \in 1..(m + n) |-> IF i <= m THEN o[i] ELSE <<next, i - m>>]
  OBVIOUS
<1>8. \A i \in 1..(m + n) : i \in 1..m \/ (i - m \in 1..n /\ i = m + (i - m) /\ ~(i <= m))
  BY <1>2
<1>9. /\ \A i \in 1..m : w[i] = o[i]
      /\ \A i \in 1..(m + n) : ~(i <= m) => w[i] = <<next, i - m>>
  BY <1>2
<1>10. \A k \in 1..(next - 1) : k \in 1..next /\ k # next
  BY <1>1
<1>11. ASSUME NEW i \in 1..(m + n)
       PROVE  \E k \in 1..next : \E e \in DOMAIN pairs[k].entries :
                w[i] = <<k, e>> /\ \A c \in {1, 2} : Metric(rows'[i], c) = Metric(pairs[k].entries[e], c)
  <2>1. CASE i \in 1..m
    BY <1>2, <1>6, <1>9, <1>10, <2>1
  <2>2. CASE i - m \in 1..n /\ i = m + (i - m) /\ ~(i <= m)
    <3> DEFINE e == i - m
    <3>1. e \in DOMAIN pairs[next].entries /\ w[i] = <<next, e>> /\ next \in 1..next
      <4>1. e \in DOMAIN pairs[next].entries
        BY <1>3, <1>7, <2>2
      <4>2. w[i] = <<next, e>>
        BY <1>9, <2>2
      <4> QED  BY <1>1, <4>1, <4>2
    <3>2. \A c \in {1, 2} : Metric(rows'[i], c) = Metric(pairs[next].entries[e], c)
      <4>1. \A c \in {1, 2} : Metric(rows'[m + e], c) = Metric(s[e], c)
        BY <1>4, <2>2
      <4> QED  BY <1>7, <2>2, <4>1
    <3> QED  BY <3>1, <3>2
  <2> QED  BY <1>8, <2>1, <2>2
<1>12. ASSUME NEW i \in 1..(m + n), NEW j \in 1..(m + n), w[i] = w[j]
       PROVE  i = j
  <2>1. \A x \in 1..(m + n) : \/ x \in 1..m /\ w[x] = o[x] /\ w[x][1] # next
                              \/ x = m + w[x][2] /\ w[x][1] = next
    <3> SUFFICES ASSUME NEW x \in 1..(m + n)
                 PROVE  \/ x \in 1..m /\ w[x] = o[x] /\ w[x][1] # next
                        \/ x = m + w[x][2] /\ w[x][1] = next
      OBVIOUS
    <3>1. CASE x \in 1..m
      <4>1. PICK k \in 1..(next - 1) : \E e \in DOMAIN pairs[k].entries : o[x] = <<k, e>>
        BY <1>6, <3>1
      <4>2. o[x][1] = k
        BY <4>1
      <4> QED  BY <1>9, <1>10, <3>1, <4>2
    <3>2. CASE x - m \in 1..n /\ x = m + (x - m) /\ ~(x <= m)
      <4>1. w[x] = <<next, x - m>>
        BY <1>9, <3>2
      <4> QED  BY <3>2, <4>1
    <3> QED  BY <1>8, <3>1, <3>2
  <2> QED  BY <1>6, <1>12, <2>1
<1>13. Origins(w)'
  <2>1. \A i \in DOMAIN rows' : \E k \in 1..(next' - 1) : \E e \in DOMAIN pairs'[k].entries :
          w[i] = <<k, e>> /\ \A c \in {1, 2} : Metric(rows'[i], c) = Metric(pairs'[k].entries[e], c)
    <3> SUFFICES ASSUME NEW i \in 1..(m + n)
                 PROVE  \E k \in 1..(next' - 1) : \E e \in DOMAIN pairs'[k].entries :
                          w[i] = <<k, e>> /\ \A c \in {1, 2} : Metric(rows'[i], c) = Metric(pairs'[k].entries[e], c)
      BY <1>2
    <3>1. next' - 1 = next
      BY <1>1
    <3>2. pairs' = pairs
      BY <1>1
    <3> QED  BY <1>11, <3>1, <3>2
  <2>2. \A i, j \in DOMAIN rows' : w[i] = w[j] => i = j
    BY <1>2, <1>12
  <2> QED  BY <2>1, <2>2 DEF Origins
<1> QED  BY <1>13

LEMMA NextBalance == ParserInv /\ BalanceInv /\ [Next]_vars => BalanceInv'
<1> SUFFICES ASSUME ParserInv, BalanceInv, [Next]_vars PROVE BalanceInv'
  OBVIOUS
<1>1. CASE ReadLine
  BY <1>1, ReadLineBalance
<1>2. CASE PrintPair
  <2>1. /\ pairs' = pairs /\ pos' = pos /\ Lines' = Lines /\ status' # "accepted"
    BY <1>2 DEF PrintPair, Lines
  <2>2. MetricPlaces' = MetricPlaces /\ Texts' = Texts
    BY <2>1 DEF MetricPlaces, Metric, Texts
  <2>3. left' \in Seq(ToSet(Texts)) /\ (\E h : Kept(h)') /\ (\E o : Origins(o)')
    BY <1>2, PrintKeeps, PrintOrigins
  <2> QED  BY <2>1, <2>2, <2>3 DEF BalanceInv
<1>3. CASE EndReading
  <2>1. /\ pairs' = pairs /\ pos' = pos /\ file' = file /\ left' = left /\ Lines' = Lines
        /\ rows' = rows /\ rows = <<>> /\ status' # "accepted"
    BY <1>3 DEF EndReading, Lines, ParserInv, CursorsOK
  <2>2. MetricPlaces' = MetricPlaces /\ Texts' = Texts /\ Directions = {} /\ Directions' = {}
    BY <2>1 DEF MetricPlaces, Metric, Texts, Directions
  <2>3. \A h : Kept(h) => Kept(h)'
    BY <2>1, <2>2 DEF Kept
  <2>4. Origins(<<>>)'
    BY <2>1 DEF Origins
  <2> QED  BY <2>1, <2>2, <2>3, <2>4 DEF BalanceInv
<1>4. CASE /\ UNCHANGED <<file, map, pos, nodes, pairs, next, rows, left>>
           /\ file.kind = "topology" /\ status' = "accepted" => left = <<>>
  <2>1. /\ MetricPlaces' = MetricPlaces /\ Texts' = Texts /\ Lines' = Lines
        /\ Directions' = Directions /\ \A y : LineAt(y)' = LineAt(y)
    BY <1>4 DEF MetricPlaces, Metric, Texts, Lines, Directions, LineAt
  <2>2. \A h : Kept(h) => Kept(h)'
    BY <1>4, <2>1 DEF Kept
  <2>3. \A o : Origins(o) => Origins(o)'
    BY <1>4 DEF Origins, Metric
  <2> QED  BY <1>4, <2>1, <2>2, <2>3 DEF BalanceInv
<1>5. CASE Finish
  BY <1>4, <1>5 DEF Finish
<1>6. CASE Unexpected \/ UnknownName
  BY <1>4, <1>6 DEF Unexpected, UnknownName
<1>7. CASE Terminated \/ UNCHANGED vars
  BY <1>4, <1>7 DEF Terminated, vars, BalanceInv
<1> QED  BY <1>1, <1>2, <1>3, <1>5, <1>6, <1>7 DEF Next

LEMMA BalanceInductive == Spec => [](ParserInv /\ BalanceInv)
BY InitBalance, NextBalance, InitParserInv, NextParserInv, PTL DEF Spec

-----------------------------------------------------------------------------
(* What the rows express                                                   *)

\* The two lines of a row, if it has both metrics.
ForwardLine(r) == Plain(map[r.src + 1], map[r.dst + 1], r.f, r.delay)
ReverseLine(r) == Plain(map[r.dst + 1], map[r.src + 1], r.r, r.delay)

ExpressedRows == [i \in DOMAIN rows |-> Expressed(rows[i])]

\* The place, in the lines that the rows express, of a metric of the rows.
PlaceIn(y) == <<y[1], IF y[2] = 2 /\ rows[y[1]].f # Missing THEN 2 ELSE 1>>

LEMMA ExpressedIs ==
  ASSUME NEW r
  PROVE  /\ r.f = Missing /\ r.r = Missing => Expressed(r) = <<>>
         /\ r.f # Missing /\ r.r = Missing => Expressed(r) = <<ForwardLine(r)>>
         /\ r.f = Missing /\ r.r # Missing => Expressed(r) = <<ReverseLine(r)>>
         /\ r.f # Missing /\ r.r # Missing => Expressed(r) = <<ForwardLine(r), ReverseLine(r)>>
<1> DEFINE x == ForwardLine(r)
           y == ReverseLine(r)
<1>1. Expressed(r) = (IF r.f = Missing THEN <<>> ELSE <<x>>) \o (IF r.r = Missing THEN <<>> ELSE <<y>>)
  BY DEF Expressed, ForwardLine, ReverseLine
<1> HIDE DEF x, y
<1>2. /\ <<>> \o <<>> = <<>> /\ <<x>> \o <<>> = <<x>> /\ <<>> \o <<y>> = <<y>>
      /\ <<x>> \o <<y>> = <<x, y>>
  <2>1. <<x>> \in Seq({x, y}) /\ <<y>> \in Seq({x, y}) /\ <<>> \in Seq({x, y})
    OBVIOUS
  <2>2. <<x>> \o <<>> = <<x>> /\ <<>> \o <<y>> = <<y>> /\ <<>> \o <<>> = <<>>
    BY <2>1, ConcatEmptySeq
  <2>3. <<x>> \o <<y>> = <<x, y>>
    <3> DEFINE u == <<x>> \o <<y>>
               w == <<x, y>>
    <3>1. /\ u \in Seq({x, y}) /\ Len(u) = 2
          /\ \A i \in 1..2 : u[i] = IF i <= 1 THEN <<x>>[i] ELSE <<y>>[i - 1]
      BY <2>1, ConcatProperties
    <3>2. u[1] = x /\ u[2] = y
      BY <3>1
    <3>3. w \in Seq({x, y}) /\ Len(w) = 2 /\ w[1] = x /\ w[2] = y
      OBVIOUS
    <3> HIDE DEF u, w
    <3>4. \A i \in 1..Len(u) : i = 1 \/ i = 2
      BY <3>1
    <3>5. \A i \in 1..Len(u) : u[i] = w[i]
      BY <3>2, <3>3, <3>4
    <3>6. u = w
      BY <3>1, <3>3, <3>5, SeqEqual
    <3> QED  BY <3>6 DEF u, w
  <2> QED  BY <2>2, <2>3
<1>3. CASE r.f = Missing
  BY <1>1, <1>2, <1>3 DEF x, y
<1>4. CASE r.f # Missing
  BY <1>1, <1>2, <1>4 DEF x, y
<1> QED  BY <1>3, <1>4

\* The lines that the rows express are those of the metrics they have.
LEMMA ExpressedPlaces ==
  ASSUME ParserInv
  PROVE  /\ \E U : ExpressedRows \in Seq(Seq(U))
         /\ \A y \in Directions : /\ PlaceIn(y) \in Places(ExpressedRows, Len(ExpressedRows))
                                  /\ Element(ExpressedRows, PlaceIn(y)) = LineAt(y)
         /\ \A x, y \in Directions : PlaceIn(x) = PlaceIn(y) => x = y
         /\ \A q \in Places(ExpressedRows, Len(ExpressedRows)) : \E y \in Directions : PlaceIn(y) = q
<1> DEFINE m == Len(rows)
           ss == ExpressedRows
           U == UNION {{ForwardLine(rows[i]), ReverseLine(rows[i])} : i \in 1..m}
<1>1. m \in Nat /\ DOMAIN rows = 1..m
  BY DEF ParserInv, RowsOK
<1>2. ss = [i \in 1..m |-> Expressed(rows[i])]
  BY <1>1 DEF ExpressedRows
<1>3. \A i \in 1..m : ss[i] = Expressed(rows[i])
  BY <1>2
<1>4. ASSUME NEW i \in 1..m PROVE Expressed(rows[i]) \in Seq(U)
  <2> DEFINE x == ForwardLine(rows[i])
             y == ReverseLine(rows[i])
  <2>1. x \in U /\ y \in U
    OBVIOUS
  <2>2. Expressed(rows[i]) \in {<<>>, <<x>>, <<y>>, <<x, y>>}
    BY ExpressedIs
  <2> HIDE DEF x, y, U
  <2>3. <<>> \in Seq(U) /\ <<x>> \in Seq(U) /\ <<y>> \in Seq(U) /\ <<x, y>> \in Seq(U)
    BY <2>1
  <2> QED  BY <2>2, <2>3
<1> HIDE DEF U
<1>5. ss \in Seq(Seq(U)) /\ Len(ss) = m
  BY <1>1, <1>2, <1>4
<1> HIDE DEF ss
<1>6. \A i \in 1..m, c \in {1, 2} :
        /\ <<i, c>> \in Directions <=> Metric(rows[i], c) # Missing
        /\ PlaceIn(<<i, c>>) = <<i, IF c = 2 /\ rows[i].f # Missing THEN 2 ELSE 1>>
        /\ LineAt(<<i, c>>) = IF c = 1 THEN ForwardLine(rows[i]) ELSE ReverseLine(rows[i])
  BY <1>1 DEF Directions, PlaceIn, LineAt, ForwardLine, ReverseLine
<1>7. \A y \in Directions : \E i \in 1..m, c \in {1, 2} : y = <<i, c>> /\ Metric(rows[i], c) # Missing
  <2> SUFFICES ASSUME NEW y \in Directions
               PROVE  \E i \in 1..m, c \in {1, 2} : y = <<i, c>> /\ Metric(rows[i], c) # Missing
    OBVIOUS
  <2>1. PICK i \in 1..m, c \in {1, 2} : y = <<i, c>>
    BY <1>1 DEF Directions
  <2> QED  BY <1>6, <2>1
<1>8. \A i \in 1..m, c \in Nat :
        /\ <<i, c>> \in Places(ss, m) <=> c \in DOMAIN Expressed(rows[i])
        /\ Element(ss, <<i, c>>) = Expressed(rows[i])[c]
  BY <1>3 DEF Places, Element
<1>9. ASSUME NEW i \in 1..m, NEW c \in {1, 2}, Metric(rows[i], c) # Missing
      PROVE  /\ PlaceIn(<<i, c>>) \in Places(ss, m)
             /\ Element(ss, PlaceIn(<<i, c>>)) = LineAt(<<i, c>>)
  <2> DEFINE x == ForwardLine(rows[i])
             y == ReverseLine(rows[i])
             s == Expressed(rows[i])
             d == IF c = 2 /\ rows[i].f # Missing THEN 2 ELSE 1
  <2>1. s = IF rows[i].f # Missing THEN (IF rows[i].r # Missing THEN <<x, y>> ELSE <<x>>)
            ELSE IF rows[i].r # Missing THEN <<y>> ELSE <<>>
    BY ExpressedIs
  <2>2. c = 1 => rows[i].f # Missing
    BY <1>9 DEF Metric
  <2>3. c = 2 => rows[i].r # Missing
    BY <1>9 DEF Metric
  <2> HIDE DEF x, y, s
  <2>4. DOMAIN <<x, y>> = {1, 2} /\ DOMAIN <<x>> = {1} /\ DOMAIN <<y>> = {1}
    OBVIOUS
  <2>5. d \in DOMAIN s /\ s[d] = IF c = 1 THEN x ELSE y
    BY <2>1, <2>2, <2>3, <2>4
  <2>6. d \in Nat
    OBVIOUS
  <2> HIDE DEF d
  <2>7. PlaceIn(<<i, c>>) = <<i, d>>
    BY <1>6 DEF d
  <2>8. <<i, d>> \in Places(ss, m) /\ Element(ss, <<i, d>>) = s[d]
    BY <1>8, <2>5, <2>6 DEF s
  <2>9. LineAt(<<i, c>>) = IF c = 1 THEN x ELSE y
    BY <1>6 DEF x, y
  <2> QED  BY <2>5, <2>7, <2>8, <2>9
<1>10. \A y \in Directions : PlaceIn(y) \in Places(ss, m) /\ Element(ss, PlaceIn(y)) = LineAt(y)
  BY <1>7, <1>9
<1>11. ASSUME NEW x \in Directions, NEW y \in Directions, PlaceIn(x) = PlaceIn(y)
       PROVE  x = y
  <2>1. PICK i \in 1..m, c \in {1, 2} : x = <<i, c>> /\ Metric(rows[i], c) # Missing
    BY <1>7
  <2>2. PICK j \in 1..m, d \in {1, 2} : y = <<j, d>> /\ Metric(rows[j], d) # Missing
    BY <1>7
  <2> DEFINE a == IF c = 2 /\ rows[i].f # Missing THEN 2 ELSE 1
             b == IF d = 2 /\ rows[j].f # Missing THEN 2 ELSE 1
  <2>3. PlaceIn(x) = <<i, a>> /\ PlaceIn(y) = <<j, b>>
    BY <1>6, <2>1, <2>2
  <2> HIDE DEF a, b
  <2>4. <<i, a>> = <<j, b>>
    BY <1>11, <2>3
  <2>5. i = j /\ a = b
    BY <2>4
  <2>6. c = d
    BY <2>1, <2>2, <2>5 DEF Metric, a, b
  <2> QED  BY <2>1, <2>2, <2>5, <2>6
<1>12. ASSUME NEW q \in Places(ss, m)
       PROVE  \E y \in Directions : PlaceIn(y) = q
  <2>1. PICK i \in 1..m, c \in Nat : q = <<i, c>>
    BY DEF Places
  <2> DEFINE x == ForwardLine(rows[i])
             y == ReverseLine(rows[i])
             s == Expressed(rows[i])
  <2>2. c \in DOMAIN s
    BY <1>8, <2>1
  <2>3. s = IF rows[i].f # Missing THEN (IF rows[i].r # Missing THEN <<x, y>> ELSE <<x>>)
            ELSE IF rows[i].r # Missing THEN <<y>> ELSE <<>>
    BY ExpressedIs
  <2> HIDE DEF x, y, s
  <2>4. DOMAIN <<x, y>> = {1, 2} /\ DOMAIN <<x>> = {1} /\ DOMAIN <<y>> = {1} /\ DOMAIN <<>> = {}
    OBVIOUS
  <2>5. CASE rows[i].f # Missing
    <3>1. c = 1 \/ (c = 2 /\ rows[i].r # Missing)
      BY <2>2, <2>3, <2>4, <2>5
    <3>2. c \in {1, 2} /\ Metric(rows[i], c) # Missing
      BY <2>5, <3>1 DEF Metric
    <3>3. <<i, c>> \in Directions /\ PlaceIn(<<i, c>>) = q
      BY <1>6, <2>1, <2>5, <3>2
    <3> QED  BY <3>3
  <2>6. CASE rows[i].f = Missing
    <3>1. c = 1 /\ rows[i].r # Missing
      BY <2>2, <2>3, <2>4, <2>6
    <3>2. Metric(rows[i], 2) # Missing
      BY <3>1 DEF Metric
    <3>3. <<i, 2>> \in Directions /\ PlaceIn(<<i, 2>>) = q
      BY <1>6, <2>1, <2>6, <3>1, <3>2
    <3> QED  BY <3>3
  <2> QED  BY <2>5, <2>6
<1> QED  BY <1>5, <1>10, <1>11, <1>12 DEF ss

\* A row has no more metrics than the lines that were read gave.
LEMMA FewDirections ==
  ASSUME ParserInv, BalanceInv
  PROVE  IsFiniteSet(Directions) /\ Cardinality(Directions) <= Len(Lines)
<1>1. PICK o : Origins(o)
  BY DEF BalanceInv
<1>2. \A y \in Directions : y[1] \in DOMAIN rows /\ y[2] \in {1, 2} /\ y = <<y[1], y[2]>> /\ Metric(rows[y[1]], y[2]) # Missing
  BY DEF Directions
<1> DEFINE f == [y \in Directions |-> <<o[y[1]][1], o[y[1]][2], y[2]>>]
<1>3. ASSUME NEW y \in Directions PROVE f[y] \in MetricPlaces
  <2>1. PICK k \in 1..(next - 1) : \E e \in DOMAIN pairs[k].entries :
          /\ o[y[1]] = <<k, e>>
          /\ \A c \in {1, 2} : Metric(rows[y[1]], c) = Metric(pairs[k].entries[e], c)
    BY <1>1, <1>2 DEF Origins
  <2>2. PICK e \in DOMAIN pairs[k].entries :
          /\ o[y[1]] = <<k, e>>
          /\ \A c \in {1, 2} : Metric(rows[y[1]], c) = Metric(pairs[k].entries[e], c)
    BY <2>1
  <2>3. k \in DOMAIN pairs
    BY DEF ParserInv, CursorsOK, PairsOK
  <2>4. e \in Nat
    <3>1. pairs[k].entries \in Seq(Entry)
      BY <2>3 DEF ParserInv, PairsOK, GoodEntries
    <3> QED  BY <3>1
  <2>5. f[y] = <<k, e, y[2]>>
    BY <2>2
  <2>6. Metric(pairs[k].entries[e], y[2]) # Missing
    BY <1>2, <2>2
  <2> HIDE DEF f
  <2> QED  BY <1>2, <2>2, <2>3, <2>4, <2>5, <2>6, PlaceOf
<1>4. ASSUME NEW x \in Directions, NEW y \in Directions, f[x] = f[y] PROVE x = y
  <2>1. /\ o[x[1]][1] = o[y[1]][1] /\ o[x[1]][2] = o[y[1]][2] /\ x[2] = y[2]
    <3> DEFINE a == o[x[1]][1]
               b == o[x[1]][2]
               c == o[y[1]][1]
               d == o[y[1]][2]
    <3>1. f[x] = <<a, b, x[2]>> /\ f[y] = <<c, d, y[2]>>
      OBVIOUS
    <3> HIDE DEF a, b, c, d, f
    <3>2. <<a, b, x[2]>> = <<c, d, y[2]>>
      BY <1>4, <3>1
    <3>3. a = c /\ b = d /\ x[2] = y[2]
      BY <3>2
    <3> QED  BY <3>3 DEF a, b, c, d
  <2>2. \A i \in DOMAIN rows : o[i] = <<o[i][1], o[i][2]>>
    BY <1>1 DEF Origins
  <2>3. o[x[1]] = o[y[1]]
    BY <1>2, <2>1, <2>2
  <2>4. x[1] = y[1]
    BY <1>1, <1>2, <2>3 DEF Origins
  <2> QED  BY <1>2, <2>1, <2>4
<1>5. f \in Injection(Directions, MetricPlaces)
  BY <1>3, <1>4 DEF Injection, IsInjective
<1>6. /\ IsFiniteSet(Directions) /\ Cardinality(Directions) <= Cardinality(MetricPlaces)
  BY <1>5, FS_Injection DEF BalanceInv
<1>7. Cardinality(Directions) \in Nat /\ Cardinality(MetricPlaces) \in Nat
  BY <1>6, FS_CardinalityType DEF BalanceInv
<1>8. Cardinality(MetricPlaces) <= pos - 1 /\ pos - 1 <= Len(Lines) /\ pos \in Nat /\ Len(Lines) \in Nat
  <2>1. Len(Lines) \in Nat
    BY Indices DEF ParserInv, InputOK
  <2> QED  BY <2>1 DEF BalanceInv, ParserInv, CursorsOK
<1> QED  BY <1>6, <1>7, <1>8

\* The rows of an accepted topology stand for the lines of its file, each as
\* often as the file has it: no line is lost, no metric swapped, no delay
\* mixed with another (ntf_parser.py:40-67, 124-137, 144).
THEOREM TopologyFaithful == Spec => []AcceptedFaithful
<1>1. ASSUME ParserInv, BalanceInv PROVE AcceptedFaithful
  <2> SUFFICES ASSUME status = "accepted", file.kind = "topology"
               PROVE  ToBag(FlattenSeq(ExpressedRows)) = ToBag(Texts)
    BY DEF AcceptedFaithful, ExpressedRows, Texts
  <2>1. PICK h : Kept(h)
    BY <1>1 DEF BalanceInv
  <2>2. left = <<>>
    BY <1>1 DEF BalanceInv
  <2> DEFINE D == DOMAIN Lines
             g == [j \in D |-> h[j][2]]
             P == Places(ExpressedRows, Len(ExpressedRows))
             v == [j \in D |-> PlaceIn(g[j])]
  <2>3. ASSUME NEW j \in D
        PROVE  h[j] = <<2, g[j]>> /\ g[j] \in Directions /\ LineAt(g[j]) = Text(Lines[j])
    <3>1. PICK y \in Directions : h[j] = <<2, y>> /\ LineAt(y) = Text(Lines[j])
      BY <2>1, <2>2 DEF Kept
    <3>2. g[j] = y
      BY <3>1
    <3> QED  BY <3>1, <3>2
  <2> HIDE DEF g
  <2>4. \A j, k \in D : g[j] = g[k] => j = k
    <3>1. \A j, k \in D : h[j] = h[k] => j = k
      BY <2>1 DEF Kept
    <3> QED  BY <2>3, <3>1
  <2>5. g \in Injection(D, Directions)
    <3>1. g = [j \in D |-> g[j]]
      BY DEF g
    <3> QED  BY <2>3, <2>4, <3>1 DEF Injection, IsInjective
  <2>6. IsFiniteSet(D) /\ Cardinality(D) = Len(Lines) /\ Len(Lines) \in Nat
    <3>1. Len(Lines) \in Nat /\ D = 1..Len(Lines)
      BY <1>1, Indices DEF ParserInv, InputOK
    <3>2. IsFiniteSet(1..Len(Lines)) /\ Cardinality(1..Len(Lines)) = IF 1 > Len(Lines) THEN 0 ELSE Len(Lines) - 1 + 1
      BY <3>1, FS_Interval
    <3> HIDE DEF D
    <3> QED  BY <3>1, <3>2
  <2>7. IsFiniteSet(Directions) /\ Cardinality(Directions) <= Len(Lines) /\ Cardinality(Directions) \in Nat
    <3>1. IsFiniteSet(Directions) /\ Cardinality(Directions) <= Len(Lines)
      BY <1>1, FewDirections
    <3> QED  BY <3>1, FS_CardinalityType
  <2>8. \A y \in Directions : \E j \in D : g[j] = y
    <3>1. Cardinality(D) <= Cardinality(Directions)
      BY <2>5, <2>7, FS_Injection
    <3>2. Cardinality(D) = Cardinality(Directions)
      BY <2>6, <2>7, <3>1
    <3>3. g \in Surjection(D, Directions)
      BY <2>5, <2>7, <3>2, FS_Injection
    <3> QED  BY <3>3 DEF Surjection
  <2>9. /\ \E U : ExpressedRows \in Seq(Seq(U))
        /\ \A y \in Directions : PlaceIn(y) \in P /\ Element(ExpressedRows, PlaceIn(y)) = LineAt(y)
        /\ \A x, y \in Directions : PlaceIn(x) = PlaceIn(y) => x = y
        /\ \A q \in P : \E y \in Directions : PlaceIn(y) = q
    BY <1>1, ExpressedPlaces
  <2>10. \A j \in D : v[j] = PlaceIn(g[j])
    OBVIOUS
  <2> HIDE DEF D, P, v
  <2>11. /\ \A j \in D : v[j] \in P /\ Element(ExpressedRows, v[j]) = Text(Lines[j])
         /\ \A j, k \in D : v[j] = v[k] => j = k
         /\ \A q \in P : \E j \in D : v[j] = q
    <3>1. \A j \in D : v[j] \in P /\ Element(ExpressedRows, v[j]) = Text(Lines[j])
      BY <2>3, <2>9, <2>10
    <3>2. \A j, k \in D : v[j] = v[k] => j = k
      BY <2>3, <2>4, <2>9, <2>10
    <3>3. \A q \in P : \E j \in D : v[j] = q
      BY <2>8, <2>9, <2>10
    <3> QED  BY <3>1, <3>2, <3>3
  <2>12. ToBag(FlattenSeq(ExpressedRows)) = [x \in Elements(ExpressedRows) |-> Count(ExpressedRows, x)]
    BY <2>9, FlattenBag
  <2>13. DOMAIN Texts = D /\ \A j \in D : Texts[j] = Text(Lines[j])
    BY DEF Texts, D
  <2> HIDE DEF Texts
  <2>14. Range(Texts) = Elements(ExpressedRows)
    <3>1. \A x : x \in Range(Texts) <=> \E j \in D : x = Text(Lines[j])
      BY <2>13 DEF Range
    <3>2. \A x : x \in Elements(ExpressedRows) <=> \E q \in P : x = Element(ExpressedRows, q)
      BY DEF Elements, P
    <3>3. \A x \in Range(Texts) : x \in Elements(ExpressedRows)
      BY <2>11, <3>1, <3>2
    <3>4. \A x \in Elements(ExpressedRows) : x \in Range(Texts)
      BY <2>11, <3>1, <3>2
    <3> QED  BY <3>3, <3>4
  <2>15. ASSUME NEW x
         PROVE  Cardinality({j \in DOMAIN Texts : Texts[j] = x}) = Count(ExpressedRows, x)
    <3> DEFINE A == {j \in D : Texts[j] = x}
               B == {q \in P : Element(ExpressedRows, q) = x}
    <3>1. IsFiniteSet(A)
      BY <2>6, FS_Subset
    <3>2. \A j \in A : v[j] \in B
      BY <2>11, <2>13
    <3>3. \A j, k \in A : v[j] = v[k] => j = k
      BY <2>11
    <3>4. \A q \in B : \E j \in A : v[j] = q
      BY <2>11, <2>13
    <3> HIDE DEF A, B
    <3>5. Cardinality(A) = Cardinality(B)
      BY <3>1, <3>2, <3>3, <3>4, SameCount
    <3> QED  BY <2>13, <3>5 DEF A, B, P, Count
  <2> QED  BY <2>12, <2>14, <2>15 DEF ToBag
<1> QED  BY <1>1, BalanceInductive, PTL

-----------------------------------------------------------------------------
(* A list whose elements have a place of their own                         *)

\* m gives every position in D the place, in R, of an element of s, by the
\* texts t of the places, and no two positions the same.
Fits(m, D, s, R, t) ==
  /\ \A i \in D : m[i] \in R /\ t[m[i]] = s[i]
  /\ OneToOne(m, D)

\* Every element of s has a place.
Placed(s, R, t) == \E m : Fits(m, DOMAIN s, s, R, t)

\* When a place is given up, and an element with its text removed, the others
\* still have places of their own: one that had the place given up takes that
\* of the element removed.
LEMMA PlaceGivenUp ==
  ASSUME NEW S, NEW s \in Seq(S), NEW R, NEW t, NEW q, Placed(s, R, t)
  PROVE  LET r == RemoveFirst(s, t[q])
         IN  r \in Seq(S) /\ Placed(r, R \ {q}, t)
<1> DEFINE r == RemoveFirst(s, t[q])
           n == Len(s)
<1>1. n \in Nat /\ DOMAIN s = 1..n
  OBVIOUS
<1> PICK m : Fits(m, DOMAIN s, s, R, t)
  BY DEF Placed
<1>2. CASE ~\E i \in DOMAIN s : s[i] = t[q]
  <2>1. r = s
    BY <1>2, AbsentKept
  <2>2. \A i \in DOMAIN s : m[i] # q
    BY <1>2 DEF Fits
  <2>3. Fits(m, DOMAIN s, s, R \ {q}, t)
    BY <2>2 DEF Fits
  <2> QED  BY <2>1, <2>3 DEF Placed
<1>3. CASE \E i \in DOMAIN s : s[i] = t[q]
  <2>1. PICK d \in DOMAIN s : s[d] = t[q] /\ r = RemoveAt(s, d)
    BY <1>3, PresentRemoved
  <2>2. r \in Seq(S) /\ Len(r) = n - 1 /\ \A k \in 1..(n - 1) : r[k] = IF k < d THEN s[k] ELSE s[k + 1]
    BY <2>1, WithoutOne
  <2> HIDE DEF r, n
  <2>3. DOMAIN r = 1..(n - 1)
    BY <1>1, <2>2
  <2> DEFINE At0(k) == IF k < d THEN k ELSE k + 1
             Moved(i) == IF m[i] = q THEN m[d] ELSE m[i]
  <2> PICK w : w = [k \in 1..(n - 1) |-> Moved(At0(k))]
    OBVIOUS
  <2>4. \A k \in 1..(n - 1) : w[k] = Moved(At0(k))
    OBVIOUS
  <2>5. \A k \in 1..(n - 1) : At0(k) \in DOMAIN s /\ At0(k) # d /\ r[k] = s[At0(k)]
    BY <1>1, <2>1, <2>2
  <2>6. \A j, k \in 1..(n - 1) : At0(j) = At0(k) => j = k
    BY <1>1, <2>1
  <2> HIDE DEF At0
  <2>7. \A i, j \in DOMAIN s : m[i] = m[j] => i = j
    BY DEF Fits, OneToOne
  <2>8. \A i \in DOMAIN s : i # d => Moved(i) \in R \ {q} /\ t[Moved(i)] = s[i]
    BY <2>1, <2>7 DEF Fits
  <2>9. \A i, j \in DOMAIN s : i # d /\ j # d /\ Moved(i) = Moved(j) => i = j
    BY <2>1, <2>7
  <2> HIDE DEF Moved
  <2>10. Fits(w, 1..(n - 1), r, R \ {q}, t)
    <3>1. \A k \in 1..(n - 1) : w[k] \in R \ {q} /\ t[w[k]] = r[k]
      BY <2>4, <2>5, <2>8
    <3>2. \A j, k \in 1..(n - 1) : w[j] = w[k] => j = k
      BY <2>4, <2>5, <2>6, <2>9
    <3> QED  BY <3>1, <3>2 DEF Fits, OneToOne
  <2> QED  BY <2>2, <2>3, <2>10 DEF r, Placed
<1> QED  BY <1>2, <1>3

\* Of the places in R, with their texts t, all but the places g[i] of the
\* elements a[i] are in Q.
AllBut(R, Q, t, a, g) ==
  /\ \A i \in DOMAIN a : t[g[i]] = a[i]
  /\ \A x \in R : x \in Q \/ \E i \in DOMAIN a : x = g[i]

\* r is what is left of s when a place is given up for each element of a.
GivesUp(s, r, a) ==
  \A R, Q, t, g : Placed(s, R, t) /\ AllBut(R, Q, t, a, g) => Placed(r, Q, t)

\* When places are given up one after the other, and their texts removed.
LEMMA PlacesGivenUp ==
  ASSUME NEW S, NEW s \in Seq(S), NEW U, NEW a \in Seq(U)
  PROVE  GivesUp(s, FoldLeft(RemoveFirst, s, a), a)
<1> DEFINE n == Len(a)
<1>1. n \in Nat /\ DOMAIN a = 1..n
  OBVIOUS
<1>2. PICK v : Steps(v, s, a, n) /\ v[n] = FoldLeft(RemoveFirst, s, a)
  BY FoldSteps
<1> SUFFICES ASSUME NEW R, NEW t, NEW g, NEW Q, Placed(s, R, t), AllBut(R, Q, t, a, g)
             PROVE  Placed(v[n], Q, t)
  <2>1. GivesUp(s, v[n], a)
    BY DEF GivesUp
  <2> QED  BY <1>2, <2>1
<1> HIDE DEF n
<1> DEFINE Ok(k) == v[k] \in Seq(S) /\ Placed(v[k], R \ {g[i] : i \in 1..k}, t)
           B == {k \in 0..n : ~Ok(k)}
<1>3. Ok(0)
  <2>1. R \ {g[i] : i \in 1..0} = R
    OBVIOUS
  <2> QED  BY <1>2, <2>1 DEF Steps
<1>4. ASSUME NEW k \in 1..n, Ok(k - 1)
      PROVE  Ok(k)
  <2>1. v[k] = RemoveFirst(v[k - 1], t[g[k]])
    BY <1>1, <1>2 DEF Steps, AllBut
  <2>2. Placed(v[k - 1], R \ {g[i] : i \in 1..(k - 1)}, t)
    BY <1>4
  <2>3. (R \ {g[i] : i \in 1..(k - 1)}) \ {g[k]} = R \ {g[i] : i \in 1..k}
    <3>1. \A i \in 1..k : i = k \/ i \in 1..(k - 1)
      BY <1>1
    <3>2. k \in 1..k /\ \A i \in 1..(k - 1) : i \in 1..k
      BY <1>1
    <3> QED  BY <3>1, <3>2
  <2> DEFINE L == R \ {g[i] : i \in 1..(k - 1)}
             z == v[k - 1]
  <2>4. z \in Seq(S) /\ Placed(z, L, t)
    BY <1>4, <2>2
  <2> HIDE DEF L, z
  <2>5. LET r == RemoveFirst(z, t[g[k]])
        IN  r \in Seq(S) /\ Placed(r, L \ {g[k]}, t)
    BY <2>4, PlaceGivenUp
  <2>6. v[k] \in Seq(S) /\ Placed(v[k], L \ {g[k]}, t)
    BY <2>1, <2>5 DEF z
  <2> QED  BY <2>3, <2>6 DEF L
<1> HIDE DEF Ok
<1>5. B = {}
  <2> SUFFICES ASSUME B # {} PROVE FALSE
    OBVIOUS
  <2>1. PICK k \in B : \A j \in B : k <= j
    <3>1. B \in SUBSET Nat
      BY <1>1
    <3> HIDE DEF B
    <3> QED  BY <3>1, Least
  <2>2. k \in 0..n /\ ~Ok(k)
    OBVIOUS
  <2>3. k \in 1..n /\ k - 1 \in 0..n /\ k - 1 < k
    BY <1>1, <1>3, <2>2
  <2>4. k - 1 \notin B
    <3> HIDE DEF B
    <3> QED  BY <1>1, <2>1, <2>2, <2>3
  <2> QED  BY <1>4, <2>2, <2>3, <2>4
<1>6. Ok(n)
  <2>1. n \in 0..n
    BY <1>1
  <2> QED  BY <1>5, <2>1
<1>7. \A q \in R \ {g[i] : i \in 1..n} : q \in Q
  BY <1>1 DEF AllBut
<1>8. Placed(v[n], R \ {g[i] : i \in 1..n}, t)
  BY <1>6 DEF Ok
<1>9. Placed(v[n], Q, t)
  BY <1>7, <1>8 DEF Placed, Fits
<1> QED  BY <1>9

-----------------------------------------------------------------------------
(* Well-formed topologies are accepted                                     *)

\* What a file is that is to be accepted.
PairedBy(first) == file.kind = "topology" /\ PlainLinks /\ first \in SUBSET DOMAIN Lines /\ Paired(first)

\* Entry e of pair p has the metric of the line l that opened it, and no other.
HalfOpen(e, p, l) ==
  /\ e.delay = l.delay
  /\ \/ l.src = p.src /\ e.f = l.metric /\ e.r = Missing
     \/ l.src = p.dst /\ e.f = Missing /\ e.r = l.metric

\* Entry e has both metrics.
Complete(e) == e.f \in Nat \ {0} /\ e.r \in Nat \ {0}

\* Line i is the last line read that is about the nodes of pair p.
LatestOf(i, p) ==
  /\ i \in 1..(pos - 1) /\ EndsOf(Lines[i]) = EndsOf(p)
  /\ \A j \in (i + 1)..(pos - 1) : EndsOf(Lines[j]) # EndsOf(p)

\* The last entry of pair p is as line i has left it.
LeftBy(i, p, first) ==
  IF i \in first THEN HalfOpen(Last(p.entries), p, Lines[i]) ELSE Complete(Last(p.entries))

\* All the entries but the last are complete.
EarlierOK(s) == \A i \in 1..(Len(s) - 1) : Complete(s[i])

\* The last entry of a pair is half open after a line that opens a link.
HalvesOK(first) ==
  /\ \A k \in DOMAIN pairs : EarlierOK(pairs[k].entries)
  /\ \A k \in DOMAIN pairs : \E i \in 1..(pos - 1) : LatestOf(i, pairs[k]) /\ LeftBy(i, pairs[k], first)
  /\ \A i \in 1..(pos - 1) : \E k \in DOMAIN pairs : EndsOf(pairs[k]) = EndsOf(Lines[i])

\* A pair has the nodes of a line the one way or the other.
LEMMA TwoEnds ==
  ASSUME NEW p, NEW l, EndsOf(p) = EndsOf(l), l.src # l.dst
  PROVE  \/ p.src = l.src /\ p.dst = l.dst /\ p.dst # l.src
         \/ p.src = l.dst /\ p.dst = l.src /\ p.src # l.src
BY DEF EndsOf

\* No two lines are next after the same line, and no line next after two.
LEMMA OneBetween ==
  ASSUME NEW a \in Int, NEW b \in Int, NEW c \in Int, NextBetween(a, b)
  PROVE  /\ NextBetween(a, c) => b = c
         /\ NextBetween(c, b) => a = c
<1> PICK E : E = [i \in Int |-> EndsOf(Lines[i])]
  OBVIOUS
<1>1. \A i, j \in Int : NextBetween(i, j) <=> /\ i < j /\ E[j] = E[i]
                                              /\ \A k \in (i + 1)..(j - 1) : E[k] # E[i]
  BY DEF NextBetween
<1>2. a < b /\ E[b] = E[a] /\ \A k \in (a + 1)..(b - 1) : E[k] # E[a]
  BY <1>1
<1>3. ASSUME NextBetween(a, c) PROVE b = c
  <2>1. a < c /\ E[c] = E[a] /\ \A k \in (a + 1)..(c - 1) : E[k] # E[a]
    BY <1>1, <1>3
  <2> QED  BY <1>2, <2>1
<1>4. ASSUME NextBetween(c, b) PROVE a = c
  <2>1. c < b /\ E[b] = E[c] /\ \A k \in (c + 1)..(b - 1) : E[k] # E[c]
    BY <1>1, <1>4
  <2>2. ~(a < c)
    <3> SUFFICES ASSUME a < c PROVE FALSE  OBVIOUS
    <3>1. c \in (a + 1)..(b - 1)
      BY <2>1
    <3> QED  BY <1>2, <2>1, <3>1
  <2>3. ~(c < a)
    <3> SUFFICES ASSUME c < a PROVE FALSE  OBVIOUS
    <3>1. a \in (c + 1)..(b - 1)
      BY <1>2
    <3> QED  BY <1>2, <2>1, <3>1
  <2> QED  BY <2>2, <2>3
<1> QED  BY <1>3, <1>4

\* The next line finds the pair of its nodes as it expects it.
LEMMA ExpectedHere ==
  ASSUME ParserInv, Reading, NEW first, PairedBy(first), HalvesOK(first)
  PROVE  /\ (\A k \in DOMAIN pairs : EndsOf(pairs[k]) # EndsOf(Lines[pos])) => pos \in first
         /\ \A k \in DOMAIN pairs : EndsOf(pairs[k]) = EndsOf(Lines[pos]) =>
              IF pos \in first THEN Complete(LastEntry(k))
              ELSE /\ LastEntry(k).delay = Lines[pos].delay
                   /\ \/ /\ Lines[pos].src = pairs[k].dst /\ Lines[pos].dst = pairs[k].src
                         /\ LastEntry(k).f \in Nat \ {0} /\ LastEntry(k).r = Missing
                      \/ /\ Lines[pos].src = pairs[k].src /\ Lines[pos].dst = pairs[k].dst
                         /\ LastEntry(k).f = Missing /\ LastEntry(k).r \in Nat \ {0}
<1> DEFINE l == Lines[pos]
           n == Len(Lines)
<1>1. pos \in DOMAIN Lines /\ n \in Nat /\ DOMAIN Lines = 1..n
  BY ReadingLine, Indices DEF ParserInv, InputOK
<1> HIDE DEF n
<1>2. \A i \in DOMAIN Lines : Lines[i].src # Lines[i].dst /\ Lines[i].metric \in Nat \ {0}
  BY DEF PairedBy, PlainLinks, ParserInv, InputOK, IsLine
<1>3. \A j \in DOMAIN Lines \ first : \E i \in first : NextBetween(i, j)
  BY DEF PairedBy, Paired
<1>4. \A i \in first : i \in 1..n
  BY <1>1 DEF PairedBy
<1>5. ASSUME NEW i \in 1..n, NextBetween(i, pos) PROVE i \in 1..(pos - 1)
  BY <1>1, <1>5 DEF NextBetween
<1>6. ASSUME \A k \in DOMAIN pairs : EndsOf(pairs[k]) # EndsOf(l), pos \notin first
      PROVE  FALSE
  <2>1. PICK i \in first : NextBetween(i, pos)
    BY <1>1, <1>3, <1>6
  <2>2. i \in 1..(pos - 1) /\ EndsOf(Lines[i]) = EndsOf(l)
    BY <1>4, <1>5, <2>1 DEF NextBetween
  <2>3. \E k \in DOMAIN pairs : EndsOf(pairs[k]) = EndsOf(Lines[i])
    BY <2>2 DEF HalvesOK
  <2> QED  BY <1>6, <2>2, <2>3
<1>7. ASSUME NEW k \in DOMAIN pairs, EndsOf(pairs[k]) = EndsOf(l)
      PROVE  IF pos \in first THEN Complete(LastEntry(k))
             ELSE /\ LastEntry(k).delay = l.delay
                  /\ \/ /\ l.src = pairs[k].dst /\ l.dst = pairs[k].src
                        /\ LastEntry(k).f \in Nat \ {0} /\ LastEntry(k).r = Missing
                     \/ /\ l.src = pairs[k].src /\ l.dst = pairs[k].dst
                        /\ LastEntry(k).f = Missing /\ LastEntry(k).r \in Nat \ {0}
  <2>1. PICK i \in 1..(pos - 1) : LatestOf(i, pairs[k]) /\ LeftBy(i, pairs[k], first)
    BY DEF HalvesOK
  <2>2. i \in 1..n /\ i < pos /\ pos \in 1..n
    BY <1>1
  <2>3. NextBetween(i, pos)
    BY <1>1, <1>7, <2>1, <2>2 DEF LatestOf, NextBetween
  <2>4. ASSUME NEW j \in 1..n, NextBetween(j, pos) PROVE j = i
    <3>1. i \in Int /\ pos \in Int /\ j \in Int
      BY <1>1, <2>2
    <3>2. NextBetween(j, pos) => i = j
      BY <2>3, <3>1, OneBetween
    <3> QED  BY <2>4, <3>2
  <2>5. CASE pos \in first
    <3>1. ASSUME i \in first PROVE FALSE
      <4>1. PICK j \in DOMAIN Lines \ first : NextBetween(i, j)
        BY <3>1 DEF PairedBy, Paired
      <4>2. j = pos
        BY <1>1, <2>2, <2>3, <4>1, OneBetween
      <4> QED  BY <2>5, <4>1, <4>2
    <3> QED  BY <2>1, <2>5, <3>1 DEF LeftBy, LastEntry
  <2>6. CASE pos \notin first
    <3>1. i \in first
      <4>1. PICK j \in first : NextBetween(j, pos)
        BY <1>1, <1>3, <2>6
      <4> QED  BY <1>4, <2>4, <4>1
    <3>2. PICK j \in DOMAIN Lines \ first :
            NextBetween(i, j) /\ Lines[j].src = Lines[i].dst /\ Lines[j].delay = Lines[i].delay
      BY <3>1 DEF PairedBy, Paired
    <3>3. j = pos
      BY <1>1, <2>2, <2>3, <3>2, OneBetween
    <3>4. HalfOpen(LastEntry(k), pairs[k], Lines[i])
      BY <2>1, <3>1 DEF LeftBy, LastEntry
    <3>5. l.src = Lines[i].dst /\ l.delay = Lines[i].delay
      BY <3>2, <3>3
    <3>6. Lines[i].src # Lines[i].dst /\ Lines[i].metric \in Nat \ {0} /\ l.src # l.dst
      BY <1>1, <1>2, <2>2
    <3>7. EndsOf(Lines[i]) = EndsOf(l)
      BY <2>3 DEF NextBetween
    <3>8. l.dst = Lines[i].src
      BY <3>5, <3>6, <3>7 DEF EndsOf
    <3>9. \/ pairs[k].src = l.src /\ pairs[k].dst = l.dst
          \/ pairs[k].src = l.dst /\ pairs[k].dst = l.src
      BY <1>7, <3>6, TwoEnds
    <3> HIDE DEF l
    <3> QED  BY <2>6, <3>4, <3>5, <3>6, <3>8, <3>9 DEF HalfOpen
  <2> QED  BY <2>5, <2>6
<1> QED  BY <1>6, <1>7

\* No line is unexpected.
LEMMA AllExpected ==
  ASSUME ParserInv, Reading, NEW first, PairedBy(first), HalvesOK(first)
  PROVE  ~Unexpected
<1> SUFFICES ASSUME NEW k \in Forward(Lines[pos]), LastEntry(k).r = Missing PROVE FALSE
  BY DEF Unexpected
<1>1. k \in DOMAIN pairs /\ pairs[k].src = Lines[pos].src /\ pairs[k].dst = Lines[pos].dst
  BY DEF Forward, At
<1>2. Lines[pos].src # Lines[pos].dst
  BY ReadingLine DEF PairedBy, PlainLinks
<1>3. EndsOf(pairs[k]) = EndsOf(Lines[pos])
  BY <1>1 DEF EndsOf
<1>4. LastEntry(k).r # Missing
  <2>1. Missing \notin Nat
    BY DEF Missing
  <2> QED  BY <1>1, <1>2, <1>3, <2>1, ExpectedHere DEF Complete
<1> QED  BY <1>4

-----------------------------------------------------------------------------
(* A line of a well-formed topology gives an entry one metric more         *)

\* The lists of entries s and t of a pair p: t has the lines of s, and another
\* at its entry n, direction c.
Keeps(s, t, p, n, c) ==
  \A i \in DOMAIN s, d \in {1, 2} : Metric(s[i], d) # Missing =>
    /\ i \in DOMAIN t /\ Accounted(p, t[i])[d] = Accounted(p, s[i])[d]
    /\ ~(i = n /\ d = c)

\* The next line completes the last entry of pair k, or gives it another.
Taken(k, t, n, c, first) ==
  /\ pairs' = [pairs EXCEPT ![k].entries = t]
  /\ EndsOf(pairs[k]) = EndsOf(Lines[pos])
  /\ IF pos \in first THEN HalfOpen(Last(t), pairs[k], Lines[pos]) ELSE Complete(Last(t))
  /\ n \in DOMAIN t /\ n \in Nat /\ Accounted(pairs[k], t[n])[c] = Text(Lines[pos])
  /\ Keeps(pairs[k].entries, t, pairs[k], n, c)
  /\ EarlierOK(t)

\* The two lines that an entry of a pair accounts for.
LEMMA AccountedIs ==
  ASSUME NEW p, NEW e
  PROVE  /\ Accounted(p, e)[1] = Plain(p.src, p.dst, e.f, e.delay)
         /\ Accounted(p, e)[2] = Plain(p.dst, p.src, e.r, e.delay)
BY DEF Accounted

\* The last entry is replaced by one that has another metric more.
LEMMA EntryReplaced ==
  ASSUME NEW s \in Seq(Entry), s # <<>>, NEW e \in Entry, NEW p, NEW c \in {1, 2},
         Metric(Last(s), c) = Missing, e.delay = Last(s).delay,
         \A d \in {1, 2} : d # c => Metric(e, d) = Metric(Last(s), d)
  PROVE  LET t == Append(Front(s), e) IN
           /\ t \in Seq(Entry) /\ Len(s) \in DOMAIN t /\ Len(s) \in Nat
           /\ Last(t) = e /\ t[Len(s)] = e
           /\ Keeps(s, t, p, Len(s), c)
           /\ EarlierOK(s) => EarlierOK(t)
<1> DEFINE t == Append(Front(s), e)
           n == Len(s)
<1>1. /\ n \in Nat \ {0} /\ DOMAIN s = 1..n /\ Last(s) = s[n]
      /\ t \in Seq(Entry) /\ DOMAIN t = 1..n
      /\ \A i \in 1..n : t[i] = IF i = n THEN e ELSE s[i]
  BY LastSet
<1> HIDE DEF t, n
<1>2. n \in 1..n /\ t[n] = e
  BY <1>1
<1>3. Last(t) = e
  <2>1. Len(t) = n
    BY <1>1
  <2> QED  BY <1>2, <2>1 DEF Last
<1>4. ASSUME NEW i \in 1..n, NEW d \in {1, 2}, Metric(s[i], d) # Missing
      PROVE  Accounted(p, t[i])[d] = Accounted(p, s[i])[d] /\ ~(i = n /\ d = c)
  <2>1. CASE i = n
    <3>1. d # c
      BY <1>1, <1>4, <2>1
    <3>2. Metric(e, d) = Metric(s[n], d) /\ e.delay = s[n].delay
      BY <1>1, <3>1
    <3>3. Accounted(p, e)[d] = Accounted(p, s[n])[d]
      BY <3>2, AccountedIs DEF Metric
    <3> QED  BY <1>2, <2>1, <3>1, <3>3
  <2>2. CASE i # n
    BY <1>1, <2>2
  <2> QED  BY <2>1, <2>2
<1>5. Keeps(s, t, p, n, c)
  BY <1>1, <1>4 DEF Keeps
<1>6. EarlierOK(s) => EarlierOK(t)
  <2>1. Len(t) = n
    BY <1>1
  <2>2. \A i \in 1..(n - 1) : t[i] = s[i]
    BY <1>1
  <2> QED  BY <2>1, <2>2 DEF EarlierOK, n
<1> QED  BY <1>1, <1>2, <1>3, <1>5, <1>6 DEF t, n

\* The pair is given another entry.
LEMMA EntryAppended ==
  ASSUME NEW s \in Seq(Entry), NEW e \in Entry, NEW p, NEW c \in {1, 2}
  PROVE  LET t == Append(s, e) IN
           /\ t \in Seq(Entry) /\ Len(s) + 1 \in DOMAIN t /\ Len(s) + 1 \in Nat
           /\ Last(t) = e /\ t[Len(s) + 1] = e
           /\ Keeps(s, t, p, Len(s) + 1, c)
           /\ s # <<>> /\ EarlierOK(s) /\ Complete(Last(s)) => EarlierOK(t)
<1> DEFINE t == Append(s, e)
           n == Len(s)
<1>1. /\ n \in Nat /\ DOMAIN s = 1..n
      /\ t \in Seq(Entry) /\ Len(t) = n + 1 /\ DOMAIN t = 1..(n + 1)
      /\ \A i \in 1..n : t[i] = s[i]
      /\ t[n + 1] = e
  BY AppendProperties
<1> HIDE DEF t, n
<1>2. n + 1 \in 1..(n + 1) /\ \A i \in 1..n : i \in 1..(n + 1) /\ i # n + 1
  BY <1>1
<1>3. Last(t) = e
  BY <1>1 DEF Last
<1>4. Keeps(s, t, p, n + 1, c)
  BY <1>1, <1>2 DEF Keeps
<1>5. ASSUME s # <<>>, EarlierOK(s), Complete(Last(s)) PROVE EarlierOK(t)
  <2>1. Last(s) = s[n] /\ Len(s) = n /\ Len(t) - 1 = n
    BY <1>1 DEF Last, n
  <2>2. \A i \in 1..n : Complete(s[i])
    BY <1>1, <1>5, <2>1 DEF EarlierOK
  <2>3. \A i \in 1..n : Complete(t[i])
    BY <1>1, <2>2
  <2> QED  BY <2>1, <2>3 DEF EarlierOK
<1> QED  BY <1>1, <1>2, <1>3, <1>4, <1>5 DEF t, n

\* What a line of such a file is.
LEMMA LinkText ==
  ASSUME ParserInv, NEW first, PairedBy(first), NEW i \in DOMAIN Lines
  PROVE  /\ Lines[i].src # Lines[i].dst /\ Lines[i].metric \in Nat \ {0}
         /\ Lines[i].metric \in Missable /\ Missing \in Missable
         /\ Missing \notin Nat /\ Lines[i].metric # Missing
         /\ Text(Lines[i]) = Plain(Lines[i].src, Lines[i].dst, Lines[i].metric, Lines[i].delay)
BY DEF ParserInv, InputOK, IsLine, PairedBy, PlainLinks, Text, Missable, Missing

\* A line about a pair that is known.
LEMMA LineTaken ==
  ASSUME ParserInv, ReadLine, NEW first, PairedBy(first), HalvesOK(first), ~NewPair(Lines[pos])
  PROVE  \E k \in DOMAIN pairs, c \in {1, 2} : \E t, n : Taken(k, t, n, c, first)
<1> DEFINE l == Lines[pos]
<1>1. PICK k \in DOMAIN pairs : SetReverse(l, k) \/ NewReverse(l, k) \/ SetForward(l, k) \/ NewForward(l, k)
  BY DEF ReadLine
<1>2. Reading /\ pos \in DOMAIN Lines /\ IsLine(l)
  BY ReadingLine DEF ReadLine
<1>3. /\ l.src # l.dst /\ l.metric \in Nat \ {0} /\ l.metric \in Missable /\ Missing \in Missable
      /\ Missing \notin Nat /\ l.metric # Missing
      /\ Text(l) = Plain(l.src, l.dst, l.metric, l.delay)
  BY <1>2, LinkText
<1>4. \/ pairs[k].src = l.src /\ pairs[k].dst = l.dst /\ k \in Forward(l)
      \/ pairs[k].src = l.dst /\ pairs[k].dst = l.src /\ k \in Reversed(l)
  BY <1>1 DEF SetReverse, NewReverse, SetForward, NewForward, Forward, Reversed, At
<1>5. EndsOf(pairs[k]) = EndsOf(l)
  BY <1>4 DEF EndsOf
<1>6. IF pos \in first THEN Complete(LastEntry(k))
      ELSE /\ LastEntry(k).delay = l.delay
           /\ \/ /\ l.src = pairs[k].dst /\ l.dst = pairs[k].src
                 /\ LastEntry(k).f \in Nat \ {0} /\ LastEntry(k).r = Missing
              \/ /\ l.src = pairs[k].src /\ l.dst = pairs[k].dst
                 /\ LastEntry(k).f = Missing /\ LastEntry(k).r \in Nat \ {0}
  BY <1>2, <1>5, ExpectedHere
<1> DEFINE s == pairs[k].entries
           p == pairs[k]
<1>7. s \in Seq(Entry) /\ s # <<>> /\ LastEntry(k) = Last(s) /\ EarlierOK(s)
  BY DEF ParserInv, PairsOK, GoodEntries, LastEntry, HalvesOK
<1>8. Last(s) \in Entry
  BY <1>7, LastReplaced
<1>9. EntryOf(l, l.metric, Missing) \in Entry /\ EntryOf(l, Missing, l.metric) \in Entry
  BY <1>2, <1>3 DEF EntryOf, Entry, IsLine, Missable
<1>10. k \in Reversed(l) => k \notin Forward(l)
  BY DEF Reversed
<1>11. k \in Forward(l) => pairs[k].src = l.src /\ pairs[k].dst = l.dst
  BY DEF Forward, At
<1>12. k \in Reversed(l) => pairs[k].src = l.dst /\ pairs[k].dst = l.src
  BY DEF Reversed, At
<1> HIDE DEF l, s, p
<1>13. CASE SetReverse(l, k)
  <2> DEFINE e == [Last(s) EXCEPT !.r = l.metric]
             t == Append(Front(s), e)
  <2>1. /\ k \in Reversed(l) /\ Last(s).r = Missing /\ pairs' = [pairs EXCEPT ![k].entries = t]
    BY <1>7, <1>13 DEF SetReverse, SetLast, s
  <2>2. e \in Entry /\ e.r = l.metric /\ e.f = Last(s).f /\ e.delay = Last(s).delay
    BY <1>3, <1>8 DEF Entry
  <2> HIDE DEF e
  <2>3. pos \notin first /\ Last(s).delay = l.delay /\ Last(s).f \in Nat \ {0}
    BY <1>3, <1>6, <1>7, <1>12, <2>1 DEF Complete
  <2>4. \A d \in {1, 2} : d # 2 => Metric(e, d) = Metric(Last(s), d)
    BY <2>2 DEF Metric
  <2>5. Metric(Last(s), 2) = Missing
    BY <2>1 DEF Metric
  <2>6. /\ Len(s) \in DOMAIN t /\ Len(s) \in Nat /\ Last(t) = e /\ t[Len(s)] = e
        /\ Keeps(s, t, p, Len(s), 2) /\ EarlierOK(t)
    BY <1>7, <2>2, <2>4, <2>5, EntryReplaced
  <2>7. Complete(Last(t))
    BY <1>3, <2>2, <2>3, <2>6 DEF Complete
  <2>8. Accounted(p, t[Len(s)])[2] = Text(l)
    BY <1>3, <1>12, <2>1, <2>2, <2>3, <2>6, AccountedIs DEF p
  <2> HIDE DEF t
  <2>9. Taken(k, t, Len(s), 2, first)
    BY <1>5, <2>1, <2>3, <2>6, <2>7, <2>8 DEF Taken, l, p, s
  <2> QED  BY <2>9
<1>14. CASE SetForward(l, k)
  <2> DEFINE e == [Last(s) EXCEPT !.f = l.metric]
             t == Append(Front(s), e)
  <2>1. /\ k \in Forward(l) /\ Last(s).f = Missing /\ pairs' = [pairs EXCEPT ![k].entries = t]
    BY <1>7, <1>14 DEF SetForward, SetLast, s
  <2>2. e \in Entry /\ e.f = l.metric /\ e.r = Last(s).r /\ e.delay = Last(s).delay
    BY <1>3, <1>8 DEF Entry
  <2> HIDE DEF e
  <2>3. pos \notin first /\ Last(s).delay = l.delay /\ Last(s).r \in Nat \ {0}
    BY <1>3, <1>6, <1>7, <1>11, <2>1 DEF Complete
  <2>4. \A d \in {1, 2} : d # 1 => Metric(e, d) = Metric(Last(s), d)
    BY <2>2 DEF Metric
  <2>5. Metric(Last(s), 1) = Missing
    BY <2>1 DEF Metric
  <2>6. /\ Len(s) \in DOMAIN t /\ Len(s) \in Nat /\ Last(t) = e /\ t[Len(s)] = e
        /\ Keeps(s, t, p, Len(s), 1) /\ EarlierOK(t)
    BY <1>7, <2>2, <2>4, <2>5, EntryReplaced
  <2>7. Complete(Last(t))
    BY <1>3, <2>2, <2>3, <2>6 DEF Complete
  <2>8. Accounted(p, t[Len(s)])[1] = Text(l)
    BY <1>3, <1>11, <2>1, <2>2, <2>3, <2>6, AccountedIs DEF p
  <2> HIDE DEF t
  <2>9. Taken(k, t, Len(s), 1, first)
    BY <1>5, <2>1, <2>3, <2>6, <2>7, <2>8 DEF Taken, l, p, s
  <2> QED  BY <2>9
<1>15. CASE NewReverse(l, k)
  <2> DEFINE e == EntryOf(l, Missing, l.metric)
             t == Append(s, e)
  <2>1. /\ k \in Reversed(l) /\ Last(s).r # Missing /\ pairs' = [pairs EXCEPT ![k].entries = t]
    BY <1>7, <1>15 DEF NewReverse, AppendEntry, s
  <2>2. e \in Entry /\ e.f = Missing /\ e.r = l.metric /\ e.delay = l.delay
    BY <1>9 DEF EntryOf
  <2> HIDE DEF e
  <2>3. pos \in first
    BY <1>3, <1>6, <1>7, <1>12, <2>1
  <2>4. /\ Len(s) + 1 \in DOMAIN t /\ Len(s) + 1 \in Nat /\ Last(t) = e /\ t[Len(s) + 1] = e
        /\ Keeps(s, t, p, Len(s) + 1, 2) /\ EarlierOK(t)
    BY <1>6, <1>7, <2>2, <2>3, EntryAppended
  <2>5. HalfOpen(Last(t), p, l)
    BY <1>12, <2>1, <2>2, <2>4 DEF HalfOpen, p
  <2>6. Accounted(p, t[Len(s) + 1])[2] = Text(l)
    BY <1>3, <1>12, <2>1, <2>2, <2>4, AccountedIs DEF p
  <2> HIDE DEF t
  <2>7. Taken(k, t, Len(s) + 1, 2, first)
    BY <1>5, <2>1, <2>3, <2>4, <2>5, <2>6 DEF Taken, l, p, s
  <2> QED  BY <2>7
<1>16. CASE NewForward(l, k)
  <2> DEFINE e == EntryOf(l, l.metric, Missing)
             t == Append(s, e)
  <2>1. /\ k \in Forward(l) /\ Last(s).f # Missing /\ pairs' = [pairs EXCEPT ![k].entries = t]
    BY <1>7, <1>16 DEF NewForward, AppendEntry, s
  <2>2. e \in Entry /\ e.f = l.metric /\ e.r = Missing /\ e.delay = l.delay
    BY <1>9 DEF EntryOf
  <2> HIDE DEF e
  <2>3. pos \in first
    BY <1>3, <1>6, <1>7, <1>11, <2>1
  <2>4. /\ Len(s) + 1 \in DOMAIN t /\ Len(s) + 1 \in Nat /\ Last(t) = e /\ t[Len(s) + 1] = e
        /\ Keeps(s, t, p, Len(s) + 1, 1) /\ EarlierOK(t)
    BY <1>6, <1>7, <2>2, <2>3, EntryAppended
  <2>5. HalfOpen(Last(t), p, l)
    BY <1>11, <2>1, <2>2, <2>4 DEF HalfOpen, p
  <2>6. Accounted(p, t[Len(s) + 1])[1] = Text(l)
    BY <1>3, <1>11, <2>1, <2>2, <2>4, AccountedIs DEF p
  <2> HIDE DEF t
  <2>7. Taken(k, t, Len(s) + 1, 1, first)
    BY <1>5, <2>1, <2>3, <2>4, <2>5, <2>6 DEF Taken, l, p, s
  <2> QED  BY <2>7
<1> QED  BY <1>1, <1>13, <1>14, <1>15, <1>16

-----------------------------------------------------------------------------
(* Every last entry is as the last line about its nodes has left it        *)

\* Line pos was about pair p, or another line is still the latest one.
LEMMA LatestNow ==
  ASSUME pos \in Nat \ {0}, pos' = pos + 1, Lines' = Lines, NEW p
  PROVE  /\ \A i : i = pos /\ EndsOf(p) = EndsOf(Lines[pos]) => LatestOf(i, p)'
         /\ \A i : EndsOf(p) # EndsOf(Lines[pos]) /\ LatestOf(i, p) => LatestOf(i, p)'
<1>1. pos' - 1 = pos /\ pos \in 1..pos
  OBVIOUS
<1>2. ASSUME NEW i, i = pos, EndsOf(p) = EndsOf(Lines[pos]) PROVE LatestOf(i, p)'
  <2>1. \A j \in (i + 1)..(pos' - 1) : FALSE
    BY <1>2
  <2> QED  BY <1>1, <1>2, <2>1 DEF LatestOf, EndsOf
<1>3. ASSUME NEW i, EndsOf(p) # EndsOf(Lines[pos]), LatestOf(i, p) PROVE LatestOf(i, p)'
  <2>1. i \in 1..(pos - 1) /\ EndsOf(Lines[i]) = EndsOf(p)
        /\ \A j \in (i + 1)..(pos - 1) : EndsOf(Lines[j]) # EndsOf(p)
    BY <1>3 DEF LatestOf
  <2>2. i \in 1..pos /\ \A j \in (i + 1)..pos : j = pos \/ j \in (i + 1)..(pos - 1)
    BY <2>1
  <2>3. \A j \in (i + 1)..pos : EndsOf(Lines[j]) # EndsOf(p)
    BY <1>3, <2>1, <2>2
  <2> QED  BY <1>1, <2>1, <2>2, <2>3 DEF LatestOf, EndsOf
<1> QED  BY <1>2, <1>3

\* The pairs after a line about a pair that is known.
LEMMA TakenPairs ==
  ASSUME ParserInv, NEW k \in DOMAIN pairs, NEW t, pairs' = [pairs EXCEPT ![k].entries = t]
  PROVE  /\ DOMAIN pairs' = DOMAIN pairs
         /\ pairs'[k].entries = t /\ pairs'[k].src = pairs[k].src /\ pairs'[k].dst = pairs[k].dst
         /\ \A i \in DOMAIN pairs : i # k => pairs'[i] = pairs[i]
<1>1. pairs \in Seq(Pair) /\ pairs[k] \in Pair
  BY DEF ParserInv, PairsOK
<1>2. DOMAIN pairs[k] = {"src", "dst", "entries"}
  BY <1>1 DEF Pair
<1>3. pairs'[k] = [pairs[k] EXCEPT !.entries = t]
  BY <1>1
<1> QED  BY <1>1, <1>2, <1>3

\* The pairs after a line that opens one.
LEMMA NewPairs ==
  ASSUME ParserInv, NewPair(Lines[pos])
  PROVE  /\ Len(pairs) \in Nat /\ DOMAIN pairs = 1..Len(pairs) /\ DOMAIN pairs' = 1..(Len(pairs) + 1)
         /\ \A i \in DOMAIN pairs : pairs'[i] = pairs[i]
         /\ pairs'[Len(pairs) + 1] = PairOf(Lines[pos])
         /\ \A i \in DOMAIN pairs : EndsOf(pairs[i]) # EndsOf(Lines[pos])
<1> DEFINE l == Lines[pos]
           n == Len(pairs)
           p == PairOf(l)
<1>1. pairs \in Seq(Pair) /\ n \in Nat /\ DOMAIN pairs = 1..n
  BY DEF ParserInv, PairsOK
<1>2. pairs' = Append(pairs, p)
  BY DEF NewPair, PairOf
<1> HIDE DEF n, p
<1>3. DOMAIN pairs' = 1..(n + 1) /\ (\A i \in 1..n : pairs'[i] = pairs[i]) /\ pairs'[n + 1] = p
  <2>1. pairs \in Seq(Pair \cup {p})
    BY <1>1, SeqMonotonic
  <2> QED  BY <1>1, <1>2, <2>1, AppendProperties DEF n
<1>4. ASSUME NEW i \in DOMAIN pairs, EndsOf(pairs[i]) = EndsOf(l) PROVE FALSE
  <2>1. \/ pairs[i].src = l.src /\ pairs[i].dst = l.dst
        \/ pairs[i].src = l.dst /\ pairs[i].dst = l.src
    BY <1>4 DEF EndsOf
  <2>2. Forward(l) = {} /\ {j \in DOMAIN pairs : At(j, l.dst, l.src)} = {}
    BY DEF NewPair, Reversed
  <2> QED  BY <2>1, <2>2 DEF Forward, At
<1> QED  BY <1>1, <1>3, <1>4 DEF n, p

\* Reading a line keeps the last entries as the lines have left them.
LEMMA ReadHalves ==
  ASSUME ParserInv, ReadLine, NEW first, PairedBy(first), HalvesOK(first)
  PROVE  HalvesOK(first)'
<1> DEFINE l == Lines[pos]
<1>1. /\ Reading /\ pos \in DOMAIN Lines /\ pos \in Nat \ {0} /\ IsLine(l)
      /\ pos' = pos + 1 /\ Lines' = Lines
  BY ReadingLine, Indices DEF ReadLine, ReadOn, Lines, ParserInv, CursorsOK
<1>2. pos' - 1 = pos /\ \A i \in 1..pos : i = pos \/ i \in 1..(pos - 1)
  BY <1>1
<1>3. pos \in 1..pos /\ \A i \in 1..(pos - 1) : i \in 1..pos
  BY <1>1
<1>4. SUFFICES /\ \A k \in DOMAIN pairs' : EarlierOK(pairs'[k].entries)
               /\ \A k \in DOMAIN pairs' : \E i \in 1..pos : LatestOf(i, pairs[k])' /\ LeftBy(i, pairs[k], first)'
               /\ \A i \in 1..pos : \E k \in DOMAIN pairs' : EndsOf(pairs'[k]) = EndsOf(Lines[i])
  <2>1. HalvesOK(first)' <=>
          /\ \A k \in DOMAIN pairs' : EarlierOK(pairs'[k].entries)
          /\ \A k \in DOMAIN pairs' : \E i \in 1..(pos' - 1) : LatestOf(i, pairs[k])' /\ LeftBy(i, pairs[k], first)'
          /\ \A i \in 1..(pos' - 1) : \E k \in DOMAIN pairs' : EndsOf(pairs'[k]) = EndsOf(Lines'[i])
    BY DEF HalvesOK, EarlierOK, Complete
  <2> QED  BY <1>1, <1>2, <2>1
<1>5. /\ \A k \in DOMAIN pairs : EarlierOK(pairs[k].entries)
      /\ \A k \in DOMAIN pairs : \E i \in 1..(pos - 1) : LatestOf(i, pairs[k]) /\ LeftBy(i, pairs[k], first)
      /\ \A i \in 1..(pos - 1) : \E k \in DOMAIN pairs : EndsOf(pairs[k]) = EndsOf(Lines[i])
  BY DEF HalvesOK
<1>6. ASSUME NEW k \in DOMAIN pairs, pairs'[k] = pairs[k], EndsOf(pairs[k]) # EndsOf(l)
      PROVE  \E i \in 1..pos : LatestOf(i, pairs[k])' /\ LeftBy(i, pairs[k], first)'
  <2>1. PICK i \in 1..(pos - 1) : LatestOf(i, pairs[k]) /\ LeftBy(i, pairs[k], first)
    BY <1>5
  <2> PICK p : p = pairs[k]
    OBVIOUS
  <2>2. LatestOf(i, p)'
    BY <1>1, <1>6, <2>1, LatestNow
  <2>3. LeftBy(i, pairs[k], first)'
    BY <1>1, <1>6, <2>1 DEF LeftBy, HalfOpen, Complete
  <2>4. LatestOf(i, pairs[k])'
    BY <1>6, <2>2 DEF LatestOf, EndsOf
  <2> QED  BY <1>3, <2>3, <2>4
<1>7. ASSUME NEW k \in DOMAIN pairs', EndsOf(pairs'[k]) = EndsOf(l),
             IF pos \in first THEN HalfOpen(Last(pairs'[k].entries), pairs'[k], l)
             ELSE Complete(Last(pairs'[k].entries))
      PROVE  \E i \in 1..pos : LatestOf(i, pairs[k])' /\ LeftBy(i, pairs[k], first)'
  <2> PICK p : p = pairs'[k]
    OBVIOUS
  <2> PICK i : i = pos
    OBVIOUS
  <2>2. LatestOf(i, p)'
    BY <1>1, <1>7, LatestNow
  <2>3. LatestOf(i, pairs[k])'
    BY <2>2 DEF LatestOf, EndsOf
  <2>4. LeftBy(i, pairs[k], first)'
    BY <1>1, <1>7 DEF LeftBy, HalfOpen, Complete
  <2> QED  BY <1>3, <2>3, <2>4
<1>8. CASE NewPair(l)
  <2> DEFINE n == Len(pairs)
  <2>1. /\ n \in Nat /\ DOMAIN pairs = 1..n /\ DOMAIN pairs' = 1..(n + 1)
        /\ \A i \in DOMAIN pairs : pairs'[i] = pairs[i]
        /\ pairs'[n + 1] = PairOf(l)
        /\ \A i \in DOMAIN pairs : EndsOf(pairs[i]) # EndsOf(l)
    BY <1>8, NewPairs
  <2> HIDE DEF n
  <2>2. pos \in first
    BY <1>1, <2>1, ExpectedHere
  <2>3. /\ PairOf(l).src = l.src /\ EndsOf(PairOf(l)) = EndsOf(l)
        /\ HalfOpen(Last(PairOf(l).entries), PairOf(l), l)
    <3> DEFINE e == EntryOf(l, l.metric, Missing)
    <3>1. PairOf(l).src = l.src /\ PairOf(l).dst = l.dst /\ PairOf(l).entries = <<e>>
      BY DEF PairOf
    <3>2. e.f = l.metric /\ e.r = Missing /\ e.delay = l.delay
      BY DEF EntryOf
    <3> HIDE DEF e
    <3>3. Last(<<e>>) = e
      BY DEF Last
    <3> HIDE DEF l
    <3>4. HalfOpen(e, PairOf(l), l)
      BY <3>1, <3>2 DEF HalfOpen
    <3> QED  BY <3>1, <3>3, <3>4 DEF EndsOf
  <2>4. n + 1 \in DOMAIN pairs' /\ \A k \in DOMAIN pairs' : k = n + 1 \/ k \in DOMAIN pairs
    BY <2>1
  <2>5. \A k \in DOMAIN pairs' : \E i \in 1..pos : LatestOf(i, pairs[k])' /\ LeftBy(i, pairs[k], first)'
    <3> SUFFICES ASSUME NEW k \in DOMAIN pairs'
                 PROVE  \E i \in 1..pos : LatestOf(i, pairs[k])' /\ LeftBy(i, pairs[k], first)'
      OBVIOUS
    <3>1. CASE k \in DOMAIN pairs
      BY <1>6, <2>1, <3>1
    <3>2. CASE k = n + 1
      <4>1. pairs'[k] = PairOf(l)
        BY <2>1, <3>2
      <4> HIDE DEF l
      <4>2. EndsOf(pairs'[k]) = EndsOf(l) /\ HalfOpen(Last(pairs'[k].entries), pairs'[k], l)
        BY <2>3, <4>1, Zenon
      <4> QED  BY <1>7, <2>2, <4>2
    <3> QED  BY <2>4, <3>1, <3>2
  <2>6. ASSUME NEW i \in 1..pos PROVE \E k \in DOMAIN pairs' : EndsOf(pairs'[k]) = EndsOf(Lines[i])
    <3>1. CASE i = pos
      <4>1. EndsOf(pairs'[n + 1]) = EndsOf(Lines[i])
        BY <2>1, <2>3, <3>1, Zenon
      <4> QED  BY <2>4, <4>1
    <3>2. CASE i \in 1..(pos - 1)
      <4>1. PICK k \in DOMAIN pairs : EndsOf(pairs[k]) = EndsOf(Lines[i])
        BY <1>5, <3>2
      <4>2. EndsOf(pairs'[k]) = EndsOf(pairs[k])
        BY <2>1, Zenon
      <4>3. k \in DOMAIN pairs'
        BY <2>1
      <4> QED  BY <4>1, <4>2, <4>3
    <3> QED  BY <1>2, <3>1, <3>2
  <2>7. \A k \in DOMAIN pairs' : EarlierOK(pairs'[k].entries)
    <3>1. PICK e : PairOf(l).entries = <<e>>
      BY DEF PairOf
    <3>2. EarlierOK(PairOf(l).entries)
      BY <3>1 DEF EarlierOK
    <3> QED  BY <1>5, <2>1, <2>4, <3>2
  <2> QED  BY <2>5, <2>6, <2>7
<1>9. CASE ~NewPair(l)
  <2>1. PICK k \in DOMAIN pairs, c \in {1, 2} : \E t, n : Taken(k, t, n, c, first)
    BY <1>9, LineTaken
  <2>2. PICK t, n : Taken(k, t, n, c, first)
    BY <2>1
  <2>3. /\ pairs' = [pairs EXCEPT ![k].entries = t]
        /\ EndsOf(pairs[k]) = EndsOf(l)
        /\ IF pos \in first THEN HalfOpen(Last(t), pairs[k], l) ELSE Complete(Last(t))
        /\ EarlierOK(t)
    BY <2>2 DEF Taken
  <2>4. /\ DOMAIN pairs' = DOMAIN pairs
        /\ pairs'[k].entries = t /\ pairs'[k].src = pairs[k].src /\ pairs'[k].dst = pairs[k].dst
        /\ \A i \in DOMAIN pairs : i # k => pairs'[i] = pairs[i]
    BY <2>3, TakenPairs
  <2>5. \A j \in DOMAIN pairs : EndsOf(pairs'[j]) = EndsOf(pairs[j])
    BY <2>4 DEF EndsOf
  <2>6. \A j \in DOMAIN pairs' : \E i \in 1..pos : LatestOf(i, pairs[j])' /\ LeftBy(i, pairs[j], first)'
    <3> SUFFICES ASSUME NEW j \in DOMAIN pairs'
                 PROVE  \E i \in 1..pos : LatestOf(i, pairs[j])' /\ LeftBy(i, pairs[j], first)'
      OBVIOUS
    <3>1. CASE j = k
      <4>1. EndsOf(pairs'[j]) = EndsOf(l)
        BY <2>3, <2>5, <3>1
      <4>2. IF pos \in first THEN HalfOpen(Last(pairs'[j].entries), pairs'[j], l)
            ELSE Complete(Last(pairs'[j].entries))
        BY <2>3, <2>4, <3>1 DEF HalfOpen
      <4> QED  BY <1>7, <4>1, <4>2
    <3>2. CASE j # k
      <4>1. j \in DOMAIN pairs /\ pairs'[j] = pairs[j]
        BY <2>4, <3>2
      <4>2. EndsOf(pairs[j]) # EndsOf(l)
        <5>1. EndsOf(pairs[j]) # EndsOf(pairs[k])
          BY <3>2, <4>1, OneDirectionEnds DEF ParserInv
        <5> QED  BY <2>3, <5>1
      <4> QED  BY <1>6, <4>1, <4>2
    <3> QED  BY <3>1, <3>2
  <2>7. ASSUME NEW i \in 1..pos PROVE \E j \in DOMAIN pairs' : EndsOf(pairs'[j]) = EndsOf(Lines[i])
    <3>1. CASE i = pos
      BY <2>3, <2>4, <2>5, <3>1
    <3>2. CASE i \in 1..(pos - 1)
      BY <1>5, <2>4, <2>5, <3>2
    <3> QED  BY <1>2, <3>1, <3>2
  <2>8. \A j \in DOMAIN pairs' : EarlierOK(pairs'[j].entries)
    <3> SUFFICES ASSUME NEW j \in DOMAIN pairs' PROVE EarlierOK(pairs'[j].entries)
      OBVIOUS
    <3>1. CASE j = k
      BY <2>3, <2>4, <3>1
    <3>2. CASE j # k
      <4>1. j \in DOMAIN pairs /\ pairs'[j] = pairs[j]
        BY <2>4, <3>2
      <4> QED  BY <1>5, <4>1
    <3> QED  BY <3>1, <3>2
  <2> QED  BY <2>6, <2>7, <2>8
<1> QED  BY <1>8, <1>9

-----------------------------------------------------------------------------
(* Every line read has a place of its own in the dictionary                *)

\* The places of the lines that the pairs ps account for: pair, entry,
\* direction; and the texts of those lines.
PlacesOf(ps) == {x \in (DOMAIN ps) \X Nat \X {1, 2} : x[2] \in DOMAIN ps[x[1]].entries}
TextsOf(ps) == [x \in PlacesOf(ps) |-> Accounted(ps[x[1]], ps[x[1]].entries[x[2]])[x[3]]]

\* A place, by its parts.
LEMMA PlaceParts ==
  ASSUME NEW ps, NEW x \in PlacesOf(ps)
  PROVE  \E k \in DOMAIN ps, i \in Nat, c \in {1, 2} : x = <<k, i, c>> /\ i \in DOMAIN ps[k].entries
<1>1. PICK k \in DOMAIN ps, i \in Nat, c \in {1, 2} : x = <<k, i, c>>
  BY DEF PlacesOf
<1>2. x[2] \in DOMAIN ps[x[1]].entries /\ x[1] = k /\ x[2] = i
  BY <1>1 DEF PlacesOf
<1> QED  BY <1>1, <1>2

\* The text of a place.
LEMMA PlaceText ==
  ASSUME NEW ps, NEW k \in DOMAIN ps, NEW i \in Nat, NEW c \in {1, 2}, i \in DOMAIN ps[k].entries,
         NEW y, y = Accounted(ps[k], ps[k].entries[i])[c], NEW x, x = <<k, i, c>>
  PROVE  x \in PlacesOf(ps) /\ TextsOf(ps)[x] = y
<1>1. x[1] = k /\ x[2] = i /\ x[3] = c
  OBVIOUS
<1>2. x \in PlacesOf(ps)
  BY <1>1 DEF PlacesOf
<1>3. TextsOf(ps)[x] = Accounted(ps[x[1]], ps[x[1]].entries[x[2]])[x[3]]
  BY <1>2 DEF TextsOf
<1> QED  BY <1>1, <1>2, <1>3

\* One more element, at a place that no other has.
LEMMA OneMorePlace ==
  ASSUME NEW n \in Nat \ {0}, NEW s, NEW Q, NEW u, NEW m, NEW q \in Q, u[q] = s[n],
         \A i \in 1..(n - 1) : m[i] \in Q /\ u[m[i]] = s[i] /\ m[i] # q,
         OneToOne(m, 1..(n - 1))
  PROVE  \E w : Fits(w, 1..n, s, Q, u)
<1> PICK w : w = [i \in 1..n |-> IF i = n THEN q ELSE m[i]]
  OBVIOUS
<1>1. \A i \in 1..n : w[i] = IF i = n THEN q ELSE m[i]
  OBVIOUS
<1>2. \A i \in 1..n : i = n \/ i \in 1..(n - 1)
  OBVIOUS
<1>3. \A i \in 1..n : w[i] \in Q /\ u[w[i]] = s[i]
  BY <1>1, <1>2
<1>4. \A i, j \in 1..n : w[i] = w[j] => i = j
  BY <1>1, <1>2 DEF OneToOne
<1> QED  BY <1>3, <1>4 DEF Fits, OneToOne

\* The next line takes a place that is new, and the others keep theirs.
LEMMA ReadFits ==
  ASSUME ParserInv, ReadLine, NEW first, PairedBy(first), HalvesOK(first),
         NEW m, Fits(m, 1..(pos - 1), Texts, PlacesOf(pairs), TextsOf(pairs))
  PROVE  \E w : Fits(w, 1..pos, Texts, PlacesOf(pairs'), TextsOf(pairs'))
<1> DEFINE l == Lines[pos]
           Q == PlacesOf(pairs')
           u == TextsOf(pairs')
<1>1. /\ Reading /\ pos \in DOMAIN Lines /\ pos \in Nat \ {0} /\ IsLine(l)
  BY ReadingLine DEF ReadLine, ParserInv, CursorsOK
<1>2. \A i \in 1..(pos - 1) : i \in DOMAIN Lines
  <2>1. Len(Lines) \in Nat /\ DOMAIN Lines = 1..Len(Lines)
    BY Indices DEF ParserInv, InputOK
  <2> QED  BY <1>1, <2>1
<1>3. Texts[pos] = Text(l) /\ \A i \in 1..(pos - 1) : Texts[i] = Text(Lines[i])
  BY <1>1, <1>2 DEF Texts
<1>4. ASSUME NEW i \in 1..(pos - 1)
      PROVE  \E k \in DOMAIN pairs, e \in Nat, c \in {1, 2} :
               /\ m[i] = <<k, e, c>> /\ e \in DOMAIN pairs[k].entries
               /\ Accounted(pairs[k], pairs[k].entries[e])[c] = Texts[i]
               /\ Metric(pairs[k].entries[e], c) # Missing
  <2>1. m[i] \in PlacesOf(pairs) /\ TextsOf(pairs)[m[i]] = Texts[i]
    BY DEF Fits
  <2>2. PICK k \in DOMAIN pairs, e \in Nat, c \in {1, 2} : m[i] = <<k, e, c>> /\ e \in DOMAIN pairs[k].entries
    BY <2>1, PlaceParts
  <2> PICK y : y = Accounted(pairs[k], pairs[k].entries[e])[c]
    OBVIOUS
  <2>3. y = Texts[i]
    <3>1. TextsOf(pairs)[m[i]] = y
      BY <2>2, PlaceText
    <3> QED  BY <2>1, <3>1
  <2>4. IsLine(Lines[i])
    BY <1>2 DEF ParserInv, InputOK
  <2>5. Metric(pairs[k].entries[e], c) # Missing
    <3>1. Accounted(pairs[k], pairs[k].entries[e])[c] = Text(Lines[i])
      BY <1>3, <2>3
    <3> QED  BY <2>4, <3>1, TextMetric
  <2> QED  BY <2>2, <2>3, <2>5
<1>5. OneToOne(m, 1..(pos - 1))
  BY DEF Fits
<1> HIDE DEF l, Q, u
<1> DEFINE Has(k, e, c) == e \in DOMAIN pairs[k].entries /\ Metric(pairs[k].entries[e], c) # Missing
           Keeping(k, e, c, x, q) == x \in Q /\ x # q /\ u[x] = Accounted(pairs[k], pairs[k].entries[e])[c]
<1>6. ASSUME NEW q \in Q, u[q] = Text(l),
             \A k \in DOMAIN pairs, e \in Nat, c \in {1, 2} : \A x :
               Has(k, e, c) /\ x = <<k, e, c>> => Keeping(k, e, c, x, q)
      PROVE  \E w : Fits(w, 1..pos, Texts, PlacesOf(pairs'), TextsOf(pairs'))
  <2>1. u[q] = Texts[pos]
    BY <1>3, <1>6
  <2>2. ASSUME NEW i \in 1..(pos - 1) PROVE m[i] \in Q /\ u[m[i]] = Texts[i] /\ m[i] # q
    <3>1. PICK k \in DOMAIN pairs, e \in Nat, c \in {1, 2} :
               /\ m[i] = <<k, e, c>> /\ e \in DOMAIN pairs[k].entries
               /\ Accounted(pairs[k], pairs[k].entries[e])[c] = Texts[i]
               /\ Metric(pairs[k].entries[e], c) # Missing
      BY <1>4
    <3>2. Keeping(k, e, c, m[i], q)
      <4>1. Has(k, e, c)
        BY <3>1
      <4> HIDE DEF Has, Keeping
      <4> QED  BY <1>6, <3>1, <4>1
    <3> QED  BY <3>1, <3>2
  <2>3. \E w : Fits(w, 1..pos, Texts, Q, u)
    <3> HIDE DEF Texts
    <3> QED  BY <1>1, <1>5, <2>1, <2>2, OneMorePlace
  <2> QED  BY <2>3 DEF Q, u
<1>7. CASE NewPair(l)
  <2> DEFINE n == Len(pairs)
  <2>1. /\ n \in Nat /\ DOMAIN pairs = 1..n /\ DOMAIN pairs' = 1..(n + 1)
        /\ \A i \in DOMAIN pairs : pairs'[i] = pairs[i]
        /\ pairs'[n + 1] = PairOf(l)
    BY <1>7, NewPairs DEF l
  <2> HIDE DEF n
  <2> DEFINE e == EntryOf(l, l.metric, Missing)
  <2>2. PairOf(l).src = l.src /\ PairOf(l).dst = l.dst /\ PairOf(l).entries = <<e>>
    BY DEF PairOf
  <2>3. e.f = l.metric /\ e.delay = l.delay
    BY DEF EntryOf
  <2> HIDE DEF e
  <2>4. 1 \in DOMAIN <<e>> /\ <<e>>[1] = e
    OBVIOUS
  <2>5. Accounted(PairOf(l), e)[1] = Text(l)
    BY <1>1, <2>2, <2>3, AccountedIs, LinkText DEF l
  <2>6. n + 1 \in DOMAIN pairs' /\ \A k \in DOMAIN pairs : k \in DOMAIN pairs' /\ k # n + 1
    BY <2>1
  <2> PICK q : q = <<n + 1, 1, 1>>
    OBVIOUS
  <2>7. q \in Q /\ u[q] = Text(l)
    <3>1. pairs'[n + 1].entries = <<e>> /\ Accounted(pairs'[n + 1], pairs'[n + 1].entries[1])[1] = Text(l)
      BY <2>1, <2>2, <2>4, <2>5
    <3> QED  BY <2>4, <2>6, <3>1, PlaceText DEF Q, u
  <2>8. ASSUME NEW k \in DOMAIN pairs, NEW i \in Nat, NEW c \in {1, 2}, NEW x,
               Has(k, i, c), x = <<k, i, c>>
        PROVE  Keeping(k, i, c, x, q)
    <3>1. k \in DOMAIN pairs' /\ pairs'[k] = pairs[k] /\ k # n + 1
      BY <2>1, <2>6
    <3>2. x # q
      BY <2>8, <3>1
    <3> PICK y : y = Accounted(pairs[k], pairs[k].entries[i])[c]
      OBVIOUS
    <3>3. y = Accounted(pairs'[k], pairs'[k].entries[i])[c] /\ i \in DOMAIN pairs'[k].entries
      BY <2>8, <3>1
    <3>4. x \in Q /\ u[x] = y
      BY <2>8, <3>1, <3>3, PlaceText DEF Q, u
    <3> QED  BY <3>2, <3>4
  <2> HIDE DEF Has, Keeping
  <2> QED  BY <1>6, <2>7, <2>8
<1>8. CASE ~NewPair(l)
  <2>1. PICK k \in DOMAIN pairs, c \in {1, 2} : \E t, n : Taken(k, t, n, c, first)
    BY <1>8, LineTaken DEF l
  <2>2. PICK t, n : Taken(k, t, n, c, first)
    BY <2>1
  <2>3. /\ pairs' = [pairs EXCEPT ![k].entries = t]
        /\ n \in DOMAIN t /\ n \in Nat /\ Accounted(pairs[k], t[n])[c] = Text(l)
        /\ Keeps(pairs[k].entries, t, pairs[k], n, c)
    BY <2>2 DEF Taken, l
  <2>4. /\ DOMAIN pairs' = DOMAIN pairs
        /\ pairs'[k].entries = t /\ pairs'[k].src = pairs[k].src /\ pairs'[k].dst = pairs[k].dst
        /\ \A i \in DOMAIN pairs : i # k => pairs'[i] = pairs[i]
    BY <2>3, TakenPairs
  <2>5. \A i \in Nat : Accounted(pairs'[k], t[i]) = Accounted(pairs[k], t[i])
    BY <2>4 DEF Accounted
  <2> PICK q : q = <<k, n, c>>
    OBVIOUS
  <2>6. q \in Q /\ u[q] = Text(l)
    <3> PICK y : y = Text(l)
      OBVIOUS
    <3>1. y = Accounted(pairs'[k], pairs'[k].entries[n])[c] /\ n \in DOMAIN pairs'[k].entries
      BY <2>3, <2>4, <2>5
    <3>2. k \in DOMAIN pairs'
      BY <2>4
    <3>3. n \in Nat
      BY <2>3
    <3>4. q \in PlacesOf(pairs') /\ TextsOf(pairs')[q] = y
      BY <3>1, <3>2, <3>3, PlaceText
    <3> QED  BY <3>4 DEF Q, u
  <2>7. ASSUME NEW j \in DOMAIN pairs, NEW i \in Nat, NEW d \in {1, 2}, NEW x,
               Has(j, i, d), x = <<j, i, d>>
        PROVE  Keeping(j, i, d, x, q)
    <3> PICK y : y = Accounted(pairs[j], pairs[j].entries[i])[d]
      OBVIOUS
    <3>1. CASE j = k
      <4>1. i \in DOMAIN t /\ Accounted(pairs[k], t[i])[d] = y /\ ~(i = n /\ d = c)
        BY <2>3, <2>7, <3>1 DEF Keeps
      <4>2. y = Accounted(pairs'[j], pairs'[j].entries[i])[d] /\ i \in DOMAIN pairs'[j].entries
        BY <2>4, <2>5, <3>1, <4>1
      <4>3. x \in Q /\ u[x] = y
        BY <2>4, <2>7, <4>2, PlaceText DEF Q, u
      <4>4. x # q
        BY <2>7, <4>1
      <4> QED  BY <4>3, <4>4
    <3>2. CASE j # k
      <4>1. j \in DOMAIN pairs' /\ pairs'[j] = pairs[j]
        BY <2>4, <3>2
      <4>2. y = Accounted(pairs'[j], pairs'[j].entries[i])[d] /\ i \in DOMAIN pairs'[j].entries
        BY <2>7, <4>1
      <4>3. x \in Q /\ u[x] = y
        BY <2>7, <4>1, <4>2, PlaceText DEF Q, u
      <4>4. x # q
        BY <2>7, <3>2
      <4> QED  BY <4>3, <4>4
    <3> QED  BY <3>1, <3>2
  <2> HIDE DEF Has, Keeping
  <2> QED  BY <1>6, <2>6, <2>7
<1> QED  BY <1>7, <1>8

-----------------------------------------------------------------------------
(* Every line left has a place in a pair that is not printed yet           *)

\* The places of the lines that the pairs not yet printed account for.
Unprinted == {x \in PlacesOf(pairs) : next <= x[1]}

\* A pair is printed: what is left fits the pairs that come after it.
LEMMA PrintFits ==
  ASSUME ParserInv, PrintPair, left \in Seq(ToSet(Texts)), Placed(left, Unprinted, TextsOf(pairs))
  PROVE  Placed(left', Unprinted', TextsOf(pairs'))
<1> DEFINE p == pairs[next]
           s == p.entries
           n == Len(s)
           ss == AccountedBy(p)
           a == FlattenSeq(ss)
<1>1. left' = FoldLeft(RemoveFirst, left, a) /\ pairs' = pairs /\ next' = next + 1
  BY DEF PrintPair, AccountedBy
<1>2. next \in DOMAIN pairs /\ next \in Nat /\ DOMAIN pairs = 1..Len(pairs) /\ Len(pairs) \in Nat
  BY DEF PrintPair, ParserInv, CursorsOK, PairsOK
<1>3. s \in Seq(Entry)
  BY <1>2 DEF ParserInv, PairsOK, GoodEntries
<1>4. s = p.entries
  OBVIOUS
<1> HIDE DEF s
<1>5. /\ \E U : ss \in Seq(Seq(U))
      /\ n \in Nat /\ DOMAIN s = 1..n /\ Len(ss) = n
      /\ \A i \in 1..n : ss[i] = Accounted(p, s[i]) /\ DOMAIN Accounted(p, s[i]) = {1, 2}
  BY <1>3, <1>4, AccountedLists
<1> HIDE DEF p, n, ss
<1>6. PICK U : ss \in Seq(Seq(U))
  BY <1>5
<1>7. a \in Seq(U) /\ \E h : Placing(h, ss, n, a)
  BY <1>5, <1>6, FlattenPlaces
<1>8. PICK h : Placing(h, ss, n, a)
  BY <1>7
<1> HIDE DEF a
<1> DEFINE T == TextsOf(pairs)
<1> PICK g : g = [j \in DOMAIN a |-> <<next, h[j][1], h[j][2]>>]
  OBVIOUS
<1>9. ASSUME NEW j \in DOMAIN a
      PROVE  \E e \in 1..n, c \in {1, 2} : h[j] = <<e, c>> /\ a[j] = Accounted(p, s[e])[c]
  <2>1. h[j] \in Places(ss, n) /\ Element(ss, h[j]) = a[j]
    BY <1>8 DEF Placing
  <2>2. PICK e \in 1..n, c \in Nat : h[j] = <<e, c>>
    BY <2>1 DEF Places
  <2>3. c \in DOMAIN ss[e] /\ ss[e][c] = a[j]
    BY <2>1, <2>2 DEF Places, Element
  <2> QED  BY <1>5, <2>2, <2>3
<1>10. ASSUME NEW j \in DOMAIN a PROVE T[g[j]] = a[j]
  <2>1. PICK e \in 1..n, c \in {1, 2} : h[j] = <<e, c>> /\ a[j] = Accounted(p, s[e])[c]
    BY <1>9
  <2>2. g[j] = <<next, e, c>>
    BY <2>1
  <2>3. e \in Nat /\ e \in DOMAIN pairs[next].entries
    BY <1>5 DEF s, p
  <2> PICK y : y = Accounted(p, s[e])[c]
    OBVIOUS
  <2>4. y = Accounted(pairs[next], pairs[next].entries[e])[c]
    BY DEF s, p
  <2>5. a[j] = y
    BY <2>1
  <2> PICK x : x = <<next, e, c>>
    OBVIOUS
  <2> PICK k : k = next
    OBVIOUS
  <2>6. k \in DOMAIN pairs /\ e \in DOMAIN pairs[k].entries /\ e \in Nat /\ x = <<k, e, c>>
        /\ y = Accounted(pairs[k], pairs[k].entries[e])[c]
    BY <1>2, <2>3, <2>4
  <2>7. TextsOf(pairs)[x] = y
    BY <2>6, PlaceText
  <2> QED  BY <2>2, <2>5, <2>7 DEF T
<1>11. ASSUME NEW x \in Unprinted, \A j \in DOMAIN a : x # g[j]
       PROVE  x \in Unprinted'
  <2>1. PICK k \in DOMAIN pairs, e \in Nat, c \in {1, 2} : x = <<k, e, c>> /\ e \in DOMAIN pairs[k].entries
    BY PlaceParts DEF Unprinted
  <2>2. x \in PlacesOf(pairs) /\ next <= k /\ x[1] = k
    BY <2>1 DEF Unprinted
  <2>3. ASSUME k = next PROVE FALSE
    <3>1. e \in 1..n
      BY <1>5, <2>1, <2>3 DEF s, p
    <3>2. <<e, c>> \in Places(ss, n)
      BY <1>5, <3>1 DEF Places
    <3>3. PICK j \in DOMAIN a : h[j] = <<e, c>>
      BY <1>8, <3>2 DEF Placing
    <3>4. g[j] = <<next, e, c>>
      BY <3>3
    <3> QED  BY <1>11, <2>1, <2>3, <3>4
  <2>4. next + 1 <= k
    BY <1>2, <2>2, <2>3
  <2>5. x \in PlacesOf(pairs')
    BY <1>1, <2>2
  <2> QED  BY <1>1, <2>2, <2>4, <2>5 DEF Unprinted
<1> PICK R, z, Q, b, t : R = Unprinted /\ z = left /\ Q = Unprinted' /\ b = a /\ t = T
  OBVIOUS
<1>12. Placed(z, R, t) /\ AllBut(R, Q, t, b, g)
  <2>1. Placed(z, R, t)
    OBVIOUS
  <2> HIDE DEF T
  <2>2. \A j \in DOMAIN b : t[g[j]] = b[j]
    BY <1>10
  <2>3. \A x \in R : x \in Q \/ \E j \in DOMAIN b : x = g[j]
    BY <1>11
  <2> QED  BY <2>1, <2>2, <2>3 DEF AllBut
<1>13. GivesUp(z, left', b)
  <2> HIDE DEF T
  <2>1. GivesUp(left, FoldLeft(RemoveFirst, left, a), a)
    BY <1>7, PlacesGivenUp
  <2> QED  BY <1>1, <2>1
<1>14. Placed(left', Q, t)
  BY <1>12, <1>13 DEF GivesUp
<1> QED  BY <1>1, <1>14

-----------------------------------------------------------------------------
(* The invariant of a well-formed topology                                 *)

\* A topology whose lines are paired by `first' leaves nothing unaccounted.
AcceptOK(first) ==
  /\ HalvesOK(first)
  /\ status = "reading" => /\ left = Texts
                           /\ \E m : Fits(m, 1..(pos - 1), Texts, PlacesOf(pairs), TextsOf(pairs))
  /\ status # "reading" => pos = Len(Lines) + 1
  /\ status = "printing" => Placed(left, Unprinted, TextsOf(pairs))
  /\ status # "crashed"
  /\ status = "rejected" => ~FileConnected

AcceptInv == \A first : PairedBy(first) => AcceptOK(first)

\* It holds before any line is read.
LEMMA InitAccept == Init => AcceptInv
<1> SUFFICES ASSUME Init, NEW first, PairedBy(first) PROVE AcceptOK(first)
  BY DEF AcceptInv
<1>1. pos = 1 /\ pairs = <<>> /\ status = "reading" /\ left = Texts
  BY DEF Init, Texts
<1>2. \A i \in 1..(pos - 1) : FALSE
  BY <1>1
<1>3. HalvesOK(first)
  BY <1>1, <1>2 DEF HalvesOK
<1>4. Fits(<<>>, 1..(pos - 1), Texts, PlacesOf(pairs), TextsOf(pairs))
  BY <1>2 DEF Fits, OneToOne
<1> QED  BY <1>1, <1>3, <1>4 DEF AcceptOK

\* What depends on the file only.
LEMMA SameFile ==
  ASSUME file' = file
  PROVE  /\ Lines' = Lines /\ Texts' = Texts /\ (FileConnected' <=> FileConnected)
         /\ \A first : PairedBy(first)' <=> PairedBy(first)
<1>1. Lines' = Lines
  BY DEF Lines
<1>2. Texts' = Texts /\ FileNames' = FileNames
  BY <1>1 DEF Texts, FileNames
<1>3. FileConnected' <=> FileConnected
  BY <1>1, <1>2 DEF FileConnected, EndsOf, Connected
<1>4. PlainLinks' <=> PlainLinks
  BY <1>1 DEF PlainLinks
<1>5. \A i, j : NextBetween(i, j)' <=> NextBetween(i, j)
  BY <1>1 DEF NextBetween, EndsOf
<1>6. \A first : Paired(first)' <=> Paired(first)
  BY <1>1, <1>5 DEF Paired
<1> QED  BY <1>1, <1>2, <1>3, <1>4, <1>6 DEF PairedBy

\* A step that reads no line.
LEMMA HalvesKept ==
  ASSUME UNCHANGED <<file, pos, pairs>>, NEW first, HalvesOK(first)
  PROVE  HalvesOK(first)'
BY DEF HalvesOK, EarlierOK, LatestOf, LeftBy, HalfOpen, Complete, EndsOf, Lines

\* One more line is read.
LEMMA ReadAccept ==
  ASSUME ParserInv, ReadLine, NEW first, PairedBy(first), AcceptOK(first)
  PROVE  AcceptOK(first)'
<1>1. /\ status = "reading" /\ pos' = pos + 1 /\ pos \in Nat /\ pos' - 1 = pos
      /\ Texts' = Texts /\ left' = left /\ status' = status
  BY DEF ReadLine, ReadOn, Reading, ParserInv, CursorsOK, Texts, Lines
<1>2. HalvesOK(first)'
  BY ReadHalves DEF AcceptOK
<1>3. PICK m : Fits(m, 1..(pos - 1), Texts, PlacesOf(pairs), TextsOf(pairs))
  BY <1>1 DEF AcceptOK
<1>4. PICK w : Fits(w, 1..pos, Texts, PlacesOf(pairs'), TextsOf(pairs'))
  BY <1>3, ReadFits DEF AcceptOK
<1>5. \E x : Fits(x, 1..(pos' - 1), Texts', PlacesOf(pairs'), TextsOf(pairs'))
  BY <1>1, <1>4
<1> QED  BY <1>1, <1>2, <1>5 DEF AcceptOK

\* All the lines are read: each has a place, and no pair is printed yet.
LEMMA EndAccept ==
  ASSUME ParserInv, EndReading, NEW first, PairedBy(first), AcceptOK(first)
  PROVE  AcceptOK(first)'
<1>1. /\ status = "reading" /\ pos = Len(Lines) + 1 /\ next = 1 /\ status' = "printing"
      /\ Len(Lines) \in Nat /\ DOMAIN Lines = 1..Len(Lines) /\ pos - 1 = Len(Lines)
      /\ UNCHANGED <<file, pos, pairs, next, left>> /\ Lines' = Lines
  <2>1. Len(Lines) \in Nat /\ DOMAIN Lines = 1..Len(Lines)
    BY Indices DEF ParserInv, InputOK
  <2> QED  BY <2>1 DEF EndReading, ParserInv, CursorsOK, Lines, PairedBy
<1>2. HalvesOK(first)'
  BY <1>1, HalvesKept DEF AcceptOK
<1>3. DOMAIN left = 1..(pos - 1) /\ left = Texts
  BY <1>1 DEF AcceptOK, Texts
<1>4. Unprinted = PlacesOf(pairs)
  <2>1. ASSUME NEW x \in PlacesOf(pairs) PROVE next <= x[1]
    <3>1. PICK k \in DOMAIN pairs, i \in Nat, c \in {1, 2} : x = <<k, i, c>>
      BY PlaceParts
    <3>2. DOMAIN pairs = 1..Len(pairs) /\ Len(pairs) \in Nat
      BY DEF ParserInv, PairsOK
    <3> QED  BY <1>1, <3>1, <3>2
  <2> QED  BY <2>1 DEF Unprinted
<1>5. Placed(left, Unprinted, TextsOf(pairs))
  BY <1>1, <1>3, <1>4 DEF AcceptOK, Placed
<1>6. Placed(left, Unprinted, TextsOf(pairs))'
  BY <1>1, <1>5 DEF Placed, Unprinted
<1> QED  BY <1>1, <1>2, <1>6 DEF AcceptOK

\* One more pair is printed.
LEMMA PrintAccept ==
  ASSUME ParserInv, BalanceInv, PrintPair, NEW first, AcceptOK(first)
  PROVE  AcceptOK(first)'
<1>1. UNCHANGED <<file, pos, pairs, status>> /\ status = "printing" /\ Lines' = Lines
  BY DEF PrintPair, Lines
<1>2. HalvesOK(first)'
  BY <1>1, HalvesKept DEF AcceptOK
<1>3. Placed(left', Unprinted', TextsOf(pairs'))
  BY <1>1, PrintFits DEF AcceptOK, BalanceInv
<1> QED  BY <1>1, <1>2, <1>3 DEF AcceptOK

\* The graph that the script checks has the nodes and the links of the file.
LEMMA FileGraph ==
  ASSUME ParserInv, NumberInv, NEW first, PairedBy(first), HalvesOK(first), pos = Len(Lines) + 1
  PROVE  Connected(ToSet(nodes), Edges) <=> FileConnected
<1>1. /\ Len(Lines) \in Nat /\ DOMAIN Lines = 1..(pos - 1)
      /\ DOMAIN pairs = 1..Len(pairs)
      /\ \A i \in DOMAIN Lines : Lines[i].metric \in Nat \ {0}
  <2>1. Len(Lines) \in Nat /\ DOMAIN Lines = 1..Len(Lines)
    BY Indices DEF ParserInv, InputOK
  <2> QED  BY <2>1 DEF ParserInv, InputOK, PairsOK, IsLine, PairedBy, PlainLinks
<1>2. \A i \in DOMAIN Lines : \E k \in DOMAIN pairs : EndsOf(pairs[k]) = EndsOf(Lines[i])
  BY <1>1 DEF HalvesOK
<1>3. ASSUME NEW k \in DOMAIN pairs
      PROVE  /\ \E i \in DOMAIN Lines : EndsOf(pairs[k]) = EndsOf(Lines[i])
             /\ LastEntry(k).f # 0 \/ LastEntry(k).r # 0
  <2>1. PICK i \in DOMAIN Lines : LatestOf(i, pairs[k]) /\ LeftBy(i, pairs[k], first)
    BY <1>1 DEF HalvesOK
  <2> QED  BY <1>1, <2>1 DEF LatestOf, LeftBy, HalfOpen, Complete, LastEntry
<1>4. ToSet(nodes) = FileNames
  <2>1. ToSet(nodes) \in SUBSET FileNames
    BY DEF ParserInv, NodesOK, ToSet
  <2>2. ASSUME NEW i \in DOMAIN Lines PROVE Lines[i].src \in ToSet(nodes) /\ Lines[i].dst \in ToSet(nodes)
    BY <1>2 DEF NumberInv, EndsOf
  <2> QED  BY <2>1, <2>2 DEF FileNames
<1>5. Edges = {EndsOf(Lines[i]) : i \in DOMAIN Lines}
  <2>1. \A k \in DOMAIN pairs : EndsOf(pairs[k]) \in Edges
    BY <1>3 DEF Edges, EndsOf, LastEntry, ToSet
  <2>2. ASSUME NEW x \in Edges PROVE \E k \in DOMAIN pairs : x = EndsOf(pairs[k])
    BY DEF Edges, EndsOf, ToSet
  <2>3. \A i \in DOMAIN Lines : EndsOf(Lines[i]) \in Edges
    BY <1>2, <2>1
  <2>4. \A x \in Edges : \E i \in DOMAIN Lines : x = EndsOf(Lines[i])
    BY <1>3, <2>2
  <2> QED  BY <2>3, <2>4
<1> QED  BY <1>4, <1>5 DEF FileConnected

\* Every pair is printed: nothing is left.
LEMMA FinishAccept ==
  ASSUME ParserInv, NumberInv, BalanceInv, Finish, NEW first, PairedBy(first), AcceptOK(first)
  PROVE  AcceptOK(first)'
<1>1. UNCHANGED <<file, pos, pairs>> /\ Lines' = Lines 
  BY DEF Finish, Lines
<1>2. HalvesOK(first)'
  BY <1>1, HalvesKept DEF AcceptOK
<1>3. pos = Len(Lines) + 1 /\ Placed(left, Unprinted, TextsOf(pairs))
  BY DEF Finish, AcceptOK
<1>4. Unprinted = {}
  <2> SUFFICES ASSUME NEW x \in Unprinted PROVE FALSE
    OBVIOUS
  <2>1. PICK k \in DOMAIN pairs, i \in Nat, c \in {1, 2} : x = <<k, i, c>>
    BY PlaceParts DEF Unprinted
  <2>2. DOMAIN pairs = 1..Len(pairs) /\ Len(pairs) \in Nat /\ next > Len(pairs) /\ next \in Nat
    BY DEF ParserInv, PairsOK, CursorsOK, Finish
  <2>3. next <= x[1]
    BY DEF Unprinted
  <2> QED  BY <2>1, <2>2, <2>3
<1>5. left = <<>>
  <2>1. \A i \in DOMAIN left : FALSE
    BY <1>3, <1>4 DEF Placed, Fits
  <2> DEFINE S == ToSet(Texts)
  <2>2. left \in Seq(S)
    BY DEF BalanceInv
  <2> HIDE DEF S
  <2>3. Len(left) \in Nat /\ DOMAIN left = 1..Len(left)
    BY <2>2
  <2>4. Len(left) = 0
    <3> SUFFICES ASSUME Len(left) # 0 PROVE FALSE  OBVIOUS
    <3>1. 1 \in DOMAIN left
      BY <2>3
    <3> QED  BY <2>1, <3>1
  <2> QED  BY <2>2, <2>4
<1>6. status' = "rejected" => ~FileConnected
  BY <1>3, <1>5, FileGraph DEF Finish, AcceptOK
<1>7. status' \in {"accepted", "rejected"}
  BY DEF Finish
<1> QED  BY <1>1, <1>2, <1>3, <1>6, <1>7, SameFile DEF AcceptOK

\* The .map of a topology knows the nodes of every pair.
LEMMA NamesKnown ==
  ASSUME ParserInv, NumberInv, file.kind = "topology"
  PROVE  ~UnknownName
<1> SUFFICES ASSUME UnknownName PROVE FALSE
  OBVIOUS
<1>1. ToSet(map) = FileNames
  BY SeenNames DEF UnknownName, NumberInv, ParserInv, InputOK
<1>2. next \in DOMAIN pairs
  BY DEF UnknownName, ParserInv, PairsOK, CursorsOK
<1>3. pairs[next] \in Pair
  BY <1>2 DEF ParserInv, PairsOK
<1>4. pairs[next].src \in FileNames /\ pairs[next].dst \in FileNames
  <2> HIDE DEF FileNames
  <2> QED  BY <1>3 DEF Pair
<1> QED  BY <1>1, <1>4 DEF UnknownName

\* Every step keeps it.
LEMMA NextAccept == ParserInv /\ NumberInv /\ BalanceInv /\ AcceptInv /\ [Next]_vars => AcceptInv'
<1> SUFFICES ASSUME ParserInv, NumberInv, BalanceInv, AcceptInv, [Next]_vars PROVE AcceptInv'
  OBVIOUS
<1>1. file' = file
  BY DEF Next, vars, ReadLine, ReadOn, EndReading, PrintPair, Unexpected, UnknownName, Finish, Terminated
<1> SUFFICES ASSUME NEW first, PairedBy(first) PROVE AcceptOK(first)'
  BY <1>1, SameFile DEF AcceptInv
<1>2. AcceptOK(first)
  BY DEF AcceptInv
<1>3. CASE ReadLine
  BY <1>2, <1>3, ReadAccept
<1>4. CASE Unexpected
  BY <1>2, <1>4, AllExpected DEF AcceptOK, Unexpected
<1>5. CASE EndReading
  BY <1>2, <1>5, EndAccept
<1>6. CASE PrintPair
  BY <1>2, <1>6, PrintAccept
<1>7. CASE UnknownName
  BY <1>7, NamesKnown DEF PairedBy
<1>8. CASE Finish
  BY <1>2, <1>8, FinishAccept
<1>9. CASE Terminated \/ UNCHANGED vars
  <2>1. UNCHANGED <<pos, pairs, next, left, status>>
    BY <1>9 DEF Terminated, vars
  <2>2. HalvesOK(first)'
    BY <1>1, <1>2, <2>1, HalvesKept DEF AcceptOK
  <2>3. /\ Texts' = Texts /\ Lines' = Lines /\ Unprinted' = Unprinted
        /\ PlacesOf(pairs') = PlacesOf(pairs) /\ TextsOf(pairs') = TextsOf(pairs)
        /\ (FileConnected' <=> FileConnected)
    BY <1>1, <2>1, SameFile DEF Unprinted
  <2> QED  BY <1>2, <2>1, <2>2, <2>3 DEF AcceptOK
<1> QED  BY <1>3, <1>4, <1>5, <1>6, <1>7, <1>8, <1>9 DEF Next

\* The invariants of this module that the parser's users need, together.
LEMMA AcceptInductive == Spec => [](ParserInv /\ NumberInv /\ BalanceInv /\ AcceptInv)
<1>1. Init => ParserInv /\ NumberInv /\ BalanceInv /\ AcceptInv
  BY InitParserInv, InitNumber, InitBalance, InitAccept
<1>2. ParserInv /\ NumberInv /\ BalanceInv /\ AcceptInv /\ [Next]_vars
        => (ParserInv /\ NumberInv /\ BalanceInv /\ AcceptInv)'
  BY NextParserInv, NextNumber, NextBalance, NextAccept
<1> QED  BY <1>1, <1>2, PTL DEF Spec

\* A topology in which every link is given by two consecutive lines of its two
\* nodes, one for each direction and with the same delay, and which is
\* connected, is accepted, whatever the order of its links and whichever
\* direction comes first (ntf_parser.py:40-67, 124-151).
THEOREM AlwaysAccepted == Spec => []WellFormedAccepted
<1>1. ParserInv /\ AcceptInv => WellFormedAccepted
  <2> SUFFICES ASSUME ParserInv, AcceptInv, Ended, file.kind = "topology", WellFormed, FileConnected
               PROVE  status = "accepted"
    BY DEF WellFormedAccepted
  <2>1. PICK first : PairedBy(first)
    BY DEF WellFormed, PairedBy
  <2> QED  BY <2>1 DEF AcceptInv, AcceptOK, Ended
<1> QED  BY <1>1, AcceptInductive, PTL

\* When the file is read, every link has both metrics.
LEMMA AllComplete ==
  ASSUME ParserInv, NEW first, PairedBy(first), HalvesOK(first), pos = Len(Lines) + 1,
         NEW k \in DOMAIN pairs, NEW e \in DOMAIN pairs[k].entries
  PROVE  Complete(pairs[k].entries[e])
<1> DEFINE s == pairs[k].entries
           N == Len(Lines)
<1>1. N \in Nat /\ DOMAIN Lines = 1..N /\ pos = N + 1 /\ pos - 1 = N
  BY Indices DEF ParserInv, InputOK
<1>2. Len(s) \in Nat /\ e \in 1..Len(s) /\ EarlierOK(s) /\ Last(s) = s[Len(s)]
  BY DEF ParserInv, PairsOK, GoodEntries, HalvesOK, Last
<1> HIDE DEF N
<1>3. PICK i \in 1..N : LatestOf(i, pairs[k]) /\ LeftBy(i, pairs[k], first)
  BY <1>1 DEF HalvesOK
<1>4. ASSUME i \in first PROVE FALSE
  <2>1. PICK j \in DOMAIN Lines \ first : NextBetween(i, j)
    BY <1>4 DEF PairedBy, Paired
  <2>2. j \in (i + 1)..(pos - 1)
    BY <1>1, <1>3, <2>1 DEF NextBetween
  <2>3. EndsOf(Lines[j]) = EndsOf(Lines[i])
    BY <2>1 DEF NextBetween
  <2> QED  BY <1>3, <2>2, <2>3 DEF LatestOf
<1>5. Complete(s[Len(s)])
  BY <1>2, <1>3, <1>4 DEF LeftBy
<1>6. e = Len(s) \/ e \in 1..(Len(s) - 1)
  BY <1>2
<1> HIDE DEF s
<1>7. Complete(s[e])
  BY <1>2, <1>5, <1>6 DEF EarlierOK
<1> QED  BY <1>7 DEF s

\* Every row of a well-formed topology has both metrics.
LEMMA RowsComplete ==
  ASSUME ParserInv, BalanceInv, AcceptInv, file.kind = "topology", WellFormed, NEW i \in DOMAIN rows
  PROVE  rows[i].f \in Nat \ {0} /\ rows[i].r \in Nat \ {0}
<1>1. PICK first : PairedBy(first)
  BY DEF WellFormed, PairedBy
<1>2. AcceptOK(first)
  BY <1>1 DEF AcceptInv
<1>3. status # "reading"
  BY DEF ParserInv, CursorsOK
<1>4. PICK o : Origins(o)
  BY DEF BalanceInv
<1>5. PICK k \in 1..(next - 1) : \E e \in DOMAIN pairs[k].entries :
        \A c \in {1, 2} : Metric(rows[i], c) = Metric(pairs[k].entries[e], c)
  BY <1>4 DEF Origins
<1>6. PICK e \in DOMAIN pairs[k].entries :
        \A c \in {1, 2} : Metric(rows[i], c) = Metric(pairs[k].entries[e], c)
  BY <1>5
<1>7. k \in DOMAIN pairs
  <2>1. DOMAIN pairs = 1..Len(pairs) /\ Len(pairs) \in Nat /\ next \in 1..(Len(pairs) + 1)
    BY DEF ParserInv, PairsOK, CursorsOK
  <2> QED  BY <2>1
<1>8. Complete(pairs[k].entries[e])
  BY <1>1, <1>2, <1>3, <1>7, AllComplete DEF AcceptOK
<1>9. rows[i].f = pairs[k].entries[e].f /\ rows[i].r = pairs[k].entries[e].r
  BY <1>6 DEF Metric
<1> QED  BY <1>8, <1>9 DEF Complete

\* The metric of a row of an accepted topology is that of a line.
LEMMA RowFromLine ==
  ASSUME ParserInv, AcceptedFaithful, status = "accepted", file.kind = "topology",
         PlainLinks, NEW y \in Directions
  PROVE  \E j \in DOMAIN Lines : Lines[j].metric = Metric(rows[y[1]], y[2])
<1> DEFINE E == ExpressedRows
           T == Texts
<1>1. ToBag(FlattenSeq(E)) = ToBag(T)
  BY Zenon DEF AcceptedFaithful, ExpressedRows, Texts
<1>2. PICK U : E \in Seq(Seq(U))
  BY ExpressedPlaces
<1>3. PlaceIn(y) \in Places(E, Len(E)) /\ Element(E, PlaceIn(y)) = LineAt(y)
  BY ExpressedPlaces
<1>4. \A x : x \in ToSet(T) <=> \E j \in DOMAIN Lines : x = Text(Lines[j])
  BY DEF ToSet, Texts
<1> HIDE DEF E, T
<1>5. PICK g : Placing(g, E, Len(E), FlattenSeq(E))
  BY <1>2, FlattenPlaces
<1>6. PICK k \in DOMAIN FlattenSeq(E) : g[k] = PlaceIn(y)
  BY <1>3, <1>5 DEF Placing
<1>7. FlattenSeq(E)[k] = LineAt(y)
  BY <1>3, <1>5, <1>6 DEF Placing
<1>8. LineAt(y) \in ToSet(FlattenSeq(E))
  BY <1>7 DEF ToSet
<1>9. LineAt(y) \in ToSet(T)
  BY <1>1, <1>8, SameBagSameSet
<1>10. PICK j \in DOMAIN Lines : LineAt(y) = Text(Lines[j])
  BY <1>4, <1>9
<1>11. Text(Lines[j]) = Plain(Lines[j].src, Lines[j].dst, Lines[j].metric, Lines[j].delay)
  BY DEF PlainLinks, Text
<1>12. LineAt(y)[3] = Metric(rows[y[1]], y[2])
  BY DEF LineAt, Plain, Metric
<1>13. Text(Lines[j])[3] = Lines[j].metric
  BY <1>11 DEF Plain
<1> QED  BY <1>10, <1>12, <1>13

-----------------------------------------------------------------------------
(* Topologies that give each direction of a link once                      *)

DirectionsOnce == \A i, j \in DOMAIN Lines :
  Lines[i].src = Lines[j].src /\ Lines[i].dst = Lines[j].dst => i = j

\* Line i of s is the first about its two nodes.
Opens(s, i) == \A j \in 1..(i - 1) : EndsOf(s[j]) # EndsOf(s[i])

\* Pair p is the link that one of the first n lines opens, and has its reverse
\* metric if the reverse is one of them.
OpenedBy(p, i) ==
  Opens(Lines, i) /\ p.src = Lines[i].src /\ p.dst = Lines[i].dst /\ p.entries[1].f = Lines[i].metric
OnePair(p, n) ==
  /\ Len(p.entries) = 1
  /\ \E i \in 1..n : OpenedBy(p, i)
  /\ p.entries[1].r # Missing => \E j \in 1..n : Lines[j].src = p.dst /\ Lines[j].dst = p.src

RowOfPair(x, p) ==
  map[x.src + 1] = p.src /\ map[x.dst + 1] = p.dst /\ x.f = p.entries[1].f

\* The dictionary has one link for each pair of nodes of the lines read, the
\* rows are the pairs printed so far, and nothing stops the script before the
\* last of them.
OnceInv ==
  file.kind = "topology" /\ DirectionsOnce =>
    /\ \A k \in DOMAIN pairs : OnePair(pairs[k], pos - 1)
    /\ \A i \in 1..(pos - 1) : \E k \in DOMAIN pairs : EndsOf(pairs[k]) = EndsOf(Lines[i])
    /\ Len(rows) = next - 1 /\ \A i \in DOMAIN rows : RowOfPair(rows[i], pairs[i])
    /\ status # "reading" => map = nodes /\ pos = Len(Lines) + 1
    /\ Ended => next = Len(pairs) + 1

LEMMA InitOnce == Init => OnceInv
BY DEF Init, OnceInv, Ended

\* A line is the first of its direction: its pair is new or lacks its metric.
LEMMA ReadOnce ==
  ASSUME ParserInv, OnceInv, ReadLine \/ Unexpected, file.kind = "topology", DirectionsOnce
  PROVE  /\ ReadLine
         /\ \/ NewPair(Lines[pos])
            \/ \E k \in DOMAIN pairs : SetReverse(Lines[pos], k)
<1> DEFINE l == Lines[pos]
<1>1. Reading
  BY DEF ReadLine, Unexpected
<1>2. pos \in DOMAIN Lines /\ Len(Lines) \in Nat /\ DOMAIN Lines = 1..Len(Lines)
  BY <1>1, ReadingLine, Indices DEF ParserInv, InputOK
<1>3. \A i \in 1..(pos - 1) : i \in DOMAIN Lines /\ i # pos
  BY <1>2
<1>4. \A k \in DOMAIN pairs : OnePair(pairs[k], pos - 1)
  BY DEF OnceInv
<1>5. Forward(l) = {}
  <2> SUFFICES ASSUME NEW k \in Forward(l) PROVE FALSE
    OBVIOUS
  <2>1. k \in DOMAIN pairs /\ pairs[k].src = l.src /\ pairs[k].dst = l.dst
    BY DEF Forward, At
  <2>2. PICK i \in 1..(pos - 1) : Lines[i].src = pairs[k].src /\ Lines[i].dst = pairs[k].dst
    BY <1>4, <2>1 DEF OnePair, OpenedBy
  <2> QED  BY <1>2, <1>3, <2>1, <2>2 DEF DirectionsOnce
<1>6. ASSUME NEW k \in Reversed(l) PROVE LastEntry(k).r = Missing
  <2> SUFFICES ASSUME LastEntry(k).r # Missing PROVE FALSE
    OBVIOUS
  <2>1. k \in DOMAIN pairs /\ pairs[k].src = l.dst /\ pairs[k].dst = l.src
    BY DEF Reversed, At
  <2>2. OnePair(pairs[k], pos - 1)
    BY <1>4, <2>1
  <2>3. LastEntry(k) = pairs[k].entries[1]
    BY <2>2 DEF OnePair, LastEntry, Last
  <2>4. PICK j \in 1..(pos - 1) : Lines[j].src = pairs[k].dst /\ Lines[j].dst = pairs[k].src
    BY <2>2, <2>3 DEF OnePair
  <2> QED  BY <1>2, <1>3, <2>1, <2>4 DEF DirectionsOnce
<1>7. ReadLine
  BY <1>5 DEF Unexpected
<1> QED  BY <1>5, <1>6, <1>7 DEF ReadLine, NewReverse, SetForward, NewForward

LEMMA NewPairOnce ==
  ASSUME ParserInv, OnceInv, Reading, ReadOn, NewPair(Lines[pos]), file.kind = "topology", DirectionsOnce
  PROVE  OnceInv'
<1> DEFINE l == Lines[pos]
           p == PairOf(l)
           n == Len(pairs)
<1>1. /\ Lines' = Lines /\ file' = file /\ rows' = rows /\ map' = map /\ next' = next
      /\ status' = "reading" /\ pos' = pos + 1
      /\ rows = <<>> /\ next = 1
  BY DEF ReadOn, Reading, Lines, ParserInv, CursorsOK
<1>2. pos \in DOMAIN Lines /\ pos \in Nat /\ pos' - 1 = pos
  BY <1>1, ReadingLine DEF ParserInv, CursorsOK
<1>3. /\ \A k \in DOMAIN pairs : OnePair(pairs[k], pos - 1)
      /\ \A i \in 1..(pos - 1) : \E k \in DOMAIN pairs : EndsOf(pairs[k]) = EndsOf(Lines[i])
  BY DEF OnceInv
<1>4. \A k \in DOMAIN pairs : EndsOf(pairs[k]) # EndsOf(l)
  <2> SUFFICES ASSUME NEW k \in DOMAIN pairs, EndsOf(pairs[k]) = EndsOf(l) PROVE FALSE
    OBVIOUS
  <2>1. \/ pairs[k].src = l.src /\ pairs[k].dst = l.dst
        \/ pairs[k].src = l.dst /\ pairs[k].dst = l.src
    BY DEF EndsOf
  <2>2. Forward(l) = {} /\ {i \in DOMAIN pairs : At(i, l.dst, l.src)} = {}
    BY DEF NewPair, Reversed
  <2> QED  BY <2>1, <2>2 DEF Forward, At
<1>5. Opens(Lines, pos)
  BY <1>3, <1>4 DEF Opens
<1>6. /\ p.src = l.src /\ p.dst = l.dst /\ Len(p.entries) = 1
      /\ p.entries[1].f = l.metric /\ p.entries[1].r = Missing
      /\ EndsOf(p) = EndsOf(l)
  BY DEF PairOf, EntryOf, EndsOf
<1>7. pairs' = Append(pairs, p)
  BY DEF NewPair, PairOf
<1> HIDE DEF p
<1>8. /\ n \in Nat /\ DOMAIN pairs = 1..n /\ DOMAIN pairs' = 1..(n + 1)
      /\ \A k \in 1..n : pairs'[k] = pairs[k]
      /\ pairs'[n + 1] = p
  <2>1. pairs \in Seq(Pair)
    BY DEF ParserInv, PairsOK
  <2>2. pairs \in Seq(Pair \cup {p})
    BY <2>1, SeqMonotonic
  <2> QED  BY <1>7, <2>2, AppendProperties
<1> HIDE DEF n
<1>9. \A i \in 1..(pos - 1) : i \in 1..pos
  BY <1>2
<1>10. OnePair(p, pos)
  <2>1. pos \in 1..pos
    BY <1>1, <1>2 DEF ParserInv, CursorsOK
  <2>2. OpenedBy(p, pos)
    BY <1>5, <1>6 DEF OpenedBy
  <2> QED  BY <1>6, <2>1, <2>2 DEF OnePair
<1>11. \A k \in DOMAIN pairs : OnePair(pairs[k], pos)
  BY <1>3, <1>9 DEF OnePair
<1>12. \A k \in 1..(n + 1) : k \in 1..n \/ k = n + 1
  BY <1>8
<1>13. \A k \in DOMAIN pairs' : OnePair(pairs'[k], pos)
  BY <1>8, <1>10, <1>11, <1>12
<1>14. \A i \in 1..pos : \E k \in DOMAIN pairs' : EndsOf(pairs'[k]) = EndsOf(Lines[i])
  <2> SUFFICES ASSUME NEW i \in 1..pos
               PROVE  \E k \in DOMAIN pairs' : EndsOf(pairs'[k]) = EndsOf(Lines[i])
    OBVIOUS
  <2>1. n + 1 \in DOMAIN pairs' /\ \A k \in DOMAIN pairs : k \in DOMAIN pairs' /\ pairs'[k] = pairs[k]
    BY <1>8
  <2>2. i = pos \/ i \in 1..(pos - 1)
    BY <1>2
  <2>3. CASE i = pos
    <3>1. EndsOf(pairs'[n + 1]) = EndsOf(Lines[i])
      BY <1>6, <1>8, <2>3
    <3> QED  BY <2>1, <3>1
  <2>4. CASE i \in 1..(pos - 1)
    <3>1. PICK k \in DOMAIN pairs : EndsOf(pairs[k]) = EndsOf(Lines[i])
      BY <1>3, <2>4
    <3>2. EndsOf(pairs'[k]) = EndsOf(Lines[i])
      BY <2>1, <3>1
    <3> QED  BY <2>1, <3>2
  <2> QED  BY <2>2, <2>3, <2>4
<1>15. \A k \in DOMAIN pairs' : OnePair(pairs[k], pos - 1)'
  BY <1>1, <1>2, <1>13 DEF OnePair, OpenedBy, Opens, EndsOf
<1>16. \A i \in 1..(pos' - 1) : \E k \in DOMAIN pairs' : EndsOf(pairs'[k]) = EndsOf(Lines'[i])
  BY <1>1, <1>2, <1>14
<1>17. Len(rows') = next' - 1 /\ DOMAIN rows' = {}
  BY <1>1
<1> QED  BY <1>1, <1>15, <1>16, <1>17 DEF OnceInv, Ended, EndsOf

LEMMA SetReverseOnce ==
  ASSUME ParserInv, OnceInv, Reading, ReadOn, NEW k \in DOMAIN pairs, SetReverse(Lines[pos], k),
         file.kind = "topology", DirectionsOnce
  PROVE  OnceInv'
<1> DEFINE l == Lines[pos]
           x == LastEntry(k)
           e == [x EXCEPT !.r = l.metric]
           s == pairs[k].entries
<1>1. /\ Lines' = Lines /\ file' = file /\ rows' = rows /\ map' = map /\ next' = next
      /\ status' = "reading" /\ pos' = pos + 1
      /\ rows = <<>> /\ next = 1
  BY DEF ReadOn, Reading, Lines, ParserInv, CursorsOK
<1>2. pos \in DOMAIN Lines /\ pos \in Nat /\ pos \in 1..pos /\ pos' - 1 = pos
  BY <1>1, ReadingLine DEF ParserInv, CursorsOK
<1>3. /\ \A j \in DOMAIN pairs : OnePair(pairs[j], pos - 1)
      /\ \A i \in 1..(pos - 1) : \E j \in DOMAIN pairs : EndsOf(pairs[j]) = EndsOf(Lines[i])
  BY DEF OnceInv
<1>4. pairs[k].src = l.dst /\ pairs[k].dst = l.src
  BY DEF SetReverse, Reversed, At
<1>5. s \in Seq(Entry) /\ Len(s) = 1 /\ x = s[1] /\ x \in Entry
  <2>1. OnePair(pairs[k], pos - 1)
    BY <1>3
  <2>2. s \in Seq(Entry) /\ Len(s) = 1
    BY <2>1 DEF OnePair, ParserInv, PairsOK, GoodEntries
  <2> QED  BY <2>2 DEF LastEntry, Last
<1>6. e \in Entry /\ e.f = x.f
  <2>1. l.metric \in Missable
    BY ReadingLine DEF IsLine, Missable
  <2> QED  BY <1>5, <2>1 DEF Entry
<1> DEFINE t == Append(Front(s), e)
<1>7. Len(t) = 1 /\ t[1] = e
  <2>1. s # <<>>
    BY <1>5
  <2> HIDE DEF e, s
  <2>2. /\ t \in Seq(Entry) /\ DOMAIN t = 1..Len(s)
        /\ \A i \in 1..Len(s) : t[i] = IF i = Len(s) THEN e ELSE s[i]
    BY <1>5, <1>6, <2>1, LastSet
  <2> HIDE DEF t
  <2> QED  BY <1>5, <2>2
<1>8. pairs' = [pairs EXCEPT ![k].entries = t]
  BY DEF SetReverse, SetLast
<1> HIDE DEF t, e, x, s
<1>9. DOMAIN pairs' = DOMAIN pairs
  BY <1>8
<1>10. \A j \in DOMAIN pairs : /\ pairs'[j].src = pairs[j].src /\ pairs'[j].dst = pairs[j].dst
                               /\ j # k => pairs'[j].entries = pairs[j].entries
                               /\ j = k => pairs'[j].entries = t
  <2> SUFFICES ASSUME NEW j \in DOMAIN pairs
               PROVE  /\ pairs'[j].src = pairs[j].src /\ pairs'[j].dst = pairs[j].dst
                      /\ j # k => pairs'[j].entries = pairs[j].entries
                      /\ j = k => pairs'[j].entries = t
    OBVIOUS
  <2>1. pairs[j] \in Pair
    BY DEF ParserInv, PairsOK
  <2>2. DOMAIN pairs[j] = {"src", "dst", "entries"}
    BY <2>1 DEF Pair
  <2>3. pairs'[j] = IF j = k THEN [pairs[j] EXCEPT !.entries = t] ELSE pairs[j]
    BY <1>8
  <2> QED  BY <2>2, <2>3
<1>11. \A i \in 1..(pos - 1) : i \in 1..pos
  BY <1>2
<1>12. \A j \in DOMAIN pairs' : OnePair(pairs'[j], pos)
  <2> SUFFICES ASSUME NEW j \in DOMAIN pairs PROVE OnePair(pairs'[j], pos)
    BY <1>9
  <2>1. OnePair(pairs[j], pos - 1)
    BY <1>3
  <2>2. CASE j # k
    BY <1>10, <1>11, <2>1, <2>2 DEF OnePair, OpenedBy
  <2>3. CASE j = k
    <3>1. /\ pairs'[k].src = pairs[k].src /\ pairs'[k].dst = pairs[k].dst
          /\ Len(pairs'[k].entries) = 1 /\ pairs'[k].entries[1].f = pairs[k].entries[1].f
      BY <1>5, <1>6, <1>7, <1>10 DEF s
    <3>2. \E i \in 1..pos : OpenedBy(pairs'[k], i)
      BY <1>11, <2>1, <2>3, <3>1 DEF OnePair, OpenedBy
    <3>3. Lines[pos].src = pairs'[k].dst /\ Lines[pos].dst = pairs'[k].src
      BY <1>4, <3>1 DEF l
    <3> QED  BY <1>2, <2>3, <3>1, <3>2, <3>3 DEF OnePair
  <2> QED  BY <2>2, <2>3
<1>13. \A i \in 1..pos : \E j \in DOMAIN pairs' : EndsOf(pairs'[j]) = EndsOf(Lines[i])
  <2> SUFFICES ASSUME NEW i \in 1..pos
               PROVE  \E j \in DOMAIN pairs : EndsOf(pairs'[j]) = EndsOf(Lines[i])
    BY <1>9
  <2>1. \A j \in DOMAIN pairs : EndsOf(pairs'[j]) = EndsOf(pairs[j])
    BY <1>10 DEF EndsOf
  <2>2. EndsOf(pairs[k]) = EndsOf(l)
    BY <1>4 DEF EndsOf
  <2>3. i = pos \/ i \in 1..(pos - 1)
    BY <1>2
  <2> QED  BY <1>3, <2>1, <2>2, <2>3
<1>14. \A j \in DOMAIN pairs' : OnePair(pairs[j], pos - 1)'
  BY <1>1, <1>2, <1>12 DEF OnePair, OpenedBy, Opens, EndsOf
<1>15. \A i \in 1..(pos' - 1) : \E j \in DOMAIN pairs' : EndsOf(pairs'[j]) = EndsOf(Lines'[i])
  BY <1>1, <1>2, <1>13
<1>16. Len(rows') = next' - 1 /\ DOMAIN rows' = {}
  BY <1>1
<1> QED  BY <1>1, <1>14, <1>15, <1>16 DEF OnceInv, Ended, EndsOf

LEMMA PrintOnce ==
  ASSUME ParserInv, OnceInv, PrintPair, file.kind = "topology", DirectionsOnce
  PROVE  OnceInv'
<1> DEFINE p == pairs[next]
           m == Len(rows)
<1>1. /\ Lines' = Lines /\ map' = map /\ pos' = pos /\ pairs' = pairs /\ nodes' = nodes
      /\ status' = "printing" /\ status = "printing" /\ next' = next + 1
  BY DEF PrintPair, Lines
<1>2. /\ next \in DOMAIN pairs /\ {p.src, p.dst} \subseteq ToSet(map)
      /\ m \in Nat /\ rows' \in Seq(Row) /\ Len(rows') = m + Len(p.entries)
      /\ \A i \in 1..m : rows'[i] = rows[i]
      /\ \A i \in 1..Len(p.entries) :
           rows'[m + i] = RowOf(p, p.entries[i]) /\ GoodEntry(p.src, p.dst, p.entries[i])
  BY RowsAdded
<1>3. /\ \A k \in DOMAIN pairs : OnePair(pairs[k], pos - 1)
      /\ \A i \in 1..(pos - 1) : \E k \in DOMAIN pairs : EndsOf(pairs[k]) = EndsOf(Lines[i])
      /\ m = next - 1 /\ \A i \in DOMAIN rows : RowOfPair(rows[i], pairs[i])
      /\ map = nodes /\ pos = Len(Lines) + 1
  BY <1>1 DEF OnceInv
<1>4. Len(p.entries) = 1
  BY <1>2, <1>3 DEF OnePair
<1>5. DOMAIN rows = 1..m /\ next \in Nat /\ p \in Pair /\ IsSequence(map)
  BY <1>2 DEF ParserInv, RowsOK, CursorsOK, PairsOK, InputOK
<1> HIDE DEF p, m
<1>6. /\ rows'[next] = RowOf(p, p.entries[1]) /\ GoodEntry(p.src, p.dst, p.entries[1])
      /\ Len(rows') = next /\ DOMAIN rows' = 1..next
  <2>1. 1 \in 1..Len(p.entries) /\ m + 1 = next
    BY <1>3, <1>4, <1>5
  <2> QED  BY <1>2, <1>4, <2>1
<1>7. RowOfPair(rows'[next], p)
  <2> DEFINE e == p.entries[1]
  <2>1. map[RowOf(p, e).src + 1] = p.src /\ map[RowOf(p, e).dst + 1] = p.dst
    BY <1>2, <1>5, <1>6, RowGood
  <2>2. RowOf(p, e).f = e.f
    BY DEF RowOf
  <2> QED  BY <1>6, <2>1, <2>2 DEF RowOfPair
<1>8. \A i \in 1..next : i = next \/ i \in 1..m
  BY <1>3, <1>5
<1>9. \A i \in DOMAIN rows' : RowOfPair(rows'[i], pairs[i])
  BY <1>2, <1>3, <1>5, <1>6, <1>7, <1>8 DEF p
<1>10. Len(rows') = next' - 1
  BY <1>1, <1>5, <1>6
<1>11. \A i \in DOMAIN rows' : RowOfPair(rows[i], pairs[i])'
  BY <1>1, <1>9 DEF RowOfPair
<1>12. \A k \in DOMAIN pairs' : OnePair(pairs[k], pos - 1)'
  BY <1>1, <1>3 DEF OnePair, OpenedBy, Opens, EndsOf
<1> QED  BY <1>1, <1>3, <1>10, <1>11, <1>12 DEF OnceInv, Ended, EndsOf

LEMMA NextOnce == ParserInv /\ NumberInv /\ OnceInv /\ [Next]_vars => OnceInv'
<1> SUFFICES ASSUME ParserInv, NumberInv, OnceInv, [Next]_vars, (file.kind = "topology" /\ DirectionsOnce)'
             PROVE  OnceInv'
  BY DEF OnceInv
<1>1. /\ Lines' = Lines /\ file' = file
  BY DEF Next, vars, ReadLine, ReadOn, EndReading, PrintPair, Unexpected, UnknownName, Finish,
         Terminated, Lines
<1>2. file.kind = "topology" /\ DirectionsOnce
  BY <1>1 DEF DirectionsOnce
<1>3. CASE ReadLine \/ Unexpected
  BY <1>2, <1>3, ReadOnce, NewPairOnce, SetReverseOnce DEF ReadLine
<1>4. CASE PrintPair
  BY <1>2, <1>4, PrintOnce
<1> DEFINE Same == UNCHANGED <<pos, nodes, pairs, next, rows>>
<1>5. ASSUME Same
      PROVE  /\ \A k \in DOMAIN pairs' : OnePair(pairs[k], pos - 1)'
             /\ \A i \in 1..(pos' - 1) : \E k \in DOMAIN pairs' : EndsOf(pairs[k])' = EndsOf(Lines[i])'
             /\ Len(rows') = next' - 1
  <2>1. /\ \A k \in DOMAIN pairs : OnePair(pairs[k], pos - 1)
        /\ \A i \in 1..(pos - 1) : \E k \in DOMAIN pairs : EndsOf(pairs[k]) = EndsOf(Lines[i])
        /\ Len(rows) = next - 1
    BY <1>2 DEF OnceInv
  <2>2. \A k \in DOMAIN pairs' : OnePair(pairs[k], pos - 1)'
    BY <1>1, <1>5, <2>1 DEF OnePair, OpenedBy, Opens, EndsOf
  <2>3. \A i \in 1..(pos' - 1) : \E k \in DOMAIN pairs' : EndsOf(pairs[k])' = EndsOf(Lines[i])'
    BY <1>1, <1>5, <2>1 DEF EndsOf
  <2> QED  BY <1>5, <2>1, <2>2, <2>3
<1>6. Same /\ map' = map => \A i \in DOMAIN rows' : RowOfPair(rows[i], pairs[i])'
  BY <1>2 DEF OnceInv, RowOfPair
<1>7. CASE EndReading
  <2>1. rows = <<>> /\ pos = Len(Lines) + 1 /\ map' = nodes /\ status' = "printing" /\ Same
    <3>1. Len(Lines) \in Nat
      BY Indices DEF ParserInv, InputOK
    <3>2. pos = Len(Lines) + 1
      BY <1>7, <3>1 DEF EndReading, ParserInv, CursorsOK
    <3> QED  BY <1>2, <1>7, <3>2 DEF EndReading, ParserInv, CursorsOK
  <2>2. \A i \in DOMAIN rows' : RowOfPair(rows[i], pairs[i])'
    BY <2>1
  <2> QED  BY <1>1, <1>5, <2>1, <2>2 DEF OnceInv, Ended, EndsOf
<1>8. CASE Finish
  <2>1. Same /\ map' = map /\ status = "printing" /\ status' # "reading" /\ next = Len(pairs) + 1
    <3>1. Len(pairs) \in Nat
      BY DEF ParserInv, PairsOK
    <3> QED  BY <1>8, <3>1 DEF Finish, ParserInv, CursorsOK
  <2>2. map = nodes /\ pos = Len(Lines) + 1
    BY <1>2, <2>1 DEF OnceInv
  <2> QED  BY <1>1, <1>5, <1>6, <2>1, <2>2 DEF OnceInv, Ended, EndsOf
<1>9. CASE UnknownName
  BY <1>2, <1>9, NamesKnown
<1>10. CASE Terminated \/ UNCHANGED vars
  <2>1. Same /\ map' = map /\ status' = status
    BY <1>10 DEF Terminated, vars
  <2>2. /\ status # "reading" => map = nodes /\ pos = Len(Lines) + 1
        /\ Ended => next = Len(pairs) + 1
    BY <1>2 DEF OnceInv
  <2> QED  BY <1>1, <1>5, <1>6, <2>1, <2>2 DEF OnceInv, Ended, EndsOf
<1> QED  BY <1>3, <1>4, <1>7, <1>8, <1>9, <1>10 DEF Next

\* The rows r, as links, are the lines that open a link in t: each has the
\* nodes of one of them, in its direction, and its metric, and each pair of
\* nodes has one.  The names are numbered one to one.
RowNames(x) == {map[x.src + 1], map[x.dst + 1]}
LinksOf(r, t) ==
  /\ \A c \in DOMAIN r :
       /\ r[c].src \in 0..(Len(map) - 1) /\ r[c].dst \in 0..(Len(map) - 1)
       /\ \E i \in DOMAIN t : /\ Opens(t, i) /\ r[c].f = t[i].metric
                              /\ map[r[c].src + 1] = t[i].src /\ map[r[c].dst + 1] = t[i].dst
  /\ \A i \in DOMAIN t : /\ EndsOf(t[i]) \subseteq ToSet(map)
                         /\ \E c \in DOMAIN r : RowNames(r[c]) = EndsOf(t[i])
  /\ \A c, x \in DOMAIN r : c # x => RowNames(r[c]) # RowNames(r[x])
  /\ IsInjective(map)

LEMMA OnceRows ==
  ASSUME ParserInv, NumberInv, OnceInv, Ended, file.kind = "topology", DirectionsOnce
  PROVE  LinksOf(rows, Lines)
<1>1. /\ \A k \in DOMAIN pairs : OnePair(pairs[k], pos - 1)
      /\ \A i \in 1..(pos - 1) : \E k \in DOMAIN pairs : EndsOf(pairs[k]) = EndsOf(Lines[i])
      /\ Len(rows) = next - 1 /\ \A i \in DOMAIN rows : RowOfPair(rows[i], pairs[i])
      /\ map = nodes /\ pos = Len(Lines) + 1 /\ next = Len(pairs) + 1
  BY DEF OnceInv, Ended
<1>2. /\ DOMAIN rows = DOMAIN pairs /\ 1..(pos - 1) = DOMAIN Lines
      /\ \A c \in DOMAIN rows : rows[c] \in Row
  <2>1. Len(Lines) \in Nat /\ DOMAIN Lines = 1..Len(Lines)
    BY Indices DEF ParserInv, InputOK
  <2>2. /\ Len(pairs) \in Nat /\ DOMAIN pairs = 1..Len(pairs)
        /\ Len(rows) \in Nat /\ DOMAIN rows = 1..Len(rows)
        /\ \A c \in DOMAIN rows : rows[c] \in Row
    BY DEF ParserInv, PairsOK, RowsOK
  <2>3. Len(rows) = Len(pairs) /\ pos - 1 = Len(Lines)
    BY <1>1, <2>1, <2>2
  <2> QED  BY <2>1, <2>2, <2>3
<1>3. \A c \in DOMAIN rows : RowNames(rows[c]) = EndsOf(pairs[c])
  BY <1>1 DEF RowOfPair, RowNames, EndsOf
<1>4. ASSUME NEW c \in DOMAIN rows
      PROVE  /\ rows[c].src \in 0..(Len(map) - 1) /\ rows[c].dst \in 0..(Len(map) - 1)
             /\ \E i \in DOMAIN Lines :
                  /\ Opens(Lines, i) /\ rows[c].f = Lines[i].metric
                  /\ map[rows[c].src + 1] = Lines[i].src /\ map[rows[c].dst + 1] = Lines[i].dst
  <2>1. OnePair(pairs[c], pos - 1) /\ RowOfPair(rows[c], pairs[c])
    BY <1>1, <1>2
  <2>2. PICK i \in DOMAIN Lines : OpenedBy(pairs[c], i)
    BY <1>2, <2>1 DEF OnePair
  <2>3. rows[c] \in Row
    BY <1>2
  <2>4. rows[c].src \in 0..(Len(map) - 1) /\ rows[c].dst \in 0..(Len(map) - 1)
    BY <2>3 DEF Row
  <2> QED  BY <2>1, <2>2, <2>4 DEF RowOfPair, OpenedBy
<1>5. ASSUME NEW i \in DOMAIN Lines
      PROVE  /\ EndsOf(Lines[i]) \subseteq ToSet(map)
             /\ \E c \in DOMAIN rows : RowNames(rows[c]) = EndsOf(Lines[i])
  <2>1. PICK k \in DOMAIN pairs : EndsOf(pairs[k]) = EndsOf(Lines[i])
    BY <1>1, <1>2
  <2>2. EndsOf(pairs[k]) \subseteq ToSet(nodes)
    BY DEF NumberInv
  <2>3. EndsOf(Lines[i]) \subseteq ToSet(map)
    BY <1>1, <2>1, <2>2
  <2> QED  BY <1>2, <1>3, <2>1, <2>3
<1>6. \A c, x \in DOMAIN rows : c # x => RowNames(rows[c]) # RowNames(rows[x])
  BY <1>2, <1>3, OneDirectionEnds DEF ParserInv
<1>7. IsInjective(map)
  BY <1>1 DEF ParserInv, NodesOK
<1> QED  BY <1>4, <1>5, <1>6, <1>7 DEF LinksOf

\* A failures file that names each pair of nodes once and only known nodes is
\* read to its end, and every line has its row.
KnownNames == \A i \in DOMAIN Lines : EndsOf(Lines[i]) \subseteq ToSet(map)
KnownInv ==
  file.kind = "failures" /\ EachOnce /\ KnownNames =>
    status \notin {"rejected", "crashed"} \/ Lines = <<>>

LEMMA InitKnown ==
  ASSUME status = "reading"
  PROVE  KnownInv
BY DEF KnownInv

LEMMA NextKnown == ParserInv /\ OrderInv /\ KnownInv /\ [Next]_vars => KnownInv'
<1> SUFFICES ASSUME ParserInv, OrderInv, KnownInv, [Next]_vars,
                    (file.kind = "failures" /\ EachOnce /\ KnownNames)', Lines' # <<>>
             PROVE  status' \notin {"rejected", "crashed"}
  BY DEF KnownInv
<1>1. /\ Lines' = Lines /\ file' = file
  BY DEF Next, vars, ReadLine, ReadOn, EndReading, PrintPair, Unexpected, UnknownName, Finish,
         Terminated, Lines
<1>2. file.kind = "failures" /\ EachOnce /\ map' = map
  BY <1>1 DEF EachOnce, Next, vars, ReadLine, ReadOn, EndReading, PrintPair, Unexpected, UnknownName,
              Finish, Terminated
<1>3. KnownNames /\ status \notin {"rejected", "crashed"}
  BY <1>1, <1>2 DEF KnownNames, KnownInv
<1>4. Len(Lines) \in Nat \ {0} /\ DOMAIN Lines = 1..Len(Lines)
  <2>1. IsSequence(Lines) /\ Lines # <<>>
    BY <1>1 DEF ParserInv, InputOK
  <2> QED  BY <2>1, EmptySeq, Indices DEF IsSequence
<1>5. /\ Len(pairs) = pos - 1 /\ \A k \in DOMAIN pairs : pairs[k] = PairOf(Lines[k])
      /\ status = "printing" => pos = Len(Lines) + 1
  BY <1>2 DEF OrderInv
<1>6. Len(pairs) \in Nat /\ DOMAIN pairs = 1..Len(pairs) /\ pos \in Nat
  BY DEF ParserInv, PairsOK, CursorsOK
<1>7. CASE Unexpected
  <2>1. PICK k \in Forward(Lines[pos]) : TRUE
    BY <1>7 DEF Unexpected
  <2>2. k \in DOMAIN pairs /\ pairs[k].src = Lines[pos].src /\ pairs[k].dst = Lines[pos].dst
    BY DEF Forward, At
  <2>3. k \in DOMAIN Lines /\ k # pos /\ pos \in DOMAIN Lines
    BY <1>4, <1>5, <1>6, <1>7, <2>2, ReadingLine DEF Unexpected, Reading
  <2>4. EndsOf(Lines[k]) = EndsOf(Lines[pos])
    BY <1>5, <2>2 DEF PairOf, EndsOf
  <2> QED  BY <1>2, <2>3, <2>4 DEF EachOnce
<1>8. CASE UnknownName
  <2>1. next \in DOMAIN pairs /\ ~({pairs[next].src, pairs[next].dst} \subseteq ToSet(map))
    BY <1>6, <1>8 DEF UnknownName, ParserInv, CursorsOK
  <2>2. next \in DOMAIN Lines /\ pairs[next] = PairOf(Lines[next])
    BY <1>4, <1>5, <1>6, <1>8, <2>1 DEF UnknownName
  <2> QED  BY <1>3, <2>1, <2>2 DEF KnownNames, PairOf, EndsOf
<1>9. CASE EndReading
  <2>1. map # <<>>
    <3>1. EndsOf(Lines[1]) \subseteq ToSet(map)
      BY <1>3, <1>4 DEF KnownNames
    <3> QED  BY <3>1 DEF EndsOf, ToSet
  <2> QED  BY <1>2, <1>9, <2>1 DEF EndReading
<1>10. CASE Finish
  BY <1>2, <1>10 DEF Finish
<1> QED  BY <1>3, <1>7, <1>8, <1>9, <1>10 DEF Next, ReadLine, ReadOn, PrintPair, Terminated, vars

LEMMA KnownRows ==
  ASSUME ParserInv, OrderInv, KnownInv, Ended, file.kind = "failures", EachOnce, KnownNames
  PROVE  Len(rows) = Len(Lines) /\ \A i \in DOMAIN rows : Says(rows[i], Lines[i])
<1>1. /\ Len(pairs) = pos - 1 /\ Len(rows) = next - 1
      /\ \A i \in DOMAIN rows : Says(rows[i], Lines[i])
      /\ status = "accepted" => pos = Len(Lines) + 1 /\ next = Len(pairs) + 1
  BY DEF OrderInv
<1>2. Len(Lines) \in Nat /\ DOMAIN Lines = 1..Len(Lines)
  BY Indices DEF ParserInv, InputOK
<1>3. CASE status = "accepted"
  BY <1>1, <1>2, <1>3
<1>4. CASE Lines = <<>>
  <2>1. DOMAIN Lines = {}
    BY <1>4
  <2>2. DOMAIN rows = {} /\ rows \in Seq(Row)
    BY <2>1 DEF ParserInv, RowsOK
  <2>3. rows = <<>>
    <3> HIDE DEF Row
    <3> QED  BY <2>2, EmptySeq
  <2> QED  BY <1>1, <1>4, <2>3
<1> QED  BY <1>3, <1>4 DEF KnownInv, Ended
=============================================================================
