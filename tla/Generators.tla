------------------------------ MODULE Generators ------------------------------
(***************************************************************************)
(* The topologies that ring.py and fm.py print, as lines of an NTF file.   *)
(* The scripts name the nodes 0, 1, ...; here node i is names[i + 1].      *)
(***************************************************************************)
EXTENDS NtfParser

PrintedLine(names, i, j) ==
  [src |-> names[i], dst |-> names[j], metric |-> 1, delay |-> 5, begin |-> Missing, end |-> Missing]

\* ring.py: each node and the next one, in both directions.
Ring(names) ==
  LET Dst(i) == IF i = Len(names) THEN 1 ELSE i + 1
  IN FlattenSeq([i \in DOMAIN names |-> << PrintedLine(names, i, Dst(i)), PrintedLine(names, Dst(i), i) >>])

\* fm.py: all ordered pairs.
FullMesh(names) ==
  FlattenSeq([i \in DOMAIN names |->
    LET others == SelectSeq([j \in DOMAIN names |-> j], LAMBDA j : j # i)
    IN [k \in DOMAIN others |-> PrintedLine(names, i, others[k])]])
=============================================================================
