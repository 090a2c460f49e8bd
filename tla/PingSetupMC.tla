----------------------------- MODULE PingSetupMC -----------------------------
(***************************************************************************)
(* The files of NtfParserMC, taken as far as the started programs, and     *)
(* three larger ones: a ring and a full mesh of four nodes, and an         *)
(* interleaved ring.  The counters wrap within the interfaces and nodes    *)
(* these give: the interfaces' counter between the two ends of a link, the *)
(* loopbacks' between two nodes.                                           *)
(***************************************************************************)
EXTENDS PingSetup, NtfParserMC, Generators

\* A ring of four nodes, its lines in an order that interleaves the links.
Interleaved ==
  << Line("a", "b", 1, 5, Missing), Line("d", "c", 2, 5, Missing),
     Line("b", "a", 3, 5, Missing), Line("d", "a", 1, 7, Missing),
     Line("c", "d", 1, 5, Missing), Line("a", "d", 4, 7, Missing),
     Line("c", "b", 1, 5, Missing), Line("b", "c", 2, 5, Missing) >>

Four == <<"a", "b", "c", "d">>

MCNetworks ==
  MCFiles \cup { [kind |-> "topology", lines |-> s] : s \in {Interleaved, Ring(Four), FullMesh(Four)} }
=============================================================================
