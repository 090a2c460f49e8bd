----------------------------- MODULE UdpTrafficMC -----------------------------
(***************************************************************************)
(* Networks for TLC: one client whose packets are each lost, fast or slow, *)
(* and two clients that are cut once each, with one server or with one     *)
(* each.                                                                   *)
(***************************************************************************)
EXTENDS UdpTraffic

Flow(src, server) == [src |-> src, server |-> server]

MCFree == { [servers |-> 1, packets |-> 9, free |-> TRUE, flows |-> <<Flow("a", 1)>>] }

MCCutOnce ==
  { [servers |-> 1, packets |-> 15, free |-> FALSE, flows |-> <<Flow("a", 1), Flow("b", 1)>>],
    [servers |-> 2, packets |-> 15, free |-> FALSE, flows |-> <<Flow("a", 1), Flow("b", 2)>>] }

MCNetworks == MCFree \cup MCCutOnce
MCFails == <<4, 8>>
=============================================================================
