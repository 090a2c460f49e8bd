----------------------------- MODULE FibParserMC -----------------------------
(***************************************************************************)
(* Networks for TLC: a line, which a failure partitions; a triangle with a *)
(* metric that sends one pair around; and a square of equal metrics, in    *)
(* which opposite nodes have two next hops and a failure makes transient   *)
(* loops.                                                                  *)
(***************************************************************************)
EXTENDS FibParser, TLC

Both(a, b, forth, back) == (<<a, b>> :> forth) @@ (<<b, a>> :> back)

Chain == [size |-> 3, failed |-> <<2, 3>>, cost |-> Both(1, 2, 1, 1) @@ Both(2, 3, 1, 1)]

Triangle == [size |-> 3, failed |-> <<1, 2>>,
             cost |-> Both(1, 2, 1, 2) @@ Both(2, 3, 1, 1) @@ Both(3, 1, 3, 1)]

Square == [size |-> 4, failed |-> <<1, 2>>,
           cost |-> Both(1, 2, 1, 1) @@ Both(2, 3, 1, 1) @@ Both(3, 4, 1, 1) @@ Both(4, 1, 1, 1)]

MCNetworks == {Chain, Triangle, Square}
=============================================================================
