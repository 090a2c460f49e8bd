-------------------------- MODULE FailureScheduleMC --------------------------
(***************************************************************************)
(* Topologies and failures files for TLC.  U32 is 2^20, so that -1 in      *)
(* milliseconds wraps to a time after the end of the run, as it does with  *)
(* 2^32.                                                                   *)
(***************************************************************************)
EXTENDS FailureSchedule, Generators

Line(src, dst, metric, delay) ==
  [src |-> src, dst |-> dst, metric |-> metric, delay |-> delay, begin |-> Missing, end |-> Missing]
Failure(src, dst, begin, end) == [Line(src, dst, 1, 5) EXCEPT !.begin = begin, !.end = end]

\* The lines of s in every order.
Orders(s) == { [i \in DOMAIN s |-> s[p[i]]] : p \in Permutations(DOMAIN s) }

Both(src, dst, metric, delay) == <<Line(src, dst, metric, delay), Line(dst, src, metric, delay)>>

Triangle == Both("a", "b", 2, 5) \o Both("b", "c", 1, 5) \o Both("c", "a", 1, 7)

\* Two links between a and b, in the directions a-b and then b-a, and one
\* between b and c.
Parallel == Both("a", "b", 1, 5) \o Both("b", "c", 1, 5) \o Both("b", "a", 1, 9)

\* The reverse of a line has another metric.
Asymmetric == <<Line("a", "b", 1, 5), Line("b", "a", 2, 5)>>

MCTopologies ==
  { [kind |-> "topology", lines |-> s] :
      s \in Orders(Triangle) \cup Orders(Both("a", "b", 1, 5) \o Both("b", "c", 1, 5))
            \cup {Parallel, Asymmetric, FullMesh(<<"a", "b", "c", "d">>), Ring(<<"a", "b", "c", "d">>)} }

\* Overlapping, touching, permanent (0, or -1: absent) and late failures,
\* in both directions, of known nodes and of an unknown one.
MCFailureLines ==
  { Failure(p[1], p[2], t, e) : p \in {<<"a", "b">>, <<"b", "c">>, <<"c", "b">>},
                                t \in {60, 61, 80, Missing}, e \in {0, 1, 5, Missing} }
  \cup {Failure("b", "x", 60, 5)}

\* Two failures of one pair: the parser takes the line in between for the
\* reverse of the first.
MCTwice ==
  { <<l, Failure("b", "a", 60, 0), m>> :
      l, m \in {k \in MCFailureLines : k.src = "a"} }

MCFailures ==
  { [kind |-> "failures", lines |-> s] :
      s \in UNION {[1..n -> MCFailureLines] : n \in 0..2} \cup MCTwice }

MCFiles == MCTopologies \cup MCFailures
MCByHand == {Parallel}

\* What ring.py prints for two nodes.
MCRing == {[kind |-> "topology", lines |-> Ring(<<"a", "b">>)]}
=============================================================================
