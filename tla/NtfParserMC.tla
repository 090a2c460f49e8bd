----------------------------- MODULE NtfParserMC -----------------------------
(***************************************************************************)
(* Files for TLC: every sequence of at most four lines from a small set.   *)
(* Two links between a and b (their lines in any order), links with a      *)
(* third node, and a link that no other touches.                           *)
(***************************************************************************)
EXTENDS NtfParser

Line(src, dst, metric, delay, begin) ==
  [src |-> src, dst |-> dst, metric |-> metric, delay |-> delay, begin |-> begin, end |-> Missing]

\* Both directions of a-b with two metrics and two delays; b-c and c-d, of
\* which c-d is not connected to a-b; a zero metric; a line with a begin.
TopologyLines ==
  { Line(p[1], p[2], m, y, Missing) : p \in {<<"a", "b">>, <<"b", "a">>}, m \in {1, 2}, y \in {5, 7} }
  \cup { Line(p[1], p[2], 1, 5, Missing) : p \in {<<"b", "c">>, <<"c", "b">>, <<"c", "d">>, <<"d", "c">>} }
  \cup { Line("b", "a", 0, 5, Missing), Line("a", "b", 1, 5, 60) }

FailureLines ==
  { Line(p[1], p[2], 1, 5, t) :
      p \in {<<"a", "b">>, <<"b", "a">>, <<"c", "b">>, <<"c", "x">>, <<"a", "a">>}, t \in {60, 70, Missing} }

FilesOf(kind, lines, n) ==
  { [kind |-> kind, lines |-> s] : s \in UNION {[1..m -> lines] : m \in 0..n} }

MCTopologies == FilesOf("topology", TopologyLines, 4)
MCFailures == FilesOf("failures", FailureLines, 3)

MCFiles == MCTopologies \cup MCFailures

\* A file that names nodes of the topology only.
MCKnownFailures ==
  { f \in FilesOf("failures", FailureLines, 2) : \A i \in DOMAIN f.lines : f.lines[i].dst # "x" }

MCMaps == {<<>>, <<"a", "b", "c">>, <<"c", "b", "a", "d">>}
MCMap == {<<"a", "b", "c">>}
=============================================================================
