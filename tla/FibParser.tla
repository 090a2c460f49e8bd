------------------------------ MODULE FibParser ------------------------------
(***************************************************************************)
(* fib_parser.py: the convergence time of a simulation from the dumps of   *)
(* its forwarding tables.  For each instant that has dumps, every pair of  *)
(* nodes is explored; the instants are then searched, from the last one    *)
(* back, for the first one after which all pairs are valid.                *)
(*                                                                         *)
(* An instant is its index in `dumps'.  A next hop is the node that owns   *)
(* it: every dump has all nodes, the first one with every interface up, so *)
(* the script's dictionary `reverse' has every address.                    *)
(***************************************************************************)
EXTENDS FibDumps

VARIABLES result,   \* result[i]: all pairs are valid in dump i
          ioc,      \* the instant of convergence; -1, "No valid result"; or 0, not yet known
          broken    \* a history variable: how many dumps there were when the
                    \* tables last failed to deliver some packet

vars == <<simVars, result, ioc, broken>>

Init == SimInit /\ result = <<>> /\ ioc = 0 /\ broken = 0

-----------------------------------------------------------------------------
(* explore                                                                 *)

\* Mutant of Outcomes: a next hop on the route is skipped, and not collected.
OutcomesLoopless(f, src, dst, route) ==
  LET loop[seen \in SUBSET Nodes] ==
        [n \in Nodes |->
           IF n = dst THEN {"path"}
           ELSE IF f[n][dst] = {} THEN {"missing"}
           ELSE UNION { loop[seen \cup {r.hop}][r.hop] :
                        r \in {s \in f[n][dst] : s.alive /\ s.hop \notin seen} }]
  IN loop[route][src]

\* What loop() collects from src on, having come along `route', which has src.
Outcomes(f, src, dst, route) ==
  LET loop[seen \in SUBSET Nodes] ==
        [n \in Nodes |->
           IF n = dst THEN {"path"}
           ELSE IF f[n][dst] = {} THEN {"missing"}
           ELSE UNION { IF r.hop \in seen THEN {"loop"} ELSE loop[seen \cup {r.hop}][r.hop] :
                        r \in {s \in f[n][dst] : s.alive} }]
  IN loop[route][src]

Valid(f, src, dst) == Outcomes(f, src, dst, {src}) = {"path"}

Pairs == {p \in Nodes \X Nodes : p[1] # p[2]}

-----------------------------------------------------------------------------
(* evaluate_convergence, on a simulation that has ended                    *)

\* The loop over the instants, in ascending order.
Evaluate ==
  /\ ~running /\ Len(result) < Len(dumps)
  /\ LET f == dumps[Len(result) + 1]
     IN result' = Append(result, \A p \in Pairs : Valid(f, p[1], p[2]))
  /\ UNCHANGED <<simVars, ioc, broken>>

Invalid == {i \in DOMAIN result : ~result[i]}

\* Mutant of InstantOfConvergence: the invalid instant itself is returned.
InstantOfConvergenceOff ==
  LET candidate == IF Invalid = {} THEN 1 ELSE Max(Invalid)
  IN IF result[1] THEN candidate ELSE -1

\* data[idx-1] of the first invalid instant from the end; in Python, data[-1],
\* the earliest instant, if that is the last one, and data[-1] again if there
\* is no invalid instant.
InstantOfConvergence ==
  LET candidate == IF Invalid = {} \/ Max(Invalid) = Len(result) THEN 1 ELSE Max(Invalid) + 1
  IN IF result[candidate] THEN candidate ELSE -1

Report ==
  /\ ~running /\ Len(result) = Len(dumps) /\ ioc = 0
  /\ ioc' = InstantOfConvergence
  /\ UNCHANGED <<simVars, result, broken>>

-----------------------------------------------------------------------------
(* What the tables do with packets                                         *)

Hops(f, n, d) == {r.hop : r \in {s \in f[n][d] : s.alive}}

\* The nodes all of whose packets for d arrive, whichever of the equal next
\* hops each of them takes.
Delivering(f, d) ==
  LET within[k \in Nat] ==
        LET closer == IF k = 0 THEN {d} ELSE within[k - 1]
        IN closer \cup {n \in Nodes : Hops(f, n, d) # {} /\ Hops(f, n, d) \subseteq closer}
  IN within[net.size]

Delivers(f) == \A d \in Nodes : Delivering(f, d) = Nodes

Simulate ==
  /\ SimNext
  /\ broken' = IF Delivers(fib') THEN broken ELSE Len(dumps')
  /\ UNCHANGED <<result, ioc>>

Next ==
  \/ Simulate
  \/ Evaluate \/ Report
  \/ ioc # 0 /\ UNCHANGED vars

Spec == Init /\ [][Next]_vars

-----------------------------------------------------------------------------
(* Properties                                                              *)

\* A route of the kernel has a next hop that is alive; a calculation that has
\* not begun has nothing to install and one that is over has installed all.
TypeOK ==
  /\ \A n, d \in Nodes : fib[n][d] \subseteq [hop : Nodes \ {n}, alive : BOOLEAN]
  /\ \A n, d \in Nodes : fib[n][d] # {} => Hops(fib, n, d) # {}
  /\ \A n \in Nodes : todo[n] # {} => spf[n] = "installing"
  /\ down \subseteq Failed /\ result \in Seq(BOOLEAN)
  /\ ioc \in {-1, 0} \cup DOMAIN dumps

\* Exploring every path of every pair says whether the tables of an instant
\* deliver all packets: there is no loop and no dead end that the search, which
\* ignores next hops that are down, misses.
ExploreExact ==
  result # <<>> => (Last(result) <=> Delivers(dumps[Len(result)]))

\* If the last dump is valid, the reported instant begins the longest series
\* of valid dumps at the end of the simulation.
BeginsLastSeries ==
  ioc # 0 /\ Last(result) =>
    /\ ioc \in DOMAIN result
    /\ \A i \in ioc..Len(result) : result[i]
    /\ ioc > 1 => ~result[ioc - 1]

\* It is then not later than the first dump after the tables were last broken,
\* and it is that dump if the one before saw them broken; a disruption between
\* two valid dumps goes unseen, and two dumps of one instant may show what
\* never was.
ReportedSuffix ==
  /\ BeginsLastSeries
  /\ ioc # 0 /\ Last(result) /\ tied = 0 =>
       /\ ioc <= broken + 1
       /\ broken \in DOMAIN result /\ ~result[broken] => ioc = broken + 1

\* When the last BIRD has finished, the last dump has the tables as they are
\* and stay, however the recalculations overlap: no node's change comes after
\* every dump.  Two dumps of one timestamp may break this.
LastDumpFinal ==
  Settled /\ tied # Len(dumps) => \A n, d \in Nodes : Hops(Last(dumps), n, d) = Hops(fib, n, d)

\* A simulation that ran until the last BIRD had finished has a valid last
\* dump exactly if the network is connected without the failed link.
ConvergenceSeen ==
  Settled /\ tied # Len(dumps) /\ ioc # 0 => (Last(result) <=> \A n \in Nodes : Linked(Remaining, n, 1))

\* A simulation whose last dump is not valid has no valid result
\* (fib_parser.py:205).
UnconvergedHasNoResult == ioc # 0 /\ ~Last(result) => ioc = -1
=============================================================================
