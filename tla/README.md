# A verification of ns3-sim

ns3-sim measures how long a network that runs OSPF takes to converge after a
link failure. A wrapper starts one container per failure; in it, ns-3/DCE
simulates the nodes of a topology, each with a real BIRD daemon; links are
failed by a schedule; and two scripts compute convergence times from what the
simulation left behind. This directory holds TLA+ models of the repository's
own code, the TLC configurations that check them and TLAPS proofs.

Paths are relative to the repository (`src/` in `PROJECT.json`). Each
definition is mapped to the lines it models under `map` in `PROJECT.json`.

    tlc -workers 2 -config <run>.cfg <module>      # a run, see the table below
    tlapm <module>Proofs.tla                       # the proofs, see section 5

## 1. The system

```
  wrapper (Rust) --- tempfile per failure, semaphore, docker run ---+
     | one thread per failure                                       v
     |                                     script.sh in a container, on shared mounts
     |                                                              |
     |      topology.ntf -> ntf_parser.py -> NtfContent -> TopoGen, ConfigureBird -> test.py
     |          | fail_gen.py
     |      failures.ntf -> ntf_parser.py -> NtfContent -> ScheduleFailures, LinkCallback
     |                                                              |
     |                                            ns-3 event loop: failures, BIRD, dumps, UDP
     |                                                              |
     +-- joins                             dumps of "ip r" -> fib_parser.py
                                           udp.log files   -> udp_parser.py
```

| component | state it keeps | operations | interacts by |
|---|---|---|---|
| wrapper, `wrapper/src/main.rs` | failures file, temporary files in `inputs/`, semaphore, threads, containers | make a tempfile, spawn, acquire, run, remove, release, join | files on a mount, processes, the semaphore |
| container script, `containers/script.sh` | `/dev/shm`, `bird/Makefile`, the two binaries of `udp_ping/` | copy inputs, configure, make, remove and rebuild binaries, simulate | directories shared by all containers |
| NTF parser, `ntf_parser.py` | node list, dictionary of pairs, lines not accounted for, `.map` file | read a line, print a pair, accept, reject, crash | stdout, exit status, the `.map` file |
| NtfContent / TopoHelper, `helper/*.cc` | rows, devices, metrics, address counters, bird.conf files | read rows, install a link, configure a node, verify | a pipe to the parser, files |
| verification, `test.py` | the lines not yet found | compare the generated network with the file | `.check`, bird.conf, exit status |
| link failures, `ScheduleFailures`, `LinkCallback`, `BlackholeErrorModel` | event queue, error model of each device, interface states | schedule a row, fail, lift, interface down, stop | the simulator's events |
| generators, `ring.py`, `fm.py`, `misc/fail_gen.py` | the list of lines left | print a topology; keep one line of each link, sort, give each a begin | NTF files |
| table dumps, `bird.patch`, `dce-system.patch`, `ntf.cc` | tables, recalculations, dumps | install a route, dump all nodes | `system("ip r")` |
| FIB parser, `fib_parser.py` | dumps by instant, validity of each | explore, evaluate, find the instant of convergence | the dump files |
| UDP parser, `udp_parser.py` | per source: bounds of an open gap; gaps; gaps by failure | read a log line, file a gap, merge, report | the servers' logs |
| start of the programs, `ntf.cc`, `spfs.py` | `udp.ping`, clients, servers, dumps to come | compute the pairs, start a client, a server, a dump | files, exit status, the simulator's schedule |
| UDP client/server, `udp_ping/` | a socket, a sequence of timestamps | send, receive, log | packets, logs |

What is hard about it, and what makes each component correct:

- **Wrapper.** Threads, a semaphore and a join loop, with any call failing.
  Correct if containers never exceed the processors, permits are not lost,
  every failures file is complete while it is needed and gone afterwards, and
  every failure is simulated.
- **Container script.** Several containers work on the same directories.
  Correct if a simulation reads its own failures file and finds its binaries.
- **Parser and network.** Two directions of a link are separate lines in any
  order, and several programs number nodes, compute addresses and count
  interfaces independently. Correct if the network simulated is the one of the
  file, and if the independent computations agree.
- **Failures.** Overlapping failures of one link, order of events at one
  instant, absent fields (-1) in unsigned arithmetic; names that become ids in
  one program and directions in another. Correct if a link filters exactly
  during its failures, an interface goes down only while it does, only links
  that the failures file names fail, and a generated file fails each link.
- **Dumps and FIB parser.** Nodes recalculate at their own time and install
  routes one by one, so a dump may show any mixture. Correct if a mixture is
  judged rightly and the reported instant begins the final valid series.
- **UDP parser.** Losses, delays and reordering in one stream, decided online
  with little state. Correct if each gap is a disruption, each outage is
  measured once and filed under its own failure.

Every hazard found, with its line and the properties that would catch it, is
listed under `hazards` in `PROJECT.json`.

## 2. The modules

`A <- B` means that B EXTENDS A.

```
JobPool  (implemented by Wrapper)
Wrapper <- SingleRuns
NtfParser <- NtfTopoGen <- PingSetup
NtfParser <- NtfParserMC ;  PingSetup + NtfParserMC + Generators <- PingSetupMC
NtfParser <- LinkFailure ;  NtfParser <- FailGen ;  NtfParser <- Generators
LinkFailure + FailGen <- FailureSchedule ;  FailureSchedule + Generators <- FailureScheduleMC
FibDumps <- FibParser <- FibParserMC
UdpParser <- UdpTraffic <- UdpTrafficMC

Wrapper <- WrapperProofs ;  SingleRuns + WrapperProofs <- SingleRunsProofs
NtfParser <- NtfParserProofs ;  PingSetup + NtfParserProofs <- NtfTopoGenProofs
LinkFailure + NtfParserProofs <- LinkFailureProofs
FailureSchedule + LinkFailureProofs <- FailureScheduleProofs
FibParser <- FibParserProofs ;  UdpTraffic <- UdpTrafficProofs
```

**JobPool** — what single-failure mode promises, without threads or files: each
job runs at most once, at most `Procs` occupy a slot, a failed one keeps it.

**Wrapper** (`main.rs`) — `mainPc` is main()'s place, `cur` the line it handles
or the thread it joins, `pc[i]` the place of line i's thread, `permits` the
semaphore, `tmpfile[i]` the temporary file ("absent", "empty", "written").
`ReadFailures`, `SkipBlank`, `MakeTempfile`, `WriteTempfile`, `SpawnThread` are
the loop over the lines; `StartJoin`, `Join`, `JoinPanicked`, `Exit` the loop
over the handles; `Acquire`, `StartContainer`, `ContainerExits`,
`RemoveTempfile`, `Release` the closure of a thread. `MainPanic` and
`ThreadPanic` are every `unwrap()`/`expect()` that can fail, at the place where
it fails; a thread that panics in `wait()` leaves its container running
("orphaned"). The process dies with main(), its threads with it; containers belong
to the docker daemon and go on. `Pool` maps a thread's place to a job's status.

**SingleRuns** (`script.sh`) — composes Wrapper with what a container does. The
step `StartContainer` of Wrapper starts the script of `box[i]`, and
`ContainerExits` waits for its end; in between, one action for each command
that touches a shared directory. `met` is a history variable.

**NtfParser** (`ntf_parser.py`) — `pairs` is the dictionary in insertion order,
`nodes` the numbering, `left` the list `data` of the acceptance test, `rows`
the output. The branches of the reading loop are `NewPair`, `SetReverse`,
`NewReverse`, `SetForward`, `NewForward` and `Unexpected`; `PrintPair`,
`UnknownName` and `Finish` are the second half. A line's text is reduced to its
fields; two texts are equal exactly if the fields the script formats are. A
line may name one node twice: `Noted` adds it once.

**NtfTopoGen** (`NtfParser.cc`, `NtfTopoGen.cc`, `test.py`) — composes the
parser with its consumer: `ReadRows` takes the rows when the pipe closes,
without the exit status; `InstallLink` handles one row (devices, metrics,
addresses); `ConfigureNode` one node (loopback address, costs in bird.conf);
`Verify` runs test.py and aborts. test.py needs a `.map`, which is there when the
parser has read the topology to its end (`MapWritten`), be it an empty one.

**PingSetup** (`ntf.cc`, `spfs.py`) — composes the verified network with what
main() starts on it. `Spfs` runs spfs.py, which numbers the nodes and computes
their loopbacks a second time, from the file alone, and leaves `udpPing`;
`StartClients` reads one line of it, `StartNode` starts one node's server and
its dump at 60 s. `NoPings` is a simulation without `--udp`. The other readers of
the topology pass over empty lines and do not mind a missing newline at the end;
spfs.py fails on the first (`line[0]`) and drops the unterminated line
(`split('\n')[:-1]`). `layout` says which of these the file has. No other step
depends on it, so that `Spfs`, where it first matters, chooses it.

**LinkFailure** (`NtfTopoGen.cc`, `blackhole-error-model.cc`) — the event queue
with ns-3's order (time, then creation). `ScheduleFailure` does all of
`MakeLinkFail` for one row that the parser printed; the events are `FailLink`,
`LiftFailure`, `SetDown` and `StopRun`. 32-bit arithmetic is modulo `U32`.

**FailGen** (`misc/fail_gen.py`) — `b` is the list that the script goes over and
deletes from at once, `visit` the loop's index: `DeleteReverse` is one round,
`NoReverse` the `ValueError`, `WriteFailures` the stable sort and the output.

**Generators** (`ring.py`, `fm.py`) — the topologies they print, as sequences.

**FailureSchedule** — composes the parser, the generator and the link failures.
The parser runs twice, on the topology and on the failures file, and only the
`.map` file lasts from one run to the other (`GiveFile` starts the second).
`InstallTopology` makes links of the first run's rows, `ScheduleFailure` events
of the second's, whatever its exit status. The failures file is written by hand
(`GiveByHand`), or it is the generator's, as a whole or one line of it, as the
wrapper's `--single` cuts it (`GiveGenerated`).

**FibDumps** (`ntf.cc`, `bird.patch`, `dce-system.patch`) — tables of all nodes,
the failed link, and for each node a recalculation that installs its routes one
by one (`StartSpf`, `Install`, `FinishSpf`), dumping every node at its end.
`FinishSpfAtOnce` is a second dump at the same instant, of which each node's
file may be either. BIRD's protocol and the kernel are external: shortest paths
with all equal ones, a node recalculates some time after the failure.

**FibParser** (`fib_parser.py`) — `Outcomes` is `explore`'s recursion, written
as a recursive function of the node and the nodes on the route, `Evaluate` the loop over instants, `InstantOfConvergence` the backward search
with Python's index -1. `broken` is a history variable: it says between which
dumps the tables last failed to deliver a packet, against which
`ReportedSuffix` compares the reported instant.

**UdpParser** (`udp_parser.py`) — one action for each branch of `local_gaps`
(`Start`, `Continues`, `Opens`, `Proposes`, `Validates`, `Closes`, `Forgets`,
`Breaks`), `FileGap`/`SkipGap` for the search of a gap's failure, `Converge`
for `converge_time`, `Report` for the number that the script ends with. Times
are counted in the clients' interval. The module
has no specification of its own: its logs come from UdpTraffic.

**UdpTraffic** (`udp_client.c`, `udp_server.c`) — composes the parser with the
producers of its logs. `Send` is one round of every client's loop, `Receive` one
round of a server's, `Drain` lets time pass for the last packets; the parser
starts when the simulation has ended. The network is an environment: `path[f]`
is the delay of a flow's packets or `Down`. `outage` is a history variable: it
holds what the network really did, against which `ConvergenceSpans` compares
what the report says.

Operators named "Mutant of ..." are plausible bugs. `mutants` in `PROJECT.json`
says which property each of them violates when it replaces its original.

## 3. The runs

| run | distinct states | what it shows |
|---|---|---|
| `single_core` (SingleRuns) | 68 090 | permits, tempfiles, containers, own input; JobPool implemented; every line simulated unless something panics |
| `wrapper_panic` (Wrapper) | violation | a thread's panic leaks its permit and main() waits for ever |
| `single_udp` (SingleRuns) | violation | a container removes the binaries that another is about to load |
| `ntf_core` (PingSetupMC) | 617 259 | from the file to the started programs: nothing lost or mixed up, distinct addresses, the `.map` and spfs.py number alike, well-formed topologies run, every node pings every other |
| `parser_lines` (NtfParserMC) | violation | a second failure of one pair of nodes is lost, or all are |
| `topo_rejected` (PingSetupMC) | violation | a topology the parser rejects is simulated |
| `link_core` (FailureScheduleMC) | 89 195 | from a failures file to failed links: a link filters exactly in the window of its last failure; interfaces go down only then; only named links fail; each line of a generated file fails its link |
| `link_reverse` (FailureScheduleMC) | violation | the file generated for a ring of two nodes is against the installed direction and schedules nothing |
| `udp_core` (UdpTrafficMC) | 920 977 | from the sockets to the report: gaps are disruptions, disjoint; single outages measured exactly; a convergence time spans what the network did to the flows its failure cut, and to no other |
| `udp_nogap` (UdpTrafficMC) | violation | an outage that lasts to the end is reported as 0 ms |
| `fib_core` (FibParserMC) | 327 422 | exploration exact; last dump final; reported instant begins the final valid series and is not late |
| `fib_last` (FibParserMC) | violation | a run that did not converge is reported as converged after 0 ms |

The bounds, and why they are enough:

- `single_core`: `N = 4` lines of which one is blank, `Procs = 2`, any call may
  fail, no Makefile yet. Three jobs are the fewest with two at work and one
  waiting; the blank line is the last, so that the join loop passes an absent
  thread. `wrapper_panic` needs one processor and one panic; `single_udp` two
  containers.
- `ntf_core`: all sequences of up to four topology lines over four nodes, with
  two metrics and two delays for one pair (two parallel links, in any order),
  a zero metric and a line with a begin; plus the ring and the full mesh of four
  nodes that the generators print, and a ring of eight interleaved lines; each
  with and without an empty line and a newline at its end, and the empty file;
  plus all failures files of up to three lines with no `.map`, one that
  lacks a node, and a permuted one. Four lines are two complete links, the
  least with which directions can be confused. `IfaceWrap = 4` and `LoWrap = 4`
  (244 and 250 in the code) make both counters wrap, the first between the two
  ends of a link, the second at the fourth node, so that networks below and
  beyond the wrap are both reached; the proofs of section 5 hold for every wrap.
  `U32` only has to exceed every metric.
- `link_core`: a triangle and a path with their lines in every order (720 and
  24), the ring and the full mesh of four nodes, parallel links, and a link with
  two metrics, on which the generator gives up; each with the generator's whole
  file and with each of its lines alone. `Runtime = 80`, so that of the begins
  60, 70, 80, ... three are reached, the last at the very end. By hand, for the
  parallel links (`ByHand`): all files of up to two lines, in both directions,
  with begins 60, 61, 80 and absent, durations 0, 1, 5 and absent, and a name
  that is unknown; and two failures of one pair, which need a third line in
  between to pass the parser: overlapping, touching, nested, simultaneous, late.
  Only the last failure of a link matters to its receivers, so two on one link
  show every order. `U32 = 2^20` keeps what `LinkFailureAssumption` says of
  2^32: -1 becomes an instant after the end of the run.
- `udp_core`: `Validate = 1` (100 in the code). One client of nine packets on a
  free path, each lost, or under way for one or three intervals, so that packets
  overtake each other: all 19 683 streams. And two clients of fifteen packets,
  with one server or two, each cut at most once or merely rerouted: outages of
  one to three packets (`MaxOutage`) that begin anywhere from the third packet
  to the tenth (`FailUntil`), around, between and after the failures at 4 and 8,
  with a slower path or the same one afterwards. Packets of two flows that
  arrive at one instant do so in the flows' order, which loses nothing: the
  parser keeps its state per source. `Validate` only lengthens the confirmation;
  one round of it passes every branch, and fifteen packets leave room for it
  after the latest outage.
- `udp_nogap`: `MaxOutage = 15`, so that an outage may last to the end.
- `fib_core`: a line (partitioned by the failure), a triangle with a metric
  that sends one pair around, and a square of equal metrics (two next hops,
  transient loops), in every order of noticing, installing and dumping, stopped
  anywhere. `TiedSize = 3` allows two dumps at one instant only in networks of
  up to three nodes.

Deadlock is checked except in the runs of the wrapper, where the program really
stops: leaked permits leave main() waiting. Every other module has a terminal
step, so that a state without one would be reported.

**Fairness.** Only the wrapper has liveness properties. `FairSpec` and
`SingleSpec` assume weak fairness of main()'s work and of each line's work
(thread and container): the operating system schedules every runnable thread,
`acquire()` is a single waiting step that is enabled when a permit is free, and
a simulation stops at its `--runtime`. Failures are never owed. With two or
more threads waiting, weak fairness of each suffices because every line runs
once: a thread can be overtaken only a bounded number of times. `AllRun` holds
under the condition that nothing panics; `MainEnds`, which has no condition, is
what `wrapper_panic` refutes. The other modules are sequential programs or a
simulation that may be stopped anywhere; they have no fairness and no liveness
property.

## 4. What disagreed

Seven properties state what a comment, the README or the code around says and
are violated; `findings` in `PROJECT.json` quotes both sides.

1. A panic between `acquire()` and `release()` leaks a permit; main(), which
   joins in line order, can then wait for ever (`wrapper_panic`).
2. With `--udp` and two processors, one container's `rm` takes the binaries
   from under another's simulation (`single_udp`).
3. Two lines of a failures file for one pair of nodes lose a failure, or all of
   them (`parser_lines`).
4. `NtfContent` drops the parser's exit status; a disconnected topology is
   simulated (`topo_rejected`).
5. A failure whose direction is opposite to that of the installed link is
   ignored silently (`link_reverse`).
6. If the failure cuts a flow for good, udp_parser.py finds no gap and reports 0
   ms, as if nothing had been disturbed (`udp_nogap`).
7. If the last dump is invalid, `data[idx-1]` is `data[-1]`, the first dump: 0
   ms instead of "No valid result" (`fib_last`).

One more has no run, because a property of a passing run says exactly when it
happens: an empty line in a topology, or a last line without a newline that alone
has its source, is nothing to ntf_parser.py:32 and test.py:83 and ends spfs.py with
an exception, so that ntf.cc aborts a network that was verified (`SpfsRuns`).

## 5. The proofs

Each theorem holds for every value of the constants that the named assumptions
of its modules allow: any number of lines, nodes, processors and packets, any
topology and any failures file. Where a property is not inductive, the
invariant that is says what its modules leave unsaid. TLC checked each of these
on the instance of the component's run; `FibInv` and `UdpInv`, which are slow to
evaluate, on 220 000 and 760 000 of the states, and `BalanceInv` as equal counts.
`MeasureOK` and the tables' `ExploreInv` quantify over too much for that; the
properties that follow from them were checked.

**WrapperProofs**, from `WrapperAssumption` alone.

| theorem | states |
|---|---|
| `TypeCorrect` | `Spec => []TypeOK`, which bounds the permits |
| `PermitsAccounted` | `Spec => []PermitAccounting` |
| `ContainersBounded` | `Spec => []AtMostProcs` |
| `InputsPresent` | `Spec => []InputPresent` |
| `ExitsClean` | `Spec => []CleanExit` |
| `ImplementsPool` | `Spec => PoolSpec` |

The inductive invariant is `IInv`, with `PermitAccounting` beside it.
`InputPresent` and `CleanExit` are not inductive: nothing in them says that the
creation loop has not yet touched the lines ahead of it, or that the join loop
has passed only finished threads. `LoopInv` says so: before line `cur`
everything is made, after it everything is `Untouched`, a finished thread has
removed its file. Permits are counted with the cardinality of the set of
threads inside the section; three lemmas say how a step changes it (enter,
leave, neither), and `AtMostProcs` follows because running threads are a subset
and permits are never negative. The refinement has one step for each action:
`Acquire` begins a job (its slot is free because `PermitAccounting` bounds the
occupied ones), `Release` ends it, a thread's panic loses it, the rest stutter.

**SingleRunsProofs**, from `WrapperAssumption` and `SingleRunsAssumption`.

| theorem | states |
|---|---|
| `ImplementsWrapper` | `SingleSpec => Spec`, the wrapper's own specification |
| `BoxTypeCorrect` | `SingleSpec => []BoxTypeOK` |
| `InputsOwn` | `SingleSpec => []OwnInput` |
| `AloneSafe` | `SingleSpec => []AloneIsSafe` |
| `ScriptsAreBounded` | `SingleSpec => []ScriptsBounded` |
| `SingleImplementsPool` | `SingleSpec => PoolSpec` |

By `ImplementsWrapper` everything about the threads holds with the containers,
so the rest starts from `IInv`. `BoxInv` adds `Awaited`, that a script at
work has a container that runs, whether its thread waits for it or has panicked,
and `AloneInv`, that a script which has met no other is the only one at work and
finds what its own make built. `ScriptsBounded` then follows from the permits.

**NtfParserProofs**, from `NtfParserAssumption` (any files, any `.map`).

| theorem | states |
|---|---|
| `ParserTypeCorrect` | `Spec => []TypeOK` |
| `PairsOneDirection` | `Spec => []OneDirection` |
| `NumbersAgree` | `Spec => []NumberingAgrees` |
| `FailureRowsInOrder` | `Spec => []FailuresInOrder` |
| `TopologyFaithful` | `Spec => []AcceptedFaithful` |
| `AlwaysAccepted` | `Spec => []WellFormedAccepted` |

`ParserInv` says where the data come from: each entry of the dictionary, and
each row, has the nodes and the times of one line of the file; the proofs about
failures rest on it. `OrderInv` follows both loops through a file that names
each pair once: pair k is that of line k, row i says what line i says.
`NumberInv` follows the numbering: after line i, `nodes` is `Seen[i]`, the
names of the first i lines in the order of their appearance, because a line that
opens no pair finds both its names in the pair that it completes. `Seen` over the
whole file is how spfs.py numbers the nodes. fib_parser.py and udp_parser.py never
read the topology: they take the last byte of a loopback less one, of which
`LoopbacksAgree` speaks.

The rows of an accepted topology and the lines of its file are the same bag, and
nothing but `left = <<>>` at the end says so. `BalanceInv` keeps the accounts:
every line has a place of its own, in `left` or in a row that has its text
(`Kept`; a removal moves one line, `FoldRemoves`), every row has an entry of its
own (`Origins`), and the dictionary has at most as many metrics as lines have
been read. At acceptance every line is in a row, so that the metrics of the rows
are no more than the lines and the places no fewer: a bijection. `Placing` says
where the elements of a list of lists are in its concatenation; `SameElements`
concludes that two lists of lists with the same elements, in whatever order and
grouping, give the same bag.

`AlwaysAccepted` goes the other way, from the file to the end. `AcceptInv` is
about a topology that a set `first` of lines pairs. `HalvesOK` follows the
reading: the last entry of a pair is half open exactly while the last line about
its two nodes was in `first`, in the direction of that line, so that no line is
`Unexpected`; all earlier entries are complete. Each line read has a metric of
its own in the dictionary with its text (`Fits`), and while the pairs are printed
each text left has a place of its own in a pair that is still to come (`Placed`;
one removal takes one place, whichever equal text it finds, `GivesUp`), so that
nothing is left when none is. The edges of the graph are then those of the file
(`FileGraph`).

**NtfTopoGenProofs**, from `NtfTopoGenAssumption` (any wraps).

| theorem | states |
|---|---|
| `TopoImplementsParser` | `TopoSpec => Spec`, the parser's own specification |
| `PingImplementsTopo` | `PingSpec => TopoSpec` |
| `NetworkComplete` | `TopoSpec => []NetOK` |
| `AddressesAlwaysDistinct` | `TopoSpec => []AddressesDistinct` |
| `LoopbacksAgree` | `TopoSpec => []LoAgreesBelowWrap` |
| `ReadyNetworkFaithful` | `TopoSpec => []ReadyFaithful` |
| `WellFormedAlwaysRuns` | `TopoSpec => []WellFormedRuns` |
| `SpfsAlwaysRuns` | `PingSpec => []SpfsRuns` |
| `PingsReachEveryNode` | `PingSpec => []PingsCoverPairs` |

The first two carry the parser's theorems to the network and the network's to
the programs started on it. `NetInv` follows the stages: nothing is there before
the rows are (`StageOK`), only installed links have devices, all of them numbered
(`DevicesOK`), and costs are written when no device is added any more
(`CostsOK`), and each end of each link has exactly one device (`EndsOK`).
`AddressesDistinct` is not inductive:
an address drawn later could be one in use. `Ahead` adds that a counter is
greater, in the order of its third byte and then its fourth, than each address
drawn from it. `WrappedAhead` says that the wrap keeps this, `GiveOne` and
`AppendOne` that one more address does; the two draws for a link are two
applications. `LoInv` says that the loopbacks' counter has counted the nodes as
long as it has not wrapped, which makes the addresses those of `gen_addresses()`
and their last byte less one the node's number. That the third byte stays below 256 is not claimed
(it needs some 31 000 links).

test.py compares the file with the devices, node by node; `ReadyFaithful` speaks
of the links, one by one, with the costs that each end finds. The two list the
same lines in another order and grouping; `GeneratedByLink` applies
`SameElements` of NtfParserProofs to them, `EndsOK` giving the bijection between
devices and ends of links.
`CheckedInv` keeps the result of the check while nothing of the network changes.
`CheckedLines` draws the other conclusion from it: a line of the file equal to a
device's line has no begin and no end, and the link's other end gives a line for
the direction back. So each node is the source of a line, which is all that
spfs.py needs if it reads the whole file; if it drops the last line, the nodes of
this are known from the line for the direction back (`CheckedCounts`), and its
source needs a second one (`LastSourceKnown`): if it has none, it is still named by the
line back, and spfs.py looks for its entry in vain (`ReadsOnlyThen`).

`WellFormedAlwaysRuns` is the composition of three components: the parser accepts
the file (`AlwaysAccepted`) with rows that stand for its lines
(`TopologyFaithful`), the network is built from them, and the check compares it
with the file. `TraceInv` is the middle: each device is where the row of its link
says and has that row's metric as a `uint32_t`, each delay is its row's, each
cost is its interface's metric. If the metrics fit the type, what BIRD is told of
a link is what its row expresses (`LinkAsRow`), and `GeneratedByLink` does the
rest.

`PingsReachEveryNode` joins all of it. `SizeInv`: the network has the nodes of
the file (`NumberInv`), or a single one; a row's ids leave no other choice. These
are the nodes that spfs.py counts, with or without the last line, and at least two
(`CheckedCounts`). `PingInv`: after k lines of `udp.ping` the clients are those of the first k
nodes, each once; when the last line is done, the file has as many lines as the
network has nodes. `LoInv` then says that the addresses are those of the network.

**LinkFailureProofs** and **FailureScheduleProofs**, from the assumptions of
the parser, `LinkFailureAssumption` (the begins do not wrap in milliseconds,
and what wraps does so beyond the end of the run) and `ScheduleAssumption` (the
same of the begins that fail_gen.py gives).

| theorem | states |
|---|---|
| `ScheduleTypeCorrect` | `ScheduleSpec => []SimTypeOK` |
| `LinksDarkExactly` | `ScheduleSpec => []DarkExactly` |
| `InterfacesDownAtStop` | `ScheduleSpec => []DownAtStop` |
| `InterfacesDownWhileDark` | `ScheduleSpec => DownWhileDark`, an action property |
| `OnlyNamedLinksFail` | `ScheduleSpec => OnlyNamedFail`, an action property |
| `GeneratedFailuresFail` | `ScheduleSpec => []GeneratedFailsEach` |

`DarkExactly` compares a link with the rows of the file, and the queue is
between them. `SimInv` says what the queue is: each event is the failure, the
lift or an interface's end of some row (`QueueOK`), and one that has left it is
in the past (`PastOK`). Rows leave in the order of their begins and, within one
instant, of the file (`OrderOK`). The newest failure that has left says which
error model the link has and when it is lifted (`ModelsOK`), whatever older
failures overlap it; an interface is down exactly if one of its events has left
(`IfacesOK`). `TimesOK` and `ParserInv` keep the arithmetic modulo 2^32 exact.
`ScheduleInv` joins it with the parser, which runs twice, and with `GenInv`:
sorting loses no line, and line k of a generated
file begins at 60 + 10 (k - 1).

`GeneratedFailuresFail` follows the two files through five components.
`OnceInv`: a topology that gives each direction once makes one row for each pair
of nodes, in the direction and with the metric of the line that opens it
(`LinksOf`). `PairsInv`: fail_gen.py deletes from the list it goes over, but each
deleted reverse lies behind the loop's index (`ReverseLater`), so that no line is
skipped; what is left keeps the topology's order and covers its links, and each
visited line is the one that opens its link. With `Sorting`, the file written has
exactly these lines, by metric (`WrittenOK`). `OrderInv` and `KnownInv`: the
parser reads this file, or one line of it, to the end, a row for each line. So a
row has the direction of the installed link, not only its nodes, and selects that
link alone (`SelectedOne`). `CountInv`: at the stop every failure that begins by
then is done, each with an error model of its own. The lines that begin during
the run are then in bijection with the dark links and with the models
(`DarkLinks`), and in the whole file those are the first lines (`WholeFile`).

**FibParserProofs**, from `FibDumpsAssumption` (any networks).

| theorem | states |
|---|---|
| `FibTypeCorrect` | `Spec => []TypeOK` |
| `LastDumpHasFinalTables` | `Spec => []LastDumpFinal` |
| `InstantBeginsLastSeries` | `Spec => []BeginsLastSeries`, that the instant begins the last series of valid dumps |
| `ExplorationsExact` | `Spec => []ExploreExact` |
| `SuffixReported` | `Spec => []ReportedSuffix` |
| `ConvergenceIsSeen` | `Spec => []ConvergenceSeen` |

`LastDumpFinal` says nothing before the last BIRD has finished. `RoutesOK` says
what the routes are until then: the old ones without those through the dead
interface while a node waits, the new ones where it has installed them or need
not. The last dump is taken by the last node to finish, so that it has them all.

`ExplorationsExact` compares a recursion over routes with what packets do. A set
of tables delivers exactly the nodes that it reaches layer by layer
(`DeliveringLayers`; layers that stop growing stay so, `StopsGrowing`), and each
of them has a rank that falls along its next hops (`DeliveringRanked`). From a
delivering node every route is explored to its end (`DeliveringValid`); a node
that does not deliver has a next hop that does not, so that the exploration meets
a node for the second time or a table without a route (`StrayingInvalid`).
`ExploreInv` says of each dump already explored that its result is whether it
delivers, and with `FoundInv`, what `broken` remembers, `SuffixReported` follows.

`ConvergenceIsSeen` adds the tables themselves. The distances are those of
Bellman-Ford: rounds only improve (`RoundsImprove`), all have settled after as
many rounds as there are nodes (`AllSettle`), so that they are a fixpoint
(`DistancesFixed`) in which each hop of a shortest path comes closer
(`ShortestHops`). In a connected network every node has one (`LinkedAll`), so the
final tables deliver (`ShortestDelivers`); in one that is not, they do not.

**UdpTrafficProofs**, from `UdpParserAssumption` and `UdpTrafficAssumption` (any
number of clients and packets, any delays and losses).

| theorem | states |
|---|---|
| `UdpTypeCorrect` | `Spec => []TypeOK` |
| `GapsAreDisruptions` | `Spec => []GapIsDisruption` |
| `GapsOfASourceDisjoint` | `Spec => []GapsDisjoint` if delays differ by less than four packets |
| `OutagesMeasured` | `Spec => []OutageMeasured` |
| `ConvergenceIsSpan` | `Spec => []ConvergenceSpans` |

`UdpInv` says what the parser's few variables remember: `StateOK` has the lines
of the log where the open gap began, where its candidate stands and which came
last. `BehindOK` keeps, for each gap already closed, the line that ended it and
a later one that confirmed it; no packet can bring the search back behind the
first as long as no path is slower than another by four packets or more
(`Lag`). The condition is necessary, not a convenience of the proof: with delays
of one and six intervals, and `Validate = 1`, TLC finds a gap that begins before
the end of the one before it; with one and five it does not. In the code four
intervals are 20 ms (`dx` is 5 ms). A larger `VALIDATE` does not lift it,
because a broken succession does not reset `validate`.

`OutageMeasured` speaks of the lines of one source, taken out of the log and of
the gaps. `Selected` says what `From` takes out: all of the source's elements, in
their order, each from its position (`Picks`). `MeasureOK` follows such a source:
when k of its lines are read, `Phase` says what its state is, before the outage,
at its end, in its confirmation and after, and that its gap is there exactly
from line `i + 3 + VALIDATE` on, whatever lines of other sources are in between.

`ConvergenceIsSpan` goes from the lost packets to the report. `TrafficOK` says what
the network has done so far: each packet sent is lost, under way or a line of the
right log, with the usual delay before the flow's cut and the new path's after
it. When the simulation is over, the lines of a cut flow, in the order of the log,
are therefore all times but the lost ones (`FlowTimes`, `TimesOfCut`): a single
outage, for which `MeasureOK` has the gap (`CutSuffers`, `CutsFound`). A flow that
is not cut has no gap, because none can open (`UncutSteady`), so that each gap is
that of a cut (`GapsOfCuts`). Gaps are closed in the order of their ends
(`OrderedRead`), since each is closed by the line that arrives `VALIDATE + 2`
intervals after its end (`ClosingCut`): the search that starts at the failure of
the gap before cannot miss the gap's own (`FoundFailure`). `SpansOK` says
that the gaps filed so far are those of the cut flows already looked at.

**What the proofs changed.** A line that names one node twice was numbered
twice in NtfParser; the script does so once. The last part of `GapsDisjoint`
was believed for every delay. `MakeLinkFail`'s arithmetic needs that the
generator's begins do not wrap either, which is now `ScheduleAssumption`. The
assumptions of the networks say that a link joins two different nodes, which the
models had relied on. `WellFormed` allowed a line from a node to itself, which
given twice is rejected as unexpected, and `WellFormedRuns` metrics that do not fit
the simulator's type, with which the check fails. `Outcomes` takes its two arguments one after the other,
and `From` is a recursive function instead of `SelectSeq`, which the prover
cannot expand. `ConvergenceSpans` was believed for every delay of the new path;
with delays of one and three intervals and a usual one of three, TLC finds an
outage whose first packets on the new path overtake the last ones on the old: the
succession breaks before the outage, and the gap begins too early. `InOrder` is
the condition for it, and with it the theorem holds for every delay. The proof also
needs that the failures looked for are in order, and that no client is started
twice for one server, which are now in the assumptions.
`SpfsRuns` and `PingsCoverPairs` took for granted that spfs.py reads every line of
the file; without the last one, the first depends on `LastSourceKnown`, and the
second needs the check, which makes the line for the direction back be there.
`GeneratedFailsEach` took "no two links join the same nodes" from the installed
links, and there are none if the parser rejects the topology; `Simple` now speaks of
the topology's lines.

**Only model-checked**: liveness (`AllRun`, `MainEnds`), which is out of the
prover's reach. Every invariant of a passing run is stated by a theorem. What a
fold or a recursion computes over a whole file or table cannot be proved with the
library's induction theorems, which cannot be instantiated here; the proofs that
need it (`Seen`, `Outcomes`, `From`, the removals from a list, the concatenation
of a list of lists) go by the least counterexample of the definition (`Least`).

## 6. What is not modelled, and why

- Option parsing, the container rebuild and the output directory of the
  wrapper: they happen before the first concurrent step.
- Overlapping `autoreconf`, `configure` or `make` in one tree by two containers
  and truncated binaries: in the model two containers may be there together,
  but what the tools then do to each other's files is theirs.
- ns-3, DCE, BIRD and the kernel are third-party, and BIRD's directory is empty
  in the repository; only the patches' effects and the order of events are
  modelled.
- `content.append(buf)` on a buffer without terminator (`NtfParser.cc:95`) is
  undefined behaviour; the rows are taken as printed.
- The start times of BIRD (5 + i/2 s): the networks have converged before 60 s.
- The text of the dumps and logs, statistics lines and plots.
- What a person calls the generated failures file: it is taken to get a name of
  the form `<topology>-failures...`, under which the parser finds the `.map`.
- That the interfaces stay down after a temporary failure is in the model and in
  `DownAtStop`; no text of the repository says that they should come back.
- A disruption that begins and ends between two valid dumps: `ReportedSuffix`
  bounds the reported instant from above, and determines it only if the last
  dump before the repair shows the disruption.
- A link that joins a node to itself, in a topology or in a failures file:
  `NtfTopoGenAssumption`, `LinkFailureAssumption` and `FibDumpsAssumption`
  exclude it. The parser accepts such a line, and its proofs cover it;
  `LinkCallback` would take a failure of it for one of the node's other links.
- The set-up of the sockets, what a server's stdio buffer still holds when the
  simulation stops, and the shortest paths that `spfs.py` computes and does not
  use.
- `wrapper.sh` (replaced by the Rust wrapper), the plots of pasted numbers, the
  experiment descriptions, provisioning and the stand-alone BIRD test.

## 7. Plan

Done, in this order: the wrapper with its abstract pool, the containers, the
link failures, the parser, the network it becomes and the programs started on
it, the UDP parser with its clients and servers, the dumps and the FIB parser,
the proofs about the wrapper and the addresses; then the generators and the
composition of a failures file with the failures it schedules, the report of
the UDP parser, and the comparison of the FIB parser's instant with the tables.

Then the proofs of section 5, which changed the models where a proof showed
them wrong.

Next, most important first:

1. **Several failures in the dumps**: FibDumps with a second failure before the
   tables have settled.
