# A TLA+ model of l4-maglev-lb

This directory holds a model of the load balancer in `src/` (C) and of the
live-mode bridge in `bridge/` (Python): TLA+ modules translated from the code,
TLC configurations that check them on small instances, and TLAPS proofs of the
central safety properties for every size. `PROJECT.json` maps every definition to
the lines it models and lists runs, mutants, hazards and theorems.

Line numbers in comments are those of the sources in this repository.

## 1. The system and what is hard about it

`maglev-lb` forwards packets for one virtual IP to a fixed list of backends.

| Part | State | Operations | Runs on |
|---|---|---|---|
| backend manager | slots: id, health, admin state, MAC | add, set_health, set_admin_state, set_mac, snapshots, change callback | main, then health checker |
| table generator | active snapshot, generation, retired list | rebuild_and_install, get_active, reclaim, destroy | health checker writes, datapath reads and reclaims |
| Maglev table | lookup array | generate, lookup | whoever rebuilds |
| connection table | slab, chains, free list, sweep cursor | lookup, insert, reap_slice | datapath |
| datapath | sockets, timer, signalfd, counters | handle_packet, reaper tick, stop | datapath |
| packet functions | none | parse Ethernet, IPv4, ports; encapsulate | datapath |
| health checker | streaks, probes of the round, admin buffer | probe round, admin lines, stop | its own thread |
| metrics endpoint, terminal interface | none of their own | read everything else | own thread, main thread |
| process | configuration, what exists, which threads run | parse options, resolve, build, run, stop, clean up | main, joiner |
| reconciler, bridge | slots, faults, last poll | tick, desired state, actions, reset, restart | bridge event loop |
| HTTP API | snapshot mailbox, places for streams | publish, stream, close | bridge threads |
| service server | busy, queue, connections | submit, serve, config, reset | its own process |
| load client | requests, connection pool, counters | schedule, attempt, retry, maintain the pool, reset | its own process |

The health checker changes the backend manager; the callback rebuilds the table on
the same thread; the datapath loads the result without a lock for every packet and
frees old ones on its own timer tick. The bridge drives a running load balancer
from outside through its admin pipe, its metrics and the processes it starts, and
shows what happens to browsers over long-lived streams.

What tests hardly reach: a swap between two instructions of a packet; an
allocation failure after a swap; an eviction in the middle of a chain; an answer, a
deadline and a stop in one poll; a signal or a key during startup; threads alive
during cleanup; a process that dies in the middle of a drain; a restart of the load
balancer with lines still in its pipe; a decision taken on a poll that is out of
date; a reply that arrives after its attempt was given up; a browser that leaves
while the loop decides whether anyone watches. `PROJECT.json` lists these hazards at
their lines with the properties that cover them.

## 2. Modules

| Module | Models | How |
|---|---|---|
| `BackendManager` | `backend_manager.c` | one operator per function; the callback is `cb` |
| `TableGenerator` | `table_generator.c`, the reading side of `datapath.c`, the startup and cleanup of `main.c` around them | one action per mutex section or atomic access; the heap is a set of addresses `malloc` may reuse, and fails when none is left |
| `RoutingTable` | what the generator promises | a change of the backend table is pending until the view it asks for is installed, or given up, in one step |
| `Prime` | `maglev_is_prime` | shared by `Maglev` and `Process` |
| `Maglev` | `maglev_table_generate` | one action per probe of a preference; `Reference` is the definition it is compared with |
| `Conntrack` | `conntrack.c`, `reaper.c` | lookup and insert are atomic, since only the datapath runs them; the sweep goes link by link, because other threads read the count meanwhile |
| `FlowTable` | what the connection table promises | a partial function from flows to backends with last-seen times |
| `Packet` | `eth.c`, `ipv4.c`, `tcp_udp.c`, `flow.c`, `gre.c` | functions of the lengths and words a frame claims: what is accepted, how far the frame is read, how long the result is, what the checksum comes to |
| `Datapath` | `handle_packet` and the tick | extends `FlowTable` and `Packet`; the three steps of a packet are where the other thread's installation can fall between |
| `HealthChecker` | the health-checking thread | one action per connect, per event of a poll, per pass of a loop; time is two events, the deadline and the end of the interval |
| `AdminFifo` | `process_admin_fifo` | a byte is the k-th of the i-th line written, or the newline after it (k = 0), so what is handled can be told from what was written; a read takes what the pipe holds, up to its buffer, so lines are cut at any byte |
| `Config` | `config.c` | one action per kind of option; a number is checked as it is read and cast to the width of its field |
| `Process` | `main.c` and the threads it starts, `arp_resolve.c` | extends `Config`; `Components` and `Cleanup` are the orders of construction and destruction; a thread's use of a component that is gone is recorded in `misuse`, an open descriptor in `fds` |
| `Reconciler` | the backend half of `reconciler.py`, with the ticks, commands and restarts of `live_bridge.py` | one action per tick, poll and command; the health checker of the load balancer is reduced to its verdicts and the lines it reads, and the processes are external |
| `LiveBridge` | the streams of `httpapi.py` and the loop of `live_bridge.py` that feeds them | one action per critical section of the mailbox, per write, and per part of a tick; `unwatched` measures independently how long nobody has watched |
| `ServiceServer` | `service_server.py` | one action per callback of the event loop |
| `LoadClient` | `load_client.py` | one action per stretch of a task between two awaits; replies travel over `wire`, so they arrive late or not at all |

`TableGeneratorProofs`, `MaglevProofs`, `ConntrackProofs`, `DatapathProofs`,
`ProcessProofs` (the process and its health checker), `BridgeProofs` (the load client,
the streams and the admin pipe) and `BackendProofs` (the service server and the
reconciler) hold the theorems, and `Induction` the induction they use (section 5). `MC*` modules and the
`.cfg` files give the constants their values. Where one proof module extends two
components, their initial predicate, next-state relation and specification have a
prefix (`hcInit`, `svNext`, `rcSpec`).

Composition. `TableGenerator` extends `BackendManager` and is shown to implement
`RoutingTable`. `Conntrack` is shown to implement `FlowTable`. `Datapath` is built
from the two abstract sides: it extends `FlowTable` and changes the flows only by the
actions of that module, and from the first installation, where it
starts, its control part takes only steps of `RoutingTable` (theorem
`ControlIsRoutingTable`). What the two give together is `FlowsKeepBackend`: what is sent
of a flow within its timeout goes where its last packet went (`sent` records that). So
what is shown of `Datapath` rests on the two refinements. In `Datapath` the health
checker is reduced to the changes of health and admin state it can make, in any order.
`Process` goes on from the configuration `Config` parses, and `Maglev` and `Process`
use the same test of primality. `Reconciler` has its own small picture of the load
balancer: what it has marked up and drained, and when it probes and reads its pipe.

Definitions whose comment starts with "Mutant" are faulty variants of a
definition after them; each property fails for at least one of them, which
`PROJECT.json` names. `TypeOK` of a module, with its prefix if it has one, describes its
variables.

## 3. Runs

| Run | Configuration | Distinct states | Checks |
|---|---|---|---|
| `table_generator` | 1 backend, 3 addresses, 3 generations | 23 k | `NoUseAfterFree`, `NewFlowResolves`, `ActiveIsCurrent`, `ImplementsRoutingTable`, `RetiredIsFreed` |
| `conntrack` | 3 flows, 2 entries, 4 buckets | 82 k | `SlabPartitioned`, `ReapedInOneTurn`, `ImplementsFlowTable` |
| `health_checker` | 2 backends, rise 2, fall 3 | 224 k | `HealthIsLastStreak`, `OneResultPerRound`, `StopEndsThread`, `DownIsDetected` |
| `maglev` | 0 to 3 backends, prime sizes up to 9, 9, 7 and 5 | 141 k | `Balanced`, `FinishedIsReference`, `FillEnds` |
| `datapath` | 2 flows, 2 backends, 1 table entry, 2 packets out of 27 frames | 1.6 M | `GaugeIsExact`, `Conservation`, `DrainDropsNothing`, `FramesStayInBuffer`, `OuterHeaderVerifies`, `DrainedTakesNoFlows`, `FlowsKeepBackend` |
| `process` | every option, one number out of 10, both modes, every failure of a start | 112 k | `LateUseIsOfStatsOnly`, `ExitIsClean`, `SigtermExits`, `QuitEndsRunning` |
| `process_quit` | the same | (violation) | `QuitExits` |
| `admin_fifo` | 4 lines of 0, 1, 3, 4, 5 or 9 bytes, buffer of 4, reads of 3 | 20 k | `FittingLinesHandled` |
| `reconciler` | 2 slots, 1 backend, all actions, 1 restart of the load balancer, 2 lines in the pipe | 40 k | `SlotIsAsMeant`, `OneSlotEach`, `RemovedIsFreed` |
| `live_bridge` | 3 streams, 2 places, 2 snapshots, pause after 1 | 67 k | `PausedMeansUnwatched`, `NewestArrives`, `CloseEndsStreams` |
| `service_server` | 3 requests, 2 connections, capacity up to 2, queue up to 1 | 86 k | `WorkConserving`, `Accounted`, `AdmittedIsServed` |
| `load_client` | 2 requests, 1 connection, with and without a pool and a retry | 95 k | `RequestsAccounted`, `ReplyIsOwn`, `RequestEnds`, `RetiringCloses` |

Each property is stated in words above its definition; what each run shows is in
`PROJECT.json`.

Why the bounds are enough to meet the interesting cases:

- Three addresses are an active snapshot, one held by the reader and one being
  built, so memory is reused at once and runs out; the first capacity of the
  retired list is 1 instead of 8, so it grows, and fails to, within three
  generations. One backend comes and goes from both sets of a snapshot; any number
  is covered by the proofs.
- Two table entries for three flows make the table full; two flows share a bucket,
  so an entry that is not the head of its chain is evicted. Time runs past both
  timeouts.
- Two backends make one answer while the other is still pending; rise and fall
  are above 1, so a broken streak differs from a whole one, and differ, so neither
  can stand in for the other. One kind of admin line is enough because the thread's
  control depends on a line being there, not on which it is.
- Each number of backends has its own largest size; every prime up to it is tried,
  with every offset and skip. Three backends meet sizes 2, 3 and 5: fewer slots than
  backends, as many, and more.
- One connection entry for two flows lets a flow be refused, and one of the two has
  the timeout zero, the boundary of "longer ago than"; each backend may fail,
  recover, drain and undrain at any step of a packet. The frames lie at every limit
  of the parsers and the buffers and one byte off it, and one pair of addresses makes
  the checksum carry twice.
- The numbers of a command line are zero, one, and the limits of every option with
  their neighbours. TLC's integers have 32 bits, so 2^30 stands for 2^32 as the width
  of a 32-bit field (`U32`). One numeric option is given, with the others at their
  defaults, since each is checked on its own.
- The admin buffer holds 3 bytes and a NUL: lines are empty, shorter, just fitting,
  one byte too long and several buffers long.
- One backend that comes and goes, with two slots, takes either and leaves it in any
  phase, so a slot is handed on in every state a predecessor can leave it in.
- Three streams for two places: one is refused, and takes the place another gives
  back, while it serves two snapshots and the end.
- Two places and one queue entry for three requests: all of served, queued and shed
  happen, and both numbers are reconfigured at any moment.
- Two requests share the one pooled connection or compete for it, one retry makes a
  late reply meet the next attempt, and the pool is configured away and back.

## 4. Fairness

- `TableGenerator`: a thread inside a rebuild or a packet goes on (weak). The reaper
  tick's detaching of the retired list and the joining of the health checker are
  strongly fair: they can be taken only between packets and between rebuilds, to
  which their threads return again and again. Destroying the generator is weakly
  fair.
- `HealthChecker`: the thread runs, deadlines pass, and a stop that has set its flag
  writes the wake byte. Nothing is assumed of backends, whose every
  connect may succeed, be refused or go unanswered, or of writers to the pipe.
- `Maglev`: the loop runs.
- `Process`: main, the datapath and the joiner run, a woken thread ends, and the
  deadline of an ARP request passes; no reply, key or signal is assumed.
- `Reconciler`: ticks at which every wait is over, and successful polls, keep coming;
  a load balancer that was stopped is started again, probes and reads its pipe, and a
  process that was sent KILL ends. A process that was sent TERM need not.
- `LiveBridge`: the loop ticks, and a stream's thread goes on, since its wait and its
  writes have timeouts. Nothing is assumed of browsers. `CloseEndsStreams` shows that
  every handler ends if the process lives long enough; the handlers are daemon threads,
  so the interpreter may also end them.
- `ServiceServer`: a task's sleep ends.
- `LoadClient`: tasks that can go on do, timers fire, and the pool maintainer runs.
  Nothing is assumed of the network: connects may fail and replies never come.

## 5. What is proved

Everything here is proved with TLAPS for all values of the constants, from the
assumptions the modules name (`ASSUME`), which TLC evaluates in the runs. They say
that bounds are natural numbers, that sets of backends, slots, threads, requests
and connections are finite, that backend ids, slot numbers and line lengths are natural
numbers, that table sizes fit in 32 bits and a 32-bit field can hold the largest timeout,
that special values such as the null pointer are not ordinary ones, that the user has no
actions but those of the bridge's schema, that rise, fall, first capacities and the sizes
of the admin pipe's buffers are positive, and, for `Datapath`, that the lookup table names
an eligible backend whenever there is one, which `NoSlotLeft` of `MaglevProofs` shows of the fill.

**`TableGeneratorProofs`** (any number of backends, addresses and generations):

- `Invariance`: `Spec => []Inv`, and from it `TypeCorrect`, `ReaderSafe`
  (`NoUseAfterFree`), `Ownership` (`OwnedOnce` and `NothingLostAtExit`),
  `NewFlowsResolve` (`NewFlowResolves`), `ActiveCurrent` (`ActiveIsCurrent`) and
  `GenerationExact` (`GenerationTracksActive`);
- `HeldStable`: no step rewrites a snapshot a packet is using;
- `RetiredBounded`: the retired array is never written past its end, from an
  invariant of its own on the array's capacity and the finite number of entries;
- `Refinement`: `TableGenerator` implements `RoutingTable`.

Safety of the reader is a matter of ownership: every allocated snapshot is in exactly
one of the places that will free it or hand it on (active, retired, detached for
freeing, the locals of a rebuild, leaked). That alone is not inductive. It has to be
known that the reader's pointer is the active snapshot, or a retired one, or the old
one of a rebuild, and never a detached one, which holds because the reader itself
detaches and does so only between packets (`ReaderLocals`); and that main and the
health checker never rebuild at the same time, which follows from how far startup and
cleanup are (`Phases`). With that, the two separate reads of the backend table agree
with each other and with the table (`RebuildIsCurrent`), so the installed snapshot is
current (`ActiveSnapshot`) and its candidates are routable (`CandidatesRoutable`).
There is one lemma per action. For the refinement, the abstract view is the content of
the active snapshot, and a change is pending from the moment the backend table changes
until the swap.

**`MaglevProofs`** (any set of backend ids, any offsets and skips, any prime size of 32
bits):

- `FullCycle`: with a size that `maglev_is_prime` accepts, the first `m` preferences of a
  backend visit every slot, whatever its offset and skip;
- `MaglevInvariant`, and from it `TypesKept` (`TypeOK`: no preference past the last of the
  list is tried), `EvenShares` (`Balanced`), `Determined` (`FinishedIsReference`) and
  `NoSlotLeft` (every slot of a finished table names a backend of its set).

The trial division up to the square root finds every divisor (`PrimeHasNoDivisor`), a
size without divisors shares none with a skip below it, so no two of the first `m`
preferences are the same slot (`PreferencesDiffer`) and, there being as many as slots,
none is left out. In the loop, whatever a backend has passed over is taken
(`PassedInv`), and the slots taken are as many as the turns (`CountInv`); so while a turn is
left a slot is free, it is on every list, and the search stops at or before it. After `t`
turns of `n` backends the one at place `i` has `(t + n - i) \div n` slots (`ShareInv`).
The table after each turn is the reference after as many turns (`ReferenceInv`), because
the first free preference from where the search of the last turn stopped is the first
free one of the whole list; and the reference depends on the order of the caller only
through its set. That the loop ends has a safety half, which is proved: every step tries
one more preference of one backend and takes none back, and no backend tries more than
`m` (`FillGetsOn`), so there are at most `n * m` steps. `SortedOnce` justifies that the model sorts by naming the ascending
order: it is the only one `qsort` can leave.

**`ConntrackProofs`** (any flows, hash, timeouts, slab, number of buckets and buckets
scanned per tick): `ConntrackInvariant`, and from it `SlabSharedOut`
(`SlabPartitioned`), `ReapedInTurn` (`ReapedInOneTurn`), `GaugeCounts` (the count of
active flows is the number of linked entries, in the middle of a sweep too) and
`ConntrackRefinement` (`ImplementsFlowTable`).

The links of the slab form lists: the free list and the chain of each bucket, each a
sequence that the `next` fields follow to the end, disjoint, without repetition, and
together the whole slab (`ListInv`). What an insert, an eviction in the middle of a chain
and a reuse do to these sequences is stated by lemmas about `Walk`, the recursive
function that follows the links; `Induction` supplies the induction over the length of a
list. `EntryInv` says that chained entries hold flows, each in the bucket its key hashes
to and no flow twice; this makes a lookup of one bucket enough, and the abstract map of
the refinement single-valued. `SweepInv` places the sweep between two entries of the
chain it is in. That an overdue entry is reaped in time is a matter of distance: the
buckets scanned since it became overdue and those the cursor has yet to pass before it
are less than one turn (`OverdueInv`), which needs that the entries the sweep has already
passed in its bucket were not overdue.

**`DatapathProofs`** (any flows, backends, frames, timeouts and table):

- `Invariance`, and from it `GaugeExact` (`GaugeIsExact`), `Accounting`
  (`Conservation`) and `DrainSafe` (`DrainDropsNothing`);
- `BuffersSafe` (`FramesStayInBuffer`) and `HeadersVerify` (`OuterHeaderVerifies`),
  from lemmas about `Packet`: for every frame the parsers accept, the reads and writes
  stay inside, and the folded sum of a header with its checksum is all ones;
- `NoNewFlows` (`DrainedTakesNoFlows`);
- `KeepsBackend` (`FlowsKeepBackend`), from `SentInv`: a flow of which a packet was sent
  within its timeout is still known, with the backend that got the packet, because it was
  last seen no earlier than that and a sweep spares it;
- `ControlIsRoutingTable`: its control part takes only steps of `RoutingTable`.

The counts are inductive only together with the packet in hand, which is already
received and not yet decided (`Held`, `HeldMiss`), and with the fact that a flow found
by a lookup is not evicted before the packet is done, because the same thread reaps.
That draining drops nothing needs that, as long as no backend has failed, every view
ever installed, and the one in hand, can resolve all backends.

**`ProcessProofs`** has the process and the thread that checks its backends. Of the
health checker (any number of backends, any rise and fall): `OneResult`
(`OneResultPerRound`) and `HealthTrue` (`HealthIsLastStreak`). `RoundInv` ties the
number of results of a probe to the state of its socket, which tells a probe that a stop
abandoned from one that timed out, and says how far each loop of a round is; `StreakInv`
says that the health of a backend is what its last full streak said, that the counter of
the kind of result that came last is the length of the streak up to its threshold, and
the other counter zero. Without the last part an old count could complete a streak that
was interrupted.

Of the process (any command line, any number of backends, every failure of a start):
`ProcessInvariant`, `LateUses` (`LateUseIsOfStatsOnly`) and `CleanExit` (`ExitIsClean`).
That cleanup leaves nothing behind is not inductive: `BuiltInv` says what exists at each
step of construction and destruction, `FdsInv` that each open descriptor has an owner
among what exists, or is the joiner's while main waits, `DpInv` where the datapath and
its joiner can be at each place of main, and `ThreadInv` that the exporter and the
health checker run only while what they use exists, the statistics apart.

**`BridgeProofs`** has the parts of the bridge process. Of the load client (any
requests, connections and configurations): `Accounting`
(`RequestsAccounted`) and `RepliesAreOwn` (`ReplyIsOwn`). The reply is one's own
because whatever is pending on a connection is the current attempt of a request that
waits on that connection (`PendingIsCurrent`), which a timeout must preserve by
removing it. `wait_for` of Python 3.12 and later lets a timeout override a reply that the
task has not seen yet, and earlier ones do not; the model allows both.

Of the streams (any number of them and of places): `Counted` (`StreamsCounted`) and
`PauseSafe` (`PausedMeansUnwatched`). The count of streams is exact, and while it is zero
the time since it last changed is the time nobody watched. `SentInOrder` says of every
step that a stream is sent nothing older than what it has, nothing twice and nothing that
is not published (`SnapshotsInOrder`). The handler works with copies of the sequence
number that it took under the lock and uses after it, so the invariant (`SentInv`) is that
the copy is what was sent while it waits, and that the number it was woken with lies
between that and the current one.

Of the admin pipe, from the bridge that writes to it to the health checker that reads it
(any line lengths, buffer and read size): `PipeInvariance` and `FittingHandled`
(`FittingLinesHandled`). Where a read ends says nothing about lines, so the invariant
(`afInv`) is about bytes: the pipe holds the rest of the lines from some byte of some line
on, without a gap; the buffer is what the bytes of that line read so far leave in it,
which after an overlong line is only its tail; and what was handled is, line by line, what
each earlier line left. One byte keeps it, and a read is an induction over its bytes.

**`BackendProofs`** has the backends of the bridge. Of the server one runs (any
connections, capacity and queue limit, any number of requests at once):
`ServerInvariance`, and from it `ServerAccounted` (`Accounted`),
`ServerWorkConserving` (`WorkConserving`) and `ServedFirstComeFirst`. That `busy` is the number of requests being
served is inductive only if starting a queued request adds one that is not served
already: each request is queued once, is not served while it is queued, and a new one
has a number above all of them (`PlacesOK`). The lines of one `data_received` are
submitted one by one, so a batch is an induction over its length (`SubmittedIn`).
`ServedFirstComeFirst` is the safety half of `AdmittedIsServed`, about every step
(`FirstComeFirstServed`): a request being served goes on or is counted, the queue starts
from its head and keeps its order, and while a request waits nobody who came later is
served. That `submit` starts a request without looking at the queue is right only because
no place is free while one waits.

Of the reconciler (any slots, any canvas, any number of lines in the pipe and of
restarts): `FleetInvariance`, and from it `SlotsAreOwnedOnce` (`OneSlotEach`) and
`SlotsAreAsMeant` (`SlotIsAsMeant`). The last line in the pipe decides what a slot is
being brought to (`Will`), so a line that is read changes nothing, and a restart, which
empties the pipe, can only lose a drain. What is inductive is a property of one slot
(`Good`): besides what the two properties say, that a slot being removed drains or stops
and is no longer drained by hand, and that the pipe is empty while nobody reads it.
Every operation on a slot keeps it (`ActedOK`, `ResetOK`, `RemovalOK`, `ProgressOK`),
hence so does a step over all slots (`SteppedOK`); the loop that places new backends,
an induction over their ids, gives a free slot to an id only if no slot has it
(`PlacedUpToOK`).

Every inductive invariant was checked with TLC on the constants of its run before it was
proved. An induction over data is carried out on the set of the numbers that have a
property, with the least number that lacks it (`Induction`), because no prover installed
can instantiate the induction theorems of the library, which take an operator.

Every invariant and every action property that a run checks is proved. Only
model-checked is liveness, which needs fairness and so is out of this prover's reach:
that admitted requests are served, that the fill ends, and the others of section 3.
`FillGetsOn` and `ServedFirstComeFirst` prove of two of them what does not need it.

## 6. What the code does not do

Modelling met places where the code differs from what its comments or docs say. One
is a run; the others are stated as properties at the end of their modules, and
adding one as `PROPERTY` (or `INVARIANT`) to the module's configuration shows the
trace.

- `QuitExits` (run `process_quit`): q pressed before `datapath_run` has set
  `is_running` closes the terminal interface, sends no signal, and the join waits
  for a datapath nobody stops (`main.c:118`).
- `HealthCheckerUsesLive` (`Process`): cleanup frees the per-backend statistics
  before it stops the health checker, whose failed probes index them
  (`main.c:325`, against the principle at `main.c:318-321`).
  `LateUseIsOfStatsOnly` shows that nothing else is used late.
- `KillsUnjoined` (`Process`): the joiner thread can join the datapath thread
  between the check and `pthread_kill` (`main.c:114-119`).
- `WaitsWithoutTui` (`Process`): if the terminal interface cannot be created, a
  datapath that is already running is told to stop (`main.c:108-119`).
- `ProbingIsPositive` (`Config`, with the configuration of `Process`): a multiple of
  2^32 passes the check of the probing options and is stored as zero
  (`config.c:199-203`).
- `PortsAreInside` (`Datapath`): the ports of an accepted packet may lie in the padding
  of its frame, past the packet's own length (`flow.h:30-34` promises only that they
  were received).
- `OnlyLinesHandled` (`AdminFifo`): the end of an overlong line is handled as a line
  (`health_checker.c:197-198` and `:214`).
- `RoundsAnIntervalApart` (`HealthChecker`): an admin line starts the next probe
  round at once (`health_checker.h:34`, `health_checker.c:331`).
- `InstallFreesPrevious` (`TableGenerator`): the previous snapshot is retired, not
  freed, by an install; the header is out of date (`table_generator.h:14-16`).
- `PinnedBackendIsPresent` (`Datapath`): the branch marked unreachable is taken by
  flows pinned to a backend that has failed (`datapath.c:127-129`).
- `DrainIsKept` (`Reconciler`): a restart of the load balancer forgets the drains the
  user asked for, and they are not sent again (`docs/live-mode.md:149`).
- `FreedIsDown` (`Reconciler`): a slot can be freed and undrained on an old poll
  while the load balancer has it up (`reconciler.py:26-28`, `:315`).
- `ServingIsProbed` (`Reconciler`): a backend restarted before the load balancer
  has noticed the crash is serving at once (`docs/live-mode.md:145`).
- `RestartRespawns` (`Reconciler`): a slowed or partitioned backend whose process
  dies is not respawned by restart (`reconciler.py:287`, `docs/live-mode.md:145`).
- `SlotComesBack` (`Reconciler`, with `Id = {1, 2}`, `Kind = {}`, `MayExit = FALSE`,
  `MaxRestarts = 0`, `MaxFifo = 1`): a backend added back together with a new one can
  lose its slot to it (`docs/live-mode.md:90-91`).
- `InFlightIsBounded` (`LoadClient`): requests are counted as in flight when they first
  run, not when they are spawned, so a burst passes the limit (`load_client.py:253`).
- `RetryIsNewConnection` (`LoadClient`): with a pool, a retry uses a pooled connection,
  which may be the one that failed (`docs/live-mode.md:118-119`).

## 7. What is not modelled, and why

- The hash functions (`hash.c`): any permutation and any bucket they can give is tried
  where they are used.
- Addresses, ports and the constant bytes of headers; byte counters: they are copied or
  added and decide nothing.
- The text of the metrics, its HTTP parsing and what the terminal interface draws:
  sequential formatting. A scrape reads counters one by one while they change; no
  document says that they agree with each other.
- `backend_manager_remove`: nothing in the program calls it.
- `tools/maglev_remap_report.c`: an offline measurement with the fill `Maglev` models.
- Two restarts of the load balancer that overlap: `lb_restart_pending` is cleared when
  the first begins (`live_bridge.py:163`), so a second can begin during its awaits.
  The code after them assumes one, and what the kernel then does with two processes on
  one pipe and one port is outside the program.
- The client half of the reconciler and the configuration it sends to running
  processes, which repeat the backend half without slots or drains; the contents of the
  snapshot document; the setup of network namespaces.
- Sliding windows, histograms, the busy integral, traces, validation of requests, static
  files: sequential functions of their input.
