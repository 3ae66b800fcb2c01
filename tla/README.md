# ScaleBox in TLA+

ScaleBox is a multi-threaded user-space middlebox: adapters capture packets,
chains of modules look at, hold back, rewrite or drop them, and adapters write
them out again. This directory holds TLA+ modules translated from its sources,
the TLC configurations that check them and proofs that TLAPS checks.

Paths below are relative to the `src/` directory of the repository.

## 1. The system

| Component | State | Operations | Talks to |
|---|---|---|---|
| Object pool (`mem/`) | a deque, a mutex, a count and a limit per object type; `m_bInPool` in every object | `getObject`, `releaseObject`, `release`, `changeMaxPoolSize` | every thread takes packets, addresses, signatures and timer events from it |
| Adapters (`pkt/Adapter*.cc`, `pkt/Thread_IO.cc`) | four packet queues, two module chains, `m_bEnabled` | capture, input/process/output loops, `addInputQueue`, `addOutputQueue`, chains | pool, modules, other adapters |
| Modules (`pkt/IOModule.cc`, `Input*.cc`, `OutputWrite.cc`) | filter, adapter, direction, timers | `processPacket`, `resumePacketProcessing` | chains, pool |
| Taps (`pkt/MultiIFModule.cc`) | target module, id | `processTapPacket`, `resumePostTap`, `writeBackViaTap` | a module that spans several adapters |
| Packet queue (`pkt/PktQueueFIFO.cc`) | deque, mutex, limits | `enqueue`, `popAndGetPacket` | adapters, shaped hosts of RIPPS |
| Timers (`mon/Thread_Timer.cc`, `util/mgmt.cc`) | list of aggregators, a sorted deque in each, a change flag | `addTimerEvent`, `registerTimerAggregator`, `Thread_Timer`, `microsleep` | modules' `processTimer` |
| Trace playback (`pkt/AdapterFile.cc`) | list of files, position, rate, loop count | `readPacket`, `openFile`, console commands | input queue of its adapter, console |
| TWiCE (`TWiCE/`) | packet pool with reference counts, cache table | clone, window search, entry creation and replacement, purge, resize | taps, timers |
| FMNC (`fmnc/`) | connections, test sequences, slices, the manager's slice size and spacing | connection state machine, construction of tests, slicing timer, cleanup timer, analysis | taps, timers, write callbacks |
| RIPPS (`RIPPS/`) | hosts, connections, expected and matched packets, summaries, shape queues | slicing, reordering, shaping, matching and swallowing of acks | taps, timers, pool |
| Whirlwind, packet caches (`whirlwind/`, `packetcache/`, `pktcache/`) | hash tables of packet content | lookup, insertion, expiry | taps |
| Monitor, console, XML, statistics (`mon/`, `core/`, `xml/`, `stat/`) | lists of adapters and modules | start-up, commands | everything, at start-up and from the console |

Each adapter runs three threads (input, process, output), the timer manager two,
and `main` becomes the console. Threads share packets by handing over pointers:
a packet belongs to whoever holds it, and nothing checks that. What is hard here is

* ownership: a packet passes from thread to thread through queues, taps and timers,
  and must come back to the pool once and only once;
* order: two queues feed one thread, and taps put packets aside for a while;
* state read at one moment and used at a later one: the front of a timer deque, the
  resume marker in a packet, the flag in a pooled object;
* limits and failures: a pool that is exhausted in the middle of a growth, a file that cannot be
  opened, a reference that is given back to the wrong entry;
* what one session leaves behind for the next: the slice size and spacing of FMNC's manager, the
  index and the accumulated time of a playback;
* protocols seen from the middle: RIPPS and FMNC count on what a TCP receiver answers to slices
  that arrive out of order;
* sleeping and waking: two threads that share one flag.

There is no persistence and no message loss inside the program, so crash recovery
and unreliable delivery are not among its problems; lost packets on the wire are
a matter of the measured connections (FMNC, RIPPS).

`PROJECT.json` lists every component and every hazard at its line.

## 2. Modules

### MemoryPool, ObjectAllocator

`mem/MemoryPool.cc` with the flag handling of `mem/MemPoolObject.cc`. Each thread
has a program counter; a step is what it does between two points where another
thread can see the difference (taking the mutex, test, one turn of the growth
loop, pop, unlock, flag update outside the mutex). Objects are numbered per type in
order of creation. `ObjectAllocator` is the promise: an object is acquired only when
nobody has it.

Not modelled: arrays beyond the types with an allocator, `clean()` of each class. Callers release what they hold; a second release
through `releaseObject`, which does not look at the flag, would be stored twice, and that callers do not do it is a matter
of the other modules (`OnePlace` of PacketPipeline).

### PacketPipeline

Both worker threads of each adapter are one parameterised actor, a worker; its loop
polls the priority queue, then the plain queue, then walks its chain one module at a
time. Module behaviour is reduced to its kind: "look" answers 0, "purge" and "write"
release the packet, "pass" queues it at another adapter, "tap" gobbles, keeps or ignores
it. Whether a filter matches is a free choice. `resumePostTap` and `writeBackViaTap`
are steps of the tap's module outside the chains. `trail` and `arrivals` are history
variables for the properties: the visits to each packet since it left the pool, and, of the packets in flight
that an adapter captured, which was captured no later than which. Kept packets are resumed oldest first, as the shape queue
of a RIPPS host does it.

The queues have no limits: `PktQueueFIFO` has members for them (177-205), protected, and no class
sets one. Not modelled: XML set-up, statistics, write callbacks, `stopRunning` (no caller).

### TimerManager, TimerService

The aggregators, the list of them with its mutex, the change flag and the loop of
both timer threads, with a step at each mutex, at the flag and at each reading of the
clock. `microsleep` reads the clock a second time, so a thread may sleep longer than
it meant to; what it meant is kept in `currentTime + next`. The clock stops at
`Horizon`, which stands for any later time: a time beyond it is cut off to it, and all
sleeps end there. `TimerService` is the promise to a module: an event is dispatched once,
not early, and after every earlier event of the module.

Not modelled: `unregisterTimerAggregator` (no caller), the status command (only reads), and events that are added
without being armed: the one place that does so is FMNC's (`fmnc_manager.cc` 1518), and FMNCManager has it
(`InsertUnarmed`). Where it happens the deque is not sorted, and what is said of order here does not hold.

### FMNCManager

`fmnc/fmnc_manager.cc` with its connections: the inbound thread (`Accept`, `FindConnection`,
`HandleExisting`), the callbacks of the timer thread, one action each but for the two that
can be seen half done (`StartSlicing` waits for cross traffic, `PopulateOldList` is followed
by a `PurgeEntry` per connection and `RearmCleanup`), and the thread that writes reports.
The list's mutex is held within single actions only; what matters is what happens after
it is unlocked, so `FindConnection` and `HandleExisting` are two steps. A connection is an
address (`Slots`) with a record in it; `live` is false once it is deleted, and what a late
user does to such a record is not to be believed. Time is relative: `idle` counts up to
`Age`, a timer's `left` counts down. A sequence is its length and the next slice to send.
`LateClients` says whether a client may send when its connection is due for purging; without
it the properties are those of clients that keep to a fresh connection.

A slice arms the next one after a gap of any length, as long as the gaps of a sequence add up to no more than
`MaxSpan`; the field `wait` is what is left of that. `held` says how long a connection's timers have been held
up by waits for cross traffic (which stop the whole timer thread, `HeldUp`) since a packet last used the
connection; `MaxStall` bounds it.

That a timer's connection is there when it fires (`TimersHaveConnections`), that a sequence is carried by one
callback (`OneCarrier`) and that states advance (`StatesAdvance`) is a matter of a sum: the age of a packet when it
is handled, the delay before the start, the waits for cross traffic, the gaps between the slices and the
delay before the FIN must stay below `Age`. Nothing in the program sees to that, and a sequence that
takes longer is purged under a silent client: with one more unit of `MaxSpan` or of `MaxStall` the run
`fmnc` finds each of the three violated. At the program's numbers (`Age` 10 s, 5 ms before the start, 250 ms
before the FIN, at least a second for each `check_port_traffic`)

* the default test and `/tests/base` take about 1.3 s, which leaves some 8 s for the waits of this and of other
  sequences;
* `/tests/big` takes about 9.5 s and does not fit, nor does choice 1, whose second slice is due after 71
  minutes (`fmnc_test_sequence.cc` 2530): with these it is only the client's own packets that keep the
  connection.

Not modelled here: the content of requests (see FMNCTestSequence), RTT figures, `doTimer_Retrans` (no
timer has its id), client list, console.

### FMNCTestSequence

What FMNCManager leaves open: which slices a request leads to. `CreateTestSequence` is
`createTestSequence_PreDef` with `populatePredefined` and the constructors of `fmnc_test_sequence.cc`
behind it; each is an operator (`WebDemo`, `Train`, `CellularPieces`, `Image`, `Results`, `Index`,
`Simple`) from a request to transmit blocks and a sequence of slices, put together from the rearrangements
the code uses (`SwapEnds`, `FirstToEnd`, `Stairs`, `PadTo`). Lengths and times are the program's own, so
sums that are computed at different places in the code are really compared. `SendSlice`, `SendFIN`,
`Purge` and `Over` are the life of one session, with only what the slices need of it; sessions follow one
another because the manager keeps slice size and spacing between them. `Deliver` and `DelayedAck` are
a TCP client, which answers at once what is out of order or closes a gap, and delays the answer
to every other segment in order. `Pairs` is what `doAnalysis` has to work on: the k-th slice with the k-th answer.

The wire neither loses nor reorders: the code retransmits nothing, and a lost slice shifts all later
pairs, so there is nothing to check of it. A delayed answer comes within any gap of `DelAck` or more, and
before the FIN. `PairsMatch` is stated for tests all of whose slices lie in whole windows (`Measured`).
Requests bring numbers written in digits (`RequestAssumption`), and none is for slices without a byte
(`SliceAssumption`: no custom slice size of 0, no train whose gap is too short for a byte at its rate). The code
tests neither; it would send such slices one after the other from the same byte, and `EveryByteOnce` does not
speak of them.
Times beyond `Forever` are cut off to it. A session whose connection is purged under it ends the
behaviour, for its timer then has a deleted sequence (see findings). Not modelled: the floating-point rates
of the cellular train (it is a number of packets and one gap here), parsing of requests, `createTest` with
`TrainSize` and `TrainGap` (no caller), the analyses of fluctuation and hiccups (no caller).

### RIPPSMonitor

The monitor between a sender on the WAN and a host on the LAN, in three threads: the WAN tap (`Send`,
`SendControl` and `Retransmit` are packets that enter `ProcessPacketWAN`; then a `ShapeSlice` and an
`ExpectAck` step for each slice, for the packet is in the shape queue with its timer before its
acknowledgement is expected), the LAN tap (`ProcessAck` under the host's mutex, `MatchAck` without it, and
`TerminateConnection` under it again), and the timer thread (`ShapeTimer` and
`ResumePostTap` are two steps, since the popped packet is in neither the queue nor the chain between them;
`PostTimer` pops and resumes in a loop of the same two; the cleaner is `CreateSummary`, which adds the summary,
and `RemoveConnection`, between which it holds the host's mutex). The count that releases a host is taken
without that mutex (`RIPPS_Host.cc` 260), so `Counted` is any number up to the one in which a connection counts
twice, with its summary and without. A host can therefore be released on fewer round trips than `Measure`,
though "The number of RTTs to capture before attempting validation" (`RIPPS_Monitor.h`) says otherwise;
`ResolvedIsMeasured` says that it has at least half, and that no later step loses any. A host may send data (`HostSends`): its acknowledgement uses up an expected one and is
forwarded all the same (`RIPPS_Monitor.cc` 545-547), so that a duplicate it was meant for escapes later. That is why
`NoFastRetransmit` speaks of hosts that sent none; `EveryByteAcked` holds with them. A host's packets then are on a
`line` where a bounded number of them is lost; the end points keep to TCP. Sequence numbers count slices.
Time is left out: any pending timer may fire next. The pipeline's part (resuming after the tap) is that of
PacketPipeline, here one step.

Not modelled: averages of round trips, logs and statistics, and what has no caller or no timer:
`measureAll`, `startMonitor`, `checkReassess`, `terminateConnection` for packets from the WAN,
`RIPPS_MONITOR_TIMER_CONN_CLEAN`. Monitor packets are values, so the write callback's bare pointer to one
(a hazard without a property) is not followed. Left out are also the setting that forbids slicing (`getFlag_CanSlice`,
`RIPPS_Monitor.cc` 457-464), a `createPacket` that returns NULL while a packet is sliced, a timer event that cannot be
added (605-608; what `shapePacketHost` returns is ignored, and the packet stays in the queue until a later timer), and
what a reader of the two lists may see when they are reallocated or a connection is freed under it: numbers
beyond those of `Counted`, or the end of the process.

### TWiCEGateway

`tryWirelessPacketCache` and `attemptFindHit` over a packet pool and a cache table: `Arrive` clones a packet into
the pool and begins a search; every turn of the search is a step (`Miss` with `ConsiderCache`,
`IntraHit`, `Hit`). Packets are short sequences of two bytes, windows and tables are small, `Checksum` is the
code's exclusive-or over them. Pool entries are addresses which the allocator may hand out again, so that an entry
of the table can come to refer to a deleted clone, or to another packet's; a NULL packet in a deleted entry ends
the program (`Crash`). The bytes of a packet are taken to stay as they are while it is searched, although the
gateway has released it.

Not modelled: resizing and ranking the table, the maintenance that is commented out, `doWirelessCache` and the
`_NoPool` functions (no caller; they use names that are not declared), statistics. TWiCE is built by
the make target `twicegw` only.

### AdapterFile

`readPacket` with `openFile`, the process thread that takes packets out of the input queue, and the console
commands `addFile`, `clearFiles` and `start`. No lock guards any of it, so the steps are cut where the
threads touch what they share: the end of a file is `ReadPacket` (close, accumulate, count up), `EndOfFile`
(compare with the length of the list) and `OpenNext`; the command `start` is `Start`, `OpenFirst` and
`FinishStart`. A file is the sequence of its records, in ascending time; one that cannot be opened has none. A
packet that is too large is not skipped, so what follows may be read as anything (`Garbage`, as many
records as there were at most).

Not modelled: looping and the playback rate (`setFlag_Loop`, `setValue_LoopCount`, `setValue_PlaybackRate` have no
callers), the trace file's header and byte order, the length of pauses, the data race on the vector
of names itself, statistics.


## 3. Runs

| Run | Instance | Shows |
|---|---|---|
| `pool` | 2 threads, 1 type, growth 2, limit 3 moved to 1 and 4 | no object shared or lost, no pop of an empty deque, no holder's release refused, refinement of `ObjectAllocator`; the mutex comes free unless the pool is full |
| `pipeline` | 2 adapters, 2 packets, two taps on the way out, passthroughs both ways, a purge and two writers | one place per packet, each chain once, in order and to its end however often a packet stops at a tap (a marker left in a packet would show), no overtaking, every packet returns to the pool |
| `timers` | 2 timer threads, 1 module, 1 packet thread, 2 events, intervals 1 and 2, horizon 2 | what is popped is there and expired, an event is in one place, no insertion is slept through, every event fires; refinement of `TimerService` |
| `fmnc` | 2 clients, 2 addresses and sessions (symmetric), sequences of 0 and 2 slices with gaps up to 1, delays and a wait of 1, `Age` 5, purge every 2 | timers and lists agree with connections, one carrier per sequence, states advance, one report per session |
| `fmnc_live` | 1 client, 2 sessions, sequences of 2 slices with gaps up to 1, `Age` 4 | sequences shorter than `Age` end, silent connections leave the list |
| `fmnc_late` | 1 client that may be late | a deleted connection is handled (violation) |
| `fmnc_empty` | 1 client, an empty sequence possible | the timer thread stops (violation) |
| `sequence` | 3 sessions with any of 16 requests, the program's own lengths and times | slices cover the page once, answers pair with their slices, custom tests and trains get their gaps |
| `ripps` | 1 host with two connections (one of them brings only data of the host), 3 slices, packets of 1 and 3, both orders of slices, 1 extra: a loss, a packet without data, or one with data of the host | shaped packets have timers, released hosts have half of the measurements, no run of duplicate acks reaches the sender, and it hears of every byte |
| `twice` | 3 packets of 6 and 7 bytes with common windows of 3, 3 addresses, a table of 2, times to 3 | the window stays inside the packet, searches end, and only replacing an expired entry leaves one that refers to nothing |
| `playback` | 4 files (one with a packet too large, one missing), lists of 2, 2 playbacks, backlog of 2, times aligned or not | one user of the stream, every file played, aligned time ascends, playbacks end |
| `playback_carry` | the same | where times are not aligned, the default, they do carry from file to file (violation) |

### Bounds

* Pool: a growth of 2 against a limit of 3 makes a growth fail after its first
  object; limits 1 and 4 lie below and above what is allocated.
* Pipeline: two packets are enough for one to be resumed or written by a tap while the other is
  kept, queued or inside the same chain; two taps on one road let a packet stop twice.
* Timers: two events and three intervals of time let an event be inserted before,
  at and after another, while a thread scans, dozes, sleeps or wakes. What several modules have to do with each other is
  the order of the list and its mutex; `TimerManagerProofs` has any number of them.

* FMNC: two slices and two received packets are what the analysis asks for; an `Age` of 5
  is the smallest that leaves room for the start, a gap, the FIN and a wait of 1, with the purge timer
  firing in between (the delays, the gaps and the wait sum up to 4). At most four timers are pending when
  a packet arrives, which is enough for two FINISH timers of one session next to the purge.
* Test sequences: the requests are those of the demo site with the program's numbers, one custom test that
  fits its windows and one that does not, trains of both kinds of length, and every choice of the console; three
  sessions let one leave its spacing to a second and that to a third. `MaxFlight` 2 lets answers be
  merged and cross with slices.
* RIPPS: a packet of three slices is the shortest whose order can be changed with one left in order; two
  measurements need more than one slice; one catcher, where the code has five, already catches
  what one slice left over causes. The one loss, or the one packet with data of the host, meets each moment in turn; two
  connections let the data of one come between the slices of the other.
* TWiCE: windows of 3 in packets of 6 and 7 give matches within a packet, between packets, that grow to the
  right and that end with the packet; with a table of 2 every second window collides; times to 3 let entries of
  each kind expire, be hit and live longer.
* Playback: times overlap between the files, so that an order by chance is excluded; two files and two
  playbacks let each rest of an earlier file or playback meet a later one. Three files add nothing
  but a second transition of the same kind.

### Fairness

Threads that can run do (weak fairness of each thread's steps); no mutex is handed out
in turn. The pipeline also assumes that `main` enables every adapter and that a tap's
module resumes what it keeps, which a timer does for each packet. Nothing obliges a
thread to capture a packet, to start a call of the pool, to add a timer or to type a command.
Playback assumes the input and the process thread; RIPPS the program's threads, the delivery of what is not
lost, and a sender that sends again what is not acknowledged; TWiCE that a search goes on. FMNC assumes
strong fairness of the callbacks of a sequence, of the purge and of time: FINISH timers are
not armed and may be put before an expired event, but a recycled event bears a given
time only once, so they cannot do it for ever, which relative times do not show.

## 4. Findings

Three statements of the sources that TLC refutes:

1. `findConnection` unlocks before its result is used, and the purge of the timer thread deletes
   connections; "Do a double check that indeed the connection is valid" tests for NULL (`fmnc_late`).
2. `populatePacketWithNextSend` with nothing to send keeps the sequence's mutex and `isDone`
   takes it again: an empty sequence stops the timer thread, and with it every timer (`fmnc_empty`).
3. "Note that time does not carry between files" (`pkt/AdapterFile.h` 132 and 149): at the end of a file its last
   time is added to an offset for all later packets, the raw time if times are not aligned, which is the default
   (`pkt/AdapterFile.cc` 384). A packet of a second file is queued with its own time and that of the first
   (`playback_carry`).

What else the modules have because the code does, each an exception that a property names or a value that
the model leaves out:

* `getObject` on an exhausted pool returns NULL without unlocking (`mem/MemoryPool.cc:80-83`): that NULL is
  the last answer anybody gets for the type. It is the exception in `MutexComesFree`.
* `TimerManager::startup` is called by `Monitor::startup` and by `main`, so two threads run where the
  header speaks of one. The properties of `timers` hold with both.
* `removeCacheEntry` of TWiCE takes the reference from the entry of the packet at hand and not from that of the
  packet the old entry refers to (`TWiCE_CacheTable.cc:1280`). It is the exception in `ReplacementAloneDangles`.
* A RIPPS host that is resolved in the middle of a burst lets the acknowledgements of the remaining
  slices through, and its sender sees duplicates. It is the premise of `NoFastRetransmit`.
* A test's slice size stays with the manager, and so does the spacing of its last slice, 66 times
  the default after the base test. `GapsAsAsked` says what is safe from that; an image, which brings no slice
  size and is not filled up, is cut beyond its end after a test with a larger size.
* The last bytes of an image, as many as its header is long, are never sent.
* The test of choice 1 computes `1000*(j-1)` for `j = 0` without a sign: the second slice is due 71 minutes
  later, and the connection is purged under it.
* `Rmin=000` in a train divides by zero, and a custom slice size of 0 lets `predefined_2` loop for ever. The
  requests of the model have neither.
* A file that cannot be opened, or a list that was emptied, leaves a playback that is never done, and `start`
  is refused for ever. It is the exception in `PlaybackEnds`. `AllFilesPlayed` excepts lists that were
  cleared under the reader.
* The reader does not wait for the backlog after the last packet of a file, so short files exceed
  `MaxBacklog`.
* With aligned times the offset of a playback is what keeps time ascending (`StampsAscend`). The
  difference that a pause is computed from mixes a raw time with an adjusted one, and its upper halves are
  not initialised on a 64-bit machine.
* The count that releases a RIPPS host may see a connection next to its summary, and release it on half of the round
  trips asked for; data of a host uses up expected acknowledgements. `ResolvedIsMeasured` and `NoFastRetransmit`
  are stated accordingly.
* A sequence that takes longer than ten seconds is purged under a silent client and its timers use what was
  deleted. It is the condition `Timely` of the proofs and the bound `MaxSpan` of the runs.

## 5. Proofs

What the prover shows holds for any number of threads, packets, hosts and sessions, any chains and any bounds that
meet the assumptions named in the modules. The runs have checked the same invariants on their instances.

`MemoryPoolProofs`, for every set of threads and types, every growth and every limit:

* `TypeCorrect`, by a typing lemma per action;
* `Ownership` (`ExclusiveOwnership`), `PopSafe` (`PopFindsObject`) and `HolderReleases`
  (`HolderMayRelease`) from one inductive invariant `IInv`. The properties are not inductive
  alone: that a pop finds an object needs the mutex to belong to the thread that tested, that
  a push adds nothing twice needs the object to be in one thread's hands, and that the
  flag is clear needs to know at which places of a call a thread still has an object;
* `Account` (`NothingLost`): that nothing is in hand or idle that was not counted is part of `IInv`; that what was
  counted is somewhere is `Accounted`, shown action by action from the same facts;
* `PoolIsAllocator`: every step is a step of `ObjectAllocator` or leaves `held` alone.

Each module of proofs begins with the facts about deques, lists and sets of numbers that it needs (`PopProperties`,
`PushProperties`, `InsertProperties`, `JoinProperties`, `MinProperties`: what is in one and in what order after a pop, or
an insertion at either end or in the middle), so that it depends on its component and the library alone.

`TimerManagerProofs`, for any threads, modules, events, intervals and horizon:

* `TypeCorrect`, and from `IInv` `PopsExpired` (`PopFindsExpired`), `EventsInOnePlace` (`OnePlace`) and `WakesInTime`
  (`NoLostWakeup`). `IInv` says that the deques are sorted, that an event is in a deque, in a thread's
  hands or in the pool, that the mutex of the list is held from a look to the pop (which is why the second
  look of the code at the head of a deque needs no test), and, for each waiting event, that
  some thread *covers* it: it has still to begin a scan, will scan again at once, has the event's module
  before it, or means to wake in time (`WakeInv`). The last is what is hard: the flag is set after the
  insertion and read at the end of a scan, and between the two only `Covers` relates what a thread
  has seen to what is in the deques;
* `TimersServe` (`ImplementsService`): every step is an addition, a dispatch, an end of a callback, a tick of
  `TimerService`, or a stutter.

`PacketPipelineProofs`, for any adapters, packets and chains:

* `PacketsInOnePlace` (`OnePlace`) from `IInv`: a packet is at one of the places (pool, queue, worker, tap) and at one position there;
* `ModulesSeeInOrder` (`SeenInOrder`) from what each place says about the packet's past (`Fits`): a packet in a plain
  queue has seen none of the chain, one in a worker's hands has seen the chain up to the worker's position, one
  kept by a tap or in a priority queue has seen it up to that tap. At the end of a chain nothing is looked for any more. It rests on `PassAssumption`: passthroughs are in
  chains for incoming packets (`InputPassthrough.h`), without which a packet could enter the same chain twice;
* `NoPacketOvertakes` (`NoOvertaking`) from `WayInv`. The property speaks of packets that stopped at the same taps,
  and that is not inductive: two packets which stopped at different taps now may have stopped at the same ones
  a few steps later. `RoadInv` therefore speaks of all pairs: the packet captured first is ahead of the other as
  long as the taps that stopped it are among those that stopped the other, and it is then past every
  tap that stopped the other alone, so that it cannot be stopped there any more and change places
  unnoticed (`Precedes`). Whether it is past a tap follows from the modules that saw it (`WithinInv`, with `Fits`); that a packet in a
  priority queue or kept has that tap among its stops is `StopInv`; that captured packets are only in the chain of their adapter and
  in chains for outgoing packets is `LaneInv`.

`FMNCManagerProofs`, for any clients, slots and bounds:

* `TypeCorrect`, `ConnectionsListedOnce` (`ListsDisjoint`) and `SessionsReportedOnce` (`ReportedOnce`) without any
  condition, from `StructInv`: the two lists, live connections and session numbers. That a connection is not
  reported twice needs that one with a report is in no list;
* `TimersServeLiving` (`TimersHaveConnections`), `SequencesCarriedOnce` (`OneCarrier`) and `StatesOnlyAdvance`
  (`StatesAdvance`) under `Timely`: clients do not come back to a connection that is due for purging, and
  the age of a packet, the delay of the start, the waits for cross traffic, the gaps of the sequence and the
  delay of the FIN sum up to less than `Age`. The sum is of one sequence, whatever the number of sessions, and the
  waits count from the last packet of its client. Nothing in the program enforces it (see FMNCManager above); without it
  the properties are false. The proof makes the sum explicit. What is still to come for a connection (`ToCome`: what is
  left of its timer, of its gaps, of its waits, and the delay of the FIN) must fit into the time before it
  is purged, now and also from the next packet that marks it (`Fits`, `InTime`, `TimeInv`): a packet starts the idle time
  anew and gives the waits back. `OwnerInv` says that a sequence is carried by exactly one timer or by the
  timer thread, `FoundInv` that the connection found for a packet is still there when it is handled;
  each of the three needs the other two.

`TWiCEGatewayProofs`, for any packets, addresses, windows, tables and times of expiry:

* `WindowStaysInside` (`WindowInsidePacket`): the window, what lies before and what lies behind it add up to the packet (`WindowInv`);
* `OnlyReplacementDangles` (`ReplacementAloneDangles`) needs `CloneInv`: the clone of the packet at hand is only
  deleted under an entry made for it, so a search does not itself leave an entry that refers to nothing.

`RIPPSMonitorProofs`, for any hosts, connections and bounds:

* `TypeCorrect` from `TypeInv`, which adds to the types that packets stay within what was sent, a burst is never at
  its end and a packet in the timer thread's hands has a host;
* `QueuesServed` (`QueueHasTimers`), inductive given the types: each insertion in the shape queue comes with its timer;
* `ReleaseIsMeasured` (`ResolvedIsMeasured`): the measurements of a host, as a finite set, are only added to, or renamed when
  a connection is closed and leaves a summary (`CountInv`), and what is counted twice while the cleaner is between
  the two lists is one summary of that host, so no more than all of them;
* `NoRunOfDuplicates` (`NoFastRetransmit`): while a host is monitored, nothing is lost and it has neither closed nor
  sent data, its sender sees no two duplicates of an ack. The property speaks of one counter at the sender; `FlowInv`, which
  implies it, follows everything a connection has under way. The data packets of a host form one row (`Way`): the
  line to it, the packet in the timer thread's hands, its shape queue. What stands in this row decides what the
  host will have received (`Arrive`) and, counted for each number, every answer still to come (`Coming`). Three
  things then hold together (`QuietInv`). The host hears of all that was sent but for the slices still in the
  loop (`BurstInv`), so that the sender never sends again. Of the answers that repeat a number, all
  but one find an expected ack that swallows them (`DupOK`). And an expected ack that lets one through stands behind, or
  apart from, those that swallow (`EntryOK`), which depends on the order of the slices. As long as the host has neither sent data nor finished, every ack under way is
  one that may be swallowed (`AckInv`). The proof rests on `RIPPSAssumption`, and on `NoneAssumption`: the value that stands for no
  connection, packet or burst is none of them.

`AdapterFileProofs`, for any list of files, any contents of theirs and any number of playbacks:

* `StreamHasOneUser` (`StreamNotShared`) from `Discipline`: types, and `Turns`, which says for each place of the
  console and of the input thread whether the stream may be open and which of the two may touch it. The
  property is not inductive without it: no lock is there, only the order of the flag and the open;
* `TimeDoesNotRunBack` (`StampsAscend`, for aligned times) from `Stamps`: what is left of the open file lies behind the last packet
  queued, and the time carried into the next file does not lie before it;
* `EveryFilePlayed` (`AllFilesPlayed`) from `Files`: the files opened so far are the beginning of the list, and
  where the reader stands tells how many they are.

They rest on `PlaybackAssumption`: files are sequences of records in ascending time, and what is read behind a
packet that is too large is again a sequence of records.

`FMNCTestSequenceProofs`, for any requests, any lengths of the pages and of their parts, any times and bounds:

* `TypeCorrect`, `BytesSafe` (`EveryByteOnce`), `PairsSafe` (`PairsMatch`) and `GapsSafe` (`GapsAsAsked`), from one
  inductive invariant `IInv`.
* The first half of the proof is about the operators: that whatever is asked for, and whatever size and spacing
  earlier sessions left behind, the test fits the request (`TestFits`). A sequence *tiles* its length (`Tiles`) if there
  are marks `f[0] = 0 < f[1] < ...`, where slices begin and end, and places `perm`, a permutation, such that the
  k-th slice to be sent is the one that ends at mark `perm[k]`. Cutting makes the marks (`CutPlain`); each of the
  three ways to rearrange only permutes places (`SwapEndsReorders`, `FirstToEndReorders`, `PartsReorder`), within the
  windows where something is measured (`Windowed`), and there the last of a window is its lowest and carries the mark
  at its end. That tiles cover the test, start at different bytes and sum up to its length follows
  (`TilesCover`, `TotalTiles`).
* The second half is the session. The client cannot be described by how many slices came, only by which: `Reach`
  says it is at mark m if the places 1..m are among those that came and m + 1 is not, and what lies apart is
  exactly the rest of them (`Apart`). `ClientTakes` shows that the client keeps this up whatever the permutation;
  `ReachIs` that in windows m is a multiple of five, and `ClosingTakes` that the slice which closes a window
  always finds others apart, so that its answer is never delayed. With that each slice taken gives one answer and
  the k-th says how far the whole windows among the first k go (`Answered`). `Flowing` and `Finishing` relate wire, client
  and marks before and after the FIN, `Position` the sequence, the next slice and the manager's spacing.
* It rests on `RequestAssumption` and `SliceAssumption`. What is induction over sequences (sums, cuts, flattening) is
  done for the one function at hand, as the least place at which a statement about it fails (`LeastNat`); for
  functions defined by recursion and for the library's folds this needs that such a function is there, which
  `SumsExist`, `FoldingExists` and `FlatteningExists` give.

Only model-checked:

* liveness (`MutexComesFree` and the like in every module), which is out of the prover's reach.

## 6. Not modelled

* Whirlwind: its objects are commented out of `OBJECTS` and its rules are commented out (`Makefile` 37, 63, 339-349).
* Packet caches: `pktcache` consists of stubs; `processPacket` of `packetcache` returns before it reaches its table.
* PSM: handlers without content. Delay link, rate limiter, virtual adapters: templates without state.
* Limits of the packet queue: no class sets them; `Adapter` has setters for limits of its own, which have no callers.
* Statistics: counters, and two threads around a list of sockets under one mutex. A send that blocks holds
  up the others and the console; whether it does is the operating system's.
* Filters, addresses, `util/`, XML, log: pure functions of bytes or formatting. Filters appear as a
  free choice; the time arithmetic where it is used.
* Archive thread: nothing starts it. STMC, SneakyNAT, sandbox, visualization: prototypes and output.

Much of the repository's length is in these, in accessors, printing and XML handling, and in code without
callers; that is why the modules stand for a small part of its lines.

## 7. Plan

1. A RIPPS instance in which two connections bring slices, once its state is small enough; its monitor packets as
   objects of the pool.
2. The statistics server.
