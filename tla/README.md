# Petronilho Core V5: TLA+ models and proofs

This directory holds TLA+ models of Petronilho Core V5, the TLC configurations
that check them on small instances, and TLAPS proofs of their main properties
for every value of the constants. Paths are relative to the repository root.

## 1. The system

Petronilho Core is a C++ toolbox for recording UDP traffic with low latency:
memory-mapped journals and rings that packets are received into, bump
allocators ("arenas") that hand out memory without locks, and three "wings" of
data structures that live in an arena. There is no server that ties the parts
together; each program in `src/`, `perf/`, `tests/` and `bench/` picks a few.

### Inventory

| part | state | operations | hard to get right | correct means |
|---|---|---|---|---|
| `core/sys/ring_buffer.hpp` RingBuffer | mapped slots, two atomic indices | `write`, `read`, `size` | two threads, acquire/release, free-running indices that wrap, torn records | bounded FIFO of whole records; no race on a slot |
| `src/main.cpp` | ring, counters, clock | receive loop, export, report | nothing reads the ring while it fills | report adds up; what is exported is known |
| `core/sys/arena.hpp` ScalableArena | atomic offset per arena, one `thread_local` chunk per thread | `allocate`, `refill_chunk`, `reset`, `initialize_thread` | interleaved refills, stale chunks after a reset, several arenas, large objects, alignment | regions in use are disjoint, inside their pool, aligned; refills amortised |
| `core/sys/arena_atomic.hpp`, `core/sys/persistent_arena.hpp`, `src/super_core.hpp`, `bench/research_suite.cpp` | one atomic offset | `allocate`, `reset` | test after the fetch_add; failed requests keep their bytes | regions disjoint and inside, no byte lost before the arena is full |
| `core/sys/handle.hpp` Handle | offset and pool | `get_ptr`, `is_null`, `<` | 32-bit offset; comparison reads the objects | designates memory of its pool |
| `core/sys/arena_thread_local.hpp` | a block per thread | `initialize`, `allocate`, `reset`, `shutdown` | either of two allocations may fail | a thread has no block or a whole one |
| `core/sys/network_queue.hpp` NetworkQueue | head, tail, buffer | `enqueue`, `dequeue`, `size` | as the ring, with masked indices and a free slot | bounded FIFO of Capacity - 1 |
| `perf/test_network_ingest.cpp` | io_uring, queue, arena, `g_running` | two thread loops | completions of two kinds, spin on a full queue, shutdown | every received packet is queued once; the program ends |
| `src/super_core_v5.cpp`, `tests/test_persistent_ingest.cpp`, `tests/test_network_ingest.cpp`, `tools/journal_inspector.cpp` | mapped journal, offset | reserve, receive, header, wrap | crash between payload and header, restart, overwriting | every header describes the payload after it; a restart continues |
| `priority_wing/` heaps, TaskScheduler | array of handles, size | `push`, `pop`, `schedule`, `dispatch_next` | full heap, null tasks, ties | pops come out in order; none is lost silently |
| `relational/hash_map_soa.hpp`, `hash_table.hpp` | keys, values | `insert`, `lookup`, `remove`, `get` | probing past removed keys, 16-wide compares at the end | a map from keys to values |
| `relational/disjoint_set.hpp` | parents, ranks | `make_set`, `find_set`, `union_set` | compression while walking | the partition that was asked for |
| `relational/graph_packed.hpp`, `flow_push_relabel.cpp`, `full_mesh_topology.hpp` | nodes, edges, masks | push, relabel, `max_flow`, `connect` | residual edges, termination | a preflow; ends with the maximum |
| `geometric_wing/` | none | two comparisons, layouts | points with one equal coordinate | a strict order |
| `core/platform/vcore_*.cpp` | a loop counter | three block kernels, `find_match_512` | counts that are no multiple of the width | every element once, none past the end |
| rest of `core/platform/`, `sys_core.cpp`, `telemetry.hpp` | none | CPUID, timers, console | - | - |

### How the parts interact

* Threads share memory through atomics only: the ring's two indices, the
  arenas' offsets, the queue's head and tail. There are no locks and no
  condition variables; a thread that cannot proceed returns `false` or null, or
  spins in its caller.
* The wings take their arrays from a ScalableArena at construction and keep raw
  pointers into it. The arena never frees an object; `reset()` takes all of
  them back at once and tells nobody.
* The kernel completes the programs: `recv` fills memory reserved in a journal
  or a stack buffer, `mmap` makes a ring or a journal outlive the process.

The hazards that follow from this are listed in `PROJECT.json`, each at the line
where it bites.

## 2. Plan

Most important first. All modules of the plan are written.

1. `BoundedFifo`, `RingBuffer`, `RingBufferProofs`: the ring and what it promises.
2. `RingIngest`: `main.cpp` composed with the ring.
3. `RegionAllocator`, `ScalableArena`, `ScalableArenaProofs`: the two-level arena.
4. `BumpArena`, `BumpArenaProofs`: the four arenas with one level.
5. `Journal`, `JournalProofs`: `src/super_core_v5.cpp` with crash and restart;
   `PersistentIngest` and `AuditLog`: the two programs of `tests/`.
6. `NetworkQueue` against `BoundedFifo` with a capacity of one less;
   `IngestPipeline`: the two threads of `perf/test_network_ingest.cpp` around it.
7. `ThreadLocalArena`: per-thread blocks under allocation failure.
8. `PriorityBag`, `MaxHeap`, `TaskScheduler`, `BinaryHeap`: the priority wing.
9. `Dictionary`, `HashTable`, `HashMapSoA`, `Partition`, `DisjointSet`, `MaxFlow`,
   `FullMesh`: the relational wing. `Kernels`: the block kernels.
10. `Parts` puts the modules of 6 to 9, and the two of `tests/`, into one
   specification for TLC.

The proofs: `RingBufferProofs`, `RingIngestProofs`, `ScalableArenaProofs`,
`BumpArenaProofs`, `JournalProofs` and `NetworkQueueProofs` for the modules they name,
`PartsProofs` for `Parts` and all that it puts together, `SharedLemmas` for the
arithmetic and the loops. None of the modules has a RECURSIVE operator; `HashTable`,
`HashMapSoA`, `BinaryHeap` and `DisjointSet` use recursive functions. What stays with
TLC is named at the end of section 5.

**What builds.** Several programs are written for an earlier API (namespace
`super_core`, `allocate` without a count) and do not compile with the headers beside
them: `perf/test_network_ingest.cpp`, `perf/test_relational.cpp`,
`perf/test_arena.cpp`, `perf/test_wings.cpp`, `perf/test_concurrency.cpp`,
`perf/stress_test_1m.cpp`, `perf/super_core_final.cpp`,
`tests/test_network_ingest.cpp`. Two of them are modelled as their text reads
(`IngestPipeline`, `AuditLog`), because they are the only programs here with two
threads around a queue and a log; the others are read for how callers use the parts.
`src/main.cpp`, `src/super_core_v5.cpp`, `tests/test_persistent_ingest.cpp`, `tools/`
and `bench/` compile. So do the headers that are modelled, `arena_thread_local.hpp`
and `full_mesh_topology.hpp` after `<new>` and `<cstddef>`, except
`relational/hash_map_soa.hpp`: no header declares the `find_match_512` it calls, which
`core/platform/vcore_avx512.cpp` defines.

## 3. The modules

### RingBuffer

`write()` and `read()` are cut where the other thread can see them:

| action | lines of `ring_buffer.hpp` |
|---|---|
| `WriteClaim` | 64-66: both loads, the test, the return of false |
| `WriteHeader`, `WritePayload` | 67-73: the fields, the memcpy |
| `WritePublish` | 74-75: the releasing store |
| `ReadClaim` | 79-81 |
| `ReadHeader`, `ReadPayload` | 82: the copy, in two parts because it is not atomic |
| `ReadRelease` | 83-84 |

**Memory order.** `m_write_idx` and `m_read_idx` are the sequences of the values
stored to them. A thread reads its own index exactly (relaxed load of what it
wrote itself). An acquire load of the other index returns store `k` for any `k`
from the newest the thread has seen (`w_acq`, `r_acq`) to the newest there is:
this is what coherence allows. Slots are plain memory. They are modelled as one
shared array, which is sound only when there is no data race, and `RaceFree`
states exactly that, in terms of which store was acquired: the producer reuses a
slot only after it has acquired the release that gave it up, the consumer copies
one only after it has acquired the release that published it.

**Data.** A payload byte is the id of its packet, so a record made of two packets is
seen. `PayloadCap` stands for 40 and lengths above it are truncated; bytes past the
length keep their old contents. A call may pass a null pointer (line 72 tests for it):
nothing is copied, and the length is published over the bytes of the records that were
in the slot before. `Published` is that record, and what is put into the abstract
queue is what the call publishes, not the packet it was given. Timestamp and latency
are copied with `packet_id` and left out. Indices are modulo `IndexMod` (2^64 in the
code).

`BoundedFifo` is the abstract specification: `Put` and `Get`. The refinement maps
`WritePublish` to `Put` and `ReadRelease` to `Get`.

### RingIngest

`main.cpp` runs everything on one thread, so it uses the ring's actions with exact
loads. `Receive` is lines 44-61 up to the claim, `Record` the rest of `write()`,
`StopReceiving` line 42, `Drain` lines 67-72. `ClockPasses` is the steady clock: it
may pass 300 s between any two steps. A `recv` that returns nothing changes nothing.

### ScalableArena

`m_offset` is one number per arena, `t_chunk` one record per thread (the
`thread_local` is static: it belongs to no arena), `t_call` an `allocate()`
between its two visible steps, `live` the history of regions handed out.

| action | lines of `core/sys/arena.hpp` |
|---|---|
| `InitializeThread` | 109-111 |
| `AllocateLocal` | 116-126 |
| `RefillClaim` | 121, 128, 86-89: no room, `fetch_add` |
| `RefillFails` | 91, 128 |
| `RefillGrants` | 91-96, 128-134 |
| `Reset` | 136-139 |

The code states no precondition for its callers, yet it needs some. `Rules` names
them: `"one arena"` (a thread keeps to the arena its chunk is from), `"fits"` (no
object is larger than the largest chunk), `"quiescent"` (no other thread holds a
chunk of an arena, or is allocating from it, when it is reset). The passing run
keeps all three; the violation runs drop one where a document of the repository
promises what then fails.

`RegionAllocator` is the abstract specification: `Grant` adds one region that is
inside its arena and overlaps none in use; `TakeBack` removes those of an arena.
A region carries `twice`, so that handing out the very same region again is a
change of `live`, and not a stutter.

### BumpArena

The arenas with one level differ in rounding (16, 64, 1, 16), in the header put
before each object (16 bytes in UniversalArena), in whether they can be reset, and in
what they answer: `ArenaAtomic` cuts the offset to the 32 bits of a handle
(`IndexMod`), the others give a pointer. The cut loses nothing while an arena is no
larger than it (`BufferAssumption`). `reset()` does not look for threads inside
`allocate()`; that callers reset only when there are none is the rule `"quiescent"`.
The module is parameterised by arena; the MC module has one of each kind. Map
entries name the sibling whose code shows the step best; the four share it.

### Journal

The mapped file is an array of slots, each a header and a payload; `Needed` and
`ArenaSize` are in bytes, so the test of line 52 is the code's.

| action | lines of `src/super_core_v5.cpp` |
|---|---|
| `Start` | 20-46: open without truncation, map, offset 0 |
| `Reserve` | 49-56: `fetch_add`, the test, the wrap |
| `Recv` | 58-63: `recv` straight into the slot |
| `RecvNothing` | 61-63: an error or an empty datagram |
| `StoreField` | 63-67: one store of the header |
| `Crash` | the process dies at any point of the loop |

The three stores of the header are plain, so they are made one at a time in any
order, and a crash may fall between any two. A crash loses what is not in the
mapping; the kernel keeps the pages of a shared mapping, so no store is undone. The
loss of pages when the machine loses power is not modelled. A payload byte and a
timestamp are the id of the datagram: distinct datagrams are told apart, as by the
nanosecond clock. `window` and `before` are histories for the properties.

### NetworkQueue

`enqueue()` is `Claim`, `Fill` for each word and `Publish`; `dequeue()` is `Look`,
`Copy` for each word and `Release`. The memory order is that of `RingBuffer`:
`m_head` and `m_tail` are sequences of stores, an acquire load of the other
thread's index returns any store not older than the newest seen. What is new is
that the stored index is masked: a slot is named by the same number in every lap,
one slot stays empty, and a test on masked values has to be right for any stale
one. The refinement maps `Publish` to `Put` and `Release` to `Get` of a
`BoundedFifo` of `Capacity - 1`. `sent` and `got` are histories.

### IngestPipeline

The network thread of `perf/test_network_ingest.cpp` is `StartReceive`, `PacketTaken`
or `PacketDropped`, `Dispatch`, `StopReceive`; the logic thread is `Process`. The
io_uring is what was submitted (`u_pending`) and the completions not yet marked as
seen (`u_done`); the kernel completes any pending operation, with success or without.
`wait_cqe` returns the oldest completion, whatever it belongs to. A wait that fails,
as a signal makes it (`WaitFails`, line 59), marks nothing as seen and leaves the
receive of its round pending: the next round starts beside it; the history `failed`
counts them. The queue is the sequence that `NetworkQueue` implements. `arrived` is
the history of the packets a datagram was received in. The spin on a full queue is the
disabled `Dispatch`, the spin on a full arena the disabled `StartReceive`.

### PersistentIngest and AuditLog

`PersistentIngest` is the arena of `persistent_arena.hpp` as
`tests/test_persistent_ingest.cpp` uses it: `OpenTruncated` is the `open` of the
constructor, which leaves a file of length 0, `ExtendFile` the `ftruncate` and the
`mmap`; a kill may fall between them (`f_sized`), and then a reader of the mapped file
gets a SIGBUS. `ReserveBlock` lines 43-49 with the reset, `ReceiveInto` and
`ReceiveNone` the `recv`, `CountPacket` lines 52-55, `Kill` the only way the program
ends. A byte of the file is the number of its datagram; `f_window` remembers what the
last reservations came to, as many as the file has blocks. The model assumes that one
reservation fits the file (1500 bytes in 1 GB), so that the second `allocate` of line
48 succeeds.

`AuditLog` is `tests/test_network_ingest.cpp`: the worker's `OpenSocket`, `CutPacket`,
`RecvAudited` or `RecvAgain`, `EnterInLog`, `CountAudited`, `LeaveLoop`, and main's
`Watch`, `StopWorker`, `WriteCsv`. The load of `running` is relaxed: one that returns
the old value is a load made before the store.

### ThreadLocalArena

`initialize()` allocates the block (`InitializeObject`) and then its memory
(`InitializeMemory`, or `InitializeFails`, which gives the block back); between the
two other threads take chunks from the same system heap. A chunk given back can be
handed out again. `Allocate`, `ResetBlock` and `Shutdown` are one step each, since
only the owner sees its block. `a_live` holds the regions callers still use: they
give them up when they reset or shut down.

### The priority wing

`PriorityBag` is what both heaps promise: what was put in comes out, and nothing
comes out before something that outranks it. `MaxHeap` takes `push` and `pop` one
exchange at a time (`Push`, `Rise`; `Pop`, `Descend`, `PopReturns`). `BinaryHeap`
takes a call in one step and its loop as a recursive function; it holds points,
compared as `spatial_node.hpp` compares them. Coordinates are numbers, not NaN.

`TaskScheduler` adds `dispatch_next()`. The program is single-threaded, but an
entry point may call `schedule` and `dispatch_next` again, so `running` is a stack. A
task without an entry point is taken off the heap and not called.

### The relational wing

* `HashTable`: `Hash` and `Probe` mask with `max_entries - 1` for any number, as the
  constructor takes any. `Dictionary` is the abstract table, with room for
  `max_entries` keys: what the table is when that is a power of two, and not
  otherwise (`table_half_full`).
* `HashMapSoA`: `insert` and `remove` probe slot by slot, `lookup` reads `Lanes` slots
  at a time from the key's home, and the vector load faults unless that is a
  multiple of `Lanes`. `s_map` is the value each key was last inserted with, `s_cut`
  the keys whose probes a `remove` broke.
* `DisjointSet`: `Climb` and `Compress` are the rounds of the two loops of `find_set`;
  `union_set` and `same_set` look for `a` and then for `b` (the order of the two calls
  in `same_set`'s comparison is the compiler's choice; neither changes the answer).
  `Partition` is the abstract structure.
* `MaxFlow`: `CallMaxFlow` is `initialize_preflow`, the rest the loop of `max_flow` with
  one edge at a time. Edges of a node come in the order of their ends, and
  capacities are small integers, which a float holds exactly.
* `FullMesh`: a bitmask is the set of its bits; callers may name nodes that do not
  exist. `Connect` and `Broadcast` are each a few assignments with nothing between them
  to go wrong, so the module has its types only; section 6 says what `broadcast` leaves
  undone.

### Kernels

An element of the output is the number of times it was stored, so an element
skipped, done twice or past the end is seen. The three kernels differ in width and
in the tail: a scalar loop, or one masked round whose 16-bit mask is computed.
`KernelReturns` is enabled only when neither loop has a round left, and
`KernelsCoverExactly` asks of a kernel that has returned that it loaded and stored every
element below the count once, and of one that runs that it went past nothing.

### Parts

The modules above share no variable, and nothing one does can be seen by another.
`Parts` is their sum, not their product: `part` is chosen at the start and names the
one that moves, so a property of one of them is checked on all of its behaviours,
and the states add up instead of multiplying. `PartsSpec` asks the fairness of the
queue of the queue's behaviours only, because a thread that polls is never
disabled; the actions of the scheduler's fairness are disabled while it rests.

### Mutants

Operators marked `Mutant` are the code with a plausible mistake in it. No
specification uses them; each property has one with which it fails.

## 4. The runs

| run | states | what it shows |
|---|---|---|
| `ring` | 54713 | types, no race on a slot, size in bounds, bounded FIFO, delivery; of `main.cpp`: the report adds up, the export is the oldest datagrams, refusal is final, the program ends |
| `arena_scalable` | 397864 | regions disjoint, aligned; refinement (with it, inside their arena); refills amortised |
| `arena_bump` | 68090 | refinement, no byte lost before an arena is full |
| `journal` | 2638094 | a header misdescribes its payload only where a crash cut it short; the newest cycle of records is whole |
| `arena_two_pools` | violation | two arenas on one thread: a handle outside its pool |
| `arena_oversize` | violation | an object over the largest chunk overlaps its neighbour |
| `arena_alignment` | violation | a type of alignment 2 at an odd address |
| `journal_restart` | violation | a restart overwrites a record with free slots left |
| `parts` | 223537 | the thirteen modules of `Parts`: see the next table |
| `table_half_full` | violation | a table of ten entries refuses the fifth key |
| `max_flow_maximal` | violation | `max_flow` returns 5 where the least cut is 6 |
| `ingest_persisted` | violation | the logic thread takes a packet that was never received |

| property of `parts` | what could break it |
|---|---|
| `SlotsRaceFree`, `SizeSafe`, `ImplementsFifo`, `AllThrough` | a stale index, a lap of the masked indices, an element published in halves, a refusal that is final |
| `RingOwes` | says how the io_uring fills: one completion per dispatched packet is never taken, and one per failed wait |
| `HeapOrder`, `HeapImplementsBag`, `TopTaskRuns` | an exchange with the wrong child, a handle lost at the end, a top task that starves |
| `MinHeapImplementsBag` | an order of points that is none |
| `TableImplementsDict` | a probe that does not come round, a key dropped while an entry is free |
| `LookupRight` | a vector search that stops where the slot-by-slot one went on |
| `SetsImplementPartition`, `RanksBound` | compression that moves a node, ranks that admit a cycle |
| `Preflow`, `HeightsFallByOne` | more pushed than fits, a relabelling that skips a level, an answer above the least cut |
| `KernelsCoverExactly` | a gap, an overlap or an overrun where the vector loop meets the tail, a tail that is missing |
| `BlocksPrivate` | a chunk leaked or given back twice when an allocation fails |
| `FileIsThisRun` | a record of an earlier run left in the file, a signature without its datagram |
| `CsvComplete` | a log past its end, a stop in the middle of a round |
| `PartsTypeOK` | an index outside its array |

`HandlesInPool` is checked by `arena_two_pools`, where it fails, and is otherwise part
of `ImplementsRegions`, which `arena_scalable` checks; the inductive invariants of the
proofs of `BumpArena` include its `TypeOK`.

**Bounds.** `ring`: two slots, indices modulo 4 and five records: every slot is reused
and both indices wrap, with all combinations of a wrapped and an unwrapped one;
payloads shorter and longer than a slot, with data and without; for `main.cpp` seven
datagrams, so the ring fills with datagrams left, and the clock passes at every count.
`MCRing` chooses at the start between two threads around a ring and `main.cpp`.
`arena_scalable`: arenas of 18 and 8 bytes, chunks of 4 to 14, objects of 2, 6 and 14
bytes after rounding: smallest, doubled and capped chunks, arenas that run out,
threads that change arena and are reset. `arena_bump`: arenas of 10 and 12 bytes with
objects of 1, 3 and 6. `journal`: three slots that fill the arena exactly, four
datagrams and two crashes: the journal wraps, a crash damages a slot that a later run
skips or rewrites, and two slots can be damaged at once. `MaxOffset` stops the offsets
a little past the capacity, so that refused requests on a full arena are included;
`MaxRecords`, `MaxPackets` and `MaxDatagrams` stop the histories. Two threads are
enough to interleave any two steps; the proofs cover any number of threads, and any
sizes.

`parts`: a queue of four slots and nine elements of two words, so that its three
places are used three times over and both masked indices lap twice; a pipeline with
four packets, a queue of one, a quota of two, so that the queue can be full when the
logic thread stops with a packet still to come, and one wait that fails; a heap of
four tasks, two of equal priority, one of them without an entry point, and calls
nested two deep, so that an entry point dispatches another; a min-heap of five among
points that share a coordinate and two that are equal; a table of four slots and five
keys, of one home and of several, so that it fills; a map of four slots in two lanes
with keys that probe past the end; four elements in the disjoint sets (a tree of
height two is the least with a path to compress); all 729 networks of two inner nodes
with capacities 0 to 2, some with cycles; three mesh nodes and one that does not
exist, for the types only; every count from 0 to 35, two rounds of the widest kernel
and every tail; two threads and three chunks of memory, so that either of two
allocations fails; a file of two blocks, five datagrams and two runs; a log of two
entries for four datagrams. `max_flow_maximal` needs three inner nodes: with two and
capacities up to 2 no answer is too small. `ingest_persisted` needs one datagram.
`table_half_full` has ten entries, whose mask 9 names the slots 0, 1, 8 and 9: the
five keys that are half of ten are one too many.

**Deadlock** is checked except in `ring`, `parts`, `max_flow_maximal` and
`ingest_persisted`: programs that end, calls that are bounded, and a pipeline whose
network thread spins for ever on a full queue when the logic thread has stopped.

**Fairness.** `AllDelivered` assumes that the consumer keeps calling `read()` and
that a store becomes visible to a thread that keeps loading (weak fairness of its
steps, `ReadClaim` with the newest store); nothing is assumed of the producer.
`Finishes` assumes that time passes and that the one thread runs: the socket is
non-blocking (line 22), so no step of the loop waits. `Receive` needs no fairness.
`AllThrough` assumes that both threads of the queue keep calling, as both loops of
`perf/test_network_ingest.cpp` do, and that stores become visible. `TopTaskRuns` assumes
that loops and entry points end and that the caller comes back to `dispatch_next()`:
strong fairness, since calls to `schedule()` make it unavailable again and again.
`FlowIsMaximal` assumes only that the call goes on (weak fairness of `Sweep`).

## 5. What is proved

Every invariant, every refinement and every action property of the passing runs
is a theorem, for every value of the constants that satisfies the assumptions.
`TLC` shows the same on a small instance, and by its mutants that each property
can fail.

**Assumptions.** Each module names those on its constants; they are what the
constructors test or the types give (a capacity is not zero and divides the index
modulus, buffers do not overlap and are no larger than what a handle can name, a file
has room for one record, `NODES` is a number, capacities of edges are not negative, a
null handle is no handle). Some theorems assume more:

* `AllRulesKept` (`ScalableArenaProofs`): callers keep the three rules of section 3;
  `arena_two_pools` and `arena_oversize` show what the first two are needed for.
  `ObjectsAligned` and `RefillsServeTwo` need none of them.
* `RuleKept` (`BumpArenaProofs`): no arena is reset while a thread is between the
  `fetch_add` and the test. `reset()` does not look, so it is the callers' to keep;
  with a reset there, the thread is granted bytes that the next call is granted too.
* `PowerOfTwo(MaxEntries)` (`TableIsDictionary`): without it the table drops keys
  while entries are free, as `table_half_full` shows.
* `SizesKeepAlignment` (`ObjectsAligned`): bases, chunk sizes and rounded objects are
  multiples of every alignment asked for. The code rounds sizes, never addresses;
  `arena_alignment` shows the theorem fails without it.
* `PowersDouble` (`RanksAreLogarithms`): `2^(n+1) = 2 * 2^n`, which the provers do not
  know.

**The ring and the queue.** `RingBufferProofs` has `TypeCorrect`, `NoRace`,
`SizeInBounds` and `RingIsFifo`. The indices wrap, so nothing can be proved by
induction about their values. `IInv` ties them to the histories, which do not wrap:
`Counts` says each stored index is a length modulo `IndexMod`, `Order` where each
thread's acquired store is relative to the other's progress, `Resident` that a
published record stays in its slot, `Written` and `Copied` what is in place in the
middle of a call (without data that is the old bytes, `Published`), `Intact` that what
was read is what was written. `FullIsFull`, `SizeIsExact` and `EmptyIsEmpty` then show
that the tests on wrapped values are the tests on true counts. `NetworkQueueProofs`
(`QueueNoRace`, `QueueSizeExact`, `QueueIsFifo`) is the same argument where it is
tighter: the stored index itself is masked, so only the empty slot tells a full queue
from an empty one, and an element is copied in words, so `QueueFilled` and
`QueueCopied` say which words are there.

**The ingest program.** `RingIngestProofs` has `ReportIsTrue`, `ExportIsOldest` and
`RefusalStays`. `IngestIInv` adds to the ring's invariant that `Put + dropped = count`
and that a datagram is refused only when all slots are taken, so the k-th record is
the datagram number k - 1. `IngestAssumption` asks that ids do not repeat within a
ring.

**The arenas.** `ArenaImplementsRegions`, `ObjectsSafe` and `BumpImplementsRegions`:
`Home` says chunks, claims between the two steps of an allocation and objects lie in
their arena below the offset, `Apart` that those of different threads are disjoint and
no object reaches into the free part of a chunk. Disjointness of objects alone is not
inductive: a granted region is disjoint from the others because the chunk or the claim
it is cut from was. In the arenas with one level the answer's width is why
`BufferAssumption` bounds them: an offset that passed the test is its own remainder.
`EveryByteAccounted` (`NoByteLost`): the claim that a `fetch_add` makes owns its bytes
until it is a region, or has failed, and then the offset is past the end.
`ObjectsAligned` needs that offsets, claims and what is used of a chunk are multiples
of each alignment. `RefillsServeTwo` (`RefillAmortised`) holds of every step:
`OnlyRefillsCall` says that a thread goes to the arena only with no room in its chunk;
the rest is the arithmetic of doubling and capping.

**The journal.** `TypeCorrect` needs that a reservation which passes the test of line
52 is a whole slot, by `FitsIsSlot`. `TornBound`: the number of torn slots is
inductive only with `Stored`, which says what the stores made so far tell of the
datagram in the slot: the last of them makes the header describe the payload, whatever
the order; a crash adds the slot in progress. `NewestIsKept`: `Headed(h)` says that
slot `h` is being written or is the next, and that the window is in the slots behind
it, counted backwards round the file.

**`PartsProofs`.** `PartsInvariance` is the conjunction of one invariant per part;
`EachPartSteps` says that a step of the system is a step of every part or leaves it
alone, so each part is reasoned about alone. `QueueRuns` makes the queue's theorems
theorems of the system. By part:

| part | what its invariant adds to the property |
|---|---|
| pipeline | no operation of a later packet is pending, after a failed wait the operations of an earlier one still count, and `u_done` has the completion that `enqueue` was woken by |
| `MaxHeap` | order everywhere but at the moving node, whose parent and children are ordered across it; the bag has `h_size` members. `TopIsGreatest`: of the nodes that outranked the top, the first would have a parent that does |
| `BinaryHeap` | the array is in order between calls; the loops of `push` and `min_heapify` keep order but at one node, and exchange only |
| `HashTable` | `SlotsFit`: the probes of the key in a slot reach it over taken slots of other keys. `MasksCover`: the tries `(h + i) & (m - 1)` with i below m reach every number that the mask leaves, whether m is a power of two or not. `PowersKeepAll`: if it is one, the mask m - 1 leaves every number below m (by halves, the least power for which it would not), so a key is dropped only when every entry is taken |
| `HashMapSoA` | `KeyIsRight`: a key is at the end of an unbroken run of probes with the last value, or nowhere. Groups of lanes are the runs because `Lanes` divides the size |
| `DisjointSet` | `RanksGrow`, `Grounded` (no cycle), and in a find the root is that of the argument. `TreesAreLarge` for the ranks: a root that grows by one joins two trees of 2^r |
| `MaxFlow` | heights fall by one, none passed over in a sweep is admissible, nothing overfull; and for the bound of the sink, `BeyondIsCarried`: at every cut round the source, the edges across it carry at least the excess beyond. What they carry is at most their capacity, so the sink never has more than any cut lets through |
| `FullMesh` | types only |
| `Kernels` | `CoveredTo(n)`: what was loaded and stored is exactly what lies below the loop counter, or below the count once the kernel has returned; nothing before a call. `RoundCovers` and `TailCovers`: each round, and the masked one, moves that mark and leaves no gap |
| `ThreadLocalArena` | chunks partition what the heap gave, regions lie below the block's offset and apart |
| `PersistentIngest` | `FileSized`: while the loop runs the file has its length; a row of the file is empty or a whole datagram of this run, `NextBlock` as the journal's `Headed` |
| `AuditLog` | entries below the count are the datagrams in order; main is done only after the worker |

**`SharedLemmas`** has the arithmetic of remainders and wrapped counters
(`WrappedDifference` carries both FIFOs), slots of a file (`FitsIsSlot`,
`WindowMoves`) and loops. The installed provers cannot instantiate the library's
induction theorems, whose premise is an operator; `LeastNumber`, `LoopEnds`,
`LoopReturns` and `LoopKeeps` do induction over sets and functions instead. A loop is
a successor function with a measure that falls; a recursive function of a model is the
loop's result because its definition says so, and what a round keeps the result has.
Sums over sets are folds of the community modules: `SumTakesOne`, `SumMoves` and
`SumFits` are proved by the least set for which they would fail (`NoneSmallest`).

**Only model-checked:** `AllDelivered`, `Finishes`, `AllThrough` and `TopTaskRuns`,
which need fairness and so `ENABLED`, out of the prover's reach; and the seven
violation runs, which are counterexamples. That `max_flow` ends is not claimed:
section 6 shows that it need not.

## 6. What the code does otherwise than its documents say

1. `core/sys/handle.hpp:22-24` says handles remove the hidden coupling between
   pools. The chunk of `core/sys/arena.hpp:74` is shared by all arenas of a thread,
   and the second arena hands out memory of the first (`arena_two_pools`).
2. `core/sys/arena.hpp:42` says the chunk adapts to large objects. Its ceiling is
   256 KB and the object is not compared with it; a larger one overruns the chunk
   (`arena_oversize`). `perf/stress_test_1m.cpp:23`, written for an earlier version of
   the API, asks for such an object.
3. `core/platform/vcore_avx512.cpp:44-45` says the arena guarantees 64-byte aligned
   addresses. Only sizes are rounded (`arena_alignment`).
4. `src/super_core_v5.cpp:21` and `:38-39` say a restart continues where the file
   stops and appends. Line 40 starts at offset 0 (`journal_restart`).
5. `relational/flow_push_relabel.cpp:50` says a push updates the edge and its reverse.
   Line 51 updates the edge only, so flow cannot be sent back: the answer can be too
   small (`max_flow_maximal`), and on a path of capacities 2, 2, 1 the loop never ends.
6. `perf/test_network_ingest.cpp:49-69` receives, writes, then dispatches each packet.
   The completions are not told apart, so the end of one packet's write stands for
   the reception of the next (`ingest_persisted`).

7. `perf/stress_test_1m.cpp` makes a table of 2,000,000 entries (line 23), inserts
   1,000,000 keys (line 31) and dereferences what `get()` returns (lines 40-44).
   `hash()` masks with `max_entries - 1`, and the mask 1999999 names 8192 slots
   (`hash_table.hpp:79`; the comment of its line 47 has powers of two in mind, the
   constructor takes any number): the rest of the keys are dropped without a word
   (`table_half_full`).

`broadcast()` of `full_mesh_topology.hpp` sets the mask of one node and tells no
other, where line 58 calls the edges undirected and line 68 says that `i` is connected
to all others; no property is made of it, since it could only repeat the assignment.

Two more are visible in the models as exceptions of properties: `remove()` of
`hash_map_soa.hpp` cuts off keys that probed past the slot (`s_cut`), and `lookup()` may
load from an unaligned slot (`Faults`).

## 7. What is not modelled

Errors of `open`, `ftruncate` and `mmap` in constructors, which end the program.
`size_t` overflow of sizes near 2^64. Arenas larger than a handle's 32 bits can
address (excluded by `BufferAssumption`, in `ScalableArena` and in `BumpArena`), and
resets of an arena that a thread is allocating from, by the rule `"quiescent"`. An
`arena.allocate` that fails in the constructors of the heaps and of the hash table:
`get_ptr` of a null handle is a null pointer, which they keep or write through
untested. Timestamps, latencies, byte counters, console output and CSV formatting.
Results of floating-point arithmetic: the rounding of `max_flow` and the values the
kernels compute. What the kernel does when the completion queue of an io_uring
overflows, and the stack memory its `msghdr` points to. `geometric_wing/` but for the
order of points: record layouts and comparisons. CPUID tests, timers, boot and
telemetry, which keep no state. Benchmarks and scripts. The journal inspector only
reads: its verdict is an operator of `PersistentIngest`; what the datagram generator
sends is the datagrams' numbers.
