# laboratory: formal models, checks and proofs

The repository collects five experiments. This project models two of them: the
concurrent core of `src/custom-queue-latency`, four event queues behind one
interface with the multi-threaded pipelines and the harness that benchmark
them, and `src/index_file`, a B+ tree in a file of blocks. The modules
are written in TLA+, checked on small instances with TLC, and proved for every
value of their constants with TLAPS where the section *Proofs* says so.

## 1. Inventory

| part | state it keeps | operations | hard behaviour |
|---|---|---|---|
| `IEventQueue` (queues.hpp) | – | push, pop, close | the contract the four classes share |
| `GlobalLockQueue` | deque, closed, counters; one mutex, two condition variables | push, pop, close | lost and spurious wakeups, a stop flag nobody notifies, spinning that gives the mutex up |
| `SplitLockLinkedQueue` | linked list with a dummy head, head and tail mutex, two semaphores, atomic depth | push, pop, close | no lock common to both ends, deletion outside the lock, spurious `try_acquire`, give-back on refusal |
| `MpmcRingQueue` | ring, two indices, two mutexes, two semaphores, atomic depth | push, pop, close | as above, and only the semaphores separate writers from readers |
| `SpscRingQueue` | ring of capacity + 1 cells, two atomic indices, counters | push, pop, close | plain cell accesses ordered by the indices, wrap-around, stale loads |
| pipelines (pipeline.cpp) | `PipelineState` counters, `ingress_stop`, the queues, threads | shared queue, dispatch + local SPSC, direct local SPSC | shutdown order, blocked threads at a join, exceptions in a thread, accounting |
| harness (harness.cpp) | produced, consumed, dropped, `stop` | runScenario | closes before it joins |
| `index_file` | a block file: header, leaves, internal nodes | create, insert, search, range search, print | splits, duplicate keys, key 0, reopening, a crash between two writes |
| `db-tx-batch` | MySQL tables, driven by SQL scripts | claim a job, lock-order pair, gap locks | concurrent claims, deadlock, lock timeouts |
| `read_inmemory_data`, `string-constant-pool` | measurements | sequential benchmarks | none for this project |

Producers call `push(event, policy, stop_flag)`, consumers `pop(out,
stop_flag)`; a third thread raises the stop flags and calls `close()`. In a
pipeline the producers are the ingress threads, the consumers the workers, and
the main thread sleeps until the deadline, raises `ingress_stop`, joins the
ingress threads, closes the queues and joins the workers. Its workers' own stop
flag is never raised: a worker leaves only through a closed queue. The harness
raises one flag for both sides and closes the queue before it joins anyone.

What makes each part correct:

- a queue: every accepted event comes out of exactly one pop, in the order of
  acceptance; a push refuses only when closed, stopped, or (Drop, bounded) full;
  a pop refuses only when closed or stopped; no call hangs while the other side
  is alive; `close()` releases everybody; the capacity holds; the statistics
  the benchmark reports are exact;
- a pipeline: a run ends, and every event accepted during the measurement is
  completed, or counted as dropped;
- the harness: a run returns although it closes the queue before it joins the
  producers, and what it produced it consumed, but for what its order loses;
- the index file: whatever sequence of inserts and reopenings produced it, it is
  a B+ tree of the inserted entries, and the searches answer from it.

## 2. Modules

| module | models | role |
|---|---|---|
| `EventQueue` | `IEventQueue` as its callers see it | abstract specification |
| `SpscRing` | `SpscRingQueue` | implements `EventQueue` (checked and proved) |
| `SplitLockQueue` | `SplitLockLinkedQueue` | implements `EventQueue` (checked and proved) |
| `SplitLockQueueProofs` | – | theorems about `SplitLockQueue` |
| `MpmcRing` | `MpmcRingQueue` | implements `EventQueue` (checked and proved) |
| `MpmcRingProofs` | – | theorems about `MpmcRing` |
| `GlobalLockQueue` | `GlobalLockQueue` | implements `EventQueue` (checked and proved) |
| `GlobalLockQueueProofs` | – | theorems about `GlobalLockQueue` |
| `DirectPipeline` | `runDirectLocalSpscPipeline`, one ingress and its worker | extends `SpscRing`; implements its `Spec` (checked and proved) |
| `DirectPipelineProofs` | – | theorems about `SpscRing`, and about `DirectPipeline` over it |
| `SharedPipeline` | `runSharedQueuePipeline` over `GlobalLockQueue` | extends `GlobalLockQueue`; implements its `Spec` (checked and proved) |
| `SharedPipelineProofs` | – | theorems about `SharedPipeline`, over those of the queue |
| `DispatchPipeline` | `runDispatchLocalSpscPipeline` | stands on what `EventQueue` promises of the queues |
| `DispatchPipelineProofs` | – | theorems about `DispatchPipeline` |
| `Harness` | `runScenario` over `GlobalLockQueue` | extends `GlobalLockQueue` |
| `HarnessProofs` | – | theorems about `Harness`, over those of the queue |
| `Counting` | – | the numbers the invariants are about: threads at given places, events of a kind in a queue or in several |
| `BPlusTree` | the index file and the commands of `b+tree` | stands alone |
| `BPlusTreeProofs` | – | theorems about `BPlusTree` |
| `MC*` | – | values of the constants and symmetry for TLC |

### State and actions

The variables have the members' names without the trailing underscore. A call
under way is a program counter: `ppc` for push and `cpc` for pop, the value
naming the next thing the thread does; the locals that outlive a step are
variables of their own (`seen_head` is the local `head` of
`SpscRingQueue::push`, `old_head` the local of `SplitLockLinkedQueue::pop`).
One action is what a thread does between two points where another thread can
interfere: one access to an atomic in the lock-free ring, one critical section
under a mutex, one semaphore operation.

- In `SpscRing`, `CheckClosed`, `LoadHead`, `WriteCell`, `PublishTail`,
  `Account` follow lines 419–433 of queues.cpp, and `LoadTail`, `CheckStop`,
  `ReadCell`, `AdvanceHead`, `CountPop` lines 449–462. A read or write of a
  cell is a step that begins when the program counter reaches it and ends when
  it leaves, so "both threads are at the same cell" is the state predicate that
  `CellRaceFree` excludes.
- In `SplitLockQueue` the nodes are numbered in the order they are linked;
  `Link` is the store to `tail_->next`, apart from `MoveTail`, because a
  consumer under the *other* mutex can read that pointer in between. `Unlink`
  keeps the branch for a null pointer with the answer the code gives there.
- In `MpmcRing` the store and the load happen inside the mutex in a step of
  their own (`LockTail`/`Store`, `LockHead`/`Load`), so that a producer and a
  consumer can be at the buffer together.
- In `GlobalLockQueue` a step is what a thread does while it holds the mutex.
  A thread in `cv.wait` is `parked`; a notification or a spurious wakeup makes
  it `woken`, and it evaluates its predicate again. With the spinning strategy
  it is at `spin`, without the mutex, and looks again.
- In `DirectPipeline` the ingress and worker run the steps of `SpscRing`, and
  the counters of `PipelineState`, the clock (`Expire`), the main thread's
  joins and the worker's exception handler are added around them.
- `SharedPipeline` does the same around `GlobalLockQueue`, with any number of
  ingress threads and workers; `thread` says whether a thread runs its loop, is
  in its exception handler (`HandlerStops`, `HandlerCloses`) or has exited. A
  worker that throws, or an ingress thread whose push finds no memory, closes the
  queue while the others still use it.
- `DispatchPipeline` does not repeat a queue class. `queue` maps 0 to the
  dispatch queue and each worker to its ring; `Accept` and `Refuse` are what
  `EventQueue` allows a push, and a pop that refuses is two steps, `FindEmpty`
  and the look at `closed_` (`MayEnd`), since three of the four classes look at
  the two apart. `global_lock` says that the dispatch queue is the class that
  looks at both under one mutex; the others' semaphores may fail spuriously.
  `wait_strategy` says whether that class waits on condition variables; then a
  push that finds no place is `parked` (`Park`) and does nothing until a pop's
  `NotifyOne`, the `NotifyAllOf` of a close or a stray `Wakeup` releases it, while
  `ingress_stop` does not. The one consumer is not parked in the model: every push
  and close notifies it, so its waiting differs from its looking again in nothing.
  Every thread may throw where the code can, and closes the queues of its
  handler one at a time (`to_close`).
- `Harness` adds producers, the consumer, the counters and the main thread to
  `GlobalLockQueue`; the flag and the close are two steps, and any push can fall
  between and after them.
- In `BPlusTree` a block is the sequence of integers the code writes: a leaf is
  its slots and the next leaf, an internal node its first child and its slots,
  and an empty slot has the key 0. The operators have the names of the methods.
  `insert` and what it calls are functions from a tree (the object's members and
  the file's blocks) to a tree; the entry a split hands to the level above is
  the field `promoted`. `getMetadata` derives the number of nodes from the size
  of the file, whose last block may be short (`fileSize`). The actions are the
  commands: `Create`, `Open`, one `Insert` for a line of the input, `Close`;
  search, range search and print are operators the invariants call on the file
  as the next command would find it.

### What is abstracted

- **Events** are their identity (a number; 0 is no event). Route keys and
  timestamps appear only through "created before or after measuring starts".
- **Memory order.** Steps interleave sequentially consistently. For
  `SpscRingQueue` the release store of an index and the acquire load by the
  other side order every access to a cell, which is the data-race freedom
  `CellRaceFree` states of the model; with it, an execution of the code is
  equivalent to an interleaving as far as the modelled variables go. The flags
  and statistics are read relaxed, and only their eventual visibility matters.
- **`closed || stop_flag`** is one step: both only ever rise, and a read of the
  two at different moments gives an answer that one of the moments justifies.
- **Counters** that only count loop turns (`full_hits`, `empty_hits`,
  `spin_count`, `yield_count`, `park_count`) are left out: they are not read
  back. `push_*` and `pop_success` are kept where the properties use them.
- **`SpinYieldWaiter::pause`** changes nothing but such counters.
- **Which worker an event is for** is left open in `DispatchPipeline`; the code
  takes it from the event's number.
- **Index file contents**: keys are distinct and never 0 (see *Not modelled*).
- **A consumer that was refused** never calls pop again; every caller loops
  `while (queue.pop(...))`.

## 3. Runs

| run | instance | distinct states | what it shows |
|---|---|---|---|
| `split_lock` | 2 producers, 2 consumers, capacity 0 and 1, 2 pushes | 0.2 million | tokens, list, depth, contract, progress |
| `mpmc_ring` | 2 + 2, capacity 1 and 2, 3 pushes | 0.6 million | tokens, cells, depth, contract |
| `direct_pipeline` | capacity 2, 5 events, 1 before measuring | 18 thousand | cell races, depth, statistics, contract, use of the ring; accounting, end of the run |
| `direct_pipeline_drained` | the same | violation | see *Findings* |
| `shared_pipeline` | 2 ingress threads, 2 workers, capacity 2, both wait strategies, 3 events, 1 before measuring | 0.4 million | wakeups, contract, use of the queue; drained queue, accounting, end of the run |
| `shared_pipeline_stuck` | 2 ingress threads, 1 worker, capacity 1, condition variables | violation | see *Findings* |
| `dispatch_pipeline` | 1 ingress thread, 2 workers, all capacities 1, both wait strategies, 3 events | 0.6 million | end of the run, accounting |
| `dispatch_pipeline_drained` | 1 ingress thread, 1 worker, all capacities 1, 2 events | violation | see *Findings* |
| `harness` | 2 producers, capacity 0, 1, 2, both wait strategies, 4 events, 1 before measuring | 0.3 million | bound, wakeups, drain; end of the run, what it may lose |
| `harness_drop` | 2 producers, capacity 1, condition variables, 2 events | violation | see *Findings* |
| `btree` | 7 keys, one of them negative, block sizes 8, 12, 20, 28 (capacity 0, 1, 2, 3) | 6 thousand | shape, search, range search, print |
| `btree_ragged` | the same with block size 16 | violation | see *Findings* |

`SpscRing` and `GlobalLockQueue` are checked inside the runs that use them, by
`direct_pipeline`, and by `shared_pipeline` and `harness`. Those start the queue as
the queue's own specification does and take only its steps (`UsesRing`, `UsesQueue`,
`QueueAsPromised`). What the runs do not reach, a push and a pop of the ring that stop
at once, or two consumers of the unbounded deque, is in the theorems about the two
modules, which hold of their `Spec`.

Why the bounds are enough. A ring of capacity 2 has three cells, so five pushes
wrap both indices and fill the ring at every offset; capacity 1 is the smallest
where every push meets a full queue, and 0 the unbounded case. Two threads of a
kind give every contention for a mutex, a token or a notification; a third
would only repeat the role of the second, except for wakeups, where two parked
and one woken thread are already enough to lose a notification. The policy is
chosen anew for each call (in a pipeline or the harness, once for the run), and
the stop flags and `close()` come at any moment: the producers' flag alone (as
the pipelines do) or both together (as the harness does; the runs of the two queues
that stand alone take either). Threads of a kind are
symmetric in `mpmc_ring`, which checks no liveness.

In the shared pipeline two workers and three events let one worker throw, or take the
last event, while the other is parked, and one ingress thread be parked on the full
queue while the other leaves. In the dispatch pipeline three events
are what its hardest case takes: one whose worker throws, one that fills that
worker's ring, and one the dispatcher is blocked with, or one in the dispatch
queue, one in the dispatcher's hands and one parked. All three are measured, for
only such an event makes a worker throw; the other runs mix events of both kinds. A
second ingress thread takes more states than the run has time for; two parked pushes
are in `shared_pipeline_stuck` and in the harness. In the harness four events
of two producers fill the queue of capacity 2 with both pushes parked, and leave each
producer one push in flight when the flag goes up. In the B+ tree seven keys in every order split
leaves, internal nodes and the root, twice at capacity 1, and reopen the file
between any two inserts; the block size 8 has no room for an entry, and a
command refuses the file.

Each property of a passing run has a mutant of the code it is about, kept
beside the definition it changes; the run with the mutant is violated.

### Properties

- `Contract` (all four queues): the module implements `EventQueue`. The
  refinement maps the cells between the indices, or the linked nodes, to the
  abstract queue; a push takes effect when it publishes the index, links the
  node or stores under the mutex, and a pop when it moves the head.
- `CellRaceFree`, `CellSafe`, `ListSafe`: nobody touches a cell or a node that
  another thread is writing, reading or has deleted.
- `TokensConserved`: both semaphores, the calls under way and the contents
  account for each other, on the refusal paths too.
- `DepthBounded`, `DepthExact`, `StatsBalance`: the statistics.
- `NoLostWakeup`: a parked consumer never sits beside an event that no woken
  consumer is about to take, and likewise a producer beside a free place, as
  long as `stop_flag` is down.
- `DrainsBeforeRefusing` (only the mutex queue has it): a pop refuses only at a
  moment when the queue is empty.
- `Settles` (the list, which no run of a pipeline uses): progress. There are only so
  many pushes, so the queue comes to rest again and again: pushes have returned,
  accepted events have been handed out or every consumer has left, and after `close()`
  nobody is inside a call. The one property replaces separate leads-to formulas for
  each kind of call. For the ring and the mutex queue `Terminates` says it of whole
  runs, and `NoLostWakeup` of every moment before their end.
- `TypeOK` and `PipelineTypeOK` also bound what is counted: a bounded deque has at
  most its capacity, and no counter of a run passes the one it is a part of.
- `EventsAccounted`, `Accounted`, `Terminates`, `UsesRing`, `UsesQueue`: a whole
  run. The runs differ in what they guarantee at the end. The shared pipeline
  over `GlobalLockQueue` ends with an empty queue; the direct and the dispatch
  pipeline may leave events behind whose consumer looked too early, and the runs
  `direct_pipeline_drained` and `dispatch_pipeline_drained` show it where the tests
  deny it. The harness leaves at most one event of each
  producer, and none with condition variables, Block and a bounded queue, where
  push looks at the flag before it looks for room. So `produced == consumed` holds
  where tests/test_scenario.cpp:42 expects it of the mutex queue (Block), and not
  where :57 does (Drop, `harness_drop`).
- `Terminates` of the dispatch pipeline excepts one way not to end, `Abandoned`, which
  is a defect of the code: see *Findings*.
- `WellFormed`: every block of the file is on one level of the tree, the leaves
  are all on the last one and chained in order, their entries are the inserted
  ones in key order, and a separator is the least key to its right.
  `SearchAnswers`, `RangeAnswers`: what the commands answer, against the set of
  inserted entries.

### Fairness

Every thread inside a call is scheduled (weak fairness per thread), which is
what a spinning loop needs; nothing obliges anybody to call push, `close()` or
to raise a flag. In `SplitLockQueue` a `try_acquire` that could succeed again
and again does succeed some time (strong fairness): the standard lets it fail
spuriously, not for ever. In the pipelines the deadline passes.
`GlobalLockQueue` assumes no wakeup: a parked thread runs again only if some
step notifies it. So it is in `DispatchPipeline`: a push that spins sees a raised
flag and returns, one that is parked has no step of its own, and the stray
`Wakeup` is under no fairness. An exception is never owed.
The index file is sequential and has no liveness property.

### Findings

`direct_pipeline_drained`: tests/test_pipeline.cpp:118 expects of every run that
`accepted == completed`. `SpscRingQueue::pop` loads `tail_`, finds the ring
empty, and then looks at `closed_` without looking at `tail_` again. The last
push, the ingress thread's exit, its join and `close()` can all fall between
the two loads; the worker then answers false and leaves one accepted event in
the ring. `EventsAccounted` states what does hold: nothing is lost except what
lies in the ring. `SplitLockLinkedQueue` and `MpmcRingQueue` have the same
window, `GlobalLockQueue` has not (`DrainsBeforeRefusing`).

`shared_pipeline_stuck`: the command line promises a measured interval of
`--duration-ms` (pipeline_main.cpp:21), and the tests take every run to return,
but `Terminates` fails. `runSharedQueuePipeline` raises `ingress_stop` and joins
the ingress threads before it closes the queue. A store to the flag notifies
nobody, so a push parked on `not_full_cv_` runs again only if a pop notifies it,
and then returns false without passing the wakeup on (queues.cpp:85-87). With
two ingress threads parked on a queue that holds one event there is one more
pop, one thread leaves, and main joins the other for ever. The configuration is
accepted by `validatePipelineConfig`: `global_lock`, `block`, `cv`, and more
ingress threads than places. With a place for every ingress thread there are
enough pops to come, and the same property holds (`shared_pipeline`).

Every hang of the dispatch pipeline comes from the same parking. With fewer places
than ingress threads it can end like `shared_pipeline_stuck`, since main joins the
ingress threads there too before it closes the queue (pipeline.cpp:448, 450); its run
has a place for each. And a dispatcher that throws hangs it whatever the capacity: its
handler (381) closes the rings and not the dispatch queue, as the handlers of the
workers (363) and of the ingress threads (436) do. An ingress thread parked in
`GlobalLockQueue::push`, the default way of that class to wait under Block, is then
notified by nobody, and main joins it for ever, so that the error is never reported. A
push that spins leaves by its flag. `Terminates` of `DispatchPipeline` names this state,
`Abandoned`, as its only exception: `<>(main = "done")` alone fails with one ingress
thread, one worker, capacities of 1 and two events.

`dispatch_pipeline_drained`: tests/test_pipeline.cpp:83
and :101-102 expect `accepted == completed` (Block, with `SplitLockLinkedQueue`) and
`accepted == completed + dropped_dispatch` (Drop) of the dispatch pipeline. The
window between the failed `try_acquire` and the look at `closed_` (queues.cpp:238,
and 360 in `MpmcRingQueue`) lets the dispatcher leave an event in the dispatch queue;
the window of the rings lets a worker leave one that the dispatcher pushed just
before it closed them (pipeline.cpp:386). Either alone violates `Drained`;
`EventsAccounted` says that nothing else is lost, and that a `GlobalLockQueue` ends
empty.

`harness_drop`: tests/test_scenario.cpp:57 expects `produced == consumed` of the
queue `mutex` under Drop. A push under Drop does not look at the flag, and `runScenario`
raises it (harness.cpp:160) before it closes the queue (161): the consumer can leave
in between and a producer that was past its own look at the flag still inserts.
`Accounted` says that each producer leaves at most one event so.

`btree_ragged`: the README (index_file/README.md:34, 51) says nodes are stored
in blocks of a fixed size, and (100) that the value of an existing key is
returned. Any block size is accepted, but a node is written as 4 + 8n bytes, so
with another block size the last block of the file is short. `getMetadata`
divides the size of the file by the block size and does not count it: after one
insert and a reopening, the file has no block, the key is not found, and the
next insert overwrites it. With block sizes 4 + 8n the same property holds
(`btree`).

## 4. Proofs

TLAPS proves the theorems below for every value of the constants: any finite
sets of producers and consumers, any capacity the constructors accept, any
number of pushes or events. The assumptions are the named `ASSUME`s of the
modules, which TLC evaluates in every run:

- `CapacitiesAssumption`, `CapacityAssumption`, `SizesAssumption`: a ring's
  capacity is positive (its constructor throws otherwise, and
  `validatePipelineConfig` asks it of the dispatch queue); 0 is an unbounded
  deque or list.
- `ThreadsAssumption`: there are finitely many threads of each kind, and no
  thread is of two kinds. The code creates its threads in loops over an `int`.
- `PoolsAssumption` (`SharedPipeline`): there is a worker, as
  `validatePipelineConfig` asks (pipeline.cpp:92).
- `BlockSizesAssumption`, `EntriesAssumption`: a block size is positive, and an input
  has entries with keys other than 0, one for a key (see *Not modelled*).
- `FlagAssumption`: the owner may raise the push flag alone (a pipeline) or both
  at once (the harness, which has one). It says that the queue's specification
  allows its owner what this owner does.

Every proof has the same shape: an inductive invariant, one lemma per part of it
and per kind of step, and then what follows from it. TLC has checked each
invariant on the instance of the component's run, but for that of the index file,
which quantifies over functions on all integers: there TLC checks what follows from
it (`TypeOK`, `WellFormed`, `SearchAnswers`, `RangeAnswers`, all of them theorems).

### The queues

| module | theorem | statement |
|---|---|---|
| `DirectPipelineProofs` (of `SpscRing`) | `TypeCorrect`, `Invariance` | `Spec => []TypeOK`, `Spec => []IInv` |
| | `RaceFree`, `DepthCorrect`, `StatsCorrect` | `Spec => []CellRaceFree`, `[]DepthBounded`, `[]StatsBalance` |
| | `Refinement` | `Spec => Contract` |
| `MpmcRingProofs` | `TypeCorrect`, `Invariance` | `Spec => []TypeOK`, `Spec => []IInv` |
| | `TokensCorrect`, `CellsCorrect`, `DepthCorrect` | `Spec => []TokensConserved`, `[]CellSafe`, `[]DepthExact` |
| | `Refinement` | `Spec => Contract` |
| `SplitLockQueueProofs` | `TypeCorrect`, `Invariance` | `Spec => []TypeOK`, `Spec => []IInv` |
| | `TokensCorrect`, `ListCorrect`, `DepthCorrect` | `Spec => []TokensConserved`, `[]ListSafe`, `[]DepthExact` |
| | `Refinement` | `Spec => Contract` |
| `GlobalLockQueueProofs` | `TypeCorrect`, `Invariance` | `Spec => []TypeOK`, `Spec => []IInv` |
| | `WakeupsCorrect`, `DrainCorrect` | `Spec => []NoLostWakeup`, `Spec => DrainsBeforeRefusing` |
| | `Refinement` | `Spec => Contract` |

*SpscRing.* `CellRaceFree` is not inductive: that writer and reader do not meet
follows from *the ring is not full when the producer is about to write* and *not
empty when the consumer is about to read*, which rest on loads made earlier. The
invariant adds `SeenHeadInv` (the head the producer remembers is behind the head
by no more than the room it saw, so a stale head only underestimates the room)
and `CellInv` (what each program counter knows about the two indices and about
the cell just written or read). The indices move round a ring, so the arithmetic
is collected in lemmas on `nextIndex` and `Distance`: a push makes the distance
one longer, a pop one shorter.

*MpmcRing and SplitLockQueue.* No lock covers both ends, so what keeps a push and
a pop apart is only that each holds a token. The invariant is therefore a balance
(`Balanced`): the tokens in each semaphore, the calls that hold one or owe one,
and the contents add up to the capacity and to `depth`. Its terms are the numbers
of threads at given places of their programs (`Counting`), and `CountMove`, which
each proof module states for itself, says how such a number moves when one thread
does, by the theorems on cardinality. From
the balance, a push that holds a slot has a free cell and a pop that holds an item
has a full one (`Room`), which with the mutexes (`Locked`) gives `CellSafe` and
keeps `depth` exact. In the list, `tail_` lags behind a push that has linked its
node (`TailLast`), and a node is deleted by the pop that unlinked it and by
nobody else (`Behind`): with the balance no pop reads the pointer being written,
and the branch for a null pointer is dead code.

*GlobalLockQueue.* `NoLostWakeup` counts: with a consumer parked, there are at
least as many woken consumers as events, and likewise producers and places
(`ConsumersServed`, `ProducersServed`). It is inductive with the types, because a
push that adds an event also wakes one, if any is parked, and a woken thread
that parks again has seen the queue empty. The proof covers the spurious
wakeups, which only raise a count, and the return of a stopped push, which
lowers one but only with the flag up.

*The refinements.* `Contract` maps the queue to the abstract one and each call
to a phase (idle, offering under its policy, accepted, refused). One lemma says
that when one thread moves only its own phase changes; a push's linearization
step appends to the window, a pop's takes its head, and every other step is a
stutter or a refusal the contract allows. In the rings that needs lemmas on the
window between the indices (`WindowAppend`, `WindowTail`), in the list on the
linked nodes.

### The runs

| module | theorem | statement |
|---|---|---|
| `DirectPipelineProofs` | `PipelineUsesRing`, `PipelineContract` | `PipelineSpec => UsesRing`, `PipelineSpec => Contract /\ []CellRaceFree` |
| | `PipelineTypeCorrect` | `PipelineSpec => []PipelineTypeOK` |
| | `AccountingInvariance`, `Accounting` | `PipelineSpec => []AccountingInv`, `[]EventsAccounted` |
| `SharedPipelineProofs` | `QueueUsed` | `PipelineSpec => UsesQueue` |
| | `PipelineTypeCorrect` | `PipelineSpec => []PipelineTypeOK` |
| | `PipelineInvariance`, `PipelineAccounted` | `PipelineSpec => []PipelineInv`, `[]EventsAccounted` |
| `DispatchPipelineProofs` | `DispatchTypeCorrect` | `Spec => []TypeOK` |
| | `DispatchInvariance`, `DispatchAccounted` | `Spec => []IInv`, `[]EventsAccounted` |
| `HarnessProofs` | `QueueAsPromised` | `HarnessSpec => Contract` |
| | `HarnessTypeCorrect` | `HarnessSpec => []HarnessTypeOK` |
| | `HarnessInvariance`, `HarnessAccounted` | `HarnessSpec => []HarnessInv`, `[]Accounted` |

Every step of the direct and the shared pipeline and of the harness is one of its
queue or leaves the queue alone, so the invariants and the refinements of the
queues carry over; the two proofs over `GlobalLockQueue` extend its proof module
and cite them.

`EventsAccounted` and `Accounted` speak of the end of a run and are far from
inductive. Each of the four invariants has two halves.

- *The order of the run*: who has left, and what that says. `Joined`: main is past
  joining whom it has joined; without an error nobody but main closes the shared
  queue. `Drained`: a worker that was refused saw the closed queue empty, and since
  nobody is left to push, so it stays. `Orderly` (dispatch): the dispatch queue
  closes after the last ingress push and a ring after the dispatcher's last, so
  that a Block run refuses no event that counts. `Late` (harness, which closes
  before it joins): once the consumer was refused, the events in the queue and the
  pushes under way are together no more than the producers, so each producer
  leaves at most one. `Stopping`: a push of a Block run is refused only once the
  flag is up.
- *The balance*, which holds at every moment: each measured event that was
  accepted is in a queue, with a thread, completed or counted as dropped
  (`DeliveryBalanced`), and each that was generated is being pushed, accepted or
  dropped, or is the one of its ingress thread that the stop interrupted
  (`IngressBalanced`, `ProductionBalanced`). The terms are numbers of measured
  events in a queue and in the hands of threads; `CountAppend` and `CountTail` say
  how the first moves at the two ends of a queue, through a bijection between the
  positions of a sequence and of its tail, and `CountAllMove` how the number in all
  queues of the dispatch pipeline moves when one of them changes.

After an error the balances of the dispatch pipeline are kept as inequalities: a
ring that a handler closed may refuse an event of a Block run, and nobody counts it.
They still bound every counter by the number of created events, which is what the
type invariants say.

### The index file

| module | theorem | statement |
|---|---|---|
| `BPlusTreeProofs` | `BPlusTreeStored` | `Aligned` implies `Spec => []FileInv` |
| | `BPlusTreeTyped` | `Aligned` implies `Spec => []TypeOK` |
| | `BPlusTreeSearch` | `Aligned` implies `Spec => []SearchAnswers` |
| | `BPlusTreeRange` | `Aligned` implies `Spec => []RangeAnswers` |
| | `BPlusTreeWellFormed` | `Aligned` implies `Spec => []WellFormed` |

`Aligned` says of the block sizes that a block with room for an entry is one that
nodes fill: 4 + 8n bytes. Without it the theorems are false (`btree_ragged`), because
`getMetadata` derives the number of blocks from the size of the file; the sizes of
the run `btree` satisfy it. Nothing bounds the number of entries, the capacity of a
block or the depth of the tree.

`FileInv` says that the file holds a tree with the inserted entries and that the open
tree of an insert command is the one in the file. Walking down a tree of any depth
would take induction, so the tree is described from above: `P[l][k]` is the block on
level l on the way down for the integer k. `Paths` says what such a family is (no
block on two levels, keys that meet on a level have met above it, the keys of a block
have no others between them, every block is on the way for some key), and `Tree` what
each block has to say about it: a leaf lists exactly the entries whose keys lead to
it, in key order, and names the leaf of the next key beyond its own (`Chained`); a
node has its separators in key order, each the key of an entry, and `child` goes on
to `P[l + 1][k]`. So every block is reachable, all leaves are on the last level and
the chain runs through them in key order. The proof goes bottom-up:

- *Blocks.* What is written is read: `Words` and `Slots`, the slots in use of a leaf,
  the separators before the first empty slot of a node (`LeafWritten`,
  `InternalWritten`), and a write changes one block (`BlockWritten`).
- *Nodes.* `sortEntries` puts a new entry at its place (`SortedInsert`), `child` finds
  the last separator that is not above the key (`ChildAt`), a node with one separator
  more or in two halves sends each key where it belongs (`NodeInsert`, `NodeSplit`).
- *Splits.* Between the split of a block and the write to the level above, the tree is
  not one: the promoted entry leads to a block nobody points to. `Pending` is the
  invariant of that moment: the blocks are on the levels `P`, in which one block is
  already divided (`Divide`), and the nodes above still lead as if it were whole
  (`Whole`). `insertLeaf` either keeps the tree or leaves a split pending on the last
  level, `propagate` either settles it or leaves one pending one level up
  (`PropagateFits`, `PropagateSplits`), and `newRoot` settles one at the root.
- *Recursion.* `getPath` and `insertAlongPath` are recursive functions. A function that
  satisfies the equation of `getPath` is the path (`PathIs`), and that of
  `insertAlongPath` has a solution (`ClimbExists`); the first level where a claim fails
  then contradicts the lemma about one step.
- *The file.* With `Aligned`, the number of blocks that `getMetadata` computes is the
  number written (`Counted`), so that a reopened tree is the one that was closed.

`FileInv` speaks of every block; `WellFormed`, `RangeAnswers` and `print` walk the file
as the code does: from leaf to leaf, from a node to its children, from the root down a
level at a time. The loops of the code that pick entries from a sequence or put
sequences one after the other are `Picked` and `Joined` in the model: element n is the
one with n - 1 places before it, and no definition recurses over a sequence. The
walks are compared with `P` by one notion, `Runs(f, n, S, R)`: f goes through S in the
order R. A finite set that R orders has a run (`RankedRuns`) and only one (`OneRun`),
so two sequences that run through the same set are equal, whatever their length.

- *Sequences.* What is picked runs through its places in their order, what is joined
  through the places of its parts (`PickedRuns`, `JoinedRuns`); parts that are in order
  make a run of the whole (`JoinedThrough`). Entries with keys in order are
  `SortedByKey` of the set of them (`SortedIs`).
- *Leaves.* The chain from the leaf of a key runs through the leaves of the keys from
  there on (`ChainRuns`, `LeavesRun`), so `entriesOf` has their entries in key order
  (`RowEntries`), and the part of a scan up to the first key above the range is the
  range (`RangeScan`).
- *Levels.* The children of a node run through the blocks below it (`ChildrenRun`), so
  the children of a level, joined, run through the next (`NextLevel`), and what
  `Levels` computes runs through `P[l]` for every l (`LevelsRun`). Together the levels
  run through all blocks of the file (`AllBlocks`), and none is on two.
- *Separators.* The key of a separator is the first one that leads to the child on its
  right, and so to every block on the way down by first children (`StaysLeftmost`);
  the leaf at the end begins with it (`FirstKey`, `SeparatorFirst`).

### Only model-checked

The liveness properties (`Terminates`, `Settles`): the prover does not do fairness.

## 5. Not modelled

- The shared-queue pipeline and the harness over `SplitLockLinkedQueue`,
  `MpmcRingQueue` and (harness) `SpscRingQueue`. The window of their pops is in
  `DispatchPipeline`, and `Accounted` with the spinning strategy has the late push.
- Where a leaf is split: the example of index_file/README.md:189-192 puts the middle
  entry elsewhere than `splitIndex` does. The model follows the code, and no
  property is about the place.
- More than one ingress thread with its worker in the direct pipeline: the pairs
  share only `ingress_stop` and the counters.
- A push of `SplitLockLinkedQueue` that finds no memory for its node: the slot it
  took is not given back, but every caller that catches it closes the queue.
- In the index file: entries with equal keys, for which neither the README nor
  the commands say what a search answers (the last separator not above the key
  leads past duplicates on its left, and separators with equal keys are sorted
  by block id, so children can get out of order); the key 0, which marks an
  empty slot and which the search command ignores; I/O errors, and a crash
  between two writes, after which the code promises nothing.
- The statistics of a result (percentiles, imbalance): floating-point
  arithmetic over a finished run.
- Name parsing, the factory, the command lines, the matrix runner: no state.
- `db-tx-batch`: SQL scripts whose concurrency is MySQL's; the claim protocols
  are in the plan. `read_inmemory_data`, `string-constant-pool`: sequential
  measurements.
- The destructors: they run after every thread is joined.

## 6. Plan

1. The claim protocols of `db-tx-batch`: one job, one worker.
