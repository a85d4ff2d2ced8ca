# A TLA+ verification project for desesc

desesc is a cycle-accurate simulator of out-of-order cores and their memory
hierarchy. It is single-threaded, but not sequential: everything that takes
time is a callback scheduled for a later clock, and a dozen components hold
pointers to the same dynamic instruction (`Dinst`) or the same cache line while
their callbacks are pending. What is hard to get right, and hard to reach with
a unit test, is the order in which those callbacks arrive. This directory
models that, component by component, checks it with TLC on small instances and
proves the main properties of the core components with TLAPS.

## 1. Inventory

| Component | State | Operations | Talks to |
|---|---|---|---|
| Event scheduler (`core/callback.*`, `core/tqueue.hpp`) | clock, calendar queue (buckets + heap) | `schedule`, `scheduleAbs`, `nextJob`, `advanceClock` | everybody: it calls every callback |
| Ports (`core/port.*`) | per-port queue of requests, units granted this clock | `schedule`, `drain_pending`, `nextSlot` | drained by `advanceClock`; used by units and caches |
| Store buffer (`simu/store_buffer.*`) | map line -> state, words, prefetch mark | `add_st`, `try_prefetch`, `ownership_done`, `prefetch_done`, `remove_spec_load`, `promote_prefetch_scb_to_cache`, `flush_transient` | called by load/store units, prefetcher, flush; sends writes to the L1 |
| Load and store units, LSQ (`simu/resource.cpp`, `simu/LSQ.cpp`) | free entries, LSQ map, marks in `Dinst` | `canIssue`, `executing`, `cacheDispatched`, `performed_spec`, `performed_safe_write`, `preretire`, `retire` | store buffer, L1, ROB |
| Out-of-order core (`simu/oooprocessor.cpp`) | ROB, rROB, RAT, TRAT, register count | `add_inst`, `retire` (two loops), `replay` | clusters, units |
| Clusters, dependence window (`simu/cluster.cpp`, `simu/DepWindow.cpp`) | free window entries, free registers, dependences | `canIssue`, `add_inst`, `executed`, `del_entry_flush` | units, core |
| Transient injection and flush (`simu/gprocessor.cpp`) | - | `add_inst_transient_on_branch_miss`, `flush_transient_from_rob`, `_from_scb`, `_from_inst_queue` | ROB, clusters, store buffer |
| Front end (`simu/fetchengine.cpp`, `simu/pipeline.cpp`) | blocked on a branch or not, fetch buckets | `fetch`, `unBlockFetch`, `unBlockFetchBPredDelay` | predictors, core |
| Predictors and prefetcher (`simu/BPred.cpp`, `simu/AddressPredictor.cpp`, `simu/Prefetcher.cpp`) | tables, histories | `predict`, `update`, `nextPrefetch` | front end, load unit |
| Tag arrays (`core/cachecore.hpp`) | sets of lines with their replacement state | `findLine`, `findLine2Replace`, `fillLine`, invalidation | caches, target buffers |
| Caches (`mem/ccache.*`, `mem/mshr.*`, `mem/cache_port.*`) | lines (MESI, sharers), requests in flight, overflow queue | `doReq`, `doReqAck`, `doSetState`, `doSetStateAck`, `doDisp` | each other through `MRouter` and `MemRequest` |
| Requests and routing (`simu/memrequest.*`, `simu/MRouter.cpp`) | pending set-state acks | `sendReq*`, `convert2*`, `ack` | caches, crossbars, bus, controller |
| Containers (`core/pool.hpp`, `core/fastqueue.hpp`) | free lists, ring buffer | `in`/`out`, `push`/`pop`/`pop_from_back` | `Dinst`, ROB |
| Task handler (`simu/taskhandler.cpp`) | running cores | `boot`, `freeze`, `advance_clock` | cores, emulators |
| Network, statistics, configuration, emulator interface, boot loader | - | I/O, tables | - |

What is hard here: a callback that arrives after its object was flushed,
recycled or converted into something else; two answers for one load in either
order; resources released by the flush and again by the regular path; a fixed
point inside one clock; counters tested at one stage and taken at another; the
boundary between the buckets of the calendar queue and its heap. The `hazards`
of `PROJECT.json` list these at their lines.

What makes each component correct:

* scheduler: a callback is called in exactly its clock, in priority order, and a
  clock ends only when nothing is left to do in it;
* store buffer: it stays bounded, a line that waits has an answer on its way, a
  store that was not yet written is forwarded;
* load/store units: each instruction is destroyed once, after its last callback;
  queue entries are conserved; nothing is performed before the point of no
  return (PNR);
* flush: no dangling callback, no double release, ROB in order, the two rename
  tables apart;
* caches: one writer or many readers, a directory that is exact when a line is
  quiet, no request waiting for ever, MSHR and port counts conserved;
* tag arrays: a line is found where its address looks for it, and only there;
* front end: the real instructions reach the core all and in order whatever the
  cache reorders and the flush takes away; a blocked fetch is unblocked once;
* predictors: the histories they fold are the ones they claim to fold, and what
  keeps repeating is learned;
* prefetcher: one callback per chain, and a prefetch belongs to the load that
  caused it.

## 2. Modules

| Module | Models |
|---|---|
| `StoreBuffer` | the store buffer with the calls made on it |
| `LoadStoreUnit` | FULoad, FUStore, LSQFull, the in-order ends of the ROB; composed with `StoreBuffer` through `SB == INSTANCE StoreBuffer` |
| `TransientFlush` | rename, dependence window, cluster pools, ALU and branch units, ROB and rROB under transient injection and flush |
| `EventSpec` | what the scheduler promises: callbacks called in exactly their clock |
| `EventScheduler` | TQueue, `advanceClock`, the priority ports; implements `EventSpec` |
| `Coherence` | `CCache`, `MSHR`, `Cache_port`, `MemRequest` and `MRouter`: first-level caches, a shared cache and the requests between them |
| `CacheCore` | the tag arrays of `core/cachecore.hpp` as a data type |
| `CacheArray` | one tag array under its users' operations |
| `BTB` | the branch target buffer, on `CacheCore` |
| `SimplePredictors` | oracle, static, 2bit, 2bitl0, tdata, 2level, hybrid, 2bcgskew, yags, superbp; on `BTB` |
| `Tahead`, `Tahead1`, `IMLIBest` | the TAGE predictors of the three headers, as data types |
| `BranchPredictors` | all of them driven by fetch blocks of a small program |
| `Pipeline` | the buckets between fetch and decode |
| `FetchEngine` | `FetchEngine`, the levels of `BPredictor`, the return address stack |
| `FrontEnd` | `GProcessor::fetch`, `decode_stage`, `issue` and `TaskHandler::boot` over `Pipeline` and `FetchEngine` |
| `Prefetcher` | the prefetcher and its stride table |
| `StoreBufferProofs`, `LoadStoreProofs`, `TransientFlushProofs`, `EventSchedulerProofs`, `PrefetcherProofs`, `CacheArrayProofs`, `FrontEndProofs` | the theorems about the module they extend, and their proofs |
| `FetchEngineProofs` | the lemmas about the fetch engine and the return address stack that `FrontEndProofs` uses |
| `MC*` | the instances for TLC |

### StoreBuffer

`scb_lines_map` is a total function on `Lines`, with state `"Invalid"` for a
line that is not in the map (the header's comment says an invalid line is
removed). The L1 is seen through what it owes: `writes[l]` and `prefetches[l]`
count the `ownership_done` and `prefetch_done` callbacks in flight, and they may
arrive in any order. With `PrefetchHits` a prefetch may also end without an
answer: one that hits in the L1 is dropped (ccache.cpp:743-790), and `dropped`
remembers its line. `loads[l]` counts speculative loads whose `present_in_scb`
is set; `unperformed[l]` is a history variable, the words of retired stores
since the last time every write of the line was acknowledged. Each call on the
buffer is one action, including what the caller does around it (`FUStore::
preretire` asks `can_accept_st` first; `FULoad::preretire` removes the load's
line and promotes its prefetches in one go).

Two details of the code are parameters. `Store_buffer_line::init` does not
assign `prefetch_line`: `UninitPrefetch` is the set of values the stack slot may
hold. `FlushTransients` says whether the processor injects transients
(`do_random_transients`), because only then does it flush the buffer.

Data is abstracted to which words of a line are present. `Modified` is never
assigned by the code and is left out of the line states.

### LoadStoreUnit

Instructions are numbers in program order with the flags of `Dinst` that decide
their fate. `added`, `pnr` and `committed` are the three in-order frontiers:
instructions in ROB are `pnr+1..added`, in rROB `committed+1..pnr`. Execution
and answers come in any order. The names of the four flags that decide who
destroys a load are the source's without the prefix `load_destroyed_`.
`Dinst::setup` marks every instruction speculative and only `FULoad::preretire`
clears it, so the paths for loads that are safe before are dead and are left
out. `Dinst::setup` also clears `present_in_rob` twice and `present_in_scb`
never; `UninitPresent` is what a fresh slot may hold, and `SlotReturnsClean`
shows that a recycled one is clear.

### TransientFlush

`inst[i]` holds the life-cycle flags; `deps[i]` the producers it waits for (the
pending lists of `Dinst`). `issued` stands for the moment the instruction is
handed to its unit: from there on a callback that uses it is scheduled until
`executed`. `fetch` is `"blocked"` between a mispredicted branch and its
resolution, and `"ready"` until the flush that the next fetch makes. The flush
is one action, as it runs inside one call; its classes (executed, executing or
issued, renamed) are the sets `E` and `P`, and `Without` is what popping the ROB
from the back and refilling it leave. An instruction has no source or two, which
may be the same register. The second loop of
`flush_transient_from_rob` only refills the ROB: no instruction reaches it
executed, because the first loop has destroyed those.

### EventScheduler

A bucket is the set of its callbacks and `take` picks one of least priority
value, which is where the sorted list has its head. `nextJob` is split at
`adjustTooFar`, which changes nothing the caller sees. `pc` is the position in
`advanceClock`: callbacks run in `"call"` and `"grant"`, where they (and the
cores, in `"core"`) schedule further callbacks and port requests. `TQueue::
remove`, `reschedule` and the `flush_transient` of the ports have no caller that
runs (the flush deliberately leaves ports alone: "Do NOT flush_transient_ports()"
in `simu/gprocessor.cpp`).

### Coherence

A `MemRequest` is one object that changes type on its way, and so it is here:
`mreq[i].at` is the callback scheduled for it or the place it waits in. Time is
abstracted to what orders the handlers. Messages up arrive in the order they
were sent (`lastUpMsg`); with `PortsLimited` a fill may also wait for its bank
while later messages pass. Messages down keep their order except where the code
charges one kind a tag lookup and another nothing. Where a configuration says
`slowMemory`, memory answers later than an invalidation takes up and back (the
shipped last level has a delay of 60, conf/desesc.toml:537; `Nice_cache` itself
sets no lower bound); elsewhere it answers at any time. Each handler is one action
with everything it calls: `doReq` includes the MSHR, the displacement of the
victim and the messages it sends. The options of a cache (inclusive, directory,
victim, allocate on miss, just a directory, how far ahead it prefetches), its
ways and `max_requests` are part of a configuration chosen in `Init`; only
options the constructor accepts are (`ConfAssumption`). A prefetch starts in the
first-level cache that is asked, or in the shared one when the first passes it on.

`SingleWriter` and `DirectoryTracks` are claims about the configurations in which
the shared cache can know who has a line (`coherent`): it keeps the lines it
passes on (no `victim`, allocation on a miss), memory is slow, and prefetches
displace none of its lines. The last condition is needed because a prefetch the
shared cache starts is its own top coherent node, for which `displaceLine`
(ccache.cpp:242) tells no first-level cache: `Coherence_prefetch.cfg` shows two
writers. In all other configurations the counts and waits are still checked.

What modelling it turned up besides the finding below: a prefetch dropped in
`doReq` because its MSHR entry is busy (ccache.cpp:693) never calls
`port.reqRetire`, so `curPrefetch` leaks (which is why `EntriesReturned` speaks
of `cur` and not of `pref`); a read prefetch of the store buffer that hits at
home is never acknowledged (`"lost"`); writes back from the store buffer set
first-level lines without telling the shared cache (only with `victim`);
`allocateLine` reuses the state of the line it displaces. Left out: busy
restarts (`when == 0`), mega prefetch (ccache.cpp:327), the acknowledgement of
address 0, warm-up, sharers above a first-level cache, bank timing.

### CacheCore and CacheArray

A cache is a record, and each method an operator from a cache to a cache; a set
is the sequence of its lines in the order the code keeps them. Fields no
constructor sets (`recent` of the skewed cache, `rrip` of Hawkeye) start with
any value of `Junk`. `CacheArray` keeps a stamp of last use beside the array for
`LruRecency`. Observed on the way: the comment "Order of preference, invalid"
(cachecore.hpp:1056) is overridden by the assignment at 1095; the first random
victim is position 0 in spite of "Not MRU"; the ageing loops of `adjustRRIP` do
nothing; SHIP reads fields the line state of its users does not have. The second
and third index of the skewed array depend on the offset within the line
(`addr & 0xFF` is added, cachecore.hpp:1588, and `addr >> 5` taken whatever the
line size, 1572), and `CCache` passes byte addresses, as the model does. Two
addresses of a line may therefore look in different places; one of them can miss
the line and bring in a second copy (`OneCopy`, `CacheArray_skew.cfg`).
`LinesFindable` says what is left: some address of a valid line finds it, and where
the addresses of a line look in the same places (`alike`; always, but for the
skewed array) each of them finds exactly that line.

### Branch predictors

Table sizes, history lengths and counter widths of the TAGE predictors are
parameters (`Macros`, `Macros1`, `Imli`); the macros that are not defined in the
source (`OPTTAGE`, `INTERLEAVED`, `LOOPPREDICTOR`, `LOCALH`, `IMLISIC`, `IMLIOH`,
`POSTPREDICT`, `DOLC_RLE`, `TARGET2_FROM_GSHARE`, `TAHEAD_DELAY_UPDATE`) select
nothing here either. Random numbers come from a finite set of streams. Memory
`BP2level` and `BPyags` do not initialise is any value of `Garbage`. The core of
Superbp is a library: it answers anything. The program is a loop; its branches
go any way for `Wander` control instructions and then settle.

Things the code does and the model keeps: `Tahead1` derives its bias from a
variable of `Tahead`; Superbp begins a target-buffer boundary where it should
end one (BPred.cpp:1279); yags trains the not-taken table at another index than
it reads (BPred.cpp:1639); `fillLine` leaves the old target in a new entry; the
history of 2bcgskew is not updated on a miss; the branches of a block share
their table indexes. Deferred IMLI updates restore neither the bimodal position
nor the hit flags (`BPred_hit.cfg`). The statistical corrector of IMLI, off in
every shipped configuration, and LDBP are not modelled.

### Front end

Bucket identifiers are relative to `minItemCntr`, ages are capped at
`PipeLength`, there is one hardware thread, and the ROB is the number of real
instructions issued and retired (`TransientFlush` models it). A bucket is the
sequence of its instructions, with `TRANSIENT` for every injected one. The
instruction stream is any sequence a program can produce: calls and returns
nest. The direction predictors answer anything, so every combination of fast and
slow fixes within a block occurs; the return address stack is exact, next to the
program's own calls. A fetch that has room left in its block when the trace ends
pauses the core at once (`more`); one that has not, in the next fetch.
`AdvanceClock` is one turn of `TaskHandler::boot`: fetch
(with its flush and injection), decode, issue, retire, and the decision to
deactivate the core. Observed: `BPRas::tryPrefetch` does not end if `ras_size`
is 0 and `ras_prefetch` is not; copies of `BPredictor` for SMT leave the delays
unset.

### Prefetcher

`exe` and the callback `nextPrefetch` interleave freely. Addresses have
`AddrBits` bits and wrap as `Addr_t` does; the difference of two, and a delta times
a distance, are narrowed to the `IntBits` bits of an `int` (`toInt`): 32 of 64 in
the code, 13 of 14 in the run, so that strides on both sides of the limit occur. `StrideLearned` claims that a lasting stride is trusted,
and that the prediction is right exactly if the stride fits an `int`. Two PCs share the table entry. `degree` is chosen in
`Init` from the degrees a configuration may have: with `distance + 1 >= degree`
no prefetch is ever sent. `armed`, `out` and `steady` are history variables.

## 3. Runs

Passing runs:

| Run | Instance | Shows |
|---|---|---|
| `sb_all` | 4 lines, 1 word, `scb_size` 1; one line prefetched (and the prefetch dropped), two used by speculative loads, up to 2 callbacks per line and kind; 133 k states | capacity, forwarding, the only way a line can stall, draining |
| `lsu_mixed` | store, two loads, store on two lines; one load entry, `scb_size` 1, late allocation; 5 k states | life cycle of loads and stores, conservation, refinement of `StoreBuffer` |
| `tf_flush` | 4 instructions, ALU and branches, two registers, no or two sources each, pools of 3; 501 k states | the flush against every stage of execution; every instruction is destroyed |
| `events` | 8 buckets (the least TQueue accepts), delays 1, 7 and 8, 10 clocks, 2 callbacks, 2 requests, a one-unit and an unlimited port; 456 k states | refinement of `EventSpec`, priority, fixed point, no starvation |
| `coherence` | 2 first-level caches, a shared cache, 2 lines of one set, 10 configurations (shared cache with 1 or 2 ways, directory, victim, no allocation, just-directory, fast memory, three with prefetches), 2 or 3 requests of the cores, `max_requests` 1, or 2 with prefetches; 1.5 M states | single writer, exact directory, conservation, no circular wait |
| `caches` | 8 kinds of array, 2 sets of 2 ways, 4 lines (3 of one set), one of them by two byte addresses, 6 operations; 81 k states | lines findable, order of use |
| `bpred` | 18 predictors, 7 target buffers, a loop with 2 branches and a jump, 4 free control instructions and 40 settled ones | exact folds, valid indexes, learning |
| `fetch` | 4 instructions, blocks of 2, pipeline of 2, 2 requests, stack of 2, 3 predictor levels, with and without transients and draining; 747 k states | delivery in order, conservation, unblocking, returns, no stranded bucket |
| `prefetch` | 2 PCs sharing an entry, 4 pages, 3-bit confidence, degrees 2 and 4, addresses of 14 and deltas of 13 bits; 72 k states | ownership of chains, learning of strides |

Why the bounds are enough to be interesting. `scb_size` 1 with four lines makes
the buffer full most of the time, so refusing, making room and the off-by-one
are all exercised; two callbacks per line allow an answer of an erased line to
meet its successor. In `lsu_mixed` both loads can be forwarded by the LSQ, by
the buffer or not at all, and the second store competes for the only buffer
line. In `tf_flush` a mispredicted branch, a transient producer, a transient
consumer and a real instruction after the flush fit in four instructions, and
the pools are smaller than that. In `events` the delays sit on both sides of the
bucket/heap boundary and ten clocks wrap the buckets. In `coherence` two
lines that conflict in every cache make each request displace the other line,
so displacements, invalidations and fills of one line cross; with
`max_requests` 1 every second request overflows. A port counts as busy for
prefetches from half of `max_requests` on, so the configurations with prefetches
have 2: prefetches then start in the first-level and in the shared cache, with
room for both lines there and, in one of them, with room for one. In `caches` a set receives more
lines than it has ways, and six operations suffice for a prefetched line to be
filled, used, invalidated and replaced. In `bpred` the target buffer has fewer
ways than there are control instructions, the tables alias, and the history
buffer of 16 bits wraps. In `fetch` four instructions make three nested calls
and a return on a stack of two, or a misprediction with real buckets before and
after the transients, while the pool of six is smaller than what the cache may
hold back. In `prefetch` the table entry goes through every pair of deltas and
counters: the run has no bound on the number of loads.

Fairness. `EventScheduler` fires every callback that is scheduled (that is
`CallsOnTime` and `EverythingHappens` of the `events` run, under weak fairness of
the main loop `BootLoader` runs until the end), so the other modules assume weak
fairness of each callback, of the memory's answers and of the stages every core
runs on each clock (`TransientFlush` needs less: that while callbacks are scheduled
one of them fires). No fairness is assumed of the program's choices (which
instruction comes next, which line is prefetched, when a branch misses).

The newer modules have no fairness: evaluating ENABLED of actions that build a
whole successor state is out of TLC's reach. What would be liveness there is
stated as safety: `NobodyStranded` (while someone waits, someone else has a
callback scheduled) and `NothingStranded` (the bucket everybody waits for is on
its way); with the scheduler's promise that every callback is called this rules
out the circular waits, not starvation.

Deadlock is checked in `sb_all`, `lsu_mixed`, `tf_flush`, `events` and
`prefetch`; where the program is finite the final state has an explicit
stuttering step (`Done`). The other runs stop when their bounded program is
over (`CHECK_DEADLOCK FALSE`): the cores have sent their requests, the trace is
retired, the operations are used up.

Violations: what a comment, an assertion or a document says and the code does not do.

| Run | Statement | What happens |
|---|---|---|
| `tf_branch` | docs/debugging.md: no double-free in the flush | `FUBranch::executed` and `FUBranch::try_flushed` both increment `freeBranches` for the same transient branch |
| `sb_convert` | the early return of `add_st` is for a line "with pending WB" | a store to a line whose prefetch is in flight converts it; nothing will ever clean it (without transients; with them the flush drops the line, and the store's words with it) |
| `coherence_ports` | "can not bypass up messages (races)" (mem/ccache.hpp:119) | with limited bank ports an invalidation passes the fill sent before it, and a stale copy survives next to a modified one |

Further configurations, each of one property the code does not have, are kept
beside the runs and are checked the same way (`tlc -config X.cfg M`):

| Configuration, module | Statement | What happens |
|---|---|---|
| `LSU_negative.cfg`, `MCLoadStoreUnit` | `freeEntries` "Can't be negative" (resource.cpp:252) | with late allocation two renamed loads take the one entry |
| `LSU_specwrite.cfg`, `MCLoadStoreUnit` | "All speculative operations bring no effect" (mem/spectre_safe_exclusive_cache.md) | a speculative load enters the store buffer through `add_st`, which sends a write to the L1 before the PNR |
| `StoreBuffer_uninit.cfg`, `MCStoreBuffer` | "is_ld_forward true, because st_inst has been added to sb" (mem/store_buffer_test.cpp) | `init` leaves `prefetch_line` undefined; if it is true the store is not forwarded |
| `BPred_hit.cfg`, `MCBranchPredictors` | "newly allocated if its prediction counter is weak" (imlibest.hpp:1779) | a deferred update takes an entry that no longer hits for a new one |
| `FrontEnd_buffer.cfg`, `MCFrontEnd` | `I(nElems <= pipeMask)` (fastqueue.hpp:42) | the whole pool of buckets enters a buffer one smaller |
| `Coherence_prefetch.cfg`, `MCCoherence` | `topCoherentNode` is the "top cache" (memrequest.hpp:51) | a prefetch of the shared cache displaces a line without telling the caches above, and a second one gets it exclusively |
| `CacheArray_skew.cfg`, `MCCacheArray` | "idx3 is JUST used for indexing the table" (cachecore.hpp:1590) | two addresses of one line look in different places of the skewed array: a second copy comes in |
| `Prefetch_degree.cfg`, `MCPrefetcher` | "Offset 0" (Prefetcher.cpp:199) | every chain is cut after one prefetch |

## 4. Proofs

Each proof module EXTENDS the module it is about. What it proves holds for every
value of the constants that satisfies the module's ASSUME (which TLC evaluates
on the runs' instances); the assumptions only exclude what the code excludes
(sizes of at least one, the least size `TQueue` accepts, an `int` no wider than an
address) and say that the sets of lines, callbacks and requests are finite. Every inductive invariant was checked
by TLC on the instance of its run before it was proved.

Layout: lemmas about the operators first, then what each action does, then one
step lemma per part of the invariant with a case per action, and the temporal
theorems that combine them.

### StoreBufferProofs

* `TypeCorrect`: the counts of answers stay natural numbers and every path builds
  a well-formed line.
* `StallCorrect`: `Spec => []OnlyPrefetchesStall`. The invariant itself is
  not inductive: making room drops a prefetch line whose answer is in flight, so
  one has to know that a line with the prefetch mark also carries the transient
  mark, and that a line without it has a write in flight (`StallInv`). A dropped
prefetch stays in `dropped` until its line is prefetched again, which only an
erased line can be.
* `CallbackCorrect`: without the prefetcher there are no transient lines, so
  every waiting line has its write in flight.
* `CapacityCorrect`: `Spec => []CapacityBound`, at most `scb_size + 1` store
  lines. The argument counts: `add_st` inserts only after `can_accept_st`, so
  fewer than `scb_size` lines are not clean; if the map is larger than `scb_size`
  room is made by dropping the clean ones; if not, one line is added to at most
  `scb_size`. Everything else keeps or shrinks the set of store lines.
* `ForwardCorrect`: `Spec => []StoresStayForwardable`, assuming `init` left
  `prefetch_line` false. The invariant needed is that a store-only line with
  unacknowledged words is in the map, waiting, not a prefetch, and has a write in
  flight (`ForwardInv`); it is what keeps `remove_clean`, the flush and the
  promotion of other lines away from it.

### LoadStoreProofs

For every program of loads and stores, every number of entries, both ways of
allocating them, every `scb_size` and every initial `present_in_scb`:

* `Invariant`: `Spec => []IInv`. Its heart is `LifeInv`, a description of an
  instruction by the three frontiers of the ROB: a store is performed exactly
  when it has passed the PNR and destroyed exactly when it has retired; a load's
  request goes through executing, dispatched and answered; of a load's two
  answers (the data, and the write sent at the PNR) each leaves its two marks
  unless it is the last one of a retired load, which it destroys
  (`AnswersLife`). The four `load_destroyed_*` flags are therefore functions of
  *executed* and *written*, which is why the answers may come in either order.
* `TypeCorrect`, `DestroyedUnused`, `PerformedSafely`, `EntriesBalance` follow
  from it. Conservation counts sets of instructions: every action moves one
  instruction into or out of each set, and the counters move by one with it.

If fresh slots have `present_in_scb` clear (`UninitPresent = {FALSE}`; with a
set mark a load that was never buffered would take a line away from the store
buffer, and the statement is false):

* `PresentCorrect`: only a load whose data came before its PNR carries the mark.
* `SlotsClean`: `Spec => []SlotReturnsClean`.
* `Refinement`: `Spec => ImplementsStoreBuffer`. Step by step: each action maps
  to one action of `StoreBuffer` or to a stutter. The bound `MaxCallbacks` of
  the abstract buffer is met because every write in flight was sent for another
  instruction (`WritesBounded`).
* `ComposedBuffer`: what is proved of the buffer alone (`CapacityBound`,
  `WaitingHasCallback`) holds inside the units: `StoreBufferProofs` is
  instantiated with the mapping and its theorems are applied to the refinement.

### TransientFlushProofs

For every number of instructions and registers and all pool sizes:

* `Invariant`: `Spec => []IInv`, made of the order of the two buffers (`RobInv`:
  rROB before ROB, both increasing, together the instructions alive), the order
  of an instruction's flags (`LifeInv`), that nothing points at an instruction
  that has executed (`PointersInv`), `NoCrossPollution` and `PoolsConserved`.
  `PointersInv` is what the flush relies on: it destroys executed transients
  only, so whatever it destroys nobody waits for.
* `TypeCorrect`, `RenamesApart`, `DestroyedUnused`, `PoolsBalance`,
  `BuffersInOrder` state the runs' properties. For the last one the lemmas about
  `Without` show that taking instructions out of an increasing sequence leaves an
  increasing sequence of the others.

`BranchesConserved` is not among them: the code does not have it (`tf_branch`).

### EventSchedulerProofs

For every set of callbacks and priorities, every number of buckets above 7, all
delays and ports:

* `QueueInOrder`: `Spec => []QueueInv`. A callback sits in the bucket of its time
  modulo `AccessSize` and is due less than one turn of the buckets after
  `minTime`, so a bucket never mixes two times; the heap is disjoint from the
  buckets and holds nothing before `minTooFar`; `nNodes` counts the buckets;
  `minTime` is at most one behind the clock, and only inside `nextJob`.
* `OnTime`: `Spec => Events!Spec`, the refinement: a call in the buckets is a
  call of the abstract scheduler in exactly its clock, and a clock that advances
  leaves none behind. `adjustTooFar` is a stutter.
* `PriorityOrder`, `ClockExhausted`: the action properties `StrictPriority` and
  `FixedPoint`, from the same invariant: when `nextJob` finds nothing, neither
  buckets nor heap hold anything due.
* `PortsNeverOvergrant`: `Spec => []GrantsBounded`; a port's own count is right if
  it is of the current clock, and otherwise it has granted nothing yet
  (`PortsCounted`).

### PrefetcherProofs

* `ChainCorrect`: `Spec => []ChainOwned`; while a chain is pending its fields are
  those of the load that armed it last (`ChainInv`).
* `StrideCorrect`: `Spec => []StrideLearned` for `bimodal_width` 1 to 8. The
  argument is a ranking function: `Left(e, d)` is the number of updates with delta
  `d` after which `d` is the entry's trusted delta, from the counters of both
  deltas; every update with `d` lowers it, and the number of equal deltas seen so
  far plus what is left never exceeds `2 * max_conf` (`LearningInv`). It needs that
  the challenger's confidence never exceeds the first delta's. Strides are counted
  as distances of addresses, deltas are what an `int` keeps of them: equal strides
  have equal deltas, and a delta gives the stride back exactly when it fits.

### CacheArrayProofs

For every number of sets and ways, every set of addresses and PCs, all eight
policies and any order of lookups, fills, prefetches and invalidations:

* `Findable`: `Spec => []LinesFindable`. The invariant (`Sound`) is that each line
  is in the set its tag indexes and in one way of it only (`Placed`), or, in the
  skewed array, in one of the three positions of one of its addresses, and nowhere
  else if its addresses have the same positions (`Skewed`). That a fill does not duplicate a line is the point of the proof: the
  victim is chosen after a scan for the tag, and every policy either keeps the way
  the scan found or takes one when no way has the tag.
* `Recency`: `Spec => []LruRecency`. The order by last use (`Ordered`) is not
  inductive alone: a prefetched line takes the last way with stamp 0, so all ways
  before the last must hold lines that were used, and this is kept because only a
  demand moves a line off the last way, to the front.

Every operation is reduced to two effects on a set, `InPlace` (way v got a tag)
and `Fronted` (and moved to the front, the ways before it moving back by one);
`FrontedFrom` and `InPlaceFrom` give the order-preserving map from the new ways to
the old that uniqueness and recency rest on.

### FetchEngineProofs and FrontEndProofs

For every length of the program, fetch and issue width, pipeline length, number of
requests, queue size, stack size and delays, with and without transients and
draining, and for any answers of the direction predictors:

* `FrontEndInvariant`: `Spec => []FrontEndInv`. Its parts: `QueueInv` (the free space
  of the instruction queue is what its instructions leave), `PipeInv` (each
  identifier below `max` is that of one request, one bucket out of order or one
  flushed bucket: `Owned`), `Settled` (the identifier whose turn it is is neither
  received nor flushed), `PoolInv` (the counts of buckets and requests), `PlacesInv`
  (`Kept`: the instructions waiting, in the order of their places, are the real ones
  from `issued + 1` to `n` followed by transient ones only), `EngineInv` (what blocks
  fetch, and `StackInv`), `BlocksAfter` (an executed branch that unblocks fetch has not
  retired) and `CountsInv` (what the task handler may conclude when it powers the
  core down).
* `InstructionsCorrect`: `Spec => []InstructionsKept`. An instruction waiting is a
  tuple of its queue, bucket, position and number, and every operation on the
  queues is shown to have an order-preserving map from the places after it to the
  places before it that misses transient instructions only (`Follows`). Maps
  compose, so a flush in three queues, or a bucket that arrives and lets the next
  ones in, is the composition of its parts; `FollowsKeeps` then gives `Kept`.
* `BucketsCorrect`: `Spec => []BucketsConserved`. The delicate step is the flush of the
  received buckets, which removes a set of them at once and shortens the rest:
  shortening is injective because identifiers are unique.
* `NothingStrands`: `Spec => []NothingStranded`. By `Owned` the next identifier belongs
  to somebody and by `Settled` it is not out of order or flushed, so its request is
  in flight. `Settled` is what `clearItems` establishes: its loop has enough turns
  because each one that is not the last serves an identifier (`p.max` falls).
* `UnblockCorrect`: `Spec => []OneUnblockPending`. Within a block the invariant of the
  loop (`TurnInv`) says that a slow fix stops the block and withdraws the delay of
  the fast ones before it, so that at its end at most one unblocking is scheduled.
* `ReturnsCorrect`: `Spec => []ReturnsPredicted`. `Held` adds that a call that is not
  lost is at most `RasSize` deep, without which a push could overwrite it
  unnoticed; the slots are taken modulo the size, and `Below` turns the modulus
  into the wrap of the code.

The loops of `clearItems`, `realfetch` and `issue` are recursive functions of the
number of turns. That such a function exists, and that it keeps what its body keeps,
is proved by induction on the turns with `SetInduction`: for a set of naturals,
rather than an operator, from the well-foundedness of `<`.

### CHOOSE

The SMT backend of this tlapm encodes `CHOOSE` so that two equal-looking choices
are equal. Nothing here relies on that: what an operator or a recursive function
chooses exists and is the only candidate (`Min`, `Max`, `Without`, `LowestOf`,
`HighestOf`; a bucket by its identifier, because identifiers are unique; the turns of
a loop), and the proofs use of it only that it is one.

### Only model-checked

* Liveness: `EverythingHappens`, `EveryDinstDestroyed`, `EveryInstDestroyed` and
  the draining of the store buffer; `ENABLED` is out of the prover's reach.
* `Coherence` and `BranchPredictors`. Their handlers are folds over sequences of
  messages, requests and tables, whose operator parameter the installed provers
  cannot instantiate, or use `Bitwise`. What made the front end provable, loops as
  recursive functions and induction for a set, would apply to `Coherence`.
* The xor that indexes the prefetcher's table and the tag arrays' sets is a
  recursive function about which nothing is proved; the theorems hold for any index
  it yields (for the arrays, any index that is one of the sets).

## 5. Not modelled

Statistics, logging, configuration, the emulator, the network code (not part of
the simulator binary), crossbars, bus and memory controller, the in-order, SM
and accelerator cores, store sets, cluster schedulers, replay of loads
(`memory_replay`, off by default), the LDBP predictor and the statistical
corrector of IMLI, the indirect address predictor (its callback ends in an
assertion that is always false) and the VTAGE one (it decides on fields nothing
has initialised). Data values are nowhere modelled: the simulator takes them
from the emulator and only times them.

## 6. Plan

1. Proofs: `EntriesReturned` and `NobodyStranded` of the caches, with their folds
   written as recursive functions.
2. Out-of-order core: serialization, replay (`memory_replay`), store sets, the
   other clusters; `InOrderProcessor`.
3. Containers: `FastQueue` implements a bounded sequence, `pool` never hands an
   object out twice.
4. Memory controller, bus and crossbars below `Coherence`.
