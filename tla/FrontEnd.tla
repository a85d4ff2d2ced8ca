------------------------------ MODULE FrontEnd ------------------------------
(***************************************************************************)
(* The front end of one core, from the emulator's trace to the reorder     *)
(* buffer: GProcessor::fetch, decode_stage and issue over the pipeline of  *)
(* buckets and the fetch engine, driven by TaskHandler::boot until the     *)
(* trace ends and the core has drained.                                    *)
(*                                                                         *)
(* The cores run once per clock (AdvanceClock); between two clocks the     *)
(* instruction cache answers, and callbacks and executed branches unblock  *)
(* fetch.  The reorder buffer is only how many real instructions were      *)
(* issued and retired; what it does with transient ones is TransientFlush. *)
(***************************************************************************)
EXTENDS Pipeline, FetchEngine

CONSTANTS MaxInst,          \* the instructions of the trace
          InstQueueSize, IssueWidth,
          Levels,           \* branch predictors configured, 1 to 3
          Kinds             \* the kinds of instructions the trace has

ASSUME FrontEndAssumption == /\ MaxInst \in Nat /\ InstQueueSize \in Nat
                             /\ InstQueueSize >= FetchWidth /\ IssueWidth \in Nat \ {0}
                             /\ Levels \in 1..3

VARIABLES
  do_random_transients, drainOnMiss,   \* configuration
  pipe, fe,
  instQueue, spaceInInstQueue,
  n,          \* instructions fetched
  issued, retired,
  busy,
  task        \* TaskHandler's: "active", "deactivating" or "down"

vars == <<do_random_transients, drainOnMiss, pipe, fe, instQueue, spaceInInstQueue,
          n, issued, retired, busy, task>>

-----------------------------------------------------------------------------
(* The instructions of a program, with the predictors' answers.            *)

Op == [kind |-> "op", taken |-> FALSE, delay |-> 0, size |-> 0]
Insts == {i \in
  {Op} \cup [kind : {"branch"}, taken : {FALSE}, delay : Delays(Levels, FALSE), size : {0}]
       \cup [kind : {"branch", "call"}, taken : {TRUE}, delay : Delays(Levels, TRUE), size : {0}]
       \cup [kind : {"ret"}, taken : {TRUE}, delay : {0}, size : {2, 4}]
  : i.kind \in Kinds}

\* Alignment (fetchLost), the line's end (fetch_one_line) and the trace's shorten a block.
Blocks == UNION {[1..len -> Insts] : len \in 0..FetchWidth}
BlocksOf(left) == {b \in Blocks : Len(b) <= left /\ (b = << >> => left = 0)}

-----------------------------------------------------------------------------
(* The stages; c is the record of the variables they share.                *)

\* The positions of the instructions in a queue of buckets.
Slots(q) == UNION {{j} \X DOMAIN q[j] : j \in DOMAIN q}

\* Mutant: the space of the instructions it destroys is not given back.
flush_transient_inst_from_inst_queue_lost(c) ==
  LET k == SelectLastInSeq(c.instQueue, Real)
  IN [c EXCEPT !.instQueue = [j \in 1..k |-> IF j = k THEN transientsPopped(c.instQueue[j])
                                             ELSE c.instQueue[j]],
               !.pipe.pool = @ + Len(c.instQueue) - k]

\* From the back of the queue to the first instruction that is not transient; each
\* one that is destroyed leaves its space.
flush_transient_inst_from_inst_queue(c) ==
  LET k == SelectLastInSeq(c.instQueue, Real)
      q == [j \in 1..k |-> IF j = k THEN transientsPopped(c.instQueue[j]) ELSE c.instQueue[j]]
  IN [c EXCEPT !.instQueue = q,
               !.space = @ + Cardinality(Slots(c.instQueue) \ Slots(q)),
               !.pipe.pool = @ + Len(c.instQueue) - k]

flush_transient_inst_on_fetch_ready(c) ==
  LET d == flush_transient_inst_from_inst_queue(c)
  IN [d EXCEPT !.pipe = flush_transient_inst_from_received_bucket(
                          flush_transient_inst_from_buffer(@))]

\* Two transient instructions, in a bucket that is ready at once.
add_inst_transient_on_branch_miss(c) ==
  [c EXCEPT !.pipe = readyItem(newItem(@), c.pipe.max, <<TRANSIENT, TRANSIENT>>)]

\* The block r the engine fetched, on its way from the cache; more: the loop turned
\* once more behind it and, at the end of the trace, paused the core (simu_pause).
sent(c, r, more) ==
  [c EXCEPT !.fe = r.f, !.n = r.n, !.busy = @ \/ r.n > c.n,
            !.pipe = requested(@, [k \in 1..(r.n - c.n) |-> c.n + k]),
            !.task = IF c.n = MaxInst \/ (more /\ r.n = MaxInst) THEN "deactivating" ELSE @]

\* more: alignment and the end of the line leave room in the block (n2Fetch > 0).
fetching(c, block, more) ==
  CASE c.space < FetchWidth \/ (c.fe.missInst /\ ~do_random_transients)
         \/ ~canNewItem(c.pipe) -> c
    [] OTHER -> IF c.fe.missInst THEN add_inst_transient_on_branch_miss(c)
                ELSE LET r == realfetch(c.fe, c.n, block)
                     IN sent(c, r, more /\ ~r.stop /\ Len(block) < FetchWidth)

fetch(c, block, more) ==
  fetching(IF ~c.fe.missInst /\ do_random_transients THEN flush_transient_inst_on_fetch_ready(c)
           ELSE c,
           block, more)

decode_stage(c) ==
  IF c.space >= FetchWidth /\ canNextItem(c.pipe)
  THEN [c EXCEPT !.pipe = nextItem(@),
                 !.instQueue = Append(@, Head(c.pipe.buffer).insts),
                 !.space = @ - Len(Head(c.pipe.buffer).insts)]
  ELSE c

\* One instruction: a bucket it leaves empty is done.
issueOne(c) ==
  IF c.instQueue = << >> THEN c
  ELSE LET bucket == Head(c.instQueue)
           left   == Tail(bucket)
       IN [c EXCEPT !.issued = @ + (IF Head(bucket) = TRANSIENT THEN 0 ELSE 1),
                    !.space = @ + 1,
                    !.instQueue = IF left = << >> THEN Tail(@) ELSE [@ EXCEPT ![1] = left],
                    !.pipe.pool = @ + (IF left = << >> THEN 1 ELSE 0)]

\* add_inst stalls after width instructions.
issue(c, width) ==
  LET turns[k \in 0..width] == IF k = 0 THEN c ELSE issueOne(turns[k - 1])
  IN turns[width]

\* Everything before a branch that is still to be executed may retire.
retire(c, all) ==
  LET stop == {u.n : u \in {v \in c.fe.pending : v.by = "execute"}}
      upto == CHOOSE k \in c.retired..c.issued :
                /\ \A s \in stop : k < s
                /\ k = c.issued \/ k + 1 \in stop
  IN [c EXCEPT !.retired = IF all THEN upto ELSE @]

drained(c) == /\ c.instQueue = << >> /\ c.issued = c.retired
              /\ ~hasOutstandingItems(c.pipe)

\* advance_clock_drain; FALSE from it powers the core down.
advance_clock_drain(c, width, all) ==
  LET d == decode_stage(c)
      e == retire(issue(d, width), all)
  IN CASE ~d.busy -> [d EXCEPT !.task = IF task = "deactivating" THEN "down" ELSE @]
       [] d.busy /\ drained(d) -> [d EXCEPT !.task = IF task = "deactivating" THEN "down" ELSE @]
       [] OTHER -> e

-----------------------------------------------------------------------------
Init ==
  /\ do_random_transients \in BOOLEAN /\ drainOnMiss \in BOOLEAN
  /\ pipe = Pipeline0 /\ fe = Engine0
  /\ instQueue = << >> /\ spaceInInstQueue = InstQueueSize
  /\ n = 0 /\ issued = 0 /\ retired = 0
  /\ busy = FALSE /\ task = "active"

Becomes(c) ==
  /\ pipe' = older(c.pipe)
  /\ fe' = ticked(c.fe)
  /\ instQueue' = c.instQueue /\ spaceInInstQueue' = c.space
  /\ n' = c.n /\ issued' = c.issued /\ retired' = c.retired
  /\ busy' = c.busy /\ task' = c.task
  /\ UNCHANGED <<do_random_transients, drainOnMiss>>

\* What fetch may bring: a program's next instruction is always one it can run.
Fetches(c) ==
  CASE c.task # "active" -> {c}
    [] c.task = "active" /\ c.fe.missInst -> {fetch(c, << >>, FALSE)}
    [] OTHER -> {fetch(c, b, more) :
                   b \in {x \in BlocksOf(MaxInst - c.n) :
                            x # << >> /\ x[1].kind = "ret" => c.fe.calls # << >>},
                   more \in BOOLEAN}

Due(u) == u.by = "delay" /\ u.timer = 0

\* The core that pauses in this clock still drains in it; the next clocks only drain.
AdvanceClock ==
  /\ task # "down" /\ ~\E u \in fe.pending : Due(u)
  /\ \E c \in {[pipe |-> pipe, fe |-> fe, instQueue |-> instQueue, space |-> spaceInInstQueue,
                n |-> n, issued |-> issued, retired |-> retired, busy |-> busy, task |-> task]} :
       \E d \in Fetches(c) : \E width \in 0..IssueWidth, all \in BOOLEAN :
         \E e \in {advance_clock_drain(d, width, all)} : Becomes(e)

MarkFetched == /\ \E b \in pipe.inflight : pipe' = markFetched(pipe, b)
               /\ UNCHANGED <<do_random_transients, drainOnMiss, fe, instQueue,
                              spaceInInstQueue, n, issued, retired, busy, task>>

Unblock(u) == /\ fe' = clearMissInst(fe, u)
              /\ UNCHANGED <<do_random_transients, drainOnMiss, pipe, instQueue,
                             spaceInInstQueue, n, issued, retired, busy, task>>

UnBlockFetchBPredDelay == \E u \in fe.pending : Due(u) /\ Unblock(u)

\* FUBranch: when executed or, to drain on a miss, at the head of the buffer.
UnBlockFetch == \E u \in fe.pending : /\ u.by = "execute" /\ u.n <= issued
                                      /\ drainOnMiss => retired = u.n - 1
                                      /\ Unblock(u)

Next == AdvanceClock \/ MarkFetched \/ UnBlockFetchBPredDelay \/ UnBlockFetch

Spec == Init /\ [][Next]_vars

-----------------------------------------------------------------------------
\* The buckets waiting, oldest first: to issue, to decode, and by their identifiers.
Waiting ==
  LET asked == {[id |-> b.id, insts |-> b.insts] : b \in pipe.received \cup pipe.inflight}
  IN <<instQueue,
       [k \in DOMAIN pipe.buffer |-> pipe.buffer[k].insts],
       [i \in {b.id : b \in asked} |-> (CHOOSE b \in asked : b.id = i).insts]>>

\* Where their instructions are: the queue, the bucket in it, the place in the bucket.
Places(w) == UNION {{<<s, x[1], x[2]>> : x \in Slots(w[s])} : s \in 1..3}
Before(x, y) == \/ x[1] < y[1]
                \/ x[1] = y[1] /\ x[2] < y[2]
                \/ x[1] = y[1] /\ x[2] = y[2] /\ x[3] < y[3]

(* However the cache reorders the buckets and whatever the flushes of the  *)
(* wrong path take away, the real instructions reach the core all and in   *)
(* the order of the program, none behind one of a wrong path, and the      *)
(* queue's free space is what is not used (readyItem, clearItems).         *)
InstructionsKept ==
  /\ \E w \in {Waiting} :
       LET At(x) == w[x[1]][x[2]][x[3]]
       IN /\ {At(x) : x \in Places(w)} \ {TRANSIENT} = (issued + 1)..n
          /\ \A x, y \in Places(w) : Before(x, y) /\ At(y) # TRANSIENT =>
                                        At(x) # TRANSIENT /\ At(x) < At(y)
  /\ spaceInInstQueue + Cardinality(Slots(instQueue)) = InstQueueSize

(* Every bucket is in the pool or in one queue, every request for one is   *)
(* returned.                                                               *)
BucketsConserved ==
  /\ pipe.pool + Cardinality(pipe.inflight) + Cardinality(pipe.received)
       + Len(pipe.buffer) + Len(instQueue) = bucketPoolMaxSize
  /\ pipe.nIRequests + Cardinality(pipe.inflight) = MaxIRequests

(* A bucket pushed in the buffer finds room in it (FastQueue::push,        *)
(* "I(nElems <= pipeMask)").                                               *)
BufferFits == Len(pipe.buffer) <= bufferCapacity

(* A blocked fetch has exactly one thing that will unblock it, for the     *)
(* instruction that blocked it (clearMissInst: "I(dinst == missDinst)").   *)
OneUnblockPending ==
  IF fe.missInst THEN Cardinality(fe.pending) = 1 /\ \A u \in fe.pending : u.n = fe.missDinst
  ELSE fe.pending = {}

(* The return address stack holds the calls the program has not returned   *)
(* from, except those it was nested too deep for: their returns hit.       *)
ReturnsPredicted ==
  \A k \in DOMAIN fe.calls :
    ~fe.calls[k].lost /\ RasSize > 0 =>
      fe.ras.stack[(fe.ras.index - (Len(fe.calls) - k + 1)) % RasSize] = fe.calls[k].pc

(* The bucket all the others wait for is always on its way: the flushes of *)
(* the wrong path free buckets out of turn, and a turn nobody takes would  *)
(* stop the core for ever.  A core that powers down has retired all.       *)
NothingStranded ==
  /\ pipe.max > 0 => \E b \in pipe.inflight : b.id = 0
  /\ task = "down" => retired = MaxInst
=============================================================================
