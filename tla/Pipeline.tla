------------------------------ MODULE Pipeline ------------------------------
(***************************************************************************)
(* simu/pipeline.cpp: the buckets of instructions between the fetch engine *)
(* and decode.  The instruction cache answers out of order; the buckets    *)
(* leave in the order of their pipelineId.  A bucket is the sequence of    *)
(* its instructions: the number of a real one, TRANSIENT for one of the    *)
(* wrong path (what add_inst_transient_on_branch_miss injects).            *)
(*                                                                         *)
(* p.pool        how many buckets bucketPool holds                         *)
(* p.nIRequests  how many buckets may still be asked for                   *)
(* p.max         maxItemCntr                                               *)
(* p.inflight    the buckets whose markFetched is pending: id, insts       *)
(* p.received    the buckets out of order: id, insts, age                  *)
(* p.buffer      the buckets in order, oldest first: insts, age            *)
(* p.flushed     flushedPipelineIDs                                        *)
(*                                                                         *)
(* The identifiers are relative to minItemCntr, the only thing they are    *)
(* compared with.  The age is globalClock - clock, up to PipeLength.       *)
(***************************************************************************)
EXTENDS Naturals, Integers, FiniteSets, SequencesExt

CONSTANTS PipeLength,     \* decode_delay + rename_delay
          MaxIRequests,   \* ftq_size
          FetchWidth

ASSUME PipelineAssumption == PipeLength \in Nat \ {0, 1} /\ MaxIRequests \in Nat \ {0}
                             /\ FetchWidth \in Nat \ {0}

TRANSIENT == 0

bucketPoolMaxSize == PipeLength + 2 + MaxIRequests

\* FastQueue rounds buffer(s + 1 + maxReqs) up to a power of two.
bufferCapacity == LET size == PipeLength + 1 + MaxIRequests
                  IN 2^(CHOOSE k \in 0..size : 2^k >= size /\ \A j \in 0..(k - 1) : 2^j < size)

Pipeline0 == [pool |-> bucketPoolMaxSize, nIRequests |-> MaxIRequests, max |-> 0,
              inflight |-> {}, received |-> {}, buffer |-> << >>, flushed |-> {}]

hasOutstandingItems(p) == p.buffer # << >> \/ p.received # {} \/ p.nIRequests < MaxIRequests

-----------------------------------------------------------------------------
Real(insts) == \E k \in DOMAIN insts : insts[k] # TRANSIENT

\* The trailing transient instructions are popped and destroyed.
transientsPopped(insts) ==
  SubSeq(insts, 1, SelectLastInSeq(insts, LAMBDA i : i # TRANSIENT))

shortened(b) == [b EXCEPT !.insts = transientsPopped(@)]

doneItem(p) == [p EXCEPT !.pool = @ + 1]

\* newItem, where it does not return 0; the bucket's id is p.max.
canNewItem(p) == p.nIRequests > 0 /\ p.pool > 0
newItem(p) == [p EXCEPT !.nIRequests = @ - 1, !.pool = @ - 1, !.max = @ + 1]

\* The instruction cache is asked for the instructions of a new bucket.
requested(p, insts) ==
  LET q == newItem(p)
  IN [q EXCEPT !.inflight = @ \cup {[id |-> p.max, insts |-> insts]}]

\* Mutant: the buckets it empties do not go back to the pool.
flush_transient_inst_from_buffer_leak(p) ==
  LET k == SelectLastInSeq(p.buffer, LAMBDA b : Real(b.insts))
  IN [p EXCEPT !.buffer = SubSeq(@, 1, k)]

\* From the back of the buffer to the first instruction that is not transient.
flush_transient_inst_from_buffer(p) ==
  LET k == SelectLastInSeq(p.buffer, LAMBDA b : Real(b.insts))
  IN [p EXCEPT !.pool = @ + Len(p.buffer) - k,
               !.buffer = [j \in 1..k |-> IF j = k THEN shortened(p.buffer[j]) ELSE p.buffer[j]]]

\* Mutant: the identifiers of the buckets it frees are not recorded.
flush_transient_inst_from_received_bucket_forgets(p) ==
  [p EXCEPT !.pool = @ + Cardinality({b \in p.received : ~Real(b.insts)}),
            !.received = {shortened(b) : b \in {c \in @ : Real(c.insts)}}]

\* Buckets left empty are freed although it is not their turn: clearItems skips them.
flush_transient_inst_from_received_bucket(p) ==
  LET empty == {b \in p.received : ~Real(b.insts)}
  IN [p EXCEPT !.pool = @ + Cardinality(empty),
               !.flushed = @ \cup {b.id : b \in empty},
               !.received = {shortened(b) : b \in p.received \ empty}]

-----------------------------------------------------------------------------
\* minItemCntr++
sooner(b) == [b EXCEPT !.id = @ - 1]
served(p) == [p EXCEPT !.max = @ - 1,
                       !.inflight = {sooner(b) : b \in p.inflight},
                       !.received = {sooner(b) : b \in p.received},
                       !.flushed = {i - 1 : i \in p.flushed}]

entered(p, b) == IF b.insts = << >> THEN doneItem(p)
                 ELSE [p EXCEPT !.buffer = Append(@, [insts |-> b.insts, age |-> b.age])]

\* One turn of clearItems' loop; nothing once it would break.
cleared(p) ==
  LET next == {b \in p.received : b.id = 0}
      b    == CHOOSE c \in next : TRUE
      q    == entered(served([p EXCEPT !.received = @ \ {b}]), b)
  IN CASE 0 \in p.flushed -> served([p EXCEPT !.flushed = @ \ {0}])
       [] 0 \notin p.flushed /\ next = {} -> p
       [] OTHER -> IF b.insts = << >> THEN q ELSE flush_transient_inst_from_buffer(q)

\* Every turn but the last serves one of the p.max identifiers.
clearItems(p) ==
  LET turns[k \in 0..p.max] == IF k = 0 THEN p ELSE cleared(turns[k - 1])
  IN turns[p.max]

readyItem(p0, id, insts) ==
  LET p == [p0 EXCEPT !.nIRequests = @ + 1]
      b == [id |-> id, insts |-> insts, age |-> 0]
  IN IF id # 0 THEN [p EXCEPT !.received = @ \cup {b}]
     ELSE clearItems(entered(served(p), b))

markFetched(p, b) == readyItem([p EXCEPT !.inflight = @ \ {b}], b.id, b.insts)

\* nextItem, where it does not return nullptr; the bucket is Head(p.buffer).
canNextItem(p) == p.buffer # << >> /\ Head(p.buffer).age >= PipeLength
nextItem(p) == [p EXCEPT !.buffer = Tail(@)]

\* The clock advances.
aged(b) == [b EXCEPT !.age = IF @ < PipeLength THEN @ + 1 ELSE @]
older(p) == [p EXCEPT !.received = {aged(b) : b \in p.received},
                      !.buffer = [k \in DOMAIN p.buffer |-> aged(p.buffer[k])]]
=============================================================================
