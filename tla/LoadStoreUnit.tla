--------------------------- MODULE LoadStoreUnit ---------------------------
(***************************************************************************)
(* The life of the loads and stores of one out-of-order core: FULoad and   *)
(* FUStore (simu/resource.cpp), the load/store queue LSQFull (simu/LSQ.cpp),*)
(* the in-order ends of the reorder buffer (OoOProcessor::add_inst and     *)
(* ::retire in simu/oooprocessor.cpp) and the flags of Dinst that decide   *)
(* who destroys a load.  It is composed with the store buffer: every call  *)
(* on it is an operator of StoreBuffer.                                    *)
(*                                                                         *)
(* Every Dinst is born speculative (Dinst::setup) and only FULoad::        *)
(* preretire makes one safe, so a load is speculative when it executes:    *)
(* the branches of FULoad for loads that are safe from the start are dead  *)
(* and are left out.  ROB and rROB are the instructions after pnr and      *)
(* after committed: both queues are filled and emptied in program order.   *)
(* The prefetcher and the replay of loads are off (memory_replay = false). *)
(***************************************************************************)
EXTENDS Integers, FiniteSets

CONSTANTS
  N,             \* length of the program
  Program,       \* [1..N -> the loads and stores in program order]
  Lines, Words,  \* addresses, as in StoreBuffer
  NoLine,
  scb_size,
  ldq_size, stq_size, lsq_size,
  MaxROBSize,
  ldq_late_alloc,\* soc.core.ldq_late_alloc
  UninitPresent  \* values present_in_scb can hold in a slot of the pool that
                 \* is used for the first time

Insts == 1..N

ASSUME LoadStoreAssumption ==
  /\ N \in Nat \ {0}
  /\ IsFiniteSet(Lines) /\ NoLine \notin Lines
  /\ Program \in [Insts -> [op : {"LD", "ST"}, line : Lines, word : Words]]
  /\ {scb_size, ldq_size, stq_size, lsq_size} \subseteq Nat \ {0}
  /\ MaxROBSize \in Nat /\ MaxROBSize > 1
  /\ ldq_late_alloc \in BOOLEAN
  /\ UninitPresent \in (SUBSET BOOLEAN) \ {{}}

VARIABLES
  dinst,       \* [Insts -> Dinst], the flags of the dynamic instructions
  callbacks,   \* [Insts -> the callbacks scheduled for the instruction]
  added,       \* instructions OoOProcessor::add_inst has taken
  pnr,         \* instructions past preretire (moved from ROB to rROB)
  committed,   \* instructions retired (popped from rROB)
  lsq,         \* LSQFull::instMap
  free,        \* freeEntries of the load unit, the store unit and the LSQ
  unresolved,  \* LSQ::unresolved
  scb, writes, unperformed   \* the store buffer

coreVars == <<dinst, callbacks, added, pnr, committed, lsq, free, unresolved>>
sbVars   == <<scb, writes, unperformed>>
vars     == <<coreVars, sbVars>>

Kinds == {"cacheDispatched", "performed_spec", "performed_safe_write"}

Dinst ==
  [executing : BOOLEAN, dispatched : BOOLEAN, executed : BOOLEAN,
   performed : BOOLEAN, retired : BOOLEAN, destroyed : 0..2,
   speculative : BOOLEAN, loadForwarded : BOOLEAN, present_in_scb : BOOLEAN,
   retired_spec : BOOLEAN, retired_safe_write : BOOLEAN,
   performed_spec : BOOLEAN, performed_safe_write : BOOLEAN]

\* Dinst::setup.  It clears present_in_rob twice and present_in_scb never: the
\* flag keeps what the slot of the pool held.
setup(present) ==
  [executing |-> FALSE, dispatched |-> FALSE, executed |-> FALSE,
   performed |-> FALSE, retired |-> FALSE, destroyed |-> 0,
   speculative |-> TRUE, loadForwarded |-> FALSE, present_in_scb |-> present,
   retired_spec |-> FALSE, retired_safe_write |-> FALSE,
   performed_spec |-> FALSE, performed_safe_write |-> FALSE]

IsLoad(i)  == Program[i].op = "LD"
IsStore(i) == Program[i].op = "ST"
LineOf(i)  == Program[i].line
WordOf(i)  == Program[i].word
SameWord(i, j) == LineOf(i) = LineOf(j) /\ WordOf(i) = WordOf(j)

Loads  == {i \in Insts : IsLoad(i)}
Stores == {i \in Insts : IsStore(i)}

\* The store buffer this unit calls; `loads' counts the loads it believes to
\* be in the buffer.
InBuffer(l) == {i \in Loads : LineOf(i) = l /\ dinst[i].present_in_scb}

SB == INSTANCE StoreBuffer WITH
        PrefetchLines <- {}, SpecLoadLines <- Lines, PrefetchHits <- FALSE,
        FlushTransients <- FALSE, UninitPrefetch <- {FALSE}, MaxCallbacks <- N + 1,
        prefetches <- [l \in Lines |-> 0], dropped <- {},
        loads <- [l \in Lines |-> Cardinality(InBuffer(l))]

TypeOK ==
  /\ dinst \in [Insts -> Dinst]
  /\ callbacks \in [Insts -> SUBSET Kinds]
  /\ added \in 0..N /\ pnr \in 0..added /\ committed \in 0..pnr
  /\ lsq \subseteq Insts
  /\ free \in [{"LD", "ST", "LSQ"} -> Int]
  /\ unresolved \in Int
  /\ scb \in [Lines -> SB!StoreBufferLine]
  /\ writes \in [Lines -> Nat]
  /\ unperformed \in [Lines -> SUBSET Words]

----------------------------------------------------------------------------
(* Rename *)

\* Cluster::canIssue, FULoad::canIssue and FUStore::canIssue
canIssue(i) == free[Program[i].op] > 0 /\ free["LSQ"] > 0

\* Mutant: the load's entry is taken at rename and again when it executes.
add_inst_eager ==
  LET i == added + 1 IN
  /\ i \in Insts
  /\ added - committed < MaxROBSize - 1
  /\ canIssue(i)
  /\ added' = i
  /\ lsq' = lsq \cup {i}
  /\ free' = [free EXCEPT !["LSQ"] = @ - 1, ![Program[i].op] = @ - 1]
  /\ unresolved' = unresolved + 1
  /\ UNCHANGED <<dinst, callbacks, pnr, committed, sbVars>>

\* OoOProcessor::add_inst: in program order, while ROB and rROB have room.
\* A load unit with late allocation takes its entry when the load executes.
add_inst ==
  LET i == added + 1 IN
  /\ i \in Insts
  /\ added - committed < MaxROBSize - 1
  /\ canIssue(i)
  /\ added' = i
  /\ lsq' = lsq \cup {i}
  /\ free' = [free EXCEPT
                !["LSQ"] = @ - 1,
                ![Program[i].op] = IF IsLoad(i) /\ ldq_late_alloc THEN @ ELSE @ - 1]
  /\ unresolved' = unresolved + 1
  /\ UNCHANGED <<dinst, callbacks, pnr, committed, sbVars>>

----------------------------------------------------------------------------
(* Execution, in any order *)

\* LSQFull::executing finds an older executed store to the word.
lsq_forwards(i) ==
  \E j \in lsq : j < i /\ IsStore(j) /\ SameWord(i, j) /\ dinst[j].executed

\* FULoad::do_load_execution: the load is forwarded by the LSQ or by the store
\* buffer, or its request leaves for the cache.
do_load_execution(i) ==
  LET fwd == lsq_forwards(i)
      hit == fwd \/ SB!is_ld_forward(scb, LineOf(i), WordOf(i)) IN
  /\ IsLoad(i) /\ i <= added /\ ~dinst[i].executing
  /\ free' = [free EXCEPT !["LD"] = IF ldq_late_alloc THEN @ - 1 ELSE @]
  /\ unresolved' = unresolved - 1
  /\ dinst' = [dinst EXCEPT ![i].executing = TRUE, ![i].loadForwarded = fwd,
                            ![i].dispatched = hit]
  /\ callbacks' = [callbacks EXCEPT ![i] =
                     {IF hit THEN "performed_spec" ELSE "cacheDispatched"}]
  /\ UNCHANGED <<added, pnr, committed, lsq, sbVars>>

\* FULoad::cacheDispatched: the speculative read is sent to the L1.
cacheDispatched(i) ==
  /\ "cacheDispatched" \in callbacks[i]
  /\ dinst' = [dinst EXCEPT ![i].dispatched = TRUE]
  /\ callbacks' = [callbacks EXCEPT ![i] =
                     (@ \ {"cacheDispatched"}) \cup {"performed_spec"}]
  /\ UNCHANGED <<added, pnr, committed, lsq, free, unresolved, sbVars>>

\* FUStore::executing; the store's port slot then calls executed.
executing_store(i) ==
  /\ IsStore(i) /\ i <= added /\ ~dinst[i].executing
  /\ unresolved' = unresolved - 1
  /\ dinst' = [dinst EXCEPT ![i].executing = TRUE]
  /\ UNCHANGED <<callbacks, added, pnr, committed, lsq, free, sbVars>>

\* FUStore::executed
executed_store(i) ==
  /\ IsStore(i) /\ dinst[i].executing /\ ~dinst[i].executed
  /\ dinst' = [dinst EXCEPT ![i].executed = TRUE]
  /\ UNCHANGED <<callbacks, added, pnr, committed, lsq, free, unresolved, sbVars>>

----------------------------------------------------------------------------
(* The answers to a load *)

\* The end of FULoad::performed_spec: the last of the two answers destroys a
\* load that has retired, an answer that comes before leaves its marks.
AfterSpec(d) ==
  [d EXCEPT !.destroyed = IF d.retired /\ d.performed_spec THEN @ + 1 ELSE @,
            !.performed_safe_write = @ \/ ~(d.retired /\ d.performed_spec),
            !.retired_spec = @ \/ ~d.retired]

\* Mutant: the safe write leaves no mark for the answer that is still to come.
AfterSafeWrite_unmarked(d) ==
  [d EXCEPT !.destroyed = IF d.retired /\ d.performed_safe_write THEN @ + 1 ELSE @,
            !.retired_safe_write = @ \/ ~d.retired]

\* The end of FULoad::performed_safe_write
AfterSafeWrite(d) ==
  [d EXCEPT !.destroyed = IF d.retired /\ d.performed_safe_write THEN @ + 1 ELSE @,
            !.performed_spec = @ \/ ~(d.retired /\ d.performed_safe_write),
            !.retired_safe_write = @ \/ ~d.retired]

\* Mutant: a speculative load is performed as soon as its data is there.
performed_spec_eager(i) ==
  /\ "performed_spec" \in callbacks[i]
  /\ callbacks' = [callbacks EXCEPT ![i] = @ \ {"performed_spec"}]
  /\ dinst' = [dinst EXCEPT ![i] =
                 AfterSpec([@ EXCEPT !.executed = TRUE, !.performed = TRUE])]
  /\ UNCHANGED <<added, pnr, committed, lsq, free, unresolved, sbVars>>

\* FULoad::performed_spec: a load that is still speculative enters the store
\* buffer if it can, one that is safe by now is performed.
performed_spec(i) ==
  /\ "performed_spec" \in callbacks[i]
  /\ callbacks' = [callbacks EXCEPT ![i] = @ \ {"performed_spec"}]
  /\ \/ /\ dinst[i].speculative
        /\ SB!can_accept_st(scb, LineOf(i))
        /\ SB!add_st(LineOf(i), WordOf(i))
        /\ dinst' = [dinst EXCEPT ![i] =
                       AfterSpec([@ EXCEPT !.executed = TRUE,
                                           !.present_in_scb = TRUE])]
     \/ /\ dinst[i].speculative
        /\ ~SB!can_accept_st(scb, LineOf(i))
        /\ dinst' = [dinst EXCEPT ![i] = AfterSpec([@ EXCEPT !.executed = TRUE])]
        /\ UNCHANGED <<scb, writes>>
     \/ /\ ~dinst[i].speculative
        /\ dinst' = [dinst EXCEPT ![i] =
                       AfterSpec([@ EXCEPT !.executed = TRUE, !.performed = TRUE])]
        /\ UNCHANGED <<scb, writes>>
  /\ UNCHANGED <<added, pnr, committed, lsq, free, unresolved, unperformed>>

\* FULoad::performed_safe_write: the write sent at preretire came back.
performed_safe_write(i) ==
  LET d == [dinst[i] EXCEPT !.performed = TRUE, !.present_in_scb = FALSE] IN
  /\ "performed_safe_write" \in callbacks[i]
  /\ callbacks' = [callbacks EXCEPT ![i] = @ \ {"performed_safe_write"}]
  /\ dinst' = [dinst EXCEPT ![i] = AfterSafeWrite(d)]
  /\ scb' = IF dinst[i].present_in_scb THEN SB!Erase(scb, {LineOf(i)}) ELSE scb
  /\ UNCHANGED <<added, pnr, committed, lsq, free, unresolved, writes, unperformed>>

----------------------------------------------------------------------------
(* OoOProcessor::retire, first loop: the head of ROB moves to rROB *)

\* FULoad::preretire: a load whose request was sent leaves the store buffer,
\* becomes safe and sends its write to the L1.
preretire_load ==
  LET i == pnr + 1 IN
  /\ i <= added /\ IsLoad(i)
  /\ dinst[i].dispatched
  /\ scb' = IF dinst[i].present_in_scb THEN SB!Erase(scb, {LineOf(i)}) ELSE scb
  /\ dinst' = [dinst EXCEPT ![i].present_in_scb = FALSE, ![i].speculative = FALSE]
  /\ callbacks' = [callbacks EXCEPT ![i] = @ \cup {"performed_safe_write"}]
  /\ free' = [free EXCEPT !["LD"] = @ + 1]
  /\ pnr' = i
  /\ UNCHANGED <<added, committed, lsq, unresolved, writes, unperformed>>

\* Mutant: the store enters a store buffer that cannot accept it.
preretire_store_forced ==
  LET i == pnr + 1 IN
  /\ i <= added /\ IsStore(i)
  /\ dinst[i].executed
  /\ SB!add_st(LineOf(i), WordOf(i))
  /\ unperformed' = [unperformed EXCEPT ![LineOf(i)] = @ \cup {WordOf(i)}]
  /\ dinst' = [dinst EXCEPT ![i].performed = TRUE]
  /\ free' = [free EXCEPT !["ST"] = @ + 1]
  /\ pnr' = i
  /\ UNCHANGED <<callbacks, added, committed, lsq, unresolved>>

\* FUStore::preretire: an executed store enters the store buffer and is
\* performed.  (It also waits while the L1 is busy, which only delays it.)
preretire_store ==
  LET i == pnr + 1 IN
  /\ i <= added /\ IsStore(i)
  /\ dinst[i].executed
  /\ SB!can_accept_st(scb, LineOf(i))
  /\ SB!add_st(LineOf(i), WordOf(i))
  /\ unperformed' = [unperformed EXCEPT ![LineOf(i)] = @ \cup {WordOf(i)}]
  /\ dinst' = [dinst EXCEPT ![i].performed = TRUE]
  /\ free' = [free EXCEPT !["ST"] = @ + 1]
  /\ pnr' = i
  /\ UNCHANGED <<callbacks, added, committed, lsq, unresolved>>

(* OoOProcessor::retire, second loop: the head of rROB commits *)

\* Mutant: one of the two answers is enough to destroy the load.
retire_either ==
  LET i == committed + 1
      d == dinst[i] IN
  /\ i <= pnr
  /\ IsLoad(i) => d.performed
  /\ free' = [free EXCEPT !["LSQ"] = @ + 1]
  /\ lsq' = lsq \ {i}
  /\ dinst' = [dinst EXCEPT
                 ![i].retired = TRUE,
                 ![i].destroyed =
                    IF \/ IsStore(i) /\ d.performed
                       \/ d.retired_spec \/ d.retired_safe_write
                    THEN @ + 1 ELSE @]
  /\ committed' = i
  /\ UNCHANGED <<callbacks, added, pnr, unresolved, sbVars>>

\* Mutant: the head of rROB is committed though rROB is empty.
retire_empty ==
  LET i == committed + 1 IN
  /\ i <= added
  /\ free' = [free EXCEPT !["LSQ"] = @ + 1]
  /\ lsq' = lsq \ {i}
  /\ dinst' = [dinst EXCEPT ![i].retired = TRUE]
  /\ committed' = i
  /\ UNCHANGED <<callbacks, added, pnr, unresolved, sbVars>>

\* FULoad::retire and FUStore::retire, then destroy: a performed store, or a
\* load both of whose answers came before it retired.
retire ==
  LET i == committed + 1
      d == dinst[i] IN
  /\ i <= pnr
  /\ IsLoad(i) => d.performed
  /\ free' = [free EXCEPT !["LSQ"] = @ + 1]
  /\ lsq' = lsq \ {i}
  /\ dinst' = [dinst EXCEPT
                 ![i].retired = TRUE,
                 ![i].destroyed =
                    IF \/ IsStore(i) /\ d.performed
                       \/ d.retired_spec /\ d.retired_safe_write
                    THEN @ + 1 ELSE @]
  /\ committed' = i
  /\ UNCHANGED <<callbacks, added, pnr, unresolved, sbVars>>

\* Store_buffer::ownership_done
ownership_done(l) ==
  /\ UNCHANGED coreVars
  /\ SB!ownership_done(l)

----------------------------------------------------------------------------
Init ==
  /\ \E present \in [Insts -> UninitPresent] :
       dinst = [i \in Insts |-> setup(present[i])]
  /\ callbacks = [i \in Insts |-> {}]
  /\ added = 0 /\ pnr = 0 /\ committed = 0
  /\ lsq = {}
  /\ free = [k \in {"LD", "ST", "LSQ"} |->
               CASE k = "LD" -> ldq_size [] k = "ST" -> stq_size
                 [] k = "LSQ" -> lsq_size]
  /\ unresolved = 0
  /\ scb = [l \in Lines |-> SB!Absent]
  /\ writes = [l \in Lines |-> 0]
  /\ unperformed = [l \in Lines |-> {}]

\* The program has been executed and every answer has come.
Done == /\ \A i \in Insts : dinst[i].destroyed > 0 /\ callbacks[i] = {}
        /\ \A l \in Lines : writes[l] = 0

Next ==
  \/ add_inst
  \/ \E i \in Insts : \/ do_load_execution(i) \/ cacheDispatched(i)
                      \/ executing_store(i) \/ executed_store(i)
                      \/ performed_spec(i) \/ performed_safe_write(i)
  \/ preretire_load \/ preretire_store \/ retire
  \/ \E l \in Lines : ownership_done(l)
  \/ Done /\ UNCHANGED vars

\* The scheduler runs every scheduled callback, the memory answers every
\* request, and the core retires on every clock.
Fairness ==
  /\ WF_vars(add_inst) /\ WF_vars(preretire_load) /\ WF_vars(preretire_store)
  /\ WF_vars(retire)
  /\ \A i \in Insts : /\ WF_vars(do_load_execution(i)) /\ WF_vars(cacheDispatched(i))
                      /\ WF_vars(executing_store(i)) /\ WF_vars(executed_store(i))
                      /\ WF_vars(performed_spec(i)) /\ WF_vars(performed_safe_write(i))
  /\ \A l \in Lines : WF_vars(ownership_done(l))

Spec == Init /\ [][Next]_vars

FairSpec == Spec /\ Fairness

----------------------------------------------------------------------------
(* Properties *)

\* Dinst::destroy gives the slot back to the pool: an instruction is destroyed
\* at most once and never while a callback that will use it is scheduled.
NoUseAfterDestroy ==
  \A i \in Insts : /\ dinst[i].destroyed <= 1
                   /\ dinst[i].destroyed = 1 => callbacks[i] = {}

\* The assertions of Dinst::destroy, I(issued) and I(executed), on every path
\* that destroys a load or a store; and the slot goes back to the pool with
\* present_in_scb clear, which the next Dinst::setup relies on.
SlotReturnsClean ==
  \A i \in Insts : dinst[i].destroyed > 0 =>
     dinst[i].executed /\ dinst[i].retired /\ ~dinst[i].present_in_scb

\* performed_spec: "put in the scb and send to core to execute; but donot
\* perform; wait until PNR/preretire()".
PerformedAfterPNR ==
  \A i \in Insts : dinst[i].performed => i <= pnr

\* The free entries of the units and of the queue are those no instruction
\* between its allocation and its release holds.
EntriesConserved ==
  LET held == {i \in Loads : /\ pnr < i /\ i <= added
                             /\ ldq_late_alloc => dinst[i].executing}
  IN /\ free["LD"]  = ldq_size - Cardinality(held)
     /\ free["ST"]  = stq_size - Cardinality({i \in Stores : pnr < i /\ i <= added})
     /\ free["LSQ"] = lsq_size - Cardinality(lsq)
     /\ lsq = committed + 1 .. added
     /\ unresolved = Cardinality({i \in lsq : ~dinst[i].executing})

\* FULoad::canIssue and FUStore::canIssue assert that freeEntries is never
\* negative.
EntriesNeverNegative == \A k \in {"LD", "ST", "LSQ"} : free[k] >= 0

\* mem/spectre_safe_exclusive_cache.md: "All speculative operations bring no
\* effect": only an instruction that passes the PNR sends a write to the L1.
NoSpeculativeWrite ==
  [][\A l \in Lines : writes'[l] > writes[l] => pnr' > pnr]_vars

\* What the unit does to the store buffer is what StoreBuffer allows.
ImplementsStoreBuffer == SB!Spec

\* Every instruction is retired and given back to the pool, whatever the
\* order of the two answers to a load, and stores waiting for the store
\* buffer get in.
EveryDinstDestroyed ==
  \A i \in Insts : <>(dinst[i].destroyed = 1)
============================================================================
