--------------------------- MODULE TransientFlush ---------------------------
(***************************************************************************)
(* Transient instructions in the back end of an out-of-order core.  While a *)
(* mispredicted branch blocks fetch, GProcessor::fetch injects random ALU  *)
(* and branch instructions; when fetch is ready again it flushes them from *)
(* the reorder buffer (GProcessor::flush_transient_from_rob), but leaves   *)
(* the ones whose callbacks are already scheduled to execute and retire.   *)
(*                                                                         *)
(* Modelled: OoOProcessor::add_inst and ::retire (simu/oooprocessor.cpp),  *)
(* the dependence window and ExecutedCluster (simu/DepWindow.cpp, simu/    *)
(* cluster.cpp), FUGeneric, FURALU and FUBranch (simu/resource.cpp) and    *)
(* the flush (simu/gprocessor.cpp), with the counts of registers, window   *)
(* entries and branches they share.  Memory instructions are in            *)
(* LoadStoreUnit.                                                          *)
(***************************************************************************)
EXTENDS Integers, FiniteSets, Sequences, SequencesExt

CONSTANTS
  MaxInst,         \* bound: instructions added to the ROB
  Regs,            \* logical registers
  NoReg,           \* LREG_InvalidOutput
  TransientKinds,  \* what add_inst_transient_on_branch_miss generates
  MaxROBSize, num_regs, nRegs, MaxWinSize, max_branches

Insts == 1..MaxInst

ASSUME TransientFlushAssumption ==
  /\ MaxInst \in Nat
  /\ NoReg \notin Regs /\ 0 \notin Regs
  /\ TransientKinds \subseteq {"ALU", "BR"}
  /\ {MaxROBSize, num_regs, nRegs, MaxWinSize, max_branches} \subseteq Nat \ {0}

VARIABLES
  inst,          \* [Insts -> flags of the dynamic instruction]
  added,         \* instructions created so far
  ROB, rROB,     \* the reorder buffer before and after the PNR
  RAT, TRAT,     \* last writer of each register, 0 when there is none
  deps,          \* [Insts -> the instructions it still waits for]
  nTotalRegs,    \* OoOProcessor::nTotalRegs
  regPool,       \* Cluster::regPool
  windowSize,    \* Cluster::windowSize, free entries of the window
  freeBranches,  \* FUBranch::freeBranches
  fetch          \* "run", "blocked", or "ready": unblocked, not yet flushed

pools == <<nTotalRegs, regPool, windowSize, freeBranches>>
vars  == <<inst, added, ROB, rROB, RAT, TRAT, deps, pools, fetch>>

Inst == [kind : {"ALU", "BR"}, transient : BOOLEAN, dst : Regs \cup {NoReg},
         miss : {"no", "slow", "fast"},
         issued : BOOLEAN, executing : BOOLEAN, executed : BOOLEAN,
         del_entry : BOOLEAN, flush_transient : BOOLEAN,
         try_flush_transient : BOOLEAN, destroyed : BOOLEAN]

\* Dinst::setup
NewInst(kind, transient, dst, miss) ==
  [kind |-> kind, transient |-> transient, dst |-> dst, miss |-> miss,
   issued |-> FALSE, executing |-> FALSE, executed |-> FALSE,
   del_entry |-> FALSE, flush_transient |-> FALSE,
   try_flush_transient |-> FALSE, destroyed |-> FALSE]

hasDst(i)   == inst[i].dst # NoReg
Added       == 1..added
Alive       == {i \in Added : ~inst[i].destroyed}
InROB       == {ROB[k] : k \in DOMAIN ROB}
Count(S)    == Cardinality(S)

TypeOK ==
  /\ added \in 0..MaxInst
  /\ inst \in [Insts -> Inst]
  /\ ROB \in Seq(Added) /\ rROB \in Seq(Added)
  /\ RAT \in [Regs -> 0..added] /\ TRAT \in [Regs -> 0..added]
  /\ deps \in [Insts -> SUBSET Insts]
  /\ {nTotalRegs, regPool, windowSize, freeBranches} \subseteq Int
  /\ fetch \in {"run", "blocked", "ready"}

----------------------------------------------------------------------------
(* Rename: OoOProcessor::add_inst *)

\* The stalls of OoOProcessor::add_inst, Cluster::canIssue, FUBranch::canIssue
canIssue(kind) ==
  /\ Len(ROB) + Len(rROB) < MaxROBSize - 1
  /\ nTotalRegs > 0 /\ regPool > 0 /\ windowSize > 0
  /\ kind = "BR" => freeBranches # 0

\* Mutant: every source is looked up in RAT.
add_inst_rat(new, src) ==
  LET i    == added + 1
      wait == {RAT[r] : r \in src} \ {0}
      regs == IF new.dst = NoReg THEN 0 ELSE 1
  IN
  /\ i \in Insts
  /\ canIssue(new.kind)
  /\ added' = i
  /\ inst' = [inst EXCEPT ![i] = [new EXCEPT !.issued = wait = {}]]
  /\ deps' = [deps EXCEPT ![i] = wait]
  /\ ROB' = Append(ROB, i)
  /\ nTotalRegs' = nTotalRegs - regs
  /\ regPool' = regPool - regs
  /\ windowSize' = windowSize - 1
  /\ freeBranches' = IF new.kind = "BR" THEN freeBranches - 1 ELSE freeBranches
  /\ RAT' = [r \in Regs |-> IF r = new.dst THEN i ELSE RAT[r]]
  /\ UNCHANGED <<TRAT, rROB>>

\* Mutant: the instruction enters the ROB under the number of the next one.
add_inst_ahead(new, src) ==
  /\ added < MaxInst
  /\ canIssue(new.kind)
  /\ added' = added + 1
  /\ ROB' = Append(ROB, added + 2)
  /\ UNCHANGED <<inst, deps, rROB, RAT, TRAT, pools>>

\* Transient instructions are renamed through TRAT, the others through RAT.
add_inst(new, src) ==
  LET i    == added + 1
      rat  == IF new.transient THEN TRAT ELSE RAT
      wait == {rat[r] : r \in src} \ {0}
      regs == IF new.dst = NoReg THEN 0 ELSE 1
  IN
  /\ i \in Insts
  /\ canIssue(new.kind)
  /\ added' = i
  /\ inst' = [inst EXCEPT ![i] = [new EXCEPT !.issued = wait = {}]]
  /\ deps' = [deps EXCEPT ![i] = wait]
  /\ ROB' = Append(ROB, i)
  /\ nTotalRegs' = nTotalRegs - regs
  /\ regPool' = regPool - regs
  /\ windowSize' = windowSize - 1
  /\ freeBranches' = IF new.kind = "BR" THEN freeBranches - 1 ELSE freeBranches
  /\ TRAT' = IF new.transient THEN [r \in Regs |-> IF r = new.dst THEN i ELSE TRAT[r]]
             ELSE TRAT
  /\ RAT'  = IF new.transient THEN RAT
             ELSE [r \in Regs |-> IF r = new.dst THEN i ELSE RAT[r]]
  /\ UNCHANGED rROB

\* Instructions of the program; a mispredicted branch blocks fetch.
add_real(kind, src, dst, miss) ==
  /\ fetch = "run"
  /\ kind = "ALU" => miss = "no" /\ dst \in Regs
  /\ kind = "BR"  => dst = NoReg
  /\ add_inst(NewInst(kind, FALSE, dst, miss), src)
  /\ fetch' = IF miss = "no" THEN fetch ELSE "blocked"

\* GProcessor::add_inst_transient_on_branch_miss: they all write a register.
add_transient(kind, src, dst) ==
  /\ fetch = "blocked"
  /\ add_inst(NewInst(kind, TRUE, dst, "no"), src)
  /\ UNCHANGED fetch

----------------------------------------------------------------------------
(* Execution *)

\* Resource::executingCB, the port, do_generic_execution and the others: from
\* issue on a callback that uses the instruction is scheduled.
executing(i) ==
  /\ inst[i].issued /\ ~inst[i].executing
  /\ inst' = [inst EXCEPT ![i].executing = TRUE]
  /\ UNCHANGED <<added, ROB, rROB, RAT, TRAT, deps, pools, fetch>>

\* Dinst::clearRATEntry
clearRATEntry(rat, S) == [r \in Regs |-> IF rat[r] \in S THEN 0 ELSE rat[r]]

\* Mutant: the instructions that waited are not issued.
executed_silent(i) ==
  /\ inst[i].executing /\ ~inst[i].executed
  /\ inst' = [inst EXCEPT ![i].executed = TRUE, ![i].del_entry = TRUE]
  /\ deps' = [j \in Insts |-> deps[j] \ {i}]
  /\ RAT' = clearRATEntry(RAT, {i}) /\ TRAT' = clearRATEntry(TRAT, {i})
  /\ windowSize' = IF inst[i].del_entry THEN windowSize ELSE windowSize + 1
  /\ freeBranches' = IF inst[i].kind = "BR" THEN freeBranches + 1 ELSE freeBranches
  /\ fetch' = IF inst[i].miss = "slow" THEN "ready" ELSE fetch
  /\ UNCHANGED <<added, ROB, rROB, nTotalRegs, regPool>>

\* executedCB: FUBranch::executed or FUGeneric::executed, ExecutedCluster::
\* executed and DepWindow::executed, which issues the instructions it wakes.
executed(i) ==
  LET woken == {j \in Added : deps[j] = {i}} IN
  /\ inst[i].executing /\ ~inst[i].executed
  /\ inst' = [j \in Insts |->
                IF j = i THEN [inst[j] EXCEPT !.executed = TRUE, !.del_entry = TRUE]
                ELSE IF j \in woken THEN [inst[j] EXCEPT !.issued = TRUE] ELSE inst[j]]
  /\ deps' = [j \in Insts |-> deps[j] \ {i}]
  /\ RAT' = clearRATEntry(RAT, {i}) /\ TRAT' = clearRATEntry(TRAT, {i})
  /\ windowSize' = IF inst[i].del_entry THEN windowSize ELSE windowSize + 1
  /\ freeBranches' = IF inst[i].kind = "BR" THEN freeBranches + 1 ELSE freeBranches
  /\ fetch' = IF inst[i].miss = "slow" THEN "ready" ELSE fetch
  /\ UNCHANGED <<added, ROB, rROB, nTotalRegs, regPool>>

\* FetchEngine::unBlockFetchBPredDelay: a slower predictor fixes the branch
\* before it executes.
unBlockFetchBPredDelay ==
  /\ fetch = "blocked"
  /\ \E i \in Added :
       /\ inst[i].miss = "fast"
       /\ inst' = [inst EXCEPT ![i].miss = "no"]
  /\ fetch' = "ready"
  /\ UNCHANGED <<added, ROB, rROB, RAT, TRAT, deps, pools>>

----------------------------------------------------------------------------
(* GProcessor::fetch when fetch is not blocked *)

\* Mutant: pipe_in_cluster is emptied from its front.
Without_reversed(s, D) ==
  LET kept   == {k \in DOMAIN s : s[k] \notin D}
      nth(n) == CHOOSE k \in kept : Cardinality({m \in kept : m >= k}) = n
  IN [n \in 1..Cardinality(kept) |-> s[nth(n)]]

\* The flush empties the ROB from its back into pipe_in_cluster, leaving out
\* the instructions it destroys, and refills it from the back of
\* pipe_in_cluster: the others are in their order again.
Without(s, D) ==
  LET kept   == {k \in DOMAIN s : s[k] \notin D}
      nth(n) == CHOOSE k \in kept : Cardinality({m \in kept : m <= k}) = n
  IN [n \in 1..Cardinality(kept) |-> s[nth(n)]]

\* FUBranch::try_flushed gives a branch entry back; the other units nothing.
try_flushed(S) == Count({i \in S : inst[i].kind = "BR"})

\* Mutant: the transients that are still executing are destroyed too.
flush_all_from_rob ==
  LET T == {i \in InROB : inst[i].transient} IN
  /\ inst' = [i \in Insts |->
       IF i \in T THEN [inst[i] EXCEPT !.destroyed = TRUE, !.del_entry = TRUE]
       ELSE inst[i]]
  /\ ROB' = Without(ROB, T)
  /\ TRAT' = clearRATEntry(TRAT, T) /\ RAT' = clearRATEntry(RAT, T)
  /\ nTotalRegs' = nTotalRegs + Count(T) /\ regPool' = regPool + Count(T)
  /\ windowSize' = windowSize + Count({i \in T : ~inst[i].del_entry})
  /\ UNCHANGED freeBranches

\* flush_transient_from_rob: executed transients are destroyed; the ones that
\* are not keep their place, give their window entry and register back now and
\* are marked so that they do not give them back again.
flush_transient_from_rob ==
  LET T == {i \in InROB : inst[i].transient}
      E == {i \in T : inst[i].executed}
      P == {i \in T : ~inst[i].executed /\ ~inst[i].try_flush_transient}
  IN
  /\ inst' = [i \in Insts |->
       IF i \in E THEN [inst[i] EXCEPT !.destroyed = TRUE]
       ELSE IF i \in P
            THEN [inst[i] EXCEPT
                    !.flush_transient = @ \/ inst[i].executing \/ inst[i].issued,
                    !.del_entry = TRUE, !.try_flush_transient = hasDst(i)]
            ELSE inst[i]]
  /\ ROB' = Without(ROB, E)
  /\ TRAT' = clearRATEntry(TRAT, T) /\ RAT' = clearRATEntry(RAT, T)
  /\ nTotalRegs' = nTotalRegs + Count({i \in E : hasDst(i)})
  /\ regPool' = regPool + Count({i \in E : hasDst(i) /\ ~inst[i].try_flush_transient})
                        + Count({i \in P : hasDst(i)})
  /\ windowSize' = windowSize + Count({i \in P : ~inst[i].del_entry})
  /\ freeBranches' = freeBranches + try_flushed(E \cup P)

\* flush_transient_inst_on_fetch_ready runs on every fetch that is not blocked.
flush ==
  /\ fetch # "blocked"
  /\ flush_transient_from_rob
  /\ fetch' = "run"
  /\ UNCHANGED <<added, rROB, deps>>

----------------------------------------------------------------------------
(* OoOProcessor::retire *)

\* Mutant: the register the flush gave back is given back again.
preretire_double_free ==
  LET i    == Head(ROB)
      regs == IF hasDst(i) THEN 1 ELSE 0 IN
  /\ ROB # <<>>
  /\ inst[i].executed
  /\ ROB' = Tail(ROB)
  /\ \/ /\ inst[i].transient
        /\ inst' = [inst EXCEPT ![i].destroyed = TRUE]
        /\ regPool' = regPool + regs
        /\ nTotalRegs' = nTotalRegs + regs
        /\ UNCHANGED rROB
     \/ /\ ~inst[i].transient
        /\ rROB' = Append(rROB, i)
        /\ UNCHANGED <<inst, regPool, nTotalRegs>>
  /\ UNCHANGED <<added, RAT, TRAT, deps, windowSize, freeBranches, fetch>>

\* The head of ROB: a transient is destroyed, the others move to rROB.
preretire ==
  LET i    == Head(ROB)
      regs == IF hasDst(i) THEN 1 ELSE 0 IN
  /\ ROB # <<>>
  /\ inst[i].executed
  /\ ROB' = Tail(ROB)
  /\ \/ /\ inst[i].transient
        /\ inst' = [inst EXCEPT ![i].destroyed = TRUE]
        /\ regPool' = IF inst[i].try_flush_transient THEN regPool ELSE regPool + regs
        /\ nTotalRegs' = nTotalRegs + regs
        /\ UNCHANGED rROB
     \/ /\ ~inst[i].transient
        /\ rROB' = Append(rROB, i)
        /\ UNCHANGED <<inst, regPool, nTotalRegs>>
  /\ UNCHANGED <<added, RAT, TRAT, deps, windowSize, freeBranches, fetch>>

\* The head of rROB commits.
retire ==
  LET i    == Head(rROB)
      regs == IF hasDst(i) THEN 1 ELSE 0 IN
  /\ rROB # <<>>
  /\ rROB' = Tail(rROB)
  /\ inst' = [inst EXCEPT ![i].destroyed = TRUE]
  /\ regPool' = regPool + regs
  /\ nTotalRegs' = nTotalRegs + regs
  /\ UNCHANGED <<added, ROB, RAT, TRAT, deps, windowSize, freeBranches, fetch>>

----------------------------------------------------------------------------
Init ==
  /\ inst = [i \in Insts |-> NewInst("ALU", FALSE, NoReg, "no")]
  /\ added = 0
  /\ ROB = <<>> /\ rROB = <<>>
  /\ RAT = [r \in Regs |-> 0] /\ TRAT = [r \in Regs |-> 0]
  /\ deps = [i \in Insts |-> {}]
  /\ nTotalRegs = num_regs /\ regPool = nRegs
  /\ windowSize = MaxWinSize /\ freeBranches = max_branches
  /\ fetch = "run"

\* Two sources, each of which may be no register.
Sources == {{}} \cup {{r, s} : r, s \in Regs}

Next ==
  \/ \E kind \in {"ALU", "BR"}, src \in Sources, dst \in Regs \cup {NoReg},
        miss \in {"no", "slow", "fast"} : add_real(kind, src, dst, miss)
  \/ \E kind \in TransientKinds, src \in Sources, dst \in Regs :
        add_transient(kind, src, dst)
  \/ \E i \in Insts : executing(i) \/ executed(i)
  \/ unBlockFetchBPredDelay
  \/ flush \/ preretire \/ retire

\* While callbacks are scheduled one of them fires, and the core fetches and
\* retires on every clock.
Fairness ==
  /\ WF_vars(\E i \in Insts : executing(i) \/ executed(i))
  /\ WF_vars(unBlockFetchBPredDelay) /\ WF_vars(flush)
  /\ WF_vars(preretire) /\ WF_vars(retire)

Spec == Init /\ [][Next]_vars

FairSpec == Spec /\ Fairness

----------------------------------------------------------------------------
(* Properties *)

\* docs/debugging.md, "TRAT and RAT do not cross-pollute": transients wait only
\* for transients and the others only for the others.
NoCrossPollution ==
  /\ \A r \in Regs : RAT[r] # 0 => ~inst[RAT[r]].transient
  /\ \A r \in Regs : TRAT[r] # 0 => inst[TRAT[r]].transient
  /\ \A i \in Added : \A j \in deps[i] : inst[i].transient = inst[j].transient

\* docs/debugging.md: never destroy an instruction before its callbacks fire,
\* or while a rename table or a waiting instruction still points at it.
NoUseAfterDestroy ==
  \A i \in Added : inst[i].destroyed =>
     /\ inst[i].executed
     /\ \A r \in Regs : RAT[r] # i /\ TRAT[r] # i
     /\ \A j \in Added : i \notin deps[j]

\* docs/debugging.md, "no register double-free": the registers and window
\* entries given back by the flush, by executed and by retire are exactly the
\* ones add_inst took.
PoolsConserved ==
  LET dst == {i \in Alive : hasDst(i)} IN
  /\ nTotalRegs = num_regs - Count(dst)
  /\ regPool    = nRegs - Count({i \in dst : ~inst[i].try_flush_transient})
  /\ windowSize = MaxWinSize - Count({i \in Added : ~inst[i].del_entry})

\* The branches in flight: an entry is free unless its branch has not executed.
BranchesConserved ==
  freeBranches = max_branches
                   - Count({i \in Added : inst[i].kind = "BR" /\ ~inst[i].executed})

\* The flush keeps the instructions that stay in program order, and loses none.
RobInOrder ==
  LET q == rROB \o ROB IN
  /\ \A a, b \in DOMAIN q : a < b => q[a] < q[b]
  /\ ToSet(q) = Alive

\* Flushed or not, every instruction executes, leaves the ROB and is destroyed
\* (a behaviour has at most MaxInst of them, so they all are: OoOProcessor::retire,
\* GProcessor::flush_transient_from_rob); the flush takes no transient's callback
\* away (docs/debugging.md: "letting ports fire lets the transient reach
\* isExecuted").
EveryInstDestroyed == []<>(Alive = {})
============================================================================
