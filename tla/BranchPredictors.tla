-------------------------- MODULE BranchPredictors --------------------------
(***************************************************************************)
(* The branch predictors of simu/BPred.cpp, each with its branch target    *)
(* buffer, driven as BPredictor and the fetch engine drive them by a small *)
(* program whose branches first go any way (at most Wander of them) and    *)
(* then settle: from there on every branch keeps its direction.            *)
(*                                                                         *)
(* kind   which predictor: a kind of SimplePredictors, or one of the TAGE  *)
(*        predictors "tahead", "tahead1", "imli" (BPIMLI with              *)
(*        fetch_predict, one boundary per fetch block) and "imli_inst"     *)
(*        (without, one boundary per instruction)                          *)
(* s      the predictor's state;  btb, its target buffer's                 *)
(* at     the address fetched next                                         *)
(* block  the fetch block: where it began (-1 between blocks), its         *)
(*        instructions and its taken ones so far                           *)
(* dirs   the directions the branches have settled on, <<>> before         *)
(* steps  control instructions so far, since settling once settled         *)
(* wrong  would fetch have gone astray on the last one? (a miss, or no     *)
(*        target for a taken one: what stalls the fetch engine)            *)
(***************************************************************************)
EXTENDS SimplePredictors

CONSTANTS Kinds, BtbConfs(_), Garbage, Streams, Program, Start, Wander, Settled,
          Macros, Macros1, Imli

VARIABLES kind, s, btb, at, block, dirs, steps, wrong

vars == <<kind, s, btb, at, block, dirs, steps, wrong>>

T  == INSTANCE Tahead
T1 == INSTANCE Tahead1
I  == INSTANCE IMLIBest
TM1 == INSTANCE Tahead WITH Macros <- Macros1   \* tahead1's registers

TageKinds == {"tahead", "tahead1", "imli", "imli_inst"}
NoBlock == [pc |-> -1, bb |-> 0, n |-> 0]

\* The control instruction that the fetch reaches from address pc.
Reached(pc) == CHOOSE c \in Program : /\ c.pc >= pc
                                      /\ \A d \in Program : d.pc >= pc => c.pc <= d.pc

\* IDs count instructions, four bytes each; from the block's first, as only the
\* differences with it are used.
dinst(c, taken) == [pc |-> c.pc, id |-> block.n + (c.pc - at) \div 4, op |-> c.op,
                    ldpc |-> c.ldpc, dataSign |-> c.dataSign,
                    addr |-> IF taken THEN c.target ELSE 0]

-----------------------------------------------------------------------------
(* The TAGE predictors: one call of predict() up to the target buffer.     *)

\* g is the prediction; the update follows at once.
BPTaheadBranch(g, d, taken) ==
  directed(T!updatePredictor(g, d.pc, d.op, taken, d.addr), g.pred_taken, taken)

BPTahead(d, taken) ==
  IF isBranch(d) THEN BPTaheadBranch(T!getPrediction(s), d, taken)
  ELSE call(T!TrackOtherInst(s, d.pc, d.op, taken, d.addr), "predict")

BPTahead1Branch(g, d, taken) ==
  directed(T1!updatePredictor(g, d.pc, d.op, taken, d.addr), g.pred_taken, taken)

BPTahead1(d, taken) ==
  IF isBranch(d) THEN BPTahead1Branch(T1!getPrediction(s, 0), d, taken)
  ELSE call(T1!TrackOtherInst(s, d.pc, d.op, taken, d.addr), "predict")

\* Without fetch_predict the boundary begins and ends with the instruction.
BPIMLIBegin(d) ==
  CASE kind = "imli_inst" -> I!fetchBoundaryBegin(s, d.pc, d.id)
    [] kind = "imli" /\ block.pc = -1 -> I!fetchBoundaryBegin(s, at, 0)
    [] OTHER -> s

BPIMLIDeferred(g, d, taken) ==
  directed(I!deferPredictorUpdate(g, d.pc, taken, d.addr, TRUE), g.p.tage_pred, taken)

BPIMLIOp(s0, d, taken) ==
  IF isBranch(d)
  THEN BPIMLIDeferred(I!getPrediction(s0, d.pc, 100 + d.id - s0.lastBoundaryID), d, taken)
  ELSE call(I!TrackOtherInst(s0, d.pc, d.op, d.addr), "predict")

BPIMLIEnd(r) == IF kind = "imli_inst" THEN [r EXCEPT !.s = I!fetchBoundaryEnd(@)] ELSE r

BPIMLI(d, taken) == BPIMLIEnd(BPIMLIOp(BPIMLIBegin(d), d, taken))

predict(d, taken, superbp) ==
  CASE kind = "tahead"  -> BPTahead(d, taken)
    [] kind = "tahead1" -> BPTahead1(d, taken)
    [] kind \in {"imli", "imli_inst"} -> BPIMLI(d, taken)
    [] OTHER -> simplePredict(kind, IF block.pc = -1 THEN simpleBegin(s, at) ELSE s,
                              d, taken, superbp)

\* The predictor's boundary at the end of a block; begin is part of predict.
blockEnd(s0) == CASE kind = "imli" -> I!fetchBoundaryEnd(s0)
                  [] kind \in TageKinds -> s0
                  [] OTHER -> simpleEnd(s0)

-----------------------------------------------------------------------------
(* The target buffer: its boundary, and the call the predictor makes.      *)

btbBegin(d) == CASE kind = "imli_inst" -> fetchBoundaryBegin(btb, d.pc, d.id)
                 [] kind # "imli_inst" /\ block.pc = -1 -> fetchBoundaryBegin(btb, at, 0)
                 [] OTHER -> btb

btbEnd(b, d) == IF kind = "imli_inst" /\ isBranch(d) THEN fetchBoundaryEnd(b) ELSE b

asked(r, b, d) == CASE r.use = "update" -> [b |-> updateOnly(b, d), out |-> "Miss"]
                    [] r.use = "none"   -> [b |-> b, out |-> r.out]
                    [] OTHER            -> btbPredict(b, d, r.use = "predict")

-----------------------------------------------------------------------------
Init ==
  /\ kind \in Kinds
  /\ s \in CASE kind = "tahead"  -> {T!reinit(r) : r \in Streams}
             [] kind = "tahead1" -> {T1!reinit(r) : r \in Streams}
             [] kind \in {"imli", "imli_inst"} -> {I!reinit}
             [] kind \in {"2level", "2level_path", "yags"} -> {simpleCreate(kind, g) : g \in Garbage}
             [] OTHER -> {simpleCreate(kind, 0)}
  /\ btb \in {btbCreate(c) : c \in BtbConfs(kind)}
  /\ at = Start /\ block = NoBlock
  /\ dirs = <<>> /\ steps = 0 /\ wrong = FALSE

\* A block ends where fetch stalls, and with its max_bb-th taken instruction.
Went(r, b, c, d, taken, astray) ==
  LET bb   == block.bb + (IF taken THEN 1 ELSE 0)
      ends == astray \/ (taken /\ bb >= b.conf.max_bb)
  IN /\ s' = IF ends THEN blockEnd(r.s) ELSE r.s
     /\ btb' = IF ends /\ kind # "imli_inst" THEN fetchBoundaryEnd(b) ELSE b
     /\ wrong' = astray
     /\ at' = IF taken THEN c.target ELSE c.pc + 4
     /\ block' = CASE ends -> NoBlock
                   [] OTHER -> [pc |-> IF block.pc = -1 THEN at ELSE block.pc,
                                bb |-> bb, n |-> d.id + 1]
     /\ steps' = steps + 1
     /\ UNCHANGED <<kind, dirs>>

Answered(r, o, c, d, taken) ==
  Went(r, btbEnd(o.b, c), c, d, taken, r.out = "Miss" \/ (taken /\ r.out # "Correct"))

Asked(r, o, c, d, taken) == Answered(settled(kind, r, o.out, taken), o, c, d, taken)

Predicted(r, b, c, d, taken) == Asked(r, asked(r, b, d), c, d, taken)

\* The ways c may go: any while the branches wander, its own once settled.
ways(c) == CASE ~isBranch(c) -> {TRUE}
             [] isBranch(c) /\ dirs = <<>> -> BOOLEAN
             [] OTHER -> {dirs[c.pc]}

Control ==
  /\ steps < IF dirs = <<>> THEN Wander ELSE Settled
  /\ \E c \in {Reached(at)} : \E taken \in ways(c) :
       \E superbp \in IF kind = "superbp" THEN BOOLEAN ELSE {TRUE} :
         \E d \in {dinst(c, taken)} :
           Predicted(predict(d, taken, superbp), btbBegin(d), c, d, taken)

\* The fetch width ends the block between control instructions.
EndBlock ==
  /\ block.pc # -1 /\ dirs = <<>>
  /\ s' = blockEnd(s)
  /\ btb' = IF kind = "imli_inst" THEN btb ELSE fetchBoundaryEnd(btb)
  /\ block' = NoBlock
  /\ UNCHANGED <<kind, at, dirs, steps, wrong>>

Settle == /\ dirs = <<>>
          /\ dirs' \in [{c.pc : c \in {b \in Program : isBranch(b)}} -> BOOLEAN]
          /\ steps' = 0
          /\ UNCHANGED <<kind, s, btb, at, block, wrong>>

Next == Control \/ EndBlock \/ Settle

Spec == Init /\ [][Next]_vars

-----------------------------------------------------------------------------
(* Every folded register holds exactly the fold of the history it covers:  *)
(* the registers are only ever updated incrementally, one bit in and one   *)
(* bit out, through a circular buffer (folded_history::update).            *)
FoldedHistoryExact ==
  LET exact(fold(_, _, _, _), C(_, _), len(_), banks) ==
        \A f \in T!Folds, i \in banks :
           s.ch[<<f, i>>] = fold(s.ghist, s.ptghist, len(i), C(f, i))
  IN CASE kind = "tahead"  -> exact(T!foldOf, T!CLENGTH, LAMBDA i : T!m[i], T!Banks)
       [] kind = "tahead1" -> exact(TM1!foldOf, TM1!CLENGTH,
                                    LAMBDA i : TM1!m[i], TM1!Banks)
       [] kind \in {"imli", "imli_inst"} -> exact(I!foldOf, I!CLENGTH, I!m, I!Banks)
       [] OTHER            -> TRUE

(* The table indexes of a block are computed at its first branch only and  *)
(* reused for the others: nothing they depend on may change in between     *)
(* (Tagepred, "if (TAHEAD_Numero == 0)").                                  *)
BlockIndexesFresh ==
  kind = "tahead" /\ s.Numero # 0 =>
     \A i \in T!Banks : /\ s.AHGI[i] = T!gindex(s, s.PCBLOCK, i)
                        /\ s.AHGTAG[i] = T!gtag(s, s.PCBLOCK, i)

(* Once the branches of a loop have kept their directions long enough, no  *)
(* prediction is wrong any more and the buffer has every target, whatever  *)
(* the tables had learned before.  For the predictors that can learn: 2bit *)
(* and 2bitl0 have one counter for a whole block.                          *)
Learners == TageKinds \cup {"oracle", "2level", "2level_path", "hybrid", "2bcgskew", "yags", "tdata"}

SettledLearned ==
  kind \in Learners /\ dirs # <<>> /\ steps > Settled - 4 => ~wrong

(* imlibest.hpp: "an entry is considered as newly allocated if its         *)
(* prediction counter is weak", when a deferred update is applied.         *)
NewAllocIsWeak ==
  kind = "imli" =>
    \A k \in 1..Len(s.deferred_ops) :
      LET e == s.deferred_ops[k] IN
        e.update /\ I!PseudoNewAlloc(I!restore(s, e), e.p)
          => I!get_gentry(I!restore(s, e), e.p.HitBank).ctr \in {0, -1}
=============================================================================
