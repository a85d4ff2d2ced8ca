-------------------------- MODULE SimplePredictors --------------------------
(***************************************************************************)
(* The smaller direction predictors of simu/BPred.cpp, over the counters   *)
(* of core/sctable.cpp.  Each predict() is one operator: from the state s, *)
(* the control instruction d and its direction it returns                  *)
(*   s    the state after                                                  *)
(*   use  how it calls the branch target buffer: "predict", "peek"         *)
(*        (without update), "update" (updateOnly) or "none"                *)
(*   out  its outcome if it does not ask the buffer                        *)
(* What it makes of the buffer's outcome is settled().                     *)
(*                                                                         *)
(* Tables are kept sparse.  History registers keep the bits under the      *)
(* widest mask they are read through.  The history table of 2level, the    *)
(* history and the two caches of yags are not initialized: junk.           *)
(***************************************************************************)
EXTENDS BTB

CONSTANT Simple   \* addrShift, log2Size, bits, historySize, tagBits

LOCAL SShr(x, n) == x \div 2^n
LOCAL SLow(x, n) == x % 2^n
LOCAL Bit(b) == IF b THEN 1 ELSE 0

isBranch(d) == d.op \in {"LBRANCH", "RBRANCH"}

calcHist(pc) == LET cid == SShr(pc, 1 + Simple.addrShift) IN SShr(cid, 17) ^^ cid

-----------------------------------------------------------------------------
(* SCTable.                                                                *)

Saturate(bits) == IF bits > 1 THEN 2^(bits - 1) ELSE 1
MaxValue(bits) == 2^bits - 1

SCTable(bits) == [bits |-> bits, at |-> << >>]
entryOf(cid) == SLow(cid, Simple.log2Size)

\* The constructor's flipflop: 1 and Saturate - 1 in turn.
getValue(t, cid) ==
  LET e == entryOf(cid)
  IN IF e \in DOMAIN t.at THEN t.at[e]
     ELSE IF e % 2 = 0 THEN 1 ELSE Saturate(t.bits) - 1

set(t, cid, v) == [t EXCEPT !.at = [e \in DOMAIN @ \cup {entryOf(cid)} |->
                                      IF e = entryOf(cid) THEN v ELSE @[e]]]

tpredict(t, cid) == getValue(t, cid) >= Saturate(t.bits)
isLowest(t, cid) == getValue(t, cid) = 0
isHighest(t, cid) == getValue(t, cid) = MaxValue(t.bits)
reset(t, cid, taken) == set(t, cid, IF taken THEN Saturate(t.bits) ELSE Saturate(t.bits) - 1)

update(t, cid, taken) ==
  LET v == getValue(t, cid)
  IN CASE taken /\ v < MaxValue(t.bits) -> set(t, cid, v + 1)
       [] ~taken /\ v > 0 -> set(t, cid, v - 1)
       [] OTHER -> t

-----------------------------------------------------------------------------
call(s, use) == [s |-> s, use |-> use, out |-> "NoBTB"]
say(s, out)  == [s |-> s, use |-> "none", out |-> out]

\* The end of most predict()s.
directed(s, ptaken, taken) ==
  CASE taken # ptaken -> call(s, "update")
    [] taken /\ ptaken -> call(s, "predict")
    [] OTHER -> say(s, "Correct")

BPOracle(s, d) == IF isTaken(d) THEN call(s, "predict") ELSE say(s, "Correct")

BPTaken(s, d) == call(s, IF ~isBranch(d) \/ isTaken(d) THEN "predict" ELSE "peek")

BPNotTaken(s, d) == CASE ~isBranch(d) -> call(s, "predict")
                      [] isBranch(d) /\ isTaken(d) -> say(s, "Miss")
                      [] OTHER -> say(s, "Correct")

BPMiss(s) == say(s, "Miss")

BPNotTakenEnhanced(s, d) ==
  CASE ~isBranch(d) \/ (isTaken(d) /\ d.addr < d.pc) -> call(s, "predict")
    [] isBranch(d) /\ isTaken(d) /\ d.addr >= d.pc -> say(s, "Miss")
    [] OTHER -> say(s, "Correct")

-----------------------------------------------------------------------------
(* 2bit and 2bitL0 predict every instruction of a block with the block's   *)
(* counter; 2bitL0 only once it says taken with the highest confidence.    *)

use_pc(s, d) == calcHist(IF s.pc = 0 THEN d.pc ELSE s.pc)

BP2bit(s, d, taken) ==
  directed([s EXCEPT !.table = update(@, use_pc(s, d), taken)],
           tpredict(s.table, use_pc(s, d)), taken)

BP2bitL0(s, d, taken) ==
  LET s1 == [s EXCEPT !.table = update(@, use_pc(s, d), taken)]
  IN CASE s.one_prediction_done -> say(s, "None")
       [] ~s.one_prediction_done /\ isHighest(s.table, use_pc(s, d)) ->
            call(s1, IF taken THEN "predict" ELSE "peek")
       [] OTHER -> say(s1, "NoBTB")

\* Only when highly confident; the counter is looked at after its update.
BPTData(s, d, taken) ==
  LET t_tag == (d.ldpc ^^ (d.pc * 128)) ^^ (d.dataSign * 1024)
      table == update(s.table, t_tag, taken)
      s1    == [s EXCEPT !.table = table]
  IN CASE ~isBranch(d) -> call(s, "predict")
       [] isBranch(d) /\ ~isLowest(table, t_tag) /\ ~isHighest(table, t_tag) -> say(s1, "None")
       [] OTHER -> directed(s1, tpredict(s.table, t_tag), taken)

-----------------------------------------------------------------------------
historyPush(h, iID, taken) ==
  SLow(h * 2 + (SLow(SShr(iID, 2), 1) ^^ Bit(taken)), Simple.historySize)

tableIndex(h, iID, size) == SLow(h ^^ iID, size) + iID * 2^size

\* The history of the branch's own entry, or the path (path_based, for all control).
BP2level(s, d, taken) ==
  LET iID  == calcHist(d.pc)
      l1   == entryOf(iID)
      hist == IF l1 \in DOMAIN s.history THEN s.history[l1] ELSE s.junk
      path == dolcUpdate(s.dolc, d.pc)
      next == IF s.useDolc THEN getSign(path, Simple.historySize)
              ELSE historyPush(hist, iID, taken)
      l2   == tableIndex(hist, iID, Simple.historySize)
      s1   == [s EXCEPT !.history = [e \in DOMAIN @ \cup {l1} |-> IF e = l1 THEN next ELSE @[e]],
                        !.dolc = IF ~s.useDolc THEN @
                                 ELSE IF taken THEN dolcUpdate(path, d.addr) ELSE path,
                        !.table = update(@, l2, taken)]
  IN IF isBranch(d) THEN directed(s1, tpredict(s.table, l2), taken)
     ELSE call([s EXCEPT !.dolc = IF s.useDolc THEN path ELSE @], "predict")

BPHybrid(s, d, taken) ==
  LET iID    == calcHist(d.pc)
      l2     == tableIndex(s.ghr, iID, Simple.historySize)
      global == tpredict(s.table, l2)
      lcl    == tpredict(s.localTable, iID)
      s1     == [s EXCEPT !.ghr = historyPush(@, iID, taken),
                          !.table = update(@, l2, taken),
                          !.localTable = update(@, iID, taken),
                          !.metaTable = IF global # lcl THEN update(@, l2, lcl = taken) ELSE @]
  IN IF ~isBranch(d) THEN call(s, "predict")
     ELSE directed(s1, IF tpredict(s.metaTable, l2) THEN lcl ELSE global, taken)

-----------------------------------------------------------------------------
(* 2BcgSkew: three tables vote, a fourth chooses the vote or the bimodal.  *)

skewIdx(s, iID) ==
  [meta |-> tableIndex(s.ghr, iID, Simple.historySize),
   g0   |-> SLow(s.ghr ^^ SShr(iID, 2), Simple.historySize) + iID * 2^Simple.historySize,
   g1   |-> SLow(s.ghr ^^ SShr(iID, 4), Simple.historySize) + iID * 2^Simple.historySize]

votes(s, iID, x) ==
  LET bim == tpredict(s.table, iID)
      g0  == tpredict(s.G0, x.g0)
      g1  == tpredict(s.G1, x.g1)
  IN [bim |-> bim, g0 |-> g0, g1 |-> g1, gskew |-> Bit(bim) + Bit(g0) + Bit(g1) >= 2]

\* A miss trains all three, and the meta table with what they say now; the
\* history does not see the branch.
skewMissed(s, iID, x, taken) ==
  LET s1 == [s EXCEPT !.table = update(@, iID, taken), !.G0 = update(@, x.g0, taken),
                      !.G1 = update(@, x.g1, taken)]
      v  == votes(s1, iID, x)
  IN [s1 EXCEPT !.metaTable = IF v.bim # v.gskew THEN update(@, x.meta, v.bim = taken)
                              ELSE reset(@, x.meta, v.bim = taken)]

\* A hit trains the tables that agreed and were used.
skewHitBy(s, iID, x, v, taken, meta) ==
  [s EXCEPT !.table = IF meta \/ v.bim = taken THEN update(@, iID, taken) ELSE @,
            !.G0 = IF ~meta /\ v.g0 = taken THEN update(@, x.g0, taken) ELSE @,
            !.G1 = IF ~meta /\ v.g1 = taken THEN update(@, x.g1, taken) ELSE @,
            !.metaTable = IF v.bim # v.gskew THEN update(@, x.meta, v.bim = taken) ELSE @,
            !.ghr = historyPush(@, iID, taken)]

skewVoted(s, iID, x, v, taken) ==
  LET meta   == tpredict(s.metaTable, x.meta)
      ptaken == IF meta THEN v.bim ELSE v.gskew
  IN directed(IF ptaken = taken THEN skewHitBy(s, iID, x, v, taken, meta)
              ELSE skewMissed(s, iID, x, taken),
              ptaken, taken)

BP2BcgSkew(s, d, taken) ==
  LET iID == calcHist(d.pc)
      x   == skewIdx(s, iID)
  IN IF isBranch(d) THEN skewVoted(s, iID, x, votes(s, iID, x), taken)
     ELSE call(s, "predict")

-----------------------------------------------------------------------------
(* YAGS: a choice, and a cache of the exceptions to each choice.           *)

cached(c, i, junk) == IF i \in DOMAIN c THEN c[i] ELSE junk

\* The exception in cache c with counters t; alloc is the direction that makes one,
\* trained at cid (the taken cache uses the history, the other the address alone).
exception(c, t, junk, h, iID, taken, choice) ==
  LET i   == entryOf(h)
      tag == SLow(iID, Simple.tagBits)
      hit == cached(c, i, junk) = tag
      put == [j \in DOMAIN c \cup {i} |-> IF j = i THEN tag ELSE c[j]]
      cid == IF choice THEN iID ELSE h
  IN CASE hit -> [c |-> put, t |-> update(t, h, taken), ptaken |-> tpredict(t, h)]
       [] ~hit /\ taken # choice -> [c |-> put, t |-> update(t, cid, taken), ptaken |-> choice]
       [] OTHER -> [c |-> c, t |-> t, ptaken |-> choice]

yagsChosen(s, h, iID, taken, choice) ==
  LET e == IF choice THEN exception(s.CacheNotTaken, s.ctableNotTaken, s.junk, h, iID, taken, TRUE)
           ELSE exception(s.CacheTaken, s.ctableTaken, s.junk, h, iID, taken, FALSE)
      s1 == [s EXCEPT !.ghr = historyPush(@, iID, taken), !.table = update(@, iID, taken)]
  IN directed(IF choice THEN [s1 EXCEPT !.CacheNotTaken = e.c, !.ctableNotTaken = e.t]
              ELSE [s1 EXCEPT !.CacheTaken = e.c, !.ctableTaken = e.t],
              e.ptaken, taken)

BPyags(s, d, taken) ==
  LET iID == calcHist(d.pc)
  IN IF isBranch(d)
     THEN yagsChosen(s, tableIndex(s.ghr, iID, Simple.historySize), iID, taken,
                     tpredict(s.table, iID))
     ELSE call(s, "predict")

-----------------------------------------------------------------------------
\* The external superbp predictor says a direction; any.
BPSuperbp(s, d, taken, ptaken) ==
  IF isBranch(d) THEN directed(s, ptaken, taken) ELSE call(s, "predict")

\* The members of the predictors, as constructed.
simpleCreate(kind, junk) ==
  [pc |-> 0, one_prediction_done |-> FALSE, junk |-> junk,
   table |-> SCTable(Simple.bits), localTable |-> SCTable(Simple.bits),
   metaTable |-> SCTable(2), G0 |-> SCTable(2), G1 |-> SCTable(2),
   ctableTaken |-> SCTable(Simple.bits), ctableNotTaken |-> SCTable(Simple.bits),
   CacheTaken |-> << >>, CacheNotTaken |-> << >>, history |-> << >>,
   useDolc |-> kind = "2level_path",
   dolc |-> IF kind = "2level_path" THEN [i \in 1..Simple.historySize |-> 0] ELSE << >>,
   ghr |-> CASE kind = "2bcgskew" -> SLow(21845, Simple.historySize)
             [] kind = "yags" -> junk
             [] OTHER -> 0]

simplePredict(kind, s, d, taken, ptaken) ==
  CASE kind = "oracle"    -> BPOracle(s, d)
    [] kind = "taken"     -> BPTaken(s, d)
    [] kind = "not_taken" -> BPNotTaken(s, d)
    [] kind = "not_taken_enhanced" -> BPNotTakenEnhanced(s, d)
    [] kind = "2bit"      -> BP2bit(s, d, taken)
    [] kind = "2bitl0"    -> BP2bitL0(s, d, taken)
    [] kind = "tdata"     -> BPTData(s, d, taken)
    [] kind = "hybrid"    -> BPHybrid(s, d, taken)
    [] kind = "2bcgskew"  -> BP2BcgSkew(s, d, taken)
    [] kind = "yags"      -> BPyags(s, d, taken)
    [] kind = "superbp"   -> BPSuperbp(s, d, taken, ptaken)
    [] kind \in {"2level", "2level_path"} -> BP2level(s, d, taken)
    [] OTHER              -> BPMiss(s)

simpleBegin(s, pc) == [s EXCEPT !.pc = pc, !.one_prediction_done = FALSE]
simpleEnd(s)       == [s EXCEPT !.pc = 0]

\* The outcome, once the buffer has answered out (asked or not).
settled(kind, r, out, taken) ==
  CASE kind = "taken" /\ r.use = "peek" ->
         [s |-> r.s, out |-> IF out = "Correct" THEN "Correct" ELSE "Miss"]
    [] kind = "2bitl0" /\ r.use # "none" /\ out # "NoBTB" ->
         [s |-> [r.s EXCEPT !.one_prediction_done = TRUE],
          out |-> IF taken THEN out ELSE "Miss"]
    [] OTHER -> [s |-> r.s, out |-> IF r.use = "update" THEN "Miss" ELSE out]
=============================================================================
