---------------------------- MODULE FetchEngine -----------------------------
(***************************************************************************)
(* simu/fetchengine.cpp with BPredictor and the return address stack BPRas *)
(* of simu/BPred.cpp: the block of instructions one fetch brings, and what *)
(* its branches make of the fetch engine.  The direction predictors answer *)
(* anything here (BranchPredictors models them); the return address stack  *)
(* is modelled, next to the calls the program has really made.             *)
(*                                                                         *)
(* An instruction is the record of its kind ("op", "branch", "call" or     *)
(* "ret"), whether it is taken and the answer of the predictors to it; the *)
(* emulator's stream is any sequence of them a program can run.            *)
(*                                                                         *)
(* f.missInst, f.missDinst          fetch is blocked, and by which one     *)
(* f.pending    the unblockings to come: by "delay" (the callback          *)
(*              unBlockFetchBPredDelayCB, in timer clocks) or "execute"    *)
(*              (lockFetch: unBlockFetch when the branch n is executed)    *)
(* f.maxDelayPending, f.maxDelayPendingDinst    within one block           *)
(* f.ras        stack and index                                            *)
(* f.calls      the program's calls not returned from, and whether the     *)
(*              nesting has gone beyond the stack since                    *)
(***************************************************************************)
EXTENDS Integers, Sequences, SequencesExt

CONSTANTS RasSize,
          bpredDelay1, bpredDelay2, bpredDelay3,
          max_bb_cycle

ASSUME FetchAssumption ==
  /\ RasSize \in Nat
  /\ 0 < bpredDelay1 /\ bpredDelay1 < bpredDelay2 /\ bpredDelay2 < bpredDelay3
  /\ max_bb_cycle \in Nat \ {0}

-----------------------------------------------------------------------------
(* BPRas.  A call pushes its own pc; the return matches it, +2 or +4.      *)

Ras0 == [stack |-> [i \in 0..(RasSize - 1) |-> 0], index |-> 0]

\* Mutant: the index does not wrap below zero.
rasPop_flat(r) == [r EXCEPT !.index = IF @ = 0 THEN 0 ELSE @ - 1]

rasPop(r) == [r EXCEPT !.index = IF @ = 0 THEN RasSize - 1 ELSE @ - 1]

rasPush(r, pc) == [r EXCEPT !.stack[r.index] = pc,
                            !.index = IF @ + 1 >= RasSize THEN 0 ELSE @ + 1]

rasCorrect(r, addr) == RasSize = 0 \/ \E skip \in {0, 2, 4} : r.stack[r.index] + skip = addr

rasPredict(f, ins, pc) ==
  CASE ins.kind = "ret" /\ RasSize # 0  -> [f EXCEPT !.ras = rasPop(@)]
    [] ins.kind = "call" /\ RasSize # 0 -> [f EXCEPT !.ras = rasPush(@, pc)]
    [] OTHER -> f

-----------------------------------------------------------------------------
(* BPredictor::predict.                                                    *)

Outcomes == {"Correct", "None", "NoBTB", "Miss"}
SLOW == -1   \* fastfix = false

\* The delay from the outcomes of the three levels.
delayOf(taken, o1, o2, o3) ==
  CASE taken /\ {o1, o2, o3} = {"Correct"} -> bpredDelay1
    [] ~taken /\ "Miss" \notin {o1, o2, o3} -> 0
    [] OTHER -> CASE o2 = "Correct" /\ o3 = "Correct" -> bpredDelay2
                  [] o2 # "Correct" /\ o3 = "Correct" -> bpredDelay3
                  [] OTHER -> SLOW

\* A first level sure of itself (bias) overrules a last one that is not.
answer(levels, bias, taken, o) ==
  LET o2 == IF levels > 1 /\ ~(bias /\ levels = 2) THEN o[2] ELSE o[1]
      o3 == IF levels > 2 /\ ~bias THEN o[3] ELSE o2
  IN delayOf(taken, o[1], o2, o3)

Delays(levels, taken) ==
  {d \in {SLOW, 0, bpredDelay1, bpredDelay2, bpredDelay3} :
     \E o \in [1..levels -> Outcomes], bias \in BOOLEAN : answer(levels, bias, taken, o) = d}

\* A return goes by the return address stack alone.
rasDelay(r, addr) == IF rasCorrect(r, addr) THEN bpredDelay1 ELSE SLOW

-----------------------------------------------------------------------------
Engine0 == [missInst |-> FALSE, missDinst |-> 0, pending |-> {},
            maxDelayPending |-> 0, maxDelayPendingDinst |-> 0,
            ras |-> Ras0, calls |-> << >>]

\* Mutant: a slow fix leaves the fast one of the block pending.
locked_pending(f, n) ==
  [f EXCEPT !.missInst = TRUE, !.missDinst = n,
            !.pending = @ \cup {[by |-> "execute", n |-> n, timer |-> 0]}]

\* A misprediction only the execution fixes.
locked(f, n) ==
  [f EXCEPT !.maxDelayPending = 0, !.maxDelayPendingDinst = 0,
            !.missInst = TRUE, !.missDinst = n,
            !.pending = @ \cup {[by |-> "execute", n |-> n, timer |-> 0]}]

processBranch(f, n, delay) ==
  CASE delay = SLOW -> locked(f, n)
    [] delay # SLOW /\ delay > f.maxDelayPending ->
         [f EXCEPT !.maxDelayPending = delay, !.maxDelayPendingDinst = n]
    [] OTHER -> f

\* The program's own calls: pc of instruction n is 8 * n, a return goes behind its call.
deeper(calls) ==
  [k \in DOMAIN calls |-> [calls[k] EXCEPT !.lost = @ \/ Len(calls) - k + 1 >= RasSize]]

called(f, ins, n) ==
  CASE ins.kind = "call" ->
         [f EXCEPT !.calls = Append(deeper(@), [pc |-> 8 * n, lost |-> FALSE])]
    [] ins.kind = "ret" -> [f EXCEPT !.calls = Front(@)]
    [] OTHER -> f

\* One turn of realfetch's loop; b.f the engine, b.n the last instruction fetched.
fetched(b, ins) ==
  LET n    == b.n + 1
      f    == rasPredict(b.f, ins, 8 * n)
      addr == Last(b.f.calls).pc + ins.size
      dly  == IF ins.kind = "ret" THEN rasDelay(f.ras, addr) ELSE ins.delay
      bb   == b.maxBB - (IF ins.taken THEN 1 ELSE 0)
      ctrl == ins.kind # "op"
  IN [b EXCEPT !.n = n, !.maxBB = bb,
               !.f = called(IF ctrl THEN processBranch(f, n, dly) ELSE f, ins, n),
               !.stop = ctrl /\ (dly = SLOW \/ bb < 1)]

\* Instructions the emulator may have next; a return needs a call to return from.
runs(b, ins) == ins.kind = "ret" => b.f.calls # << >>

turn(b, ins) == IF b.stop \/ ~runs(b, ins) THEN [b EXCEPT !.stop = TRUE] ELSE fetched(b, ins)

\* After the loop: the longest delay of the block stops fetch for as long.
delayed(f) ==
  IF f.maxDelayPending = 0 THEN f
  ELSE [f EXCEPT !.missInst = TRUE, !.missDinst = f.maxDelayPendingDinst,
                 !.pending = @ \cup {[by |-> "delay", n |-> f.maxDelayPendingDinst,
                                      timer |-> f.maxDelayPending]},
                 !.maxDelayPending = 0, !.maxDelayPendingDinst = 0]

realfetch(f, n, block) ==
  LET turns[k \in 0..Len(block)] ==
        IF k = 0 THEN [f |-> f, n |-> n, maxBB |-> max_bb_cycle, stop |-> FALSE]
        ELSE turn(turns[k - 1], block[k])
      b == turns[Len(block)]
  IN [f |-> delayed(b.f), n |-> b.n, stop |-> b.stop]

\* A clock passes for the callbacks.
nearer(u) == [u EXCEPT !.timer = IF @ = 0 THEN 0 ELSE @ - 1]
ticked(f) == [f EXCEPT !.pending = {nearer(u) : u \in f.pending}]

\* Called by u of f.pending.
clearMissInst(f, u) ==
  [f EXCEPT !.missInst = FALSE, !.missDinst = 0, !.pending = @ \ {u}]
=============================================================================
