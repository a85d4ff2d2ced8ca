------------------------------ MODULE Tahead1 -------------------------------
(***************************************************************************)
(* The smaller TAGE-SC predictor of simu/tahead1.hpp.  The file is         *)
(* tahead.hpp again with its macros renamed and other sizes (6 histories,  *)
(* tables of 2^10 entries), and a getPrediction that also reports a low    *)
(* confidence, taken from the wrong global.  The methods that are the same *)
(* text are Tahead's with tahead1's macros.                                *)
(***************************************************************************)
EXTENDS Integers, TLC, Bitwise

CONSTANT Macros1

LOCAL T == INSTANCE Tahead WITH Macros <- Macros1

reinit(rnd)            == T!reinit(rnd)
setIndexes(s, PC)      == T!setIndexes(s, PC)
Tagepred(s)            == T!Tagepred(s)
scSums(s, p)           == T!scSums(s, p)
scUpdate(s, g, dir)    == T!scUpdate(s, g, dir)
confUpdate(s, p)       == T!confUpdate(s, p)
allocate(s, g, dir)    == T!allocate(s, g, dir)
ctrLearn(s, p, dir)    == T!ctrLearn(s, p, dir)
uLearn(s, g, dir)      == T!uLearn(s, g, dir)
HistoryUpdate(s, PC, op, taken, target) == T!HistoryUpdate(s, PC, op, taken, target)
TrackOtherInst(s, PC, op, taken, target) == HistoryUpdate(s, PC, op, taken, target)

\* bias and lowconf are read from TAHEAD_TAGECONF, the confidence of the other
\* predictor's (tahead.hpp's) last prediction: 0 when there is no other one.
decide(s, p, sum, TAHEAD_TAGECONF) ==
  [T!decide(s, p, sum) EXCEPT !.bias = TAHEAD_TAGECONF >= 1]
    @@ [lowconf |-> TAHEAD_TAGECONF = 1]

corrected(s, p, conf) == decide(s, p, scSums(s, p), conf)
predicted(s, conf)    == corrected(s, Tagepred(s), conf)

getPrediction(s, TAHEAD_TAGECONF) ==
  predicted(setIndexes(s, s.PCBLOCK ^^ T!Shl(s.Numero, 5)), TAHEAD_TAGECONF)

updatePredictor(g, PC, op, dir, target) ==
  HistoryUpdate(
    uLearn(ctrLearn(allocate(confUpdate(scUpdate(g.s, g, dir), g.p), g, dir), g.p, dir), g, dir),
    PC, op, dir, target)
=============================================================================
