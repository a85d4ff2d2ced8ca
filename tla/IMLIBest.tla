------------------------------ MODULE IMLIBest ------------------------------
(***************************************************************************)
(* The TAGE predictor of simu/imlibest.hpp in the build the repository has *)
(* (MEDIUM_TAGE: no loop predictor, no local histories, no POSTPREDICT)    *)
(* and without the statistical corrector, which every shipped              *)
(* configuration switches off.                                             *)
(*                                                                         *)
(* Predictions are made while a fetch block is open; what they teach is    *)
(* kept in deferred_ops and applied when the block ends.  Two things are   *)
(* NOT saved with a deferred update and are read when it is applied: the   *)
(* hit flag of a tagged entry, which select() writes into the entry, and   *)
(* the position pos_p that the bimodal table selected last.                *)
(***************************************************************************)
EXTENDS Integers, Sequences, FiniteSets, FiniteSetsExt, Bitwise

CONSTANT Imli   \* sizes and options: a record

nhist            == Imli.nhist
logg(bank)       == IF bank = 0 THEN 0 ELSE Imli.logg
log2_tage_nsub   == Imli.log2_tage_nsub
TB(bank)         == Imli.TBITS + (bank \div 2)
m(bank)          == IF bank = 0 THEN 0 ELSE Imli.m[bank]
PHISTWIDTH       == Imli.PHISTWIDTH
HISTBUFFERLENGTH == Imli.HISTBUFFERLENGTH
HASHBITS         == Imli.HASHBITS
CWIDTH == 3
UWIDTH == 1

Banks == 1..nhist

Shl(x, n) == x * 2^n
Shr(x, n) == x \div 2^n
Low(x, n) == x % 2^n
Mag(x)    == IF x < 0 THEN -x ELSE x
Bit(b)    == IF b THEN 1 ELSE 0
At(t, i, d)  == IF i \in DOMAIN t THEN t[i] ELSE d
Put(t, i, v) == [j \in DOMAIN t \cup {i} |-> IF j = i THEN v ELSE t[j]]

-----------------------------------------------------------------------------
\* Stand-ins for the 64-bit mixers: shifts and exclusive-ors of HASHBITS bits.
imli_bpred_hash(x) == Low(x ^^ Shr(x, 3), HASHBITS)
imli_bpred_hash2(addr, offset) ==
  imli_bpred_hash(imli_bpred_hash(addr) ^^ Low(Shl(offset, 2) ^^ Shr(offset, 1), HASHBITS))

ctrupdate(ctr, taken, nbits) ==
  IF taken THEN (IF ctr < 2^(nbits - 1) - 1 THEN ctr + 1 ELSE ctr)
           ELSE (IF ctr > -(2^(nbits - 1)) THEN ctr - 1 ELSE ctr)

Folds == {"i", "t0", "t1"}
CLENGTH(f, i) == CASE f = "i" -> logg(i) [] f = "t0" -> TB(i) [] f = "t1" -> TB(i) - 1

wrap(c, C) == Low(c ^^ Shr(c, C), C)

foldUpdate(comp, h, PT, OLENGTH, C) ==
  wrap((Shl(comp, 1) ^^ h[PT % HISTBUFFERLENGTH])
         ^^ Shl(h[(PT + OLENGTH) % HISTBUFFERLENGTH], OLENGTH % C), C)

\* What a register stands for: bit c is the parity of the history bits whose
\* age is c modulo the register's width.
foldOf(h, PT, OLENGTH, C) ==
  LET ones(c) == {j \in 0..OLENGTH - 1 :
                    j % C = c /\ h[(PT + j) % HISTBUFFERLENGTH] = 1}
  IN FoldSet(LAMBDA c, acc : acc + 2^c * (Cardinality(ones(c)) % 2), 0, 0..C - 1)

-----------------------------------------------------------------------------
(* The bimodal table.                                                      *)

bimSize == Imli.log2_bimodal + Imli.log2_bimodal_nsub

bimCtr(s) == At(s.bim, s.pos_p, 0)

bimSelect(s, fetchPC, boff) ==
  [s EXCEPT !.pos_p = Low(Low(Shl(fetchPC, Imli.log2_bimodal_nsub), bimSize)
                            + Low(boff, Imli.log2_bimodal_nsub), bimSize)]

bimHighconf(s) == Mag(2 * bimCtr(s) + 1) >= 2^Imli.bwidth - 1

\* A wide counter moves back by halves, a narrow one by ones.
bimNext(c, taken) ==
  CASE Imli.bwidth > 4 /\ taken /\ c < -1 -> -((-c) \div 2)
    [] Imli.bwidth > 4 /\ ~taken /\ c > 0 -> c \div 2
    [] OTHER -> ctrupdate(c, taken, Imli.bwidth)

bimUpdate(s, taken) == [s EXCEPT !.bim = Put(@, s.pos_p, bimNext(bimCtr(s), taken))]

-----------------------------------------------------------------------------
(* Entries of the tagged tables.                                           *)

gentry0 == [ctr |-> 0, u |-> 0, tag |-> 0, hit |-> FALSE]

ctr_update(e, taken) == IF e.hit THEN [e EXCEPT !.ctr = ctrupdate(@, taken, CWIDTH)] ELSE e
ctr_weak(e)     == ~e.hit \/ e.ctr \in {0, -1}
ctr_highconf(e) == e.hit /\ Mag(2 * e.ctr + 1) >= 2^CWIDTH - 1
ctr_isTaken(e)  == (IF e.hit THEN e.ctr ELSE 0) >= 0
u_inc(e) == [e EXCEPT !.u = IF @ < 2^UWIDTH - 1 THEN @ + 1 ELSE @]
u_dec(e) == [e EXCEPT !.u = IF @ > 0 THEN @ - 1 ELSE @]
reset(e, t, taken) == [e EXCEPT !.tag = t, !.ctr = IF taken THEN 0 ELSE -1, !.hit = TRUE]

get_tage_pos(s, bank) ==
  IF log2_tage_nsub > 0
  THEN Shl(s.GI[bank], log2_tage_nsub) + Low(s.GTAG[bank], log2_tage_nsub)
  ELSE s.GI[bank]

get_gentry(s, bank) == At(s.gtable, <<bank, get_tage_pos(s, bank)>>, gentry0)
set_gentry(s, bank, e) == [s EXCEPT !.gtable = Put(@, <<bank, get_tage_pos(s, bank)>>, e)]

-----------------------------------------------------------------------------
(* Hashes.                                                                 *)

rot(x, bank) == Low(Shl(x, bank), logg(bank)) + Shr(x, logg(bank) - bank)

F(A, size, bank) ==
  rot(Low(A, Min({size, logg(bank)})) ^^ rot(Shr(Low(A, size), logg(bank)), bank), bank)

gindex(s, PC, bank) ==
  Low(((PC ^^ Shr(PC, Mag(logg(bank) - bank) + 1))
         ^^ (IF bank = 0 THEN 0 ELSE s.ch[<<"i", bank>>]))
        ^^ F(s.phist, Min({m(bank), PHISTWIDTH}), bank),
      logg(bank))

setTAGEIndex(s) ==
  [s EXCEPT !.GI = [i \in 0..nhist |-> IF i = 0 THEN s.lastBoundaryPC
                                       ELSE gindex(s, s.lastBoundaryPC, i)]]

setTAGETag(s, PC) ==
  [s EXCEPT !.GTAG = [i \in Banks |-> Low(imli_bpred_hash2(gindex(s, PC, i - 1), PC), TB(i))]]

-----------------------------------------------------------------------------
reinit ==
  [bim |-> <<>>, pos_p |-> 0, gtable |-> <<>>,
   ghist |-> [i \in 0..HISTBUFFERLENGTH - 1 |-> 0], ptghist |-> 0,
   ch |-> [fi \in Folds \X Banks |-> 0], phist |-> 0, TICK |-> 0,
   use_alt_on_na |-> [x \in (0..3) \X BOOLEAN |-> 0],
   GI |-> [i \in 0..nhist |-> 0], GTAG |-> [i \in Banks |-> 0],
   lastBoundaryPC |-> 0, lastBoundaryID |-> 0, deferred_ops |-> <<>>]

fetchBoundaryBegin(s, PC, ID) ==
  setTAGEIndex([s EXCEPT !.lastBoundaryPC = imli_bpred_hash(PC), !.lastBoundaryID = ID])

\* Every bank's entry notes whether the branch hits it.
noteHit(s, i, e) == set_gentry(s, i, [e EXCEPT !.hit = s.GTAG[i] = e.tag])
noteHits(s) == FoldSet(LAMBDA i, acc : noteHit(acc, i, get_gentry(acc, i)), s, Banks)

select_tage_entries(s, offset) ==
  noteHits(bimSelect(s, s.GI[0], imli_bpred_hash2(s.lastBoundaryPC, offset)))

INDUSEALT(s, dir) == (s.lastBoundaryPC % 4) ^^ Bit(dir)

\* The prediction: the longest hit, or the alternate one when the longest is
\* weak and the alternate has been the better choice.
longest(s, n) == Max({0} \cup {i \in 1..n : get_gentry(s, i).hit})

dirOf(s, b) == IF b > 0 THEN ctr_isTaken(get_gentry(s, b)) ELSE bimCtr(s) >= 0
confOf(s, b) == IF b > 0 THEN ctr_highconf(get_gentry(s, b)) ELSE bimHighconf(s)

useAlt(s, HitBank) ==
  /\ HitBank > 0
  /\ s.use_alt_on_na[<<INDUSEALT(s, dirOf(s, HitBank)), HitBank > nhist \div 3>>] >= 0
  /\ ctr_weak(get_gentry(s, HitBank))

predFrom(s, HitBank, AltBank, from) ==
  [HitBank |-> HitBank, AltBank |-> AltBank, LongestMatchPred |-> dirOf(s, HitBank),
   alttaken |-> dirOf(s, AltBank), tage_pred |-> dirOf(s, from),
   HighConf |-> confOf(s, from)]
predOf(s, HitBank, AltBank) ==
  predFrom(s, HitBank, AltBank, IF useAlt(s, HitBank) THEN AltBank ELSE HitBank)
predHit(s, HitBank) == predOf(s, HitBank, longest(s, HitBank - 1))

setTAGEPred(s) == predHit(s, longest(s, nhist))

\* The prediction of the branch, and the update to apply when the block ends.
predicted(s) == [s |-> s, p |-> setTAGEPred(s)]

getPrediction(s, PC, offset) ==
  predicted(select_tage_entries(
    setTAGETag(s, IF Imli.use_tag_offset THEN imli_bpred_hash2(s.lastBoundaryPC, offset)
                  ELSE imli_bpred_hash(PC)), offset))

deferPredictorUpdate(g, PC, taken, target, no_alloc) ==
  [g.s EXCEPT !.deferred_ops = Append(@,
     [update |-> TRUE, pc |-> PC, op |-> "LBRANCH", taken |-> taken, target |-> target,
      no_alloc |-> no_alloc, p |-> g.p, GI |-> g.s.GI, GTAG |-> g.s.GTAG])]

TrackOtherInst(s, PC, op, target) ==
  [s EXCEPT !.deferred_ops = Append(@,
     [update |-> FALSE, pc |-> PC, op |-> op, taken |-> TRUE, target |-> target])]

-----------------------------------------------------------------------------
(* The end of a block.                                                     *)

pushAt(s, Y, h, PATH) ==
  [s EXCEPT !.ptghist = Y, !.ghist = h,
     !.phist = Low(Shl(@, 1) ^^ (PATH % 128), PHISTWIDTH),
     !.ch = [fi \in Folds \X Banks |->
               foldUpdate(@[fi], h, Y, m(fi[2]), CLENGTH(fi[1], fi[2]))]]

pushBit(s, Y, b, PATH) == pushAt(s, Y, [s.ghist EXCEPT ![Y] = b], PATH)

RECURSIVE pushBits(_, _, _, _)
pushBits(s, T, PATH, n) ==
  IF n = 0 THEN s
  ELSE pushBits(pushBit(s, (s.ptghist + HISTBUFFERLENGTH - 1) % HISTBUFFERLENGTH, T % 2, PATH),
                Shr(T, 1), Shr(PATH, 1), n - 1)

\* One bit for a conditional branch, four for any other control instruction.
HistoryUpdate(s, PC, op, taken) ==
  pushBits(s, 2 * PC + Bit(taken), PC, IF op = "LBRANCH" THEN 1 ELSE 4)

\* Up to two entries with u = 0, not adjacent, in banks longer than the hit.
RECURSIVE allocFrom(_, _, _, _, _)
allocFrom(s, i, taken, NA, Penalty) ==
  CASE i > nhist \/ NA = 2 -> [s |-> s, NA |-> NA, Penalty |-> Penalty]
    [] i <= nhist /\ NA < 2 ->
         IF get_gentry(s, i).u = 0
         THEN allocFrom(set_gentry(s, i, reset(get_gentry(s, i), s.GTAG[i], taken)),
                        i + 2, taken, NA + 1, Penalty)
         ELSE allocFrom(s, i + 1, taken, NA, Penalty + 1)

\* When none is free often enough, the entries in the way lose their use.
clampTick(t) == Max({-127, Min({t, 63})})

decay(s, banks) ==
  [FoldSet(LAMBDA i, acc : set_gentry(acc, i, u_dec(get_gentry(acc, i))), s, banks)
     EXCEPT !.TICK = @ - Cardinality(banks)]

ticked(s, HitBank, NA) ==
  IF NA > 0 \/ s.TICK <= 0 THEN s ELSE decay(s, (HitBank + 1)..nhist)

settle(a, HitBank) ==
  ticked([a.s EXCEPT !.TICK = clampTick(@ + a.Penalty - a.NA)], HitBank, a.NA)

allocate(s, HitBank, taken) == settle(allocFrom(s, HitBank + 1, taken, 0, 0), HitBank)

\* Is the hitting entry taken to be newly allocated?
PseudoNewAlloc(s, p) == p.HitBank > 0 /\ ctr_weak(get_gentry(s, p.HitBank))

\* The choice between longest and alternate match, and the allocation.
learnAlt(s, p, taken) ==
  IF PseudoNewAlloc(s, p) /\ p.LongestMatchPred # p.alttaken
  THEN [s EXCEPT !.use_alt_on_na[<<INDUSEALT(s, p.LongestMatchPred), p.HitBank > nhist \div 3>>]
                   = ctrupdate(@, p.alttaken = taken, 4)]
  ELSE s

ALLOC(s, e) == /\ e.p.tage_pred # e.taken
               /\ e.p.HitBank < nhist
               /\ ~(PseudoNewAlloc(s, e.p) /\ e.p.LongestMatchPred = e.taken)
               /\ e.no_alloc

chooseUpdate(s, e) ==
  IF ALLOC(s, e) THEN allocate(learnAlt(s, e.p, e.taken), e.p.HitBank, e.taken)
  ELSE learnAlt(s, e.p, e.taken)

\* The counters: the hit's, then the alternate's if the hit is of no use yet
\* or else the bimodal one, then the usefulness of the hit.
hitEntry(h, p, taken) ==
  ctr_update(IF h.hit /\ p.LongestMatchPred # taken THEN u_dec(h) ELSE h, taken)

trainHit(s, p, taken) ==
  set_gentry(s, p.HitBank, hitEntry(get_gentry(s, p.HitBank), p, taken))

trainAlt(s, p, taken) ==
  IF get_gentry(s, p.HitBank).u = 0 /\ p.AltBank > 0
  THEN set_gentry(s, p.AltBank, ctr_update(get_gentry(s, p.AltBank), taken))
  ELSE bimUpdate(s, taken)

trainUse(s, p, taken) ==
  CASE p.LongestMatchPred = p.alttaken -> s
    [] p.LongestMatchPred # p.alttaken /\ p.LongestMatchPred = taken ->
         set_gentry(s, p.HitBank, u_inc(get_gentry(s, p.HitBank)))
    [] OTHER -> set_gentry(s, p.HitBank, u_dec(get_gentry(s, p.HitBank)))

trainTables(s, e) ==
  IF e.p.HitBank = 0 THEN bimUpdate(s, e.taken)
  ELSE trainUse(trainAlt(trainHit(s, e.p, e.taken), e.p, e.taken), e.p, e.taken)

restore(s, e) == [s EXCEPT !.GI = e.GI, !.GTAG = e.GTAG]

applyDeferredPredictorUpdate(s, e) == trainTables(chooseUpdate(restore(s, e), e), e)

applyOp(s, e) ==
  setTAGEIndex(HistoryUpdate(IF e.update THEN applyDeferredPredictorUpdate(s, e) ELSE s,
                             e.pc, e.op, e.taken))

RECURSIVE applyAll(_)
applyAll(s) ==
  IF s.deferred_ops = <<>> THEN s
  ELSE applyAll([applyOp(s, Head(s.deferred_ops)) EXCEPT !.deferred_ops = Tail(@)])

fetchBoundaryEnd(s) == applyAll(s)
=============================================================================
