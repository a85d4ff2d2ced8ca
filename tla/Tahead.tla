------------------------------- MODULE Tahead -------------------------------
(***************************************************************************)
(* The TAGE-SC predictor of simu/tahead.hpp: a bimodal table, tagged       *)
(* tables indexed with folded global histories, and a statistical          *)
(* corrector that may overrule them.  The module is the predictor's data   *)
(* type: operators from a state record to a state record, one per method,  *)
(* in the build the repository has (TAHEAD_AHEAD 0, TAHEAD_SC with         *)
(* TAHEAD_SCFULL, none of TAHEAD_OPTTAGE, TAHEAD_INTERLEAVED,              *)
(* TAHEAD_DELAY_UPDATE).                                                   *)
(*                                                                         *)
(* Tables are kept sparse (only the entries written so far).  Registers    *)
(* that are only read through a mask keep the bits under it.  The          *)
(* pseudo-random generator is a cyclic stream of draws, part of the state. *)
(***************************************************************************)
EXTENDS Integers, Sequences, FiniteSets, FiniteSetsExt, Bitwise

CONSTANT Macros   \* the #defines: a record

NHIST            == Macros.NHIST
LOGG             == Macros.LOGG
ASSOC            == 2^Macros.LOGASSOC
LOGB             == Macros.LOGB
LOGBIAS          == Macros.LOGBIAS
TBITS            == Macros.TBITS
MAXBR            == Macros.MAXBR
LOGREAD          == Macros.LOGREAD           \* NBREADPERTABLE is 2^LOGREAD
PHISTWIDTH       == Macros.PHISTWIDTH
HISTBUFFERLENGTH == Macros.HISTBUFFERLENGTH
BORNTICK         == Macros.BORNTICK
m                == Macros.m                 \* history lengths, in bits
HYSTSHIFT == 1
BIMWIDTH  == 3
CWIDTH    == 3
UWIDTH    == 2
PERCWIDTH == 6
WIDTHRES  == 8
CountMiss11 == -64                           \* moves with FILTERALLOCATION only

Banks == 1..NHIST

Shl(x, n) == x * 2^n
Shr(x, n) == x \div 2^n
Low(x, n) == x % 2^n
Mag(x)    == IF x < 0 THEN -x ELSE x
Bit(b)    == IF b THEN 1 ELSE 0
At(t, i, d)  == IF i \in DOMAIN t THEN t[i] ELSE d
Put(t, i, v) == [j \in DOMAIN t \cup {i} |-> IF j = i THEN v ELSE t[j]]

-----------------------------------------------------------------------------
(* Folded histories: three registers per bank, one for the index and two   *)
(* for the tag, of different widths.                                       *)

Folds == {"i", "t0", "t1"}

CLENGTH(f, i) == CASE f = "i"  -> Macros.CI[i]
                   [] f = "t0" -> Macros.CT0
                   [] f = "t1" -> Macros.CT1

wrap(c, C) == Low(c ^^ Shr(c, C), C)

\* Mutant: the outgoing bit is taken out one place off.
foldUpdate_off(comp, h, PT, OLENGTH, C) ==
  wrap((Shl(comp, 1) ^^ h[PT % HISTBUFFERLENGTH])
         ^^ Shl(h[(PT + OLENGTH) % HISTBUFFERLENGTH], (OLENGTH + 1) % C), C)

foldUpdate(comp, h, PT, OLENGTH, C) ==
  wrap((Shl(comp, 1) ^^ h[PT % HISTBUFFERLENGTH])
         ^^ Shl(h[(PT + OLENGTH) % HISTBUFFERLENGTH], OLENGTH % C), C)

\* What a register stands for: bit c is the parity of the history bits whose
\* age is c modulo the register's width.
foldOf(h, PT, OLENGTH, C) ==
  LET ones(c) == {j \in 0..OLENGTH - 1 :
                    j % C = c /\ h[(PT + j) % HISTBUFFERLENGTH] = 1}
  IN FoldSet(LAMBDA c, acc : acc + 2^c * (Cardinality(ones(c)) % 2), 0, 0..C - 1)

-----------------------------------------------------------------------------
gentry == [ctr |-> 0, tag |-> 0, u |-> 0]

\* Empty tables; the members that reinit() and the globals start at 0.
reinit(rnd) ==
  [bpred |-> <<>>, bhyst |-> <<>>, gtable |-> <<>>, sc |-> <<>>,
   ghist |-> [i \in 0..HISTBUFFERLENGTH - 1 |-> 0], ptghist |-> 0,
   ch |-> [fi \in Folds \X Banks |-> 0], phist |-> 0, GH |-> 0,
   Numero |-> 0, PCBLOCK |-> 0,
   AHGI |-> [i \in Banks |-> 0], AHGTAG |-> [i \in Banks |-> 0],
   TaIMLI |-> 0, BrIMLI |-> 0, F_TaIMLI |-> 0, F_BrIMLI |-> 0,
   BHIST |-> 0, FHIST |-> 0, BBHIST |-> 0, LastBack |-> 0, LastBackPC |-> 0,
   updatethreshold |-> 23, CountLowConf |-> 0, TICK |-> 0, rnd |-> rnd]

getTableSize == 2^LOGG * ASSOC

gtableEntry(s, i, j) == At(s.gtable, <<i, j % getTableSize>>, gentry)

setGtable(s, i, j, e) == [s EXCEPT !.gtable = Put(@, <<i, j % getTableSize>>, e)]

MYRANDOM(s) == Head(s.rnd)
drawn(s) == [s EXCEPT !.rnd = Append(Tail(@), Head(@))]

ctrupdate(ctr, taken, nbits) ==
  IF taken THEN (IF ctr < 2^(nbits - 1) - 1 THEN ctr + 1 ELSE ctr)
           ELSE (IF ctr > -(2^(nbits - 1)) THEN ctr - 1 ELSE ctr)

weak(ctr) == Mag(2 * ctr + 1) = 1

-----------------------------------------------------------------------------
(* Index and tag hashes.                                                   *)

rot(x, bank) == IF bank < LOGG
                THEN Low(Shl(x, bank), LOGG) ^^ Shr(x, LOGG - bank) ELSE x

F(A, size, bank) == rot(Low(A, Min({size, LOGG})) ^^ rot(Shr(Low(A, size), LOGG), bank), bank)

histWidth(bank) == IF m[bank] > PHISTWIDTH THEN PHISTWIDTH ELSE m[bank]

foldIndex(x) == Low((x ^^ Shr(x, LOGG)) ^^ Shr(x, 2 * LOGG), LOGG)

gindex(s, PC, bank) ==
  foldIndex(((PC ^^ Shr(PC, Mag(LOGG - bank) + 1)) ^^ s.ch[<<"i", bank>>])
              ^^ F(s.phist, histWidth(bank), bank))

xorHigh(x, n) == x ^^ Shr(x, n)
tagOfPC(t) == Shr(t, 1) ^^ Shl(t % 2, 10)

gtag(s, PC, bank) ==
  Low(xorHigh(xorHigh((tagOfPC(xorHigh(PC, 2)) ^^ F(s.phist, histWidth(bank), bank))
                        ^^ (s.ch[<<"t0", bank>>] ^^ Shl(s.ch[<<"t1", bank>>], 1)),
                      TBITS),
              TBITS - 2),
      TBITS)

-----------------------------------------------------------------------------
(* Prediction.                                                             *)

\* The bimodal counter, from its direction and its shared hysteresis bits.
bimOf(pred, hyst) ==
  [BIM |-> IF pred = 1 THEN hyst ELSE -1 - hyst, pred |-> pred = 1,
   conf |-> 3 * Bit(hyst # 0)]

getbim(s, BI) == bimOf(At(s.bpred, BI, 0), At(s.bhyst, Shr(BI, HYSTSHIFT), 1))

setBim(s, BI, inter) ==
  [s EXCEPT !.bpred = Put(@, BI, Bit(inter >= 0)),
            !.bhyst = Put(@, Shr(BI, HYSTSHIFT), IF inter >= 0 THEN inter ELSE -inter - 1)]

baseupdate(s, BI, BIM, taken) == setBim(s, BI, ctrupdate(BIM, taken, BIMWIDTH))

\* The indexes of a block are computed for its first branch and kept.
setIndexes(s, PC) ==
  IF s.Numero # 0 THEN s
  ELSE [s EXCEPT !.AHGI = [i \in Banks |-> gindex(s, PC, i)],
                 !.AHGTAG = [i \in Banks |-> gtag(s, PC, i)]]

\* Where bank i is read for the current branch: the entry of way 0, and the tag.
GI(s, i) == (s.AHGI[i] ^^ Shl(Low(s.Numero, LOGREAD),
                              LOGG - Macros.LOGASSOC - LOGREAD)) * ASSOC
GTAG(s, i) == s.AHGTAG[i] ^^ s.Numero

\* The longest matching bank up to n whose entry satisfies ok, with its first
\* matching way; bank 0 if there is none.
hits(s, n, ok(_)) ==
  {ij \in (1..n) \X (0..ASSOC - 1) :
     \E e \in {gtableEntry(s, ij[1], GI(s, ij[1]) + ij[2])} :
        e.tag = GTAG(s, ij[1]) /\ ok(e)}
first(s, h) ==
  IF h = {} THEN [bank |-> 0, idx |-> 0]
  ELSE LET bank == Max({x[1] : x \in h})
       IN [bank |-> bank, idx |-> GI(s, bank) + Min({x[2] : x \in {g \in h : g[1] = bank}})]
longest(s, n, ok(_)) == first(s, hits(s, n, ok))
any(e) == TRUE
strong(e) == ~weak(e.ctr)

hitCtr(s, h) == gtableEntry(s, h.bank, h.idx).ctr
hitDir(s, h, bim) == IF h.bank > 0 THEN hitCtr(s, h) >= 0 ELSE bim.pred

tageOf(s, BI, bim, hit, alt) ==
  [BI |-> BI, BIM |-> bim.BIM, hit |-> hit, alt |-> alt,
   LongestMatchPred |-> hitDir(s, hit, bim), alttaken |-> hitDir(s, alt, bim),
   HCpred |-> hitDir(s, IF hit.bank > 0 /\ weak(hitCtr(s, hit))
                        THEN longest(s, hit.bank - 1, strong) ELSE hit, bim),
   TAGECONF |-> IF hit.bank > 0 THEN Mag(2 * hitCtr(s, hit) + 1) \div 2 ELSE bim.conf]

tageAlt(s, BI, hit) ==
  tageOf(s, BI, getbim(s, BI), hit, longest(s, hit.bank - 1, any))

Tagepred(s) ==
  tageAlt(s, Low(s.PCBLOCK ^^ Shl(Low(s.Numero, LOGREAD), LOGB - LOGREAD), LOGB),
          longest(s, NHIST, any))

(* The statistical corrector: the counters it adds, with their weights.    *)

PSNUM(s) == Shl(s.Numero % MAXBR, 2)

INDBIASPC(s) ==
  Low(s.PCBLOCK ^^ Shr(s.PCBLOCK, LOGBIAS - 5), LOGBIAS) ^^ PSNUM(s)

scBias(s, p) ==
  [LMAP   |-> Bit(p.LongestMatchPred) + 2 * Bit(p.HCpred),
   PC     |-> INDBIASPC(s),
   PCLMAP |-> INDBIASPC(s)
                ^^ Shl(Bit(p.LongestMatchPred) + 2 * Bit(p.HCpred), LOGBIAS - 2)]

scFull(s) ==
  LET ind(x, h, y) == Low((x ^^ h) ^^ y, LOGBIAS) ^^ PSNUM(s)
      b == s.PCBLOCK
  IN [BBIAS  |-> ind(b, s.BHIST, Shr(b, LOGBIAS - 4)),
      FBIAS  |-> ind(b, s.FHIST, Shr(b, LOGBIAS - 3)),
      IIBIAS |-> ind(b, s.F_BrIMLI, Shr(b, LOGBIAS - 6)),
      IBIAS  |-> ind(Shr(b, 4), s.F_TaIMLI, Shl(b, LOGBIAS - 4))]

scInit(t, j) ==
  CASE t \in {"LMAP", "PC"} -> 0
    [] t = "PCLMAP" -> <<-8, 7, -32, 31>>[(j % 4) + 1]
    [] OTHER -> IF j % 2 = 0 THEN -1 ELSE 0

incval(s, ind, t) == 2 * At(s.sc, <<t, ind[t]>>, scInit(t, ind[t])) + 1

\* The sum without and with the histories' counters.
sumBias(s, bias) == incval(s, bias, "LMAP") + 2 * incval(s, bias, "PC")
                      + incval(s, bias, "PCLMAP")
sumFull(s, full) == incval(s, full, "IIBIAS") + incval(s, full, "FBIAS")
                      + incval(s, full, "BBIAS") + incval(s, full, "IBIAS")
sumsOf(tsc, full) == [tsc |-> tsc, all |-> tsc + 2 * full]
scSums(s, p) == sumsOf(sumBias(s, scBias(s, p)), sumFull(s, scFull(s)))

\* A saturated TAGE counter wins over a sum close to 0.
decide(s, p, sum) ==
  [s |-> s, p |-> p, SUMSC |-> sum.all, predTSC |-> sum.tsc >= 0,
   pred_taken |-> IF p.TAGECONF = 3 /\ Mag(sum.all) < s.updatethreshold \div 2
                  THEN p.LongestMatchPred ELSE sum.all >= 0,
   bias |-> p.TAGECONF >= 1]

corrected(s, p) == decide(s, p, scSums(s, p))
predicted(s)    == corrected(s, Tagepred(s))

getPrediction(s) == predicted(setIndexes(s, s.PCBLOCK ^^ Shl(s.Numero, 5)))

-----------------------------------------------------------------------------
(* Histories.                                                              *)

indirect(op) == op \in {"RJUMP", "RCALL", "RBRANCH", "RET"}

\* Iteration counters, from backward direct branches to a nearby target.
count(n) == IF n < 2^LOGBIAS - 1 THEN n + 1 ELSE n
pushBack(bb, same, last) == IF same THEN bb ELSE Low(Shl(bb, 1) ^^ last, LOGBIAS)

backward(s, lb, lp) ==
  [s EXCEPT !.TaIMLI = IF lb = s.LastBack THEN count(@) ELSE 0,
            !.BrIMLI = IF lp = s.LastBackPC THEN count(@) ELSE 0,
            !.BBHIST = pushBack(pushBack(@, lb = s.LastBack, s.LastBack),
                                lp = s.LastBackPC, s.LastBackPC),
            !.LastBack = lb, !.LastBackPC = lp]

imliUpdate(s, PC, op, taken, target) ==
  IF indirect(op) \/ ~taken \/ target >= PC THEN s
  ELSE backward(s, Shr(target % 65536, 6), Shr(PC % 65536, 6))

\* One bit enters the circular history, and every folded register.
pushAt(s, Y, h) ==
  [s EXCEPT !.ptghist = Y, !.ghist = h,
     !.ch = [fi \in Folds \X Banks |->
               foldUpdate(@[fi], h, Y, m[fi[2]], CLENGTH(fi[1], fi[2]))]]

pushBit(s, Y, b) == pushAt(s, Y, [s.ghist EXCEPT ![Y] = b])

\* Four bits per block, the lowest first.
RECURSIVE pushBits(_, _, _)
pushBits(s, T, n) ==
  IF n = 0 THEN s
  ELSE pushBits(pushBit(s, (s.ptghist + HISTBUFFERLENGTH - 1) % HISTBUFFERLENGTH, T % 2),
                Shr(T, 1), n - 1)

mix(x) == x ^^ Shr(x, 4)

\* The path registers, with the block's hash pcb, its number num and the next address.
paths(s, PC, taken, target, pcb, num, next) ==
  [s EXCEPT
     !.GH = Low(Shl(Shl(@, 2) ^^ PC, 2) ^^ (s.Numero ^^ mix(next)), LOGBIAS),
     !.FHIST = IF taken /\ target > PC
               THEN Low((Shl(@, 3) ^^ Shr(target, 2)) ^^ Shr(PC, 1), LOGBIAS) ELSE @,
     !.phist = Low(Shl(@, 4) ^^ ((((pcb ^^ Shr(pcb, 2)) ^^ Shr(pcb, 4)) ^^ target)
                                    ^^ Shl(num, 3)), PHISTWIDTH),
     !.Numero = 0, !.PCBLOCK = mix(next)]

closeBlock(s, PC, op, taken, target, pcb, num) ==
  pushBits(paths(imliUpdate(s, PC, op, taken, target), PC, taken, target, pcb, num,
                 IF taken THEN target ELSE PC + 1),
           ((pcb ^^ Shr(pcb, 2)) ^^ num) ^^ Shr(target, 3), 4)

\* A taken branch, or the last one a block may hold, ends the block.
endBlock(s, PC, op, taken, target) ==
  closeBlock(s, PC, op, taken, target,
             s.PCBLOCK ^^ Shl(s.Numero, 5), 2 * s.Numero + Bit(taken))

\* Mutant: a not-taken branch also moves the path history.
HistoryUpdate_path(s, PC, op, taken, target) ==
  IF s.Numero = MAXBR - 1 \/ taken THEN endBlock(s, PC, op, taken, target)
  ELSE [s EXCEPT !.Numero = @ + 1, !.phist = Low(Shl(@, 4) ^^ PC, PHISTWIDTH)]

\* The histories that the corrector is indexed with.
scHistories(u) ==
  [u EXCEPT
     !.BHIST = IF u.BrIMLI = 0 THEN u.BBHIST
               ELSE Low(((u.BBHIST % 16) + Shl(u.BrIMLI, 6)) ^^ Shr(u.BrIMLI, 4), LOGBIAS),
     !.F_TaIMLI = IF u.TaIMLI = 0 \/ u.BrIMLI = u.TaIMLI THEN u.GH ELSE u.TaIMLI,
     !.F_BrIMLI = IF u.BrIMLI = 0 THEN u.phist ELSE u.BrIMLI]

HistoryUpdate(s, PC, op, taken, target) ==
  scHistories(IF s.Numero = MAXBR - 1 \/ taken
              THEN endBlock(s, PC, op, taken, target)
              ELSE [s EXCEPT !.Numero = @ + 1])

TrackOtherInst(s, PC, op, taken, target) == HistoryUpdate(s, PC, op, taken, target)

-----------------------------------------------------------------------------
(* Update.                                                                 *)

\* The corrector learns when it is wrong or its sum is below the threshold.
scKeys(ind) == {<<t, ind[t]>> : t \in DOMAIN ind}

scTrain(s, keys, dir) ==
  [s EXCEPT !.sc = [k \in DOMAIN s.sc \cup keys |->
                      IF k \in keys
                      THEN ctrupdate(At(s.sc, k, scInit(k[1], k[2])), dir, PERCWIDTH)
                      ELSE s.sc[k]]]

scThreshold(s, right) ==
  [s EXCEPT !.updatethreshold = IF right THEN (IF @ > 0 THEN @ - 1 ELSE @)
                                ELSE (IF @ < 2^WIDTHRES - 1 THEN @ + 1 ELSE @)]

scUpdate(s, g, dir) ==
  IF (g.SUMSC >= 0) = dir /\ Mag(g.SUMSC) >= s.updatethreshold THEN s
  ELSE scTrain(scThreshold(s, (g.SUMSC >= 0) = dir),
               scKeys(scBias(s, g.p)) \cup scKeys(scFull(s)), dir)

\* Every fourth confident hit, and every weak one, moves CountLowConf.
confUpdate(s, p) ==
  LET counts(t) == [t EXCEPT !.CountLowConf = ctrupdate(@, p.TAGECONF = 0, 7)]
  IN CASE p.hit.bank = 0 -> s
       [] p.hit.bank > 0 /\ p.TAGECONF = 0 -> counts(s)
       [] OTHER -> IF MYRANDOM(s) % 4 = 0 THEN counts(drawn(s)) ELSE drawn(s)

\* One entry with u = 0 among the ways of bank i, tried from a random one on,
\* becomes the branch's.
ways(s) == [J \in 1..ASSOC |-> (MYRANDOM(s) + J) % ASSOC]
freeWays(s, i, w) == {J \in 1..ASSOC : gtableEntry(s, i, GI(s, i) + w[J]).u = 0}
take(s, i, w, free, dir) ==
  setGtable(drawn(s), i, GI(s, i) + w[Min(free)],
            [ctr |-> IF dir THEN 0 ELSE -1, tag |-> GTAG(s, i), u |-> 0])
\* Three draws decide how many banks are skipped after an allocation.
hop(r) == 2 - Bit(r[1] % 2 = 0) + Bit(r[2] % 2 = 0) + Bit(r[3] % 4 = 0)
next3(s) == LET at(k) == s.rnd[((k - 1) % Len(s.rnd)) + 1] IN <<at(1), at(2), at(3)>>

RECURSIVE allocFrom(_, _, _, _, _, _, _)
allocFrom(s, i, dir, NA, Penalty, MaxNALLOC, First) ==
  LET free == freeWays(s, i, ways(s))
      left == IF i >= 3 \/ ~First THEN MaxNALLOC - 1 ELSE MaxNALLOC
      taken(t) == IF left < 0 THEN [s |-> t, NA |-> NA + 1, Penalty |-> Penalty]
                  ELSE allocFrom(drawn(drawn(drawn(t))), i + hop(next3(t)) + 1, dir,
                                 NA + 1, Penalty, left, FALSE)
  IN CASE i > NHIST -> [s |-> s, NA |-> NA, Penalty |-> Penalty]
       [] i <= NHIST /\ free = {} ->
            allocFrom(drawn(s), i + 1, dir, NA, Penalty + 1, MaxNALLOC, First)
       [] i <= NHIST /\ free # {} -> taken(take(s, i, ways(s), free, dir))

\* Failed allocations tick; at BORNTICK every useful counter loses one.
setTick(s, t) ==
  CASE t < 0 -> [s EXCEPT !.TICK = 0]
    [] t >= BORNTICK -> [s EXCEPT !.TICK = 0,
         !.gtable = [k \in DOMAIN @ |-> [@[k] EXCEPT !.u = IF @ > 0 THEN @ - 1 ELSE 0]]]
    [] OTHER -> [s EXCEPT !.TICK = t]

tick(a) == setTick(a.s, a.s.TICK + a.Penalty - 2 * a.NA)

allocate(s, g, dir) ==
  IF g.p.hit.bank = NHIST \/ g.p.LongestMatchPred = dir \/ g.predTSC = dir THEN s
  ELSE tick(allocFrom(drawn(drawn(s)),
                      g.p.hit.bank + 1 + Bit(next3(s)[1] % 2 = 0) + Bit(next3(s)[2] % 4 = 0),
                      dir, 0, 0, Bit(CountMiss11 < 0) + 8 * Bit(s.CountLowConf >= 0), TRUE))

\* The counter that predicted, or the bimodal one, moves towards dir.
moved(e, dir) == [e EXCEPT !.ctr = ctrupdate(@, dir, CWIDTH)]

ctrLearn(s, p, dir) ==
  IF p.hit.bank = 0 THEN baseupdate(s, p.BI, p.BIM, dir)
  ELSE setGtable(s, p.hit.bank, p.hit.idx, moved(gtableEntry(s, p.hit.bank, p.hit.idx), dir))

\* u counts the times the longest match beat the alternate prediction.
useful(e, g, dir) ==
  [e EXCEPT !.u = IF g.p.LongestMatchPred = dir
                  THEN (IF @ < 2^UWIDTH - 1 THEN @ + 1 ELSE @)
                  ELSE (IF @ > 0 /\ (g.SUMSC >= 0) = dir THEN @ - 1 ELSE @)]

uLearn(s, g, dir) ==
  IF g.p.LongestMatchPred = g.p.alttaken THEN s
  ELSE setGtable(s, g.p.hit.bank, g.p.hit.idx,
                 useful(gtableEntry(s, g.p.hit.bank, g.p.hit.idx), g, dir))

\* g is what getPrediction returned for the branch.
updatePredictor(g, PC, op, dir, target) ==
  HistoryUpdate(
    uLearn(ctrLearn(allocate(confUpdate(scUpdate(g.s, g, dir), g.p), g, dir), g.p, dir), g, dir),
    PC, op, dir, target)
=============================================================================
