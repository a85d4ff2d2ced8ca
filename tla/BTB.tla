-------------------------------- MODULE BTB ---------------------------------
(***************************************************************************)
(* The branch target buffer of simu/BPred.cpp (BPBTB) over a tag array of  *)
(* CacheCore, one per bank, and the path history DOLC (simu/dolc.hpp) that *)
(* may be mixed into its keys.                                             *)
(*                                                                         *)
(* b.conf         the configuration section: size (0 for the oracle that   *)
(*                always has the target), fetch_predict, tag_offset,       *)
(*                tag_hybrid, tag_bits, log2_nsub, split_il1, history_size *)
(* b.data         bank -> its tag array; a line's data is targetPC         *)
(* b.dolc         the addresses of the path, latest first                  *)
(* b.boundaryPC, b.boundaryID   where the fetch block began                *)
(* b.taken_counter, b.tag_counter                                          *)
(*                                                                         *)
(* d is the control instruction: d.pc, d.id, d.op and d.addr, its target,  *)
(* 0 when it is not taken.  Transient instructions are never predicted.    *)
(***************************************************************************)
EXTENDS CacheCore, Bitwise

LOCAL Shift(x, n) == x \div 2^n
LOCAL Bits(x, n) == x % 2^n

isFuncRet(d) == d.op = "RET"
doesCtrl2Label(d) == d.op \in {"LJUMP", "LCALL", "LBRANCH"}
isTaken(d) == d.addr # 0

-----------------------------------------------------------------------------
(* bpred_hash: rotate and xor rounds, two of the eight, on a narrow word.  *)

WORD == 12
rotl(x, n) == Bits(x * 2^n, WORD) + Shift(x, WORD - n)
xorRot(x, n) == x ^^ rotl(x, n)
bpred_hash(x) == xorRot(xorRot(Bits(x, WORD), 5), 7)
bpred_hash2(addr, offset) == bpred_hash(bpred_hash(addr) ^^ rotl(bpred_hash(offset), 4))

-----------------------------------------------------------------------------
(* DOLC(depth, 5, 2, 2), without DOLC_RLE.                                 *)

dolcUpdate(h, addr) == <<addr>> \o SubSeq(h, 1, Len(h) - 1)

\* Bits kept of the entry of age i.
histBits(i) == CASE i \in {0, 1} -> 2
                 [] i = 2 -> 4
                 [] i \in 3..5 -> 2
                 [] OTHER -> 1

\* The entries' bits side by side, then folded once on the bits asked for.
dolcBits(h, m) ==
  LET at[i \in 0..m] == IF i = 0 THEN [sign |-> 0, n |-> 0]
                        ELSE [sign |-> at[i - 1].sign * 2^histBits(i - 1)
                                         + Bits(h[i], histBits(i - 1)),
                              n |-> at[i - 1].n + histBits(i - 1)]
  IN at[m]

getSign(h, bits) ==
  LET r == dolcBits(h, IF bits < Len(h) THEN bits ELSE Len(h))
      fold[i \in 0..(r.n \div bits)] ==
        IF i = 0 THEN r.sign ELSE fold[i - 1] + Shift(fold[i - 1], (i - 1) * bits)
  IN Bits(fold[r.n \div bits], bits)

-----------------------------------------------------------------------------
btbCreate(conf) ==
  [conf |-> conf,
   data |-> [k \in 0..(2^conf.log2_nsub - 1) |-> create("lru", 0)],
   dolc |-> IF conf.history_size = 0 THEN << >>
            ELSE [i \in 1..(conf.history_size + 1) |-> 0],
   boundaryPC |-> 0, boundaryID |-> 0, taken_counter |-> -1, tag_counter |-> -1]

fetchBoundaryBegin(b, pc, id) ==
  [b EXCEPT !.boundaryPC = pc, !.boundaryID = id, !.taken_counter = 0, !.tag_counter = 0]

fetchBoundaryEnd(b) == [b EXCEPT !.boundaryPC = 0, !.taken_counter = -1, !.tag_counter = 0]

\* The two keys; a tag of 0 would be an invalid line.
compute_index_tag(b, d, do_tag_offset) ==
  LET conf == b.conf
      sign == IF b.dolc = << >> THEN 0 ELSE getSign(b.dolc, conf.history_size)
      tag  == Bits(IF do_tag_offset /\ conf.fetch_predict
                   THEN bpred_hash2(b.boundaryPC, d.id - b.boundaryID)
                   ELSE bpred_hash2(d.pc, 33),
                   conf.tag_bits)
  IN [boundary |-> bpred_hash(IF conf.fetch_predict THEN b.boundaryPC ELSE d.pc) ^^ sign,
      tag |-> (IF tag = 0 THEN b.tag_counter + 22 ELSE tag) ^^ sign]

tracked(b, doUpdate) ==
  IF doUpdate /\ b.dolc # << >> THEN [b EXCEPT !.dolc = dolcUpdate(@, b.boundaryPC)] ELSE b

split_tag_bank(b, k) ==
  LET bank == Bits(k.tag, b.conf.log2_nsub)
      tag  == Shift(k.tag, b.conf.log2_nsub)
  IN [boundary |-> k.boundary, bank |-> bank, tag |-> IF tag = 0 THEN bank + 1 ELSE tag]

keys(b, d, do_tag_offset) == split_tag_bank(b, compute_index_tag(b, d, do_tag_offset))

force_offset(b) == b.taken_counter > 1 /\ b.conf.tag_hybrid

-----------------------------------------------------------------------------
targetOf(r) == r.c.sets[r.set][r.way].data

\* Mutant: the target is stored only in a line that had none.
filled_once(b, k, r, addr) ==
  [b |-> [b EXCEPT !.data[k.bank] = [r.c EXCEPT !.sets[r.set][r.way].data =
                                       IF targetOf(r) = 0 THEN addr ELSE @]],
   found |-> TRUE, predictID |-> targetOf(r)]

\* fillLine leaves in targetPC what the line had, another branch's if it was evicted.
filled(b, k, r, addr) ==
  [b |-> [b EXCEPT !.data[k.bank] = [r.c EXCEPT !.sets[r.set][r.way].data = addr]],
   found |-> TRUE, predictID |-> targetOf(r)]

looked(b, k, at) ==
  [b |-> b, found |-> at.way # 0,
   predictID |-> IF at.way = 0 THEN 0 ELSE b.data[k.bank].sets[at.set][at.way].data]

access(b, k, addr, fill) ==
  IF fill THEN filled(b, k, fillLine(b.data[k.bank], k.boundary, k.tag, 0, FALSE), addr)
  ELSE looked(b, k, lineAt(b.data[k.bank], k.boundary, k.tag))

answer(r, addr) ==
  [b |-> r.b, out |-> CASE r.found /\ r.predictID = addr -> "Correct"
                        [] r.found /\ r.predictID \notin {addr, 0} -> "Miss"
                        [] OTHER -> "NoBTB"]

\* Hybrid tags: what was not found is looked for with the offset as well.
second(r, d, doUpdate) ==
  LET upd == doUpdate /\ r.b.taken_counter > 1
      b   == tracked(r.b, upd)
  IN IF r.found \/ ~r.b.conf.tag_hybrid THEN answer(r, d.addr)
     ELSE answer(access(b, keys(b, d, TRUE), d.addr, upd /\ d.addr # 0), d.addr)

first(b, d, doUpdate) ==
  second(access(b, keys(b, d, b.conf.tag_offset \/ force_offset(b)), d.addr,
                doUpdate /\ d.addr # 0),
         d, doUpdate)

counted(b, d) == [b EXCEPT !.tag_counter = @ + 1,
                           !.taken_counter = IF isTaken(d) THEN @ + 1 ELSE @]

btbPredict(b, d, doUpdate) ==
  CASE b.conf.size = 0 -> [b |-> [b EXCEPT !.tag_counter = @ + 1], out |-> "Correct"]
    [] b.conf.size # 0 /\ isFuncRet(d) ->
         [b |-> [b EXCEPT !.tag_counter = @ + 1], out |-> "NoBTB"]
    [] b.conf.size # 0 /\ doesCtrl2Label(d) /\ b.conf.split_il1 ->
         [b |-> counted(b, d), out |-> "Correct"]
    [] OTHER -> first(tracked(counted(b, d), doUpdate), d, doUpdate)

\* A wrong direction: the target is stored without a prediction.
updateOnly(b, d) ==
  IF b.conf.size = 0 \/ ~isTaken(d) \/ isFuncRet(d) THEN [b EXCEPT !.tag_counter = @ + 1]
  ELSE LET c == tracked(counted(b, d), TRUE)
       IN access(c, keys(c, d, c.conf.tag_offset \/ force_offset(c)), d.addr, TRUE).b
=============================================================================
