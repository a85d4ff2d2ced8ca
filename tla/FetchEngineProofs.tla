------------------------- MODULE FetchEngineProofs -------------------------
(***************************************************************************)
(* Proofs about FetchEngine, for every size of the return address stack,   *)
(* every block and every answer of the predictors: the blocked fetch and   *)
(* its unblocking, and the stack against the calls of the program.         *)
(* FrontEndProofs has the theorems they are for.                           *)
(***************************************************************************)
EXTENDS FetchEngine, FiniteSets, FiniteSetTheorems, WellFoundedInduction, NaturalsInduction, TLAPS

\* Induction, for a set of naturals.
LEMMA SetInduction ==
  ASSUME NEW S, 0 \in S, \A k \in Nat : k \in S => k + 1 \in S
  PROVE  Nat \subseteq S
  <1> DEFINE Less == {m \in Nat \X Nat : m[1] < m[2]}
             Bad == Nat \ S
  <1>1. IsWellFoundedOn(Less, Nat)
    BY NatLessThanWellFounded DEF OpToRel
  <1>2. SUFFICES ASSUME Bad # {} PROVE FALSE
    OBVIOUS
  <1> HIDE DEF Less
  <1>3. PICK x \in Bad : \A y \in Bad : ~(<<y, x>> \in Less)
    BY <1>1, <1>2, WFMin
  <1>4. x \in Nat /\ x # 0
    OBVIOUS
  <1>5. x - 1 \in Nat /\ x = (x - 1) + 1 /\ <<x - 1, x>> \in Less
    BY <1>4 DEF Less
  <1>6. x - 1 \in S
    BY <1>3, <1>5
  <1>7. QED  BY <1>5, <1>6

Start(f, n) == [f |-> f, n |-> n, maxBB |-> max_bb_cycle, stop |-> FALSE]

\* The engine after each of m turns of the loop, from b0.
AreTurns(g, b0, block, m) ==
  g = [k \in 0..m |-> IF k = 0 THEN b0 ELSE turn(g[k - 1], block[k])]

\* There is such a function: realfetch's loop is defined.
LEMMA TurnsExist ==
  ASSUME NEW b0, NEW block, NEW m \in Nat
  PROVE  \E g : AreTurns(g, b0, block, m)
  <1> USE DEF AreTurns
  <1> DEFINE P(j) == \E g : g = [k \in 0..j |-> IF k = 0 THEN b0 ELSE turn(g[k - 1], block[k])]
             S == {j \in Nat : P(j)}
  <1>1. 0 \in S
    <2>1. [k \in 0..0 |-> b0] = [k \in 0..0 |-> IF k = 0 THEN b0 ELSE turn([i \in 0..0 |-> b0][k - 1], block[k])]
      OBVIOUS
    <2>2. QED  BY <2>1
  <1>2. ASSUME NEW j \in Nat, j \in S
        PROVE  j + 1 \in S
    <2>1. PICK g : g = [k \in 0..j |-> IF k = 0 THEN b0 ELSE turn(g[k - 1], block[k])]
      BY <1>2
    <2> DEFINE h == [k \in 0..(j + 1) |-> IF k = j + 1 THEN turn(g[j], block[k]) ELSE g[k]]
    <2>2. ASSUME NEW k \in 0..(j + 1)
          PROVE  h[k] = IF k = 0 THEN b0 ELSE turn(h[k - 1], block[k])
      BY <2>1
    <2>3. h = [k \in 0..(j + 1) |-> IF k = 0 THEN b0 ELSE turn(h[k - 1], block[k])]
      BY <2>2
    <2> HIDE DEF h
    <2>4. P(j + 1)
      BY <2>3
    <2>5. QED  BY <2>4
  <1> HIDE DEF S
  <1>3. m \in S
    BY <1>1, <1>2, SetInduction
  <1>4. QED  BY <1>3 DEF S
-----------------------------------------------------------------------------
(* The records, and what the steps of the loop leave of them.            *)

IsEngine(f) ==
  f = [missInst |-> f.missInst, missDinst |-> f.missDinst, pending |-> f.pending,
       maxDelayPending |-> f.maxDelayPending,
       maxDelayPendingDinst |-> f.maxDelayPendingDinst, ras |-> f.ras, calls |-> f.calls]

IsTurn(b) == b = [f |-> b.f, n |-> b.n, maxBB |-> b.maxBB, stop |-> b.stop]

IsUnblock(u) == u = [by |-> u.by, n |-> u.n, timer |-> u.timer]

\* What fetch is blocked by, and what will unblock it.
SameBlock(f, g) ==
  /\ g.missInst = f.missInst /\ g.missDinst = f.missDinst /\ g.pending = f.pending
  /\ g.maxDelayPending = f.maxDelayPending

SameStack(f, g) == g.ras = f.ras /\ g.calls = f.calls

\* The return address stack and the calls do not block fetch.
LEMMA RasPredictDoes ==
  ASSUME NEW f, IsEngine(f), NEW ins, NEW pc, NEW g, g = rasPredict(f, ins, pc)
  PROVE  /\ IsEngine(g) /\ SameBlock(f, g) /\ g.calls = f.calls
         /\ RasSize # 0 /\ ins.kind = "ret" => g.ras = rasPop(f.ras)
         /\ RasSize # 0 /\ ins.kind = "call" => g.ras = rasPush(f.ras, pc)
         /\ ins.kind \notin {"ret", "call"} => g.ras = f.ras
  <1>1. CASE ins.kind = "ret" /\ RasSize # 0
    <2>1. g = [f EXCEPT !.ras = rasPop(f.ras)]
      BY <1>1 DEF rasPredict
    <2>2. QED  BY <1>1, <2>1 DEF IsEngine, SameBlock
  <1>2. CASE ins.kind = "call" /\ RasSize # 0
    <2>1. g = [f EXCEPT !.ras = rasPush(f.ras, pc)]
      BY <1>2 DEF rasPredict
    <2>2. QED  BY <1>2, <2>1 DEF IsEngine, SameBlock
  <1>3. CASE ~(ins.kind = "ret" /\ RasSize # 0) /\ ~(ins.kind = "call" /\ RasSize # 0)
    <2>1. g = f
      BY <1>3 DEF rasPredict
    <2>2. QED  BY <1>3, <2>1 DEF IsEngine, SameBlock
  <1>4. QED  BY <1>1, <1>2, <1>3

\* A call or a return of the program leaves the block as it is.
LEMMA CalledDoes ==
  ASSUME NEW f, IsEngine(f), NEW ins, NEW n, NEW g, g = called(f, ins, n)
  PROVE  /\ IsEngine(g) /\ SameBlock(f, g) /\ g.ras = f.ras
         /\ ins.kind = "call" =>
              g.calls = Append(deeper(f.calls), [pc |-> 8 * n, lost |-> FALSE])
         /\ ins.kind = "ret" => g.calls = Front(f.calls)
         /\ ins.kind \notin {"ret", "call"} => g.calls = f.calls
  <1>1. CASE ins.kind = "call"
    <2> DEFINE s == Append(deeper(f.calls), [pc |-> 8 * n, lost |-> FALSE])
    <2>1. g = [f EXCEPT !.calls = s]
      BY <1>1 DEF called
    <2> HIDE DEF s
    <2>2. IsEngine(g) /\ SameBlock(f, g) /\ g.ras = f.ras /\ g.calls = s
      BY <2>1 DEF IsEngine, SameBlock
    <2>3. QED  BY <1>1, <2>2 DEF s
  <1>2. CASE ins.kind = "ret"
    <2>1. g = [f EXCEPT !.calls = Front(f.calls)]
      BY <1>2 DEF called
    <2>2. QED  BY <1>2, <2>1 DEF IsEngine, SameBlock
  <1>3. CASE ins.kind \notin {"ret", "call"}
    <2>1. g = f
      BY <1>3 DEF called
    <2>2. QED  BY <1>3, <2>1 DEF IsEngine, SameBlock
  <1>4. QED  BY <1>1, <1>2, <1>3

\* A slow fix blocks fetch and drops the fast one; another one waits for the end.
Branched(f, g, n, delay) ==
  /\ IsEngine(g) /\ SameStack(f, g)
  /\ delay = SLOW => /\ g.missInst = TRUE /\ g.missDinst = n /\ g.maxDelayPending = 0
                     /\ g.pending = f.pending \cup {[by |-> "execute", n |-> n, timer |-> 0]}
  /\ delay # SLOW =>
       g.missInst = f.missInst /\ g.missDinst = f.missDinst /\ g.pending = f.pending

\* What a branch makes of the engine (FetchEngine::processBranch).
LEMMA ProcessBranchDoes ==
  ASSUME NEW f, IsEngine(f), NEW n, NEW delay
  PROVE  Branched(f, processBranch(f, n, delay), n, delay)
  <1>0. PICK g : g = processBranch(f, n, delay)
    OBVIOUS
  <1>1. CASE delay = SLOW
    <2>1. g = locked(f, n)
      BY <1>0, <1>1 DEF processBranch
    <2>2. /\ IsEngine(g) /\ SameStack(f, g)
          /\ g.missInst = TRUE /\ g.missDinst = n /\ g.maxDelayPending = 0
      BY <2>1 DEF locked, IsEngine, SameStack
    <2>3. g.pending = f.pending \cup {[by |-> "execute", n |-> n, timer |-> 0]}
      BY <2>1 DEF locked, IsEngine
    <2>4. QED  BY <1>0, <1>1, <2>2, <2>3 DEF Branched
  <1>2. CASE delay # SLOW /\ delay > f.maxDelayPending
    <2>1. g = [f EXCEPT !.maxDelayPending = delay, !.maxDelayPendingDinst = n]
      BY <1>0, <1>2 DEF processBranch
    <2>2. QED  BY <1>0, <1>2, <2>1 DEF Branched, IsEngine, SameStack
  <1>3. CASE delay # SLOW /\ ~(delay > f.maxDelayPending)
    <2>1. g = f
      BY <1>0, <1>3 DEF processBranch
    <2>2. QED  BY <1>0, <1>3, <2>1 DEF Branched, IsEngine, SameStack
  <1>4. QED  BY <1>1, <1>2, <1>3

-----------------------------------------------------------------------------
(* The return address stack *)

Calls == [pc : Nat, lost : BOOLEAN]

IsRas(r) == /\ r = [stack |-> r.stack, index |-> r.index]
            /\ r.index \in 0..(RasSize - 1) /\ r.stack \in [0..(RasSize - 1) -> Nat]

\* A call that is not lost is no deeper than the stack, which holds its pc.
Held(r, calls) ==
  \A k \in DOMAIN calls : ~calls[k].lost =>
    /\ Len(calls) - k + 1 <= RasSize
    /\ r.stack[(r.index - (Len(calls) - k + 1)) % RasSize] = calls[k].pc

StackInv(f) == f.calls \in Seq(Calls) /\ (RasSize # 0 => IsRas(f.ras) /\ Held(f.ras, f.calls))

\* The slot d below the index, around the end of the stack.
SlotBelow(i, d) == IF d <= i THEN i - d ELSE i - d + RasSize

\* The slot the property takes modulo the size.
LEMMA Below ==
  ASSUME RasSize # 0, NEW i \in 0..(RasSize - 1), NEW d \in 0..RasSize
  PROVE  (i - d) % RasSize = SlotBelow(i, d)
  <1>1. RasSize \in Nat \ {0}
    BY FetchAssumption
  <1>2. d <= i => (i - d) % RasSize = i - d
    BY <1>1
  <1>3. d > i => (i - d) % RasSize = i - d + RasSize
    BY <1>1
  <1>4. QED  BY <1>1, <1>2, <1>3 DEF SlotBelow

\* The index j is the one after i: what was d below i is d + 1 below j.
LEMMA OneBelow ==
  ASSUME RasSize # 0, NEW i \in 0..(RasSize - 1), NEW j \in 0..(RasSize - 1),
         j = IF i + 1 >= RasSize THEN 0 ELSE i + 1
  PROVE  /\ SlotBelow(j, 1) = i
         /\ \A d \in 1..(RasSize - 1) : /\ SlotBelow(j, d + 1) = SlotBelow(i, d)
                                      /\ SlotBelow(i, d) # i
                                      /\ SlotBelow(i, d) \in 0..(RasSize - 1)
  BY FetchAssumption DEF SlotBelow

\* A return finds its call's slot and leaves the others (BPRas::predict).
LEMMA PopHolds ==
  ASSUME RasSize # 0, NEW r, IsRas(r), NEW calls \in Seq(Calls), calls # << >>, Held(r, calls)
  PROVE  IsRas(rasPop(r)) /\ Held(rasPop(r), Front(calls)) /\ Front(calls) \in Seq(Calls)
  <1> DEFINE q == rasPop(r)
             s == Front(calls)
             L == Len(calls)
  <1>1. RasSize \in Nat \ {0}
    BY FetchAssumption
  <1>2. /\ q.index = IF r.index = 0 THEN RasSize - 1 ELSE r.index - 1
        /\ q.stack = r.stack /\ q = [stack |-> q.stack, index |-> q.index]
    BY DEF rasPop, IsRas
  <1>3. q.index \in 0..(RasSize - 1)
    BY <1>1, <1>2 DEF IsRas
  <1>4. L \in Nat \ {0} /\ DOMAIN calls = 1..L
    OBVIOUS
  <1>5. /\ s \in Seq(Calls) /\ Len(s) = L - 1 /\ DOMAIN s = 1..(L - 1)
        /\ \A k \in 1..(L - 1) : s[k] = calls[k]
    BY <1>4 DEF Front
  <1> HIDE DEF q, s
  <1>6. ASSUME NEW k \in DOMAIN s, ~s[k].lost
        PROVE  /\ Len(s) - k + 1 <= RasSize
               /\ q.stack[(q.index - (Len(s) - k + 1)) % RasSize] = s[k].pc
    <2>1. k \in 1..(L - 1) /\ k \in DOMAIN calls /\ s[k] = calls[k]
      BY <1>4, <1>5
    <2>2. PICK d \in Nat : d = L - k + 1
      BY <1>4, <2>1
    <2>3. d \in 2..RasSize /\ r.stack[(r.index - d) % RasSize] = s[k].pc
      BY <1>1, <1>4, <1>6, <2>1, <2>2 DEF Held
    <2>4. PICK e \in 1..(RasSize - 1) : e = Len(s) - k + 1 /\ d = e + 1
      BY <1>1, <1>4, <1>5, <2>1, <2>2, <2>3
    <2>5. (r.index - d) % RasSize = (q.index - e) % RasSize
      <3>1. r.index \in 0..(RasSize - 1) /\ d \in 0..RasSize /\ e \in 0..RasSize
        BY <1>1, <2>3 DEF IsRas
      <3>2. (r.index - d) % RasSize = SlotBelow(r.index, d)
        BY <3>1, Below
      <3>3. (q.index - e) % RasSize = SlotBelow(q.index, e)
        BY <1>3, <3>1, Below
      <3>4. r.index = IF q.index + 1 >= RasSize THEN 0 ELSE q.index + 1
        BY <1>1, <1>2, <3>1
      <3>5. SlotBelow(r.index, e + 1) = SlotBelow(q.index, e)
        <4>1. PICK i \in 0..(RasSize - 1), j \in 0..(RasSize - 1) : i = q.index /\ j = r.index
          BY <1>3, <3>1
        <4>2. j = IF i + 1 >= RasSize THEN 0 ELSE i + 1
          BY <3>4, <4>1
        <4>3. SlotBelow(j, e + 1) = SlotBelow(i, e)
          BY <4>2, OneBelow
        <4>4. QED  BY <4>1, <4>3
      <3>6. QED  BY <2>4, <3>2, <3>3, <3>5
    <2>6. QED
      <3>1. r.stack[(q.index - e) % RasSize] = s[k].pc
        BY <2>3, <2>5
      <3>2. e <= RasSize /\ q.stack[(q.index - e) % RasSize] = s[k].pc
        BY <1>1, <1>2, <2>4, <3>1
      <3>3. QED  BY <2>4, <3>2
  <1>7. Held(q, s)
    BY <1>6 DEF Held
  <1>8. IsRas(q)
    BY <1>2, <1>3 DEF IsRas
  <1>9. QED  BY <1>5, <1>7, <1>8 DEF q, s

\* What the next call makes of the ones it is nested in.
LEMMA DeeperDoes ==
  ASSUME NEW calls \in Seq(Calls)
  PROVE  /\ deeper(calls) \in Seq(Calls) /\ Len(deeper(calls)) = Len(calls)
         /\ \A k \in 1..Len(calls) :
              /\ deeper(calls)[k].pc = calls[k].pc
              /\ deeper(calls)[k].lost <=> calls[k].lost \/ Len(calls) - k + 1 >= RasSize
  <1> DEFINE L == Len(calls)
             x(k) == [calls[k] EXCEPT !.lost = @ \/ L - k + 1 >= RasSize]
  <1>1. L \in Nat /\ DOMAIN calls = 1..L
    OBVIOUS
  <1>2. ASSUME NEW k \in 1..L
        PROVE  /\ x(k) \in Calls /\ x(k).pc = calls[k].pc
               /\ x(k).lost <=> calls[k].lost \/ L - k + 1 >= RasSize
    <2>1. PICK v \in Calls : v = calls[k]
      BY <1>1, <1>2
    <2>2. PICK b \in BOOLEAN : b = (v.lost \/ L - k + 1 >= RasSize)
      OBVIOUS
    <2>3. x(k) = [v EXCEPT !.lost = b]
      BY <2>1, <2>2
    <2> HIDE DEF x
    <2>4. x(k) \in Calls /\ x(k).pc = v.pc /\ x(k).lost = b
      BY <2>3 DEF Calls
    <2>5. QED  BY <2>1, <2>2, <2>4
  <1>3. deeper(calls) = [k \in 1..L |-> x(k)]
    BY <1>1 DEF deeper
  <1> HIDE DEF x
  <1>4. deeper(calls) \in Seq(Calls) /\ Len(deeper(calls)) = L
    BY <1>1, <1>2, <1>3
  <1>5. \A k \in 1..L : deeper(calls)[k] = x(k)
    BY <1>3
  <1>6. QED  BY <1>2, <1>4, <1>5

\* A call overwrites the slot of one that is lost already (BPRas::predict).
LEMMA PushHolds ==
  ASSUME RasSize # 0, NEW r, IsRas(r), NEW calls \in Seq(Calls), Held(r, calls), NEW pc \in Nat
  PROVE  /\ IsRas(rasPush(r, pc))
         /\ Held(rasPush(r, pc), Append(deeper(calls), [pc |-> pc, lost |-> FALSE]))
  <1> DEFINE q == rasPush(r, pc)
             v == [pc |-> pc, lost |-> FALSE]
             s == Append(deeper(calls), v)
             L == Len(calls)
  <1>1. RasSize \in Nat \ {0}
    BY FetchAssumption
  <1>2. /\ q.index = IF r.index + 1 >= RasSize THEN 0 ELSE r.index + 1
        /\ q.stack = [r.stack EXCEPT ![r.index] = pc] /\ q = [stack |-> q.stack, index |-> q.index]
    <2>1. PICK st, ix : /\ st = [r.stack EXCEPT ![r.index] = pc]
                        /\ ix = IF r.index + 1 >= RasSize THEN 0 ELSE r.index + 1
      OBVIOUS
    <2>2. q = [r EXCEPT !.stack = st, !.index = ix]
      BY <2>1 DEF rasPush, IsRas
    <2> HIDE DEF q
    <2>3. q.stack = st /\ q.index = ix /\ q = [stack |-> q.stack, index |-> q.index]
      BY <2>2 DEF IsRas
    <2>4. QED  BY <2>1, <2>3
  <1>3. q.index \in 0..(RasSize - 1) /\ r.index \in 0..(RasSize - 1)
    BY <1>1, <1>2 DEF IsRas
  <1>4. /\ q.stack \in [0..(RasSize - 1) -> Nat] /\ q.stack[r.index] = pc
        /\ \A i \in 0..(RasSize - 1) : i # r.index => q.stack[i] = r.stack[i]
    BY <1>2, <1>3 DEF IsRas
  <1>5. L \in Nat /\ DOMAIN calls = 1..L
    OBVIOUS
  <1>6. /\ deeper(calls) \in Seq(Calls) /\ Len(deeper(calls)) = L
        /\ \A k \in 1..L : /\ deeper(calls)[k].pc = calls[k].pc
                           /\ deeper(calls)[k].lost <=> calls[k].lost \/ L - k + 1 >= RasSize
    BY DeeperDoes
  <1>7. /\ Len(s) = L + 1 /\ DOMAIN s = 1..(L + 1) /\ s[L + 1] = v
        /\ \A k \in 1..L : s[k] = deeper(calls)[k]
    <2> HIDE DEF v
    <2>1. QED  BY <1>5, <1>6
  <1> HIDE DEF q, s
  <1>8. ASSUME NEW k \in DOMAIN s, ~s[k].lost
        PROVE  /\ Len(s) - k + 1 <= RasSize
               /\ q.stack[(q.index - (Len(s) - k + 1)) % RasSize] = s[k].pc
    <2>1. CASE k = L + 1
      <3>1. (q.index - 1) % RasSize = r.index
        <4>1. (q.index - 1) % RasSize = SlotBelow(q.index, 1)
          <5>1. 1 \in 0..RasSize
            BY <1>1
          <5>2. QED  BY <1>3, <5>1, Below
        <4>2. QED  BY <1>2, <1>3, <4>1, OneBelow
      <3>2. Len(s) - k + 1 = 1
        BY <1>5, <1>7, <2>1
      <3>3. s[k].pc = pc
        BY <1>7, <2>1
      <3>4. 1 <= RasSize /\ q.stack[(q.index - 1) % RasSize] = s[k].pc
        BY <1>1, <1>4, <3>1, <3>3
      <3>5. PICK e : e = Len(s) - k + 1
        OBVIOUS
      <3>6. e <= RasSize /\ q.stack[(q.index - e) % RasSize] = s[k].pc
        BY <3>2, <3>4, <3>5
      <3>7. QED  BY <3>5, <3>6
    <2>2. CASE k # L + 1
      <3>1. k \in 1..L /\ k \in DOMAIN calls
        BY <1>5, <1>7, <2>2
      <3>2. PICK d \in Nat : d = L - k + 1
        BY <1>5, <3>1
      <3>3. s[k].pc = calls[k].pc /\ ~calls[k].lost /\ ~(L - k + 1 >= RasSize)
        BY <1>6, <1>7, <1>8, <3>1
      <3>4. d \in 1..(RasSize - 1) /\ r.stack[(r.index - d) % RasSize] = s[k].pc
        BY <1>1, <1>5, <3>1, <3>2, <3>3 DEF Held
      <3>5. PICK e \in 0..RasSize : e = d + 1 /\ e = Len(s) - k + 1
        BY <1>1, <1>5, <1>7, <3>1, <3>2, <3>4
      <3>6. PICK x \in 0..(RasSize - 1) : /\ x = (q.index - e) % RasSize /\ x # r.index
                                         /\ x = (r.index - d) % RasSize
        <4>1. d \in 0..RasSize
          BY <1>1, <3>4
        <4>2. /\ (r.index - d) % RasSize = SlotBelow(r.index, d)
              /\ (q.index - e) % RasSize = SlotBelow(q.index, e)
          BY <1>3, <3>5, <4>1, Below
        <4>3. /\ SlotBelow(q.index, d + 1) = SlotBelow(r.index, d)
              /\ SlotBelow(r.index, d) # r.index
              /\ SlotBelow(r.index, d) \in 0..(RasSize - 1)
          BY <1>2, <1>3, <3>4, OneBelow
        <4>4. QED  BY <3>5, <4>2, <4>3
      <3>7. r.stack[x] = s[k].pc
        BY <3>4, <3>6
      <3>8. e <= RasSize /\ q.stack[x] = s[k].pc
        <4>1. e <= RasSize
          BY <1>1, <3>5
        <4>2. q.stack[x] = r.stack[x]
          BY <1>4, <3>6
        <4>3. QED  BY <3>7, <4>1, <4>2
      <3>9. QED  BY <3>5, <3>6, <3>8
    <2>3. QED  BY <2>1, <2>2
  <1>9. Held(q, s)
    BY <1>8 DEF Held
  <1>10. IsRas(q)
    BY <1>2, <1>3, <1>4 DEF IsRas
  <1>11. QED  BY <1>9, <1>10 DEF q, s

-----------------------------------------------------------------------------
(* One block *)

\* A blocked fetch has one unblocking to come, for what blocked it.
BlockInv(f) ==
  /\ f.missInst \in BOOLEAN
  /\ f.missInst => \E u : f.pending = {u} /\ IsUnblock(u) /\ u.n = f.missDinst
  /\ ~f.missInst => f.pending = {}

\* Between two blocks.
EngineInv(f) == /\ IsEngine(f) /\ BlockInv(f) /\ StackInv(f)
                /\ f.maxDelayPending = 0

\* The branch whose execution will unblock fetch is after instruction n.
BlocksAfter(f, n) == \A u \in f.pending : u.by = "execute" => u.n \in Nat /\ n < u.n

\* In the loop, from instruction n0: a block that is stopped by a slow fix has no
\* fast one to come.
TurnInv(b, n0) == /\ IsTurn(b) /\ b.n \in Nat /\ b.stop \in BOOLEAN
                  /\ IsEngine(b.f) /\ BlockInv(b.f) /\ StackInv(b.f)
                  /\ b.f.missInst => b.stop /\ b.f.maxDelayPending = 0
                  /\ n0 <= b.n /\ BlocksAfter(b.f, n0)

\* The stack and the calls follow one instruction of the program.
LEMMA StackFollows ==
  ASSUME NEW f, IsEngine(f), StackInv(f), NEW ins, ins.kind = "ret" => f.calls # << >>,
         NEW n \in Nat, NEW g, IsEngine(g), g.calls = f.calls,
         g.ras = rasPredict(f, ins, 8 * n).ras, NEW h, h = called(g, ins, n)
  PROVE  StackInv(h)
  <1> DEFINE pc == 8 * n
             v == [pc |-> pc, lost |-> FALSE]
  <1>1. PICK p : p = rasPredict(f, ins, pc)
    OBVIOUS
  <1>2. pc \in Nat /\ v \in Calls
    BY DEF Calls
  <1> HIDE DEF pc, v
  <1>3. /\ RasSize # 0 /\ ins.kind = "ret" => p.ras = rasPop(f.ras)
        /\ RasSize # 0 /\ ins.kind = "call" => p.ras = rasPush(f.ras, pc)
        /\ ins.kind \notin {"ret", "call"} => p.ras = f.ras
    BY <1>1, RasPredictDoes
  <1>4. /\ h.ras = p.ras
        /\ ins.kind = "call" => h.calls = Append(deeper(f.calls), v)
        /\ ins.kind = "ret" => h.calls = Front(f.calls)
        /\ ins.kind \notin {"ret", "call"} => h.calls = f.calls
    BY <1>1, CalledDoes DEF pc, v
  <1>5. CASE ins.kind = "call"
    <2>1. h.calls \in Seq(Calls)
      <3>1. deeper(f.calls) \in Seq(Calls)
        BY DeeperDoes DEF StackInv
      <3>2. Append(deeper(f.calls), v) \in Seq(Calls)
        BY <1>2, <3>1
      <3>3. QED  BY <1>4, <1>5, <3>2
    <2>2. RasSize # 0 => IsRas(h.ras) /\ Held(h.ras, h.calls)
      BY <1>2, <1>3, <1>4, <1>5, PushHolds DEF StackInv, v
    <2>3. QED  BY <2>1, <2>2 DEF StackInv
  <1>6. CASE ins.kind = "ret"
    <2>1. h.calls \in Seq(Calls)
      <3>1. f.calls \in Seq(Calls) /\ f.calls # << >>
        BY <1>6 DEF StackInv
      <3>2. ASSUME NEW s \in Seq(Calls), s # << >>
            PROVE  Front(s) \in Seq(Calls)
        BY DEF Front
      <3>3. Front(f.calls) \in Seq(Calls)
        BY <3>1, <3>2
      <3>4. QED  BY <1>4, <1>6, <3>3
    <2>2. RasSize # 0 => IsRas(h.ras) /\ Held(h.ras, h.calls)
      BY <1>3, <1>4, <1>6, PopHolds DEF StackInv
    <2>3. QED  BY <2>1, <2>2 DEF StackInv
  <1>7. CASE ins.kind \notin {"ret", "call"}
    BY <1>3, <1>4, <1>7 DEF StackInv
  <1>8. QED  BY <1>5, <1>6, <1>7

\* One turn of the loop.
LEMMA TurnKeeps ==
  ASSUME NEW n0 \in Nat, NEW b, TurnInv(b, n0), NEW ins
  PROVE  TurnInv(turn(b, ins), n0) /\ turn(b, ins).n \in {b.n, b.n + 1}
  <1>1. CASE b.stop \/ ~runs(b, ins)
    <2>1. turn(b, ins) = [b EXCEPT !.stop = TRUE]
      BY <1>1 DEF turn
    <2>2. PICK c : c = turn(b, ins)
      OBVIOUS
    <2>3. c.f = b.f /\ c.n = b.n /\ c.stop = TRUE /\ IsTurn(c)
      BY <2>1, <2>2 DEF TurnInv, IsTurn
    <2>4. QED  BY <2>2, <2>3 DEF TurnInv
  <1>2. CASE ~b.stop /\ runs(b, ins)
    <2> DEFINE n == b.n + 1
               f == rasPredict(b.f, ins, 8 * n)
               dly == IF ins.kind = "ret" THEN rasDelay(f.ras, Last(b.f.calls).pc + ins.size)
                      ELSE ins.delay
               bb == b.maxBB - (IF ins.taken THEN 1 ELSE 0)
               ctrl == ins.kind # "op"
               g == IF ctrl THEN processBranch(f, n, dly) ELSE f
               h == called(g, ins, n)
               stop == ctrl /\ (dly = SLOW \/ bb < 1)
    <2>1. turn(b, ins) = [b EXCEPT !.n = n, !.maxBB = bb, !.f = h, !.stop = stop]
      BY <1>2 DEF turn, fetched
    <2>2. n \in Nat /\ n0 < n /\ stop \in BOOLEAN /\ ctrl \in BOOLEAN /\ ~b.f.missInst
      BY <1>2 DEF TurnInv
    <2>3. ctrl /\ dly = SLOW => stop
      OBVIOUS
    <2> HIDE DEF dly, bb, stop
    <2>4. IsEngine(f) /\ SameBlock(b.f, f) /\ f.calls = b.f.calls
      BY RasPredictDoes DEF TurnInv
    <2>5. f.missInst = FALSE /\ f.pending = {}
      BY <2>2, <2>4 DEF SameBlock, TurnInv, BlockInv
    <2>6. PICK fx : fx = f
      OBVIOUS
    <2>7. /\ IsEngine(g) /\ SameStack(f, g)
          /\ \/ ctrl /\ dly = SLOW /\ g.missInst = TRUE /\ g.missDinst = n /\ g.maxDelayPending = 0
                /\ g.pending = {[by |-> "execute", n |-> n, timer |-> 0]}
             \/ g.missInst = FALSE /\ g.pending = {}
      <3>1. CASE ctrl
        <4>1. g = processBranch(fx, n, dly)
          BY <2>6, <3>1
        <4>2. IsEngine(fx)
          BY <2>4, <2>6
        <4> HIDE DEF g, f, n
        <4>3. Branched(fx, g, n, dly)
          BY <4>1, <4>2, ProcessBranchDoes
        <4>4. fx.missInst = FALSE /\ fx.pending = {}
          BY <2>5, <2>6
        <4>5. QED  BY <2>6, <3>1, <4>3, <4>4 DEF Branched
      <3>2. CASE ~ctrl
        BY <2>4, <2>5, <3>2 DEF SameStack
      <3>3. QED  BY <3>1, <3>2
    <2>8. g.calls = b.f.calls /\ g.ras = f.ras
      BY <2>4, <2>7 DEF SameStack
    <2>9. StackInv(h)
      <3>1. ins.kind = "ret" => b.f.calls # << >>
        BY <1>2 DEF runs
      <3>2. IsEngine(b.f) /\ StackInv(b.f)
        BY DEF TurnInv
      <3> HIDE DEF g, n
      <3>3. QED  BY <2>2, <2>7, <2>8, <3>1, <3>2, StackFollows
    <2> HIDE DEF g
    <2>10. IsEngine(h) /\ SameBlock(g, h)
      BY <2>7, CalledDoes
    <2> HIDE DEF h
    <2> HIDE DEF n
    <2>11. BlockInv(h) /\ BlocksAfter(h, n0) /\ (h.missInst => stop /\ h.maxDelayPending = 0)
      <3>1. CASE /\ ctrl /\ dly = SLOW /\ g.missInst = TRUE /\ g.missDinst = n
                 /\ g.maxDelayPending = 0 /\ g.pending = {[by |-> "execute", n |-> n, timer |-> 0]}
        <4>1. PICK u : u = [by |-> "execute", n |-> n, timer |-> 0]
          OBVIOUS
        <4>2. IsUnblock(u) /\ u.n = n
          BY <4>1 DEF IsUnblock
        <4>3. h.pending = {u} /\ h.missDinst = n /\ h.missInst = TRUE /\ h.maxDelayPending = 0
          BY <2>10, <3>1, <4>1 DEF SameBlock
        <4>4. BlocksAfter(h, n0)
          BY <2>2, <4>2, <4>3 DEF BlocksAfter
        <4>5. QED  BY <2>3, <3>1, <4>2, <4>3, <4>4 DEF BlockInv
      <3>2. CASE g.missInst = FALSE /\ g.pending = {}
        BY <2>10, <3>2 DEF SameBlock, BlockInv, BlocksAfter
      <3>3. QED  BY <2>7, <3>1, <3>2
    <2>12. PICK c : c = turn(b, ins)
      OBVIOUS
    <2>13. c.f = h /\ c.n = n /\ c.stop = stop /\ IsTurn(c)
      BY <2>1, <2>12 DEF TurnInv, IsTurn
    <2>14. TurnInv(c, n0)
      BY <2>2, <2>9, <2>10, <2>11, <2>13 DEF TurnInv
    <2>15. QED  BY <2>12, <2>13, <2>14 DEF n
  <1>3. QED  BY <1>1, <1>2 DEF TurnInv

\* The engine after each turn of realfetch's loop.
Turns(f, n, block) ==
  CHOOSE g : g = [k \in 0..Len(block) |-> IF k = 0 THEN Start(f, n) ELSE turn(g[k - 1], block[k])]

\* The function realfetch defines has these turns.
LEMMA TurnsDo ==
  ASSUME NEW f, NEW n, NEW block, Len(block) \in Nat
  PROVE  /\ Turns(f, n, block)[0] = Start(f, n)
         /\ \A k \in 1..Len(block) :
              Turns(f, n, block)[k] = turn(Turns(f, n, block)[k - 1], block[k])
         /\ realfetch(f, n, block) = [f |-> delayed(Turns(f, n, block)[Len(block)].f),
                                      n |-> Turns(f, n, block)[Len(block)].n,
                                      stop |-> Turns(f, n, block)[Len(block)].stop]
  <1> DEFINE T == Turns(f, n, block)
             m == Len(block)
  <1>1. realfetch(f, n, block) = [f |-> delayed(T[m].f), n |-> T[m].n, stop |-> T[m].stop]
    BY DEF realfetch, Turns, Start
  <1>2. \E g : AreTurns(g, Start(f, n), block, m)
    BY TurnsExist
  <1>3. T = [k \in 0..m |-> IF k = 0 THEN Start(f, n) ELSE turn(T[k - 1], block[k])]
    BY <1>2 DEF Turns, AreTurns
  <1> HIDE DEF T
  <1>4. T[0] = Start(f, n) /\ \A k \in 1..m : T[k] = turn(T[k - 1], block[k])
    BY <1>3
  <1>5. QED  BY <1>1, <1>4 DEF T

\* The loop keeps the invariant and never goes back in the program.
LEMMA LoopKeeps ==
  ASSUME NEW f, EngineInv(f), ~f.missInst, NEW n \in Nat, NEW block, Len(block) \in Nat
  PROVE  /\ TurnInv(Turns(f, n, block)[Len(block)], n)
         /\ Turns(f, n, block)[Len(block)].n <= n + Len(block)
  <1> DEFINE T == Turns(f, n, block)
             m == Len(block)
             S == {k \in Nat : k <= m => TurnInv(T[k], n) /\ T[k].n <= n + k}
  <1>1. T[0] = Start(f, n) /\ \A k \in 1..m : T[k] = turn(T[k - 1], block[k])
    BY TurnsDo
  <1>2. 0 \in S
    <2>1. TurnInv(Start(f, n), n) /\ Start(f, n).n = n
      BY DEF Start, TurnInv, EngineInv, IsTurn, BlockInv, BlocksAfter
    <2>2. QED  BY <1>1, <2>1
  <1>3. ASSUME NEW k \in Nat, k \in S
        PROVE  k + 1 \in S
    <2>1. CASE k + 1 <= m
      <3>1. TurnInv(T[k], n) /\ T[k].n <= n + k /\ T[k].n \in Nat
        BY <1>3, <2>1 DEF TurnInv
      <3>2. k + 1 \in 1..m /\ (k + 1) - 1 = k
        BY <2>1
      <3>3. T[k + 1] = turn(T[k], block[k + 1])
        BY <1>1, <3>2
      <3>4. TurnInv(T[k + 1], n) /\ T[k + 1].n \in {T[k].n, T[k].n + 1}
        BY <3>1, <3>3, TurnKeeps
      <3>5. T[k + 1].n <= n + (k + 1)
        BY <3>1, <3>4
      <3>6. QED  BY <3>4, <3>5
    <2>2. CASE ~(k + 1 <= m)
      BY <2>2
    <2>3. QED  BY <2>1, <2>2
  <1> HIDE DEF S
  <1>4. m \in S
    BY <1>2, <1>3, SetInduction
  <1>5. QED  BY <1>4 DEF S

\* A block leaves the engine blocked by at most one of its branches, with what
\* will unblock it, and its stack in step with the calls (FetchEngine::realfetch).
LEMMA RealfetchKeeps ==
  ASSUME NEW f, EngineInv(f), ~f.missInst, NEW n \in Nat, NEW block, Len(block) \in Nat,
         NEW r, r = realfetch(f, n, block)
  PROVE  /\ EngineInv(r.f) /\ BlocksAfter(r.f, n)
         /\ r.n \in Nat /\ n <= r.n /\ r.n <= n + Len(block)
  <1>1. PICK b : b = Turns(f, n, block)[Len(block)]
    OBVIOUS
  <1>2. r = [f |-> delayed(b.f), n |-> b.n, stop |-> b.stop]
    BY <1>1, TurnsDo
  <1>3. TurnInv(b, n) /\ b.n <= n + Len(block)
    BY <1>1, LoopKeeps
  <1>4. PICK g, h : g = b.f /\ h = delayed(g)
    OBVIOUS
  <1>5. IsEngine(g) /\ BlockInv(g) /\ StackInv(g) /\ (g.missInst => g.maxDelayPending = 0)
    BY <1>3, <1>4 DEF TurnInv
  <1>6. EngineInv(h) /\ BlocksAfter(h, n)
    <2>1. CASE g.maxDelayPending = 0
      BY <1>3, <1>4, <1>5, <2>1 DEF delayed, EngineInv, TurnInv
    <2>2. CASE g.maxDelayPending # 0
      <3>1. PICK u : u = [by |-> "delay", n |-> g.maxDelayPendingDinst, timer |-> g.maxDelayPending]
        OBVIOUS
      <3>2. h = [g EXCEPT !.missInst = TRUE, !.missDinst = g.maxDelayPendingDinst,
                          !.pending = g.pending \cup {u},
                          !.maxDelayPending = 0, !.maxDelayPendingDinst = 0]
        BY <1>4, <2>2, <3>1 DEF delayed
      <3>3. /\ IsEngine(h) /\ h.missInst = TRUE /\ h.missDinst = g.maxDelayPendingDinst
            /\ h.pending = g.pending \cup {u} /\ h.maxDelayPending = 0
            /\ h.ras = g.ras /\ h.calls = g.calls
        BY <1>5, <3>2 DEF IsEngine
      <3>4. g.pending = {}
        BY <1>5, <2>2 DEF BlockInv
      <3>5. IsUnblock(u) /\ u.n = g.maxDelayPendingDinst /\ u.by # "execute"
        BY <3>1 DEF IsUnblock
      <3>6. h.pending = {u}
        BY <3>3, <3>4
      <3>7. BlockInv(h)
        BY <3>3, <3>5, <3>6 DEF BlockInv
      <3>8. StackInv(h)
        BY <1>5, <3>3 DEF StackInv
      <3>9. BlocksAfter(h, n)
        BY <3>5, <3>6 DEF BlocksAfter
      <3>10. QED  BY <3>3, <3>7, <3>8, <3>9 DEF EngineInv
    <2>3. QED  BY <2>1, <2>2
  <1>7. r.f = h /\ r.n = b.n
    BY <1>2, <1>4
  <1>8. QED  BY <1>3, <1>6, <1>7 DEF TurnInv

\* clearMissInst, called by the unblocking there is (FetchEngine::clearMissInst).
LEMMA ClearMissKeeps ==
  ASSUME NEW f, EngineInv(f), NEW u \in f.pending
  PROVE  EngineInv(clearMissInst(f, u))
  <1>1. PICK g : g = clearMissInst(f, u)
    OBVIOUS
  <1>2. /\ IsEngine(g) /\ g.missInst = FALSE /\ g.pending = f.pending \ {u}
        /\ g.maxDelayPending = f.maxDelayPending /\ g.ras = f.ras /\ g.calls = f.calls
    BY <1>1 DEF clearMissInst, EngineInv, IsEngine
  <1>3. g.pending = {}
    BY <1>2 DEF EngineInv, BlockInv
  <1>4. QED  BY <1>1, <1>2, <1>3 DEF EngineInv, BlockInv, StackInv

\* A clock passes for the callbacks.
LEMMA TickedKeeps ==
  ASSUME NEW f, EngineInv(f)
  PROVE  EngineInv(ticked(f)) /\ \A n : BlocksAfter(f, n) => BlocksAfter(ticked(f), n)
  <1>1. PICK g : g = ticked(f)
    OBVIOUS
  <1>2. /\ IsEngine(g) /\ g.missInst = f.missInst /\ g.missDinst = f.missDinst
        /\ g.pending = {nearer(u) : u \in f.pending}
        /\ g.maxDelayPending = f.maxDelayPending /\ g.ras = f.ras /\ g.calls = f.calls
    BY <1>1 DEF ticked, EngineInv, IsEngine
  <1>3. ASSUME NEW u, IsUnblock(u)
        PROVE  IsUnblock(nearer(u)) /\ nearer(u).n = u.n /\ nearer(u).by = u.by
    <2>1. PICK t : t = IF u.timer = 0 THEN 0 ELSE u.timer - 1
      OBVIOUS
    <2>2. nearer(u) = [u EXCEPT !.timer = t]
      BY <2>1 DEF nearer
    <2>3. QED  BY <1>3, <2>2 DEF IsUnblock
  <1>4. CASE f.missInst
    <2>1. PICK u : f.pending = {u} /\ IsUnblock(u) /\ u.n = f.missDinst
      BY <1>4 DEF EngineInv, BlockInv
    <2>2. PICK v : v = nearer(u)
      OBVIOUS
    <2>3. g.pending = {v} /\ IsUnblock(v) /\ v.n = u.n /\ v.by = u.by
      BY <1>2, <1>3, <2>1, <2>2
    <2>4. BlockInv(g) /\ StackInv(g)
      BY <1>2, <1>4, <2>1, <2>3 DEF EngineInv, BlockInv, StackInv
    <2>5. \A n : BlocksAfter(f, n) => BlocksAfter(g, n)
      BY <2>1, <2>3 DEF BlocksAfter
    <2>6. QED  BY <1>1, <1>2, <2>4, <2>5 DEF EngineInv
  <1>5. CASE ~f.missInst
    <2>1. f.pending = {} /\ g.pending = {}
      BY <1>2, <1>5 DEF EngineInv, BlockInv
    <2>2. BlockInv(g) /\ StackInv(g)
      BY <1>2, <1>5, <2>1 DEF EngineInv, BlockInv, StackInv
    <2>3. QED  BY <1>1, <1>2, <2>1, <2>2 DEF EngineInv, BlocksAfter
  <1>6. QED  BY <1>4, <1>5

\* The engine starts unblocked, with nothing called.
LEMMA EngineStarts == EngineInv(Engine0)
  <1>1. PICK f : f = Engine0
    OBVIOUS
  <1>2. /\ IsEngine(f) /\ f.missInst = FALSE /\ f.pending = {} /\ f.maxDelayPending = 0
        /\ f.ras = Ras0 /\ f.calls = << >>
    BY <1>1 DEF Engine0, IsEngine
  <1>3. RasSize # 0 => IsRas(Ras0)
    BY FetchAssumption DEF Ras0, IsRas
  <1>4. StackInv(f)
    BY <1>2, <1>3 DEF StackInv, Held
  <1>5. QED  BY <1>1, <1>2, <1>4 DEF EngineInv, BlockInv

\* What the invariant says of the blocked fetch.
LEMMA OneUnblock ==
  ASSUME NEW f, EngineInv(f)
  PROVE  IF f.missInst THEN Cardinality(f.pending) = 1 /\ \A u \in f.pending : u.n = f.missDinst
         ELSE f.pending = {}
  BY FS_Singleton DEF EngineInv, BlockInv

=============================================================================
