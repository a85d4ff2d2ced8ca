------------------------ MODULE TransientFlushProofs ------------------------
(***************************************************************************)
(* Proofs about TransientFlush, for every number of instructions and       *)
(* registers and every size of the ROB, the pools and the window.          *)
(***************************************************************************)
EXTENDS TransientFlush, FiniteSetTheorems, WellFoundedInduction, TLAPS

----------------------------------------------------------------------------
(* The inductive invariant *)

InRROB == {rROB[k] : k \in DOMAIN rROB}

Increasing(s) == \A a, b \in DOMAIN s : a < b => s[a] < s[b]

\* t is s with x, which is younger than all of it, at its end.
GrownBy(s, x, t) ==
  /\ \A k \in DOMAIN s : s[k] < x
  /\ t = Append(s, x)

\* rROB and ROB together hold the instructions that are alive, in program
\* order, and what is past the PNR has executed and is not transient.
RobInv ==
  /\ Increasing(ROB) /\ Increasing(rROB)
  /\ \A i \in InRROB : \A j \in InROB : i < j
  /\ InROB \cup InRROB = Alive
  /\ \A i \in InRROB : inst[i].executed /\ ~inst[i].transient

\* The life of an instruction: its flags are set in this order.
LifeInv ==
  /\ \A i \in Insts : inst[i].issued \/ inst[i].executing => i \in Added
  /\ \A i \in Added :
       /\ inst[i].executed  => inst[i].executing /\ inst[i].del_entry
       /\ inst[i].destroyed => inst[i].executed
       /\ inst[i].try_flush_transient => inst[i].transient

\* Nothing points at an instruction that has executed.
PointersInv ==
  /\ \A r \in Regs : /\ RAT[r] # 0  => ~inst[RAT[r]].executed
                     /\ TRAT[r] # 0 => ~inst[TRAT[r]].executed
  /\ \A i \in Added : \A j \in deps[i] : j \in Added /\ ~inst[j].executed

----------------------------------------------------------------------------
(* Operators *)

\* A set of numbers that is not empty has a least member.
LEMMA LeastNat ==
  ASSUME NEW S \in SUBSET Nat, S # {}
  PROVE  \E x \in S : \A y \in S : x <= y
  <1> DEFINE Less == {m \in Nat \X Nat : m[1] < m[2]}
  <1>1. IsWellFoundedOn(Less, Nat)
    BY NatLessThanWellFounded DEF OpToRel
  <1> HIDE DEF Less
  <1>2. PICK x \in S : \A y \in S : ~(<<y, x>> \in Less)
    BY <1>1, WFMin
  <1>3. \A y \in S : y < x => <<y, x>> \in Less
    BY DEF Less
  <1>4. \A y \in S : x <= y
    <2> SUFFICES ASSUME NEW y \in S PROVE x <= y
      OBVIOUS
    <2>1. x \in Nat /\ y \in Nat /\ ~(y < x)
      BY <1>2, <1>3
    <2>2. QED  BY <2>1
  <1>5. QED  BY <1>4

\* Counting the members of a set of indices up to k: the count grows with k,
\* and every number up to the size of the set is the count at one of them.
LEMMA Ranks ==
  ASSUME NEW n \in Nat, NEW K, \A k \in K : k \in 1..n
  PROVE  /\ IsFiniteSet(K) /\ Cardinality(K) \in Nat
         /\ \A k \in K : Cardinality({m \in K : m <= k}) \in 1..Cardinality(K)
         /\ \A k, l \in K : k < l =>
              Cardinality({m \in K : m <= k}) < Cardinality({m \in K : m <= l})
         /\ \A c \in 1..Cardinality(K) :
              \E k \in K : Cardinality({m \in K : m <= k}) = c
  <1> DEFINE Up(k) == {m \in K : m <= k}
  <1>1. IsFiniteSet(K) /\ Cardinality(K) \in Nat
    <2>1. IsFiniteSet(1..n)
      BY FS_Interval
    <2>2. K \in SUBSET (1..n)
      OBVIOUS
    <2>3. QED  BY <2>1, <2>2, FS_Subset, FS_CardinalityType
  <1>2. \A k \in Int : /\ IsFiniteSet(Up(k)) /\ Cardinality(Up(k)) \in Nat
                       /\ Cardinality(Up(k)) <= Cardinality(K)
    BY <1>1, FS_Subset, FS_CardinalityType
  <1>3. \A k \in K : k \in Int /\ 1 <= k /\ k <= n
    OBVIOUS
  <1>4. ASSUME NEW k \in Int
        PROVE  /\ k \in K => /\ Up(k) = Up(k - 1) \cup {k} /\ k \notin Up(k - 1)
                             /\ Cardinality(Up(k)) = Cardinality(Up(k - 1)) + 1
               /\ k \notin K => Up(k) = Up(k - 1)
    <2>1. \A m \in K : m <= k <=> (m <= k - 1 \/ m = k)
      BY <1>3
    <2>2. k \in K => Up(k) = Up(k - 1) \cup {k}
      BY <1>3, <2>1
    <2>3. k \notin Up(k - 1)
      OBVIOUS
    <2>4. k \notin K => Up(k) = Up(k - 1)
      BY <2>1
    <2> HIDE DEF Up
    <2>5. IsFiniteSet(Up(k - 1))
      BY <1>2
    <2>6. k \in K => Cardinality(Up(k)) = Cardinality(Up(k - 1)) + 1
      BY <2>2, <2>3, <2>5, FS_AddElement
    <2>7. QED  BY <2>2, <2>3, <2>4, <2>6
  <1>5. ASSUME NEW k \in Int, NEW l \in Int, k <= l
        PROVE  Cardinality(Up(k)) <= Cardinality(Up(l))
    <2>1. Up(k) \subseteq Up(l)
      BY <1>3, <1>5
    <2>2. IsFiniteSet(Up(l))
      BY <1>2
    <2> HIDE DEF Up
    <2>3. QED  BY <2>1, <2>2, FS_Subset
  <1>6. Up(n) = K /\ Up(0) = {} /\ n \in Int /\ 0 \in Int
    BY <1>3
  <1> HIDE DEF Up
  <1>7. \A k, l \in K : k < l => Cardinality(Up(k)) < Cardinality(Up(l))
    <2> SUFFICES ASSUME NEW k \in K, NEW l \in K, k < l
                 PROVE  Cardinality(Up(k)) < Cardinality(Up(l))
      OBVIOUS
    <2>1. k \in Int /\ l \in Int /\ l - 1 \in Int /\ k <= l - 1
      BY <1>3
    <2>2. Cardinality(Up(k)) <= Cardinality(Up(l - 1))
      BY <1>5, <2>1
    <2>3. Cardinality(Up(l)) = Cardinality(Up(l - 1)) + 1
      BY <1>4, <2>1
    <2>4. /\ Cardinality(Up(k)) \in Nat /\ Cardinality(Up(l)) \in Nat
          /\ Cardinality(Up(l - 1)) \in Nat
      BY <1>2, <2>1
    <2>5. QED  BY <2>2, <2>3, <2>4
  <1>8. \A k \in K : Cardinality(Up(k)) \in 1..Cardinality(K)
    <2> SUFFICES ASSUME NEW k \in K PROVE Cardinality(Up(k)) \in 1..Cardinality(K)
      OBVIOUS
    <2>1. k \in Int /\ k - 1 \in Int /\ Cardinality(Up(k)) = Cardinality(Up(k - 1)) + 1
      BY <1>3, <1>4
    <2>2. /\ Cardinality(Up(k)) \in Nat /\ Cardinality(Up(k - 1)) \in Nat
          /\ Cardinality(Up(k)) <= Cardinality(K)
      BY <1>2, <2>1
    <2>3. QED  BY <1>1, <2>1, <2>2
  <1>9. ASSUME NEW c \in 1..Cardinality(K)
        PROVE  \E k \in K : Cardinality(Up(k)) = c
    <2> DEFINE Far == {k \in 0..n : c <= Cardinality(Up(k))}
    <2>1. n \in Far /\ Far \in SUBSET Nat
      BY <1>1, <1>6
    <2>2. PICK k \in Far : \A l \in Far : k <= l
      BY <2>1, LeastNat
    <2>3. k \in 0..n /\ c <= Cardinality(Up(k))
      OBVIOUS
    <2>4. k # 0
      BY <1>1, <1>6, <2>3, FS_EmptySet
    <2>5. k - 1 \in 0..n /\ k \in Int /\ k - 1 \in Int
      BY <2>3, <2>4
    <2>6. /\ Cardinality(Up(k - 1)) \in Nat /\ Cardinality(Up(k)) \in Nat
          /\ c \in Nat
      BY <1>1, <1>2, <2>5
    <2>7. Cardinality(Up(k - 1)) < c
      <3>1. k - 1 \notin Far
        BY <2>2, <2>5
      <3>2. QED  BY <2>5, <2>6, <3>1
    <2>8. k \notin K => Cardinality(Up(k)) = Cardinality(Up(k - 1))
      BY <1>4, <2>5
    <2>9. k \in K /\ Cardinality(Up(k)) = Cardinality(Up(k - 1)) + 1
      BY <1>4, <2>3, <2>5, <2>6, <2>7, <2>8
    <2>10. QED  BY <2>3, <2>6, <2>7, <2>9
  <1>10. QED  BY <1>1, <1>7, <1>8, <1>9 DEF Up

\* What the flush leaves in the ROB: everything but the instructions it
\* destroys, in the order they had.
LEMMA WithoutKeeps ==
  ASSUME NEW S, NEW s \in Seq(S), NEW D
  PROVE  /\ Without(s, D) \in Seq(S)
         /\ {Without(s, D)[k] : k \in DOMAIN Without(s, D)} =
              {s[k] : k \in DOMAIN s} \ D
         /\ \A a, b \in DOMAIN Without(s, D) : a < b =>
              \E k, l \in DOMAIN s :
                k < l /\ Without(s, D)[a] = s[k] /\ Without(s, D)[b] = s[l]
  <1> DEFINE K == {k \in DOMAIN s : s[k] \notin D}
             rank(k) == Cardinality({m \in K : m <= k})
             nth(c) == CHOOSE k \in K : rank(k) = c
             W == [c \in 1..Cardinality(K) |-> s[nth(c)]]
  <1>1. Without(s, D) = W
    BY DEF Without
  <1>2. DOMAIN s = 1..Len(s) /\ Len(s) \in Nat /\ (\A k \in K : k \in 1..Len(s))
        /\ \A k \in DOMAIN s : s[k] \in S
    OBVIOUS
  <1>3. /\ Cardinality(K) \in Nat
        /\ \A k \in K : rank(k) \in 1..Cardinality(K)
        /\ \A k, l \in K : k < l => rank(k) < rank(l)
        /\ \A c \in 1..Cardinality(K) : \E k \in K : rank(k) = c
    <2> HIDE DEF K
    <2>1. QED  BY <1>2, Ranks
  <1>4. \A k \in K : k \in DOMAIN s /\ k \in Nat /\ s[k] \in S /\ s[k] \notin D
    BY <1>2
  <1>5. \A k \in DOMAIN s : s[k] \notin D => k \in K
    OBVIOUS
  <1> HIDE DEF K, rank
  <1>6. \A c \in 1..Cardinality(K) : nth(c) \in K /\ rank(nth(c)) = c
    BY <1>3, Zenon
  <1> HIDE DEF nth
  <1>7. \A k \in K : \E c \in 1..Cardinality(K) : nth(c) = k
    <2> SUFFICES ASSUME NEW k \in K PROVE nth(rank(k)) = k
      BY <1>3
    <2>1. nth(rank(k)) \in K /\ rank(nth(rank(k))) = rank(k)
      BY <1>3, <1>6
    <2> DEFINE l == nth(rank(k))
    <2>2. ~(k < l) /\ ~(l < k) /\ k \in Nat /\ l \in Nat
      <3> HIDE DEF l
      <3>1. l \in K /\ rank(l) = rank(k)
        BY <2>1 DEF l
      <3>2. rank(k) \in Nat
        BY <1>3
      <3>3. QED  BY <1>3, <1>4, <3>1, <3>2
    <2>3. QED  BY <2>2
  <1>8. W \in Seq(S)
    BY <1>3, <1>4, <1>6, SMTT(40)
  <1>9. DOMAIN W = 1..Cardinality(K) /\ \A c \in DOMAIN W : W[c] = s[nth(c)]
    OBVIOUS
  <1> HIDE DEF W
  <1>10. {W[k] : k \in DOMAIN W} = {s[k] : k \in DOMAIN s} \ D
    BY <1>4, <1>5, <1>6, <1>7, <1>9
  <1>11. \A a, b \in DOMAIN W : a < b =>
           \E k, l \in DOMAIN s : k < l /\ W[a] = s[k] /\ W[b] = s[l]
    <2> SUFFICES ASSUME NEW a \in DOMAIN W, NEW b \in DOMAIN W, a < b
                 PROVE  /\ nth(a) \in DOMAIN s /\ nth(b) \in DOMAIN s
                        /\ nth(a) < nth(b)
      BY <1>9
    <2>1. /\ nth(a) \in K /\ nth(b) \in K /\ rank(nth(a)) = a /\ rank(nth(b)) = b
      BY <1>6, <1>9
    <2>2. nth(a) # nth(b) /\ ~(nth(b) < nth(a))
      <3>1. a \in Nat /\ b \in Nat
        BY <1>9
      <3>2. QED  BY <1>3, <2>1, <3>1
    <2>3. QED  BY <1>4, <2>1, <2>2
  <1>12. QED  BY <1>1, <1>8, <1>10, <1>11

----------------------------------------------------------------------------
(* What each action does *)

\* The instructions and registers are disjoint from what stands for none, and
\* the bounds are numbers.
LEMMA Constants ==
  /\ MaxInst \in Nat /\ NoReg \notin Regs /\ TransientKinds \subseteq {"ALU", "BR"}
  /\ num_regs \in Int /\ nRegs \in Int /\ MaxWinSize \in Int /\ max_branches \in Int
  BY TransientFlushAssumption

\* A new instruction has none of its flags set.
Fresh(new) ==
  /\ new \in Inst
  /\ ~new.issued /\ ~new.executing /\ ~new.executed /\ ~new.del_entry
  /\ ~new.try_flush_transient /\ ~new.destroyed

\* Dinst::setup clears every flag.
LEMMA NewIsFresh ==
  ASSUME NEW kind \in {"ALU", "BR"}, NEW transient \in BOOLEAN,
         NEW dst \in Regs \cup {NoReg}, NEW miss \in {"no", "slow", "fast"}
  PROVE  Fresh(NewInst(kind, transient, dst, miss))
  BY DEF Fresh, NewInst, Inst

\* add_inst puts a fresh instruction at the end of the ROB.
LEMMA AddDoes ==
  ASSUME TypeOK, NEW new, Fresh(new), NEW src \in SUBSET Regs, add_inst(new, src),
         fetch' \in {"run", "blocked", "ready"}
  PROVE  /\ TypeOK' /\ added' = added + 1 /\ added + 1 \in Insts
         /\ Added' = Added \cup {added + 1} /\ added + 1 \notin Added
         /\ ROB' = Append(ROB, added + 1) /\ rROB' = rROB
         /\ \A j \in Insts : j # added + 1 => inst'[j] = inst[j] /\ deps'[j] = deps[j]
         /\ LET d == inst'[added + 1] IN
              /\ ~d.executing /\ ~d.executed /\ ~d.del_entry /\ ~d.destroyed
              /\ ~d.try_flush_transient
              /\ d.transient = new.transient /\ d.dst = new.dst /\ d.kind = new.kind
  <1> DEFINE i    == added + 1
             rat  == IF new.transient THEN TRAT ELSE RAT
             wait == {rat[r] : r \in src} \ {0}
             regs == IF new.dst = NoReg THEN 0 ELSE 1
             d    == [new EXCEPT !.issued = wait = {}]
  <1>1. /\ i \in Insts /\ added' = i
        /\ inst' = [inst EXCEPT ![i] = d]
        /\ deps' = [deps EXCEPT ![i] = wait]
        /\ ROB' = Append(ROB, i)
        /\ nTotalRegs' = nTotalRegs - regs
        /\ regPool' = regPool - regs
        /\ windowSize' = windowSize - 1
        /\ freeBranches' = IF new.kind = "BR" THEN freeBranches - 1 ELSE freeBranches
        /\ TRAT' = IF new.transient THEN [r \in Regs |-> IF r = new.dst THEN i ELSE TRAT[r]]
                   ELSE TRAT
        /\ RAT'  = IF new.transient THEN RAT
                   ELSE [r \in Regs |-> IF r = new.dst THEN i ELSE RAT[r]]
        /\ UNCHANGED rROB
    BY DEF add_inst
  <1>2. /\ added \in 0..MaxInst /\ inst \in [Insts -> Inst] /\ MaxInst \in Nat
        /\ ROB \in Seq(Added) /\ rROB \in Seq(Added)
        /\ RAT \in [Regs -> 0..added] /\ TRAT \in [Regs -> 0..added]
        /\ deps \in [Insts -> SUBSET Insts]
        /\ nTotalRegs \in Int /\ regPool \in Int /\ windowSize \in Int
        /\ freeBranches \in Int
    BY Constants DEF TypeOK
  <1>3. /\ Added' = Added \cup {i} /\ i \notin Added /\ Added \subseteq Insts
        /\ added' \in 0..MaxInst
    BY <1>1, <1>2, SMTT(40) DEF Added, Insts
  <1>4. wait \in SUBSET Insts
    <2>1. \A r \in src : rat[r] \in 0..added
      BY <1>2
    <2>2. 0..added \subseteq Insts \cup {0}
      BY <1>2 DEF Insts
    <2>3. QED  BY <2>1, <2>2
  <1>5. RAT' \in [Regs -> 0..added'] /\ TRAT' \in [Regs -> 0..added']
    <2>1. i \in 0..added' /\ 0..added \subseteq 0..added'
      BY <1>1, <1>2
    <2>2. QED  BY <1>1, <1>2, <2>1
  <1>6. ROB' \in Seq(Added') /\ rROB' \in Seq(Added')
    <2>1. ROB \in Seq(Added') /\ rROB \in Seq(Added') /\ i \in Added'
      BY <1>2, <1>3
    <2>2. QED  BY <1>1, <2>1
  <1>7. d \in Inst /\ ~d.executing /\ ~d.executed /\ ~d.del_entry /\ ~d.destroyed
        /\ ~d.try_flush_transient /\ d.transient = new.transient
        /\ d.dst = new.dst /\ d.kind = new.kind
    <2>1. (wait = {}) \in BOOLEAN
      OBVIOUS
    <2> HIDE DEF wait
    <2>2. QED  BY <2>1 DEF Fresh, Inst
  <1> HIDE DEF d, wait
  <1>8. /\ inst' \in [Insts -> Inst] /\ deps' \in [Insts -> SUBSET Insts]
        /\ inst'[i] = d
        /\ \A j \in Insts : j # i => inst'[j] = inst[j] /\ deps'[j] = deps[j]
    BY <1>1, <1>2, <1>4, <1>7
  <1>9. {nTotalRegs, regPool, windowSize, freeBranches}' \subseteq Int
    BY <1>1, <1>2
  <1>10. TypeOK'
    BY <1>3, <1>5, <1>6, <1>8, <1>9 DEF TypeOK
  <1>11. QED  BY <1>1, <1>3, <1>7, <1>8, <1>10

\* clearRATEntry keeps a rename table typed and only clears.
LEMMA ClearRAT ==
  ASSUME NEW n \in Nat, NEW rat \in [Regs -> 0..n], NEW S
  PROVE  /\ clearRATEntry(rat, S) \in [Regs -> 0..n]
         /\ \A r \in Regs : clearRATEntry(rat, S)[r] # 0 =>
              clearRATEntry(rat, S)[r] = rat[r] /\ rat[r] \notin S
  BY DEF clearRATEntry

\* The flags a step leaves alone.
SameInst(j) ==
  /\ inst'[j].transient = inst[j].transient /\ inst'[j].dst = inst[j].dst
  /\ inst'[j].executed = inst[j].executed /\ inst'[j].destroyed = inst[j].destroyed
  /\ inst'[j].del_entry = inst[j].del_entry
  /\ inst'[j].try_flush_transient = inst[j].try_flush_transient

\* executing and unBlockFetchBPredDelay set only flags that nothing is
\* counted by.
LEMMA QuietDoes ==
  ASSUME TypeOK,
         \/ \E i \in Insts : executing(i)
         \/ unBlockFetchBPredDelay
  PROVE  /\ TypeOK' /\ UNCHANGED <<added, ROB, rROB, RAT, TRAT, deps, pools>>
         /\ \A j \in Insts : /\ SameInst(j) /\ inst'[j].issued = inst[j].issued
                             /\ inst[j].executing => inst'[j].executing
                             /\ inst'[j].executing => inst[j].executing \/ inst[j].issued
  <1>1. ASSUME NEW i \in Insts, executing(i)
        PROVE  /\ inst' \in [Insts -> Inst]
               /\ \A j \in Insts : /\ SameInst(j) /\ inst'[j].issued = inst[j].issued
                                   /\ inst[j].executing => inst'[j].executing
                                   /\ inst'[j].executing => inst[j].executing \/ inst[j].issued
    <2>1. inst \in [Insts -> Inst] /\ inst[i].issued
          /\ inst' = [inst EXCEPT ![i] = [inst[i] EXCEPT !.executing = TRUE]]
      BY <1>1 DEF executing, TypeOK
    <2>2. [inst[i] EXCEPT !.executing = TRUE] \in Inst
      BY <2>1 DEF Inst
    <2>3. inst' \in [Insts -> Inst]
      BY <2>1, <2>2
    <2>4. \A j \in Insts : j # i => inst'[j] = inst[j]
      BY <2>1
    <2>5. inst'[i] = [inst[i] EXCEPT !.executing = TRUE] /\ inst[i] \in Inst
      BY <2>1
    <2>6. QED  BY <2>1, <2>3, <2>4, <2>5 DEF SameInst, Inst
  <1>2. ASSUME unBlockFetchBPredDelay
        PROVE  /\ inst' \in [Insts -> Inst]
               /\ \A j \in Insts : /\ SameInst(j) /\ inst'[j].issued = inst[j].issued
                                   /\ inst'[j].executing = inst[j].executing
    <2>1. PICK i \in Added : inst' = [inst EXCEPT ![i] = [inst[i] EXCEPT !.miss = "no"]]
      BY <1>2 DEF unBlockFetchBPredDelay
    <2>2. i \in Insts /\ inst \in [Insts -> Inst]
      BY Constants DEF TypeOK, Added, Insts
    <2>3. [inst[i] EXCEPT !.miss = "no"] \in Inst
      BY <2>2 DEF Inst
    <2>4. inst' \in [Insts -> Inst]
      BY <2>1, <2>2, <2>3
    <2>5. \A j \in Insts : j # i => inst'[j] = inst[j]
      BY <2>1, <2>2
    <2>6. inst'[i] = [inst[i] EXCEPT !.miss = "no"] /\ inst[i] \in Inst
      BY <2>1, <2>2
    <2>7. QED  BY <2>4, <2>5, <2>6 DEF SameInst, Inst
  <1>3. /\ UNCHANGED <<added, ROB, rROB, RAT, TRAT, deps, pools>>
        /\ fetch' \in {"run", "blocked", "ready"}
    BY DEF executing, unBlockFetchBPredDelay, TypeOK
  <1>4. /\ inst' \in [Insts -> Inst]
        /\ \A j \in Insts : /\ SameInst(j) /\ inst'[j].issued = inst[j].issued
                            /\ inst[j].executing => inst'[j].executing
                            /\ inst'[j].executing => inst[j].executing \/ inst[j].issued
    BY <1>1, <1>2
  <1>5. TypeOK'
    BY <1>3, <1>4 DEF TypeOK, pools, Added
  <1>6. QED  BY <1>3, <1>4, <1>5

\* executed marks one instruction, wakes others, and clears every pointer at
\* the one that executed.
LEMMA ExecutedDoes ==
  ASSUME TypeOK, NEW i \in Insts, executed(i)
  PROVE  /\ TypeOK' /\ UNCHANGED <<added, ROB, rROB, nTotalRegs, regPool>>
         /\ inst[i].executing /\ ~inst[i].executed
         /\ inst'[i].executed /\ inst'[i].del_entry
         /\ windowSize' = IF inst[i].del_entry THEN windowSize ELSE windowSize + 1
         /\ \A j \in Insts :
              /\ inst'[j].transient = inst[j].transient /\ inst'[j].dst = inst[j].dst
              /\ inst'[j].destroyed = inst[j].destroyed
              /\ inst'[j].executing = inst[j].executing
              /\ inst'[j].try_flush_transient = inst[j].try_flush_transient
              /\ j # i => /\ inst'[j].executed = inst[j].executed
                          /\ inst'[j].del_entry = inst[j].del_entry
              /\ inst'[j].issued => inst[j].issued \/ j \in Added
              /\ deps'[j] = deps[j] \ {i}
         /\ \A r \in Regs : /\ RAT'[r] # 0 => RAT'[r] = RAT[r] /\ RAT[r] # i
                            /\ TRAT'[r] # 0 => TRAT'[r] = TRAT[r] /\ TRAT[r] # i
  <1> DEFINE woken == {j \in Added : deps[j] = {i}}
             new(j) == IF j = i THEN [inst[j] EXCEPT !.executed = TRUE, !.del_entry = TRUE]
                       ELSE IF j \in woken THEN [inst[j] EXCEPT !.issued = TRUE]
                            ELSE inst[j]
  <1>1. /\ inst[i].executing /\ ~inst[i].executed
        /\ inst' = [j \in Insts |-> new(j)]
        /\ deps' = [j \in Insts |-> deps[j] \ {i}]
        /\ RAT' = clearRATEntry(RAT, {i}) /\ TRAT' = clearRATEntry(TRAT, {i})
        /\ windowSize' = IF inst[i].del_entry THEN windowSize ELSE windowSize + 1
        /\ freeBranches' = IF inst[i].kind = "BR" THEN freeBranches + 1 ELSE freeBranches
        /\ fetch' = IF inst[i].miss = "slow" THEN "ready" ELSE fetch
        /\ UNCHANGED <<added, ROB, rROB, nTotalRegs, regPool>>
    BY DEF executed
  <1>2. /\ inst \in [Insts -> Inst] /\ deps \in [Insts -> SUBSET Insts]
        /\ added \in Nat /\ RAT \in [Regs -> 0..added] /\ TRAT \in [Regs -> 0..added]
        /\ windowSize \in Int /\ freeBranches \in Int
    BY DEF TypeOK
  <1>3. ASSUME NEW j \in Insts
        PROVE  /\ new(j) \in Inst
               /\ new(j).transient = inst[j].transient /\ new(j).dst = inst[j].dst
               /\ new(j).destroyed = inst[j].destroyed
               /\ new(j).executing = inst[j].executing
               /\ new(j).try_flush_transient = inst[j].try_flush_transient
               /\ j = i => new(j).executed /\ new(j).del_entry
               /\ j # i => /\ new(j).executed = inst[j].executed
                           /\ new(j).del_entry = inst[j].del_entry
               /\ new(j).issued => inst[j].issued \/ j \in Added
    <2>1. inst[j] \in Inst
      BY <1>2
    <2>2. CASE j = i
      <3>1. new(j) = [inst[j] EXCEPT !.executed = TRUE, !.del_entry = TRUE]
        BY <2>2
      <3> HIDE DEF new
      <3>2. QED  BY <2>1, <2>2, <3>1 DEF Inst
    <2>3. CASE j # i /\ j \in woken
      <3>1. new(j) = [inst[j] EXCEPT !.issued = TRUE] /\ j \in Added
        BY <2>3
      <3> HIDE DEF new
      <3>2. QED  BY <2>1, <2>3, <3>1 DEF Inst
    <2>4. CASE j # i /\ j \notin woken
      <3>1. new(j) = inst[j]
        BY <2>4
      <3> HIDE DEF new
      <3>2. QED  BY <2>1, <2>4, <3>1
    <2>5. QED  BY <2>2, <2>3, <2>4
  <1> HIDE DEF new
  <1>4. inst' \in [Insts -> Inst] /\ \A j \in Insts : inst'[j] = new(j)
    BY <1>1, <1>3
  <1>5. deps' \in [Insts -> SUBSET Insts] /\ \A j \in Insts : deps'[j] = deps[j] \ {i}
    BY <1>1, <1>2
  <1>6. /\ RAT' \in [Regs -> 0..added] /\ TRAT' \in [Regs -> 0..added]
        /\ \A r \in Regs : /\ RAT'[r] # 0 => RAT'[r] = RAT[r] /\ RAT[r] # i
                           /\ TRAT'[r] # 0 => TRAT'[r] = TRAT[r] /\ TRAT[r] # i
    <2>1. /\ clearRATEntry(RAT, {i}) \in [Regs -> 0..added]
          /\ \A r \in Regs : clearRATEntry(RAT, {i})[r] # 0 =>
               clearRATEntry(RAT, {i})[r] = RAT[r] /\ RAT[r] \notin {i}
      BY <1>2, ClearRAT
    <2>2. /\ clearRATEntry(TRAT, {i}) \in [Regs -> 0..added]
          /\ \A r \in Regs : clearRATEntry(TRAT, {i})[r] # 0 =>
               clearRATEntry(TRAT, {i})[r] = TRAT[r] /\ TRAT[r] \notin {i}
      BY <1>2, ClearRAT
    <2>3. QED  BY <1>1, <2>1, <2>2
  <1>7. TypeOK'
    <2>1. {nTotalRegs, regPool, windowSize, freeBranches}' \subseteq Int
      BY <1>1, <1>2 DEF TypeOK
    <2>2. fetch' \in {"run", "blocked", "ready"}
      BY <1>1 DEF TypeOK
    <2>3. QED  BY <1>1, <1>4, <1>5, <1>6, <2>1, <2>2 DEF TypeOK, Added
  <1>8. QED  BY <1>1, <1>3, <1>4, <1>5, <1>6, <1>7

\* The transients a flush destroys, and the ones it marks.
Dead   == {i \in InROB : inst[i].transient /\ inst[i].executed}
Marked == {i \in InROB : /\ inst[i].transient /\ ~inst[i].executed
                         /\ ~inst[i].try_flush_transient}

\* What the two buffers hold are instructions that were added.
LEMMA RobMembers ==
  ASSUME TypeOK
  PROVE  /\ InROB \in SUBSET Added /\ InRROB \in SUBSET Added
         /\ Added \in SUBSET Insts /\ added \in Nat
         /\ DOMAIN ROB = 1..Len(ROB) /\ DOMAIN rROB = 1..Len(rROB)
  <1>1. ROB \in Seq(Added) /\ rROB \in Seq(Added) /\ added \in 0..MaxInst /\ MaxInst \in Nat
    BY Constants DEF TypeOK
  <1>2. Added \in SUBSET Insts /\ added \in Nat
    BY <1>1 DEF Added, Insts
  <1>3. QED  BY <1>1, <1>2 DEF InROB, InRROB

\* The flush destroys the transients that have executed, marks the others, and
\* gives back what each of them still holds.
LEMMA FlushDoes ==
  ASSUME TypeOK, flush
  PROVE  /\ TypeOK' /\ UNCHANGED <<added, rROB, deps>>
         /\ InROB' = InROB \ Dead
         /\ Increasing(ROB) => Increasing(ROB')
         /\ \A j \in Insts :
              /\ inst'[j].transient = inst[j].transient /\ inst'[j].dst = inst[j].dst
              /\ inst'[j].issued = inst[j].issued
              /\ inst'[j].executing = inst[j].executing
              /\ inst'[j].executed = inst[j].executed
              /\ inst'[j].destroyed <=> (inst[j].destroyed \/ j \in Dead)
              /\ inst'[j].del_entry <=> (inst[j].del_entry \/ j \in Marked)
              /\ inst'[j].try_flush_transient <=>
                   (inst[j].try_flush_transient \/ (j \in Marked /\ hasDst(j)))
         /\ \A r \in Regs : /\ RAT'[r] # 0 => RAT'[r] = RAT[r]
                            /\ TRAT'[r] # 0 => TRAT'[r] = TRAT[r]
         /\ nTotalRegs' = nTotalRegs + Count({i \in Dead : hasDst(i)})
         /\ regPool' = regPool
                + Count({i \in Dead : hasDst(i) /\ ~inst[i].try_flush_transient})
                + Count({i \in Marked : hasDst(i)})
         /\ windowSize' = windowSize + Count({i \in Marked : ~inst[i].del_entry})
  <1> DEFINE T == {i \in InROB : inst[i].transient}
             E == {i \in T : inst[i].executed}
             P == {i \in T : ~inst[i].executed /\ ~inst[i].try_flush_transient}
             mark(i) == [inst[i] EXCEPT
                    !.flush_transient = @ \/ inst[i].executing \/ inst[i].issued,
                    !.del_entry = TRUE, !.try_flush_transient = hasDst(i)]
             new(i) == IF i \in E THEN [inst[i] EXCEPT !.destroyed = TRUE]
                       ELSE IF i \in P THEN mark(i) ELSE inst[i]
  <1>1. /\ inst' = [i \in Insts |-> new(i)]
        /\ ROB' = Without(ROB, E)
        /\ TRAT' = clearRATEntry(TRAT, T) /\ RAT' = clearRATEntry(RAT, T)
        /\ nTotalRegs' = nTotalRegs + Count({i \in E : hasDst(i)})
        /\ regPool' = regPool
             + Count({i \in E : hasDst(i) /\ ~inst[i].try_flush_transient})
             + Count({i \in P : hasDst(i)})
        /\ windowSize' = windowSize + Count({i \in P : ~inst[i].del_entry})
        /\ freeBranches' = freeBranches + try_flushed(E \cup P)
        /\ fetch' = "run" /\ UNCHANGED <<added, rROB, deps>>
    BY DEF flush, flush_transient_from_rob
  <1>2. E = Dead /\ P = Marked /\ E \in SUBSET Added /\ P \in SUBSET Added
        /\ E \cap P = {}
    BY RobMembers DEF Dead, Marked
  <1>3. ASSUME NEW j \in Insts
        PROVE  /\ new(j) \in Inst
               /\ new(j).transient = inst[j].transient /\ new(j).dst = inst[j].dst
               /\ new(j).issued = inst[j].issued
               /\ new(j).executing = inst[j].executing
               /\ new(j).executed = inst[j].executed
               /\ new(j).destroyed <=> (inst[j].destroyed \/ j \in E)
               /\ new(j).del_entry <=> (inst[j].del_entry \/ j \in P)
               /\ new(j).try_flush_transient <=>
                    (inst[j].try_flush_transient \/ (j \in P /\ hasDst(j)))
    <2>1. inst[j] \in Inst /\ hasDst(j) \in BOOLEAN
      BY DEF TypeOK, hasDst
    <2>2. CASE j \in E
      <3>1. new(j) = [inst[j] EXCEPT !.destroyed = TRUE] /\ j \notin P
        BY <1>2, <2>2
      <3> HIDE DEF new, E, P
      <3>2. QED  BY <2>1, <2>2, <3>1 DEF Inst
    <2>3. CASE j \in P
      <3>1. new(j) = mark(j) /\ j \notin E /\ ~inst[j].try_flush_transient
        BY <1>2, <2>3
      <3> DEFINE f == inst[j].flush_transient \/ inst[j].executing \/ inst[j].issued
      <3>2. new(j) = [inst[j] EXCEPT !.flush_transient = f, !.del_entry = TRUE,
                                     !.try_flush_transient = hasDst(j)]
            /\ f \in BOOLEAN
        BY <3>1
      <3> HIDE DEF new, E, P, f
      <3>3. QED  BY <2>1, <2>3, <3>1, <3>2 DEF Inst
    <2>4. CASE j \notin E /\ j \notin P
      <3>1. new(j) = inst[j]
        BY <2>4
      <3> HIDE DEF new, E, P
      <3>2. QED  BY <2>1, <2>4, <3>1
    <2>5. QED  BY <2>2, <2>3, <2>4
  <1> HIDE DEF new, E, P, T
  <1>4. inst' \in [Insts -> Inst] /\ \A j \in Insts : inst'[j] = new(j)
    BY <1>1, <1>3
  <1>5. /\ ROB \in Seq(Added) /\ added \in Nat
        /\ RAT \in [Regs -> 0..added] /\ TRAT \in [Regs -> 0..added]
    BY RobMembers DEF TypeOK
  <1>6. /\ ROB' \in Seq(Added)
        /\ {ROB'[k] : k \in DOMAIN ROB'} = {ROB[k] : k \in DOMAIN ROB} \ E
        /\ \A a, b \in DOMAIN ROB' : a < b =>
             \E k, l \in DOMAIN ROB : k < l /\ ROB'[a] = ROB[k] /\ ROB'[b] = ROB[l]
    BY <1>1, <1>5, WithoutKeeps
  <1>7. InROB' = InROB \ Dead
    BY <1>2, <1>6 DEF InROB
  <1>8. Increasing(ROB) => Increasing(ROB')
    BY <1>6 DEF Increasing
  <1>9. /\ RAT' \in [Regs -> 0..added] /\ TRAT' \in [Regs -> 0..added]
        /\ \A r \in Regs : /\ RAT'[r] # 0 => RAT'[r] = RAT[r]
                           /\ TRAT'[r] # 0 => TRAT'[r] = TRAT[r]
    <2>1. /\ clearRATEntry(RAT, T) \in [Regs -> 0..added]
          /\ \A r \in Regs : clearRATEntry(RAT, T)[r] # 0 =>
               clearRATEntry(RAT, T)[r] = RAT[r]
      BY <1>5, ClearRAT
    <2>2. /\ clearRATEntry(TRAT, T) \in [Regs -> 0..added]
          /\ \A r \in Regs : clearRATEntry(TRAT, T)[r] # 0 =>
               clearRATEntry(TRAT, T)[r] = TRAT[r]
      BY <1>5, ClearRAT
    <2>3. QED  BY <1>1, <2>1, <2>2
  <1>10. \A S \in SUBSET Added : IsFiniteSet(S) /\ Count(S) \in Nat
    <2>1. IsFiniteSet(Added)
      BY <1>5, FS_Interval DEF Added
    <2>2. QED  BY <2>1, FS_Subset, FS_CardinalityType DEF Count
  <1>11. {nTotalRegs, regPool, windowSize, freeBranches}' \subseteq Int
    <2>1. /\ Count({i \in E : hasDst(i)}) \in Nat
          /\ Count({i \in E : hasDst(i) /\ ~inst[i].try_flush_transient}) \in Nat
          /\ Count({i \in P : hasDst(i)}) \in Nat
          /\ Count({i \in P : ~inst[i].del_entry}) \in Nat
          /\ try_flushed(E \cup P) \in Nat
      BY <1>2, <1>10 DEF try_flushed
    <2>2. /\ nTotalRegs \in Int /\ regPool \in Int /\ windowSize \in Int
          /\ freeBranches \in Int
      BY DEF TypeOK
    <2>3. QED  BY <1>1, <2>1, <2>2
  <1>12. TypeOK'
    BY <1>1, <1>4, <1>6, <1>9, <1>11 DEF TypeOK, Added
  <1>13. QED
    BY <1>1, <1>2, <1>3, <1>4, <1>7, <1>8, <1>9, <1>12

\* Taking the head off a buffer in program order.
LEMMA TailInOrder ==
  ASSUME NEW S \in SUBSET Nat, NEW s \in Seq(S), s # <<>>, Increasing(s)
  PROVE  /\ Tail(s) \in Seq(S) /\ Increasing(Tail(s)) /\ Head(s) \in S
         /\ Head(s) \in {s[k] : k \in DOMAIN s}
         /\ {Tail(s)[k] : k \in DOMAIN Tail(s)} = {s[k] : k \in DOMAIN s} \ {Head(s)}
         /\ \A x \in {Tail(s)[k] : k \in DOMAIN Tail(s)} : Head(s) < x
  <1>1. /\ DOMAIN s = 1..Len(s) /\ Len(s) \in Nat /\ Len(s) # 0 /\ Head(s) = s[1]
        /\ \A k \in DOMAIN s : s[k] \in S /\ s[k] \in Nat
    <2>1. /\ DOMAIN s = 1..Len(s) /\ Len(s) \in Nat /\ Len(s) # 0 /\ Head(s) = s[1]
          /\ \A k \in DOMAIN s : s[k] \in S
      OBVIOUS
    <2>2. QED  BY <2>1
  <1>2. /\ Tail(s) \in Seq(S) /\ DOMAIN Tail(s) = 1..(Len(s) - 1)
        /\ \A k \in 1..(Len(s) - 1) : Tail(s)[k] = s[k + 1]
    OBVIOUS
  <1> DEFINE t == Tail(s)
             h == Head(s)
  <1>3. /\ DOMAIN t = 1..(Len(s) - 1) /\ \A k \in 1..(Len(s) - 1) : t[k] = s[k + 1]
        /\ h = s[1]
    BY <1>1, <1>2
  <1> HIDE DEF t, h
  <1>4. \A k \in DOMAIN t : k \in Nat /\ k + 1 \in DOMAIN s /\ 1 < k + 1 /\ 1 \in DOMAIN s
    BY <1>1, <1>3
  <1>5. \A k \in DOMAIN t : h < t[k]
    BY <1>3, <1>4 DEF Increasing
  <1>6. Increasing(t)
    <2> SUFFICES ASSUME NEW a \in DOMAIN t, NEW b \in DOMAIN t, a < b PROVE t[a] < t[b]
      BY DEF Increasing
    <2>1. a + 1 \in DOMAIN s /\ b + 1 \in DOMAIN s /\ a + 1 < b + 1
      BY <1>4
    <2>2. s[a + 1] < s[b + 1]
      BY <2>1 DEF Increasing
    <2>3. t[a] = s[a + 1] /\ t[b] = s[b + 1]
      BY <1>3
    <2>4. QED  BY <2>2, <2>3
  <1>7. {t[k] : k \in DOMAIN t} = {s[k] : k \in DOMAIN s} \ {h}
    <2>1. ASSUME NEW k \in DOMAIN t PROVE t[k] \in {s[l] : l \in DOMAIN s} \ {h}
      <3>1. t[k] = s[k + 1] /\ k + 1 \in DOMAIN s
        BY <1>3, <1>4
      <3>2. t[k] # h
        BY <1>1, <1>3, <1>4, <1>5
      <3>3. QED  BY <3>1, <3>2
    <2>2. ASSUME NEW l \in DOMAIN s, s[l] # h PROVE s[l] \in {t[k] : k \in DOMAIN t}
      <3>1. l # 1
        BY <1>3, <2>2
      <3>2. l - 1 \in DOMAIN t /\ t[l - 1] = s[(l - 1) + 1] /\ (l - 1) + 1 = l
        BY <1>1, <1>3, <3>1
      <3>3. QED  BY <3>2
    <2>3. QED  BY <2>1, <2>2
  <1>8. h \in {s[k] : k \in DOMAIN s} /\ h \in S
    BY <1>1, <1>3
  <1>9. QED  BY <1>2, <1>5, <1>6, <1>7, <1>8 DEF t, h

\* A buffer over a set is one over every larger set.
LEMMA SeqWider ==
  ASSUME NEW S, NEW T, \A x \in S : x \in T, NEW s \in Seq(S)
  PROVE  s \in Seq(T)
  OBVIOUS

\* Adding a younger instruction at the end of a buffer in program order.
LEMMA AppendInOrder ==
  ASSUME NEW S \in SUBSET Nat, NEW s \in Seq(S), Increasing(s), NEW x \in S,
         NEW t, GrownBy(s, x, t)
  PROVE  /\ t \in Seq(S) /\ Increasing(t)
         /\ {t[k] : k \in DOMAIN t} = {s[k] : k \in DOMAIN s} \cup {x}
  <1>1. /\ DOMAIN s = 1..Len(s) /\ Len(s) \in Nat
        /\ t \in Seq(S) /\ DOMAIN t = 1..(Len(s) + 1)
        /\ t[Len(s) + 1] = x /\ \A k \in 1..Len(s) : t[k] = s[k]
    BY DEF GrownBy
  <1>2. Increasing(t)
    <2> SUFFICES ASSUME NEW a \in DOMAIN t, NEW b \in DOMAIN t, a < b PROVE t[a] < t[b]
      BY DEF Increasing
    <2>1. a \in DOMAIN s /\ t[a] = s[a]
      BY <1>1
    <2>2. CASE b \in DOMAIN s
      BY <1>1, <2>1, <2>2 DEF Increasing
    <2>3. CASE b = Len(s) + 1
      BY <1>1, <2>1, <2>3 DEF GrownBy
    <2>4. QED  BY <1>1, <2>2, <2>3
  <1>3. {t[k] : k \in DOMAIN t} = {s[k] : k \in DOMAIN s} \cup {x}
    <2>1. ASSUME NEW k \in DOMAIN t PROVE t[k] \in {s[l] : l \in DOMAIN s} \cup {x}
      <3>1. k \in DOMAIN s \/ k = Len(s) + 1
        BY <1>1
      <3>2. QED  BY <1>1, <3>1
    <2>2. ASSUME NEW l \in DOMAIN s PROVE \E k \in DOMAIN t : t[k] = s[l]
      BY <1>1
    <2>3. \E k \in DOMAIN t : t[k] = x
      <3>1. Len(s) + 1 \in DOMAIN t
        BY <1>1
      <3>2. QED  BY <1>1, <3>1
    <2>4. QED  BY <2>1, <2>2, <2>3
  <1>4. QED  BY <1>1, <1>2, <1>3

\* preretire takes the head off the ROB when it has executed: a transient is
\* destroyed, another instruction moves to rROB.
LEMMA PreretireDoes ==
  ASSUME TypeOK, RobInv, preretire
  PROVE  /\ TypeOK' /\ UNCHANGED <<added, RAT, TRAT, deps, windowSize>>
         /\ Increasing(ROB') /\ Increasing(rROB')
         /\ \E i \in InROB :
              /\ inst[i].executed /\ InROB' = InROB \ {i}
              /\ \A j \in InROB' : i < j
              /\ \/ /\ inst[i].transient
                    /\ inst' = [inst EXCEPT ![i] = [inst[i] EXCEPT !.destroyed = TRUE]]
                    /\ nTotalRegs' = nTotalRegs + IF hasDst(i) THEN 1 ELSE 0
                    /\ regPool' = IF inst[i].try_flush_transient THEN regPool
                                  ELSE regPool + IF hasDst(i) THEN 1 ELSE 0
                    /\ InRROB' = InRROB
                 \/ /\ ~inst[i].transient
                    /\ InRROB' = InRROB \cup {i}
                    /\ UNCHANGED <<inst, nTotalRegs, regPool>>
  <1> DEFINE i == Head(ROB)
             regs == IF hasDst(i) THEN 1 ELSE 0
  <1>1. /\ ROB # <<>> /\ inst[i].executed /\ ROB' = Tail(ROB)
        /\ \/ /\ inst[i].transient
              /\ inst' = [inst EXCEPT ![i] = [inst[i] EXCEPT !.destroyed = TRUE]]
              /\ regPool' = IF inst[i].try_flush_transient THEN regPool ELSE regPool + regs
              /\ nTotalRegs' = nTotalRegs + regs
              /\ UNCHANGED rROB
           \/ /\ ~inst[i].transient
              /\ rROB' = Append(rROB, i)
              /\ UNCHANGED <<inst, regPool, nTotalRegs>>
        /\ UNCHANGED <<added, RAT, TRAT, deps, windowSize, freeBranches, fetch>>
    BY DEF preretire
  <1>2. /\ ROB \in Seq(Added) /\ rROB \in Seq(Added) /\ Added \in SUBSET Nat
        /\ Added \in SUBSET Insts /\ inst \in [Insts -> Inst]
        /\ Increasing(ROB) /\ Increasing(rROB)
        /\ \A a \in InRROB : \A b \in InROB : a < b
    BY RobMembers DEF TypeOK, Added, RobInv
  <1>3. /\ ROB' \in Seq(Added) /\ Increasing(ROB') /\ i \in Added
        /\ i \in InROB /\ InROB' = InROB \ {i} /\ \A j \in InROB' : i < j
    <2>1. /\ Tail(ROB) \in Seq(Added) /\ Increasing(Tail(ROB)) /\ Head(ROB) \in Added
          /\ Head(ROB) \in {ROB[k] : k \in DOMAIN ROB}
          /\ {Tail(ROB)[k] : k \in DOMAIN Tail(ROB)} = {ROB[k] : k \in DOMAIN ROB} \ {Head(ROB)}
          /\ \A x \in {Tail(ROB)[k] : k \in DOMAIN Tail(ROB)} : Head(ROB) < x
      BY <1>1, <1>2, TailInOrder
    <2>2. QED  BY <1>1, <2>1 DEF InROB
  <1> HIDE DEF i
  <1>4. CASE /\ inst[i].transient
             /\ inst' = [inst EXCEPT ![i] = [inst[i] EXCEPT !.destroyed = TRUE]]
             /\ regPool' = IF inst[i].try_flush_transient THEN regPool ELSE regPool + regs
             /\ nTotalRegs' = nTotalRegs + regs
             /\ UNCHANGED rROB
    <2>1. [inst[i] EXCEPT !.destroyed = TRUE] \in Inst
      <3>1. PICK d \in Inst : d = inst[i]
        BY <1>2, <1>3
      <3>2. [d EXCEPT !.destroyed = TRUE] \in Inst
        BY DEF Inst
      <3>3. QED  BY <3>1, <3>2
    <2>2. inst' \in [Insts -> Inst]
      BY <1>2, <1>4, <2>1
    <2>3. {nTotalRegs, regPool, windowSize, freeBranches}' \subseteq Int
      BY <1>1, <1>4 DEF TypeOK
    <2>4. TypeOK'
      BY <1>1, <1>3, <1>4, <2>2, <2>3 DEF TypeOK, Added
    <2>5. InRROB' = InRROB
      BY <1>4 DEF InRROB
    <2>6. QED  BY <1>1, <1>2, <1>3, <1>4, <2>4, <2>5
  <1>5. CASE /\ ~inst[i].transient
             /\ rROB' = Append(rROB, i)
             /\ UNCHANGED <<inst, regPool, nTotalRegs>>
    <2>1. /\ rROB' \in Seq(Added) /\ Increasing(rROB') /\ InRROB' = InRROB \cup {i}
      <3>1. GrownBy(rROB, i, rROB')
        BY <1>2, <1>3, <1>5 DEF InRROB, GrownBy
      <3>2. /\ Added \in SUBSET Nat /\ rROB \in Seq(Added) /\ Increasing(rROB)
            /\ i \in Added
        BY <1>2, <1>3
      <3>3. /\ rROB' \in Seq(Added) /\ Increasing(rROB')
            /\ {rROB'[k] : k \in DOMAIN rROB'} = {rROB[k] : k \in DOMAIN rROB} \cup {i}
        BY <3>1, <3>2, AppendInOrder
      <3>4. QED  BY <3>3 DEF InRROB
    <2>2. TypeOK'
      BY <1>1, <1>3, <1>5, <2>1 DEF TypeOK, Added
    <2>3. QED  BY <1>1, <1>3, <1>5, <2>1, <2>2
  <1>6. QED  BY <1>1, <1>4, <1>5

\* retire destroys the head of rROB.
LEMMA RetireDoes ==
  ASSUME TypeOK, RobInv, retire
  PROVE  /\ TypeOK' /\ UNCHANGED <<added, ROB, RAT, TRAT, deps, windowSize>>
         /\ Increasing(rROB')
         /\ \E i \in InRROB :
              /\ InRROB' = InRROB \ {i}
              /\ inst' = [inst EXCEPT ![i] = [inst[i] EXCEPT !.destroyed = TRUE]]
              /\ nTotalRegs' = nTotalRegs + IF hasDst(i) THEN 1 ELSE 0
              /\ regPool' = regPool + IF hasDst(i) THEN 1 ELSE 0
  <1> DEFINE i == Head(rROB)
             regs == IF hasDst(i) THEN 1 ELSE 0
  <1>1. /\ rROB # <<>> /\ rROB' = Tail(rROB)
        /\ inst' = [inst EXCEPT ![i] = [inst[i] EXCEPT !.destroyed = TRUE]]
        /\ regPool' = regPool + regs /\ nTotalRegs' = nTotalRegs + regs
        /\ UNCHANGED <<added, ROB, RAT, TRAT, deps, windowSize, freeBranches, fetch>>
    BY DEF retire
  <1>2. /\ rROB \in Seq(Added) /\ Added \in SUBSET Nat /\ Added \in SUBSET Insts
        /\ inst \in [Insts -> Inst] /\ Increasing(rROB)
    BY RobMembers DEF TypeOK, Added, RobInv
  <1>3. /\ rROB' \in Seq(Added) /\ Increasing(rROB') /\ i \in Added
        /\ i \in InRROB /\ InRROB' = InRROB \ {i}
    <2>1. /\ Tail(rROB) \in Seq(Added) /\ Increasing(Tail(rROB)) /\ Head(rROB) \in Added
          /\ Head(rROB) \in {rROB[k] : k \in DOMAIN rROB}
          /\ {Tail(rROB)[k] : k \in DOMAIN Tail(rROB)} =
               {rROB[k] : k \in DOMAIN rROB} \ {Head(rROB)}
      BY <1>1, <1>2, TailInOrder
    <2>2. QED  BY <1>1, <2>1 DEF InRROB
  <1> HIDE DEF i
  <1>4. [inst[i] EXCEPT !.destroyed = TRUE] \in Inst
    <2>1. PICK d \in Inst : d = inst[i]
      BY <1>2, <1>3
    <2>2. [d EXCEPT !.destroyed = TRUE] \in Inst
      BY DEF Inst
    <2>3. QED  BY <2>1, <2>2
  <1>5. inst' \in [Insts -> Inst]
    BY <1>1, <1>2, <1>4
  <1>6. {nTotalRegs, regPool, windowSize, freeBranches}' \subseteq Int
    BY <1>1 DEF TypeOK
  <1>7. TypeOK'
    BY <1>1, <1>3, <1>5, <1>6 DEF TypeOK, Added
  <1>8. QED  BY <1>1, <1>3, <1>7

----------------------------------------------------------------------------
(* The invariants are inductive *)

\* Next, action by action.
LEMMA NextCases ==
  ASSUME TypeOK, [Next]_vars
  PROVE  \/ \E new, src : /\ Fresh(new) /\ src \in SUBSET Regs /\ add_inst(new, src)
                          /\ fetch' \in {"run", "blocked", "ready"}
         \/ \E i \in Insts : executing(i)
         \/ unBlockFetchBPredDelay
         \/ \E i \in Insts : executed(i)
         \/ flush \/ preretire \/ retire
         \/ UNCHANGED vars
  <1>1. \A src \in Sources : src \in SUBSET Regs
    BY DEF Sources
  <1>2. ASSUME NEW kind \in {"ALU", "BR"}, NEW src \in Sources,
               NEW dst \in Regs \cup {NoReg}, NEW miss \in {"no", "slow", "fast"},
               add_real(kind, src, dst, miss)
        PROVE  \E new : /\ Fresh(new) /\ src \in SUBSET Regs /\ add_inst(new, src)
                        /\ fetch' \in {"run", "blocked", "ready"}
    <2>1. Fresh(NewInst(kind, FALSE, dst, miss))
      BY NewIsFresh
    <2>2. add_inst(NewInst(kind, FALSE, dst, miss), src) /\ fetch' \in {"run", "blocked", "ready"}
      BY <1>2 DEF add_real, TypeOK
    <2>3. QED  BY <1>1, <2>1, <2>2
  <1>3. ASSUME NEW kind \in TransientKinds, NEW src \in Sources, NEW dst \in Regs,
               add_transient(kind, src, dst)
        PROVE  \E new : /\ Fresh(new) /\ src \in SUBSET Regs /\ add_inst(new, src)
                        /\ fetch' \in {"run", "blocked", "ready"}
    <2>1. Fresh(NewInst(kind, TRUE, dst, "no"))
      BY NewIsFresh, Constants
    <2>2. add_inst(NewInst(kind, TRUE, dst, "no"), src) /\ fetch' \in {"run", "blocked", "ready"}
      BY <1>3 DEF add_transient, TypeOK
    <2>3. QED  BY <1>1, <2>1, <2>2
  <1>4. QED  BY <1>2, <1>3 DEF Next

\* Every step keeps the flags in the order of an instruction's life.
LEMMA LifeStep ==
  ASSUME TypeOK, LifeInv, RobInv, [Next]_vars
  PROVE  TypeOK' /\ LifeInv'
  <1>0. Added \in SUBSET Insts
    BY RobMembers
  <1>1. ASSUME NEW new, Fresh(new), NEW src \in SUBSET Regs, add_inst(new, src),
               fetch' \in {"run", "blocked", "ready"}
        PROVE  TypeOK' /\ LifeInv'
    BY <1>0, <1>1, AddDoes DEF LifeInv
  <1>2. CASE (\E i \in Insts : executing(i)) \/ unBlockFetchBPredDelay
    <2>1. /\ TypeOK' /\ Added' = Added
          /\ \A j \in Insts : /\ SameInst(j) /\ inst'[j].issued = inst[j].issued
                              /\ inst[j].executing => inst'[j].executing
                              /\ inst'[j].executing => inst[j].executing \/ inst[j].issued
      BY <1>2, QuietDoes DEF Added
    <2>2. QED  BY <1>0, <2>1 DEF LifeInv, SameInst
  <1>3. ASSUME NEW i \in Insts, executed(i)
        PROVE  TypeOK' /\ LifeInv'
    <2>1. TypeOK' /\ Added' = Added
      BY <1>3, ExecutedDoes DEF Added
    <2>2. \A j \in Insts : inst'[j].issued \/ inst'[j].executing => j \in Added
      BY <1>3, ExecutedDoes DEF LifeInv
    <2>3. ASSUME NEW j \in Added
          PROVE  /\ inst'[j].executed  => inst'[j].executing /\ inst'[j].del_entry
                 /\ inst'[j].destroyed => inst'[j].executed
                 /\ inst'[j].try_flush_transient => inst'[j].transient
      BY <1>0, <1>3, ExecutedDoes DEF LifeInv
    <2>4. QED  BY <2>1, <2>2, <2>3 DEF LifeInv
  <1>4. CASE flush
    <2>1. TypeOK' /\ Added' = Added
      BY <1>4, FlushDoes DEF Added
    <2>2. \A j \in Insts : inst'[j].issued \/ inst'[j].executing => j \in Added
      BY <1>4, FlushDoes DEF LifeInv
    <2>3. ASSUME NEW j \in Added
          PROVE  /\ inst'[j].executed  => inst'[j].executing /\ inst'[j].del_entry
                 /\ inst'[j].destroyed => inst'[j].executed
                 /\ inst'[j].try_flush_transient => inst'[j].transient
      BY <1>0, <1>4, FlushDoes DEF LifeInv, Dead, Marked
    <2>4. QED  BY <2>1, <2>2, <2>3 DEF LifeInv
  <1>5. ASSUME NEW i \in Added, inst[i].executed,
               inst' = [inst EXCEPT ![i] = [inst[i] EXCEPT !.destroyed = TRUE]],
               added' = added
        PROVE  LifeInv'
    <2>1. i \in Insts /\ inst \in [Insts -> Inst] /\ inst[i] \in Inst /\ Added' = Added
      BY <1>0, <1>5 DEF TypeOK, Added
    <2>2. \A j \in Insts : j # i => inst'[j] = inst[j]
      BY <1>5, <2>1
    <2>3. inst'[i] = [inst[i] EXCEPT !.destroyed = TRUE]
      BY <1>5, <2>1
    <2>4. /\ inst'[i].issued = inst[i].issued /\ inst'[i].executing = inst[i].executing
          /\ inst'[i].executed = inst[i].executed /\ inst'[i].del_entry = inst[i].del_entry
          /\ inst'[i].transient = inst[i].transient
          /\ inst'[i].try_flush_transient = inst[i].try_flush_transient
      BY <2>1, <2>3 DEF Inst
    <2>5. QED  BY <1>0, <1>5, <2>1, <2>2, <2>4 DEF LifeInv
  <1>6. CASE preretire
    <2>1. TypeOK' /\ added' = added
      BY <1>6, PreretireDoes
    <2>2. PICK i \in InROB :
            /\ inst[i].executed
            /\ \/ inst' = [inst EXCEPT ![i] = [inst[i] EXCEPT !.destroyed = TRUE]]
               \/ UNCHANGED inst
      BY <1>6, PreretireDoes
    <2>3. i \in Added
      BY RobMembers
    <2>4. UNCHANGED inst => LifeInv'
      BY <2>1 DEF LifeInv, Added
    <2>5. QED  BY <1>5, <2>1, <2>2, <2>3, <2>4
  <1>7. CASE retire
    <2>1. TypeOK' /\ added' = added
      BY <1>7, RetireDoes
    <2>2. PICK i \in InRROB :
            inst' = [inst EXCEPT ![i] = [inst[i] EXCEPT !.destroyed = TRUE]]
      BY <1>7, RetireDoes
    <2>3. i \in Added /\ inst[i].executed
      BY RobMembers DEF RobInv
    <2>4. QED  BY <1>5, <2>1, <2>2, <2>3
  <1>8. CASE UNCHANGED vars
    BY <1>8 DEF vars, pools, TypeOK, LifeInv, Added
  <1>9. QED
    BY <1>1, <1>2, <1>3, <1>4, <1>6, <1>7, <1>8, NextCases

\* Destroying one instruction takes it, and only it, out of the ones alive.
LEMMA DestroyOne ==
  ASSUME TypeOK, NEW i \in Added, added' = added,
         inst' = [inst EXCEPT ![i] = [inst[i] EXCEPT !.destroyed = TRUE]]
  PROVE  /\ Added' = Added /\ Alive' = Alive \ {i}
         /\ \A j \in Insts :
              /\ inst'[j].transient = inst[j].transient /\ inst'[j].dst = inst[j].dst
              /\ inst'[j].executed = inst[j].executed
              /\ inst'[j].del_entry = inst[j].del_entry
              /\ inst'[j].try_flush_transient = inst[j].try_flush_transient
  <1>1. i \in Insts /\ inst \in [Insts -> Inst] /\ inst[i] \in Inst
        /\ Added' = Added /\ Added \in SUBSET Insts
    BY RobMembers DEF TypeOK, Added
  <1>2. \A j \in Insts : j # i => inst'[j] = inst[j]
    BY <1>1
  <1>3. inst'[i] = [inst[i] EXCEPT !.destroyed = TRUE]
    BY <1>1
  <1>4. /\ inst'[i].destroyed /\ inst'[i].transient = inst[i].transient
        /\ inst'[i].dst = inst[i].dst /\ inst'[i].executed = inst[i].executed
        /\ inst'[i].del_entry = inst[i].del_entry
        /\ inst'[i].try_flush_transient = inst[i].try_flush_transient
    BY <1>1, <1>3 DEF Inst
  <1>5. Alive' = Alive \ {i}
    BY <1>1, <1>2, <1>4 DEF Alive
  <1>6. QED  BY <1>1, <1>2, <1>4, <1>5

\* Every step keeps what is alive in the two buffers, in program order.
LEMMA RobStep ==
  ASSUME TypeOK, RobInv, [Next]_vars
  PROVE  RobInv'
  <1>0. /\ Added \in SUBSET Insts /\ InROB \in SUBSET Added /\ InRROB \in SUBSET Added
        /\ Increasing(ROB) /\ Increasing(rROB)
        /\ \A i \in InRROB : \A j \in InROB : i < j
        /\ InROB \cup InRROB = Alive
        /\ \A i \in InRROB : inst[i].executed /\ ~inst[i].transient
    BY RobMembers DEF RobInv
  <1>1. ASSUME NEW new, Fresh(new), NEW src \in SUBSET Regs, add_inst(new, src),
               fetch' \in {"run", "blocked", "ready"}
        PROVE  RobInv'
    <2> DEFINE i == added + 1
    <2>1. /\ i \in Insts /\ Added' = Added \cup {i} /\ i \notin Added
          /\ ROB' = Append(ROB, i) /\ rROB' = rROB
          /\ \A j \in Insts : j # i => inst'[j] = inst[j]
          /\ ~inst'[i].destroyed
      BY <1>1, AddDoes
    <2>2. \A j \in Added : j \in Nat /\ j < i
      BY RobMembers DEF Added
    <2>3. Alive' = Alive \cup {i}
      BY <1>0, <2>1 DEF Alive
    <2> HIDE DEF i
    <2>4. Increasing(ROB') /\ InROB' = InROB \cup {i}
      <3>1. ROB \in Seq(Nat) /\ i \in Nat
        <4>1. ROB \in Seq(Added) /\ \A j \in Added : j \in Nat
          BY <2>2 DEF TypeOK
        <4>2. i \in Nat
          BY RobMembers DEF i
        <4>3. ROB \in Seq(Nat)
          BY <4>1, SeqWider, Zenon
        <4>4. QED  BY <4>2, <4>3
      <3>2. GrownBy(ROB, i, ROB')
        <4>1. \A k \in DOMAIN ROB : ROB[k] \in InROB
          BY DEF InROB
        <4>2. \A k \in DOMAIN ROB : ROB[k] < i
          BY <1>0, <2>2, <4>1
        <4>3. QED  BY <2>1, <4>2 DEF GrownBy
      <3>3. /\ Increasing(ROB')
            /\ {ROB'[k] : k \in DOMAIN ROB'} = {ROB[k] : k \in DOMAIN ROB} \cup {i}
        <4>1. Nat \in SUBSET Nat /\ Increasing(ROB)
          BY <1>0
        <4>2. QED  BY <3>1, <3>2, <4>1, AppendInOrder
      <3>4. QED  BY <3>3 DEF InROB
    <2>5. InRROB' = InRROB /\ \A j \in InRROB : inst'[j] = inst[j] /\ j < i
      BY <1>0, <2>1, <2>2 DEF InRROB
    <2>6. QED  BY <1>0, <2>1, <2>3, <2>4, <2>5 DEF RobInv
  <1>2. ASSUME added' = added, UNCHANGED <<ROB, rROB>>,
               \A j \in Insts : /\ inst'[j].transient = inst[j].transient
                                /\ inst[j].executed => inst'[j].executed
                                /\ inst'[j].destroyed = inst[j].destroyed
        PROVE  RobInv'
    <2>1. InROB' = InROB /\ InRROB' = InRROB /\ Alive' = Alive
      BY <1>0, <1>2 DEF InROB, InRROB, Alive, Added
    <2>2. QED  BY <1>0, <1>2, <2>1 DEF RobInv
  <1>3. CASE (\E i \in Insts : executing(i)) \/ unBlockFetchBPredDelay
    BY <1>2, <1>3, QuietDoes DEF SameInst
  <1>4. ASSUME NEW i \in Insts, executed(i)
        PROVE  RobInv'
    <2>1. \A j \in Insts : /\ inst'[j].transient = inst[j].transient
                           /\ inst[j].executed => inst'[j].executed
                           /\ inst'[j].destroyed = inst[j].destroyed
      BY <1>4, ExecutedDoes
    <2>2. QED  BY <1>2, <1>4, <2>1, ExecutedDoes
  <1>5. CASE flush
    <2>1. /\ Added' = Added /\ rROB' = rROB /\ InRROB' = InRROB
          /\ InROB' = InROB \ Dead /\ Increasing(ROB')
          /\ \A j \in Insts : /\ inst'[j].transient = inst[j].transient
                              /\ inst'[j].executed = inst[j].executed
                              /\ inst'[j].destroyed <=> (inst[j].destroyed \/ j \in Dead)
      BY <1>0, <1>5, FlushDoes DEF Added, InRROB
    <2>2. Alive' = Alive \ Dead
      BY <1>0, <2>1 DEF Alive
    <2>3. InRROB \cap Dead = {}
      BY <1>0 DEF Dead
    <2>4. QED  BY <1>0, <2>1, <2>2, <2>3 DEF RobInv
  <1>6. CASE preretire
    <2>1. PICK i \in InROB :
              /\ inst[i].executed /\ InROB' = InROB \ {i}
              /\ \A j \in InROB' : i < j
              /\ \/ /\ inst[i].transient
                    /\ inst' = [inst EXCEPT ![i] = [inst[i] EXCEPT !.destroyed = TRUE]]
                    /\ InRROB' = InRROB
                 \/ /\ ~inst[i].transient
                    /\ InRROB' = InRROB \cup {i}
                    /\ UNCHANGED inst
      BY <1>6, PreretireDoes
    <2>2. Increasing(ROB') /\ Increasing(rROB') /\ added' = added /\ i \in Added
      BY <1>0, <1>6, PreretireDoes
    <2>3. \A a \in InRROB : a < i
      BY <1>0
    <2>4. CASE /\ inst[i].transient
               /\ inst' = [inst EXCEPT ![i] = [inst[i] EXCEPT !.destroyed = TRUE]]
               /\ InRROB' = InRROB
      <3>1. /\ Alive' = Alive \ {i}
            /\ \A j \in Insts : /\ inst'[j].transient = inst[j].transient
                                /\ inst'[j].executed = inst[j].executed
        BY <2>2, <2>4, DestroyOne
      <3>2. i \notin InRROB
        BY <1>0, <2>4
      <3>3. InROB' \cup InRROB' = Alive'
        BY <1>0, <2>1, <2>4, <3>1, <3>2
      <3>4. QED  BY <1>0, <2>1, <2>2, <2>4, <3>1, <3>3 DEF RobInv
    <2>5. CASE ~inst[i].transient /\ InRROB' = InRROB \cup {i} /\ UNCHANGED inst
      <3>1. Alive' = Alive
        BY <2>2, <2>5 DEF Alive, Added
      <3>2. InROB' \cup InRROB' = Alive'
        BY <1>0, <2>1, <2>5, <3>1
      <3>3. \A a \in InRROB' : \A b \in InROB' : a < b
        BY <1>0, <2>1, <2>3, <2>5
      <3>4. QED  BY <1>0, <2>1, <2>2, <2>5, <3>2, <3>3 DEF RobInv
    <2>6. QED  BY <2>1, <2>4, <2>5
  <1>7. CASE retire
    <2>1. PICK i \in InRROB :
              /\ InRROB' = InRROB \ {i}
              /\ inst' = [inst EXCEPT ![i] = [inst[i] EXCEPT !.destroyed = TRUE]]
      BY <1>7, RetireDoes
    <2>2. Increasing(rROB') /\ added' = added /\ i \in Added /\ ROB' = ROB
      BY <1>0, <1>7, RetireDoes
    <2>3. /\ Alive' = Alive \ {i}
          /\ \A j \in Insts : /\ inst'[j].transient = inst[j].transient
                              /\ inst'[j].executed = inst[j].executed
      BY <2>1, <2>2, DestroyOne
    <2>4. i \notin InROB
      <3>1. i \in Nat
        BY <2>2, RobMembers DEF Added
      <3>2. QED  BY <1>0, <3>1
    <2>5. InROB' = InROB
      BY <2>2 DEF InROB
    <2>6. InROB' \cup InRROB' = Alive'
      BY <1>0, <2>1, <2>3, <2>4, <2>5
    <2>7. QED  BY <1>0, <2>1, <2>2, <2>3, <2>5, <2>6 DEF RobInv
  <1>8. CASE UNCHANGED vars
    BY <1>2, <1>8 DEF vars
  <1>9. QED
    BY <1>1, <1>3, <1>4, <1>5, <1>6, <1>7, <1>8, NextCases

\* What add_inst looks up and what it writes: transients use TRAT, the others
\* RAT.
LEMMA AddRenames ==
  ASSUME TypeOK, NEW new, NEW src \in SUBSET Regs, add_inst(new, src)
  PROVE  /\ \A r \in Regs : /\ RAT'[r] = RAT[r] \/ (RAT'[r] = added + 1 /\ ~new.transient)
                            /\ TRAT'[r] = TRAT[r] \/ (TRAT'[r] = added + 1 /\ new.transient)
         /\ \A j \in deps'[added + 1] :
              /\ j # 0
              /\ \E r \in Regs : \/ new.transient /\ j = TRAT[r]
                                 \/ ~new.transient /\ j = RAT[r]
  <1> DEFINE i    == added + 1
             rat  == IF new.transient THEN TRAT ELSE RAT
             wait == {rat[r] : r \in src} \ {0}
  <1>1. /\ i \in Insts /\ deps' = [deps EXCEPT ![i] = wait]
        /\ TRAT' = IF new.transient THEN [r \in Regs |-> IF r = new.dst THEN i ELSE TRAT[r]]
                   ELSE TRAT
        /\ RAT'  = IF new.transient THEN RAT
                   ELSE [r \in Regs |-> IF r = new.dst THEN i ELSE RAT[r]]
    BY DEF add_inst
  <1>2. deps'[i] = wait
    BY <1>1 DEF TypeOK
  <1>3. \A j \in wait : /\ j # 0
                        /\ \E r \in Regs : \/ new.transient /\ j = TRAT[r]
                                           \/ ~new.transient /\ j = RAT[r]
    OBVIOUS
  <1>4. \A r \in Regs : /\ RAT'[r] = RAT[r] \/ (RAT'[r] = i /\ ~new.transient)
                        /\ TRAT'[r] = TRAT[r] \/ (TRAT'[r] = i /\ new.transient)
    BY <1>1
  <1> HIDE DEF wait
  <1>5. QED  BY <1>2, <1>3, <1>4

\* Every step keeps the rename tables and the waiting instructions pointing at
\* instructions of their own kind that have not executed.
LEMMA PointersStep ==
  ASSUME TypeOK, RobInv, LifeInv, PointersInv, NoCrossPollution, [Next]_vars
  PROVE  PointersInv' /\ NoCrossPollution'
  <1>0. /\ Added \in SUBSET Insts /\ InROB \in SUBSET Added /\ InRROB \in SUBSET Added
        /\ added \in Nat
        /\ \A r \in Regs : RAT[r] \in 0..added /\ TRAT[r] \in 0..added
        /\ \A r \in Regs : /\ RAT[r] # 0 => RAT[r] \in Added
                           /\ TRAT[r] # 0 => TRAT[r] \in Added
    <2>1. \A r \in Regs : RAT[r] \in 0..added /\ TRAT[r] \in 0..added
      BY DEF TypeOK
    <2>2. QED  BY <2>1, RobMembers DEF Added
  <1>1. ASSUME NEW new, Fresh(new), NEW src \in SUBSET Regs, add_inst(new, src),
               fetch' \in {"run", "blocked", "ready"}
        PROVE  PointersInv' /\ NoCrossPollution'
    <2> DEFINE i == added + 1
    <2>1. /\ i \in Insts /\ Added' = Added \cup {i} /\ i \notin Added
          /\ \A j \in Insts : j # i => inst'[j] = inst[j] /\ deps'[j] = deps[j]
          /\ ~inst'[i].executed /\ inst'[i].transient = new.transient
      BY <1>1, AddDoes
    <2>2. /\ \A r \in Regs : /\ RAT'[r] = RAT[r] \/ (RAT'[r] = i /\ ~new.transient)
                             /\ TRAT'[r] = TRAT[r] \/ (TRAT'[r] = i /\ new.transient)
          /\ \A j \in deps'[i] :
               /\ j # 0
               /\ \E r \in Regs : \/ new.transient /\ j = TRAT[r]
                                  \/ ~new.transient /\ j = RAT[r]
      BY <1>1, AddRenames
    <2> HIDE DEF i
    <2>3. \A j \in Added : inst'[j] = inst[j] /\ deps'[j] = deps[j]
      BY <1>0, <2>1
    <2>4. ASSUME NEW j \in deps'[i]
          PROVE  /\ j \in Added /\ ~inst'[j].executed
                 /\ inst'[i].transient = inst'[j].transient
      <3>1. new.transient \in BOOLEAN
        BY <1>1 DEF Fresh, Inst
      <3>2. PICK r \in Regs : \/ new.transient /\ j = TRAT[r]
                              \/ ~new.transient /\ j = RAT[r]
        BY <2>2, <2>4
      <3>3. j # 0 /\ j \in Added
        BY <1>0, <2>2, <2>4, <3>2
      <3>4. ~inst[j].executed /\ (inst[j].transient <=> new.transient)
        BY <3>2, <3>3 DEF PointersInv, NoCrossPollution
      <3>5. inst[j].transient \in BOOLEAN
        BY <1>0, <3>3 DEF TypeOK, Inst
      <3>6. inst[j].transient = new.transient
        BY <3>1, <3>4, <3>5
      <3>7. QED  BY <2>1, <2>3, <3>3, <3>4, <3>6
    <2>5. ASSUME NEW r \in Regs
          PROVE  /\ RAT'[r] # 0  => ~inst'[RAT'[r]].executed /\ ~inst'[RAT'[r]].transient
                 /\ TRAT'[r] # 0 => ~inst'[TRAT'[r]].executed /\ inst'[TRAT'[r]].transient
      <3>1. /\ RAT[r] # 0  => ~inst[RAT[r]].executed /\ ~inst[RAT[r]].transient
            /\ TRAT[r] # 0 => ~inst[TRAT[r]].executed /\ inst[TRAT[r]].transient
        BY DEF PointersInv, NoCrossPollution
      <3>2. QED  BY <1>0, <2>1, <2>2, <2>3, <3>1
    <2>6. \A j \in Added : \A k \in deps'[j] :
             /\ k \in Added /\ ~inst'[k].executed /\ inst'[j].transient = inst'[k].transient
      BY <2>3 DEF PointersInv, NoCrossPollution
    <2>7. PointersInv'
      BY <2>1, <2>4, <2>5, <2>6 DEF PointersInv
    <2>8. NoCrossPollution'
      BY <2>1, <2>4, <2>5, <2>6 DEF NoCrossPollution
    <2>9. QED  BY <2>7, <2>8
  <1>2. ASSUME added' = added, deps' = deps,
               \A j \in Insts : /\ inst'[j].transient = inst[j].transient
                                /\ inst'[j].executed = inst[j].executed,
               \A r \in Regs : /\ RAT'[r] # 0 => RAT'[r] = RAT[r]
                               /\ TRAT'[r] # 0 => TRAT'[r] = TRAT[r]
        PROVE  PointersInv' /\ NoCrossPollution'
    <2>1. Added' = Added
      BY <1>2 DEF Added
    <2>2. PointersInv'
      BY <1>0, <1>2, <2>1 DEF PointersInv
    <2>3. NoCrossPollution'
      BY <1>0, <1>2, <2>1 DEF NoCrossPollution, PointersInv
    <2>4. QED  BY <2>2, <2>3
  <1>3. CASE (\E i \in Insts : executing(i)) \/ unBlockFetchBPredDelay
    <2>1. /\ UNCHANGED <<added, RAT, TRAT, deps>>
          /\ \A j \in Insts : /\ inst'[j].transient = inst[j].transient
                              /\ inst'[j].executed = inst[j].executed
      BY <1>3, QuietDoes DEF SameInst
    <2>2. QED  BY <1>2, <2>1
  <1>4. ASSUME NEW i \in Insts, executed(i)
        PROVE  PointersInv' /\ NoCrossPollution'
    <2>1. /\ added' = added
          /\ \A j \in Insts : /\ inst'[j].transient = inst[j].transient
                              /\ j # i => inst'[j].executed = inst[j].executed
                              /\ deps'[j] = deps[j] \ {i}
          /\ \A r \in Regs : /\ RAT'[r] # 0 => RAT'[r] = RAT[r] /\ RAT[r] # i
                             /\ TRAT'[r] # 0 => TRAT'[r] = TRAT[r] /\ TRAT[r] # i
      BY <1>4, ExecutedDoes
    <2>2. Added' = Added
      BY <2>1 DEF Added
    <2>3. PointersInv'
      BY <1>0, <2>1, <2>2 DEF PointersInv
    <2>4. NoCrossPollution'
      BY <1>0, <2>1, <2>2 DEF NoCrossPollution, PointersInv
    <2>5. QED  BY <2>3, <2>4
  <1>5. CASE flush
    BY <1>2, <1>5, FlushDoes
  <1>6. CASE preretire
    <2>1. UNCHANGED <<added, RAT, TRAT, deps>>
      BY <1>6, PreretireDoes
    <2>2. PICK i \in InROB :
            \/ inst' = [inst EXCEPT ![i] = [inst[i] EXCEPT !.destroyed = TRUE]]
            \/ UNCHANGED inst
      BY <1>6, PreretireDoes
    <2>3. \A j \in Insts : /\ inst'[j].transient = inst[j].transient
                           /\ inst'[j].executed = inst[j].executed
      BY <1>0, <2>1, <2>2, DestroyOne
    <2>4. QED  BY <1>2, <2>1, <2>3
  <1>7. CASE retire
    <2>1. UNCHANGED <<added, RAT, TRAT, deps>>
      BY <1>7, RetireDoes
    <2>2. PICK i \in InRROB :
            inst' = [inst EXCEPT ![i] = [inst[i] EXCEPT !.destroyed = TRUE]]
      BY <1>7, RetireDoes
    <2>3. \A j \in Insts : /\ inst'[j].transient = inst[j].transient
                           /\ inst'[j].executed = inst[j].executed
      BY <1>0, <2>1, <2>2, DestroyOne
    <2>4. QED  BY <1>2, <2>1, <2>3
  <1>8. CASE UNCHANGED vars
    BY <1>2, <1>8 DEF vars
  <1>9. QED
    BY <1>1, <1>3, <1>4, <1>5, <1>6, <1>7, <1>8, NextCases

----------------------------------------------------------------------------
(* The pools *)

\* The instructions that hold a register, the ones of them whose register the
\* flush has not given back to the cluster, and the ones in the window.
Holders  == {i \in Alive : hasDst(i)}
Charged  == {i \in Holders : ~inst[i].try_flush_transient}
Windowed == {i \in Added : ~inst[i].del_entry}

\* Counting sets of instructions when one enters or some leave.
LEMMA CountChanges ==
  ASSUME NEW n \in Nat, NEW S \in SUBSET (1..n)
  PROVE  /\ Count(S) \in Int
         /\ \A i : i \notin S => Count(S \cup {i}) = Count(S) + 1
         /\ \A i \in S : Count(S \ {i}) = Count(S) - 1
         /\ \A D \in SUBSET S : Count(D) \in Int /\ Count(S \ D) = Count(S) - Count(D)
         /\ \A D, C \in SUBSET S : D \cap C = {} =>
              Count(S \ (D \cup C)) = Count(S) - Count(D) - Count(C)
  <1>1. IsFiniteSet(1..n)
    BY FS_Interval
  <1>2. IsFiniteSet(S) /\ Cardinality(S) \in Nat
    BY <1>1, FS_Subset, FS_CardinalityType
  <1>3. \A i : i \notin S => Cardinality(S \cup {i}) = Cardinality(S) + 1
    BY <1>2, FS_AddElement
  <1>4. \A i \in S : Cardinality(S \ {i}) = Cardinality(S) - 1
    BY <1>2, FS_RemoveElement
  <1>5. ASSUME NEW D \in SUBSET S
        PROVE  /\ IsFiniteSet(D) /\ Cardinality(D) \in Nat
               /\ Cardinality(S \ D) = Cardinality(S) - Cardinality(D)
    <2>1. IsFiniteSet(D) /\ Cardinality(D) \in Nat
      BY <1>2, FS_Subset, FS_CardinalityType
    <2>2. S \cap D = D
      OBVIOUS
    <2>3. Cardinality(S \ D) = Cardinality(S) - Cardinality(S \cap D)
      BY <1>2, FS_Difference
    <2>4. QED  BY <2>1, <2>2, <2>3
  <1>6. ASSUME NEW D \in SUBSET S, NEW C \in SUBSET S, D \cap C = {}
        PROVE  Cardinality(S \ (D \cup C)) = Cardinality(S) - Cardinality(D) - Cardinality(C)
    <2>1. /\ IsFiniteSet(D) /\ IsFiniteSet(C)
          /\ Cardinality(D) \in Nat /\ Cardinality(C) \in Nat
      BY <1>5
    <2>2. Cardinality(D \cup C) = Cardinality(D) + Cardinality(C) - Cardinality(D \cap C)
      BY <2>1, FS_Union
    <2>3. Cardinality(D \cap C) = 0
      BY <1>6, FS_EmptySet
    <2>4. Cardinality(S \ (D \cup C)) = Cardinality(S) - Cardinality(D \cup C)
      <3>1. D \cup C \in SUBSET S
        OBVIOUS
      <3>2. QED  BY <1>5, <3>1
    <2>5. QED  BY <1>2, <2>1, <2>2, <2>3, <2>4
  <1>7. QED  BY <1>2, <1>3, <1>4, <1>5, <1>6 DEF Count

\* What add_inst takes from the pools.
LEMMA AddTakes ==
  ASSUME NEW new, NEW src, add_inst(new, src)
  PROVE  /\ nTotalRegs' = nTotalRegs - IF new.dst = NoReg THEN 0 ELSE 1
         /\ regPool' = regPool - IF new.dst = NoReg THEN 0 ELSE 1
         /\ windowSize' = windowSize - 1
  BY DEF add_inst

\* Every step changes the pools by what it takes or gives back.
LEMMA PoolsStep ==
  ASSUME TypeOK, RobInv, LifeInv, PoolsConserved, [Next]_vars
  PROVE  PoolsConserved'
  <1>0. /\ Added \in SUBSET Insts /\ InROB \in SUBSET Added /\ InRROB \in SUBSET Added
        /\ InROB \in SUBSET Alive /\ InRROB \in SUBSET Alive
        /\ Holders \in SUBSET Added /\ Charged \in SUBSET Added /\ Windowed \in SUBSET Added
    BY RobMembers DEF RobInv, Holders, Charged, Windowed, Alive
  <1>1. /\ nTotalRegs = num_regs - Count(Holders)
        /\ regPool = nRegs - Count(Charged)
        /\ windowSize = MaxWinSize - Count(Windowed)
    BY DEF PoolsConserved, Holders, Charged, Windowed
  <1>2. ASSUME /\ nTotalRegs' = num_regs - Count(Holders')
               /\ regPool' = nRegs - Count(Charged')
               /\ windowSize' = MaxWinSize - Count(Windowed')
        PROVE  PoolsConserved'
    BY <1>2 DEF PoolsConserved, Holders, Charged, Windowed
  <1>3. /\ num_regs \in Int /\ nRegs \in Int /\ MaxWinSize \in Int
        /\ nTotalRegs \in Int /\ regPool \in Int /\ windowSize \in Int
    BY Constants DEF TypeOK
  <1>4. ASSUME NEW S \in SUBSET Added
        PROVE  /\ Count(S) \in Int
               /\ \A i : i \notin S => Count(S \cup {i}) = Count(S) + 1
               /\ \A i \in S : Count(S \ {i}) = Count(S) - 1
               /\ \A D \in SUBSET S : Count(D) \in Int /\ Count(S \ D) = Count(S) - Count(D)
               /\ \A D, C \in SUBSET S : D \cap C = {} =>
                    Count(S \ (D \cup C)) = Count(S) - Count(D) - Count(C)
    <2>1. added \in Nat /\ Added = 1..added
      BY RobMembers DEF Added
    <2>2. QED  BY <2>1, CountChanges
  <1>5. ASSUME NEW new, Fresh(new), NEW src \in SUBSET Regs, add_inst(new, src),
               fetch' \in {"run", "blocked", "ready"}
        PROVE  PoolsConserved'
    <2> DEFINE i == added + 1
    <2>1. /\ i \in Insts /\ Added' = Added \cup {i} /\ i \notin Added
          /\ \A j \in Insts : j # i => inst'[j] = inst[j]
          /\ ~inst'[i].del_entry /\ ~inst'[i].destroyed /\ ~inst'[i].try_flush_transient
          /\ inst'[i].dst = new.dst
      BY <1>5, AddDoes
    <2>2. \A j \in Added : inst'[j] = inst[j]
      BY <1>0, <2>1
    <2> HIDE DEF i
    <2>3. Windowed' = Windowed \cup {i} /\ i \notin Windowed
      BY <1>0, <2>1, <2>2 DEF Windowed
    <2>4. Alive' = Alive \cup {i}
      BY <2>1, <2>2 DEF Alive
    <2>5. CASE new.dst = NoReg
      <3>1. Holders' = Holders
        BY <2>1, <2>2, <2>4, <2>5 DEF Holders, hasDst, Alive
      <3>2. Charged' = Charged
        BY <2>2, <3>1 DEF Charged, Holders, Alive
      <3>3. QED  BY <1>0, <1>1, <1>2, <1>3, <1>4, <1>5, <2>3, <2>5, <3>1, <3>2, AddTakes
    <2>6. CASE new.dst # NoReg
      <3>1. Holders' = Holders \cup {i} /\ i \notin Holders
        BY <1>0, <2>1, <2>2, <2>4, <2>6 DEF Holders, hasDst, Alive
      <3>2. Charged' = Charged \cup {i} /\ i \notin Charged
        BY <1>0, <2>1, <2>2, <3>1 DEF Charged
      <3>3. QED  BY <1>0, <1>1, <1>2, <1>3, <1>4, <1>5, <2>3, <2>6, <3>1, <3>2, AddTakes, SMTT(40)
    <2>7. QED  BY <2>5, <2>6
  <1>6. CASE (\E i \in Insts : executing(i)) \/ unBlockFetchBPredDelay
    <2>1. /\ Added' = Added /\ UNCHANGED <<nTotalRegs, regPool, windowSize>>
          /\ \A j \in Added : SameInst(j)
      BY <1>0, <1>6, QuietDoes DEF pools, Added
    <2>2. Holders' = Holders /\ Charged' = Charged /\ Windowed' = Windowed
      BY <2>1 DEF SameInst, Holders, Charged, Windowed, hasDst, Alive
    <2>3. QED  BY <1>1, <1>2, <2>1, <2>2
  <1>7. ASSUME NEW i \in Insts, executed(i)
        PROVE  PoolsConserved'
    <2>1. /\ added' = added /\ UNCHANGED <<nTotalRegs, regPool>> /\ inst[i].executing
          /\ inst'[i].del_entry
          /\ windowSize' = IF inst[i].del_entry THEN windowSize ELSE windowSize + 1
          /\ \A j \in Insts :
               /\ inst'[j].dst = inst[j].dst /\ inst'[j].destroyed = inst[j].destroyed
               /\ inst'[j].try_flush_transient = inst[j].try_flush_transient
               /\ j # i => inst'[j].del_entry = inst[j].del_entry
      BY <1>7, ExecutedDoes
    <2>2. Added' = Added /\ i \in Added
      BY <1>7, <2>1 DEF Added, LifeInv
    <2>3. Holders' = Holders /\ Charged' = Charged
      BY <1>0, <2>1, <2>2 DEF Holders, Charged, hasDst, Alive
    <2>4. Windowed' = Windowed \ {i} /\ (i \in Windowed <=> ~inst[i].del_entry)
      BY <1>0, <2>1, <2>2 DEF Windowed
    <2>5. i \notin Windowed => Windowed' = Windowed
      BY <2>4
    <2>6. windowSize' = MaxWinSize - Count(Windowed')
      <3>1. /\ Count(Windowed) \in Int
            /\ i \in Windowed => Count(Windowed') = Count(Windowed) - 1
            /\ i \notin Windowed => Count(Windowed') = Count(Windowed)
        BY <1>0, <1>4, <2>4, <2>5
      <3>2. QED  BY <1>1, <1>3, <2>1, <2>4, <3>1
    <2>7. QED  BY <1>1, <1>2, <2>1, <2>3, <2>6
  <1>8. CASE flush
    <2> DEFINE D == {i \in Dead : hasDst(i)}
               R == {i \in Dead : hasDst(i) /\ ~inst[i].try_flush_transient}
               M == {i \in Marked : hasDst(i)}
               W == {i \in Marked : ~inst[i].del_entry}
    <2>1. /\ nTotalRegs' = nTotalRegs + Count(D)
          /\ regPool' = regPool + Count(R) + Count(M)
          /\ windowSize' = windowSize + Count(W)
          /\ added' = added
      BY <1>8, FlushDoes
    <2>2. \A j \in Added :
            /\ inst'[j].dst = inst[j].dst
            /\ inst'[j].destroyed <=> (inst[j].destroyed \/ j \in Dead)
            /\ inst'[j].del_entry <=> (inst[j].del_entry \/ j \in Marked)
            /\ inst'[j].try_flush_transient <=>
                 (inst[j].try_flush_transient \/ (j \in Marked /\ hasDst(j)))
      BY <1>0, <1>8, FlushDoes
    <2>3. Added' = Added /\ Dead \in SUBSET Alive /\ Marked \in SUBSET Alive
          /\ Dead \cap Marked = {} /\ \A j \in Marked : ~inst[j].try_flush_transient
      BY <1>0, <2>1 DEF Added, Dead, Marked
    <2>4. Alive' = Alive \ Dead
      BY <2>2, <2>3 DEF Alive
    <2>5. \A j \in Alive : j \in Added /\ (hasDst(j)' <=> hasDst(j))
      BY <2>2 DEF Alive, hasDst
    <2>6. Holders' = Holders \ D /\ D \in SUBSET Holders
      BY <2>3, <2>4, <2>5 DEF Holders
    <2>7. Charged' = Charged \ (R \cup M) /\ R \in SUBSET Charged /\ M \in SUBSET Charged
          /\ R \cap M = {}
      BY <2>2, <2>3, <2>4, <2>5 DEF Holders, Charged
    <2>8. Windowed' = Windowed \ W /\ W \in SUBSET Windowed
      BY <2>2, <2>3 DEF Windowed, Alive
    <2> HIDE DEF D, R, M, W
    <2>9. /\ Count(Holders') = Count(Holders) - Count(D)
          /\ Count(Windowed') = Count(Windowed) - Count(W)
          /\ Count(D) \in Int /\ Count(W) \in Int
          /\ Count(Holders) \in Int /\ Count(Windowed) \in Int
      BY <1>0, <1>4, <2>6, <2>8
    <2>10. /\ Count(Charged') = Count(Charged) - Count(R) - Count(M)
           /\ Count(R) \in Int /\ Count(M) \in Int /\ Count(Charged) \in Int
      BY <1>0, <1>4, <2>7
    <2>11. QED  BY <1>1, <1>2, <1>3, <2>1, <2>9, <2>10
  <1>9. ASSUME NEW i \in Alive, added' = added, windowSize' = windowSize,
               inst' = [inst EXCEPT ![i] = [inst[i] EXCEPT !.destroyed = TRUE]],
               nTotalRegs' = nTotalRegs + IF hasDst(i) THEN 1 ELSE 0,
               regPool' = IF inst[i].try_flush_transient THEN regPool
                          ELSE regPool + IF hasDst(i) THEN 1 ELSE 0
        PROVE  PoolsConserved'
    <2>1. i \in Added
      BY DEF Alive
    <2>2. /\ Added' = Added /\ Alive' = Alive \ {i}
          /\ \A j \in Insts :
               /\ inst'[j].dst = inst[j].dst /\ inst'[j].del_entry = inst[j].del_entry
               /\ inst'[j].try_flush_transient = inst[j].try_flush_transient
      BY <1>9, <2>1, DestroyOne
    <2>3. Windowed' = Windowed
      BY <1>0, <2>2 DEF Windowed
    <2>4. Holders' = Holders \ {i} /\ (i \in Holders <=> hasDst(i))
          /\ (i \notin Holders => Holders' = Holders)
      BY <1>0, <2>2 DEF Holders, hasDst, Alive
    <2>5. Charged' = Charged \ {i}
          /\ (i \in Charged <=> hasDst(i) /\ ~inst[i].try_flush_transient)
          /\ (i \notin Charged => Charged' = Charged)
      BY <1>0, <2>2, <2>4 DEF Charged, Holders, Alive
    <2>6. nTotalRegs' = num_regs - Count(Holders')
      <3>1. /\ Count(Holders) \in Int
            /\ i \in Holders => Count(Holders') = Count(Holders) - 1
            /\ i \notin Holders => Count(Holders') = Count(Holders)
        BY <1>0, <1>4, <2>4
      <3>2. QED  BY <1>1, <1>3, <1>9, <2>4, <3>1
    <2>7. regPool' = nRegs - Count(Charged')
      <3>1. /\ Count(Charged) \in Int
            /\ i \in Charged => Count(Charged') = Count(Charged) - 1
            /\ i \notin Charged => Count(Charged') = Count(Charged)
        BY <1>0, <1>4, <2>5
      <3>2. QED  BY <1>1, <1>3, <1>9, <2>5, <3>1
    <2>8. QED  BY <1>1, <1>2, <1>9, <2>3, <2>6, <2>7
  <1>10. CASE preretire
    <2>1. added' = added /\ windowSize' = windowSize
      BY <1>10, PreretireDoes
    <2>2. PICK i \in InROB :
            \/ /\ inst' = [inst EXCEPT ![i] = [inst[i] EXCEPT !.destroyed = TRUE]]
               /\ nTotalRegs' = nTotalRegs + IF hasDst(i) THEN 1 ELSE 0
               /\ regPool' = IF inst[i].try_flush_transient THEN regPool
                             ELSE regPool + IF hasDst(i) THEN 1 ELSE 0
            \/ UNCHANGED <<inst, nTotalRegs, regPool>>
      BY <1>10, PreretireDoes
    <2>3. CASE UNCHANGED <<inst, nTotalRegs, regPool>>
      BY <2>1, <2>3 DEF PoolsConserved, Alive, Added, hasDst
    <2>4. i \in Alive
      BY <1>0
    <2>5. QED  BY <1>9, <2>1, <2>2, <2>3, <2>4
  <1>11. CASE retire
    <2>1. added' = added /\ windowSize' = windowSize
      BY <1>11, RetireDoes
    <2>2. PICK i \in InRROB :
            /\ inst' = [inst EXCEPT ![i] = [inst[i] EXCEPT !.destroyed = TRUE]]
            /\ nTotalRegs' = nTotalRegs + IF hasDst(i) THEN 1 ELSE 0
            /\ regPool' = regPool + IF hasDst(i) THEN 1 ELSE 0
      BY <1>11, RetireDoes
    <2>3. i \in Alive /\ ~inst[i].try_flush_transient
      BY <1>0 DEF RobInv, LifeInv
    <2>4. QED  BY <1>9, <2>1, <2>2, <2>3
  <1>12. CASE UNCHANGED vars
    BY <1>12 DEF vars, pools, PoolsConserved, Alive, Added, hasDst
  <1>13. QED
    BY <1>5, <1>6, <1>7, <1>8, <1>10, <1>11, <1>12, NextCases

----------------------------------------------------------------------------
(* The theorems *)

\* What holds in every state.
IInv ==
  /\ TypeOK /\ RobInv /\ LifeInv /\ PointersInv
  /\ NoCrossPollution /\ PoolsConserved

\* The core starts with no instruction and with full pools.
LEMMA InitHolds ==
  ASSUME Init
  PROVE  IInv
  <1>1. TypeOK
    <2>1. NewInst("ALU", FALSE, NoReg, "no") \in Inst
      BY NewIsFresh DEF Fresh
    <2>2. inst \in [Insts -> Inst]
      BY <2>1 DEF Init
    <2>3. {nTotalRegs, regPool, windowSize, freeBranches} \subseteq Int
      BY Constants DEF Init
    <2>4. ROB \in Seq(Added) /\ rROB \in Seq(Added)
      BY DEF Init
    <2>5. added \in 0..MaxInst /\ added = 0 /\ deps \in [Insts -> SUBSET Insts]
      BY Constants DEF Init
    <2>6. RAT \in [Regs -> 0..added] /\ TRAT \in [Regs -> 0..added]
      BY <2>5 DEF Init
    <2>7. fetch \in {"run", "blocked", "ready"}
      BY DEF Init
    <2>8. QED  BY <2>2, <2>3, <2>4, <2>5, <2>6, <2>7 DEF TypeOK
  <1>2. Added = {} /\ Alive = {} /\ InROB = {} /\ InRROB = {}
    BY DEF Init, Added, Alive, InROB, InRROB
  <1>3. RobInv
    BY <1>2 DEF Init, RobInv, Increasing
  <1>4. LifeInv
    BY <1>2 DEF Init, LifeInv, NewInst
  <1>5. PointersInv /\ NoCrossPollution
    BY <1>2 DEF Init, PointersInv, NoCrossPollution
  <1>6. PoolsConserved
    <2>1. Count({}) = 0
      BY FS_EmptySet DEF Count
    <2>2. {i \in Alive : hasDst(i)} = {} /\ {i \in Added : ~inst[i].del_entry} = {}
      BY <1>2
    <2>3. {i \in {j \in Alive : hasDst(j)} : ~inst[i].try_flush_transient} = {}
      BY <2>2
    <2>4. /\ nTotalRegs = num_regs - 0 /\ regPool = nRegs - 0
          /\ windowSize = MaxWinSize - 0
      BY Constants DEF Init
    <2>5. QED  BY <2>1, <2>2, <2>3, <2>4 DEF PoolsConserved
  <1>7. QED  BY <1>1, <1>3, <1>4, <1>5, <1>6 DEF IInv

\* The invariant holds in every state.
THEOREM Invariant == Spec => []IInv
  <1>1. Init => IInv
    BY InitHolds
  <1>2. IInv /\ [Next]_vars => IInv'
    BY LifeStep, RobStep, PointersStep, PoolsStep DEF IInv
  <1>3. QED  BY <1>1, <1>2, PTL DEF Spec

\* Every variable keeps its type, the pools' counters included.
THEOREM TypeCorrect == Spec => []TypeOK
  <1>1. IInv => TypeOK
    BY DEF IInv
  <1>2. QED  BY <1>1, Invariant, PTL

\* docs/debugging.md, "TRAT and RAT do not cross-pollute": whatever the flush
\* and the callbacks do, transients wait only for transients and the program's
\* instructions only for the program's.
THEOREM RenamesApart == Spec => []NoCrossPollution
  <1>1. IInv => NoCrossPollution
    BY DEF IInv
  <1>2. QED  BY <1>1, Invariant, PTL

\* An instruction is destroyed only when its callbacks have fired, and then
\* neither a rename table nor a waiting instruction points at it.
THEOREM DestroyedUnused == Spec => []NoUseAfterDestroy
  <1>1. IInv => NoUseAfterDestroy
    <2> SUFFICES ASSUME IInv, NEW i \in Added, inst[i].destroyed
                 PROVE  /\ inst[i].executed
                        /\ \A r \in Regs : RAT[r] # i /\ TRAT[r] # i
                        /\ \A j \in Added : i \notin deps[j]
      BY DEF NoUseAfterDestroy
    <2>1. inst[i].executed /\ i # 0
      BY DEF IInv, LifeInv, Added
    <2>2. QED  BY <2>1 DEF IInv, PointersInv
  <1>2. QED  BY <1>1, Invariant, PTL

\* The registers and window entries the flush, executed and retire give back
\* are exactly the ones add_inst took, however they interleave.
THEOREM PoolsBalance == Spec => []PoolsConserved
  <1>1. IInv => PoolsConserved
    BY DEF IInv
  <1>2. QED  BY <1>1, Invariant, PTL

\* rROB followed by ROB is every instruction alive, once, in program order.
THEOREM BuffersInOrder == Spec => []RobInOrder
  <1>1. IInv => RobInOrder
    <2> SUFFICES ASSUME IInv PROVE RobInOrder
      OBVIOUS
    <2> DEFINE q == rROB \o ROB
               n == Len(rROB)
    <2>1. /\ ROB \in Seq(Added) /\ rROB \in Seq(Added)
          /\ DOMAIN ROB = 1..Len(ROB) /\ DOMAIN rROB = 1..n
          /\ Len(ROB) \in Nat /\ n \in Nat
      BY DEF IInv, TypeOK
    <2>2. /\ DOMAIN q = 1..(n + Len(ROB))
          /\ \A k \in 1..n : q[k] = rROB[k]
          /\ \A k \in DOMAIN ROB : q[n + k] = ROB[k]
      BY <2>1
    <2>3. /\ \A k \in DOMAIN ROB : ROB[k] \in InROB
          /\ \A k \in DOMAIN rROB : rROB[k] \in InRROB
          /\ Increasing(ROB) /\ Increasing(rROB)
          /\ \A i \in InRROB : \A j \in InROB : i < j
          /\ InROB \cup InRROB = Alive
      BY DEF IInv, RobInv, InROB, InRROB
    <2> HIDE DEF q, n
    <2>4. ASSUME NEW k \in DOMAIN q
          PROVE  \/ k \in DOMAIN rROB /\ q[k] = rROB[k]
                 \/ k - n \in DOMAIN ROB /\ q[k] = ROB[k - n] /\ n < k
      <3>1. CASE k <= n
        BY <2>1, <2>2, <3>1
      <3>2. CASE n < k
        <4>1. k - n \in DOMAIN ROB /\ n + (k - n) = k
          BY <2>1, <2>2, <3>2
        <4>2. q[n + (k - n)] = ROB[k - n]
          BY <2>2, <4>1
        <4>3. QED  BY <3>2, <4>1, <4>2
      <3>3. QED  BY <2>1, <2>2, <3>1, <3>2
    <2>5. ASSUME NEW a \in DOMAIN q, NEW b \in DOMAIN q, a < b
          PROVE  q[a] < q[b]
      <3>1. a \in Int /\ b \in Int /\ n \in Int
        BY <2>1, <2>2
      <3>2. CASE b \in DOMAIN rROB /\ q[b] = rROB[b]
        <4>1. a \in DOMAIN rROB /\ q[a] = rROB[a]
          BY <2>1, <2>4, <2>5, <3>1, <3>2
        <4>2. QED  BY <2>3, <2>5, <3>2, <4>1 DEF Increasing
      <3>3. CASE b - n \in DOMAIN ROB /\ q[b] = ROB[b - n]
        <4>1. CASE a \in DOMAIN rROB /\ q[a] = rROB[a]
          BY <2>3, <3>3, <4>1
        <4>2. CASE a - n \in DOMAIN ROB /\ q[a] = ROB[a - n]
          <5>1. a - n < b - n
            BY <2>5, <3>1
          <5>2. QED  BY <2>3, <3>3, <4>2, <5>1 DEF Increasing
        <4>3. QED  BY <2>4, <4>1, <4>2
      <3>4. QED  BY <2>4, <3>2, <3>3
    <2>6. {q[k] : k \in DOMAIN q} = Alive
      <3>1. \A k \in DOMAIN q : q[k] \in Alive
        BY <2>3, <2>4
      <3>2. ASSUME NEW i \in Alive PROVE \E k \in DOMAIN q : q[k] = i
        <4>1. CASE i \in InRROB
          <5>1. PICK k \in DOMAIN rROB : rROB[k] = i
            BY <4>1 DEF InRROB
          <5>2. k \in DOMAIN q /\ q[k] = i
            BY <2>1, <2>2, <5>1
          <5>3. QED  BY <5>2
        <4>2. CASE i \in InROB
          <5>1. PICK k \in DOMAIN ROB : ROB[k] = i
            BY <4>2 DEF InROB
          <5>2. n + k \in DOMAIN q /\ q[n + k] = i
            BY <2>1, <2>2, <5>1
          <5>3. QED  BY <5>2
        <4>3. QED  BY <2>3, <4>1, <4>2
      <3>3. QED  BY <3>1, <3>2
    <2>7. ToSet(q) = {q[k] : k \in DOMAIN q}
      BY DEF ToSet
    <2>8. QED  BY <2>5, <2>6, <2>7 DEF RobInOrder, q
  <1>2. QED  BY <1>1, Invariant, PTL
============================================================================
