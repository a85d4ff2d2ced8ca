--------------------------- MODULE FrontEndProofs ---------------------------
(***************************************************************************)
(* Proofs about FrontEnd, for every length of the program, every width,    *)
(* latency and size of the queues.                                         *)
(*                                                                         *)
(* Each operation is shown to keep the instructions waiting in their order *)
(* by a map from the places after it to the places before it (Follows); a  *)
(* loop of the code is a recursive function, shown to exist and to keep    *)
(* what its body keeps by induction on its turns (SetInduction).           *)
(***************************************************************************)
EXTENDS FrontEnd, FetchEngineProofs

-----------------------------------------------------------------------------
(* The last instruction, or bucket, that is not transient.                 *)

\* A set of positions that is not empty has a last one.
LEMMA LastPosition ==
  ASSUME NEW m \in Nat, NEW S \in SUBSET (1..m), S # {}
  PROVE  Max(S) \in S /\ \A y \in S : y <= Max(S)
  <1> DEFINE P(j) == \A T \in SUBSET (1..j) : T # {} => \E x \in T : \A y \in T : x >= y
             J == {j \in Nat : P(j)}
  <1>1. 0 \in J
    <2>1. 1..0 = {}
      OBVIOUS
    <2>2. P(0)
      BY <2>1
    <2>3. QED  BY <2>2
  <1>2. ASSUME NEW j \in Nat, j \in J
        PROVE  j + 1 \in J
    <2>1. P(j)
      BY <1>2
    <2>2. ASSUME NEW T \in SUBSET (1..(j + 1)), T # {}
          PROVE  \E x \in T : \A y \in T : x >= y
      <3>1. CASE j + 1 \in T
        <4>1. \A y \in T : j + 1 >= y
          OBVIOUS
        <4>2. QED  BY <3>1, <4>1
      <3>2. CASE j + 1 \notin T
        <4>1. T \in SUBSET (1..j)
          BY <3>2
        <4>2. QED  BY <2>1, <2>2, <4>1
      <3>3. QED  BY <3>1, <3>2
    <2>3. QED  BY <2>2
  <1> HIDE DEF J
  <1>3. m \in J
    BY <1>1, <1>2, SetInduction
  <1>4. \E x \in S : \A y \in S : x >= y
    BY <1>3 DEF J
  <1>5. Max(S) \in S /\ \A y \in S : Max(S) >= y
    BY <1>4, Zenon DEF Max
  <1>6. QED  BY <1>5

\* SelectLastInSeq, by its positions.
LEMMA LastOf ==
  ASSUME NEW m \in Nat, NEW I \in SUBSET (1..m), NEW k, k = IF I # {} THEN Max(I) ELSE 0
  PROVE  k \in 0..m /\ (k # 0 => k \in I) /\ \A j \in I : j <= k
  <1>1. CASE I = {}
    BY <1>1
  <1>2. CASE I # {}
    <2>1. Max(I) \in I /\ \A y \in I : y <= Max(I)
      BY <1>2, LastPosition
    <2>2. k = Max(I)
      BY <1>2
    <2>3. k \in I /\ \A j \in I : j <= k
      BY <2>1, <2>2
    <2>4. QED  BY <2>3
  <1>3. QED  BY <1>1, <1>2

\* What is left of a bucket without its trailing transient instructions.
Popped(insts, t) ==
  /\ t \in Seq(Nat) /\ Len(t) <= Len(insts)
  /\ \A j \in 1..Len(t) : t[j] = insts[j]
  /\ \A j \in 1..Len(insts) : Len(t) < j => insts[j] = TRANSIENT
  /\ t # << >> => t[Len(t)] # TRANSIENT
  /\ Real(insts) <=> t # << >>

\* transientsPopped is that.
LEMMA TransientsPoppedDoes ==
  ASSUME NEW insts \in Seq(Nat)
  PROVE  Popped(insts, transientsPopped(insts))
  <1> DEFINE I == {j \in 1..Len(insts) : insts[j] # TRANSIENT}
  <1>1. PICK k : k = IF I # {} THEN Max(I) ELSE 0
    OBVIOUS
  <1>2. transientsPopped(insts) = SubSeq(insts, 1, k)
    BY <1>1 DEF transientsPopped, SelectLastInSeq
  <1>3. I \in SUBSET (1..Len(insts)) /\ Len(insts) \in Nat
    OBVIOUS
  <1>4. k \in 0..Len(insts) /\ (k # 0 => k \in I) /\ \A j \in I : j <= k
    <2> HIDE DEF I
    <2>1. QED  BY <1>1, <1>3, LastOf
  <1>5. PICK t : t = transientsPopped(insts)
    OBVIOUS
  <1>6. t \in Seq(Nat) /\ Len(t) = k /\ \A j \in 1..k : t[j] = insts[j]
    BY <1>2, <1>4, <1>5
  <1>7. \A j \in 1..Len(insts) : k < j => insts[j] = TRANSIENT
    BY <1>4
  <1>8. t # << >> <=> k # 0
    BY <1>4, <1>6
  <1>9. k # 0 => t[k] # TRANSIENT
    <2>1. k # 0 => k \in 1..k /\ insts[k] # TRANSIENT
      BY <1>4
    <2>2. QED  BY <1>6, <2>1
  <1>10. Real(insts) <=> k # 0
    <2>1. DOMAIN insts = 1..Len(insts)
      OBVIOUS
    <2>2. k # 0 => Real(insts)
      BY <1>4, <2>1 DEF Real
    <2>3. Real(insts) => k # 0
      BY <1>3, <1>4, <1>7, <2>1 DEF Real
    <2>4. QED  BY <2>2, <2>3
  <1>11. QED  BY <1>4, <1>5, <1>6, <1>7, <1>8, <1>9, <1>10 DEF Popped
-----------------------------------------------------------------------------
(* The buckets of the pipeline.                                            *)

\* On their way from the cache, back from it out of order, and in order.  Only
\* buckets that were ready at once are of the wrong path; none in order is empty.
Asked == [id : Int, insts : Seq(Nat \ {TRANSIENT})]
Answered == [id : Int, insts : Seq(Nat), age : Nat]
InOrder == [insts : Seq(Nat) \ {<< >>}, age : Nat]

Ids(S) == {b.id : b \in S}
UniqueIds(S) == \A b, c \in S : b.id = c.id => b = c

IsPipe(p) ==
  p = [pool |-> p.pool, nIRequests |-> p.nIRequests, max |-> p.max, inflight |-> p.inflight,
       received |-> p.received, buffer |-> p.buffer, flushed |-> p.flushed]

PipeType(p) ==
  /\ IsPipe(p) /\ p.pool \in Int /\ p.nIRequests \in Int /\ p.max \in Int
  /\ p.inflight \in SUBSET Asked /\ IsFiniteSet(p.inflight) /\ UniqueIds(p.inflight)
  /\ p.received \in SUBSET Answered /\ IsFiniteSet(p.received) /\ UniqueIds(p.received)
  /\ p.buffer \in Seq(InOrder) /\ p.flushed \in SUBSET Int

\* Every identifier of T is a request's, an answer's or a flushed one, and no two of these.
Owned(p, T) ==
  /\ Ids(p.inflight) \cup Ids(p.received) \cup p.flushed = T
  /\ Ids(p.inflight) \cap Ids(p.received) = {}
  /\ Ids(p.inflight) \cap p.flushed = {}
  /\ Ids(p.received) \cap p.flushed = {}

\* The buckets there are, and the requests there may be.
Buckets(p) == p.pool + Cardinality(p.inflight) + Cardinality(p.received) + Len(p.buffer)
Asks(p) == p.nIRequests + Cardinality(p.inflight)

\* A change of the buckets of S that keeps their identifiers apart keeps their number.
LEMMA Renamed ==
  ASSUME NEW S, IsFiniteSet(S), UniqueIds(S), NEW F, NEW T, T = {F[b] : b \in S},
         \A b, c \in S : F[b].id = F[c].id => b.id = c.id
  PROVE  IsFiniteSet(T) /\ Cardinality(T) = Cardinality(S) /\ UniqueIds(T)
  <1> DEFINE G == [b \in S |-> F[b]]
  <1>1. \A b, c \in S : F[b] = F[c] => b = c
    BY DEF UniqueIds
  <1>2. G \in Bijection(S, T)
    BY <1>1 DEF Bijection, Injection, Surjection, IsInjective
  <1>3. IsFiniteSet(T) /\ Cardinality(T) = Cardinality(S)
    BY <1>2, FS_Bijection DEF ExistsBijection
  <1>4. UniqueIds(T)
    BY DEF UniqueIds
  <1>5. QED  BY <1>3, <1>4

\* One identifier closer to its turn.
LEMMA SoonerDoes ==
  /\ \A b \in Asked : sooner(b) \in Asked /\ sooner(b).id = b.id - 1 /\ sooner(b).insts = b.insts
  /\ \A b \in Answered : /\ sooner(b) \in Answered /\ sooner(b).id = b.id - 1
                         /\ sooner(b).insts = b.insts
  BY DEF sooner, Asked, Answered

\* The buckets of S one identifier closer to their turn.
Shifted(S, T) ==
  /\ \A b \in S : \E d \in T : d.id = b.id - 1 /\ d.insts = b.insts
  /\ \A d \in T : \E b \in S : d.id = b.id - 1 /\ d.insts = b.insts

\* Two sets of buckets move together.
LEMMA ShiftedUnion ==
  ASSUME NEW A, NEW B, NEW C, NEW D, Shifted(A, B), Shifted(C, D)
  PROVE  Shifted(C \cup A, D \cup B)
  <1>1. ASSUME NEW b \in C \cup A
        PROVE  \E d \in D \cup B : d.id = b.id - 1 /\ d.insts = b.insts
    <2>1. CASE b \in A
      BY <2>1 DEF Shifted
    <2>2. CASE b \in C
      BY <2>2 DEF Shifted
    <2>3. QED  BY <2>1, <2>2
  <1>2. ASSUME NEW d \in D \cup B
        PROVE  \E b \in C \cup A : d.id = b.id - 1 /\ d.insts = b.insts
    <2>1. CASE d \in B
      BY <2>1 DEF Shifted
    <2>2. CASE d \in D
      BY <2>2 DEF Shifted
    <2>3. QED  BY <2>1, <2>2
  <1>3. QED  BY <1>1, <1>2 DEF Shifted

Sooner(S) == {sooner(b) : b \in S}

\* Their number and their identifiers stay apart.
LEMMA SoonerAll ==
  ASSUME NEW S, S \in SUBSET Asked \/ S \in SUBSET Answered, IsFiniteSet(S), UniqueIds(S),
         NEW T, T = Sooner(S)
  PROVE  /\ IsFiniteSet(T) /\ Cardinality(T) = Cardinality(S) /\ UniqueIds(T)
         /\ S \in SUBSET Asked => T \in SUBSET Asked
         /\ S \in SUBSET Answered => T \in SUBSET Answered
         /\ Shifted(S, T)
  <1> USE DEF Sooner
  <1>1. \A b \in S : b.id \in Int /\ sooner(b).id = b.id - 1 /\ sooner(b).insts = b.insts
    BY SoonerDoes DEF Asked, Answered
  <1> DEFINE F == [b \in S |-> sooner(b)]
  <1>2. T = {F[b] : b \in S} /\ \A b \in S : F[b] = sooner(b)
    OBVIOUS
  <1>3. \A b, c \in S : F[b].id = F[c].id => b.id = c.id
    BY <1>1, <1>2
  <1> HIDE DEF F
  <1>4. IsFiniteSet(T) /\ Cardinality(T) = Cardinality(S) /\ UniqueIds(T)
    BY <1>2, <1>3, Renamed
  <1>5. /\ S \in SUBSET Asked => T \in SUBSET Asked
        /\ S \in SUBSET Answered => T \in SUBSET Answered
    BY SoonerDoes
  <1>6. Shifted(S, T)
    BY <1>1 DEF Shifted
  <1>7. QED  BY <1>4, <1>5, <1>6

\* minItemCntr++, once nothing is left with its identifier.
LEMMA ServedDoes ==
  ASSUME NEW p, PipeType(p), NEW q, q = served(p),
         NEW m \in Nat, m = p.max, Owned(p, 1..(m - 1))
  PROVE  /\ PipeType(q) /\ q.max = m - 1 /\ Owned(q, 0..(m - 2))
         /\ q.pool = p.pool /\ q.nIRequests = p.nIRequests /\ q.buffer = p.buffer
         /\ Cardinality(q.inflight) = Cardinality(p.inflight)
         /\ Cardinality(q.received) = Cardinality(p.received)
         /\ Shifted(p.inflight, q.inflight) /\ Shifted(p.received, q.received)
  <1>1. /\ IsPipe(q) /\ q.max = m - 1
        /\ q.pool = p.pool /\ q.nIRequests = p.nIRequests /\ q.buffer = p.buffer
        /\ q.inflight = Sooner(p.inflight) /\ q.received = Sooner(p.received)
        /\ q.flushed = {i - 1 : i \in p.flushed}
    BY DEF served, PipeType, IsPipe, Sooner
  <1>2. /\ p.inflight \in SUBSET Asked /\ IsFiniteSet(p.inflight) /\ UniqueIds(p.inflight)
        /\ p.received \in SUBSET Answered /\ IsFiniteSet(p.received) /\ UniqueIds(p.received)
    BY DEF PipeType
  <1>3. /\ IsFiniteSet(q.inflight) /\ Cardinality(q.inflight) = Cardinality(p.inflight)
        /\ UniqueIds(q.inflight) /\ q.inflight \in SUBSET Asked /\ Shifted(p.inflight, q.inflight)
    <2>1. PICK S, T : S = p.inflight /\ T = q.inflight
      OBVIOUS
    <2>2. S \in SUBSET Asked /\ IsFiniteSet(S) /\ UniqueIds(S) /\ T = Sooner(S)
      BY <1>1, <1>2, <2>1
    <2>3. QED  BY <2>1, <2>2, SoonerAll
  <1>4. /\ IsFiniteSet(q.received) /\ Cardinality(q.received) = Cardinality(p.received)
        /\ UniqueIds(q.received) /\ q.received \in SUBSET Answered
        /\ Shifted(p.received, q.received)
    <2>1. PICK S, T : S = p.received /\ T = q.received
      OBVIOUS
    <2>2. S \in SUBSET Answered /\ IsFiniteSet(S) /\ UniqueIds(S) /\ T = Sooner(S)
      BY <1>1, <1>2, <2>1
    <2>3. QED  BY <2>1, <2>2, SoonerAll
  <1>5. PipeType(q)
    BY <1>1, <1>3, <1>4 DEF PipeType
  <1>6. Owned(q, 0..(m - 2))
    <2> DEFINE A == Ids(p.inflight)
               B == Ids(p.received)
               C == p.flushed
    <2>1. /\ Ids(q.inflight) = {i - 1 : i \in A}
      BY <1>3 DEF Ids, Shifted
    <2>2. /\ Ids(q.received) = {i - 1 : i \in B}
      BY <1>4 DEF Ids, Shifted
    <2>3. A \cup B \cup C = 1..(m - 1) /\ A \cap B = {} /\ A \cap C = {} /\ B \cap C = {}
      BY DEF Owned
    <2> HIDE DEF A, B, C
    <2>4. A \in SUBSET Int /\ B \in SUBSET Int /\ C \in SUBSET Int
      BY <2>3
    <2>5. \A X \in SUBSET Int : \A i \in Int : i \in {j - 1 : j \in X} <=> i + 1 \in X
      OBVIOUS
    <2>6. PICK A1, B1, C1 : A1 = {i - 1 : i \in A} /\ B1 = {i - 1 : i \in B} /\ C1 = {i - 1 : i \in C}
      OBVIOUS
    <2>7. /\ A1 \in SUBSET Int /\ B1 \in SUBSET Int /\ C1 \in SUBSET Int
          /\ \A i \in Int : (i \in A1 <=> i + 1 \in A) /\ (i \in B1 <=> i + 1 \in B)
                              /\ (i \in C1 <=> i + 1 \in C)
      BY <2>4, <2>5, <2>6
    <2>8. A1 \cup B1 \cup C1 = 0..(m - 2)
      <3>1. \A i \in Int : i \in A1 \cup B1 \cup C1 <=> i + 1 \in 1..(m - 1)
        BY <2>3, <2>7
      <3>2. \A i \in Int : i + 1 \in 1..(m - 1) <=> i \in 0..(m - 2)
        OBVIOUS
      <3>3. PICK X : X = A1 \cup B1 \cup C1
        OBVIOUS
      <3>4. X \in SUBSET Int /\ \A i \in Int : i \in X <=> i \in 0..(m - 2)
        BY <2>7, <3>1, <3>2, <3>3
      <3>5. X = 0..(m - 2)
        <4>1. \A i \in X : i \in 0..(m - 2)
          BY <3>4
        <4>2. \A i \in 0..(m - 2) : i \in X
          BY <3>4
        <4>3. QED  BY <4>1, <4>2
      <3>6. QED  BY <3>3, <3>5
    <2>9. A1 \cap B1 = {} /\ A1 \cap C1 = {} /\ B1 \cap C1 = {}
      BY <2>3, <2>7
    <2>10. Ids(q.inflight) = A1 /\ Ids(q.received) = B1 /\ q.flushed = C1
      BY <1>1, <2>1, <2>2, <2>6 DEF C
    <2>11. QED  BY <2>8, <2>9, <2>10 DEF Owned
  <1>7. QED  BY <1>1, <1>3, <1>4, <1>5, <1>6

-----------------------------------------------------------------------------
(* The instructions waiting, each with its place: the queue, the bucket in *)
(* it, the position in the bucket; and the instruction.                    *)

InSeq(s, q) == UNION {{<<s, k, j, q[k][j]>> : j \in DOMAIN q[k]} : k \in DOMAIN q}
InQueue(q) == InSeq(1, q)
Buffered(u) == [k \in DOMAIN u |-> u[k].insts]
InBuffer(u) == InSeq(2, Buffered(u))
InCache(S) == UNION {{<<3, b.id, j, b.insts[j]>> : j \in DOMAIN b.insts} : b \in S}

Placed(q, p) == InQueue(q) \cup InBuffer(p.buffer) \cup InCache(p.received \cup p.inflight)

\* What InstructionsKept says of them.
Kept(O, lo, hi) ==
  /\ {x[4] : x \in O} \ {TRANSIENT} = (lo + 1)..hi
  /\ \A x, y \in O : Before(x, y) /\ y[4] # TRANSIENT => x[4] # TRANSIENT /\ x[4] < y[4]

AllReal(O) == \A x \in O : x[4] # TRANSIENT

\* P has the instructions of O in the same order, perhaps without some transient ones;
\* m says where each of them was.
FollowsBy(O, P, m) ==
  /\ \A x \in P : m[x] \in O /\ m[x][4] = x[4]
  /\ \A x, y \in P : Before(x, y) => Before(m[x], m[y])
  /\ \A y \in O : y[4] # TRANSIENT => \E x \in P : m[x] = y

Follows(O, P) == \E m : FollowsBy(O, P, m)

\* The property goes from places to those that follow them,
LEMMA FollowsKeeps ==
  ASSUME NEW O, NEW P, Follows(O, P)
  PROVE  /\ \A lo, hi : Kept(O, lo, hi) => Kept(P, lo, hi)
         /\ AllReal(O) => AllReal(P)
  <1>1. PICK m : FollowsBy(O, P, m)
    BY DEF Follows
  <1>2. ASSUME NEW lo, NEW hi, Kept(O, lo, hi)
        PROVE  Kept(P, lo, hi)
    <2>1. {x[4] : x \in P} \ {TRANSIENT} = {x[4] : x \in O} \ {TRANSIENT}
      BY <1>1 DEF FollowsBy
    <2>2. ASSUME NEW x \in P, NEW y \in P, Before(x, y), y[4] # TRANSIENT
          PROVE  x[4] # TRANSIENT /\ x[4] < y[4]
      <3>1. /\ m[x] \in O /\ m[y] \in O /\ Before(m[x], m[y])
            /\ m[x][4] = x[4] /\ m[y][4] = y[4]
        BY <1>1, <2>2 DEF FollowsBy
      <3>2. QED  BY <1>2, <2>2, <3>1 DEF Kept
    <2>3. QED  BY <1>2, <2>1, <2>2 DEF Kept
  <1>3. AllReal(O) => AllReal(P)
    BY <1>1 DEF FollowsBy, AllReal
  <1>4. QED  BY <1>2, <1>3

\* and step after step.
LEMMA FollowsOn ==
  ASSUME NEW O, NEW P, NEW R, Follows(O, P), Follows(P, R)
  PROVE  Follows(O, R)
  <1>1. PICK m : FollowsBy(O, P, m)
    BY DEF Follows
  <1>2. PICK l : FollowsBy(P, R, l)
    BY DEF Follows
  <1> DEFINE h == [x \in R |-> m[l[x]]]
  <1>3. \A x \in R : h[x] = m[l[x]] /\ l[x] \in P /\ l[x][4] = x[4]
    BY <1>2 DEF FollowsBy
  <1> HIDE DEF h
  <1>4. \A x \in R : h[x] \in O /\ h[x][4] = x[4]
    BY <1>1, <1>3 DEF FollowsBy
  <1>5. \A x, y \in R : Before(x, y) => Before(h[x], h[y])
    BY <1>1, <1>2, <1>3 DEF FollowsBy
  <1>6. ASSUME NEW z \in O, z[4] # TRANSIENT
        PROVE  \E x \in R : h[x] = z
    <2>1. PICK y \in P : m[y] = z
      BY <1>1, <1>6 DEF FollowsBy
    <2>2. y[4] # TRANSIENT
      BY <1>1, <1>6, <2>1 DEF FollowsBy
    <2>3. PICK x \in R : l[x] = y
      BY <1>2, <2>2 DEF FollowsBy
    <2>4. h[x] = z
      BY <1>3, <2>1, <2>3
    <2>5. QED  BY <2>4
  <1>7. FollowsBy(O, R, h)
    BY <1>4, <1>5, <1>6 DEF FollowsBy
  <1>8. QED  BY <1>7 DEF Follows

\* Only transient instructions are taken away.
LEMMA Trimmed ==
  ASSUME NEW O, NEW P, \A x \in P : x \in O, \A y \in O : y[4] # TRANSIENT => y \in P
  PROVE  Follows(O, P)
  <1> DEFINE m == [x \in P |-> x]
  <1>1. \A x \in P : m[x] = x
    OBVIOUS
  <1> HIDE DEF m
  <1>2. FollowsBy(O, P, m)
    BY <1>1 DEF FollowsBy
  <1>3. QED  BY <1>2 DEF Follows

\* The members of the three sets.
LEMMA PlacesAre ==
  /\ \A s, q, x : x \in InSeq(s, q) <=> \E k \in DOMAIN q : \E j \in DOMAIN q[k] :
                                        x = <<s, k, j, q[k][j]>>
  /\ \A q, x : x \in InQueue(q) <=> \E k \in DOMAIN q : \E j \in DOMAIN q[k] :
                                        x = <<1, k, j, q[k][j]>>
  /\ \A u, x : x \in InBuffer(u) <=> \E k \in DOMAIN u : \E j \in DOMAIN u[k].insts :
                                        x = <<2, k, j, u[k].insts[j]>>
  /\ \A S, x : x \in InCache(S) <=> \E b \in S : \E j \in DOMAIN b.insts :
                                        x = <<3, b.id, j, b.insts[j]>>
  <1>1. \A s, q, x : x \in InSeq(s, q) <=> \E k \in DOMAIN q : \E j \in DOMAIN q[k] :
                                        x = <<s, k, j, q[k][j]>>
    BY DEF InSeq
  <1>2. \A u : DOMAIN Buffered(u) = DOMAIN u /\ \A k \in DOMAIN u : Buffered(u)[k] = u[k].insts
    BY DEF Buffered
  <1>3. QED  BY <1>1, <1>2 DEF InQueue, InBuffer, InCache

\* The bucket whose turn it is enters the buffer, or there was nothing in it, and the
\* others come closer.
LEMMA MovedUp ==
  ASSUME NEW q, NEW insts \in Seq(Nat), NEW a,
         NEW u, NEW v, NEW L \in Nat, DOMAIN u = 1..L,
         \/ insts = << >> /\ v = u
         \/ /\ DOMAIN v = 1..(L + 1) /\ v[L + 1] = [insts |-> insts, age |-> a]
            /\ \A k \in 1..L : v[k] = u[k],
         NEW R, \A c \in R : c.id \in Nat \ {0}, NEW S, Shifted(R, S),
         NEW O, O = InQueue(q) \cup InBuffer(u) \cup InCache(R)
                      \cup {<<3, 0, j, insts[j]>> : j \in DOMAIN insts},
         NEW P, P = InQueue(q) \cup InBuffer(v) \cup InCache(S)
  PROVE  Follows(O, P)
  <1> DEFINE m == [x \in P |-> IF x[1] = 2 /\ x[2] = L + 1 THEN <<3, 0, x[3], x[4]>>
                               ELSE IF x[1] = 3 THEN <<3, x[2] + 1, x[3], x[4]>> ELSE x]
             InQ(x) == x[1] = 1 /\ x \in InQueue(q) /\ m[x] = x
             InU(x) == x[1] = 2 /\ x[2] \in 1..L /\ x \in InBuffer(u) /\ m[x] = x
             InN(x) == /\ x[1] = 2 /\ x[2] = L + 1 /\ m[x] = <<3, 0, x[3], x[4]>>
                       /\ x[3] \in DOMAIN insts /\ x[4] = insts[x[3]]
             InC(x) == /\ x[1] = 3 /\ x[2] \in Nat /\ m[x] = <<3, x[2] + 1, x[3], x[4]>>
                       /\ m[x] \in InCache(R)
  <1>1. DOMAIN insts = 1..Len(insts)
    OBVIOUS
  <1>2. ASSUME NEW x \in InQueue(q)
        PROVE  InQ(x)
    <2>1. PICK k, j : /\ k \in DOMAIN q /\ j \in DOMAIN q[k]
                      /\ x = <<1, k, j, q[k][j]>>
      BY PlacesAre
    <2>2. x[1] = 1
      BY <2>1
    <2>3. QED  BY <2>2
  <1>3. ASSUME NEW x \in InBuffer(v)
        PROVE  InU(x) \/ InN(x)
    <2>1. PICK k, j : /\ k \in DOMAIN v /\ j \in DOMAIN v[k].insts
                      /\ x = <<2, k, j, v[k].insts[j]>>
      BY PlacesAre
    <2>2. x \in P /\ x[1] = 2 /\ x[2] = k /\ x[3] = j /\ x[4] = v[k].insts[j]
      BY <2>1
    <2>3. CASE k \in 1..L
      <3>1. v[k] = u[k] /\ k # L + 1
        BY <2>3
      <3>2. x \in InBuffer(u)
        BY <2>1, <2>3, <3>1, PlacesAre
      <3>3. m[x] = x
        BY <2>2, <3>1
      <3>4. QED  BY <2>2, <2>3, <3>2, <3>3
    <2>4. CASE k \notin 1..L
      <3>1. k = L + 1 /\ v[k].insts = insts
        BY <2>1, <2>4
      <3>2. m[x] = <<3, 0, x[3], x[4]>>
        BY <2>2, <3>1
      <3>3. QED  BY <2>1, <2>2, <3>1, <3>2
    <2>5. QED  BY <2>3, <2>4
  <1>4. ASSUME NEW x \in InCache(S)
        PROVE  InC(x)
    <2>1. PICK d, j : /\ d \in S /\ j \in DOMAIN d.insts
                      /\ x = <<3, d.id, j, d.insts[j]>>
      BY PlacesAre
    <2>2. PICK b \in R : d.id = b.id - 1 /\ d.insts = b.insts
      BY <2>1 DEF Shifted
    <2>3. x \in P /\ x[1] = 3 /\ x[2] = d.id /\ x[3] = j /\ x[4] = b.insts[j]
      BY <2>1, <2>2
    <2>4. m[x] = <<3, x[2] + 1, x[3], x[4]>>
      BY <2>3
    <2>5. x[2] \in Nat /\ x[2] + 1 = b.id
      BY <2>2, <2>3
    <2>6. m[x] = <<3, b.id, j, b.insts[j]>>
      BY <2>3, <2>4, <2>5
    <2>7. m[x] \in InCache(R)
      BY <2>1, <2>2, <2>6, PlacesAre
    <2>8. QED  BY <2>3, <2>4, <2>5, <2>7
  <1> HIDE DEF m
  <1>5. \A x \in P : InQ(x) \/ InU(x) \/ InN(x) \/ InC(x)
    BY <1>2, <1>3, <1>4
  <1>6. ASSUME NEW x \in P
        PROVE  m[x] \in O /\ m[x][4] = x[4]
    <2>1. CASE InQ(x) \/ InU(x)
      BY <2>1
    <2>2. CASE InN(x)
      <3>1. m[x] \in {<<3, 0, j, insts[j]>> : j \in DOMAIN insts}
        BY <2>2
      <3>2. m[x][4] = x[4]
        BY <2>2
      <3>3. QED  BY <3>1, <3>2
    <2>3. CASE InC(x)
      <3>1. m[x] \in O
        BY <2>3
      <3>2. m[x][4] = x[4]
        BY <2>3
      <3>3. QED  BY <3>1, <3>2
    <2>4. QED  BY <1>5, <2>1, <2>2, <2>3
  <1>7. ASSUME NEW x \in P, NEW y \in P, Before(x, y)
        PROVE  Before(m[x], m[y])
    <2> DEFINE From(z) ==
                 \/ z[1] = 1 /\ m[z][1] = 1 /\ m[z][2] = z[2] /\ m[z][3] = z[3]
                 \/ z[1] = 2 /\ z[2] \in 1..L /\ m[z][1] = 2 /\ m[z][2] = z[2] /\ m[z][3] = z[3]
                 \/ z[1] = 2 /\ z[2] = L + 1 /\ m[z][1] = 3 /\ m[z][2] = 0 /\ m[z][3] = z[3]
                 \/ z[1] = 3 /\ z[2] \in Nat /\ m[z][1] = 3 /\ m[z][2] = z[2] + 1 /\ m[z][3] = z[3]
    <2>1. ASSUME NEW z \in P
          PROVE  From(z)
      <3>1. CASE InQ(z) \/ InU(z)
        BY <3>1
      <3>2. CASE InN(z)
        BY <3>2
      <3>3. CASE InC(z)
        BY <3>3
      <3>4. QED  BY <1>5, <3>1, <3>2, <3>3
    <2>2. From(x) /\ From(y)
      BY <2>1
    <2>3. CASE x[1] = 1
      BY <1>7, <2>2, <2>3 DEF Before
    <2>4. CASE x[1] = 2 /\ x[2] \in 1..L
      BY <1>7, <2>2, <2>4 DEF Before
    <2>5. CASE x[1] = 2 /\ x[2] = L + 1
      BY <1>7, <2>2, <2>5 DEF Before
    <2>6. CASE x[1] = 3
      BY <1>7, <2>2, <2>6 DEF Before
    <2>7. QED  BY <2>2, <2>3, <2>4, <2>5, <2>6
  <1>8. ASSUME NEW y \in O
        PROVE  \E x \in P : m[x] = y
    <2>1. CASE y \in InQueue(q)
      <3>1. y \in P /\ m[y] = y
        BY <1>2, <2>1
      <3>2. QED  BY <3>1
    <2>2. CASE y \in InBuffer(u)
      <3>1. PICK k, j : /\ k \in 1..L /\ j \in DOMAIN u[k].insts
                        /\ y = <<2, k, j, u[k].insts[j]>>
        BY <2>2, PlacesAre
      <3>2. v[k] = u[k] /\ k \in DOMAIN v
        BY <3>1
      <3>3. y \in InBuffer(v)
        BY <3>1, <3>2, PlacesAre
      <3>4. y[1] = 2 /\ y[2] = k /\ k # L + 1
        BY <3>1
      <3>5. m[y] = y
        BY <1>3, <3>3, <3>4
      <3>6. QED  BY <3>3, <3>5
    <2>3. CASE y \in InCache(R)
      <3>1. PICK b, j : /\ b \in R /\ j \in DOMAIN b.insts
                        /\ y = <<3, b.id, j, b.insts[j]>>
        BY <2>3, PlacesAre
      <3>2. PICK d \in S : d.id = b.id - 1 /\ d.insts = b.insts
        BY <3>1 DEF Shifted
      <3>3. PICK x : x = <<3, d.id, j, d.insts[j]>>
        OBVIOUS
      <3>4. x \in InCache(S)
        BY <3>1, <3>2, <3>3, PlacesAre
      <3>5. m[x] = <<3, x[2] + 1, x[3], x[4]>>
        BY <1>4, <3>4
      <3>6. x[2] + 1 = b.id /\ x[3] = j /\ x[4] = b.insts[j]
        BY <3>1, <3>2, <3>3
      <3>7. m[x] = y
        BY <3>1, <3>5, <3>6
      <3>8. QED  BY <3>4, <3>7
    <2>4. CASE y \in {<<3, 0, j, insts[j]>> : j \in DOMAIN insts}
      <3>1. PICK j \in DOMAIN insts : y = <<3, 0, j, insts[j]>>
        BY <2>4
      <3>2. insts # << >>
        BY <3>1
      <3>3. L + 1 \in DOMAIN v /\ v[L + 1].insts = insts
        BY <3>2
      <3>4. PICK x : x = <<2, L + 1, j, insts[j]>>
        OBVIOUS
      <3>5. x \in InBuffer(v)
        BY <3>3, <3>4, PlacesAre
      <3>6. x[1] = 2 /\ x[2] = L + 1 /\ x[3] = j /\ x[4] = insts[j]
        BY <3>4
      <3>7. m[x] = <<3, 0, x[3], x[4]>>
        BY <1>3, <3>5, <3>6
      <3>8. m[x] = y
        BY <3>1, <3>6, <3>7
      <3>9. QED  BY <3>5, <3>8
    <2>5. QED  BY <2>1, <2>2, <2>3, <2>4
  <1>9. FollowsBy(O, P, m)
    BY <1>6, <1>7, <1>8 DEF FollowsBy
  <1>10. QED  BY <1>9 DEF Follows

\* From the back of a queue to the first instruction that is not transient.
LastReal(q, k) ==
  /\ k \in 0..Len(q) /\ (k # 0 => Real(q[k]))
  /\ \A j \in 1..Len(q) : k < j => ~Real(q[j])

Cut(q, k) == [j \in 1..k |-> IF j = k THEN transientsPopped(q[j]) ELSE q[j]]

\* The cut takes transient instructions only.
LEMMA CutDoes ==
  ASSUME NEW q \in Seq(Seq(Nat)), NEW k, LastReal(q, k), NEW t, t = Cut(q, k), NEW s
  PROVE  /\ t \in Seq(Seq(Nat)) /\ Len(t) = k
         /\ (\A j \in 1..Len(q) : q[j] # << >>) => \A j \in 1..k : t[j] # << >>
         /\ \A x \in InSeq(s, t) : x \in InSeq(s, q)
         /\ \A x \in InSeq(s, q) : x[4] # TRANSIENT => x \in InSeq(s, t)
  <1>1. k \in Nat /\ k <= Len(q) /\ Len(q) \in Nat
    BY DEF LastReal
  <1>2. \A j \in 1..k : q[j] \in Seq(Nat) /\ j \in 1..Len(q)
    BY <1>1
  <1>3. \A j \in 1..k : Popped(q[j], transientsPopped(q[j]))
    BY <1>2, TransientsPoppedDoes
  <1>4. /\ DOMAIN t = 1..k
        /\ \A j \in 1..k : t[j] = IF j = k THEN transientsPopped(q[j]) ELSE q[j]
    BY DEF Cut
  <1>5. \A j \in 1..k : t[j] \in Seq(Nat) /\ (q[j] # << >> => t[j] # << >>)
    <2>1. ASSUME NEW j \in 1..k
          PROVE  t[j] \in Seq(Nat) /\ (q[j] # << >> => t[j] # << >>)
      <3>1. CASE j = k
        <4>1. Real(q[k])
          BY <1>1, <3>1 DEF LastReal
        <4>2. Popped(q[k], t[k])
          BY <1>3, <1>4, <3>1
        <4>3. QED  BY <3>1, <4>1, <4>2 DEF Popped
      <3>2. CASE j # k
        BY <1>2, <1>4, <3>2
      <3>3. QED  BY <3>1, <3>2
    <2>2. QED  BY <2>1
  <1>6. t \in Seq(Seq(Nat)) /\ Len(t) = k
    <2>1. t \in [1..k -> Seq(Nat)]
      BY <1>4, <1>5 DEF Cut
    <2>2. QED  BY <1>1, <2>1
  <1>7. ASSUME NEW x \in InSeq(s, t)
        PROVE  x \in InSeq(s, q)
    <2>1. PICK h, j : h \in DOMAIN t /\ j \in DOMAIN t[h] /\ x = <<s, h, j, t[h][j]>>
      BY PlacesAre
    <2>2. h \in 1..k /\ h \in DOMAIN q
      BY <1>1, <1>4, <2>1
    <2>3. j \in DOMAIN q[h] /\ t[h][j] = q[h][j]
      <3>1. CASE h = k
        <4>1. Popped(q[h], t[h])
          BY <1>3, <1>4, <2>2, <3>1
        <4>2. t[h] \in Seq(Nat) /\ q[h] \in Seq(Nat)
          BY <1>2, <1>5, <2>2
        <4>3. j \in 1..Len(t[h])
          BY <2>1, <4>2
        <4>4. Len(t[h]) <= Len(q[h]) /\ t[h][j] = q[h][j]
          BY <4>1, <4>3 DEF Popped
        <4>5. PICK a \in Nat, b \in Nat : a = Len(t[h]) /\ b = Len(q[h]) /\ DOMAIN q[h] = 1..b
          BY <4>2
        <4>6. j \in 1..b
          BY <4>3, <4>4, <4>5
        <4>7. QED  BY <4>4, <4>5, <4>6
      <3>2. CASE h # k
        BY <1>4, <2>1, <2>2, <3>2
      <3>3. QED  BY <3>1, <3>2
    <2>4. QED  BY <2>1, <2>2, <2>3, PlacesAre
  <1>8. ASSUME NEW x \in InSeq(s, q), x[4] # TRANSIENT
        PROVE  x \in InSeq(s, t)
    <2>1. PICK h, j : h \in DOMAIN q /\ j \in DOMAIN q[h] /\ x = <<s, h, j, q[h][j]>>
      BY PlacesAre
    <2>2. q[h][j] # TRANSIENT /\ h \in 1..Len(q) /\ Real(q[h])
      BY <1>8, <2>1 DEF Real
    <2>3. h \in 1..k
      BY <1>1, <2>2 DEF LastReal
    <2>4. j \in DOMAIN t[h] /\ t[h][j] = q[h][j]
      <3>1. CASE h = k
        <4>1. Popped(q[h], t[h])
          BY <1>3, <1>4, <2>3, <3>1
        <4>2. t[h] \in Seq(Nat) /\ q[h] \in Seq(Nat)
          BY <1>2, <1>5, <2>3
        <4>3. j \in 1..Len(q[h])
          BY <2>1, <4>2
        <4>4. j \in 1..Len(t[h])
          BY <2>2, <4>1, <4>2, <4>3 DEF Popped
        <4>5. QED  BY <4>1, <4>2, <4>4 DEF Popped
      <3>2. CASE h # k
        BY <1>4, <2>1, <2>3, <3>2
      <3>3. QED  BY <3>1, <3>2
    <2>5. QED  BY <1>4, <2>1, <2>3, <2>4, PlacesAre
  <1>9. (\A j \in 1..Len(q) : q[j] # << >>) => \A j \in 1..k : t[j] # << >>
    BY <1>2, <1>5
  <1>10. QED  BY <1>6, <1>7, <1>8, <1>9

\* Behind an instruction of the wrong path there is no other: none is left.
LEMMA CutLeavesReal ==
  ASSUME NEW q \in Seq(Seq(Nat)), NEW k, LastReal(q, k), NEW s,
         NEW O, NEW lo, NEW hi, Kept(O, lo, hi), \A x \in InSeq(s, q) : x \in O
  PROVE  AllReal(InSeq(s, Cut(q, k)))
  <1>1. PICK t : t = Cut(q, k)
    OBVIOUS
  <1>2. SUFFICES ASSUME NEW x \in InSeq(s, t) PROVE x[4] # TRANSIENT
    BY <1>1 DEF AllReal
  <1>3. /\ t \in Seq(Seq(Nat)) /\ Len(t) = k
        /\ \A y \in InSeq(s, t) : y \in InSeq(s, q)
    BY <1>1, CutDoes
  <1>4. PICK h, j : h \in DOMAIN t /\ j \in DOMAIN t[h] /\ x = <<s, h, j, t[h][j]>>
    BY PlacesAre
  <1>5. h \in 1..k /\ k \in 1..Len(q) /\ Real(q[k]) /\ q[k] \in Seq(Nat) /\ t[h] \in Seq(Nat)
    BY <1>3, <1>4 DEF LastReal
  <1>6. t[k] = transientsPopped(q[k])
    BY <1>1, <1>5 DEF Cut
  <1>7. Popped(q[k], t[k])
    BY <1>5, <1>6, TransientsPoppedDoes
  <1>8. PICK l : l = Len(t[k])
    OBVIOUS
  <1>9. t[k] \in Seq(Nat) /\ l \in Nat \ {0} /\ t[k][l] # TRANSIENT
    BY <1>5, <1>7, <1>8 DEF Popped
  <1>10. PICK y : y = <<s, k, l, t[k][l]>>
    OBVIOUS
  <1>11. y \in InSeq(s, t) /\ y[4] # TRANSIENT
    <2>1. k \in DOMAIN t /\ l \in DOMAIN t[k]
      BY <1>3, <1>5, <1>8, <1>9
    <2>2. y \in InSeq(s, t)
      BY <1>10, <2>1, PlacesAre
    <2>3. QED  BY <1>9, <1>10, <2>2
  <1>12. x = y \/ Before(x, y)
    <2>1. /\ x[1] = s /\ x[2] = h /\ x[3] = j
          /\ y[1] = s /\ y[2] = k /\ y[3] = l
      BY <1>4, <1>10
    <2>2. j \in 1..Len(t[h])
      BY <1>4, <1>5
    <2>3. CASE h = k /\ j = l
      BY <1>4, <1>10, <2>3
    <2>4. CASE h = k /\ j # l
      <3>1. j < l
        BY <1>8, <1>9, <2>2, <2>4
      <3>2. QED  BY <2>1, <2>4, <3>1 DEF Before
    <2>5. CASE h # k
      <3>1. h < k
        BY <1>5, <2>5
      <3>2. QED  BY <2>1, <3>1 DEF Before
    <2>6. QED  BY <2>3, <2>4, <2>5
  <1>13. x \in O /\ y \in O
    BY <1>3, <1>11
  <1>14. QED  BY <1>11, <1>12, <1>13 DEF Kept

-----------------------------------------------------------------------------
(* The flushes of the wrong path.                                          *)

\* One bucket keeps its identifier and its age.
LEMMA ShortenedDoes ==
  /\ \A b \in InOrder : /\ shortened(b).insts = transientsPopped(b.insts)
                        /\ Real(b.insts) => shortened(b) \in InOrder
  /\ \A b \in Answered : /\ shortened(b) \in Answered /\ shortened(b).id = b.id
                         /\ shortened(b).insts = transientsPopped(b.insts)
  <1>1. ASSUME NEW b \in InOrder
        PROVE  /\ shortened(b).insts = transientsPopped(b.insts)
               /\ Real(b.insts) => shortened(b) \in InOrder
    <2>1. PICK t : t = transientsPopped(b.insts)
      OBVIOUS
    <2>2. shortened(b) = [b EXCEPT !.insts = t]
      BY <2>1 DEF shortened
    <2>3. b.insts \in Seq(Nat)
      BY DEF InOrder
    <2>4. t \in Seq(Nat) /\ (Real(b.insts) => t # << >>)
      BY <2>1, <2>3, TransientsPoppedDoes DEF Popped
    <2>5. QED  BY <2>1, <2>2, <2>4 DEF InOrder
  <1>2. ASSUME NEW b \in Answered
        PROVE  /\ shortened(b) \in Answered /\ shortened(b).id = b.id
               /\ shortened(b).insts = transientsPopped(b.insts)
    <2>1. PICK t : t = transientsPopped(b.insts)
      OBVIOUS
    <2>2. shortened(b) = [b EXCEPT !.insts = t]
      BY <2>1 DEF shortened
    <2>3. b.insts \in Seq(Nat)
      BY DEF Answered
    <2>4. t \in Seq(Nat)
      BY <2>1, <2>3, TransientsPoppedDoes DEF Popped
    <2>5. QED  BY <2>1, <2>2, <2>4 DEF Answered
  <1>3. QED  BY <1>1, <1>2

\* Pipeline::flush_transient_inst_from_buffer.
LEMMA FlushBufferDoes ==
  ASSUME NEW p, PipeType(p), NEW r, r = flush_transient_inst_from_buffer(p)
  PROVE  /\ PipeType(r) /\ r.nIRequests = p.nIRequests /\ r.max = p.max
         /\ r.inflight = p.inflight /\ r.received = p.received /\ r.flushed = p.flushed
         /\ r.pool + Len(r.buffer) = p.pool + Len(p.buffer)
         /\ \A x \in InBuffer(r.buffer) : x \in InBuffer(p.buffer)
         /\ \A x \in InBuffer(p.buffer) : x[4] # TRANSIENT => x \in InBuffer(r.buffer)
         /\ \A O, lo, hi : Kept(O, lo, hi) /\ (\A x \in InBuffer(p.buffer) : x \in O)
                             => AllReal(InBuffer(r.buffer))
  <1>1. PICK u : u = p.buffer /\ u \in Seq(InOrder)
    BY DEF PipeType
  <1> DEFINE v == Buffered(u)
             I == {j \in 1..Len(u) : Real(u[j].insts)}
  <1>2. PICK k : k = IF I # {} THEN Max(I) ELSE 0
    OBVIOUS
  <1> DEFINE w == [j \in 1..k |-> IF j = k THEN shortened(u[j]) ELSE u[j]]
  <1>3. r = [p EXCEPT !.pool = @ + Len(u) - k, !.buffer = w]
    BY <1>1, <1>2 DEF flush_transient_inst_from_buffer, SelectLastInSeq
  <1>4. /\ IsPipe(r) /\ r.nIRequests = p.nIRequests /\ r.max = p.max
        /\ r.inflight = p.inflight /\ r.received = p.received /\ r.flushed = p.flushed
        /\ r.pool = p.pool + Len(u) - k /\ r.buffer = w
    <2> HIDE DEF w
    <2>1. QED  BY <1>3 DEF PipeType, IsPipe
  <1>5. I \in SUBSET (1..Len(u)) /\ Len(u) \in Nat
    BY <1>1
  <1>6. k \in 0..Len(u) /\ (k # 0 => k \in I) /\ \A j \in I : j <= k
    <2> HIDE DEF I
    <2>1. QED  BY <1>2, <1>5, LastOf
  <1>7. \A j \in 1..Len(u) : u[j] \in InOrder /\ u[j].insts \in Seq(Nat)
    <2>1. \A b \in InOrder : b.insts \in Seq(Nat)
      BY DEF InOrder
    <2>2. \A j \in 1..Len(u) : u[j] \in InOrder
      BY <1>1
    <2>3. QED  BY <2>1, <2>2
  <1>8. /\ v \in Seq(Seq(Nat)) /\ Len(v) = Len(u)
        /\ \A j \in 1..Len(u) : v[j] = u[j].insts
    <2>1. v = [j \in 1..Len(u) |-> u[j].insts]
      BY <1>1 DEF Buffered
    <2> HIDE DEF v
    <2>2. v \in [1..Len(u) -> Seq(Nat)]
      BY <1>7, <2>1
    <2>3. QED  BY <1>5, <2>1, <2>2
  <1>9. LastReal(v, k)
    <2> HIDE DEF v
    <2>1. k \in 0..Len(v)
      BY <1>6, <1>8
    <2>2. k # 0 => Real(v[k])
      BY <1>6, <1>8
    <2>3. \A j \in 1..Len(v) : k < j => ~Real(v[j])
      BY <1>5, <1>6, <1>8
    <2>4. QED  BY <2>1, <2>2, <2>3 DEF LastReal
  <1>10. /\ DOMAIN w = 1..k
         /\ \A j \in 1..k : w[j] \in InOrder
         /\ \A j \in 1..k : w[j].insts = IF j = k THEN transientsPopped(v[j]) ELSE v[j]
    <2>1. ASSUME NEW j \in 1..k
          PROVE  w[j] \in InOrder /\ w[j].insts = IF j = k THEN transientsPopped(v[j]) ELSE v[j]
      <3>1. j \in 1..Len(u) /\ u[j] \in InOrder /\ v[j] = u[j].insts
        <4> HIDE DEF v
        <4>1. QED  BY <1>6, <1>7, <1>8
      <3> HIDE DEF v
      <3>2. CASE j = k
        <4>1. w[j] = shortened(u[j]) /\ Real(u[j].insts)
          BY <1>6, <3>2
        <4>2. QED  BY <3>1, <3>2, <4>1, ShortenedDoes
      <3>3. CASE j # k
        <4>1. w[j] = u[j]
          BY <3>3
        <4>2. QED  BY <3>1, <3>3, <4>1
      <3>4. QED  BY <3>2, <3>3
    <2>2. QED  BY <2>1
  <1>11. Buffered(w) = Cut(v, k)
    <2> HIDE DEF w, v
    <2>1. Buffered(w) = [j \in 1..k |-> w[j].insts]
      BY <1>10 DEF Buffered
    <2>2. QED  BY <1>10, <2>1 DEF Cut
  <1>12. w \in Seq(InOrder) /\ Len(w) = k
    <2>1. w \in [1..k -> InOrder]
      BY <1>10
    <2> HIDE DEF w
    <2>2. QED  BY <1>6, <2>1
  <1> HIDE DEF w, v
  <1>13. PipeType(r)
    BY <1>4, <1>5, <1>6, <1>12 DEF PipeType
  <1>14. r.pool + Len(r.buffer) = p.pool + Len(p.buffer)
    <2>1. PICK n1 \in Nat, n2 \in Int : n1 = Len(u) /\ n2 = p.pool
      BY <1>5 DEF PipeType
    <2>2. Len(r.buffer) = k /\ r.pool = n2 + n1 - k /\ Len(p.buffer) = n1
      BY <1>1, <1>4, <1>12, <2>1
    <2>3. k \in Int /\ n2 + n1 - k + k = n2 + n1
      BY <1>6, <2>1
    <2>4. QED  BY <2>1, <2>2, <2>3
  <1>15. InBuffer(r.buffer) = InSeq(2, Cut(v, k)) /\ InBuffer(p.buffer) = InSeq(2, v)
    BY <1>1, <1>4, <1>11 DEF InBuffer, v
  <1>16. /\ \A x \in InBuffer(r.buffer) : x \in InBuffer(p.buffer)
         /\ \A x \in InBuffer(p.buffer) : x[4] # TRANSIENT => x \in InBuffer(r.buffer)
    BY <1>8, <1>9, <1>15, CutDoes
  <1>17. ASSUME NEW O, NEW lo, NEW hi, Kept(O, lo, hi), \A x \in InBuffer(p.buffer) : x \in O
         PROVE  AllReal(InBuffer(r.buffer))
    <2>1. \A x \in InSeq(2, v) : x \in O
      BY <1>15, <1>17
    <2>2. AllReal(InSeq(2, Cut(v, k)))
      BY <1>8, <1>9, <1>17, <2>1, CutLeavesReal
    <2>3. QED  BY <1>15, <2>2
  <1>18. QED  BY <1>4, <1>13, <1>14, <1>16, <1>17

\* The bucket all the others wait for is on its way from the cache.
Settled(p) == 0 \notin Ids(p.received) \cup p.flushed

\* Pipeline::flush_transient_inst_from_received_bucket: an empty bucket is freed, its
\* identifier kept for clearItems.
LEMMA FlushReceivedDoes ==
  ASSUME NEW p, PipeType(p), NEW T, Owned(p, T),
         NEW r, r = flush_transient_inst_from_received_bucket(p)
  PROVE  /\ PipeType(r) /\ Owned(r, T) /\ (Settled(p) => Settled(r))
         /\ r.nIRequests = p.nIRequests /\ r.max = p.max
         /\ r.inflight = p.inflight /\ r.buffer = p.buffer
         /\ r.pool + Cardinality(r.received) = p.pool + Cardinality(p.received)
         /\ \A x \in InCache(r.received) : x \in InCache(p.received)
         /\ \A x \in InCache(p.received) : x[4] # TRANSIENT => x \in InCache(r.received)
         /\ \A O, lo, hi : Kept(O, lo, hi) /\ (\A x \in InCache(p.received) : x \in O)
                             => AllReal(InCache(r.received))
  <1>1. PICK S : S = p.received
    OBVIOUS
  <1> DEFINE E == {b \in S : ~Real(b.insts)}
             R == S \ E
             N == {shortened(b) : b \in R}
  <1>2. r = [p EXCEPT !.pool = @ + Cardinality(E), !.flushed = @ \cup {b.id : b \in E},
                      !.received = N]
    BY <1>1 DEF flush_transient_inst_from_received_bucket
  <1>3. /\ IsPipe(r) /\ r.nIRequests = p.nIRequests /\ r.max = p.max
        /\ r.inflight = p.inflight /\ r.buffer = p.buffer
        /\ r.pool = p.pool + Cardinality(E) /\ r.flushed = p.flushed \cup {b.id : b \in E}
        /\ r.received = N
    <2> HIDE DEF E, N
    <2>1. QED  BY <1>2 DEF PipeType, IsPipe
  <1>4. S \in SUBSET Answered /\ IsFiniteSet(S) /\ UniqueIds(S)
    BY <1>1 DEF PipeType
  <1>5. R \in SUBSET Answered /\ UniqueIds(R) /\ \A b \in R : Real(b.insts)
    BY <1>4 DEF UniqueIds
  <1>6. \A b \in S : b.id \in Int /\ b.insts \in Seq(Nat)
    BY <1>4 DEF Answered
  <1>7. /\ IsFiniteSet(E) /\ IsFiniteSet(R)
        /\ Cardinality(E) \in Nat /\ Cardinality(R) \in Nat /\ Cardinality(S) \in Nat
        /\ Cardinality(R) = Cardinality(S) - Cardinality(E)
    <2>1. E \in SUBSET S /\ S \cap E = E
      OBVIOUS
    <2> HIDE DEF E
    <2>2. IsFiniteSet(E)
      BY <1>4, <2>1, FS_Subset
    <2>3. IsFiniteSet(R) /\ Cardinality(R) = Cardinality(S) - Cardinality(E)
      BY <1>4, <2>1, FS_Difference
    <2>4. QED  BY <1>4, <2>2, <2>3, FS_CardinalityType
  <1>8. \A b \in R : /\ shortened(b) \in Answered /\ shortened(b).id = b.id
                     /\ shortened(b).insts = transientsPopped(b.insts)
                     /\ Popped(b.insts, shortened(b).insts)
    <2> HIDE DEF R
    <2>1. \A b \in R : b \in Answered /\ b.insts \in Seq(Nat)
      BY <1>5 DEF Answered
    <2>2. QED  BY <2>1, ShortenedDoes, TransientsPoppedDoes
  <1>9. IsFiniteSet(N) /\ Cardinality(N) = Cardinality(R) /\ UniqueIds(N)
    <2> DEFINE F == [b \in R |-> shortened(b)]
    <2>1. \A b \in R : F[b] = shortened(b)
      OBVIOUS
    <2> HIDE DEF F
    <2>2. N = {F[b] : b \in R}
      BY <2>1
    <2> HIDE DEF N, R
    <2>3. \A b, c \in R : F[b].id = F[c].id => b.id = c.id
      BY <1>8, <2>1
    <2>4. QED  BY <1>5, <1>7, <2>2, <2>3, Renamed
  <1>10. N \in SUBSET Answered /\ Ids(N) = Ids(R)
    <2> HIDE DEF R
    <2>1. QED  BY <1>8 DEF Ids
  <1>11. PipeType(r)
    <2>1. {b.id : b \in E} \in SUBSET Int
      BY <1>6
    <2> HIDE DEF N, E
    <2>2. r.flushed \in SUBSET Int /\ r.pool \in Int
      BY <1>3, <1>7, <2>1 DEF PipeType
    <2>3. QED  BY <1>3, <1>9, <1>10, <2>2 DEF PipeType
  <1>12. r.pool + Cardinality(r.received) = p.pool + Cardinality(p.received)
    <2> HIDE DEF N, E, R
    <2>1. PICK n1 \in Nat, n2 \in Nat, n3 \in Nat, n4 \in Int :
             n1 = Cardinality(E) /\ n2 = Cardinality(R) /\ n3 = Cardinality(S) /\ n4 = p.pool
      BY <1>7 DEF PipeType
    <2>2. r.pool = n4 + n1 /\ Cardinality(r.received) = n2 /\ Cardinality(p.received) = n3
          /\ n2 = n3 - n1
      BY <1>1, <1>3, <1>7, <1>9, <2>1
    <2>3. QED  BY <2>1, <2>2
  <1>13. Owned(r, T) /\ (Settled(p) => Settled(r))
    <2>1. Ids(S) = Ids(R) \cup Ids(E) /\ Ids(R) \cap Ids(E) = {}
      BY <1>4 DEF Ids, UniqueIds
    <2> HIDE DEF N, E, R
    <2>2. /\ Ids(r.received) = Ids(R) /\ r.flushed = p.flushed \cup Ids(E)
          /\ Ids(r.inflight) = Ids(p.inflight) /\ Ids(p.received) = Ids(S)
      BY <1>1, <1>3, <1>10 DEF Ids
    <2>3. Owned(r, T)
      BY <2>1, <2>2 DEF Owned
    <2>4. QED  BY <2>1, <2>2, <2>3 DEF Settled
  <1>14. ASSUME NEW x \in InCache(N)
         PROVE  x \in InCache(S)
    <2>1. PICK d, j : d \in N /\ j \in DOMAIN d.insts /\ x = <<3, d.id, j, d.insts[j]>>
      BY PlacesAre
    <2>2. PICK b \in R : d = shortened(b)
      BY <2>1
    <2>3. b \in S /\ b.insts \in Seq(Nat)
      BY <1>6
    <2> HIDE DEF R, N
    <2>4. d.id = b.id /\ Popped(b.insts, d.insts)
      BY <1>8, <2>2
    <2>5. j \in 1..Len(d.insts)
      BY <2>1, <2>4 DEF Popped
    <2>6. j \in DOMAIN b.insts /\ d.insts[j] = b.insts[j]
      BY <2>3, <2>4, <2>5 DEF Popped
    <2>7. QED  BY <2>1, <2>3, <2>4, <2>6, PlacesAre
  <1>15. ASSUME NEW x \in InCache(S), x[4] # TRANSIENT
         PROVE  x \in InCache(N)
    <2>1. PICK b, j : b \in S /\ j \in DOMAIN b.insts /\ x = <<3, b.id, j, b.insts[j]>>
      BY PlacesAre
    <2>2. b.insts[j] # TRANSIENT /\ b.insts \in Seq(Nat)
      BY <1>6, <1>15, <2>1
    <2>3. b \in R
      BY <2>1, <2>2 DEF Real
    <2>4. PICK d \in N : d = shortened(b)
      BY <2>3
    <2> HIDE DEF R, N
    <2>5. d.id = b.id /\ Popped(b.insts, d.insts)
      BY <1>8, <2>3, <2>4
    <2>6. j \in 1..Len(b.insts) /\ d.insts \in Seq(Nat)
      BY <2>1, <2>2, <2>5 DEF Popped
    <2>7. j \in 1..Len(d.insts)
      BY <2>2, <2>5, <2>6 DEF Popped
    <2>8. j \in DOMAIN d.insts /\ d.insts[j] = b.insts[j]
      BY <2>5, <2>6, <2>7 DEF Popped
    <2>9. QED  BY <2>1, <2>5, <2>8, PlacesAre
  <1>16. ASSUME NEW O, NEW lo, NEW hi, Kept(O, lo, hi), \A x \in InCache(S) : x \in O
         PROVE  AllReal(InCache(N))
    <2>1. SUFFICES ASSUME NEW x \in InCache(N) PROVE x[4] # TRANSIENT
      BY DEF AllReal
    <2>2. PICK d, j : d \in N /\ j \in DOMAIN d.insts /\ x = <<3, d.id, j, d.insts[j]>>
      BY PlacesAre
    <2>3. PICK b \in R : d = shortened(b)
      BY <2>2
    <2> HIDE DEF R, N
    <2>4. d.insts \in Seq(Nat) /\ Real(b.insts) /\ Popped(b.insts, d.insts)
      BY <1>5, <1>8, <2>3 DEF Popped
    <2>5. PICK l : l = Len(d.insts)
      OBVIOUS
    <2>6. l \in Nat \ {0} /\ l \in DOMAIN d.insts /\ d.insts[l] # TRANSIENT
      BY <2>4, <2>5 DEF Popped
    <2>7. PICK y : y = <<3, d.id, l, d.insts[l]>>
      OBVIOUS
    <2>8. y \in InCache(N) /\ y[4] # TRANSIENT
      <3>1. y \in InCache(N)
        BY <2>2, <2>6, <2>7, PlacesAre
      <3>2. QED  BY <2>6, <2>7, <3>1
    <2>9. x = y \/ Before(x, y)
      <3>1. j \in 1..l
        BY <2>2, <2>4, <2>5
      <3>2. CASE j = l
        BY <2>2, <2>7, <3>2
      <3>3. CASE j # l
        <4>1. j < l
          BY <2>6, <3>1, <3>3
        <4>2. x[1] = y[1] /\ x[2] = y[2] /\ x[3] = j /\ y[3] = l
          BY <2>2, <2>7
        <4>3. QED  BY <4>1, <4>2 DEF Before
      <3>4. QED  BY <3>2, <3>3
    <2>10. x \in O /\ y \in O
      BY <1>14, <1>16, <2>8
    <2>11. QED  BY <1>16, <2>8, <2>9, <2>10 DEF Kept
  <1>17. QED
    <2>1. InCache(r.received) = InCache(N) /\ InCache(p.received) = InCache(S)
      BY <1>1, <1>3
    <2> HIDE DEF N
    <2>2. QED  BY <1>3, <1>11, <1>12, <1>13, <1>14, <1>15, <1>16, <2>1

-----------------------------------------------------------------------------
(* Buckets in turn: readyItem and clearItems.                              *)

PipeInv(p) == PipeType(p) /\ p.max \in Nat /\ Owned(p, 0..(p.max - 1))

\* The instructions of the bucket whose turn it is.
First(insts) == {<<3, 0, j, insts[j]>> : j \in DOMAIN insts}

\* served and entered: the bucket b, taken out of p, is the next in order.
Turned(p, b, r) ==
  /\ PipeInv(r) /\ r.max = p.max - 1 /\ r.nIRequests = p.nIRequests
  /\ Asks(r) = Asks(p) /\ Buckets(r) = Buckets(p) + 1
  /\ \A q : Follows(Placed(q, p) \cup First(b.insts), Placed(q, r))

\* The next bucket enters the buffer, or is done at once.
LEMMA TakesTurn ==
  ASSUME NEW p, PipeType(p), NEW m \in Nat \ {0}, m = p.max, Owned(p, 1..(m - 1)),
         NEW b, b.insts \in Seq(Nat), b.age \in Nat, NEW r, r = entered(served(p), b)
  PROVE  Turned(p, b, r)
  <1>1. PICK s : s = served(p)
    OBVIOUS
  <1>2. /\ PipeType(s) /\ s.max = m - 1 /\ Owned(s, 0..(m - 2))
        /\ s.pool = p.pool /\ s.nIRequests = p.nIRequests /\ s.buffer = p.buffer
        /\ Cardinality(s.inflight) = Cardinality(p.inflight)
        /\ Cardinality(s.received) = Cardinality(p.received)
        /\ Shifted(p.inflight, s.inflight) /\ Shifted(p.received, s.received)
    BY <1>1, ServedDoes
  <1>3. PICK i : i = b.insts /\ i \in Seq(Nat)
    OBVIOUS
  <1>4. PICK u : u = p.buffer /\ u \in Seq(InOrder)
    BY DEF PipeType
  <1>5. PICK g : g = [insts |-> i, age |-> b.age]
    OBVIOUS
  <1>6. /\ IsPipe(r) /\ r.max = s.max /\ r.nIRequests = s.nIRequests
        /\ r.inflight = s.inflight /\ r.received = s.received /\ r.flushed = s.flushed
        /\ r.pool = s.pool + (IF i = << >> THEN 1 ELSE 0)
        /\ r.buffer = IF i = << >> THEN u ELSE Append(u, g)
    <2>1. CASE i = << >>
      <3>1. r = [s EXCEPT !.pool = @ + 1]
        BY <1>1, <1>3, <2>1 DEF entered, doneItem
      <3>2. QED  BY <1>2, <1>4, <2>1, <3>1 DEF PipeType, IsPipe
    <2>2. CASE i # << >>
      <3>1. r = [s EXCEPT !.buffer = Append(u, g)]
        BY <1>1, <1>2, <1>3, <1>4, <1>5, <2>2 DEF entered
      <3>2. s.pool + 0 = s.pool
        BY <1>2 DEF PipeType
      <3>3. QED  BY <1>2, <2>2, <3>1, <3>2 DEF PipeType, IsPipe
    <2>3. QED  BY <2>1, <2>2
  <1>7. /\ i # << >> => g \in InOrder
        /\ r.buffer \in Seq(InOrder)
        /\ Len(r.buffer) = Len(u) + (IF i = << >> THEN 0 ELSE 1)
    <2>1. i # << >> => g \in InOrder
      BY <1>3, <1>5 DEF InOrder
    <2>2. CASE i = << >>
      BY <1>4, <1>6, <2>1, <2>2
    <2>3. CASE i # << >>
      <3>1. r.buffer = Append(u, g) /\ g \in InOrder
        BY <1>6, <2>1, <2>3
      <3>2. r.buffer \in Seq(InOrder) /\ Len(r.buffer) = Len(u) + 1
        BY <1>4, <3>1
      <3>3. QED  BY <2>1, <2>3, <3>2
    <2>4. QED  BY <2>2, <2>3
  <1>8. PipeType(r)
    <2>1. r.pool \in Int
      BY <1>2, <1>6 DEF PipeType
    <2>2. QED  BY <1>2, <1>6, <1>7, <2>1 DEF PipeType
  <1>9. PipeInv(r)
    <2>1. Owned(r, 0..(m - 2))
      BY <1>2, <1>6 DEF Owned
    <2>2. r.max = m - 1 /\ r.max - 1 = m - 2 /\ r.max \in Nat
      BY <1>2, <1>6
    <2>3. QED  BY <1>8, <2>1, <2>2 DEF PipeInv
  <1>10. Asks(r) = Asks(p) /\ Buckets(r) = Buckets(p) + 1
    <2>1. PICK n1 \in Nat, n2 \in Nat, n3 \in Nat, n4 \in Int :
             n1 = Cardinality(p.inflight) /\ n2 = Cardinality(p.received) /\ n3 = Len(u)
               /\ n4 = p.pool
      <3>1. Cardinality(p.inflight) \in Nat /\ Cardinality(p.received) \in Nat
        BY FS_CardinalityType DEF PipeType
      <3>2. Len(u) \in Nat /\ p.pool \in Int
        BY <1>4 DEF PipeType
      <3>3. QED  BY <3>1, <3>2
    <2>2. /\ Cardinality(r.inflight) = n1 /\ Cardinality(r.received) = n2
          /\ r.pool = n4 + (IF i = << >> THEN 1 ELSE 0)
          /\ Len(r.buffer) = n3 + (IF i = << >> THEN 0 ELSE 1) /\ Len(p.buffer) = n3
      BY <1>2, <1>4, <1>6, <1>7, <2>1
    <2>3. r.pool + n1 + n2 + Len(r.buffer) = n4 + n1 + n2 + n3 + 1
      BY <2>1, <2>2
    <2>4. QED  BY <1>2, <1>6, <2>1, <2>2, <2>3 DEF Asks, Buckets
  <1>11. ASSUME NEW q
         PROVE  Follows(Placed(q, p) \cup First(b.insts), Placed(q, r))
    <2> DEFINE R == p.received \cup p.inflight
               S == r.received \cup r.inflight
               v == r.buffer
               L == Len(u)
    <2>1. L \in Nat /\ DOMAIN u = 1..L
      BY <1>4
    <2>2. \/ i = << >> /\ v = u
          \/ /\ DOMAIN v = 1..(L + 1) /\ v[L + 1] = [insts |-> i, age |-> b.age]
             /\ \A k \in 1..L : v[k] = u[k]
      <3>1. CASE i = << >>
        BY <1>6, <3>1
      <3>2. CASE i # << >>
        <4>1. v = Append(u, g)
          BY <1>6, <3>2
        <4>2. DOMAIN v = 1..(L + 1) /\ v[L + 1] = g /\ \A k \in 1..L : v[k] = u[k]
          BY <1>4, <2>1, <4>1
        <4>3. QED  BY <1>5, <4>2
      <3>3. QED  BY <3>1, <3>2
    <2>3. \A c \in R : c.id \in Nat \ {0}
      <3>1. \A c \in R : c.id \in Ids(p.received) \cup Ids(p.inflight)
        BY DEF Ids
      <3>2. \A x \in 1..(m - 1) : x \in Nat \ {0}
        OBVIOUS
      <3>3. QED  BY <3>1, <3>2 DEF Owned
    <2>4. Shifted(R, S)
      BY <1>2, <1>6 DEF Shifted
    <2>5. PICK O, P : /\ O = InQueue(q) \cup InBuffer(u) \cup InCache(R)
                               \cup {<<3, 0, j, i[j]>> : j \in DOMAIN i}
                      /\ P = InQueue(q) \cup InBuffer(v) \cup InCache(S)
      OBVIOUS
    <2>6. O = Placed(q, p) \cup First(b.insts) /\ P = Placed(q, r)
      BY <1>3, <1>4, <2>5 DEF Placed, First
    <2> HIDE DEF R, S, v, L
    <2>7. Follows(O, P)
      BY <1>3, <2>1, <2>2, <2>3, <2>4, <2>5, MovedUp
    <2>8. QED  BY <2>6, <2>7
  <1>12. QED  BY <1>2, <1>6, <1>9, <1>10, <1>11 DEF Turned

\* r has the buckets, the requests and the instructions of p.
Steps(p, r) ==
  /\ PipeInv(r) /\ Asks(r) = Asks(p) /\ Buckets(r) = Buckets(p)
  /\ \A q : Follows(Placed(q, p), Placed(q, r))

\* Steps compose.
LEMMA StepsOn ==
  ASSUME NEW p, NEW r, NEW s, Steps(p, r), Steps(r, s)
  PROVE  Steps(p, s)
  <1>1. \A q : Follows(Placed(q, p), Placed(q, s))
    BY FollowsOn DEF Steps
  <1>2. QED  BY <1>1 DEF Steps

\* Nothing happens.
LEMMA StaysPut ==
  ASSUME NEW p, PipeInv(p)
  PROVE  Steps(p, p)
  <1>1. \A q : Follows(Placed(q, p), Placed(q, p))
    BY Trimmed
  <1>2. QED  BY <1>1 DEF Steps

\* The flush of the buffer is a step.
LEMMA FlushBufferSteps ==
  ASSUME NEW p, PipeInv(p), NEW r, r = flush_transient_inst_from_buffer(p)
  PROVE  Steps(p, r) /\ r.max = p.max /\ (Settled(p) => Settled(r))
  <1>1. /\ PipeType(r) /\ r.nIRequests = p.nIRequests /\ r.max = p.max
        /\ r.inflight = p.inflight /\ r.received = p.received /\ r.flushed = p.flushed
        /\ r.pool + Len(r.buffer) = p.pool + Len(p.buffer)
        /\ \A x \in InBuffer(r.buffer) : x \in InBuffer(p.buffer)
        /\ \A x \in InBuffer(p.buffer) : x[4] # TRANSIENT => x \in InBuffer(r.buffer)
    BY FlushBufferDoes DEF PipeInv
  <1>2. PipeInv(r)
    BY <1>1 DEF PipeInv, Owned
  <1>3. Asks(r) = Asks(p)
    BY <1>1 DEF Asks
  <1>4. Buckets(r) = Buckets(p)
    <2>1. PICK n1 \in Nat, n2 \in Nat : n1 = Cardinality(p.inflight) /\ n2 = Cardinality(p.received)
      BY FS_CardinalityType DEF PipeInv, PipeType
    <2>2. PICK n3 \in Nat, n4 \in Int : n3 = Len(p.buffer) /\ n4 = p.pool
      BY DEF PipeInv, PipeType
    <2>3. PICK n5 \in Nat, n6 \in Int : n5 = Len(r.buffer) /\ n6 = r.pool
      BY <1>1 DEF PipeType
    <2>4. n6 + n1 + n2 + n5 = n4 + n1 + n2 + n3
      <3>1. n6 + n5 = n4 + n3
        BY <1>1, <2>2, <2>3
      <3>2. QED  BY <3>1
    <2>5. QED  BY <1>1, <2>1, <2>2, <2>3, <2>4 DEF Buckets
  <1>5. ASSUME NEW q
        PROVE  Follows(Placed(q, p), Placed(q, r))
    <2>1. PICK O, P : O = Placed(q, p) /\ P = Placed(q, r)
      OBVIOUS
    <2>2. (\A x \in P : x \in O) /\ \A x \in O : x[4] # TRANSIENT => x \in P
      BY <1>1, <2>1 DEF Placed
    <2>3. QED  BY <2>1, <2>2, Trimmed
  <1>6. QED  BY <1>1, <1>2, <1>3, <1>4, <1>5 DEF Steps, Settled

\* The identifier whose turn it is was flushed.
LEMMA SkipSteps ==
  ASSUME NEW p, PipeInv(p), 0 \in p.flushed, NEW r, r = served([p EXCEPT !.flushed = @ \ {0}])
  PROVE  Steps(p, r) /\ r.max = p.max - 1
  <1>1. PICK s : s = [p EXCEPT !.flushed = @ \ {0}]
    OBVIOUS
  <1>2. /\ IsPipe(s) /\ s.max = p.max /\ s.nIRequests = p.nIRequests /\ s.pool = p.pool
        /\ s.inflight = p.inflight /\ s.received = p.received /\ s.buffer = p.buffer
        /\ s.flushed = p.flushed \ {0}
    BY <1>1 DEF PipeInv, PipeType, IsPipe
  <1>3. PipeType(s)
    BY <1>2 DEF PipeInv, PipeType
  <1>4. PICK m \in Nat : m = p.max
    BY DEF PipeInv
  <1>5. /\ Ids(p.inflight) \cup Ids(p.received) \cup p.flushed = 0..(m - 1)
        /\ Ids(p.inflight) \cap Ids(p.received) = {}
        /\ Ids(p.inflight) \cap p.flushed = {}
        /\ Ids(p.received) \cap p.flushed = {}
    BY <1>4 DEF PipeInv, Owned
  <1>6. m # 0 /\ 1..(m - 1) = (0..(m - 1)) \ {0}
    <2>1. 0 \in 0..(m - 1)
      BY <1>5
    <2>2. QED  BY <2>1
  <1>7. Owned(s, 1..(m - 1))
    BY <1>2, <1>5, <1>6 DEF Owned
  <1>8. /\ PipeType(r) /\ r.max = m - 1 /\ Owned(r, 0..(m - 2))
        /\ r.pool = s.pool /\ r.nIRequests = s.nIRequests /\ r.buffer = s.buffer
        /\ Cardinality(r.inflight) = Cardinality(s.inflight)
        /\ Cardinality(r.received) = Cardinality(s.received)
        /\ Shifted(s.inflight, r.inflight) /\ Shifted(s.received, r.received)
    <2>1. r = served(s) /\ m = s.max
      BY <1>1, <1>2, <1>4
    <2>2. QED  BY <1>3, <1>7, <2>1, ServedDoes
  <1>9. PipeInv(r)
    <2>1. r.max - 1 = m - 2 /\ r.max \in Nat
      BY <1>6, <1>8
    <2>2. QED  BY <1>8, <2>1 DEF PipeInv
  <1>10. Asks(r) = Asks(p) /\ Buckets(r) = Buckets(p)
    BY <1>2, <1>8 DEF Asks, Buckets
  <1>11. ASSUME NEW q
         PROVE  Follows(Placed(q, p), Placed(q, r))
    <2> DEFINE R == p.received \cup p.inflight
               S == r.received \cup r.inflight
    <2>1. PICK u : u = p.buffer /\ u \in Seq(InOrder)
      BY DEF PipeInv, PipeType
    <2>2. PICK L \in Nat : DOMAIN u = 1..L
      BY <2>1
    <2>3. \A c \in R : c.id \in Nat \ {0}
      <3>1. \A c \in R : c.id \in Ids(s.received) \cup Ids(s.inflight)
        BY <1>2 DEF Ids
      <3>2. \A x \in 1..(m - 1) : x \in Nat \ {0}
        OBVIOUS
      <3>3. QED  BY <1>7, <3>1, <3>2 DEF Owned
    <2>4. Shifted(R, S)
      <3>1. Shifted(p.inflight, r.inflight) /\ Shifted(p.received, r.received)
        BY <1>2, <1>8
      <3>2. QED  BY <3>1, ShiftedUnion
    <2>5. PICK i : i = << >> /\ i \in Seq(Nat)
      <3>1. << >> \in Seq(Nat)
        OBVIOUS
      <3>2. QED  BY <3>1
    <2>6. PICK O, P : /\ O = InQueue(q) \cup InBuffer(u) \cup InCache(R)
                               \cup {<<3, 0, j, i[j]>> : j \in DOMAIN i}
                      /\ P = InQueue(q) \cup InBuffer(u) \cup InCache(S)
      OBVIOUS
    <2>7. {<<3, 0, j, i[j]>> : j \in DOMAIN i} = {}
      BY <2>5
    <2>8. O = Placed(q, p) /\ P = Placed(q, r)
      BY <1>2, <1>8, <2>1, <2>6, <2>7 DEF Placed
    <2> HIDE DEF R, S
    <2>9. Follows(O, P)
      BY <2>2, <2>3, <2>4, <2>5, <2>6, MovedUp
    <2>10. QED  BY <2>8, <2>9
  <1>12. QED  BY <1>4, <1>8, <1>9, <1>10, <1>11 DEF Steps

\* The places in the cache, of buckets together and of the first one.
LEMMA InCacheUnion ==
  /\ \A S, T : InCache(S \cup T) = InCache(S) \cup InCache(T)
  /\ \A b : b.id = 0 => InCache({b}) = First(b.insts)
  <1>1. \A S, T : InCache(S \cup T) = InCache(S) \cup InCache(T)
    BY PlacesAre
  <1>2. ASSUME NEW b, b.id = 0
        PROVE  InCache({b}) = First(b.insts)
    BY <1>2 DEF InCache, First
  <1>3. QED  BY <1>1, <1>2

\* The bucket whose turn it is came before the others were served.
LEMMA EnterSteps ==
  ASSUME NEW p, PipeInv(p), NEW b \in p.received, b.id = 0,
         NEW r, r = entered(served([p EXCEPT !.received = @ \ {b}]), b)
  PROVE  Steps(p, r) /\ r.max = p.max - 1
  <1>1. PICK s : s = [p EXCEPT !.received = @ \ {b}]
    OBVIOUS
  <1>2. /\ IsPipe(s) /\ s.max = p.max /\ s.nIRequests = p.nIRequests /\ s.pool = p.pool
        /\ s.inflight = p.inflight /\ s.received = p.received \ {b} /\ s.buffer = p.buffer
        /\ s.flushed = p.flushed
    BY <1>1 DEF PipeInv, PipeType, IsPipe
  <1>3. /\ p.received \in SUBSET Answered /\ IsFiniteSet(p.received) /\ UniqueIds(p.received)
    BY DEF PipeInv, PipeType
  <1>4. /\ IsFiniteSet(s.received) /\ Cardinality(s.received) = Cardinality(p.received) - 1
    BY <1>2, <1>3, FS_RemoveElement
  <1>5. PipeType(s)
    <2>1. UniqueIds(s.received) /\ s.received \in SUBSET Answered
      BY <1>2, <1>3 DEF UniqueIds
    <2>2. QED  BY <1>2, <1>4, <2>1 DEF PipeInv, PipeType
  <1>6. PICK m \in Nat : m = p.max
    BY DEF PipeInv
  <1>7. /\ Ids(p.inflight) \cup Ids(p.received) \cup p.flushed = 0..(m - 1)
        /\ Ids(p.inflight) \cap Ids(p.received) = {}
        /\ Ids(p.inflight) \cap p.flushed = {}
        /\ Ids(p.received) \cap p.flushed = {}
    BY <1>6 DEF PipeInv, Owned
  <1>8. 0 \in Ids(p.received) /\ Ids(s.received) = Ids(p.received) \ {0}
    BY <1>2, <1>3 DEF Ids, UniqueIds
  <1>9. m # 0 /\ 1..(m - 1) = (0..(m - 1)) \ {0}
    <2>1. 0 \in 0..(m - 1)
      BY <1>7, <1>8
    <2>2. QED  BY <2>1
  <1>10. Owned(s, 1..(m - 1))
    BY <1>2, <1>7, <1>8, <1>9 DEF Owned
  <1>11. b.insts \in Seq(Nat) /\ b.age \in Nat
    BY <1>3 DEF Answered
  <1>12. /\ PipeInv(r) /\ r.max = m - 1 /\ r.nIRequests = s.nIRequests
         /\ Asks(r) = Asks(s) /\ Buckets(r) = Buckets(s) + 1
         /\ \A q : Follows(Placed(q, s) \cup First(b.insts), Placed(q, r))
    <2>1. r = entered(served(s), b) /\ m = s.max /\ m \in Nat \ {0}
      BY <1>1, <1>2, <1>6, <1>9
    <2>2. Turned(s, b, r)
      BY <1>5, <1>10, <1>11, <2>1, TakesTurn
    <2>3. QED  BY <2>1, <2>2 DEF Turned
  <1>13. Asks(r) = Asks(p)
    BY <1>2, <1>12 DEF Asks
  <1>14. Buckets(r) = Buckets(p)
    <2>1. PICK n1 \in Nat, n2 \in Nat : n1 = Cardinality(p.inflight) /\ n2 = Cardinality(p.received)
      BY FS_CardinalityType DEF PipeInv, PipeType
    <2>2. PICK n3 \in Nat, n4 \in Int : n3 = Len(p.buffer) /\ n4 = p.pool
      BY DEF PipeInv, PipeType
    <2>3. Buckets(s) = n4 + n1 + (n2 - 1) + n3 /\ Buckets(p) = n4 + n1 + n2 + n3
      BY <1>2, <1>4, <2>1, <2>2 DEF Buckets
    <2>4. QED  BY <1>12, <2>3
  <1>15. \A q : Placed(q, s) \cup First(b.insts) = Placed(q, p)
    <2>1. p.received \cup p.inflight = (s.received \cup s.inflight) \cup {b}
      BY <1>2
    <2>2. InCache(p.received \cup p.inflight)
            = InCache(s.received \cup s.inflight) \cup First(b.insts)
      <3>1. PICK S : S = s.received \cup s.inflight
        OBVIOUS
      <3>2. InCache(S \cup {b}) = InCache(S) \cup InCache({b})
        BY InCacheUnion
      <3>3. InCache({b}) = First(b.insts)
        BY InCacheUnion
      <3>4. QED  BY <2>1, <3>1, <3>2, <3>3
    <2>3. QED  BY <1>2, <2>2 DEF Placed
  <1>16. \A q : Follows(Placed(q, p), Placed(q, r))
    BY <1>12, <1>15
  <1>17. QED  BY <1>6, <1>12, <1>13, <1>14, <1>16 DEF Steps

\* One turn of clearItems' loop.
LEMMA ClearedSteps ==
  ASSUME NEW p, PipeInv(p), NEW r, r = cleared(p)
  PROVE  /\ Steps(p, r)
         /\ \/ p.max # 0 /\ r.max = p.max - 1
            \/ r = p /\ Settled(p)
         /\ Settled(p) => r = p
  <1> DEFINE next == {b \in p.received : b.id = 0}
             b == CHOOSE c \in next : TRUE
             e == entered(served([p EXCEPT !.received = @ \ {b}]), b)
  <1>1. 0 \in 0..(p.max - 1) => p.max # 0
    BY DEF PipeInv
  <1>2. CASE 0 \in p.flushed
    <2>1. r = served([p EXCEPT !.flushed = @ \ {0}])
      BY <1>2 DEF cleared
    <2>2. Steps(p, r) /\ r.max = p.max - 1
      BY <1>2, <2>1, SkipSteps
    <2>3. p.max # 0
      BY <1>1, <1>2 DEF PipeInv, Owned
    <2>4. QED  BY <1>2, <2>2, <2>3 DEF Settled
  <1>3. CASE 0 \notin p.flushed /\ next = {}
    <2>1. r = p
      BY <1>3 DEF cleared
    <2>2. Settled(p)
      BY <1>3 DEF Settled, Ids
    <2>3. QED  BY <2>1, <2>2, StaysPut
  <1>4. CASE 0 \notin p.flushed /\ next # {}
    <2>1. b \in next
      BY <1>4
    <2>2. r = IF b.insts = << >> THEN e ELSE flush_transient_inst_from_buffer(e)
      BY <1>4 DEF cleared
    <2>3. b \in p.received /\ b.id = 0
      BY <2>1
    <2>4. p.max # 0
      BY <1>1, <2>3 DEF PipeInv, Owned, Ids
    <2>5. ~Settled(p)
      BY <2>3 DEF Settled, Ids
    <2> HIDE DEF b
    <2>6. Steps(p, e) /\ e.max = p.max - 1
      BY <2>3, EnterSteps
    <2> HIDE DEF e
    <2>7. CASE b.insts = << >>
      BY <2>2, <2>4, <2>5, <2>6, <2>7
    <2>8. CASE b.insts # << >>
      <3>1. PipeInv(e)
        BY <2>6 DEF Steps
      <3>2. r = flush_transient_inst_from_buffer(e)
        BY <2>2, <2>8
      <3>3. Steps(e, r) /\ r.max = e.max
        BY <3>1, <3>2, FlushBufferSteps
      <3>4. QED  BY <2>4, <2>5, <2>6, <3>3, StepsOn
    <2>9. QED  BY <2>7, <2>8
  <1>5. QED  BY <1>2, <1>3, <1>4

\* The pipeline after each of m turns of clearItems' loop.
AreClears(g, p, m) == g = [k \in 0..m |-> IF k = 0 THEN p ELSE cleared(g[k - 1])]

\* By induction on their number.
LEMMA ClearsExist ==
  ASSUME NEW p, NEW m \in Nat
  PROVE  \E g : AreClears(g, p, m)
  <1> USE DEF AreClears
  <1> DEFINE S == {j \in Nat : \E g : g = [k \in 0..j |-> IF k = 0 THEN p ELSE cleared(g[k - 1])]}
  <1>1. 0 \in S
    <2>1. [k \in 0..0 |-> p] = [k \in 0..0 |-> IF k = 0 THEN p ELSE cleared([i \in 0..0 |-> p][k - 1])]
      OBVIOUS
    <2>2. QED  BY <2>1
  <1>2. ASSUME NEW j \in Nat, j \in S
        PROVE  j + 1 \in S
    <2>1. PICK g : g = [k \in 0..j |-> IF k = 0 THEN p ELSE cleared(g[k - 1])]
      BY <1>2
    <2> DEFINE h == [k \in 0..(j + 1) |-> IF k = j + 1 THEN cleared(g[j]) ELSE g[k]]
    <2>2. ASSUME NEW k \in 0..(j + 1)
          PROVE  h[k] = IF k = 0 THEN p ELSE cleared(h[k - 1])
      BY <2>1
    <2>3. h = [k \in 0..(j + 1) |-> IF k = 0 THEN p ELSE cleared(h[k - 1])]
      BY <2>2
    <2> HIDE DEF h
    <2>4. \E f : f = [k \in 0..(j + 1) |-> IF k = 0 THEN p ELSE cleared(f[k - 1])]
      BY <2>3
    <2>5. QED  BY <2>4
  <1> HIDE DEF S
  <1>3. m \in S
    BY <1>1, <1>2, SetInduction
  <1>4. QED  BY <1>3 DEF S

\* clearItems ends with nothing left whose turn it is (Pipeline::clearItems).
LEMMA ClearItemsSteps ==
  ASSUME NEW p, PipeInv(p), NEW r, r = clearItems(p)
  PROVE  Steps(p, r) /\ Settled(r)
  <1>1. PICK m \in Nat : m = p.max
    BY DEF PipeInv
  <1>2. PICK T : T = CHOOSE g : g = [k \in 0..m |-> IF k = 0 THEN p ELSE cleared(g[k - 1])]
    OBVIOUS
  <1>3. r = T[m]
    BY <1>1, <1>2 DEF clearItems
  <1>4. \E g : AreClears(g, p, m)
    BY ClearsExist
  <1>5. T = [k \in 0..m |-> IF k = 0 THEN p ELSE cleared(T[k - 1])]
    BY <1>2, <1>4 DEF AreClears
  <1>6. T[0] = p /\ \A k \in 1..m : T[k] = cleared(T[k - 1])
    BY <1>5
  <1> DEFINE S == {k \in Nat : k <= m => /\ Steps(p, T[k])
                                         /\ T[k].max <= m - k \/ Settled(T[k])}
  <1>7. 0 \in S
    <2>1. Steps(p, p)
      BY StaysPut
    <2>2. QED  BY <1>1, <1>6, <2>1
  <1>8. ASSUME NEW k \in Nat, k \in S
        PROVE  k + 1 \in S
    <2>1. CASE k + 1 <= m
      <3>1. Steps(p, T[k]) /\ (T[k].max <= m - k \/ Settled(T[k]))
        BY <1>8, <2>1
      <3>2. PICK x, y : x = T[k] /\ y = T[k + 1]
        OBVIOUS
      <3>3. y = cleared(x)
        <4>1. k + 1 \in 1..m /\ (k + 1) - 1 = k
          BY <2>1
        <4>2. QED  BY <1>6, <3>2, <4>1
      <3>4. PipeInv(x) /\ x.max \in Nat
        BY <3>1, <3>2 DEF Steps, PipeInv
      <3>5. /\ Steps(x, y)
            /\ \/ x.max # 0 /\ y.max = x.max - 1
               \/ y = x /\ Settled(x)
            /\ Settled(x) => y = x
        BY <3>3, <3>4, ClearedSteps
      <3>6. Steps(p, y)
        BY <3>1, <3>2, <3>5, StepsOn
      <3>7. y.max <= m - (k + 1) \/ Settled(y)
        BY <3>1, <3>2, <3>4, <3>5
      <3>8. QED  BY <3>2, <3>6, <3>7
    <2>2. CASE ~(k + 1 <= m)
      BY <2>2
    <2>3. QED  BY <2>1, <2>2
  <1> HIDE DEF S
  <1>9. m \in S
    BY <1>7, <1>8, SetInduction
  <1>10. Steps(p, r) /\ (r.max <= m - m \/ Settled(r))
    BY <1>3, <1>9 DEF S
  <1>11. Settled(r)
    <2>1. CASE r.max <= m - m
      <3>1. r.max \in Nat /\ Owned(r, 0..(r.max - 1))
        BY <1>10 DEF Steps, PipeInv
      <3>2. 0 \notin 0..(r.max - 1)
        BY <2>1, <3>1
      <3>3. QED  BY <3>1, <3>2 DEF Owned, Settled
    <2>2. QED  BY <1>10, <2>1
  <1>12. QED  BY <1>10, <1>11

\* A bucket comes back from the cache, or is ready at once.
Arrives(p, id, insts, r) ==
  /\ PipeInv(r) /\ Settled(r) /\ Asks(r) = Asks(p) + 1 /\ Buckets(r) = Buckets(p) + 1
  /\ \A q : Follows(Placed(q, p) \cup InCache({[id |-> id, insts |-> insts]}), Placed(q, r))

\* Pipeline::readyItem, in turn or out of turn.
LEMMA ReadyItemDoes ==
  ASSUME NEW p, PipeType(p), NEW m \in Nat, m = p.max, NEW id \in 0..(m - 1),
         Owned(p, (0..(m - 1)) \ {id}), id # 0 => Settled(p),
         NEW insts \in Seq(Nat), NEW r, r = readyItem(p, id, insts)
  PROVE  Arrives(p, id, insts, r)
  <1>1. PICK b : b = [id |-> id, insts |-> insts, age |-> 0]
    OBVIOUS
  <1>2. b \in Answered /\ b.id = id /\ b.insts = insts /\ b.age = 0
    BY <1>1 DEF Answered
  <1>3. PICK s : s = [p EXCEPT !.nIRequests = @ + 1]
    OBVIOUS
  <1>4. /\ IsPipe(s) /\ s.max = p.max /\ s.nIRequests = p.nIRequests + 1 /\ s.pool = p.pool
        /\ s.inflight = p.inflight /\ s.received = p.received /\ s.buffer = p.buffer
        /\ s.flushed = p.flushed
    BY <1>3 DEF PipeType, IsPipe
  <1>5. PipeType(s) /\ Owned(s, (0..(m - 1)) \ {id}) /\ (id # 0 => Settled(s))
    BY <1>4 DEF PipeType, Owned, Settled
  <1>6. Buckets(s) = Buckets(p) /\ \A q : Placed(q, s) = Placed(q, p)
    BY <1>4 DEF Buckets, Placed
  <1>7. Asks(s) = Asks(p) + 1
    <2>1. PICK n1 \in Nat, n2 \in Int : n1 = Cardinality(p.inflight) /\ n2 = p.nIRequests
      BY FS_CardinalityType DEF PipeType
    <2>2. QED  BY <1>4, <2>1 DEF Asks
  <1>8. PICK g : g = [id |-> id, insts |-> insts]
    OBVIOUS
  <1>9. g.id = id /\ g.insts = insts
    BY <1>8
  <1>10. CASE id # 0
    <2>1. r = [s EXCEPT !.received = s.received \cup {b}]
      BY <1>1, <1>3, <1>10 DEF readyItem
    <2>2. /\ IsPipe(r) /\ r.max = s.max /\ r.nIRequests = s.nIRequests /\ r.pool = s.pool
          /\ r.inflight = s.inflight /\ r.received = s.received \cup {b} /\ r.buffer = s.buffer
          /\ r.flushed = s.flushed
      BY <1>5, <2>1 DEF PipeType, IsPipe
    <2>3. /\ Ids(s.inflight) \cup Ids(s.received) \cup s.flushed = (0..(m - 1)) \ {id}
          /\ Ids(s.inflight) \cap Ids(s.received) = {}
          /\ Ids(s.inflight) \cap s.flushed = {}
          /\ Ids(s.received) \cap s.flushed = {}
      BY <1>5 DEF Owned
    <2>4. b \notin s.received /\ \A c \in s.received : c.id # id
      BY <1>2, <2>3 DEF Ids
    <2>5. /\ s.received \in SUBSET Answered /\ IsFiniteSet(s.received) /\ UniqueIds(s.received)
      BY <1>5 DEF PipeType
    <2>6. /\ IsFiniteSet(r.received) /\ Cardinality(r.received) = Cardinality(s.received) + 1
      BY <2>2, <2>4, <2>5, FS_AddElement
    <2>7. UniqueIds(r.received) /\ r.received \in SUBSET Answered
      BY <1>2, <2>2, <2>4, <2>5 DEF UniqueIds
    <2>8. PipeType(r)
      BY <1>5, <2>2, <2>6, <2>7 DEF PipeType
    <2>9. Ids(r.received) = Ids(s.received) \cup {id}
      BY <1>2, <2>2 DEF Ids
    <2>10. PipeInv(r)
      <3>1. Owned(r, 0..(m - 1))
        <4>1. PICK X : X = 0..(m - 1) /\ id \in X
          OBVIOUS
        <4>2. /\ Ids(s.inflight) \cup Ids(s.received) \cup s.flushed = X \ {id}
              /\ Ids(r.inflight) = Ids(s.inflight) /\ r.flushed = s.flushed
          BY <2>2, <2>3, <4>1
        <4>3. Owned(r, X)
          BY <2>3, <2>9, <4>1, <4>2 DEF Owned
        <4>4. QED  BY <4>1, <4>3
      <3>2. r.max = m
        BY <1>4, <2>2
      <3>3. QED  BY <2>8, <3>1, <3>2 DEF PipeInv
    <2>11. Settled(r)
      BY <1>5, <1>10, <2>2, <2>9 DEF Settled
    <2>12. Asks(r) = Asks(s)
      BY <2>2 DEF Asks
    <2>13. Buckets(r) = Buckets(s) + 1
      <3>1. PICK n1 \in Nat, n2 \in Nat : n1 = Cardinality(s.inflight) /\ n2 = Cardinality(s.received)
        BY <1>5, FS_CardinalityType DEF PipeType
      <3>2. PICK n3 \in Nat, n4 \in Int : n3 = Len(s.buffer) /\ n4 = s.pool
        BY <1>5 DEF PipeType
      <3>3. Buckets(r) = n4 + n1 + (n2 + 1) + n3 /\ Buckets(s) = n4 + n1 + n2 + n3
        BY <2>2, <2>6, <3>1, <3>2 DEF Buckets
      <3>4. QED  BY <3>3
    <2>14. ASSUME NEW q
           PROVE  Follows(Placed(q, p) \cup InCache({g}), Placed(q, r))
      <3>1. PICK S : S = s.received \cup s.inflight
        OBVIOUS
      <3>2. r.received \cup r.inflight = S \cup {b}
        BY <2>2, <3>1
      <3>3. InCache({b}) = InCache({g})
        BY <1>2, <1>9 DEF InCache
      <3>4. InCache(S \cup {b}) = InCache(S) \cup InCache({g})
        BY <3>3, InCacheUnion
      <3>5. Placed(q, r) = InQueue(q) \cup InBuffer(s.buffer) \cup InCache(S) \cup InCache({g})
        BY <2>2, <3>2, <3>4 DEF Placed
      <3>6. Placed(q, p) = InQueue(q) \cup InBuffer(s.buffer) \cup InCache(S)
        BY <1>4, <3>1 DEF Placed
      <3>7. Placed(q, p) \cup InCache({g}) = Placed(q, r)
        BY <3>5, <3>6
      <3>8. QED  BY <3>7, Trimmed
    <2>15. QED  BY <1>6, <1>7, <1>8, <2>10, <2>11, <2>12, <2>13, <2>14 DEF Arrives
  <1>11. CASE id = 0
    <2>1. PICK e : e = entered(served(s), b)
      OBVIOUS
    <2>2. r = clearItems(e)
      BY <1>1, <1>3, <1>11, <2>1 DEF readyItem
    <2>3. 1..(m - 1) = (0..(m - 1)) \ {id} /\ m \in Nat \ {0}
      BY <1>11
    <2>4. Turned(s, b, e)
      <3>1. Owned(s, 1..(m - 1)) /\ m = s.max
        BY <1>4, <1>5, <2>3
      <3>2. b.insts \in Seq(Nat) /\ b.age \in Nat
        BY <1>2
      <3>3. QED  BY <1>5, <2>1, <2>3, <3>1, <3>2, TakesTurn
    <2>5. Steps(e, r) /\ Settled(r)
      BY <2>2, <2>4, ClearItemsSteps DEF Turned
    <2>6. InCache({g}) = First(b.insts)
      BY <1>2, <1>9, <1>11, InCacheUnion
    <2>7. ASSUME NEW q
          PROVE  Follows(Placed(q, p) \cup InCache({g}), Placed(q, r))
      <3>1. Follows(Placed(q, s) \cup First(b.insts), Placed(q, e)) /\ Follows(Placed(q, e), Placed(q, r))
        BY <2>4, <2>5 DEF Turned, Steps
      <3>2. Follows(Placed(q, s) \cup First(b.insts), Placed(q, r))
        BY <3>1, FollowsOn
      <3>3. QED  BY <1>6, <2>6, <3>2
    <2>8. PipeInv(r) /\ Asks(r) = Asks(s) /\ Buckets(r) = Buckets(s) + 1
      BY <2>4, <2>5 DEF Turned, Steps
    <2>9. QED  BY <1>6, <1>7, <1>8, <2>5, <2>7, <2>8 DEF Arrives
  <1>12. QED  BY <1>10, <1>11

-----------------------------------------------------------------------------
(* The other operations of the pipeline.                                   *)

\* The instruction cache answers.
LEMMA MarkFetchedSteps ==
  ASSUME NEW p, PipeInv(p), Settled(p), NEW b \in p.inflight, NEW r, r = markFetched(p, b)
  PROVE  Steps(p, r) /\ Settled(r)
  <1>1. PICK s : s = [p EXCEPT !.inflight = @ \ {b}]
    OBVIOUS
  <1>2. /\ IsPipe(s) /\ s.max = p.max /\ s.nIRequests = p.nIRequests /\ s.pool = p.pool
        /\ s.inflight = p.inflight \ {b} /\ s.received = p.received /\ s.buffer = p.buffer
        /\ s.flushed = p.flushed
    BY <1>1 DEF PipeInv, PipeType, IsPipe
  <1>3. /\ p.inflight \in SUBSET Asked /\ IsFiniteSet(p.inflight) /\ UniqueIds(p.inflight)
    BY DEF PipeInv, PipeType
  <1>4. IsFiniteSet(s.inflight) /\ Cardinality(s.inflight) = Cardinality(p.inflight) - 1
    BY <1>2, <1>3, FS_RemoveElement
  <1>5. PipeType(s)
    <2>1. UniqueIds(s.inflight) /\ s.inflight \in SUBSET Asked
      BY <1>2, <1>3 DEF UniqueIds
    <2>2. QED  BY <1>2, <1>4, <2>1 DEF PipeInv, PipeType
  <1>60. PICK m \in Nat : m = p.max
    BY DEF PipeInv
  <1>6. PICK X : m = p.max /\ X = 0..(m - 1)
    BY <1>60
  <1>7. /\ Ids(p.inflight) \cup Ids(p.received) \cup p.flushed = X
        /\ Ids(p.inflight) \cap Ids(p.received) = {}
        /\ Ids(p.inflight) \cap p.flushed = {}
        /\ Ids(p.received) \cap p.flushed = {}
    BY <1>6 DEF PipeInv, Owned
  <1>8. b.id \in Ids(p.inflight) /\ Ids(s.inflight) = Ids(p.inflight) \ {b.id}
    BY <1>2, <1>3 DEF Ids, UniqueIds
  <1>9. b.id \in 0..(m - 1) /\ Owned(s, (0..(m - 1)) \ {b.id})
    <2>1. b.id \in X /\ Owned(s, X \ {b.id})
      BY <1>2, <1>7, <1>8 DEF Owned
    <2>2. QED  BY <1>6, <2>1
  <1>10. b = [id |-> b.id, insts |-> b.insts] /\ b.insts \in Seq(Nat)
    <2>1. b = [id |-> b.id, insts |-> b.insts] /\ b.insts \in Seq(Nat \ {TRANSIENT})
      BY <1>3 DEF Asked
    <2>2. \A i \in Seq(Nat \ {TRANSIENT}) : i \in Seq(Nat)
      OBVIOUS
    <2>3. QED  BY <2>1, <2>2
  <1>11. Arrives(s, b.id, b.insts, r)
    <2>1. PICK id, insts : id = b.id /\ insts = b.insts
      OBVIOUS
    <2>2. id \in 0..(m - 1) /\ insts \in Seq(Nat) /\ r = readyItem(s, id, insts) /\ m = s.max
      BY <1>1, <1>2, <1>6, <1>9, <1>10, <2>1 DEF markFetched
    <2>3. Settled(s) /\ Owned(s, (0..(m - 1)) \ {id})
      BY <1>2, <1>9, <2>1 DEF Settled
    <2>4. Arrives(s, id, insts, r)
      BY <1>5, <2>2, <2>3, ReadyItemDoes
    <2>5. QED  BY <2>1, <2>4
  <1>12. Asks(s) = Asks(p) - 1 /\ Buckets(s) = Buckets(p) - 1
    <2>1. PICK n1 \in Nat, n2 \in Nat : n1 = Cardinality(p.inflight) /\ n2 = Cardinality(p.received)
      BY FS_CardinalityType DEF PipeInv, PipeType
    <2>2. PICK n3 \in Nat, n4 \in Int, n5 \in Int : n3 = Len(p.buffer) /\ n4 = p.pool /\ n5 = p.nIRequests
      BY DEF PipeInv, PipeType
    <2>3. Buckets(s) = n4 + (n1 - 1) + n2 + n3 /\ Buckets(p) = n4 + n1 + n2 + n3
      BY <1>2, <1>4, <2>1, <2>2 DEF Buckets
    <2>4. Asks(s) = n5 + (n1 - 1) /\ Asks(p) = n5 + n1
      BY <1>2, <1>4, <2>1, <2>2 DEF Asks
    <2>5. QED  BY <2>3, <2>4
  <1>13. ASSUME NEW q
         PROVE  Placed(q, p) = Placed(q, s) \cup InCache({b})
    <2>1. PICK S : S = s.received \cup s.inflight
      OBVIOUS
    <2>2. p.received \cup p.inflight = S \cup {b}
      BY <1>2, <2>1
    <2>3. InCache(S \cup {b}) = InCache(S) \cup InCache({b})
      BY InCacheUnion
    <2>4. QED  BY <1>2, <2>1, <2>2, <2>3 DEF Placed
  <1>14. ASSUME NEW q
         PROVE  Follows(Placed(q, p), Placed(q, r))
    <2>1. Follows(Placed(q, s) \cup InCache({b}), Placed(q, r))
      BY <1>10, <1>11 DEF Arrives
    <2>2. QED  BY <1>13, <2>1
  <1>15. Asks(r) = Asks(p) /\ Buckets(r) = Buckets(p)
    <2>1. Asks(r) = Asks(s) + 1 /\ Buckets(r) = Buckets(s) + 1
      BY <1>11 DEF Arrives
    <2>2. Asks(p) \in Int /\ Buckets(p) \in Int
      <3>1. PICK n1 \in Nat, n2 \in Nat : n1 = Cardinality(p.inflight) /\ n2 = Cardinality(p.received)
        BY FS_CardinalityType DEF PipeInv, PipeType
      <3>2. PICK n3 \in Nat, n4 \in Int, n5 \in Int : n3 = Len(p.buffer) /\ n4 = p.pool /\ n5 = p.nIRequests
        BY DEF PipeInv, PipeType
      <3>3. QED  BY <3>1, <3>2 DEF Asks, Buckets
    <2>3. QED  BY <1>12, <2>1, <2>2
  <1>16. QED  BY <1>11, <1>14, <1>15 DEF Arrives, Steps

\* newItem leaves an identifier without a bucket.
LEMMA NewItemDoes ==
  ASSUME NEW p, PipeInv(p), NEW s, s = newItem(p)
  PROVE  /\ PipeType(s) /\ s.max = p.max + 1 /\ Owned(s, (0..(s.max - 1)) \ {p.max})
         /\ s.inflight = p.inflight /\ s.received = p.received /\ s.buffer = p.buffer
         /\ s.flushed = p.flushed
         /\ Asks(s) = Asks(p) - 1 /\ Buckets(s) = Buckets(p) - 1
         /\ Asks(p) \in Int /\ Buckets(p) \in Int
  <1>1. /\ IsPipe(s) /\ s.max = p.max + 1 /\ s.nIRequests = p.nIRequests - 1 /\ s.pool = p.pool - 1
        /\ s.inflight = p.inflight /\ s.received = p.received /\ s.buffer = p.buffer
        /\ s.flushed = p.flushed
    BY DEF newItem, PipeInv, PipeType, IsPipe
  <1>2. PipeType(s)
    <2>1. s.pool \in Int /\ s.nIRequests \in Int /\ s.max \in Int
      BY <1>1 DEF PipeInv, PipeType
    <2>2. QED  BY <1>1, <2>1 DEF PipeInv, PipeType
  <1>3. Owned(s, (0..(s.max - 1)) \ {p.max})
    <2>1. PICK m \in Nat : m = p.max
      BY DEF PipeInv
    <2>2. (0..(s.max - 1)) \ {p.max} = 0..(m - 1)
      <3>1. s.max - 1 = m
        BY <1>1, <2>1
      <3>2. (0..m) \ {m} = 0..(m - 1)
        OBVIOUS
      <3>3. QED  BY <2>1, <3>1, <3>2
    <2>3. Owned(s, 0..(m - 1))
      BY <1>1, <2>1 DEF PipeInv, Owned
    <2>4. QED  BY <2>2, <2>3
  <1>4. Asks(s) = Asks(p) - 1 /\ Buckets(s) = Buckets(p) - 1 /\ Asks(p) \in Int /\ Buckets(p) \in Int
    <2>1. PICK n1 \in Nat, n2 \in Nat : n1 = Cardinality(p.inflight) /\ n2 = Cardinality(p.received)
      BY FS_CardinalityType DEF PipeInv, PipeType
    <2>2. PICK n3 \in Nat, n4 \in Int, n5 \in Int : n3 = Len(p.buffer) /\ n4 = p.pool /\ n5 = p.nIRequests
      BY DEF PipeInv, PipeType
    <2>3. Buckets(s) = (n4 - 1) + n1 + n2 + n3 /\ Buckets(p) = n4 + n1 + n2 + n3
      BY <1>1, <2>1, <2>2 DEF Buckets
    <2>4. Asks(s) = (n5 - 1) + n1 /\ Asks(p) = n5 + n1
      BY <1>1, <2>1, <2>2 DEF Asks
    <2>5. QED  BY <2>3, <2>4
  <1>5. QED  BY <1>1, <1>2, <1>3, <1>4

\* A new bucket, on its way from the cache.
LEMMA RequestedDoes ==
  ASSUME NEW p, PipeInv(p), Settled(p), NEW insts \in Seq(Nat \ {TRANSIENT}),
         NEW r, r = requested(p, insts)
  PROVE  /\ PipeInv(r) /\ Settled(r) /\ Asks(r) = Asks(p) /\ Buckets(r) = Buckets(p)
         /\ \A q : Placed(q, r) = Placed(q, p) \cup InCache({[id |-> p.max, insts |-> insts]})
  <1>1. PICK s : s = newItem(p)
    OBVIOUS
  <1>2. /\ PipeType(s) /\ s.max = p.max + 1 /\ Owned(s, (0..(s.max - 1)) \ {p.max})
        /\ s.inflight = p.inflight /\ s.received = p.received /\ s.buffer = p.buffer
        /\ s.flushed = p.flushed
        /\ Asks(s) = Asks(p) - 1 /\ Buckets(s) = Buckets(p) - 1
        /\ Asks(p) \in Int /\ Buckets(p) \in Int
    BY <1>1, NewItemDoes
  <1>3. PICK b : b = [id |-> p.max, insts |-> insts]
    OBVIOUS
  <1>4. b \in Asked /\ b.id = p.max
    BY <1>3 DEF Asked, PipeInv
  <1>5. r = [s EXCEPT !.inflight = s.inflight \cup {b}]
    BY <1>1, <1>3 DEF requested
  <1>6. /\ IsPipe(r) /\ r.max = s.max /\ r.nIRequests = s.nIRequests /\ r.pool = s.pool
        /\ r.inflight = s.inflight \cup {b} /\ r.received = s.received /\ r.buffer = s.buffer
        /\ r.flushed = s.flushed
    BY <1>2, <1>5 DEF PipeType, IsPipe
  <1>7. PICK X, i : i = p.max /\ X = 0..(s.max - 1) /\ i \in X
    <2>1. p.max \in 0..(s.max - 1)
      BY <1>2 DEF PipeInv
    <2>2. QED  BY <2>1
  <1>8. /\ Ids(s.inflight) \cup Ids(s.received) \cup s.flushed = X \ {i}
        /\ Ids(s.inflight) \cap Ids(s.received) = {}
        /\ Ids(s.inflight) \cap s.flushed = {}
        /\ Ids(s.received) \cap s.flushed = {}
    BY <1>2, <1>7 DEF Owned
  <1>9. b \notin s.inflight /\ \A c \in s.inflight : c.id # i
    BY <1>4, <1>7, <1>8 DEF Ids
  <1>10. /\ s.inflight \in SUBSET Asked /\ IsFiniteSet(s.inflight) /\ UniqueIds(s.inflight)
    BY <1>2 DEF PipeType
  <1>11. IsFiniteSet(r.inflight) /\ Cardinality(r.inflight) = Cardinality(s.inflight) + 1
    BY <1>6, <1>9, <1>10, FS_AddElement
  <1>12. UniqueIds(r.inflight) /\ r.inflight \in SUBSET Asked
    BY <1>4, <1>6, <1>7, <1>9, <1>10 DEF UniqueIds
  <1>13. PipeType(r)
    BY <1>2, <1>6, <1>11, <1>12 DEF PipeType
  <1>14. PipeInv(r)
    <2>1. Ids(r.inflight) = Ids(s.inflight) \cup {i}
      BY <1>4, <1>6, <1>7 DEF Ids
    <2>2. Owned(r, X)
      <3>1. PICK A, B, C : A = Ids(s.inflight) /\ B = Ids(s.received) /\ C = s.flushed
        OBVIOUS
      <3>2. Ids(r.inflight) = A \cup {i} /\ Ids(r.received) = B /\ r.flushed = C
        BY <1>6, <2>1, <3>1
      <3>3. /\ A \cup B \cup C = X \ {i} /\ i \in X
            /\ A \cap B = {} /\ A \cap C = {} /\ B \cap C = {}
        BY <1>7, <1>8, <3>1
      <3>4. /\ (A \cup {i}) \cup B \cup C = X
            /\ (A \cup {i}) \cap B = {} /\ (A \cup {i}) \cap C = {}
        BY <3>3
      <3>5. QED  BY <3>2, <3>3, <3>4 DEF Owned
    <2>3. r.max \in Nat /\ X = 0..(r.max - 1)
      BY <1>2, <1>6, <1>7 DEF PipeInv
    <2>4. QED  BY <1>13, <2>2, <2>3 DEF PipeInv
  <1>15. Settled(r)
    BY <1>2, <1>6 DEF Settled
  <1>16. Asks(r) = Asks(p) /\ Buckets(r) = Buckets(p)
    <2>1. PICK n1 \in Nat, n2 \in Nat : n1 = Cardinality(s.inflight) /\ n2 = Cardinality(s.received)
      BY <1>2, FS_CardinalityType DEF PipeType
    <2>2. PICK n3 \in Nat, n4 \in Int, n5 \in Int : n3 = Len(s.buffer) /\ n4 = s.pool /\ n5 = s.nIRequests
      BY <1>2 DEF PipeType
    <2>3. Buckets(r) = n4 + (n1 + 1) + n2 + n3 /\ Buckets(s) = n4 + n1 + n2 + n3
      BY <1>6, <1>11, <2>1, <2>2 DEF Buckets
    <2>4. Asks(r) = n5 + (n1 + 1) /\ Asks(s) = n5 + n1
      BY <1>6, <1>11, <2>1, <2>2 DEF Asks
    <2>5. QED  BY <1>2, <2>3, <2>4
  <1>17. ASSUME NEW q
         PROVE  Placed(q, r) = Placed(q, p) \cup InCache({b})
    <2>1. PICK S : S = s.received \cup s.inflight
      OBVIOUS
    <2>2. r.received \cup r.inflight = S \cup {b} /\ p.received \cup p.inflight = S
      BY <1>2, <1>6, <2>1
    <2>3. InCache(S \cup {b}) = InCache(S) \cup InCache({b})
      BY InCacheUnion
    <2>4. QED  BY <1>2, <1>6, <2>2, <2>3 DEF Placed
  <1>18. QED  BY <1>3, <1>14, <1>15, <1>16, <1>17

\* The two transient instructions of a fetch that is blocked.
LEMMA TransientsDo ==
  ASSUME NEW p, PipeInv(p), Settled(p),
         NEW r, r = readyItem(newItem(p), p.max, <<TRANSIENT, TRANSIENT>>)
  PROVE  /\ PipeInv(r) /\ Settled(r) /\ Asks(r) = Asks(p) /\ Buckets(r) = Buckets(p)
         /\ \A q : Follows(Placed(q, p)
                     \cup InCache({[id |-> p.max, insts |-> <<TRANSIENT, TRANSIENT>>]}), Placed(q, r))
  <1>1. PICK s : s = newItem(p)
    OBVIOUS
  <1>2. /\ PipeType(s) /\ s.max = p.max + 1 /\ Owned(s, (0..(s.max - 1)) \ {p.max})
        /\ s.inflight = p.inflight /\ s.received = p.received /\ s.buffer = p.buffer
        /\ s.flushed = p.flushed
        /\ Asks(s) = Asks(p) - 1 /\ Buckets(s) = Buckets(p) - 1
        /\ Asks(p) \in Int /\ Buckets(p) \in Int
    BY <1>1, NewItemDoes
  <1>3. PICK insts : insts = <<TRANSIENT, TRANSIENT>> /\ insts \in Seq(Nat)
    <2>1. <<0, 0>> \in Seq(Nat)
      OBVIOUS
    <2>2. QED  BY <2>1 DEF TRANSIENT
  <1>4. PICK id : id = p.max
    OBVIOUS
  <1>5. PICK m \in Nat : m = s.max
    BY <1>2 DEF PipeInv
  <1>6. id \in 0..(m - 1) /\ Owned(s, (0..(m - 1)) \ {id}) /\ Settled(s)
    BY <1>2, <1>4, <1>5 DEF PipeInv, Settled
  <1>7. r = readyItem(s, id, insts)
    BY <1>1, <1>3, <1>4
  <1>8. Arrives(s, id, insts, r)
    BY <1>2, <1>3, <1>5, <1>6, <1>7, ReadyItemDoes
  <1>9. \A q : Placed(q, s) = Placed(q, p)
    BY <1>2 DEF Placed
  <1>10. Asks(r) = Asks(p) /\ Buckets(r) = Buckets(p)
    BY <1>2, <1>8 DEF Arrives
  <1>11. \A q : Follows(Placed(q, p) \cup InCache({[id |-> id, insts |-> insts]}), Placed(q, r))
    BY <1>8, <1>9 DEF Arrives
  <1>12. QED  BY <1>3, <1>4, <1>8, <1>10, <1>11 DEF Arrives

\* The oldest bucket of the buffer goes to the end of the instruction queue.
LEMMA NextItemDoes ==
  ASSUME NEW p, PipeInv(p), p.buffer # << >>, NEW q \in Seq(Seq(Nat)),
         NEW r, r = nextItem(p), NEW h, h = Head(p.buffer).insts
  PROVE  /\ PipeInv(r) /\ (Settled(p) => Settled(r))
         /\ Asks(r) = Asks(p) /\ Buckets(r) = Buckets(p) - 1
         /\ h \in Seq(Nat) /\ h # << >>
         /\ Follows(Placed(q, p), Placed(Append(q, h), r))
  <1>1. PICK u : u = p.buffer /\ u \in Seq(InOrder) /\ u # << >>
    BY DEF PipeInv, PipeType
  <1>2. PICK v, w, L, K : v = Tail(u) /\ w = Append(q, h) /\ L = Len(q) /\ K = Len(u)
    OBVIOUS
  <1>3. /\ K \in Nat \ {0} /\ DOMAIN u = 1..K /\ v \in Seq(InOrder) /\ Len(v) = K - 1
        /\ DOMAIN v = 1..(K - 1) /\ \A k \in 1..(K - 1) : v[k] = u[k + 1]
        /\ Head(u) = u[1] /\ u[1] \in InOrder
    BY <1>1, <1>2
  <1>4. h = u[1].insts /\ h \in Seq(Nat) /\ h # << >>
    BY <1>1, <1>3 DEF InOrder
  <1>5. /\ L \in Nat /\ DOMAIN q = 1..L /\ DOMAIN w = 1..(L + 1) /\ w[L + 1] = h
        /\ \A k \in 1..L : w[k] = q[k]
    BY <1>2, <1>4
  <1>6. /\ IsPipe(r) /\ r.max = p.max /\ r.nIRequests = p.nIRequests /\ r.pool = p.pool
        /\ r.inflight = p.inflight /\ r.received = p.received /\ r.buffer = v
        /\ r.flushed = p.flushed
    BY <1>1, <1>2 DEF nextItem, PipeInv, PipeType, IsPipe
  <1>7. PipeInv(r) /\ (Settled(p) => Settled(r)) /\ Asks(r) = Asks(p)
    BY <1>3, <1>6 DEF PipeInv, PipeType, Owned, Settled, Asks
  <1>8. Buckets(r) = Buckets(p) - 1
    <2>1. PICK n1 \in Nat, n2 \in Nat : n1 = Cardinality(p.inflight) /\ n2 = Cardinality(p.received)
      BY FS_CardinalityType DEF PipeInv, PipeType
    <2>2. PICK n4 \in Int : n4 = p.pool
      BY DEF PipeInv, PipeType
    <2>3. Buckets(r) = n4 + n1 + n2 + (K - 1) /\ Buckets(p) = n4 + n1 + n2 + K
      BY <1>1, <1>2, <1>3, <1>6, <2>1, <2>2 DEF Buckets
    <2>4. QED  BY <1>3, <2>3
  <1>9. Follows(Placed(q, p), Placed(w, r))
    <2>1. PICK C, O, P : /\ C = InCache(p.received \cup p.inflight)
                         /\ O = InQueue(q) \cup InBuffer(u) \cup C
                         /\ P = InQueue(w) \cup InBuffer(v) \cup C
      OBVIOUS
    <2> DEFINE m == [x \in P |-> IF x[1] = 1 /\ x[2] = L + 1 THEN <<2, 1, x[3], x[4]>>
                                 ELSE IF x[1] = 2 THEN <<2, x[2] + 1, x[3], x[4]>> ELSE x]
               From(x) ==
                 \/ x[1] = 1 /\ x[2] \in 1..L /\ m[x] = x
                 \/ x[1] = 1 /\ x[2] = L + 1 /\ m[x] = <<2, 1, x[3], x[4]>>
                 \/ x[1] = 2 /\ x[2] \in 1..(K - 1) /\ m[x] = <<2, x[2] + 1, x[3], x[4]>>
                 \/ x[1] = 3 /\ m[x] = x
    <2>2. ASSUME NEW x \in P
          PROVE  /\ x[1] = 1 /\ x[2] # L + 1 => m[x] = x
                 /\ x[1] = 1 /\ x[2] = L + 1 => m[x] = <<2, 1, x[3], x[4]>>
                 /\ x[1] = 2 => m[x] = <<2, x[2] + 1, x[3], x[4]>>
                 /\ x[1] = 3 => m[x] = x
      OBVIOUS
    <2> HIDE DEF m
    <2>3. ASSUME NEW x \in InQueue(w)
          PROVE  From(x) /\ m[x] \in O
      <3>1. PICK k, j : k \in DOMAIN w /\ j \in DOMAIN w[k] /\ x = <<1, k, j, w[k][j]>>
        BY PlacesAre
      <3>2. x \in P /\ x[1] = 1 /\ x[2] = k /\ x[3] = j /\ x[4] = w[k][j]
        BY <2>1, <3>1
      <3>3. CASE k \in 1..L
        <4>1. k # L + 1 /\ w[k] = q[k]
          BY <1>5, <3>3
        <4>2. m[x] = x
          BY <2>2, <3>2, <4>1
        <4>3. x \in InQueue(q)
          BY <1>5, <3>1, <3>3, <4>1, PlacesAre
        <4>4. QED  BY <2>1, <3>2, <3>3, <4>2, <4>3
      <3>4. CASE k \notin 1..L
        <4>1. k = L + 1 /\ w[k] = u[1].insts
          BY <1>4, <1>5, <3>1, <3>4
        <4>2. m[x] = <<2, 1, x[3], x[4]>>
          BY <2>2, <3>2, <4>1
        <4>3. 1 \in DOMAIN u /\ m[x] = <<2, 1, j, u[1].insts[j]>> /\ j \in DOMAIN u[1].insts
          <5>1. 1 \in DOMAIN u
            BY <1>3
          <5>2. x[4] = u[1].insts[j] /\ j \in DOMAIN u[1].insts
            BY <3>1, <3>2, <4>1
          <5>3. QED  BY <3>2, <4>2, <5>1, <5>2
        <4>4. m[x] \in InBuffer(u)
          BY <4>3, PlacesAre
        <4>5. QED  BY <2>1, <3>2, <4>1, <4>2, <4>4
      <3>5. QED  BY <3>3, <3>4
    <2>4. ASSUME NEW x \in InBuffer(v)
          PROVE  From(x) /\ m[x] \in O
      <3>1. PICK k, j : k \in DOMAIN v /\ j \in DOMAIN v[k].insts /\ x = <<2, k, j, v[k].insts[j]>>
        BY PlacesAre
      <3>2. x \in P /\ x[1] = 2 /\ x[2] = k /\ x[3] = j /\ x[4] = v[k].insts[j]
        BY <2>1, <3>1
      <3>3. k \in 1..(K - 1) /\ v[k] = u[k + 1] /\ k + 1 \in DOMAIN u
        BY <1>3, <3>1
      <3>4. m[x] = <<2, x[2] + 1, x[3], x[4]>>
        BY <2>2, <3>2
      <3>5. m[x] = <<2, k + 1, j, u[k + 1].insts[j]>> /\ j \in DOMAIN u[k + 1].insts
        BY <3>1, <3>2, <3>3, <3>4
      <3>6. m[x] \in InBuffer(u)
        BY <3>3, <3>5, PlacesAre
      <3>7. QED  BY <2>1, <3>2, <3>3, <3>4, <3>6
    <2>5. ASSUME NEW x \in C
          PROVE  From(x) /\ m[x] \in O
      <3>1. PICK b, j : j \in DOMAIN b.insts /\ x = <<3, b.id, j, b.insts[j]>>
        BY <2>1, <2>5, PlacesAre
      <3>2. x \in P /\ x[1] = 3
        BY <2>1, <2>5, <3>1
      <3>3. m[x] = x
        BY <2>2, <3>2
      <3>4. QED  BY <2>1, <2>5, <3>2, <3>3
    <2>6. \A x \in P : From(x) /\ m[x] \in O
      BY <2>1, <2>3, <2>4, <2>5
    <2>7. ASSUME NEW x \in P
          PROVE  m[x] \in O /\ m[x][4] = x[4]
      <3>1. From(x) /\ m[x] \in O
        BY <2>6
      <3>2. m[x][4] = x[4]
        BY <3>1
      <3>3. QED  BY <3>1, <3>2
    <2>8. ASSUME NEW x \in P, NEW y \in P, Before(x, y)
          PROVE  Before(m[x], m[y])
      <3> DEFINE At(z) ==
                   \/ z[1] = 1 /\ z[2] \in 1..L /\ m[z][1] = 1 /\ m[z][2] = z[2] /\ m[z][3] = z[3]
                   \/ z[1] = 1 /\ z[2] = L + 1 /\ m[z][1] = 2 /\ m[z][2] = 1 /\ m[z][3] = z[3]
                   \/ /\ z[1] = 2 /\ z[2] \in 1..(K - 1)
                      /\ m[z][1] = 2 /\ m[z][2] = z[2] + 1 /\ m[z][3] = z[3]
                   \/ z[1] = 3 /\ m[z][1] = 3 /\ m[z][2] = z[2] /\ m[z][3] = z[3]
      <3>1. ASSUME NEW z \in P
            PROVE  At(z)
        <4>1. From(z)
          BY <2>6
        <4>2. QED  BY <4>1
      <3>2. At(x) /\ At(y)
        BY <3>1
      <3>3. L \in Nat /\ K \in Nat
        BY <1>3, <1>5
      <3>4. QED  BY <2>8, <3>2, <3>3 DEF Before
    <2>9. ASSUME NEW y \in O
          PROVE  \E x \in P : m[x] = y
      <3>1. CASE y \in InQueue(q)
        <4>1. PICK k, j : k \in DOMAIN q /\ j \in DOMAIN q[k] /\ y = <<1, k, j, q[k][j]>>
          BY <3>1, PlacesAre
        <4>2. k \in 1..L /\ k \in DOMAIN w /\ w[k] = q[k] /\ k # L + 1
          BY <1>5, <4>1
        <4>3. y \in InQueue(w)
          BY <4>1, <4>2, PlacesAre
        <4>4. y \in P /\ y[1] = 1 /\ y[2] = k
          BY <2>1, <4>1, <4>3
        <4>5. m[y] = y
          BY <2>2, <4>2, <4>4
        <4>6. QED  BY <4>4, <4>5
      <3>2. CASE y \in InBuffer(u)
        <4>1. PICK k, j : k \in DOMAIN u /\ j \in DOMAIN u[k].insts /\ y = <<2, k, j, u[k].insts[j]>>
          BY <3>2, PlacesAre
        <4>2. CASE k = 1
          <5>1. PICK x : x = <<1, L + 1, j, h[j]>>
            OBVIOUS
          <5>2. x \in InQueue(w) /\ j \in DOMAIN h
            <6>1. L + 1 \in DOMAIN w /\ w[L + 1] = h /\ j \in DOMAIN h
              BY <1>4, <1>5, <4>1, <4>2
            <6>2. QED  BY <5>1, <6>1, PlacesAre
          <5>3. x \in P /\ x[1] = 1 /\ x[2] = L + 1 /\ x[3] = j /\ x[4] = h[j]
            BY <2>1, <5>1, <5>2
          <5>4. m[x] = <<2, 1, j, h[j]>>
            BY <2>2, <5>3
          <5>5. m[x] = y
            BY <1>4, <4>1, <4>2, <5>4
          <5>6. QED  BY <5>3, <5>5
        <4>3. CASE k # 1
          <5>1. PICK i \in 1..(K - 1) : k = i + 1
            <6>1. k - 1 \in 1..(K - 1) /\ k = (k - 1) + 1
              BY <1>3, <4>1, <4>3
            <6>2. QED  BY <6>1
          <5>2. i \in DOMAIN v /\ v[i] = u[k]
            BY <1>3, <5>1
          <5>3. PICK x : x = <<2, i, j, v[i].insts[j]>>
            OBVIOUS
          <5>4. x \in InBuffer(v)
            BY <4>1, <5>2, <5>3, PlacesAre
          <5>5. x \in P /\ x[1] = 2 /\ x[2] = i /\ x[3] = j /\ x[4] = u[k].insts[j]
            BY <2>1, <5>2, <5>3, <5>4
          <5>6. m[x] = <<2, i + 1, j, u[k].insts[j]>>
            BY <2>2, <5>5
          <5>7. m[x] = y
            BY <4>1, <5>1, <5>6
          <5>8. QED  BY <5>5, <5>7
        <4>4. QED  BY <4>2, <4>3
      <3>3. CASE y \in C
        <4>1. PICK b, j : j \in DOMAIN b.insts /\ y = <<3, b.id, j, b.insts[j]>>
          BY <2>1, <3>3, PlacesAre
        <4>2. y \in P /\ y[1] = 3
          BY <2>1, <3>3, <4>1
        <4>3. m[y] = y
          BY <2>2, <4>2
        <4>4. QED  BY <4>2, <4>3
      <3>4. QED  BY <2>1, <3>1, <3>2, <3>3
    <2>10. FollowsBy(O, P, m)
      BY <2>7, <2>8, <2>9 DEF FollowsBy
    <2>11. O = Placed(q, p) /\ P = Placed(w, r)
      BY <1>1, <1>6, <2>1 DEF Placed
    <2>12. QED  BY <2>10, <2>11 DEF Follows
  <1>10. QED  BY <1>2, <1>4, <1>7, <1>8, <1>9

\* The clock advances: only the ages change.
LEMMA AgedDoes ==
  /\ \A b \in Answered : aged(b) \in Answered /\ aged(b).id = b.id /\ aged(b).insts = b.insts
  /\ \A b \in InOrder : aged(b) \in InOrder /\ aged(b).insts = b.insts
  <1>1. ASSUME NEW b, b.age \in Nat
        PROVE  \E a \in Nat : aged(b) = [b EXCEPT !.age = a]
    <2>1. PICK a : a = IF b.age < PipeLength THEN b.age + 1 ELSE b.age
      OBVIOUS
    <2>2. a \in Nat
      BY <1>1, <2>1
    <2>3. aged(b) = [b EXCEPT !.age = a]
      BY <2>1 DEF aged
    <2>4. QED  BY <2>2, <2>3
  <1>2. ASSUME NEW b \in Answered
        PROVE  aged(b) \in Answered /\ aged(b).id = b.id /\ aged(b).insts = b.insts
    <2>1. PICK a \in Nat : aged(b) = [b EXCEPT !.age = a]
      BY <1>1 DEF Answered
    <2>2. QED  BY <2>1 DEF Answered
  <1>3. ASSUME NEW b \in InOrder
        PROVE  aged(b) \in InOrder /\ aged(b).insts = b.insts
    <2>1. PICK a \in Nat : aged(b) = [b EXCEPT !.age = a]
      BY <1>1 DEF InOrder
    <2>2. QED  BY <2>1 DEF InOrder
  <1>4. QED  BY <1>2, <1>3

\* A clock passes for the buckets.
LEMMA OlderSteps ==
  ASSUME NEW p, PipeInv(p), NEW r, r = older(p)
  PROVE  Steps(p, r) /\ (Settled(p) => Settled(r))
  <1>1. PICK S, u, L : S = p.received /\ u = p.buffer /\ L = Len(u)
    OBVIOUS
  <1>2. /\ S \in SUBSET Answered /\ IsFiniteSet(S) /\ UniqueIds(S)
        /\ u \in Seq(InOrder) /\ L \in Nat /\ DOMAIN u = 1..L
    BY <1>1 DEF PipeInv, PipeType
  <1>3. PICK N, v : N = {aged(b) : b \in S} /\ v = [k \in 1..L |-> aged(u[k])]
    OBVIOUS
  <1>4. r = [p EXCEPT !.received = N, !.buffer = v]
    BY <1>1, <1>2, <1>3 DEF older
  <1>5. /\ IsPipe(r) /\ r.max = p.max /\ r.nIRequests = p.nIRequests /\ r.pool = p.pool
        /\ r.inflight = p.inflight /\ r.received = N /\ r.buffer = v
        /\ r.flushed = p.flushed
    BY <1>4 DEF PipeInv, PipeType, IsPipe
  <1>6. \A b \in S : aged(b) \in Answered /\ aged(b).id = b.id /\ aged(b).insts = b.insts
    BY <1>2, AgedDoes
  <1>7. IsFiniteSet(N) /\ Cardinality(N) = Cardinality(S) /\ UniqueIds(N)
    <2> DEFINE F == [b \in S |-> aged(b)]
    <2>1. \A b \in S : F[b] = aged(b)
      OBVIOUS
    <2> HIDE DEF F
    <2>2. N = {F[b] : b \in S}
      BY <1>3, <2>1
    <2>3. \A b, c \in S : F[b].id = F[c].id => b.id = c.id
      BY <1>6, <2>1
    <2>4. QED  BY <1>2, <2>2, <2>3, Renamed
  <1>8. N \in SUBSET Answered /\ Ids(N) = Ids(S)
    BY <1>3, <1>6 DEF Ids
  <1>9. InCache(N) = InCache(S)
    <2>1. ASSUME NEW x \in InCache(N)
          PROVE  x \in InCache(S)
      <3>1. PICK d, j : d \in N /\ j \in DOMAIN d.insts /\ x = <<3, d.id, j, d.insts[j]>>
        BY PlacesAre
      <3>2. PICK b \in S : d = aged(b)
        BY <1>3, <3>1
      <3>3. d.id = b.id /\ d.insts = b.insts
        BY <1>6, <3>2
      <3>4. QED  BY <3>1, <3>3, PlacesAre
    <2>2. ASSUME NEW x \in InCache(S)
          PROVE  x \in InCache(N)
      <3>1. PICK b, j : b \in S /\ j \in DOMAIN b.insts /\ x = <<3, b.id, j, b.insts[j]>>
        BY PlacesAre
      <3>2. PICK d \in N : d = aged(b)
        BY <1>3, <3>1
      <3>3. d.id = b.id /\ d.insts = b.insts
        BY <1>6, <3>1, <3>2
      <3>4. QED  BY <3>1, <3>3, PlacesAre
    <2>3. QED  BY <2>1, <2>2
  <1>10. /\ v \in Seq(InOrder) /\ Len(v) = L
         /\ \A k \in 1..L : v[k].insts = u[k].insts
    <2>1. \A k \in 1..L : v[k] = aged(u[k]) /\ u[k] \in InOrder
      BY <1>2, <1>3
    <2>2. \A k \in 1..L : v[k] \in InOrder /\ v[k].insts = u[k].insts
      BY <2>1, AgedDoes
    <2>3. v \in [1..L -> InOrder]
      BY <1>3, <2>2
    <2>4. QED  BY <1>2, <2>2, <2>3
  <1>11. InBuffer(v) = InBuffer(u)
    <2>1. DOMAIN v = 1..L
      BY <1>3
    <2>2. Buffered(v) = Buffered(u)
      BY <1>2, <1>10, <2>1 DEF Buffered
    <2>3. QED  BY <2>2 DEF InBuffer
  <1>12. PipeInv(r) /\ (Settled(p) => Settled(r))
    <2>1. PipeType(r)
      BY <1>5, <1>7, <1>8, <1>10 DEF PipeInv, PipeType
    <2>2. Owned(r, 0..(r.max - 1)) /\ r.max \in Nat
      BY <1>1, <1>5, <1>8 DEF PipeInv, Owned
    <2>3. Settled(p) => Settled(r)
      BY <1>1, <1>5, <1>8 DEF Settled
    <2>4. QED  BY <2>1, <2>2, <2>3 DEF PipeInv
  <1>13. Asks(r) = Asks(p) /\ Buckets(r) = Buckets(p)
    BY <1>1, <1>5, <1>7, <1>10 DEF Asks, Buckets
  <1>14. ASSUME NEW q
         PROVE  Follows(Placed(q, p), Placed(q, r))
    <2>1. InCache(N \cup p.inflight) = InCache(S \cup p.inflight)
      <3>1. PICK I : I = p.inflight
        OBVIOUS
      <3>2. /\ InCache(N \cup I) = InCache(N) \cup InCache(I)
            /\ InCache(S \cup I) = InCache(S) \cup InCache(I)
        BY InCacheUnion
      <3>3. QED  BY <1>9, <3>1, <3>2
    <2>2. Placed(q, r) = Placed(q, p)
      BY <1>1, <1>5, <1>11, <2>1 DEF Placed
    <2>3. QED  BY <2>2, Trimmed
  <1>15. QED  BY <1>12, <1>13, <1>14 DEF Steps

\* The flush of the buckets out of order is a step.
LEMMA FlushReceivedSteps ==
  ASSUME NEW p, PipeInv(p), NEW r, r = flush_transient_inst_from_received_bucket(p)
  PROVE  Steps(p, r) /\ (Settled(p) => Settled(r)) /\ r.buffer = p.buffer
  <1>1. PICK T : T = 0..(p.max - 1) /\ Owned(p, T)
    BY DEF PipeInv
  <1>2. /\ PipeType(r) /\ Owned(r, T) /\ (Settled(p) => Settled(r))
        /\ r.nIRequests = p.nIRequests /\ r.max = p.max
        /\ r.inflight = p.inflight /\ r.buffer = p.buffer
        /\ r.pool + Cardinality(r.received) = p.pool + Cardinality(p.received)
        /\ \A x \in InCache(r.received) : x \in InCache(p.received)
        /\ \A x \in InCache(p.received) : x[4] # TRANSIENT => x \in InCache(r.received)
    <2>1. PipeType(p)
      BY DEF PipeInv
    <2>2. QED  BY <1>1, <2>1, FlushReceivedDoes
  <1>3. PipeInv(r)
    BY <1>1, <1>2 DEF PipeInv
  <1>4. Asks(r) = Asks(p)
    BY <1>2 DEF Asks
  <1>5. Buckets(r) = Buckets(p)
    <2>1. PICK n1 \in Nat, n2 \in Nat : n1 = Cardinality(p.inflight) /\ n2 = Cardinality(p.received)
      BY FS_CardinalityType DEF PipeInv, PipeType
    <2>2. PICK n3 \in Nat, n4 \in Int : n3 = Len(p.buffer) /\ n4 = p.pool
      BY DEF PipeInv, PipeType
    <2>3. PICK n5 \in Nat, n6 \in Int : n5 = Cardinality(r.received) /\ n6 = r.pool
      BY <1>2, FS_CardinalityType DEF PipeType
    <2>4. n6 + n5 = n4 + n2
      BY <1>2, <2>1, <2>2, <2>3
    <2>5. n6 + n1 + n5 + n3 = n4 + n1 + n2 + n3
      BY <2>4
    <2>6. QED  BY <1>2, <2>1, <2>2, <2>3, <2>5 DEF Buckets
  <1>6. ASSUME NEW q
        PROVE  Follows(Placed(q, p), Placed(q, r))
    <2>1. PICK O, P : O = Placed(q, p) /\ P = Placed(q, r)
      OBVIOUS
    <2>2. /\ InCache(p.received \cup p.inflight) = InCache(p.received) \cup InCache(p.inflight)
          /\ InCache(r.received \cup r.inflight) = InCache(r.received) \cup InCache(r.inflight)
      BY InCacheUnion
    <2>3. (\A x \in P : x \in O) /\ \A x \in O : x[4] # TRANSIENT => x \in P
      BY <1>2, <2>1, <2>2 DEF Placed
    <2>4. QED  BY <2>1, <2>3, Trimmed
  <1>7. QED  BY <1>2, <1>3, <1>4, <1>5, <1>6 DEF Steps

-----------------------------------------------------------------------------
(* The instruction queue and its free space.                               *)

\* The members of Slots.
LEMMA SlotsAre ==
  \A q, x : x \in Slots(q) <=> \E k \in DOMAIN q : \E j \in DOMAIN q[k] : x = <<k, j>>
  <1>1. ASSUME NEW q, NEW x
        PROVE  x \in Slots(q) <=> \E k \in DOMAIN q : x \in {k} \X DOMAIN q[k]
    BY DEF Slots
  <1>2. ASSUME NEW k, NEW D, NEW x
        PROVE  x \in {k} \X D <=> \E j \in D : x = <<k, j>>
    OBVIOUS
  <1>3. QED  BY <1>1, <1>2

\* The space that is left and what takes the rest.
QueueInv(q, space) ==
  /\ q \in Seq(Seq(Nat)) /\ \A k \in 1..Len(q) : q[k] # << >>
  /\ space \in Int /\ IsFiniteSet(Slots(q)) /\ space + Cardinality(Slots(q)) = InstQueueSize

\* A bucket takes the space of its instructions (decode_stage).
LEMMA AppendSpace ==
  ASSUME NEW q, NEW space, QueueInv(q, space), NEW h \in Seq(Nat), h # << >>
  PROVE  QueueInv(Append(q, h), space - Len(h))
  <1>1. PICK L, w : L = Len(q) /\ w = Append(q, h)
    OBVIOUS
  <1>2. q \in Seq(Seq(Nat)) /\ (\A k \in 1..Len(q) : q[k] # << >>) /\ space \in Int
    BY DEF QueueInv
  <1>3. /\ L \in Nat /\ DOMAIN q = 1..L /\ w \in Seq(Seq(Nat)) /\ Len(w) = L + 1
        /\ DOMAIN w = 1..(L + 1) /\ w[L + 1] = h /\ \A k \in 1..L : w[k] = q[k]
    BY <1>1, <1>2
  <1>4. \A k \in 1..Len(w) : w[k] # << >>
    BY <1>1, <1>2, <1>3
  <1>5. PICK N, S : N = {L + 1} \X DOMAIN h /\ S = Slots(q)
    OBVIOUS
  <1>6. Len(h) \in Nat /\ DOMAIN h = 1..Len(h)
    OBVIOUS
  <1>7. IsFiniteSet(N) /\ Cardinality(N) = Len(h)
    <2>1. IsFiniteSet(DOMAIN h) /\ Cardinality(DOMAIN h) = Len(h)
      <3>1. PICK l \in Nat : l = Len(h)
        BY <1>6
      <3>2. IsFiniteSet(1..l) /\ Cardinality(1..l) = IF 1 > l THEN 0 ELSE l - 1 + 1
        <4>1. 1 \in Int /\ l \in Int
          OBVIOUS
        <4>2. QED  BY <4>1, FS_Interval
      <3>3. (IF 1 > l THEN 0 ELSE l - 1 + 1) = l
        OBVIOUS
      <3>4. QED  BY <1>6, <3>1, <3>2, <3>3
    <2>2. PICK I, D : I = {L + 1} /\ D = DOMAIN h
      OBVIOUS
    <2>3. IsFiniteSet(I) /\ Cardinality(I) = 1
      BY <2>2, FS_Singleton
    <2>4. IsFiniteSet(I \X D) /\ Cardinality(I \X D) = 1 * Len(h)
      BY <2>1, <2>2, <2>3, FS_Product
    <2>5. 1 * Len(h) = Len(h)
      <3>1. \A l \in Nat : 1 * l = l
        OBVIOUS
      <3>2. QED  BY <1>6, <3>1
    <2>6. QED  BY <1>5, <2>2, <2>4, <2>5
  <1>8. Slots(w) = S \cup N
    <2>1. ASSUME NEW x \in Slots(w)
          PROVE  x \in S \cup N
      <3>1. PICK k, j : k \in DOMAIN w /\ j \in DOMAIN w[k] /\ x = <<k, j>>
        BY SlotsAre
      <3>2. CASE k \in 1..L
        <4>1. k \in DOMAIN q /\ j \in DOMAIN q[k]
          BY <1>3, <3>1, <3>2
        <4>2. QED  BY <1>5, <3>1, <4>1, SlotsAre
      <3>3. CASE k \notin 1..L
        <4>1. k = L + 1 /\ j \in DOMAIN h
          BY <1>3, <3>1, <3>3
        <4>2. QED  BY <1>5, <3>1, <4>1
      <3>4. QED  BY <3>2, <3>3
    <2>2. ASSUME NEW x \in S
          PROVE  x \in Slots(w)
      <3>1. PICK k, j : k \in DOMAIN q /\ j \in DOMAIN q[k] /\ x = <<k, j>>
        BY <1>5, <2>2, SlotsAre
      <3>2. k \in DOMAIN w /\ j \in DOMAIN w[k]
        BY <1>3, <3>1
      <3>3. QED  BY <3>1, <3>2, SlotsAre
    <2>3. ASSUME NEW x \in N
          PROVE  x \in Slots(w)
      <3>1. PICK j \in DOMAIN h : x = <<L + 1, j>>
        BY <1>5, <2>3
      <3>2. L + 1 \in DOMAIN w /\ j \in DOMAIN w[L + 1]
        BY <1>3
      <3>3. QED  BY <3>1, <3>2, SlotsAre
    <2>4. QED  BY <2>1, <2>2, <2>3
  <1>9. S \cap N = {}
    <2>1. ASSUME NEW x \in S, x \in N
          PROVE  FALSE
      <3>1. PICK k, j : k \in DOMAIN q /\ x = <<k, j>>
        BY <1>5, <2>1, SlotsAre
      <3>2. PICK i \in DOMAIN h : x = <<L + 1, i>>
        BY <1>5, <2>1
      <3>3. k = L + 1
        BY <3>1, <3>2
      <3>4. QED  BY <1>3, <3>1, <3>3
    <2>2. QED  BY <2>1
  <1>10. /\ IsFiniteSet(Slots(w)) /\ Cardinality(Slots(w)) = Cardinality(S) + Len(h)
         /\ Cardinality(S) \in Nat
    <2>1. IsFiniteSet(S)
      BY <1>5 DEF QueueInv
    <2>2. IsFiniteSet(S \cup N)
          /\ Cardinality(S \cup N) = Cardinality(S) + Cardinality(N) - Cardinality(S \cap N)
      BY <1>7, <2>1, FS_Union
    <2>3. Cardinality(S \cap N) = 0
      BY <1>9, FS_EmptySet
    <2>4. Cardinality(S) \in Nat
      BY <2>1, FS_CardinalityType
    <2>5. QED  BY <1>6, <1>7, <1>8, <2>2, <2>3, <2>4
  <1>11. space + Cardinality(S) = InstQueueSize
    BY <1>5 DEF QueueInv
  <1>12. (space - Len(h)) + Cardinality(Slots(w)) = InstQueueSize /\ space - Len(h) \in Int
    <2>1. PICK n1 \in Nat, n2 \in Nat : n1 = Cardinality(S) /\ n2 = Len(h)
      BY <1>6, <1>10
    <2>2. (space - n2) + (n1 + n2) = space + n1 /\ space - n2 \in Int
      BY <1>2
    <2>3. QED  BY <1>10, <1>11, <2>1, <2>2
  <1>13. QED  BY <1>1, <1>3, <1>4, <1>10, <1>12 DEF QueueInv

\* What issue leaves of the queue: its first instruction is gone.
FirstOff(q) == LET left == Tail(Head(q)) IN IF left = << >> THEN Tail(q) ELSE [q EXCEPT ![1] = left]

\* Where an instruction of FirstOff(q) was.
BackTo(q, k) == IF Len(q[1]) = 1 THEN k + 1 ELSE k
BackAt(q, k, j) == IF Len(q[1]) # 1 /\ k = 1 THEN j + 1 ELSE j

\* A queue of buckets with something to issue, and what it is without the first of it.
Full(q) == q \in Seq(Seq(Nat)) /\ q # << >> /\ \A k \in 1..Len(q) : q[k] # << >>

OneOff(q, t) ==
  /\ t \in Seq(Seq(Nat)) /\ (\A k \in 1..Len(t) : t[k] # << >>)
  /\ Len(t) = IF Tail(Head(q)) = << >> THEN Len(q) - 1 ELSE Len(q)
  /\ q[1] \in Seq(Nat) /\ Len(q[1]) \in Nat \ {0} /\ Head(Head(q)) = q[1][1]
  /\ Tail(Head(q)) = << >> <=> Len(q[1]) = 1
  /\ Len(q[1]) = 1 => DOMAIN t = 1..(Len(q) - 1) /\ \A k \in 1..(Len(q) - 1) : t[k] = q[k + 1]
  /\ Len(q[1]) # 1 =>
       /\ DOMAIN t = 1..Len(q) /\ t[1] = Tail(q[1])
       /\ \A k \in 2..Len(q) : t[k] = q[k]

\* What FirstOff is, in the two cases.
LEMMA FirstOffDoes ==
  ASSUME NEW q, Full(q), NEW t, t = FirstOff(q)
  PROVE  OneOff(q, t)
  <1> USE DEF Full
  <1>1. PICK L, b, left : L = Len(q) /\ b = q[1] /\ left = Tail(b)
    OBVIOUS
  <1>2. L \in Nat \ {0} /\ DOMAIN q = 1..L /\ Head(q) = b /\ b \in Seq(Nat) /\ b # << >>
    BY <1>1
  <1>3. /\ Len(b) \in Nat \ {0} /\ Head(b) = b[1] /\ left \in Seq(Nat) /\ Len(left) = Len(b) - 1
    BY <1>1, <1>2
  <1>4. left = << >> <=> Len(b) = 1
    <2>1. ASSUME NEW s \in Seq(Nat)
          PROVE  s = << >> <=> Len(s) = 0
      OBVIOUS
    <2>2. left = << >> <=> Len(left) = 0
      BY <1>3, <2>1
    <2>3. QED  BY <1>3, <2>2
  <1>5. t = IF left = << >> THEN Tail(q) ELSE [q EXCEPT ![1] = left]
    BY <1>1, <1>2 DEF FirstOff
  <1>6. CASE Len(b) = 1
    <2>1. t = Tail(q)
      BY <1>4, <1>5, <1>6
    <2>2. /\ t \in Seq(Seq(Nat)) /\ Len(t) = L - 1 /\ DOMAIN t = 1..(L - 1)
          /\ \A k \in 1..(L - 1) : t[k] = q[k + 1]
      BY <1>1, <1>2, <2>1
    <2>3. \A k \in 1..Len(t) : t[k] # << >>
      <3>1. \A k \in 1..(L - 1) : k + 1 \in 1..L
        BY <1>2
      <3>2. QED  BY <1>1, <2>2, <3>1
    <2>4. QED  BY <1>1, <1>2, <1>3, <1>4, <1>6, <2>2, <2>3 DEF OneOff
  <1>7. CASE Len(b) # 1
    <2>1. t = [q EXCEPT ![1] = left] /\ left # << >>
      BY <1>4, <1>5, <1>7
    <2>2. 1 \in 1..L
      BY <1>2
    <2>3. /\ DOMAIN t = 1..L /\ t[1] = left
          /\ \A k \in 2..L : t[k] = q[k]
      BY <1>2, <2>1, <2>2
    <2>4. \A k \in 1..L : t[k] \in Seq(Nat) /\ t[k] # << >>
      <3>1. \A k \in 1..L : k = 1 \/ k \in 2..L
        BY <1>2
      <3>2. \A k \in 2..L : k \in 1..L /\ q[k] \in Seq(Nat)
        BY <1>1
      <3>3. QED  BY <1>1, <1>3, <2>1, <2>3, <3>1, <3>2
    <2>5. t \in [1..L -> Seq(Nat)]
      BY <1>2, <1>3, <2>1, <2>3, <2>4
    <2>6. t \in Seq(Seq(Nat)) /\ Len(t) = L
      BY <1>2, <2>5
    <2>7. QED  BY <1>1, <1>2, <1>3, <1>4, <1>7, <2>1, <2>3, <2>4, <2>6 DEF OneOff
  <1>8. QED  BY <1>6, <1>7

\* Every instruction that is left was somewhere, every one but the first is left.
TracedBack(q, t) ==
  /\ \A k \in DOMAIN t : \A j \in DOMAIN t[k] :
       /\ k \in Nat \ {0} /\ j \in Nat \ {0}
       /\ BackTo(q, k) \in DOMAIN q /\ BackAt(q, k, j) \in DOMAIN q[BackTo(q, k)]
       /\ t[k][j] = q[BackTo(q, k)][BackAt(q, k, j)]
       /\ ~(BackTo(q, k) = 1 /\ BackAt(q, k, j) = 1)
  /\ \A k \in DOMAIN q : \A j \in DOMAIN q[k] : ~(k = 1 /\ j = 1) =>
       \E h \in DOMAIN t : \E i \in DOMAIN t[h] : BackTo(q, h) = k /\ BackAt(q, h, i) = j

\* Each place is traced back.
LEMMA FirstOffWas ==
  ASSUME NEW q, Full(q), NEW t, t = FirstOff(q)
  PROVE  TracedBack(q, t)
  <1>1. PICK L, M : L = Len(q) /\ M = Len(q[1])
    OBVIOUS
  <1>2. /\ t \in Seq(Seq(Nat)) /\ q[1] \in Seq(Nat) /\ M \in Nat \ {0}
        /\ M = 1 => DOMAIN t = 1..(L - 1) /\ \A k \in 1..(L - 1) : t[k] = q[k + 1]
        /\ M # 1 => /\ DOMAIN t = 1..L /\ t[1] = Tail(q[1])
                    /\ \A k \in 2..L : t[k] = q[k]
    <2>1. OneOff(q, t)
      BY FirstOffDoes
    <2>2. QED  BY <1>1, <2>1 DEF OneOff
  <1> USE DEF Full
  <1>3. L \in Nat \ {0} /\ DOMAIN q = 1..L /\ \A k \in 1..L : q[k] \in Seq(Nat)
    BY <1>1
  <1>4. \A k \in 1..L : \A j \in DOMAIN q[k] : j \in Nat \ {0}
    <2>1. ASSUME NEW s \in Seq(Nat), NEW j \in DOMAIN s
          PROVE  j \in Nat \ {0}
      OBVIOUS
    <2>2. QED  BY <1>3, <2>1
  <1>5. CASE M = 1
    <2>1. \A k, j : BackTo(q, k) = k + 1 /\ BackAt(q, k, j) = j
      BY <1>1, <1>5 DEF BackTo, BackAt
    <2>2. ASSUME NEW k \in DOMAIN t, NEW j \in DOMAIN t[k]
          PROVE  /\ k \in Nat \ {0} /\ j \in Nat \ {0}
                 /\ BackTo(q, k) \in DOMAIN q /\ BackAt(q, k, j) \in DOMAIN q[BackTo(q, k)]
                 /\ t[k][j] = q[BackTo(q, k)][BackAt(q, k, j)]
                 /\ ~(BackTo(q, k) = 1 /\ BackAt(q, k, j) = 1)
      <3>1. k \in Nat \ {0} /\ k + 1 \in 1..L /\ t[k] = q[k + 1] /\ k + 1 # 1
        <4>1. k \in 1..(L - 1)
          BY <1>2, <1>5
        <4>2. t[k] = q[k + 1]
          BY <1>2, <1>5, <4>1
        <4>3. k \in Nat \ {0} /\ k + 1 \in 1..L /\ k + 1 # 1
          BY <1>3, <4>1
        <4>4. QED  BY <4>2, <4>3
      <3>2. j \in Nat \ {0}
        BY <1>4, <3>1
      <3>3. QED  BY <1>3, <2>1, <3>1, <3>2
    <2>3. ASSUME NEW k \in DOMAIN q, NEW j \in DOMAIN q[k], ~(k = 1 /\ j = 1)
          PROVE  \E h \in DOMAIN t : \E i \in DOMAIN t[h] : BackTo(q, h) = k /\ BackAt(q, h, i) = j
      <3>1. k # 1
        <4>1. SUFFICES ASSUME k = 1 PROVE j = 1
          BY <2>3
        <4>2. DOMAIN q[1] = 1..M
          BY <1>1, <1>2
        <4>3. j \in 1..1
          BY <1>5, <4>1, <4>2
        <4>4. QED  BY <4>3
      <3>2. PICK h \in 1..(L - 1) : k = h + 1
        <4>1. k - 1 \in 1..(L - 1) /\ k = (k - 1) + 1
          BY <1>3, <3>1
        <4>2. QED  BY <4>1
      <3>3. h \in DOMAIN t /\ t[h] = q[k]
        BY <1>2, <1>5, <3>2
      <3>4. QED  BY <2>1, <3>2, <3>3
    <2>4. QED  BY <2>2, <2>3 DEF TracedBack
  <1>6. CASE M # 1
    <2>1. \A k, j : BackTo(q, k) = k /\ BackAt(q, k, j) = IF k = 1 THEN j + 1 ELSE j
      BY <1>1, <1>6 DEF BackTo, BackAt
    <2>2. PICK s : s = Tail(q[1])
      OBVIOUS
    <2>3. /\ DOMAIN q[1] = 1..M /\ DOMAIN s = 1..(M - 1)
          /\ \A j \in 1..(M - 1) : s[j] = q[1][j + 1]
      <3>1. q[1] # << >>
        BY <1>1, <1>3
      <3>2. QED  BY <1>1, <1>2, <2>2, <3>1
    <2>4. ASSUME NEW k \in DOMAIN t, NEW j \in DOMAIN t[k]
          PROVE  /\ k \in Nat \ {0} /\ j \in Nat \ {0}
                 /\ BackTo(q, k) \in DOMAIN q /\ BackAt(q, k, j) \in DOMAIN q[BackTo(q, k)]
                 /\ t[k][j] = q[BackTo(q, k)][BackAt(q, k, j)]
                 /\ ~(BackTo(q, k) = 1 /\ BackAt(q, k, j) = 1)
      <3>1. k \in 1..L /\ k \in Nat \ {0} /\ k \in DOMAIN q
        BY <1>2, <1>3, <1>6
      <3>2. CASE k = 1
        <4>1. t[k] = s
          BY <1>2, <1>6, <2>2, <3>2
        <4>2. j \in 1..(M - 1)
          BY <2>3, <4>1
        <4>3. j \in Nat \ {0} /\ j + 1 \in 1..M /\ j + 1 # 1
          <5>1. M \in Nat \ {0}
            BY <1>2
          <5>2. QED  BY ONLY <4>2, <5>1
        <4>4. s[j] = q[1][j + 1]
          BY <2>3, <4>2
        <4>5. BackTo(q, k) = 1 /\ BackAt(q, k, j) = j + 1
          BY <2>1, <3>2
        <4>6. QED  BY <2>3, <3>1, <3>2, <4>1, <4>3, <4>4, <4>5
      <3>3. CASE k # 1
        <4>1. k \in 2..L /\ t[k] = q[k]
          BY <1>2, <1>3, <1>6, <3>1, <3>3
        <4>2. BackTo(q, k) = k /\ BackAt(q, k, j) = j
          BY <2>1, <3>3
        <4>3. j \in Nat \ {0}
          BY <1>4, <3>1, <4>1
        <4>4. QED  BY <3>1, <3>3, <4>1, <4>2, <4>3
      <3>4. QED  BY <3>2, <3>3
    <2>5. ASSUME NEW k \in DOMAIN q, NEW j \in DOMAIN q[k], ~(k = 1 /\ j = 1)
          PROVE  \E h \in DOMAIN t : \E i \in DOMAIN t[h] : BackTo(q, h) = k /\ BackAt(q, h, i) = j
      <3>1. k \in DOMAIN t
        BY <1>2, <1>3, <1>6
      <3>2. CASE k = 1
        <4>1. PICK i \in 1..(M - 1) : j = i + 1
          <5>1. j \in 1..M /\ j # 1
            BY <2>3, <2>5, <3>2
          <5>2. j - 1 \in 1..(M - 1) /\ j = (j - 1) + 1
            BY <1>2, <5>1
          <5>3. QED  BY <5>2
        <4>2. t[k] = s /\ i \in DOMAIN t[k]
          BY <1>2, <1>6, <2>2, <2>3, <3>2, <4>1
        <4>3. BackTo(q, k) = k /\ BackAt(q, k, i) = j
          BY <2>1, <3>2, <4>1
        <4>4. QED  BY <3>1, <4>2, <4>3
      <3>3. CASE k # 1
        <4>1. t[k] = q[k]
          <5>1. k \in 2..L
            BY <1>3, <3>3
          <5>2. QED  BY <1>2, <1>6, <5>1
        <4>2. BackTo(q, k) = k /\ BackAt(q, k, j) = j
          BY <2>1, <3>3
        <4>3. QED  BY <3>1, <4>1, <4>2
      <3>4. QED  BY <3>2, <3>3
    <2>6. QED  BY <2>4, <2>5 DEF TracedBack
  <1>7. QED  BY <1>5, <1>6 DEF TracedBack

\* The order of two places was the same.
LEMMA BackInOrder ==
  ASSUME NEW q, NEW k \in Nat \ {0}, NEW j \in Nat \ {0}, NEW h \in Nat \ {0}, NEW i \in Nat \ {0}
  PROVE  /\ BackTo(q, k) \in Nat /\ BackAt(q, k, j) \in Nat
         /\ k < h => BackTo(q, k) < BackTo(q, h)
         /\ k = h /\ j < i => BackTo(q, k) = BackTo(q, h) /\ BackAt(q, k, j) < BackAt(q, h, i)
         /\ BackTo(q, k) = BackTo(q, h) /\ BackAt(q, k, j) = BackAt(q, h, i) => k = h /\ j = i
  <1>1. CASE Len(q[1]) = 1
    BY <1>1 DEF BackTo, BackAt
  <1>2. CASE Len(q[1]) # 1
    BY <1>2 DEF BackTo, BackAt
  <1>3. QED  BY <1>1, <1>2

\* The instruction issued leaves its space.
LEMMA FirstOffSpace ==
  ASSUME NEW q, NEW space, QueueInv(q, space), q # << >>
  PROVE  QueueInv(FirstOff(q), space + 1)
  <1>1. PICK t : t = FirstOff(q)
    OBVIOUS
  <1>2. /\ q \in Seq(Seq(Nat)) /\ (\A k \in 1..Len(q) : q[k] # << >>) /\ space \in Int
        /\ IsFiniteSet(Slots(q)) /\ space + Cardinality(Slots(q)) = InstQueueSize
    BY DEF QueueInv
  <1>3. t \in Seq(Seq(Nat)) /\ \A k \in 1..Len(t) : t[k] # << >>
    <2>1. Full(q)
      BY <1>2 DEF Full
    <2>2. OneOff(q, t)
      BY <1>1, <2>1, FirstOffDoes
    <2>3. QED  BY <2>2 DEF OneOff
  <1>4. /\ \A k \in DOMAIN t : \A j \in DOMAIN t[k] :
              /\ k \in Nat \ {0} /\ j \in Nat \ {0}
              /\ BackTo(q, k) \in DOMAIN q /\ BackAt(q, k, j) \in DOMAIN q[BackTo(q, k)]
              /\ ~(BackTo(q, k) = 1 /\ BackAt(q, k, j) = 1)
        /\ \A k \in DOMAIN q : \A j \in DOMAIN q[k] : ~(k = 1 /\ j = 1) =>
              \E h \in DOMAIN t : \E i \in DOMAIN t[h] : BackTo(q, h) = k /\ BackAt(q, h, i) = j
    <2>1. Full(q)
      BY <1>2 DEF Full
    <2>2. TracedBack(q, t)
      BY <1>1, <2>1, FirstOffWas
    <2>3. QED  BY <2>2 DEF TracedBack
  <1>5. PICK S, T, y : S = Slots(t) /\ T = Slots(q) \ {y} /\ y = <<1, 1>>
    OBVIOUS
  <1> DEFINE F == [x \in S |-> <<BackTo(q, x[1]), BackAt(q, x[1], x[2])>>]
  <1>6. \A x \in S : F[x] = <<BackTo(q, x[1]), BackAt(q, x[1], x[2])>>
    OBVIOUS
  <1>7. ASSUME NEW x \in S
        PROVE  /\ x = <<x[1], x[2]>> /\ x[1] \in Nat \ {0} /\ x[2] \in Nat \ {0}
               /\ F[x] \in T
    <2>1. PICK k, j : k \in DOMAIN t /\ j \in DOMAIN t[k] /\ x = <<k, j>>
      BY <1>5, <1>7, SlotsAre
    <2>2. x[1] = k /\ x[2] = j /\ k \in Nat \ {0} /\ j \in Nat \ {0}
      BY <1>4, <2>1
    <2> HIDE DEF F
    <2>3. F[x] = <<BackTo(q, k), BackAt(q, k, j)>>
      BY <1>6, <2>2
    <2>4. F[x] \in Slots(q) /\ F[x] # y
      <3>1. /\ BackTo(q, k) \in DOMAIN q /\ BackAt(q, k, j) \in DOMAIN q[BackTo(q, k)]
            /\ ~(BackTo(q, k) = 1 /\ BackAt(q, k, j) = 1)
        BY <1>4, <2>1
      <3>2. F[x] \in Slots(q)
        BY <2>3, <3>1, SlotsAre
      <3>3. QED  BY <1>5, <2>3, <3>1, <3>2
    <2>5. QED  BY <1>5, <2>1, <2>2, <2>4
  <1>8. ASSUME NEW x \in S, NEW z \in S, F[x] = F[z]
        PROVE  x = z
    <2>1. BackTo(q, x[1]) = BackTo(q, z[1]) /\ BackAt(q, x[1], x[2]) = BackAt(q, z[1], z[2])
      <3>1. /\ F[x] = <<BackTo(q, x[1]), BackAt(q, x[1], x[2])>>
            /\ F[z] = <<BackTo(q, z[1]), BackAt(q, z[1], z[2])>>
        BY <1>6
      <3>2. F[x] = F[z]
        BY <1>8
      <3> HIDE DEF F
      <3>3. \A a, b, c, d : <<a, b>> = <<c, d>> => a = c /\ b = d
        OBVIOUS
      <3>4. QED  BY <3>1, <3>2, <3>3
    <2> HIDE DEF F
    <2>2. PICK k \in Nat \ {0}, j \in Nat \ {0}, h \in Nat \ {0}, i \in Nat \ {0} :
            x[1] = k /\ x[2] = j /\ z[1] = h /\ z[2] = i
      BY <1>7
    <2>3. k = h /\ j = i
      BY <2>1, <2>2, BackInOrder
    <2>4. x = <<x[1], x[2]>> /\ z = <<z[1], z[2]>>
      BY <1>7
    <2>5. QED  BY <2>2, <2>3, <2>4
  <1>9. ASSUME NEW z \in T
        PROVE  \E x \in S : F[x] = z
    <2>1. PICK k, j : k \in DOMAIN q /\ j \in DOMAIN q[k] /\ z = <<k, j>>
      BY <1>5, <1>9, SlotsAre
    <2>2. ~(k = 1 /\ j = 1)
      BY <1>5, <1>9, <2>1
    <2>3. PICK h, i : h \in DOMAIN t /\ i \in DOMAIN t[h] /\ BackTo(q, h) = k /\ BackAt(q, h, i) = j
      BY <1>4, <2>1, <2>2
    <2>4. PICK x : x = <<h, i>>
      OBVIOUS
    <2>5. x \in S /\ x[1] = h /\ x[2] = i
      BY <1>5, <2>3, <2>4, SlotsAre
    <2>6. F[x] = z
      <3> HIDE DEF F
      <3>1. QED  BY <1>6, <2>1, <2>3, <2>5
    <2>7. QED  BY <2>5, <2>6
  <1>10. F \in Injection(S, T) /\ F \in Surjection(S, T)
    <2>1. F \in [S -> T]
      BY <1>7
    <2> HIDE DEF F
    <2>2. QED  BY <1>8, <1>9, <2>1 DEF Injection, Surjection, IsInjective
  <1> HIDE DEF F
  <1>11. /\ y \in Slots(q) /\ IsFiniteSet(T) /\ Cardinality(T) = Cardinality(Slots(q)) - 1
         /\ Cardinality(Slots(q)) \in Nat
    <2>1. 1 \in DOMAIN q /\ 1 \in DOMAIN q[1]
      <3>1. 1 \in 1..Len(q)
        BY <1>2
      <3>2. q[1] \in Seq(Nat) /\ q[1] # << >>
        BY <1>2, <3>1
      <3>3. QED  BY <1>2, <3>1, <3>2
    <2>2. y \in Slots(q)
      BY <1>5, <2>1, SlotsAre
    <2>3. QED  BY <1>2, <1>5, <2>2, FS_RemoveElement, FS_CardinalityType
  <1>12. IsFiniteSet(S) /\ Cardinality(S) = Cardinality(T)
    BY <1>10, <1>11, FS_Injection
  <1>13. (space + 1) + Cardinality(S) = InstQueueSize
    BY <1>2, <1>11, <1>12
  <1>14. space + 1 \in Int
    BY <1>2
  <1>15. QED  BY <1>1, <1>3, <1>5, <1>12, <1>13, <1>14 DEF QueueInv
\* The first instruction is gone, the others keep their order.
IsFirst(y, O) == y \in O /\ \A x \in O \ {y} : Before(y, x)
Behind(B) == \A x \in B : x[1] \in {2, 3}
FrontOf(q) == <<1, 1, 1, q[1][1]>>

\* It was in front of all the others.
LEMMA FirstOffFollows ==
  ASSUME NEW q, Full(q), NEW t, t = FirstOff(q), NEW B, Behind(B), NEW y0, y0 = FrontOf(q)
  PROVE  /\ IsFirst(y0, InQueue(q) \cup B)
         /\ Follows((InQueue(q) \cup B) \ {y0}, InQueue(t) \cup B)
  <1> USE DEF FrontOf, Behind
  <1>1. \A a, b, c, d : /\ <<a, b, c, d>>[1] = a /\ <<a, b, c, d>>[2] = b
                        /\ <<a, b, c, d>>[3] = c /\ <<a, b, c, d>>[4] = d
    OBVIOUS
  <1>2. /\ \A k \in DOMAIN t : \A j \in DOMAIN t[k] :
              /\ k \in Nat \ {0} /\ j \in Nat \ {0}
              /\ BackTo(q, k) \in DOMAIN q /\ BackAt(q, k, j) \in DOMAIN q[BackTo(q, k)]
              /\ t[k][j] = q[BackTo(q, k)][BackAt(q, k, j)]
              /\ ~(BackTo(q, k) = 1 /\ BackAt(q, k, j) = 1)
        /\ \A k \in DOMAIN q : \A j \in DOMAIN q[k] : ~(k = 1 /\ j = 1) =>
              \E h \in DOMAIN t : \E i \in DOMAIN t[h] : BackTo(q, h) = k /\ BackAt(q, h, i) = j
    <2>1. TracedBack(q, t)
      BY FirstOffWas
    <2>2. QED  BY <2>1 DEF TracedBack
  <1> USE DEF Full
  <1>3. \A k \in DOMAIN q : \A j \in DOMAIN q[k] : k \in Nat \ {0} /\ j \in Nat \ {0}
    <2>1. ASSUME NEW k \in DOMAIN q, NEW j \in DOMAIN q[k]
          PROVE  k \in Nat \ {0} /\ j \in Nat \ {0}
      <3>1. k \in Nat \ {0} /\ q[k] \in Seq(Nat)
        OBVIOUS
      <3>2. QED  BY <3>1
    <2>2. QED  BY <2>1
  <1>4. y0 \in InQueue(q)
    <2>1. 1 \in DOMAIN q /\ 1 \in DOMAIN q[1]
      <3>1. 1 \in 1..Len(q)
        OBVIOUS
      <3>2. q[1] \in Seq(Nat) /\ q[1] # << >>
        BY <3>1
      <3>3. QED  BY <3>1, <3>2
    <2>2. QED  BY <2>1, PlacesAre
  <1>5. /\ \A x \in InQueue(q) : x[1] = 1
        /\ \A x \in InQueue(t) : x[1] = 1
    BY <1>1, PlacesAre
  <1>6. ASSUME NEW x \in (InQueue(q) \cup B) \ {y0}
        PROVE  Before(y0, x)
    <2>1. y0[1] = 1 /\ y0[2] = 1 /\ y0[3] = 1
      BY <1>1
    <2>2. CASE x \in B
      <3>1. x[1] \in {2, 3}
        BY <2>2
      <3>2. 1 < x[1]
        BY <3>1
      <3>3. QED  BY <2>1, <3>2 DEF Before
    <2>3. CASE x \in InQueue(q)
      <3>1. PICK k, j : k \in DOMAIN q /\ j \in DOMAIN q[k] /\ x = <<1, k, j, q[k][j]>>
        BY <2>3, PlacesAre
      <3>2. k \in Nat \ {0} /\ j \in Nat \ {0} /\ x[1] = 1 /\ x[2] = k /\ x[3] = j
        BY <1>1, <1>3, <3>1
      <3>3. ~(k = 1 /\ j = 1)
        BY <1>6, <3>1
      <3>4. 1 < k \/ (1 = k /\ 1 < j)
        BY <3>2, <3>3
      <3>5. QED  BY <2>1, <3>2, <3>4 DEF Before
    <2>4. QED  BY <1>6, <2>2, <2>3
  <1> DEFINE O == (InQueue(q) \cup B) \ {y0}
             P == InQueue(t) \cup B
             m == [x \in P |-> IF x[1] = 1 THEN <<1, BackTo(q, x[2]), BackAt(q, x[2], x[3]), x[4]>>
                               ELSE x]
  <1>7. \A x \in P : /\ x[1] = 1 => m[x] = <<1, BackTo(q, x[2]), BackAt(q, x[2], x[3]), x[4]>>
                     /\ x[1] # 1 => m[x] = x
    OBVIOUS
  <1> HIDE DEF m
  <1>8. ASSUME NEW x \in InQueue(t)
        PROVE  \E k, j \in Nat \ {0} :
                 /\ k \in DOMAIN t /\ j \in DOMAIN t[k]
                 /\ x = <<1, k, j, x[4]>> /\ x[1] = 1 /\ x[2] = k /\ x[3] = j
                 /\ m[x] = <<1, BackTo(q, k), BackAt(q, k, j), x[4]>>
                 /\ m[x][1] = 1 /\ m[x][2] = BackTo(q, k) /\ m[x][3] = BackAt(q, k, j)
                 /\ m[x][4] = x[4] /\ m[x] \in O
    <2>1. PICK k, j : k \in DOMAIN t /\ j \in DOMAIN t[k] /\ x = <<1, k, j, t[k][j]>>
      BY <1>8, PlacesAre
    <2>2. x[1] = 1 /\ x[2] = k /\ x[3] = j /\ x[4] = t[k][j]
      BY <1>1, <2>1
    <2>3. m[x] = <<1, BackTo(q, k), BackAt(q, k, j), x[4]>>
      <3>1. x \in P
        BY <1>8
      <3>2. QED  BY <1>7, <2>2, <3>1
    <2>4. /\ m[x][1] = 1 /\ m[x][2] = BackTo(q, k) /\ m[x][3] = BackAt(q, k, j)
          /\ m[x][4] = x[4]
      BY <1>1, <2>3
    <2>5. /\ k \in Nat \ {0} /\ j \in Nat \ {0}
          /\ BackTo(q, k) \in DOMAIN q /\ BackAt(q, k, j) \in DOMAIN q[BackTo(q, k)]
          /\ t[k][j] = q[BackTo(q, k)][BackAt(q, k, j)]
          /\ ~(BackTo(q, k) = 1 /\ BackAt(q, k, j) = 1)
      BY <1>2, <2>1
    <2>6. m[x] \in InQueue(q)
      BY <2>2, <2>3, <2>5, PlacesAre
    <2>7. m[x] # y0
      BY <1>1, <2>4, <2>5
    <2>8. QED  BY <2>1, <2>2, <2>3, <2>4, <2>5, <2>6, <2>7
  <1>9. ASSUME NEW x \in B
        PROVE  m[x] = x /\ x[1] \in {2, 3} /\ x \in O
    <2>1. x[1] \in {2, 3} /\ x[1] # 1
      OBVIOUS
    <2>2. x # y0
      BY <1>1, <2>1
    <2>3. QED  BY <1>7, <2>1, <2>2
  <1>10. \A x \in P : m[x] \in O /\ m[x][4] = x[4]
    BY <1>8, <1>9
  <1>11. ASSUME NEW x \in P, NEW y \in P, Before(x, y)
         PROVE  Before(m[x], m[y])
    <2>1. CASE x \in InQueue(t) /\ y \in InQueue(t)
      <3>1. PICK k \in Nat \ {0}, j \in Nat \ {0} :
              /\ x[1] = 1 /\ x[2] = k /\ x[3] = j
              /\ m[x][1] = 1 /\ m[x][2] = BackTo(q, k) /\ m[x][3] = BackAt(q, k, j)
        BY <1>8, <2>1
      <3>2. PICK h \in Nat \ {0}, i \in Nat \ {0} :
              /\ y[1] = 1 /\ y[2] = h /\ y[3] = i
              /\ m[y][1] = 1 /\ m[y][2] = BackTo(q, h) /\ m[y][3] = BackAt(q, h, i)
        BY <1>8, <2>1
      <3>3. k < h \/ (k = h /\ j < i)
        BY <1>11, <3>1, <3>2 DEF Before
      <3>4. /\ k < h => BackTo(q, k) < BackTo(q, h)
            /\ k = h /\ j < i => BackTo(q, k) = BackTo(q, h) /\ BackAt(q, k, j) < BackAt(q, h, i)
        BY BackInOrder
      <3>5. QED  BY <3>1, <3>2, <3>3, <3>4 DEF Before
    <2>2. CASE x \in InQueue(t) /\ y \in B
      <3>1. m[x][1] = 1 /\ m[y] = y /\ y[1] \in {2, 3}
        BY <1>8, <1>9, <2>2
      <3>2. 1 < y[1]
        BY <3>1
      <3>3. QED  BY <3>1, <3>2 DEF Before
    <2>3. CASE x \in B /\ y \in InQueue(t)
      <3>1. x[1] \in {2, 3} /\ y[1] = 1
        BY <1>5, <1>9, <2>3
      <3>2. QED  BY <1>11, <3>1 DEF Before
    <2>4. CASE x \in B /\ y \in B
      BY <1>9, <1>11, <2>4
    <2>5. QED  BY <1>11, <2>1, <2>2, <2>3, <2>4
  <1>12. ASSUME NEW y \in O
         PROVE  \E x \in P : m[x] = y
    <2>1. CASE y \in B
      BY <1>9, <2>1
    <2>2. CASE y \in InQueue(q)
      <3>1. PICK k, j : k \in DOMAIN q /\ j \in DOMAIN q[k] /\ y = <<1, k, j, q[k][j]>>
        BY <2>2, PlacesAre
      <3>2. ~(k = 1 /\ j = 1)
        BY <1>12, <3>1
      <3>3. PICK h, i : h \in DOMAIN t /\ i \in DOMAIN t[h] /\ BackTo(q, h) = k /\ BackAt(q, h, i) = j
        BY <1>2, <3>1, <3>2
      <3>4. PICK x : x = <<1, h, i, t[h][i]>>
        OBVIOUS
      <3>5. x \in InQueue(t) /\ x[1] = 1 /\ x[2] = h /\ x[3] = i /\ x[4] = t[h][i]
        BY <1>1, <3>3, <3>4, PlacesAre
      <3>6. m[x] = <<1, k, j, t[h][i]>>
        <4>1. x \in P
          BY <3>5
        <4>2. QED  BY <1>7, <3>3, <3>5, <4>1
      <3>7. t[h][i] = q[k][j]
        BY <1>2, <3>3
      <3>8. QED  BY <3>1, <3>5, <3>6, <3>7
    <2>3. QED  BY <1>12, <2>1, <2>2
  <1>13. FollowsBy(O, P, m)
    BY <1>10, <1>11, <1>12 DEF FollowsBy
  <1>14. Follows(O, P)
    BY <1>13 DEF Follows
  <1>15. IsFirst(y0, InQueue(q) \cup B)
    BY <1>4, <1>6 DEF IsFirst
  <1>16. QED  BY <1>14, <1>15

\* The instruction in front of all the others is the next of the program, or a transient one.
LEMMA FirstGone ==
  ASSUME NEW O, NEW lo \in Nat, NEW hi \in Nat, Kept(O, lo, hi),
         NEW y, IsFirst(y, O)
  PROVE  /\ y[4] = TRANSIENT => Kept(O \ {y}, lo, hi)
         /\ y[4] # TRANSIENT => lo + 1 <= hi /\ Kept(O \ {y}, lo + 1, hi)
  <1>1. /\ {x[4] : x \in O} \ {TRANSIENT} = (lo + 1)..hi
        /\ \A x, z \in O : Before(x, z) /\ z[4] # TRANSIENT => x[4] # TRANSIENT /\ x[4] < z[4]
    BY DEF Kept
  <1>2. PICK v : v = y[4]
    OBVIOUS
  <1> USE DEF IsFirst
  <1>3. \A x, z \in O \ {y} : Before(x, z) /\ z[4] # TRANSIENT => x[4] # TRANSIENT /\ x[4] < z[4]
    BY <1>1
  <1>4. ASSUME v = TRANSIENT
        PROVE  Kept(O \ {y}, lo, hi)
    <2>1. {x[4] : x \in O \ {y}} \ {TRANSIENT} = {x[4] : x \in O} \ {TRANSIENT}
      BY <1>2, <1>4
    <2>2. QED  BY <1>1, <1>3, <2>1 DEF Kept
  <1>5. ASSUME v # TRANSIENT
        PROVE  lo + 1 <= hi /\ Kept(O \ {y}, lo + 1, hi)
    <2>1. v \in (lo + 1)..hi
      BY <1>1, <1>2, <1>5
    <2>2. v \in Int /\ lo + 1 <= hi /\ lo + 1 \in (lo + 1)..hi /\ lo + 1 <= v /\ v <= hi
      BY <2>1
    <2>3. \A x \in O \ {y} : x[4] # TRANSIENT => v < x[4] /\ x[4] \in (lo + 1)..hi
      BY <1>1, <1>2
    <2>4. \A w \in (lo + 1)..hi : \E x \in O : x[4] = w /\ w # TRANSIENT
      BY <1>1
    <2>5. v = lo + 1
      <3>1. SUFFICES ASSUME v # lo + 1 PROVE FALSE
        OBVIOUS
      <3>2. PICK x \in O : x[4] = lo + 1 /\ lo + 1 # TRANSIENT
        BY <2>2, <2>4
      <3>3. x # y
        BY <1>2, <3>1, <3>2
      <3>4. v < lo + 1
        BY <2>3, <3>2, <3>3
      <3>5. QED  BY <2>2, <3>4
    <2>6. ASSUME NEW w \in {x[4] : x \in O \ {y}} \ {TRANSIENT}
          PROVE  w \in ((lo + 1) + 1)..hi
      <3>1. PICK x \in O \ {y} : x[4] = w
        BY <2>6
      <3>2. v < w /\ w \in (lo + 1)..hi
        BY <2>3, <2>6, <3>1
      <3>3. QED  BY <2>5, <3>2
    <2>7. ASSUME NEW w \in ((lo + 1) + 1)..hi
          PROVE  w \in {x[4] : x \in O \ {y}} \ {TRANSIENT}
      <3>1. w \in (lo + 1)..hi /\ w # lo + 1
        BY <2>7
      <3>2. PICK x \in O : x[4] = w /\ w # TRANSIENT
        BY <2>4, <3>1
      <3>3. x # y
        BY <1>2, <2>5, <3>1, <3>2
      <3>4. QED  BY <3>2, <3>3
    <2>8. {x[4] : x \in O \ {y}} \ {TRANSIENT} = ((lo + 1) + 1)..hi
      BY <2>6, <2>7
    <2>9. QED  BY <1>3, <2>2, <2>8 DEF Kept
  <1>6. QED  BY <1>2, <1>4, <1>5

-----------------------------------------------------------------------------
(* The record of the shared variables, as the stages pass it on.           *)

IsCore(c) ==
  c = [pipe |-> c.pipe, fe |-> c.fe, instQueue |-> c.instQueue, space |-> c.space, n |-> c.n,
       issued |-> c.issued, retired |-> c.retired, busy |-> c.busy, task |-> c.task]

\* Every bucket is somewhere, every request is counted.
PoolInv(c) == /\ Buckets(c.pipe) + Len(c.instQueue) = bucketPoolMaxSize
              /\ Asks(c.pipe) = MaxIRequests

\* The instructions waiting; transient ones only where they are injected.
PlacesInv(c, transients) ==
  /\ Kept(Placed(c.instQueue, c.pipe), c.issued, c.n)
  /\ ~transients => AllReal(Placed(c.instQueue, c.pipe))

\* How far the program has come, and what the task handler may conclude from it.
CountsInv(c) ==
  /\ c.retired \in Nat /\ c.issued \in Nat /\ c.n \in Nat
  /\ c.retired <= c.issued /\ c.issued <= c.n /\ c.n <= MaxInst
  /\ c.busy \in BOOLEAN /\ (~c.busy => c.n = 0)
  /\ c.task # "active" => c.n = MaxInst
  /\ c.task = "down" => c.retired = MaxInst

CoreInv(c, transients) ==
  /\ IsCore(c) /\ QueueInv(c.instQueue, c.space)
  /\ PipeInv(c.pipe) /\ Settled(c.pipe) /\ PoolInv(c) /\ PlacesInv(c, transients)
  /\ EngineInv(c.fe) /\ BlocksAfter(c.fe, c.retired) /\ CountsInv(c)

\* What the flushes and decode leave alone.
SameProgress(c, d) ==
  /\ d.fe = c.fe /\ d.n = c.n /\ d.issued = c.issued /\ d.retired = c.retired
  /\ d.busy = c.busy /\ d.task = c.task

\* These parts of the invariant are about nothing else.
LEMMA ProgressKept ==
  ASSUME NEW c, NEW d, SameProgress(c, d), EngineInv(c.fe), BlocksAfter(c.fe, c.retired), CountsInv(c)
  PROVE  EngineInv(d.fe) /\ BlocksAfter(d.fe, d.retired) /\ CountsInv(d)
  BY DEF SameProgress, CountsInv

\* Places that follow one another keep the instructions.
LEMMA PlacesFollow ==
  ASSUME NEW c, NEW d, NEW transients, PlacesInv(c, transients), d.n = c.n, d.issued = c.issued,
         Follows(Placed(c.instQueue, c.pipe), Placed(d.instQueue, d.pipe))
  PROVE  PlacesInv(d, transients)
  BY FollowsKeeps DEF PlacesInv

\* Buckets go back to the pool.
Refilled(p, i) == [p EXCEPT !.pool = @ + i]

\* Only the pool changes.
LEMMA PoolDoes ==
  ASSUME NEW p, PipeInv(p), NEW i \in Int, NEW r, r = Refilled(p, i)
  PROVE  /\ PipeInv(r) /\ (Settled(p) => Settled(r)) /\ Asks(r) = Asks(p)
         /\ Buckets(r) = Buckets(p) + i /\ Buckets(p) \in Int
         /\ \A q : Placed(q, r) = Placed(q, p)
  <1>1. /\ IsPipe(r) /\ r.pool = p.pool + i /\ r.nIRequests = p.nIRequests /\ r.max = p.max
        /\ r.inflight = p.inflight /\ r.received = p.received /\ r.buffer = p.buffer
        /\ r.flushed = p.flushed
    BY DEF PipeInv, PipeType, IsPipe, Refilled
  <1>2. PipeInv(r)
    <2>1. p.pool + i \in Int
      BY DEF PipeInv, PipeType
    <2>2. PipeType(r)
      BY <1>1, <2>1 DEF PipeInv, PipeType
    <2>3. QED  BY <1>1, <2>2 DEF PipeInv, Owned
  <1>3. (Settled(p) => Settled(r)) /\ Asks(r) = Asks(p)
    BY <1>1 DEF Settled, Asks
  <1>4. Buckets(r) = Buckets(p) + i /\ Buckets(p) \in Int
    <2>1. PICK a, b, l, e : a = Cardinality(p.inflight) /\ b = Cardinality(p.received)
                            /\ l = Len(p.buffer) /\ e = p.pool
      OBVIOUS
    <2>2. a \in Nat /\ b \in Nat /\ l \in Nat /\ e \in Int
      BY <2>1, FS_CardinalityType DEF PipeInv, PipeType
    <2>3. (e + i) + a + b + l = (e + a + b + l) + i /\ e + a + b + l \in Int
      BY <2>2
    <2>4. QED  BY <1>1, <2>1, <2>3 DEF Buckets
  <1>5. \A q : Placed(q, r) = Placed(q, p)
    BY <1>1 DEF Placed
  <1>6. QED  BY <1>2, <1>3, <1>4, <1>5

\* A step of the pipeline is one of the core.
LEMMA PipeStepsCore ==
  ASSUME NEW c, NEW transients, CoreInv(c, transients), NEW p, Steps(c.pipe, p), Settled(p),
         NEW d, d = [c EXCEPT !.pipe = p]
  PROVE  CoreInv(d, transients) /\ SameProgress(c, d) /\ d.pipe = p /\ d.instQueue = c.instQueue
  <1>1. /\ IsCore(d) /\ d.pipe = p /\ d.instQueue = c.instQueue /\ d.space = c.space
        /\ SameProgress(c, d)
    BY DEF CoreInv, IsCore, SameProgress
  <1>2. PipeInv(p) /\ PoolInv(d)
    BY <1>1 DEF CoreInv, PoolInv, Steps
  <1>3. PlacesInv(d, transients)
    <2>1. Follows(Placed(c.instQueue, c.pipe), Placed(d.instQueue, d.pipe))
      BY <1>1 DEF Steps
    <2>2. d.n = c.n /\ d.issued = c.issued /\ PlacesInv(c, transients)
      BY <1>1 DEF SameProgress, CoreInv
    <2>3. QED  BY <2>1, <2>2, PlacesFollow
  <1>4. EngineInv(d.fe) /\ BlocksAfter(d.fe, d.retired) /\ CountsInv(d)
    BY <1>1, ProgressKept DEF CoreInv
  <1>5. QED  BY <1>1, <1>2, <1>3, <1>4 DEF CoreInv

\* The space of what is cut off the queue is given back.
LEMMA CutSpace ==
  ASSUME NEW q, NEW space, QueueInv(q, space), NEW k, LastReal(q, k), NEW t, t = Cut(q, k)
  PROVE  QueueInv(t, space + Cardinality(Slots(q) \ Slots(t)))
  <1>1. /\ q \in Seq(Seq(Nat)) /\ (\A j \in 1..Len(q) : q[j] # << >>) /\ space \in Int
        /\ IsFiniteSet(Slots(q)) /\ space + Cardinality(Slots(q)) = InstQueueSize
    BY DEF QueueInv
  <1>2. /\ t \in Seq(Seq(Nat)) /\ Len(t) = k /\ (\A j \in 1..k : t[j] # << >>)
        /\ \A x \in InSeq(1, t) : x \in InSeq(1, q)
    BY <1>1, CutDoes
  <1>3. ASSUME NEW x \in Slots(t)
        PROVE  x \in Slots(q)
    <2>1. PICK h, j : h \in DOMAIN t /\ j \in DOMAIN t[h] /\ x = <<h, j>>
      BY <1>3, SlotsAre
    <2>2. PICK y : y = <<1, h, j, t[h][j]>>
      OBVIOUS
    <2>3. y \in InSeq(1, q)
      <3>1. y \in InSeq(1, t)
        BY <2>1, <2>2, PlacesAre
      <3>2. QED  BY <1>2, <3>1
    <2>4. PICK g, i : g \in DOMAIN q /\ i \in DOMAIN q[g] /\ y = <<1, g, i, q[g][i]>>
      BY <2>3, PlacesAre
    <2>5. g = h /\ i = j
      BY <2>2, <2>4
    <2>6. QED  BY <2>1, <2>4, <2>5, SlotsAre
  <1>4. PICK S, T : S = Slots(q) /\ T = Slots(t)
    OBVIOUS
  <1>5. IsFiniteSet(S) /\ T \subseteq S
    BY <1>1, <1>3, <1>4
  <1>6. IsFiniteSet(T) /\ Cardinality(T) \in Nat /\ Cardinality(S) \in Nat
    BY <1>5, FS_Subset, FS_CardinalityType
  <1>7. Cardinality(S \ T) = Cardinality(S) - Cardinality(T)
    <2>1. Cardinality(S \ T) = Cardinality(S) - Cardinality(S \cap T)
      BY <1>5, FS_Difference
    <2>2. S \cap T = T
      BY <1>5
    <2>3. QED  BY <2>1, <2>2
  <1>8. /\ space + Cardinality(S \ T) \in Int
        /\ (space + Cardinality(S \ T)) + Cardinality(T) = InstQueueSize
    <2>1. PICK a \in Nat, b \in Nat : a = Cardinality(S) /\ b = Cardinality(T)
      BY <1>6
    <2>2. (space + (a - b)) + b = space + a /\ space + (a - b) \in Int
      BY <1>1
    <2>3. QED  BY <1>1, <1>4, <1>7, <2>1, <2>2
  <1>9. QED  BY <1>2, <1>4, <1>6, <1>8 DEF QueueInv

-----------------------------------------------------------------------------
(* Fetch.                                                                  *)

\* The instruction queue is flushed (flush_transient_inst_from_inst_queue).
LEMMA FlushQueueCore ==
  ASSUME NEW c, NEW transients, CoreInv(c, transients),
         NEW d, d = flush_transient_inst_from_inst_queue(c)
  PROVE  CoreInv(d, transients) /\ SameProgress(c, d) /\ AllReal(InQueue(d.instQueue))
  <1>1. PICK q, p, L : q = c.instQueue /\ p = c.pipe /\ L = Len(q)
    OBVIOUS
  <1>2. /\ q \in Seq(Seq(Nat)) /\ L \in Nat /\ QueueInv(q, c.space) /\ PipeInv(p) /\ Settled(p)
    BY <1>1 DEF CoreInv, QueueInv
  <1> DEFINE I == {j \in 1..L : Real(q[j])}
  <1>3. PICK k : k = IF I # {} THEN Max(I) ELSE 0
    OBVIOUS
  <1>4. LastReal(q, k)
    <2>1. I \in SUBSET (1..L)
      OBVIOUS
    <2>2. \A j \in 1..L : Real(q[j]) <=> j \in I
      OBVIOUS
    <2>3. k \in 0..L /\ (k # 0 => k \in I) /\ \A j \in I : j <= k
      <3> HIDE DEF I
      <3>1. QED  BY <1>2, <1>3, <2>1, LastOf
    <2> HIDE DEF I
    <2>4. k # 0 => Real(q[k])
      BY <2>1, <2>2, <2>3
    <2>5. ASSUME NEW j \in 1..L, k < j PROVE ~Real(q[j])
      <3>1. ~(j <= k)
        BY <1>2, <2>3, <2>5
      <3>2. QED  BY <2>2, <2>3, <3>1
    <2>6. QED  BY <1>1, <2>3, <2>4, <2>5 DEF LastReal
  <1>5. PICK t, e : t = Cut(q, k) /\ e = Cardinality(Slots(q) \ Slots(t))
    OBVIOUS
  <1>6. k = SelectLastInSeq(q, Real)
    BY <1>1, <1>3 DEF SelectLastInSeq
  <1> HIDE DEF I
  <1>7. d = [c EXCEPT !.instQueue = t, !.space = @ + e, !.pipe.pool = @ + L - k]
    BY <1>1, <1>5, <1>6 DEF flush_transient_inst_from_inst_queue, Cut
  <1>8. PICK i, r : i = L - k /\ r = Refilled(p, i)
    OBVIOUS
  <1>9. i \in Int /\ k \in Nat
    BY <1>1, <1>2, <1>4, <1>8 DEF LastReal
  <1>10. /\ IsCore(d) /\ d.instQueue = t /\ d.space = c.space + e /\ SameProgress(c, d)
    BY <1>7 DEF CoreInv, IsCore, SameProgress
  <1>11. d.pipe = r
    <2>1. p.pool \in Int /\ p.pool + L - k = p.pool + i
      <3>1. p.pool \in Int
        BY <1>2 DEF PipeInv, PipeType
      <3>2. QED  BY <1>2, <1>8, <1>9, <3>1
    <2>2. d.pipe = [p EXCEPT !.pool = p.pool + L - k]
      BY <1>1, <1>7 DEF CoreInv, IsCore
    <2>3. QED  BY <1>8, <2>1, <2>2 DEF Refilled
  <1>12. /\ PipeInv(r) /\ Settled(r) /\ Asks(r) = Asks(p)
         /\ Buckets(r) = Buckets(p) + i /\ Buckets(p) \in Int
         /\ \A w : Placed(w, r) = Placed(w, p)
    BY <1>2, <1>8, <1>9, PoolDoes
  <1>13. /\ t \in Seq(Seq(Nat)) /\ Len(t) = k
         /\ \A x \in InQueue(t) : x \in InQueue(q)
         /\ \A x \in InQueue(q) : x[4] # TRANSIENT => x \in InQueue(t)
    BY <1>2, <1>4, <1>5, CutDoes DEF InQueue
  <1>14. PoolInv(d)
    <2>1. Buckets(p) + L = bucketPoolMaxSize /\ Asks(p) = MaxIRequests
      BY <1>1 DEF CoreInv, PoolInv
    <2>2. (Buckets(p) + i) + k = Buckets(p) + L
      BY <1>2, <1>8, <1>9, <1>12
    <2>3. QED  BY <1>10, <1>11, <1>12, <1>13, <2>1, <2>2 DEF PoolInv
  <1>15. QueueInv(t, c.space + e)
    BY <1>2, <1>4, <1>5, CutSpace
  <1>16. PlacesInv(d, transients)
    <2>1. Follows(Placed(q, p), Placed(t, p))
      <3>1. /\ \A x \in Placed(t, p) : x \in Placed(q, p)
            /\ \A x \in Placed(q, p) : x[4] # TRANSIENT => x \in Placed(t, p)
        BY <1>13 DEF Placed
      <3>2. QED  BY <3>1, Trimmed
    <2>2. Follows(Placed(c.instQueue, c.pipe), Placed(d.instQueue, d.pipe))
      BY <1>1, <1>10, <1>11, <1>12, <2>1
    <2>3. d.n = c.n /\ d.issued = c.issued /\ PlacesInv(c, transients)
      BY <1>10 DEF SameProgress, CoreInv
    <2>4. QED  BY <2>2, <2>3, PlacesFollow
  <1>17. AllReal(InQueue(t))
    <2>1. PICK O : O = Placed(q, p) /\ Kept(O, c.issued, c.n)
      BY <1>1 DEF CoreInv, PlacesInv
    <2>2. \A x \in InSeq(1, q) : x \in O
      BY <2>1 DEF Placed, InQueue
    <2>3. QED  BY <1>2, <1>4, <1>5, <2>1, <2>2, CutLeavesReal DEF InQueue
  <1>18. EngineInv(d.fe) /\ BlocksAfter(d.fe, d.retired) /\ CountsInv(d)
    BY <1>10, ProgressKept DEF CoreInv
  <1>19. QED  BY <1>10, <1>11, <1>12, <1>14, <1>15, <1>16, <1>17, <1>18 DEF CoreInv

\* The three flushes together leave no transient instruction.
LEMMA FlushAllCore ==
  ASSUME NEW c, NEW transients, CoreInv(c, transients),
         NEW d, d = flush_transient_inst_on_fetch_ready(c)
  PROVE  CoreInv(d, transients) /\ SameProgress(c, d) /\ AllReal(Placed(d.instQueue, d.pipe))
  <1>1. PICK b : b = flush_transient_inst_from_inst_queue(c)
    OBVIOUS
  <1>2. CoreInv(b, transients) /\ SameProgress(c, b) /\ AllReal(InQueue(b.instQueue))
    BY <1>1, FlushQueueCore
  <1>3. PICK p, r, s, q : /\ p = b.pipe /\ r = flush_transient_inst_from_buffer(p)
                          /\ s = flush_transient_inst_from_received_bucket(r) /\ q = b.instQueue
    OBVIOUS
  <1>4. d = [b EXCEPT !.pipe = s]
    BY <1>1, <1>3 DEF flush_transient_inst_on_fetch_ready
  <1>5. PipeInv(p) /\ Settled(p)
    BY <1>2, <1>3 DEF CoreInv
  <1>6. Steps(p, r) /\ Settled(r)
    BY <1>3, <1>5, FlushBufferSteps
  <1>7. PipeInv(r)
    BY <1>6 DEF Steps
  <1>8. Steps(r, s) /\ Settled(s) /\ s.buffer = r.buffer
    BY <1>3, <1>6, <1>7, FlushReceivedSteps
  <1>9. Steps(b.pipe, s)
    BY <1>3, <1>6, <1>8, StepsOn
  <1>10. CoreInv(d, transients) /\ SameProgress(b, d) /\ d.pipe = s /\ d.instQueue = q
    BY <1>2, <1>3, <1>4, <1>8, <1>9, PipeStepsCore
  <1>11. PICK O, R, lo, hi : /\ O = Placed(q, p) /\ R = Placed(q, r) /\ lo = b.issued /\ hi = b.n
                             /\ Kept(O, lo, hi)
    BY <1>2, <1>3 DEF CoreInv, PlacesInv
  <1>12. Kept(R, lo, hi)
    BY <1>6, <1>11, FollowsKeeps DEF Steps
  <1>13. AllReal(InBuffer(s.buffer))
    <2>1. \A x \in InBuffer(p.buffer) : x \in O
      BY <1>11 DEF Placed
    <2>2. AllReal(InBuffer(r.buffer))
      BY <1>3, <1>5, <1>11, <2>1, FlushBufferDoes DEF PipeInv
    <2>3. QED  BY <1>8, <2>2
  <1>14. AllReal(InCache(s.received))
    <2>1. \A x \in InCache(r.received) : x \in R
      BY <1>11, InCacheUnion DEF Placed
    <2>2. PICK T : PipeType(r) /\ Owned(r, T)
      BY <1>7 DEF PipeInv
    <2>3. \A X, l, h : Kept(X, l, h) /\ (\A x \in InCache(r.received) : x \in X)
                         => AllReal(InCache(s.received))
      BY <1>3, <2>2, FlushReceivedDoes
    <2>4. QED  BY <1>12, <2>1, <2>3
  <1>15. AllReal(InCache(s.inflight))
    <2>1. s.inflight \in SUBSET Asked
      BY <1>8 DEF Steps, PipeInv, PipeType
    <2>2. ASSUME NEW x \in InCache(s.inflight)
          PROVE  x[4] # TRANSIENT
      <3>1. PICK a, j : a \in s.inflight /\ j \in DOMAIN a.insts /\ x = <<3, a.id, j, a.insts[j]>>
        BY <2>2, PlacesAre
      <3>2. a.insts \in Seq(Nat \ {TRANSIENT})
        BY <2>1, <3>1 DEF Asked
      <3>3. a.insts[j] # TRANSIENT
        BY <3>1, <3>2
      <3>4. x[4] = a.insts[j]
        BY <3>1
      <3>5. QED  BY <3>3, <3>4
    <2>3. QED  BY <2>2 DEF AllReal
  <1>16. AllReal(Placed(q, s))
    <2>1. Placed(q, s) = InQueue(q) \cup InBuffer(s.buffer) \cup InCache(s.received) \cup InCache(s.inflight)
      BY InCacheUnion DEF Placed
    <2>2. AllReal(InQueue(q))
      BY <1>2, <1>3
    <2>3. QED  BY <1>13, <1>14, <1>15, <2>1, <2>2 DEF AllReal
  <1>17. SameProgress(c, d)
    BY <1>2, <1>10 DEF SameProgress
  <1>18. QED  BY <1>10, <1>16, <1>17

\* A new bucket is behind all the others.
LEMMA AddedLast ==
  ASSUME NEW p, PipeInv(p), NEW q, NEW insts, NEW x \in Placed(q, p),
         NEW y \in InCache({[id |-> p.max, insts |-> insts]})
  PROVE  ~Before(y, x)
  <1>1. \A a, b, c, d : <<a, b, c, d>>[1] = a /\ <<a, b, c, d>>[2] = b
    OBVIOUS
  <1>2. PICK j : y = <<3, p.max, j, insts[j]>>
    <2>1. PICK b, j : b \in {[id |-> p.max, insts |-> insts]} /\ y = <<3, b.id, j, b.insts[j]>>
      BY PlacesAre
    <2>2. b.id = p.max /\ b.insts = insts
      BY <2>1
    <2>3. QED  BY <2>1, <2>2
  <1>3. y[1] = 3 /\ y[2] = p.max /\ p.max \in Nat
    BY <1>1, <1>2 DEF PipeInv
  <1>4. CASE x \in InQueue(q) \/ x \in InBuffer(p.buffer)
    <2>1. x[1] \in {1, 2}
      BY <1>1, <1>4, PlacesAre
    <2>2. QED  BY <1>3, <2>1 DEF Before
  <1>5. CASE x \in InCache(p.received \cup p.inflight)
    <2>1. PICK b \in p.received \cup p.inflight : x[1] = 3 /\ x[2] = b.id
      BY <1>1, <1>5, PlacesAre
    <2>2. b.id \in 0..(p.max - 1)
      BY <2>1 DEF PipeInv, Owned, Ids
    <2>3. x[2] \in Int /\ x[2] < p.max
      BY <1>3, <2>1, <2>2
    <2>4. QED  BY <1>3, <2>1, <2>3 DEF Before
  <1>6. QED  BY <1>4, <1>5 DEF Placed

\* Transient instructions behind the others change nothing for the real ones.
LEMMA KeptTransients ==
  ASSUME NEW O, NEW N, NEW lo, NEW hi, Kept(O, lo, hi), \A y \in N : y[4] = TRANSIENT,
         \A x \in O : \A y \in N : ~Before(y, x)
  PROVE  Kept(O \cup N, lo, hi)
  <1>1. {x[4] : x \in O \cup N} \ {TRANSIENT} = {x[4] : x \in O} \ {TRANSIENT}
    OBVIOUS
  <1>2. ASSUME NEW x \in O \cup N, NEW y \in O \cup N, Before(x, y), y[4] # TRANSIENT
        PROVE  x[4] # TRANSIENT /\ x[4] < y[4]
    <2>1. y \in O /\ x \in O
      BY <1>2
    <2>2. QED  BY <1>2, <2>1 DEF Kept
  <1>3. QED  BY <1>1, <1>2 DEF Kept

\* The instructions after lo up to hi, in order.
Consecutive(N, lo, hi) ==
  /\ \A y \in N : y[4] \in (lo + 1)..hi
  /\ \A v \in (lo + 1)..hi : \E y \in N : y[4] = v
  /\ \A x, y \in N : Before(x, y) => x[4] < y[4]

\* The next real ones, behind real ones only, are kept with them.
LEMMA KeptMore ==
  ASSUME NEW O, NEW N, NEW lo \in Nat, NEW hi \in Nat, lo <= hi, NEW up \in Nat, hi <= up,
         Kept(O, lo, hi), AllReal(O), \A x \in O : \A y \in N : ~Before(y, x),
         Consecutive(N, hi, up)
  PROVE  Kept(O \cup N, lo, up) /\ AllReal(O \cup N)
  <1> USE DEF Consecutive
  <1>1. \A x \in O : x[4] \in (lo + 1)..hi
    BY DEF Kept, AllReal
  <1>2. \A v \in (lo + 1)..hi : \E x \in O : x[4] = v
    BY DEF Kept
  <1>3. \A v \in (hi + 1)..up : v # TRANSIENT
    BY DEF TRANSIENT
  <1>4. AllReal(O \cup N)
    BY <1>3 DEF AllReal
  <1>5. ASSUME NEW x \in O \cup N
        PROVE  x[4] \in (lo + 1)..up
    <2>1. CASE x \in O
      <3>1. x[4] \in (lo + 1)..hi
        BY <1>1, <2>1
      <3>2. QED  BY <3>1
    <2>2. CASE x \in N
      <3>1. x[4] \in (hi + 1)..up
        BY <2>2
      <3>2. QED  BY <3>1
    <2>3. QED  BY <2>1, <2>2
  <1>6. ASSUME NEW v \in (lo + 1)..up
        PROVE  \E x \in O \cup N : x[4] = v
    <2>1. v \in (lo + 1)..hi \/ v \in (hi + 1)..up
      OBVIOUS
    <2>2. QED  BY <1>2, <2>1
  <1>7. {x[4] : x \in O \cup N} \ {TRANSIENT} = (lo + 1)..up
    BY <1>4, <1>5, <1>6 DEF AllReal
  <1>8. ASSUME NEW x \in O \cup N, NEW y \in O \cup N, Before(x, y)
        PROVE  x[4] # TRANSIENT /\ x[4] < y[4]
    <2>1. x[4] # TRANSIENT /\ y[4] # TRANSIENT
      BY <1>4 DEF AllReal
    <2>2. CASE x \in O /\ y \in O
      BY <1>8, <2>1, <2>2 DEF Kept
    <2>3. CASE x \in O /\ y \in N
      <3>1. x[4] \in (lo + 1)..hi /\ y[4] \in (hi + 1)..up
        BY <1>1, <2>3
      <3>2. QED  BY <2>1, <3>1
    <2>4. CASE x \in N /\ y \in O
      BY <1>8, <2>4
    <2>5. CASE x \in N /\ y \in N
      BY <1>8, <2>1, <2>5
    <2>6. QED  BY <2>2, <2>3, <2>4, <2>5
  <1>9. QED  BY <1>4, <1>7, <1>8 DEF Kept

\* Transient instructions are injected (add_inst_transient_on_branch_miss).
LEMMA TransientsCore ==
  ASSUME NEW c, CoreInv(c, TRUE), NEW d, d = add_inst_transient_on_branch_miss(c)
  PROVE  CoreInv(d, TRUE)
  <1>1. PICK p, r, q : /\ p = c.pipe /\ q = c.instQueue
                       /\ r = readyItem(newItem(p), p.max, <<TRANSIENT, TRANSIENT>>)
    OBVIOUS
  <1>2. PipeInv(p) /\ Settled(p)
    BY <1>1 DEF CoreInv
  <1>3. d = [c EXCEPT !.pipe = r]
    BY <1>1 DEF add_inst_transient_on_branch_miss
  <1>4. /\ IsCore(d) /\ d.pipe = r /\ d.instQueue = q /\ d.space = c.space
        /\ SameProgress(c, d)
    BY <1>1, <1>3 DEF CoreInv, IsCore, SameProgress
  <1>5. PICK N : N = InCache({[id |-> p.max, insts |-> <<TRANSIENT, TRANSIENT>>]})
    OBVIOUS
  <1>6. /\ PipeInv(r) /\ Settled(r) /\ Asks(r) = Asks(p) /\ Buckets(r) = Buckets(p)
        /\ Follows(Placed(q, p) \cup N, Placed(q, r))
    BY <1>1, <1>2, <1>5, TransientsDo
  <1>7. PoolInv(d)
    BY <1>1, <1>4, <1>6 DEF CoreInv, PoolInv
  <1>8. Kept(Placed(q, p) \cup N, c.issued, c.n)
    <2>1. Kept(Placed(q, p), c.issued, c.n)
      BY <1>1 DEF CoreInv, PlacesInv
    <2>2. ASSUME NEW y \in N
          PROVE  y[4] = TRANSIENT
      <3>1. PICK b, j : /\ b \in {[id |-> p.max, insts |-> <<TRANSIENT, TRANSIENT>>]}
                        /\ j \in DOMAIN b.insts /\ y = <<3, b.id, j, b.insts[j]>>
        BY <1>5, <2>2, PlacesAre
      <3>2. b.insts = <<TRANSIENT, TRANSIENT>>
        BY <3>1
      <3>3. PICK w : w = <<TRANSIENT, TRANSIENT>>
        OBVIOUS
      <3>4. \A i \in DOMAIN w : w[i] = TRANSIENT
        BY <3>3
      <3>5. b.insts[j] = TRANSIENT
        BY <3>1, <3>2, <3>3, <3>4
      <3>6. y[4] = b.insts[j]
        BY <3>1
      <3>7. QED  BY <3>5, <3>6
    <2>3. \A x \in Placed(q, p) : \A y \in N : ~Before(y, x)
      BY <1>2, <1>5, AddedLast
    <2>4. QED  BY <2>1, <2>2, <2>3, KeptTransients
  <1>9. PlacesInv(d, TRUE)
    <2>1. Kept(Placed(q, r), c.issued, c.n)
      BY <1>6, <1>8, FollowsKeeps
    <2>2. QED  BY <1>4, <2>1 DEF PlacesInv, SameProgress
  <1>10. EngineInv(d.fe) /\ BlocksAfter(d.fe, d.retired) /\ CountsInv(d)
    BY <1>4, ProgressKept DEF CoreInv
  <1>11. QueueInv(d.instQueue, d.space)
    BY <1>1, <1>4 DEF CoreInv
  <1>12. QED  BY <1>4, <1>6, <1>7, <1>9, <1>10, <1>11 DEF CoreInv

\* The next instructions of the program, in a new bucket.
NextOnes(lo, l) == [k \in 1..l |-> lo + k]

\* They are real and in order.
LEMMA NextOnesDo ==
  ASSUME NEW lo \in Nat, NEW l \in Nat, NEW id \in Int, NEW w, w = NextOnes(lo, l),
         NEW N, N = InCache({[id |-> id, insts |-> w]})
  PROVE  w \in Seq(Nat \ {TRANSIENT}) /\ Consecutive(N, lo, lo + l)
  <1>1. DOMAIN w = 1..l /\ \A k \in 1..l : w[k] = lo + k
    BY DEF NextOnes
  <1>2. w \in Seq(Nat \ {TRANSIENT})
    <2>1. \A k \in 1..l : lo + k \in Nat \ {TRANSIENT}
      BY DEF TRANSIENT
    <2>2. w \in [1..l -> Nat \ {TRANSIENT}]
      BY <1>1, <2>1 DEF NextOnes
    <2>3. QED  BY <2>2
  <1>3. PICK b : b = [id |-> id, insts |-> w]
    OBVIOUS
  <1>4. b.id = id /\ b.insts = w
    BY <1>3
  <1>5. \A y : y \in N <=> \E j \in 1..l : y = <<3, id, j, lo + j>>
    <2>1. \A y : y \in N <=> \E a \in {b} : \E j \in DOMAIN a.insts : y = <<3, a.id, j, a.insts[j]>>
      BY <1>3, PlacesAre
    <2>2. \A y : y \in N <=> \E j \in 1..l : y = <<3, id, j, w[j]>>
      BY <1>1, <1>4, <2>1
    <2>3. QED  BY <1>1, <2>2
  <1>6. \A a, e, c, d : /\ <<a, e, c, d>>[1] = a /\ <<a, e, c, d>>[2] = e
                        /\ <<a, e, c, d>>[3] = c /\ <<a, e, c, d>>[4] = d
    OBVIOUS
  <1>7. ASSUME NEW y \in N
        PROVE  y[4] \in (lo + 1)..(lo + l)
    <2>1. PICK j \in 1..l : y = <<3, id, j, lo + j>>
      BY <1>5, <1>7
    <2>2. y[4] = lo + j
      BY <1>6, <2>1
    <2>3. lo + j \in (lo + 1)..(lo + l)
      OBVIOUS
    <2>4. QED  BY <2>2, <2>3
  <1>8. ASSUME NEW v \in (lo + 1)..(lo + l)
        PROVE  \E y \in N : y[4] = v
    <2>1. PICK j \in 1..l : v = lo + j
      <3>1. v - lo \in 1..l /\ v = lo + (v - lo)
        OBVIOUS
      <3>2. QED  BY <3>1
    <2>2. PICK y : y = <<3, id, j, lo + j>>
      OBVIOUS
    <2>3. y \in N /\ y[4] = v
      BY <1>5, <1>6, <2>1, <2>2
    <2>4. QED  BY <2>3
  <1>9. ASSUME NEW x \in N, NEW y \in N, Before(x, y)
        PROVE  x[4] < y[4]
    <2>1. PICK i \in 1..l : x = <<3, id, i, lo + i>>
      BY <1>5, <1>9
    <2>2. PICK j \in 1..l : y = <<3, id, j, lo + j>>
      BY <1>5, <1>9
    <2>3. /\ x[1] = 3 /\ x[2] = id /\ x[3] = i /\ x[4] = lo + i
          /\ y[1] = 3 /\ y[2] = id /\ y[3] = j /\ y[4] = lo + j
      BY <1>6, <2>1, <2>2
    <2>4. id < id \/ i < j
      BY <1>9, <2>3 DEF Before
    <2>5. ~(id < id)
      OBVIOUS
    <2>6. lo + i < lo + j
      BY <2>4, <2>5
    <2>7. QED  BY <2>3, <2>6
  <1>10. QED  BY <1>2, <1>7, <1>8, <1>9 DEF Consecutive

\* The engine's block is on its way (FetchEngine::realfetch).
LEMMA SentCore ==
  ASSUME NEW c, NEW transients, CoreInv(c, transients), AllReal(Placed(c.instQueue, c.pipe)),
         ~c.fe.missInst, NEW block, Len(block) \in Nat, c.n + Len(block) <= MaxInst,
         NEW r, r = realfetch(c.fe, c.n, block), NEW more, NEW d, d = sent(c, r, more)
  PROVE  CoreInv(d, transients)
  <1>1. PICK l, m, e : l = Len(block) /\ m = c.n /\ e = r.n
    OBVIOUS
  <1>2. /\ m \in Nat /\ l \in Nat /\ m + l <= MaxInst /\ EngineInv(c.fe) /\ MaxInst \in Nat
        /\ c.issued \in Nat /\ c.retired \in Nat /\ c.retired <= c.issued /\ c.issued <= m
    BY <1>1, FrontEndAssumption DEF CoreInv, CountsInv
  <1>3. EngineInv(r.f) /\ BlocksAfter(r.f, m) /\ e \in Nat /\ m <= e /\ e <= m + l
    BY <1>1, <1>2, RealfetchKeeps
  <1>4. PICK g, w, p, q, s : /\ g = e - m /\ w = NextOnes(m, g) /\ p = c.pipe /\ q = c.instQueue
                             /\ s = requested(p, w)
    OBVIOUS
  <1>5. g \in Nat /\ m + g = e
    BY <1>2, <1>3, <1>4
  <1>6. PICK N : N = InCache({[id |-> p.max, insts |-> w]})
    OBVIOUS
  <1>7. w \in Seq(Nat \ {TRANSIENT}) /\ Consecutive(N, m, e)
    <2>1. PICK id \in Int : id = p.max
      BY <1>4 DEF CoreInv, PipeInv, PipeType
    <2>2. m \in Nat /\ g \in Nat /\ w = NextOnes(m, g) /\ N = InCache({[id |-> id, insts |-> w]})
      BY <1>2, <1>4, <1>5, <1>6, <2>1
    <2>3. w \in Seq(Nat \ {TRANSIENT}) /\ Consecutive(N, m, m + g)
      BY <2>2, NextOnesDo
    <2>4. QED  BY <1>5, <2>3
  <1>8. PipeInv(p) /\ Settled(p)
    BY <1>4 DEF CoreInv
  <1>9. /\ PipeInv(s) /\ Settled(s) /\ Asks(s) = Asks(p) /\ Buckets(s) = Buckets(p)
        /\ Placed(q, s) = Placed(q, p) \cup N
    BY <1>4, <1>6, <1>7, <1>8, RequestedDoes
  <1>10. w = [k \in 1..(r.n - c.n) |-> c.n + k]
    BY <1>1, <1>4 DEF NextOnes
  <1>11. PICK t, z : /\ t = (IF m = MaxInst \/ (more /\ e = MaxInst) THEN "deactivating" ELSE c.task)
                     /\ z = (c.busy \/ e > m)
    OBVIOUS
  <1>12. d = [c EXCEPT !.fe = r.f, !.n = e, !.busy = z, !.pipe = s, !.task = t]
    BY <1>1, <1>4, <1>10, <1>11 DEF sent
  <1>13. /\ IsCore(d) /\ d.fe = r.f /\ d.n = e /\ d.busy = z /\ d.pipe = s /\ d.task = t
         /\ d.instQueue = q /\ d.space = c.space /\ d.issued = c.issued /\ d.retired = c.retired
    BY <1>4, <1>12 DEF CoreInv, IsCore
  <1>14. PoolInv(d) /\ QueueInv(d.instQueue, d.space)
    BY <1>4, <1>9, <1>13 DEF CoreInv, PoolInv
  <1>15. PlacesInv(d, transients)
    <2>1. PICK O : O = Placed(q, p) /\ Kept(O, c.issued, m) /\ AllReal(O)
      BY <1>1, <1>4 DEF CoreInv, PlacesInv
    <2>2. \A x \in O : \A y \in N : ~Before(y, x)
      BY <1>6, <1>8, <2>1, AddedLast
    <2>3. Kept(O \cup N, c.issued, e) /\ AllReal(O \cup N)
      BY <1>2, <1>3, <1>7, <2>1, <2>2, KeptMore
    <2>4. QED  BY <1>9, <1>13, <2>1, <2>3 DEF PlacesInv
  <1>16. BlocksAfter(d.fe, d.retired)
    <2>1. ASSUME NEW u \in r.f.pending, u.by = "execute"
          PROVE  u.n \in Nat /\ c.retired < u.n
      <3>1. u.n \in Nat /\ m < u.n
        BY <1>3, <2>1 DEF BlocksAfter
      <3>2. QED  BY <1>2, <3>1
    <2>2. QED  BY <1>13, <2>1 DEF BlocksAfter
  <1>17. CountsInv(d)
    <2>1. c.busy \in BOOLEAN /\ (~c.busy => m = 0)
      BY <1>1 DEF CoreInv, CountsInv
    <2>2. z \in BOOLEAN /\ (~z => e = 0)
      <3>1. ~z => ~c.busy /\ ~(e > m)
        BY <1>11
      <3>2. ~(e > m) => e = m
        BY <1>2, <1>3
      <3>3. z \in BOOLEAN
        BY <1>11
      <3>4. QED  BY <2>1, <3>1, <3>2, <3>3
    <2>3. c.issued <= e /\ e <= MaxInst /\ (m = MaxInst => e = MaxInst)
      BY <1>2, <1>3
    <2>4. t # "active" => e = MaxInst
      <3>1. t # "active" => m = MaxInst \/ e = MaxInst
        BY <1>1, <1>11 DEF CoreInv, CountsInv
      <3>2. QED  BY <2>3, <3>1
    <2>5. t = "down" => c.retired = MaxInst
      BY <1>11 DEF CoreInv, CountsInv
    <2>6. QED  BY <1>2, <1>3, <1>13, <2>2, <2>3, <2>4, <2>5 DEF CountsInv
  <1>18. QED  BY <1>3, <1>9, <1>13, <1>14, <1>15, <1>16, <1>17 DEF CoreInv

\* Fetch: the wrong path is flushed before real instructions are fetched behind it.
LEMMA FetchCore ==
  ASSUME NEW c, NEW transients, CoreInv(c, transients), transients = do_random_transients,
         NEW block, Len(block) \in Nat, c.n + Len(block) <= MaxInst,
         NEW more, NEW d, d = fetch(c, block, more)
  PROVE  CoreInv(d, transients)
  <1>1. PICK b : b = IF ~c.fe.missInst /\ do_random_transients
                     THEN flush_transient_inst_on_fetch_ready(c) ELSE c
    OBVIOUS
  <1>2. d = fetching(b, block, more)
    BY <1>1 DEF fetch
  <1>3. /\ CoreInv(b, transients) /\ SameProgress(c, b)
        /\ ~b.fe.missInst => AllReal(Placed(b.instQueue, b.pipe))
    <2>1. CASE ~c.fe.missInst /\ do_random_transients
      BY <1>1, <2>1, FlushAllCore
    <2>2. CASE ~(~c.fe.missInst /\ do_random_transients)
      <3>1. b = c
        BY <1>1, <2>2
      <3>2. ~c.fe.missInst => ~transients
        BY <2>2
      <3>3. QED  BY <3>1, <3>2 DEF SameProgress, CoreInv, PlacesInv
    <2>3. QED  BY <2>1, <2>2
  <1>4. CASE b.space < FetchWidth \/ (b.fe.missInst /\ ~do_random_transients) \/ ~canNewItem(b.pipe)
    BY <1>2, <1>3, <1>4 DEF fetching
  <1>5. CASE ~(b.space < FetchWidth \/ (b.fe.missInst /\ ~do_random_transients) \/ ~canNewItem(b.pipe))
    <2>1. PICK r, again : /\ r = realfetch(b.fe, b.n, block)
                          /\ again = (more /\ ~r.stop /\ Len(block) < FetchWidth)
      OBVIOUS
    <2>2. d = IF b.fe.missInst THEN add_inst_transient_on_branch_miss(b) ELSE sent(b, r, again)
      BY <1>2, <1>5, <2>1 DEF fetching
    <2>3. CASE b.fe.missInst
      <3>1. CoreInv(b, TRUE)
        BY <1>3 DEF CoreInv, PlacesInv
      <3>2. CoreInv(d, TRUE)
        BY <2>2, <2>3, <3>1, TransientsCore
      <3>3. do_random_transients
        BY <1>5, <2>3
      <3>4. QED  BY <3>2, <3>3 DEF CoreInv, PlacesInv
    <2>4. CASE ~b.fe.missInst
      <3>1. d = sent(b, r, again)
        BY <2>2, <2>4
      <3>2. b.n + Len(block) <= MaxInst
        BY <1>3 DEF SameProgress
      <3>3. AllReal(Placed(b.instQueue, b.pipe))
        BY <1>3, <2>4
      <3>4. QED  BY <1>3, <2>1, <2>4, <3>1, <3>2, <3>3, SentCore
    <2>5. QED  BY <2>3, <2>4
  <1>6. QED  BY <1>4, <1>5

\* Whatever fetch may bring keeps the invariant.
LEMMA FetchesCore ==
  ASSUME NEW c, CoreInv(c, do_random_transients), NEW d \in Fetches(c)
  PROVE  /\ CoreInv(d, do_random_transients)
         /\ c.task # "active" => d = c
  <1>1. PICK transients : transients = do_random_transients
    OBVIOUS
  <1>2. c.n \in Nat /\ c.n <= MaxInst /\ MaxInst \in Nat
    BY FrontEndAssumption DEF CoreInv, CountsInv
  <1>3. CASE c.task # "active"
    BY <1>3 DEF Fetches
  <1>4. CASE c.task = "active" /\ c.fe.missInst
    <2>1. d = fetch(c, << >>, FALSE)
      BY <1>4 DEF Fetches
    <2>2. Len(<< >>) \in Nat /\ c.n + Len(<< >>) <= MaxInst
      BY <1>2
    <2>3. QED  BY <1>1, <1>4, <2>1, <2>2, FetchCore
  <1>5. CASE c.task = "active" /\ ~c.fe.missInst
    <2>1. PICK b \in BlocksOf(MaxInst - c.n), more \in BOOLEAN : d = fetch(c, b, more)
      BY <1>5 DEF Fetches
    <2>2. b \in Blocks /\ Len(b) <= MaxInst - c.n
      BY <2>1 DEF BlocksOf
    <2>3. PICK len \in 0..FetchWidth : b \in [1..len -> Insts]
      BY <2>2 DEF Blocks
    <2>4. Len(b) \in Nat
      <3>1. len \in Nat
        BY PipelineAssumption
      <3>2. b \in Seq(Insts)
        BY <2>3, <3>1
      <3>3. QED  BY <3>2
    <2>5. c.n + Len(b) <= MaxInst
      BY <1>2, <2>2, <2>4
    <2>6. QED  BY <1>1, <1>5, <2>1, <2>4, <2>5, FetchCore
  <1>6. QED  BY <1>3, <1>4, <1>5

-----------------------------------------------------------------------------
(* Decode, issue and retire.                                               *)

\* The oldest bucket that is old enough goes to the instruction queue.
LEMMA DecodeCore ==
  ASSUME NEW c, NEW transients, CoreInv(c, transients), NEW d, d = decode_stage(c)
  PROVE  CoreInv(d, transients) /\ SameProgress(c, d)
  <1>1. CASE ~(c.space >= FetchWidth /\ canNextItem(c.pipe))
    BY <1>1 DEF decode_stage, SameProgress
  <1>2. CASE c.space >= FetchWidth /\ canNextItem(c.pipe)
    <2>1. PICK p, q, h, r, w : /\ p = c.pipe /\ q = c.instQueue /\ h = Head(p.buffer).insts
                               /\ r = nextItem(p) /\ w = Append(q, h)
      OBVIOUS
    <2>2. /\ PipeInv(p) /\ Settled(p) /\ QueueInv(q, c.space) /\ q \in Seq(Seq(Nat))
      BY <2>1 DEF CoreInv, QueueInv
    <2>3. p.buffer # << >>
      BY <1>2, <2>1 DEF canNextItem
    <2>4. /\ PipeInv(r) /\ Settled(r) /\ Asks(r) = Asks(p) /\ Buckets(r) = Buckets(p) - 1
          /\ h \in Seq(Nat) /\ h # << >> /\ Follows(Placed(q, p), Placed(w, r))
      BY <2>1, <2>2, <2>3, NextItemDoes
    <2>5. QueueInv(w, c.space - Len(h))
      BY <2>1, <2>2, <2>4, AppendSpace
    <2>6. d = [c EXCEPT !.pipe = r, !.instQueue = w, !.space = c.space - Len(h)]
      BY <1>2, <2>1 DEF decode_stage
    <2>7. /\ IsCore(d) /\ d.pipe = r /\ d.instQueue = w /\ d.space = c.space - Len(h)
          /\ SameProgress(c, d)
      BY <2>6 DEF CoreInv, IsCore, SameProgress
    <2>8. PoolInv(d)
      <3>1. Len(w) = Len(q) + 1 /\ Len(q) \in Nat
        BY <2>1, <2>2, <2>4
      <3>2. Buckets(p) + Len(q) = bucketPoolMaxSize /\ Asks(p) = MaxIRequests
        BY <2>1 DEF CoreInv, PoolInv
      <3>3. Buckets(p) \in Int
        <4>1. PICK i \in Int : i = 0
          OBVIOUS
        <4>2. QED  BY <2>2, <4>1, PoolDoes
      <3>4. PICK a \in Int, l \in Nat : a = Buckets(p) /\ l = Len(q)
        BY <3>1, <3>3
      <3>5. (a - 1) + (l + 1) = a + l
        OBVIOUS
      <3>6. Buckets(r) + Len(w) = bucketPoolMaxSize
        BY <2>4, <3>1, <3>2, <3>4, <3>5
      <3>7. QED  BY <2>4, <2>7, <3>2, <3>6 DEF PoolInv
    <2>9. PlacesInv(d, transients)
      <3>1. Follows(Placed(c.instQueue, c.pipe), Placed(d.instQueue, d.pipe))
        BY <2>1, <2>4, <2>7
      <3>2. d.n = c.n /\ d.issued = c.issued /\ PlacesInv(c, transients)
        BY <2>7 DEF SameProgress, CoreInv
      <3>3. QED  BY <3>1, <3>2, PlacesFollow
    <2>10. EngineInv(d.fe) /\ BlocksAfter(d.fe, d.retired) /\ CountsInv(d)
      BY <2>7, ProgressKept DEF CoreInv
    <2>11. QED  BY <2>4, <2>5, <2>7, <2>8, <2>9, <2>10 DEF CoreInv
  <1>3. QED  BY <1>1, <1>2

\* What issue does not touch.
SameFetch(c, d) ==
  d.fe = c.fe /\ d.n = c.n /\ d.retired = c.retired /\ d.busy = c.busy /\ d.task = c.task

\* One instruction is issued: the next of the program, or a transient one.
LEMMA IssueOneCore ==
  ASSUME NEW c, NEW transients, CoreInv(c, transients), NEW d, d = issueOne(c)
  PROVE  CoreInv(d, transients) /\ SameFetch(c, d)
  <1>1. CASE c.instQueue = << >>
    BY <1>1 DEF issueOne, SameFetch
  <1>2. CASE c.instQueue # << >>
    <2>1. PICK p, q, t, v, left : /\ p = c.pipe /\ q = c.instQueue /\ t = FirstOff(q)
                                  /\ v = q[1][1] /\ left = Tail(Head(q))
      OBVIOUS
    <2>2. /\ PipeInv(p) /\ Settled(p) /\ QueueInv(q, c.space) /\ q \in Seq(Seq(Nat)) /\ q # << >>
          /\ \A k \in 1..Len(q) : q[k] # << >>
      BY <1>2, <2>1 DEF CoreInv, QueueInv
    <2>3. PICK i, j : /\ i = (IF left = << >> THEN 1 ELSE 0)
                      /\ j = (IF v = TRANSIENT THEN 0 ELSE 1)
      OBVIOUS
    <2>4. PICK r : r = Refilled(p, i)
      OBVIOUS
    <2>5. i \in Int /\ j \in Int
      BY <2>3
    <2>6. /\ Head(Head(q)) = v /\ Len(t) = (IF left = << >> THEN Len(q) - 1 ELSE Len(q))
          /\ Len(q) \in Nat
      <3>1. OneOff(q, t)
        <4>1. Full(q)
          BY <2>2 DEF Full
        <4>2. QED  BY <2>1, <4>1, FirstOffDoes
      <3>2. Len(t) = (IF Tail(Head(q)) = << >> THEN Len(q) - 1 ELSE Len(q)) /\ Head(Head(q)) = q[1][1]
        BY <3>1 DEF OneOff
      <3>3. Len(q) \in Nat
        BY <2>2
      <3>4. QED  BY <2>1, <3>2, <3>3
    <2>7. d = [c EXCEPT !.issued = @ + j, !.space = @ + 1, !.instQueue = t, !.pipe.pool = @ + i]
      BY <1>2, <2>1, <2>3, <2>6 DEF issueOne, FirstOff
    <2>8. /\ IsCore(d) /\ d.issued = c.issued + j /\ d.space = c.space + 1 /\ d.instQueue = t
          /\ SameFetch(c, d)
      BY <2>7 DEF CoreInv, IsCore, SameFetch
    <2>9. d.pipe = r
      BY <2>1, <2>4, <2>7 DEF CoreInv, IsCore, Refilled
    <2>10. /\ PipeInv(r) /\ Settled(r) /\ Asks(r) = Asks(p)
           /\ Buckets(r) = Buckets(p) + i /\ Buckets(p) \in Int
           /\ \A w : Placed(w, r) = Placed(w, p)
      BY <2>2, <2>4, <2>5, PoolDoes
    <2>11. PoolInv(d)
      <3>1. Buckets(p) + Len(q) = bucketPoolMaxSize /\ Asks(p) = MaxIRequests
        BY <2>1 DEF CoreInv, PoolInv
      <3>2. PICK a \in Int, l \in Nat : a = Buckets(p) /\ l = Len(q)
        BY <2>6, <2>10
      <3>3. Len(t) = l - i
        BY <2>3, <2>6, <3>2
      <3>4. (a + i) + (l - i) = a + l
        BY <2>5
      <3>5. QED  BY <2>8, <2>9, <2>10, <3>1, <3>2, <3>3, <3>4 DEF PoolInv
    <2>12. QueueInv(t, c.space + 1)
      BY <2>1, <2>2, FirstOffSpace
    <2>13. PICK B, y, O : /\ B = InBuffer(p.buffer) \cup InCache(p.received \cup p.inflight)
                          /\ y = FrontOf(q) /\ O = InQueue(q) \cup B
      OBVIOUS
    <2>14. O = Placed(q, p) /\ Placed(t, r) = InQueue(t) \cup B
      <3>1. Placed(t, p) = InQueue(t) \cup B
        BY <2>13 DEF Placed
      <3>2. QED  BY <2>10, <2>13, <3>1 DEF Placed
    <2>15. Behind(B)
      <3>1. \A a, b, e, f : <<a, b, e, f>>[1] = a
        OBVIOUS
      <3>2. \A x \in B : x[1] \in {2, 3}
        BY <2>13, <3>1, PlacesAre
      <3>3. QED  BY <3>2 DEF Behind
    <2>16. IsFirst(y, O) /\ Follows(O \ {y}, Placed(t, r))
      <3>1. Full(q) /\ t = FirstOff(q) /\ Behind(B) /\ y = FrontOf(q)
        BY <2>1, <2>2, <2>13, <2>15 DEF Full
      <3>2. /\ IsFirst(y, InQueue(q) \cup B)
            /\ Follows((InQueue(q) \cup B) \ {y}, InQueue(t) \cup B)
        BY <3>1, FirstOffFollows
      <3>3. QED  BY <2>13, <2>14, <3>2
    <2>17. PICK lo \in Nat, hi \in Nat : lo = c.issued /\ hi = c.n
      BY DEF CoreInv, CountsInv
    <2>18. Kept(O, lo, hi) /\ (~transients => AllReal(O)) /\ lo <= hi
      BY <2>1, <2>14, <2>17 DEF CoreInv, PlacesInv, CountsInv
    <2>19. y[4] = v
      BY <2>1, <2>13 DEF FrontOf
    <2>20. Kept(O \ {y}, lo + j, hi) /\ lo + j \in Nat /\ lo <= lo + j /\ lo + j <= hi
      <3>1. CASE v = TRANSIENT
        <4>1. j = 0 /\ lo + j = lo
          BY <2>3, <3>1
        <4>2. Kept(O \ {y}, lo, hi)
          BY <2>16, <2>18, <2>19, <3>1, FirstGone
        <4>3. QED  BY <2>18, <4>1, <4>2
      <3>2. CASE v # TRANSIENT
        <4>1. j = 1
          BY <2>3, <3>2
        <4>2. lo + 1 <= hi /\ Kept(O \ {y}, lo + 1, hi)
          BY <2>16, <2>18, <2>19, <3>2, FirstGone
        <4>3. QED  BY <4>1, <4>2
      <3>3. QED  BY <3>1, <3>2
    <2>21. PlacesInv(d, transients)
      <3>1. Kept(Placed(t, r), lo + j, hi)
        BY <2>16, <2>20, FollowsKeeps
      <3>2. AllReal(O) => AllReal(O \ {y})
        BY DEF AllReal
      <3>3. ~transients => AllReal(Placed(t, r))
        BY <2>16, <2>18, <3>2, FollowsKeeps
      <3>4. QED  BY <2>8, <2>9, <2>17, <3>1, <3>3 DEF PlacesInv, SameFetch
    <2>22. EngineInv(d.fe) /\ BlocksAfter(d.fe, d.retired)
      BY <2>8 DEF CoreInv, SameFetch
    <2>23. CountsInv(d)
      <3>1. c.retired \in Nat /\ c.retired <= lo
        BY <2>17 DEF CoreInv, CountsInv
      <3>2. c.retired <= lo + j
        BY <2>20, <3>1
      <3>3. QED  BY <2>8, <2>17, <2>20, <3>2 DEF CoreInv, CountsInv, SameFetch
    <2>24. QED  BY <2>8, <2>9, <2>10, <2>11, <2>12, <2>21, <2>22, <2>23 DEF CoreInv
  <1>3. QED  BY <1>1, <1>2

\* issue is a loop over add_inst; its turns, as in clearItems, are those of a function.
AreIssues(g, c, m) == g = [k \in 0..m |-> IF k = 0 THEN c ELSE issueOne(g[k - 1])]

\* By induction on their number.
LEMMA IssuesExist ==
  ASSUME NEW c, NEW m \in Nat
  PROVE  \E g : AreIssues(g, c, m)
  <1> USE DEF AreIssues
  <1> DEFINE S == {j \in Nat : \E g : g = [k \in 0..j |-> IF k = 0 THEN c ELSE issueOne(g[k - 1])]}
  <1>1. 0 \in S
    <2>1. [k \in 0..0 |-> c] = [k \in 0..0 |-> IF k = 0 THEN c ELSE issueOne([i \in 0..0 |-> c][k - 1])]
      OBVIOUS
    <2>2. QED  BY <2>1
  <1>2. ASSUME NEW j \in Nat, j \in S
        PROVE  j + 1 \in S
    <2>1. PICK g : g = [k \in 0..j |-> IF k = 0 THEN c ELSE issueOne(g[k - 1])]
      BY <1>2
    <2> DEFINE h == [k \in 0..(j + 1) |-> IF k = j + 1 THEN issueOne(g[j]) ELSE g[k]]
    <2>2. ASSUME NEW k \in 0..(j + 1)
          PROVE  h[k] = IF k = 0 THEN c ELSE issueOne(h[k - 1])
      BY <2>1
    <2>3. h = [k \in 0..(j + 1) |-> IF k = 0 THEN c ELSE issueOne(h[k - 1])]
      BY <2>2
    <2> HIDE DEF h
    <2>4. \E f : f = [k \in 0..(j + 1) |-> IF k = 0 THEN c ELSE issueOne(f[k - 1])]
      BY <2>3
    <2>5. QED  BY <2>4
  <1> HIDE DEF S
  <1>3. m \in S
    BY <1>1, <1>2, SetInduction
  <1>4. QED  BY <1>3 DEF S

\* GProcessor::issue, for every width.
LEMMA IssueCore ==
  ASSUME NEW c, NEW transients, CoreInv(c, transients), NEW width \in Nat, NEW d, d = issue(c, width)
  PROVE  CoreInv(d, transients) /\ SameFetch(c, d)
  <1>1. PICK T : T = CHOOSE g : g = [k \in 0..width |-> IF k = 0 THEN c ELSE issueOne(g[k - 1])]
    OBVIOUS
  <1>2. d = T[width]
    BY <1>1 DEF issue
  <1>3. \E g : AreIssues(g, c, width)
    BY IssuesExist
  <1>4. T = [k \in 0..width |-> IF k = 0 THEN c ELSE issueOne(T[k - 1])]
    BY <1>1, <1>3 DEF AreIssues
  <1>5. T[0] = c /\ \A k \in 1..width : T[k] = issueOne(T[k - 1])
    BY <1>4
  <1> DEFINE S == {k \in Nat : k <= width => CoreInv(T[k], transients) /\ SameFetch(c, T[k])}
  <1>6. 0 \in S
    BY <1>5 DEF SameFetch
  <1>7. ASSUME NEW k \in Nat, k \in S
        PROVE  k + 1 \in S
    <2>1. CASE k + 1 <= width
      <3>1. PICK x, y : x = T[k] /\ y = T[k + 1]
        OBVIOUS
      <3>2. CoreInv(x, transients) /\ SameFetch(c, x)
        BY <1>7, <2>1, <3>1
      <3>3. y = issueOne(x)
        <4>1. k + 1 \in 1..width /\ (k + 1) - 1 = k
          BY <2>1
        <4>2. QED  BY <1>5, <3>1, <4>1
      <3>4. CoreInv(y, transients) /\ SameFetch(x, y)
        BY <3>2, <3>3, IssueOneCore
      <3>5. SameFetch(c, y)
        BY <3>2, <3>4 DEF SameFetch
      <3>6. QED  BY <3>1, <3>4, <3>5
    <2>2. CASE ~(k + 1 <= width)
      BY <2>2
    <2>3. QED  BY <2>1, <2>2
  <1> HIDE DEF S
  <1>8. width \in S
    BY <1>6, <1>7, SetInduction
  <1>9. QED  BY <1>2, <1>8 DEF S

\* Nothing retires past a branch that blocks fetch until it is executed.
LEMMA RetireCore ==
  ASSUME NEW c, NEW transients, CoreInv(c, transients), NEW all, NEW d, d = retire(c, all)
  PROVE  CoreInv(d, transients)
  <1> DEFINE X == {u.n : u \in {v \in c.fe.pending : v.by = "execute"}}
  <1>1. PICK lo \in Nat, hi \in Nat : lo = c.retired /\ hi = c.issued /\ lo <= hi
    BY DEF CoreInv, CountsInv
  <1>2. PICK stop : stop = X
    OBVIOUS
  <1>3. ASSUME NEW s \in stop, NEW e \in stop
        PROVE  s \in Nat /\ lo < s /\ s = e
    <2>1. PICK u \in c.fe.pending : u.by = "execute" /\ s = u.n
      BY <1>2, <1>3
    <2>2. PICK v \in c.fe.pending : v.by = "execute" /\ e = v.n
      BY <1>2, <1>3
    <2>3. u = v
      BY DEF CoreInv, EngineInv, BlockInv
    <2>4. QED  BY <1>1, <2>1, <2>2, <2>3 DEF CoreInv, BlocksAfter
  <1>4. \E k \in lo..hi : (\A s \in stop : k < s) /\ (k = hi \/ k + 1 \in stop)
    <2>1. CASE stop = {}
      <3>1. hi \in lo..hi
        BY <1>1
      <3>2. QED  BY <2>1, <3>1
    <2>2. CASE stop # {}
      <3>1. PICK s \in stop : s \in Nat /\ lo < s /\ \A e \in stop : e = s
        BY <1>3, <2>2
      <3>2. CASE hi < s
        <4>1. hi \in lo..hi
          BY <1>1
        <4>2. QED  BY <3>1, <3>2, <4>1
      <3>3. CASE ~(hi < s)
        <4>1. PICK k : k = s - 1
          OBVIOUS
        <4>2. k \in lo..hi /\ k < s /\ k + 1 = s
          BY <1>1, <3>1, <3>3, <4>1
        <4>3. QED  BY <3>1, <4>2
      <3>4. QED  BY <3>2, <3>3
    <2>3. QED  BY <2>1, <2>2
  <1>5. PICK upto : upto = CHOOSE k \in lo..hi : (\A s \in stop : k < s) /\ (k = hi \/ k + 1 \in stop)
    OBVIOUS
  <1>6. upto \in lo..hi /\ \A s \in stop : upto < s
    BY <1>4, <1>5
  <1>7. d = [c EXCEPT !.retired = IF all THEN upto ELSE c.retired]
    BY <1>1, <1>2, <1>5 DEF retire
  <1>8. PICK m : m = IF all THEN upto ELSE c.retired
    OBVIOUS
  <1>9. m \in Nat /\ lo <= m /\ m <= hi
    BY <1>1, <1>6, <1>8
  <1>10. /\ IsCore(d) /\ d.retired = m /\ d.pipe = c.pipe /\ d.fe = c.fe /\ d.space = c.space
         /\ d.instQueue = c.instQueue /\ d.n = c.n /\ d.issued = c.issued /\ d.busy = c.busy
         /\ d.task = c.task
    BY <1>7, <1>8 DEF CoreInv, IsCore
  <1>11. BlocksAfter(d.fe, m)
    <2>1. ASSUME NEW u \in c.fe.pending, u.by = "execute"
          PROVE  u.n \in Nat /\ m < u.n
      <3>1. u.n \in stop
        BY <1>2, <2>1
      <3>2. u.n \in Nat /\ lo < u.n
        BY <1>3, <3>1
      <3>3. CASE all
        BY <1>6, <1>8, <3>1, <3>2, <3>3
      <3>4. CASE ~all
        BY <1>1, <1>8, <3>2, <3>4
      <3>5. QED  BY <3>3, <3>4
    <2>2. QED  BY <1>10, <2>1 DEF BlocksAfter
  <1> HIDE DEF X
  <1>12. CountsInv(d)
    <2>1. c.task = "down" => m = MaxInst
      <3>1. /\ c.task = "down" => lo = MaxInst
            /\ c.n \in Nat /\ hi <= c.n /\ c.n <= MaxInst /\ MaxInst \in Nat
        BY <1>1, FrontEndAssumption DEF CoreInv, CountsInv
      <3>2. QED  BY <1>1, <1>9, <3>1
    <2>2. QED  BY <1>1, <1>9, <1>10, <2>1 DEF CoreInv, CountsInv
  <1>13. PoolInv(d) /\ PlacesInv(d, transients)
    BY <1>10 DEF CoreInv, PoolInv, PlacesInv
  <1>14. QED  BY <1>10, <1>11, <1>12, <1>13 DEF CoreInv

\* A core with nothing outstanding has issued everything it fetched.
LEMMA DrainedDoes ==
  ASSUME NEW c, NEW transients, CoreInv(c, transients), drained(c)
  PROVE  c.retired = c.n
  <1>1. PICK p : p = c.pipe
    OBVIOUS
  <1>2. /\ c.instQueue = << >> /\ c.issued = c.retired /\ p.buffer = << >> /\ p.received = {}
        /\ ~(p.nIRequests < MaxIRequests)
    BY <1>1 DEF drained, hasOutstandingItems
  <1>3. p.inflight = {}
    <2>1. /\ p.nIRequests \in Int /\ IsFiniteSet(p.inflight)
          /\ p.nIRequests + Cardinality(p.inflight) = MaxIRequests /\ MaxIRequests \in Nat
      BY <1>1, PipelineAssumption DEF CoreInv, PipeInv, PipeType, PoolInv, Asks
    <2>2. Cardinality(p.inflight) \in Nat
      BY <2>1, FS_CardinalityType
    <2>3. Cardinality(p.inflight) = 0
      BY <1>2, <2>1, <2>2
    <2>4. QED  BY <2>1, <2>3, FS_EmptySet
  <1>4. Placed(c.instQueue, p) = {}
    <2>1. DOMAIN << >> = {}
      OBVIOUS
    <2>2. InQueue(<< >>) = {} /\ InBuffer(<< >>) = {} /\ InCache({}) = {}
      BY <2>1, PlacesAre
    <2>3. p.received \cup p.inflight = {}
      BY <1>2, <1>3
    <2>4. QED  BY <1>2, <2>2, <2>3 DEF Placed
  <1>5. Kept({}, c.issued, c.n)
    BY <1>1, <1>4 DEF CoreInv, PlacesInv
  <1>6. PICK lo \in Nat, hi \in Nat : lo = c.issued /\ hi = c.n /\ lo <= hi
    BY DEF CoreInv, CountsInv
  <1>7. ~(hi \in (lo + 1)..hi)
    BY <1>5, <1>6 DEF Kept
  <1>8. lo = hi
    BY <1>6, <1>7
  <1>9. QED  BY <1>2, <1>6, <1>8

\* advance_clock_drain: a core that powers down has retired the whole program.
LEMMA DrainCore ==
  ASSUME NEW c, NEW transients, CoreInv(c, transients), task = "deactivating" => c.n = MaxInst,
         NEW width \in Nat, NEW all, NEW d, d = advance_clock_drain(c, width, all)
  PROVE  CoreInv(d, transients)
  <1>1. PICK b, e : b = decode_stage(c) /\ e = retire(issue(b, width), all)
    OBVIOUS
  <1>2. CoreInv(b, transients) /\ SameProgress(c, b)
    BY <1>1, DecodeCore
  <1>3. PICK t : t = IF task = "deactivating" THEN "down" ELSE b.task
    OBVIOUS
  <1>4. /\ ~b.busy => d = [b EXCEPT !.task = t]
        /\ b.busy /\ drained(b) => d = [b EXCEPT !.task = t]
        /\ b.busy /\ ~drained(b) => d = e
    BY <1>1, <1>3 DEF advance_clock_drain
  <1>5. CASE ~b.busy \/ drained(b)
    <2>1. d = [b EXCEPT !.task = t]
      BY <1>4, <1>5
    <2>2. /\ IsCore(d) /\ d.retired = b.retired /\ d.pipe = b.pipe /\ d.fe = b.fe
          /\ d.space = b.space /\ d.instQueue = b.instQueue /\ d.n = b.n
          /\ d.issued = b.issued /\ d.busy = b.busy /\ d.task = t
      BY <1>2, <2>1 DEF CoreInv, IsCore
    <2>3. b.retired = b.n
      <3>1. CASE drained(b)
        BY <1>2, <3>1, DrainedDoes
      <3>2. CASE ~b.busy
        BY <1>2, <3>2 DEF CoreInv, CountsInv
      <3>3. QED  BY <1>5, <3>1, <3>2
    <2>4. task = "deactivating" => b.n = MaxInst
      BY <1>2 DEF SameProgress
    <2>5. CountsInv(d)
      BY <1>2, <1>3, <2>2, <2>3, <2>4 DEF CoreInv, CountsInv
    <2>6. PoolInv(d) /\ PlacesInv(d, transients)
      BY <1>2, <2>2 DEF CoreInv, PoolInv, PlacesInv
    <2>7. QED  BY <1>2, <2>2, <2>5, <2>6 DEF CoreInv
  <1>6. CASE b.busy /\ ~drained(b)
    <2>1. PICK g : g = issue(b, width)
      OBVIOUS
    <2>2. CoreInv(g, transients) /\ SameFetch(b, g)
      BY <1>2, <2>1, IssueCore
    <2>3. d = retire(g, all)
      BY <1>1, <1>4, <1>6, <2>1
    <2>4. QED  BY <2>2, <2>3, RetireCore
  <1>7. QED  BY <1>5, <1>6

-----------------------------------------------------------------------------
(* The specification.                                                      *)

Core == [pipe |-> pipe, fe |-> fe, instQueue |-> instQueue, space |-> spaceInInstQueue,
         n |-> n, issued |-> issued, retired |-> retired, busy |-> busy, task |-> task]

FrontEndInv == CoreInv(Core, do_random_transients)

\* The clock that ends AdvanceClock.
LEMMA ClockCore ==
  ASSUME NEW c, NEW transients, CoreInv(c, transients),
         NEW d, d = [c EXCEPT !.pipe = older(c.pipe), !.fe = ticked(c.fe)]
  PROVE  CoreInv(d, transients)
  <1>1. PICK b, r : r = older(c.pipe) /\ b = [c EXCEPT !.pipe = r]
    OBVIOUS
  <1>2. PipeInv(c.pipe) /\ Settled(c.pipe) /\ EngineInv(c.fe) /\ IsCore(c)
    BY DEF CoreInv
  <1>3. Steps(c.pipe, r) /\ Settled(r)
    BY <1>1, <1>2, OlderSteps
  <1>4. CoreInv(b, transients) /\ SameProgress(c, b) /\ b.pipe = r
    BY <1>1, <1>3, PipeStepsCore
  <1>5. /\ IsCore(d) /\ d.pipe = b.pipe /\ d.fe = ticked(b.fe) /\ d.instQueue = b.instQueue
        /\ d.space = b.space /\ d.n = b.n /\ d.issued = b.issued /\ d.retired = b.retired
        /\ d.busy = b.busy /\ d.task = b.task
    BY <1>1, <1>2 DEF IsCore
  <1>6. EngineInv(d.fe) /\ BlocksAfter(d.fe, d.retired)
    BY <1>4, <1>5, TickedKeeps DEF CoreInv
  <1>7. CountsInv(d) /\ PoolInv(d) /\ PlacesInv(d, transients)
    BY <1>4, <1>5 DEF CoreInv, CountsInv, PoolInv, PlacesInv
  <1>8. QED  BY <1>4, <1>5, <1>6, <1>7 DEF CoreInv

\* Fetch is unblocked (FetchEngine::clearMissInst).
LEMMA UnblockCore ==
  ASSUME NEW c, NEW transients, CoreInv(c, transients), NEW u \in c.fe.pending,
         NEW d, d = [c EXCEPT !.fe = clearMissInst(c.fe, u)]
  PROVE  CoreInv(d, transients)
  <1>1. PICK f : f = clearMissInst(c.fe, u)
    OBVIOUS
  <1>2. /\ IsCore(d) /\ d.pipe = c.pipe /\ d.fe = f /\ d.instQueue = c.instQueue
        /\ d.space = c.space /\ d.n = c.n /\ d.issued = c.issued /\ d.retired = c.retired
        /\ d.busy = c.busy /\ d.task = c.task
    BY <1>1 DEF CoreInv, IsCore
  <1>3. EngineInv(f)
    BY <1>1, ClearMissKeeps DEF CoreInv
  <1>4. f.pending \subseteq c.fe.pending
    BY <1>1 DEF clearMissInst, CoreInv, EngineInv, IsEngine
  <1>5. BlocksAfter(f, c.retired)
    BY <1>4 DEF CoreInv, BlocksAfter
  <1>6. CountsInv(d) /\ PoolInv(d) /\ PlacesInv(d, transients)
    BY <1>2 DEF CoreInv, CountsInv, PoolInv, PlacesInv
  <1>7. QED  BY <1>2, <1>3, <1>5, <1>6 DEF CoreInv

\* The fields of the record.
LEMMA CoreIs ==
  /\ IsCore(Core) /\ Core.pipe = pipe /\ Core.fe = fe /\ Core.instQueue = instQueue
  /\ Core.space = spaceInInstQueue /\ Core.n = n /\ Core.issued = issued
  /\ Core.retired = retired /\ Core.busy = busy /\ Core.task = task
  BY DEF Core, IsCore

\* The invariant holds at first,
LEMMA InitHolds == Init => FrontEndInv
  <1> SUFFICES ASSUME Init PROVE FrontEndInv
    OBVIOUS
  <1>1. PICK p, q : p = pipe /\ q = instQueue /\ p = Pipeline0 /\ q = << >>
    BY DEF Init
  <1>2. bucketPoolMaxSize \in Nat /\ MaxIRequests \in Nat
    BY PipelineAssumption DEF bucketPoolMaxSize
  <1>3. /\ IsPipe(p) /\ p.pool = bucketPoolMaxSize /\ p.nIRequests = MaxIRequests /\ p.max = 0
        /\ p.inflight = {} /\ p.received = {} /\ p.buffer = << >> /\ p.flushed = {}
    BY <1>1 DEF Pipeline0, IsPipe
  <1>4. IsFiniteSet({}) /\ Cardinality({}) = 0
    BY FS_EmptySet
  <1>5. PipeInv(p) /\ Settled(p)
    <2>1. PipeType(p)
      BY <1>2, <1>3, <1>4 DEF PipeType, UniqueIds
    <2>2. 0..(0 - 1) = {}
      OBVIOUS
    <2>3. Owned(p, 0..(p.max - 1))
      BY <1>3, <2>2 DEF Owned, Ids
    <2>4. Settled(p)
      BY <1>3 DEF Settled, Ids
    <2>5. QED  BY <1>3, <2>1, <2>3, <2>4 DEF PipeInv
  <1>6. PoolInv(Core)
    <2>1. Buckets(p) = bucketPoolMaxSize /\ Asks(p) = MaxIRequests
      BY <1>2, <1>3, <1>4 DEF Buckets, Asks
    <2>2. Len(q) = 0
      BY <1>1
    <2>3. Core.pipe = p /\ Core.instQueue = q
      BY <1>1, CoreIs
    <2>4. Buckets(p) + Len(q) = bucketPoolMaxSize
      BY <1>2, <2>1, <2>2
    <2>5. QED  BY <2>1, <2>3, <2>4 DEF PoolInv
  <1>7. DOMAIN << >> = {}
    OBVIOUS
  <1>8. QueueInv(q, spaceInInstQueue)
    <2>1. Slots(q) = {}
      BY <1>1, <1>7 DEF Slots
    <2>2. spaceInInstQueue = InstQueueSize /\ InstQueueSize \in Nat
      BY FrontEndAssumption DEF Init
    <2>3. q \in Seq(Seq(Nat)) /\ \A k \in 1..Len(q) : q[k] # << >>
      BY <1>1
    <2>4. QED  BY <1>4, <2>1, <2>2, <2>3 DEF QueueInv
  <1>9. Placed(q, p) = {}
    <2>1. InQueue(<< >>) = {} /\ InBuffer(<< >>) = {} /\ InCache({}) = {}
      BY <1>7, PlacesAre
    <2>2. QED  BY <1>1, <1>3, <2>1 DEF Placed
  <1>10. PlacesInv(Core, do_random_transients)
    <2>1. (0 + 1)..0 = {}
      OBVIOUS
    <2>2. Kept({}, 0, 0) /\ AllReal({})
      BY <2>1 DEF Kept, AllReal
    <2>3. QED  BY <1>1, <1>9, <2>2, CoreIs DEF PlacesInv, Init
  <1>11. EngineInv(fe) /\ fe.pending = {}
    BY EngineStarts DEF Init, Engine0
  <1>12. BlocksAfter(fe, retired)
    BY <1>11 DEF BlocksAfter
  <1>13. CountsInv(Core)
    <2>1. /\ Core.retired = 0 /\ Core.issued = 0 /\ Core.n = 0 /\ Core.busy = FALSE
          /\ Core.task = "active"
      BY CoreIs DEF Init
    <2>2. 0 <= MaxInst
      BY FrontEndAssumption
    <2>3. PICK c : c = Core
      OBVIOUS
    <2>4. /\ c.retired \in Nat /\ c.issued \in Nat /\ c.n \in Nat
          /\ c.retired <= c.issued /\ c.issued <= c.n /\ c.n <= MaxInst
      BY <2>1, <2>2, <2>3
    <2>5. c.busy \in BOOLEAN /\ (~c.busy => c.n = 0)
      BY <2>1, <2>3
    <2>6. /\ c.task # "active" => c.n = MaxInst
          /\ c.task = "down" => c.retired = MaxInst
      BY <2>1, <2>3
    <2>7. QED  BY <2>3, <2>4, <2>5, <2>6 DEF CountsInv
  <1>14. QED  BY <1>1, <1>5, <1>6, <1>8, <1>10, <1>11, <1>12, <1>13, CoreIs DEF FrontEndInv, CoreInv

\* and every step keeps it.
LEMMA NextKeeps == FrontEndInv /\ [Next]_vars => FrontEndInv'
  <1> SUFFICES ASSUME FrontEndInv, [Next]_vars PROVE FrontEndInv'
    OBVIOUS
  <1>1. PICK c, transients : c = Core /\ transients = do_random_transients
    OBVIOUS
  <1>2. CoreInv(c, transients)
    BY <1>1 DEF FrontEndInv
  <1>3. CASE AdvanceClock
    <2>1. PICK d \in Fetches(c), width \in 0..IssueWidth, all \in BOOLEAN :
            Becomes(advance_clock_drain(d, width, all))
      BY <1>1, <1>3 DEF AdvanceClock, Core
    <2>2. PICK e : e = advance_clock_drain(d, width, all)
      OBVIOUS
    <2>3. CoreInv(d, transients) /\ (c.task # "active" => d = c)
      BY <1>1, <1>2, FetchesCore
    <2>4. task = "deactivating" => d.n = MaxInst
      <3>1. c.task = task
        BY <1>1, CoreIs
      <3>2. c.task # "active" => c.n = MaxInst
        BY <1>2 DEF CoreInv, CountsInv
      <3>3. QED  BY <2>3, <3>1, <3>2
    <2>5. width \in Nat
      BY FrontEndAssumption
    <2>6. CoreInv(e, transients)
      BY <2>2, <2>3, <2>4, <2>5, DrainCore
    <2>7. PICK g : g = [e EXCEPT !.pipe = older(e.pipe), !.fe = ticked(e.fe)]
      OBVIOUS
    <2>8. CoreInv(g, transients)
      BY <2>6, <2>7, ClockCore
    <2>9. IsCore(e)
      BY <2>6 DEF CoreInv
    <2>10. Core' = g /\ do_random_transients' = do_random_transients
      BY <2>1, <2>2, <2>7, <2>9 DEF Becomes, Core, IsCore
    <2>11. QED  BY <1>1, <2>8, <2>10 DEF FrontEndInv
  <1>4. CASE MarkFetched
    <2>1. PICK b \in pipe.inflight : pipe' = markFetched(pipe, b)
      BY <1>4 DEF MarkFetched
    <2>2. PICK p, r : p = pipe /\ r = pipe'
      OBVIOUS
    <2>3. PipeInv(p) /\ Settled(p)
      BY <1>1, <1>2, <2>2, CoreIs DEF CoreInv
    <2>4. Steps(p, r) /\ Settled(r)
      BY <2>1, <2>2, <2>3, MarkFetchedSteps
    <2>5. PICK g : g = [c EXCEPT !.pipe = r]
      OBVIOUS
    <2>6. CoreInv(g, transients)
      <3>1. c.pipe = p
        BY <1>1, <2>2, CoreIs
      <3>2. QED  BY <1>2, <2>4, <2>5, <3>1, PipeStepsCore
    <2>7. Core' = g /\ do_random_transients' = do_random_transients
      BY <1>1, <1>4, <2>2, <2>5 DEF MarkFetched, Core
    <2>8. QED  BY <1>1, <2>6, <2>7 DEF FrontEndInv
  <1>5. ASSUME NEW u \in fe.pending, Unblock(u)
        PROVE  FrontEndInv'
    <2>1. PICK g : g = [c EXCEPT !.fe = clearMissInst(c.fe, u)]
      OBVIOUS
    <2>2. c.fe = fe
      BY <1>1, CoreIs
    <2>3. CoreInv(g, transients)
      BY <1>2, <2>1, <2>2, UnblockCore
    <2>4. Core' = g /\ do_random_transients' = do_random_transients
      BY <1>1, <1>5, <2>1, <2>2 DEF Unblock, Core
    <2>5. QED  BY <1>1, <2>3, <2>4 DEF FrontEndInv
  <1>6. CASE UnBlockFetchBPredDelay
    BY <1>5, <1>6 DEF UnBlockFetchBPredDelay
  <1>7. CASE UnBlockFetch
    BY <1>5, <1>7 DEF UnBlockFetch
  <1>8. CASE UNCHANGED vars
    <2>1. Core' = c /\ do_random_transients' = do_random_transients
      BY <1>1, <1>8 DEF vars, Core
    <2>2. QED  BY <1>1, <1>2, <2>1 DEF FrontEndInv
  <1>9. QED  BY <1>3, <1>4, <1>6, <1>7, <1>8 DEF Next

\* The inductive invariant: the places of the instructions, the owners of the
\* identifiers, buckets, requests and free space, the engine's block and stack, and
\* the progress of the program (GProcessor::fetch, decode_stage, issue, retire,
\* Pipeline, FetchEngine, TaskHandler::boot) in every reachable state.
THEOREM FrontEndInvariant == Spec => []FrontEndInv
  <1>1. QED  BY InitHolds, NextKeeps, PTL DEF Spec

\* By identifier, the cache's buckets are a third queue.
ByNumber(S) == LET asked == {[id |-> b.id, insts |-> b.insts] : b \in S}
               IN [i \in {b.id : b \in asked} |-> (CHOOSE b \in asked : b.id = i).insts]

\* The identifiers being unique, no bucket hides another.
LEMMA ByNumberDoes ==
  ASSUME NEW S, \A a, b \in S : a.id = b.id => a = b
  PROVE  InCache(S) = InSeq(3, ByNumber(S))
  <1> DEFINE asked == {[id |-> b.id, insts |-> b.insts] : b \in S}
  <1>1. /\ \A b \in S : \E a \in asked : a.id = b.id /\ a.insts = b.insts
        /\ \A a \in asked : \E b \in S : a.id = b.id /\ a.insts = b.insts
    <2>1. \A x : x \in asked <=> \E b \in S : x = [id |-> b.id, insts |-> b.insts]
      OBVIOUS
    <2>2. \A x, i, s : x = [id |-> i, insts |-> s] => x.id = i /\ x.insts = s
      OBVIOUS
    <2> HIDE DEF asked
    <2>3. ASSUME NEW b \in S
          PROVE  \E a \in asked : a.id = b.id /\ a.insts = b.insts
      <3>1. PICK a : a = [id |-> b.id, insts |-> b.insts]
        OBVIOUS
      <3>2. a \in asked
        BY <2>1, <3>1
      <3>3. QED  BY <2>2, <3>1, <3>2
    <2>4. ASSUME NEW a \in asked
          PROVE  \E b \in S : a.id = b.id /\ a.insts = b.insts
      <3>1. PICK b \in S : a = [id |-> b.id, insts |-> b.insts]
        BY <2>1, <2>4
      <3>2. QED  BY <2>2, <3>1
    <2>5. QED  BY <2>3, <2>4
  <1>2. \A a, b \in asked : a.id = b.id => a.insts = b.insts
    BY <1>1
  <1>3. PICK h : h = ByNumber(S)
    OBVIOUS
  <1>4. h = [i \in {b.id : b \in asked} |-> (CHOOSE b \in asked : b.id = i).insts]
    BY <1>3 DEF ByNumber
  <1> HIDE DEF asked
  <1>5. /\ \A i : i \in DOMAIN h <=> \E b \in asked : b.id = i
        /\ \A i \in DOMAIN h : h[i] = (CHOOSE b \in asked : b.id = i).insts
    BY <1>4
  <1>6. ASSUME NEW b \in S
        PROVE  b.id \in DOMAIN h /\ h[b.id] = b.insts
    <2>1. PICK a \in asked : a.id = b.id /\ a.insts = b.insts
      BY <1>1
    <2>2. b.id \in DOMAIN h
      BY <1>5, <2>1
    <2>3. PICK e : e = CHOOSE x \in asked : x.id = b.id
      OBVIOUS
    <2>4. e \in asked /\ e.id = b.id
      BY <2>1, <2>3
    <2>5. h[b.id] = e.insts
      BY <1>5, <2>2, <2>3
    <2>6. QED  BY <1>2, <2>1, <2>2, <2>4, <2>5
  <1>7. \A i \in DOMAIN h : \E b \in S : b.id = i
    BY <1>1, <1>5
  <1>8. ASSUME NEW x \in InCache(S)
        PROVE  x \in InSeq(3, h)
    <2>1. PICK b, j : b \in S /\ j \in DOMAIN b.insts /\ x = <<3, b.id, j, b.insts[j]>>
      BY <1>8, PlacesAre
    <2>2. PICK i : i = b.id
      OBVIOUS
    <2>3. i \in DOMAIN h /\ h[i] = b.insts
      BY <1>6, <2>1, <2>2
    <2>4. j \in DOMAIN h[i] /\ x = <<3, i, j, h[i][j]>>
      BY <2>1, <2>2, <2>3
    <2>5. QED  BY <2>3, <2>4, PlacesAre
  <1>9. ASSUME NEW x \in InSeq(3, h)
        PROVE  x \in InCache(S)
    <2>1. PICK i, j : i \in DOMAIN h /\ j \in DOMAIN h[i] /\ x = <<3, i, j, h[i][j]>>
      BY <1>9, PlacesAre
    <2>2. PICK b \in S : b.id = i
      BY <1>7, <2>1
    <2>3. h[i] = b.insts
      BY <1>6, <2>2
    <2>4. QED  BY <2>1, <2>2, <2>3, PlacesAre
  <1>10. QED  BY <1>3, <1>8, <1>9

\* The instruction at a place of the queues w.
InstAt(w, x) == w[x[1]][x[2]][x[3]]
WithInst(w, x) == <<x[1], x[2], x[3], InstAt(w, x)>>

\* The places of InstructionsKept are those of Placed.
LEMMA PlacesArePlaced ==
  ASSUME NEW q, NEW v, NEW h, NEW w, w = <<q, v, h>>,
         NEW O, O = InSeq(1, q) \cup InSeq(2, v) \cup InSeq(3, h)
  PROVE  /\ \A x \in Places(w) : WithInst(w, x) \in O
         /\ \A y \in O : \E x \in Places(w) : y = WithInst(w, x)
  <1>1. w[1] = q /\ w[2] = v /\ w[3] = h
    OBVIOUS
  <1>2. \A y : y \in O <=> \E s \in 1..3 : y \in InSeq(s, w[s])
    <2>1. \A s : s \in 1..3 <=> s = 1 \/ s = 2 \/ s = 3
      OBVIOUS
    <2>2. QED  BY <1>1, <2>1
  <1>3. \A a, b, c : <<a, b, c>>[1] = a /\ <<a, b, c>>[2] = b /\ <<a, b, c>>[3] = c
    OBVIOUS
  <1>4. \A a, b : <<a, b>>[1] = a /\ <<a, b>>[2] = b
    OBVIOUS
  <1>5. \A x : x \in Places(w) <=> \E s \in 1..3 : \E z \in Slots(w[s]) : x = <<s, z[1], z[2]>>
    BY DEF Places
  <1>6. ASSUME NEW x \in Places(w)
        PROVE  WithInst(w, x) \in O
    <2>1. PICK s, z : s \in 1..3 /\ z \in Slots(w[s]) /\ x = <<s, z[1], z[2]>>
      BY <1>5, <1>6
    <2>2. PICK k, j : k \in DOMAIN w[s] /\ j \in DOMAIN w[s][k] /\ z = <<k, j>>
      BY <2>1, SlotsAre
    <2>3. x[1] = s /\ x[2] = k /\ x[3] = j
      BY <1>3, <1>4, <2>1, <2>2
    <2>4. WithInst(w, x) = <<s, k, j, w[s][k][j]>>
      BY <2>3 DEF WithInst, InstAt
    <2>5. PICK e : e = w[s]
      OBVIOUS
    <2>6. WithInst(w, x) \in InSeq(s, e)
      BY <2>2, <2>4, <2>5, PlacesAre
    <2>7. QED  BY <1>2, <2>1, <2>5, <2>6
  <1>7. ASSUME NEW y \in O
        PROVE  \E x \in Places(w) : y = WithInst(w, x)
    <2>1. PICK s \in 1..3 : y \in InSeq(s, w[s])
      BY <1>2, <1>7
    <2>2. PICK e : e = w[s]
      OBVIOUS
    <2>3. PICK k, j : k \in DOMAIN e /\ j \in DOMAIN e[k] /\ y = <<s, k, j, e[k][j]>>
      BY <2>1, <2>2, PlacesAre
    <2>4. PICK z, x : z = <<k, j>> /\ x = <<s, k, j>>
      OBVIOUS
    <2>5. z \in Slots(e) /\ z[1] = k /\ z[2] = j
      BY <1>4, <2>3, <2>4, SlotsAre
    <2>6. x \in Places(w)
      BY <1>5, <2>2, <2>4, <2>5
    <2>7. x[1] = s /\ x[2] = k /\ x[3] = j
      BY <1>3, <2>4
    <2>8. WithInst(w, x) = y
      BY <2>2, <2>3, <2>7 DEF WithInst, InstAt
    <2>9. QED  BY <2>6, <2>8
  <1>8. QED  BY <1>6, <1>7

\* What Kept says of the places, it says of the queues.
LEMMA KeptPlaces ==
  ASSUME NEW w, NEW O, NEW lo, NEW hi, Kept(O, lo, hi),
         \A x \in Places(w) : WithInst(w, x) \in O,
         \A y \in O : \E x \in Places(w) : y = WithInst(w, x)
  PROVE  /\ {InstAt(w, x) : x \in Places(w)} \ {TRANSIENT} = (lo + 1)..hi
         /\ \A x, y \in Places(w) : Before(x, y) /\ InstAt(w, y) # TRANSIENT =>
                                      InstAt(w, x) # TRANSIENT /\ InstAt(w, x) < InstAt(w, y)
  <1>1. \A x : /\ WithInst(w, x)[1] = x[1] /\ WithInst(w, x)[2] = x[2]
               /\ WithInst(w, x)[3] = x[3] /\ WithInst(w, x)[4] = InstAt(w, x)
    BY DEF WithInst
  <1>2. \A x, y : Before(x, y) => Before(WithInst(w, x), WithInst(w, y))
    BY <1>1 DEF Before
  <1>3. {InstAt(w, x) : x \in Places(w)} = {y[4] : y \in O}
    BY <1>1
  <1>4. ASSUME NEW x \in Places(w), NEW y \in Places(w), Before(x, y), InstAt(w, y) # TRANSIENT
        PROVE  InstAt(w, x) # TRANSIENT /\ InstAt(w, x) < InstAt(w, y)
    <2>1. PICK a, b : a = WithInst(w, x) /\ b = WithInst(w, y)
      OBVIOUS
    <2>2. a \in O /\ b \in O /\ Before(a, b) /\ a[4] = InstAt(w, x) /\ b[4] = InstAt(w, y)
      BY <1>1, <1>2, <1>4, <2>1
    <2>3. QED  BY <1>4, <2>2 DEF Kept
  <1>5. QED  BY <1>3, <1>4 DEF Kept

\* So the invariant is what InstructionsKept says.
LEMMA InvKeeps == FrontEndInv => InstructionsKept
  <1> SUFFICES ASSUME FrontEndInv PROVE InstructionsKept
    OBVIOUS
  <1>1. PICK p, q, lo, hi : p = pipe /\ q = instQueue /\ lo = issued /\ hi = n
    OBVIOUS
  <1>2. /\ PipeInv(p) /\ Kept(Placed(q, p), lo, hi) /\ QueueInv(q, spaceInInstQueue)
    BY <1>1, CoreIs DEF FrontEndInv, CoreInv, PlacesInv
  <1>3. PICK S, h : S = p.received \cup p.inflight /\ h = ByNumber(S)
    OBVIOUS
  <1>4. InCache(S) = InSeq(3, h)
    <2>1. \A a, b \in S : a.id = b.id => a = b
      <3>1. /\ UniqueIds(p.received) /\ UniqueIds(p.inflight)
            /\ Ids(p.inflight) \cap Ids(p.received) = {}
        BY <1>2 DEF PipeInv, PipeType, Owned
      <3>2. QED  BY <1>3, <3>1 DEF UniqueIds, Ids
    <2>2. QED  BY <1>3, <2>1, ByNumberDoes
  <1>5. PICK w : w = <<q, Buffered(p.buffer), h>>
    OBVIOUS
  <1>6. w = Waiting
    BY <1>1, <1>3, <1>5 DEF Waiting, Buffered, ByNumber
  <1>7. PICK O : O = Placed(q, p)
    OBVIOUS
  <1>8. O = InSeq(1, q) \cup InSeq(2, Buffered(p.buffer)) \cup InSeq(3, h)
    BY <1>3, <1>4, <1>7 DEF Placed, InQueue, InBuffer
  <1>9. /\ \A x \in Places(w) : WithInst(w, x) \in O
        /\ \A y \in O : \E x \in Places(w) : y = WithInst(w, x)
    BY <1>5, <1>8, PlacesArePlaced
  <1>10. /\ {InstAt(w, x) : x \in Places(w)} \ {TRANSIENT} = (lo + 1)..hi
         /\ \A x, y \in Places(w) : Before(x, y) /\ InstAt(w, y) # TRANSIENT =>
                                      InstAt(w, x) # TRANSIENT /\ InstAt(w, x) < InstAt(w, y)
    BY <1>2, <1>7, <1>9, KeptPlaces
  <1>11. spaceInInstQueue + Cardinality(Slots(instQueue)) = InstQueueSize
    BY <1>1, <1>2 DEF QueueInv
  <1>12. QED  BY <1>1, <1>6, <1>10, <1>11 DEF InstructionsKept, InstAt

-----------------------------------------------------------------------------
(* The theorems.                                                           *)

\* However the instruction cache reorders the buckets and whatever the flushes of
\* the wrong path take out of the three queues (Pipeline::readyItem, clearItems,
\* flush_transient_inst_*), for every length of the program, width and size of the
\* queues, the real instructions reach the core all and in the order of the program.
THEOREM InstructionsCorrect == Spec => []InstructionsKept
  <1>1. QED  BY FrontEndInvariant, InvKeeps, PTL

\* No bucket and no request for one is lost or counted twice (Pipeline::newItem,
\* doneItem, readyItem and the flushes).
THEOREM BucketsCorrect == Spec => []BucketsConserved
  <1>1. FrontEndInv => BucketsConserved
    BY CoreIs DEF FrontEndInv, CoreInv, PoolInv, Buckets, Asks, BucketsConserved
  <1>2. QED  BY <1>1, FrontEndInvariant, PTL

\* A blocked fetch always has its one unblocking to come, of the instruction that
\* blocked it (FetchEngine::processBranch, realfetch, clearMissInst).
THEOREM UnblockCorrect == Spec => []OneUnblockPending
  <1>1. FrontEndInv => OneUnblockPending
    <2> SUFFICES ASSUME FrontEndInv PROVE OneUnblockPending
      OBVIOUS
    <2>1. EngineInv(fe)
      BY CoreIs DEF FrontEndInv, CoreInv
    <2>2. QED  BY <2>1, OneUnblock DEF OneUnblockPending
  <1>2. QED  BY <1>1, FrontEndInvariant, PTL

\* For every size of the return address stack, the calls it was not nested too deep
\* for are where their returns will look (BPRas::predict).
THEOREM ReturnsCorrect == Spec => []ReturnsPredicted
  <1>1. FrontEndInv => ReturnsPredicted
    <2> SUFFICES ASSUME FrontEndInv PROVE ReturnsPredicted
      OBVIOUS
    <2>1. StackInv(fe)
      BY CoreIs DEF FrontEndInv, CoreInv, EngineInv
    <2>2. RasSize > 0 => RasSize # 0
      BY FetchAssumption
    <2>3. QED  BY <2>1, <2>2 DEF StackInv, Held, ReturnsPredicted
  <1>2. QED  BY <1>1, FrontEndInvariant, PTL

\* The bucket whose turn it is is always on its way from the cache, never flushed or
\* left among those out of order (Pipeline::clearItems), and a core that powers down
\* has retired the whole program (advance_clock_drain, TaskHandler::boot).
THEOREM NothingStrands == Spec => []NothingStranded
  <1>1. FrontEndInv => NothingStranded
    <2> SUFFICES ASSUME FrontEndInv PROVE NothingStranded
      OBVIOUS
    <2>1. PICK p : p = pipe /\ PipeInv(p) /\ Settled(p)
      BY CoreIs DEF FrontEndInv, CoreInv
    <2>2. ASSUME p.max > 0
          PROVE  \E b \in p.inflight : b.id = 0
      <3>1. 0 \in 0..(p.max - 1)
        BY <2>1, <2>2 DEF PipeInv
      <3>2. 0 \in Ids(p.inflight)
        BY <2>1, <3>1 DEF PipeInv, Owned, Settled
      <3>3. QED  BY <3>2 DEF Ids
    <2>3. task = "down" => retired = MaxInst
      BY CoreIs DEF FrontEndInv, CoreInv, CountsInv
    <2>4. QED  BY <2>1, <2>2, <2>3 DEF NothingStranded
  <1>2. QED  BY <1>1, FrontEndInvariant, PTL


=============================================================================
