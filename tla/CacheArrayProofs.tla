-------------------------- MODULE CacheArrayProofs --------------------------
(***************************************************************************)
(* Proofs about CacheArray: the tag arrays of every size, associativity    *)
(* and policy, under any sequence of lookups, fills and invalidations.     *)
(***************************************************************************)
EXTENDS CacheArray, SequenceTheorems, WellFoundedInduction, TLAPS

-----------------------------------------------------------------------------
(* The inductive invariant *)

Line == [tag : Tags \cup {0}, prefetch : BOOLEAN, pc : PCs \cup {0}, nDemand : Nat,
         data : {0}, rrip : Nat, recent : BOOLEAN]

\* A set of n ways.
Ways(n) == [1..n -> Line]

IsCache(x) == x = [policy |-> x.policy, irand |-> x.irand, tracker |-> x.tracker,
                   hawk |-> x.hawk, sets |-> x.sets]

\* The shape of an array; random's position is one of the set's.
Shape(x) ==
  /\ IsCache(x) /\ x.policy \in Policies
  /\ x.sets \in [Sets -> Ways(assoc(x.policy))]
  /\ x.policy = "random" => x.irand \in 0..(Geometry.assoc - 1)

\* No two ways of a set hold the same line.
Unique(S) == \A v, w \in DOMAIN S : S[v].tag # 0 /\ S[v].tag = S[w].tag => v = w

\* Every line is in the set it indexes, once.
Placed(x) ==
  /\ \A i \in Sets : Unique(x.sets[i])
  /\ \A i \in Sets : \A w \in 1..assoc(x.policy) :
       x.sets[i][w].tag # 0 => calcIndex4Tag(x.sets[i][w].tag) = i

\* In the skewed array it is in one of the three positions of one of its
\* addresses, and in no other set if its addresses have the same positions.
OwnPlace(tag, i) ==
  \E a \in Addrs : calcTag(a) = tag /\ \E k \in 1..3 : skewIndexes(a)[k] = i

Skewed(x) ==
  /\ \A i \in Sets : x.sets[i][1].tag # 0 => OwnPlace(x.sets[i][1].tag, i)
  /\ \A i, j \in Sets :
       /\ x.sets[i][1].tag # 0 /\ x.sets[i][1].tag = x.sets[j][1].tag
       /\ alike("skew", x.sets[i][1].tag)
       => i = j

Sound(x) == Shape(x) /\ IF x.policy = "skew" THEN Skewed(x) ELSE Placed(x)

ArrayInv == Sound(c)

\* The lines of a set are in order of last use, and only the last way can hold one
\* that was never used.
Ordered(S, st) ==
  /\ \A v, w \in DOMAIN S :
       v < w /\ S[v].tag # 0 /\ S[w].tag # 0 => st[S[v].tag] > st[S[w].tag]
  /\ \A v \in DOMAIN S : v < Len(S) /\ S[v].tag # 0 => st[S[v].tag] > 0

AllOrdered(x, st) == \A j \in Sets : Ordered(x.sets[j], st)

LruInv ==
  /\ steps \in Nat /\ stamp \in [Tags -> 0..steps]
  /\ c.policy = "lru" => AllOrdered(c, stamp)

-----------------------------------------------------------------------------
(* Operators *)

\* A set of numbers that is not empty has a least one.
LEMMA Lowest ==
  ASSUME NEW S \in SUBSET Nat, S # {}
  PROVE  LowestOf(S) \in S /\ \A y \in S : LowestOf(S) <= y
  <1> DEFINE Less == {m \in Nat \X Nat : m[1] < m[2]}
  <1>1. IsWellFoundedOn(Less, Nat)
    BY NatLessThanWellFounded DEF OpToRel
  <1> HIDE DEF Less
  <1>2. PICK x \in S : \A y \in S : ~(<<y, x>> \in Less)
    BY <1>1, WFMin
  <1>3. \A y \in S : y < x => <<y, x>> \in Less
    BY DEF Less
  <1>4. \A y \in S : x <= y
    <2> SUFFICES ASSUME NEW y \in S PROVE x <= y
      OBVIOUS
    <2>1. x \in Nat /\ y \in Nat /\ ~(y < x)
      BY <1>2, <1>3
    <2>2. QED  BY <2>1
  <1>5. QED  BY <1>4, Zenon DEF LowestOf

\* So does a set of positions have a greatest one.
LEMMA Highest ==
  ASSUME NEW n \in Nat, NEW S \in SUBSET (1..n), S # {}
  PROVE  HighestOf(S) \in S
  <1> DEFINE R == {n - x : x \in S}
  <1>1. R \in SUBSET Nat /\ R # {}
    <2>1. PICK z : z \in S
      OBVIOUS
    <2>2. n - z \in R
      BY <2>1
    <2>3. \A x \in S : n - x \in Nat
      OBVIOUS
    <2>4. QED  BY <2>2, <2>3
  <1>2. LowestOf(R) \in R /\ \A y \in R : LowestOf(R) <= y
    BY <1>1, Lowest
  <1>3. PICK x \in S : LowestOf(R) = n - x
    BY <1>2
  <1>4. \A y \in S : x >= y
    <2> TAKE y \in S
    <2>1. n - y \in R
      OBVIOUS
    <2>2. n - x <= n - y
      BY <1>2, <1>3, <2>1
    <2>3. QED  BY <2>2
  <1>5. QED  BY <1>3, <1>4, Zenon DEF HighestOf

\* Tags are numbers.
LEMMA TagsAreNats == Tags \in SUBSET Nat
  <1>1. Addrs \in SUBSET Nat /\ 2^Geometry.log2AddrLs \in Nat \ {0}
    BY CacheArrayAssumption
  <1>2. \A x \in Nat : \A k \in Nat \ {0} : x \div k \in Nat
    OBVIOUS
  <1>3. QED  BY <1>1, <1>2 DEF Tags, calcTag

\* wayOf finds a way with the tag, if there is one.
LEMMA WayOfTag ==
  ASSUME NEW n \in Nat, NEW S \in Ways(n), NEW tag
  PROVE  \/ wayOf(S, tag) = 0 /\ \A w \in 1..n : S[w].tag # tag
         \/ wayOf(S, tag) \in 1..n /\ S[wayOf(S, tag)].tag = tag
  <1> DEFINE W == {w \in DOMAIN S : S[w].tag = tag}
  <1>1. DOMAIN S = 1..n /\ W \in SUBSET Nat
    BY DEF Ways
  <1>2. W # {} => LowestOf(W) \in W
    BY <1>1, Lowest
  <1>3. wayOf(S, tag) = IF W = {} THEN 0 ELSE LowestOf(W)
    BY DEF wayOf
  <1>4. QED  BY <1>1, <1>2, <1>3

\* A set after way v got the line with the tag, staying where it is ...
InPlace(S, T, v, tag) ==
  T[v].tag = tag /\ \A u \in DOMAIN S : u # v => T[u].tag = S[u].tag

\* ... and after it moved to the front, past the ways before it.
Fronted(S, T, v, tag) ==
  /\ T[1].tag = tag
  /\ \A u \in DOMAIN S : u # 1 => T[u].tag = IF u <= v THEN S[u - 1].tag ELSE S[u].tag

\* toFront keeps the shape and all tags.
LEMMA FrontDoes ==
  ASSUME NEW n \in Nat, NEW S \in Ways(n), NEW w \in 1..n
  PROVE  /\ toFront(S, w) \in Ways(n)
         /\ Fronted(S, toFront(S, w), w, S[w].tag)
  <1> DEFINE h == <<S[w]>>  a == SubSeq(S, 1, w - 1)  b == SubSeq(S, w + 1, n)
             g == h \o a    t == toFront(S, w)
  <1>1. Len(S) = n /\ DOMAIN S = 1..n /\ \A u \in 1..n : S[u] \in Line
    BY DEF Ways
  <1>2. a \in Seq(Line) /\ Len(a) = w - 1 /\ \A u \in 1..(w - 1) : a[u] = S[u]
    <2>1. \A u \in 1..(w - 1) : S[u] \in Line
      BY <1>1
    <2>2. /\ a \in Seq(Line) /\ Len(a) = IF 1 <= w - 1 THEN (w - 1) - 1 + 1 ELSE 0
          /\ \A u \in 1..((w - 1) - 1 + 1) : a[u] = S[1 + u - 1]
      BY <2>1, SubSeqProperties
    <2>3. QED  BY <2>2
  <1>3. b \in Seq(Line) /\ Len(b) = n - w /\ \A u \in 1..(n - w) : b[u] = S[w + u]
    <2>1. \A u \in (w + 1)..n : S[u] \in Line
      BY <1>1
    <2>2. /\ b \in Seq(Line) /\ Len(b) = IF w + 1 <= n THEN n - (w + 1) + 1 ELSE 0
          /\ \A u \in 1..(n - (w + 1) + 1) : b[u] = S[(w + 1) + u - 1]
      BY <2>1, SubSeqProperties
    <2>3. QED  BY <2>2
  <1>4. h \in Seq(Line) /\ Len(h) = 1 /\ h[1] = S[w]
    BY <1>1
  <1>5. t = g \o b
    BY <1>1 DEF toFront
  <1>6. /\ g \in Seq(Line) /\ Len(g) = Len(h) + Len(a)
        /\ \A i \in 1..(Len(h) + Len(a)) : g[i] = IF i <= Len(h) THEN h[i] ELSE a[i - Len(h)]
    <2> HIDE DEF a, h
    <2> QED  BY <1>2, <1>4, ConcatProperties
  <1>7. /\ g \o b \in Seq(Line) /\ Len(g \o b) = Len(g) + Len(b)
        /\ \A i \in 1..(Len(g) + Len(b)) :
             (g \o b)[i] = IF i <= Len(g) THEN g[i] ELSE b[i - Len(g)]
    <2> HIDE DEF g, b
    <2>1. g \in Seq(Line) /\ b \in Seq(Line)
      BY <1>3, <1>6
    <2>2. QED  BY <2>1, ConcatProperties
  <1> HIDE DEF g, a, b, h, t
  <1>8. /\ t \in Seq(Line) /\ Len(t) = n
        /\ \A i \in 1..n : t[i] = IF i <= w THEN g[i] ELSE b[i - w]
    <2>1. Len(g) = w /\ Len(b) = n - w
      BY <1>2, <1>3, <1>4, <1>6
    <2>2. Len(g) + Len(b) = n
      BY <2>1
    <2>3. QED  BY <1>5, <1>7, <2>1, <2>2
  <1>9. g[1] = S[w] /\ \A u \in 2..w : g[u] = S[u - 1]
    BY <1>2, <1>4, <1>6
  <1>10. t[1] = S[w]
    <2>1. 1 \in 1..n /\ 1 <= w
      OBVIOUS
    <2>2. QED  BY <1>8, <1>9, <2>1
  <1>11. \A u \in 1..n : u # 1 => t[u] = IF u <= w THEN S[u - 1] ELSE S[u]
    <2> SUFFICES ASSUME NEW u \in 1..n, u # 1
                 PROVE  t[u] = IF u <= w THEN S[u - 1] ELSE S[u]
      OBVIOUS
    <2>1. CASE u <= w
      <3>1. u \in 2..w
        BY <2>1
      <3>2. QED  BY <1>8, <1>9, <2>1, <3>1
    <2>2. CASE ~(u <= w)
      <3>1. u - w \in 1..(n - w) /\ w + (u - w) = u
        BY <2>2
      <3>2. QED  BY <1>3, <1>8, <2>2, <3>1
    <2>3. QED  BY <2>1, <2>2
  <1>12. t \in Ways(n)
    BY <1>8, LenProperties DEF Ways
  <1>13. Fronted(S, t, w, S[w].tag)
    BY <1>1, <1>10, <1>11 DEF Fronted
  <1>14. QED  BY <1>12, <1>13 DEF t

SameTags(S, T) == \A u \in DOMAIN S : T[u].tag = S[u].tag

\* A field other than the tag of one way changes.
LEMMA FieldsDo ==
  ASSUME NEW n \in Nat, NEW S \in Ways(n), NEW w \in 1..n
  PROVE  /\ \A x \in Nat : /\ [S EXCEPT ![w].rrip = x] \in Ways(n)
                           /\ SameTags(S, [S EXCEPT ![w].rrip = x])
         /\ \A x \in Nat : /\ [S EXCEPT ![w].nDemand = x] \in Ways(n)
                           /\ SameTags(S, [S EXCEPT ![w].nDemand = x])
         /\ \A x \in PCs : /\ [S EXCEPT ![w].pc = x] \in Ways(n)
                           /\ SameTags(S, [S EXCEPT ![w].pc = x])
         /\ \A x \in BOOLEAN : /\ [S EXCEPT ![w].prefetch = x] \in Ways(n)
                               /\ SameTags(S, [S EXCEPT ![w].prefetch = x])
         /\ \A x \in BOOLEAN : /\ [S EXCEPT ![w].recent = x] \in Ways(n)
                               /\ SameTags(S, [S EXCEPT ![w].recent = x])
  BY DEF Ways, Line, SameTags

\* Sets with the same tags are moved and filled alike.
LEMMA SameTagsMove ==
  ASSUME NEW n \in Nat, NEW S \in Ways(n), NEW T \in Ways(n), SameTags(S, T), NEW U,
         NEW v \in 1..n, NEW tag
  PROVE  /\ SameTags(T, U) => SameTags(S, U)
         /\ S[v].tag = T[v].tag
         /\ Fronted(T, U, v, tag) => Fronted(S, U, v, tag)
         /\ SameTags(T, U) => Fronted(S, U, 1, S[1].tag)
  <1>1. DOMAIN S = 1..n /\ DOMAIN T = 1..n
    BY DEF Ways
  <1>2. \A u \in 1..n : T[u].tag = S[u].tag
    BY <1>1 DEF SameTags
  <1>3. SameTags(T, U) => SameTags(S, U)
    BY <1>1, <1>2 DEF SameTags
  <1>4. Fronted(T, U, v, tag) => Fronted(S, U, v, tag)
    <2> SUFFICES ASSUME Fronted(T, U, v, tag) PROVE Fronted(S, U, v, tag)
      OBVIOUS
    <2>1. \A u \in 1..n : u # 1 => u - 1 \in 1..n
      OBVIOUS
    <2>2. QED  BY <1>1, <1>2, <2>1 DEF Fronted
  <1>5. SameTags(T, U) => Fronted(S, U, 1, S[1].tag)
    <2> SUFFICES ASSUME SameTags(T, U) PROVE Fronted(S, U, 1, S[1].tag)
      OBVIOUS
    <2>1. \A u \in 1..n : U[u].tag = S[u].tag
      BY <1>1, <1>2 DEF SameTags
    <2>2. 1 \in 1..n /\ \A u \in 1..n : u # 1 => ~(u <= 1)
      OBVIOUS
    <2>3. QED  BY <1>1, <2>1, <2>2 DEF Fronted
  <1>6. QED  BY <1>2, <1>3, <1>4, <1>5

\* Moving a line to the front and then changing other fields.
LEMMA FrontedThen ==
  ASSUME NEW n \in Nat, NEW S \in Ways(n), NEW T \in Ways(n), NEW U, NEW v \in 1..n, NEW tag,
         Fronted(S, T, v, tag), SameTags(T, U)
  PROVE  Fronted(S, U, v, tag)
  <1>1. DOMAIN S = 1..n /\ DOMAIN T = 1..n /\ 1 \in 1..n
    BY DEF Ways
  <1>2. QED  BY <1>1 DEF Fronted, SameTags

\* A hit changes only counters.
LEMMA UsedDoes ==
  ASSUME NEW n \in Nat \ {0}, NEW S \in Ways(n), NEW x
  PROVE  used(x, S) \in Ways(n) /\ SameTags(S, used(x, S))
  <1> DEFINE k == S[1].nDemand + 1
             T == [S EXCEPT ![1].nDemand = k]
             r == IF trackerOf(x, S[1].pc).conf > Geometry.confHigh /\ 1 + trackerOf(x, S[1].pc).trend < k
                  THEN RRIP_MAX \div 2 ELSE RRIP_MAX
  <1>1. 1 \in 1..n /\ k \in Nat /\ r \in Nat /\ RRIP_MAX \in Nat
    BY DEF Ways, Line, RRIP_MAX
  <1>2. T \in Ways(n) /\ SameTags(S, T)
    BY <1>1, FieldsDo
  <1>3. [T EXCEPT ![1].rrip = r] \in Ways(n) /\ SameTags(T, [T EXCEPT ![1].rrip = r])
    BY <1>1, <1>2, FieldsDo
  <1>4. [S EXCEPT ![1].rrip = RRIP_MAX] \in Ways(n) /\ SameTags(S, [S EXCEPT ![1].rrip = RRIP_MAX])
    BY <1>1, FieldsDo
  <1>5. used(x, S) = IF x.policy = "uar" THEN [T EXCEPT ![1].rrip = r]
                     ELSE [S EXCEPT ![1].rrip = RRIP_MAX]
    BY DEF used, adjustRRIP
  <1> HIDE DEF T, r
  <1>6. SameTags(S, [T EXCEPT ![1].rrip = r])
    BY <1>1, <1>2, <1>3, SameTagsMove
  <1>7. QED  BY <1>3, <1>4, <1>5, <1>6

\* One set of an array changes, and nothing else that matters.
WithSet(x, i, T) == [x EXCEPT !.sets[i] = T]

\* A new set of the same number of ways keeps the shape.
LEMMA SetChanges ==
  ASSUME NEW x, Shape(x), NEW i \in Sets, NEW T \in Ways(assoc(x.policy))
  PROVE  /\ Shape(WithSet(x, i, T))
         /\ WithSet(x, i, T).policy = x.policy /\ WithSet(x, i, T).irand = x.irand
         /\ WithSet(x, i, T).sets = [x.sets EXCEPT ![i] = T]
  <1> DEFINE d == WithSet(x, i, T)
  <1>1. d = [x EXCEPT !.sets[i] = T]
    BY DEF WithSet
  <1> HIDE DEF d
  <1>2. d.policy = x.policy /\ d.irand = x.irand /\ d.sets = [x.sets EXCEPT ![i] = T] /\ IsCache(d)
    BY <1>1 DEF Shape, IsCache
  <1>3. Shape(d)
    BY <1>2 DEF Shape
  <1>4. QED  BY <1>2, <1>3 DEF d

-----------------------------------------------------------------------------
(* Lookups, except in the skewed array *)

\* After a lookup that found way h of S, or nothing (0).
Found(S, T, h, policy) ==
  /\ SameTags(S, T) \/ (h # 0 /\ Fronted(S, T, h, S[h].tag))
  /\ policy = "lru" => IF h = 0 THEN SameTags(S, T) ELSE Fronted(S, T, h, S[h].tag)

\* The number of ways, and that they are there.
LEMMA AssocPositive == \A p : assoc(p) \in Nat \ {0}
  BY CacheArrayAssumption DEF assoc

\* The sets of an array are sequences of its ways.
LEMMA SetsHaveWays ==
  ASSUME NEW x, Shape(x), NEW i \in Sets
  PROVE  /\ x.sets[i] \in Ways(assoc(x.policy))
         /\ Len(x.sets[i]) = assoc(x.policy) /\ DOMAIN x.sets[i] = 1..assoc(x.policy)
         /\ assoc(x.policy) \in Nat \ {0} /\ 1 \in 1..assoc(x.policy)
         /\ x.sets = [x.sets EXCEPT ![i] = x.sets[i]]
  <1>1. assoc(x.policy) \in Nat \ {0}
    BY AssocPositive
  <1>2. x.sets \in [Sets -> Ways(assoc(x.policy))]
    BY DEF Shape
  <1>3. x.sets[i] \in Ways(assoc(x.policy)) /\ x.sets = [x.sets EXCEPT ![i] = x.sets[i]]
    BY <1>2
  <1>4. QED  BY <1>1, <1>3 DEF Ways

\* An untouched set.
LEMMA Untouched ==
  ASSUME NEW n \in Nat \ {0}, NEW S \in Ways(n)
  PROVE  SameTags(S, S) /\ Fronted(S, S, 1, S[1].tag)
  <1>1. SameTags(S, S) /\ 1 \in 1..n
    BY DEF SameTags
  <1>2. QED  BY <1>1, SameTagsMove

\* CacheAssoc::findLinePrivate.
LEMMA AssocFindDoes ==
  ASSUME NEW x, Shape(x), NEW i \in Sets, NEW tag, NEW d, d = AssocFind(x, i, tag)
  PROVE  /\ Shape(d) /\ d.policy = x.policy
         /\ \E T \in Ways(assoc(x.policy)) :
              /\ d.sets = [x.sets EXCEPT ![i] = T]
              /\ Found(x.sets[i], T, wayOf(x.sets[i], tag), x.policy)
  <1> DEFINE S == x.sets[i]  n == assoc(x.policy)  h == wayOf(S, tag)
  <1>1. S \in Ways(n) /\ n \in Nat \ {0} /\ 1 \in 1..n /\ x.sets = [x.sets EXCEPT ![i] = S]
    BY SetsHaveWays
  <1> HIDE DEF n
  <1>2. h = 0 \/ h \in 1..n
    BY <1>1, WayOfTag
  <1> HIDE DEF h
  <1>3. d = IF h = 0 \/ (h = 1 /\ x.policy \notin {"par", "uar"}) THEN x
            ELSE [x EXCEPT !.sets[i] = used(x, toFront(S, h))]
    BY DEF AssocFind, AssocFindAt, h
  <1>4. CASE h = 0 \/ (h = 1 /\ x.policy \notin {"par", "uar"})
    <2>1. d = x /\ d.sets = [x.sets EXCEPT ![i] = S]
      BY <1>1, <1>3, <1>4
    <2>2. SameTags(S, S) /\ Fronted(S, S, 1, S[1].tag)
      BY <1>1, Untouched
    <2>3. Found(S, S, h, x.policy)
      BY <1>4, <2>2 DEF Found
    <2>4. QED  BY <1>1, <2>1, <2>3 DEF h, n
  <1>5. CASE ~(h = 0 \/ (h = 1 /\ x.policy \notin {"par", "uar"}))
    <2> DEFINE F == toFront(S, h)  T == used(x, F)
    <2>1. h \in 1..n /\ h # 0
      BY <1>2, <1>5
    <2>2. F \in Ways(n) /\ Fronted(S, F, h, S[h].tag)
      BY <1>1, <2>1, FrontDoes
    <2>3. T \in Ways(n) /\ SameTags(F, T)
      BY <1>1, <2>2, UsedDoes
    <2> HIDE DEF F
    <2>4. Fronted(S, T, h, S[h].tag)
      BY <1>1, <2>1, <2>2, <2>3, FrontedThen
    <2>5. d = WithSet(x, i, T)
      BY <1>3, <1>5 DEF F, WithSet
    <2> HIDE DEF T
    <2>6. Shape(d) /\ d.policy = x.policy /\ d.sets = [x.sets EXCEPT ![i] = T]
      BY <2>3, <2>5, SetChanges DEF n
    <2>7. Found(S, T, h, x.policy)
      BY <2>1, <2>4 DEF Found
    <2>8. QED  BY <2>3, <2>6, <2>7 DEF h, n
  <1>6. QED  BY <1>4, <1>5

\* HawkCache ages the lines or sets the rrip of the one it found.
LEMMA HawkLinesDo ==
  ASSUME NEW n \in Nat, NEW S \in Ways(n), NEW w \in 0..n, NEW h, NEW p
  PROVE  hawkLines(h, p, S, w) \in Ways(n) /\ SameTags(S, hawkLines(h, p, S, w))
  <1> DEFINE r == IF friendly(h, p) THEN 0 ELSE 7
             A == [v \in DOMAIN S |-> IF v > 1 /\ S[v].tag # 0 /\ S[v].rrip < 6
                                      THEN [S[v] EXCEPT !.rrip = @ + 1] ELSE S[v]]
  <1>1. CASE w > 1
    <2>1. hawkLines(h, p, S, w) = [S EXCEPT ![w].rrip = r]
      BY <1>1 DEF hawkLines
    <2>2. r \in Nat /\ w \in 1..n
      BY <1>1
    <2> HIDE DEF r
    <2>3. [S EXCEPT ![w].rrip = r] \in Ways(n) /\ SameTags(S, [S EXCEPT ![w].rrip = r])
      BY <2>2, FieldsDo
    <2>4. QED  BY <2>1, <2>3
  <1>2. CASE w = 0 /\ friendly(h, p)
    <2>1. hawkLines(h, p, S, w) = A
      BY <1>2 DEF hawkLines
    <2>2. A \in Ways(n) /\ SameTags(S, A)
      BY DEF Ways, Line, SameTags
    <2>3. QED  BY <2>1, <2>2
  <1>3. CASE ~(w > 1) /\ ~(w = 0 /\ friendly(h, p))
    <2>1. hawkLines(h, p, S, w) = S
      BY <1>3 DEF hawkLines
    <2>2. QED  BY <2>1 DEF SameTags
  <1>4. QED  BY <1>1, <1>2, <1>3

\* HawkCache::findLinePrivate.
LEMMA HawkFindDoes ==
  ASSUME NEW x, Shape(x), x.policy = "hawkeye", NEW i \in Sets, NEW a, NEW tag, NEW pc,
         NEW d, d = HawkFind(x, i, a, tag, pc)
  PROVE  /\ Shape(d) /\ d.policy = x.policy
         /\ \E T \in Ways(assoc(x.policy)) :
              /\ d.sets = [x.sets EXCEPT ![i] = T]
              /\ Found(x.sets[i], T, wayOf(x.sets[i], tag), x.policy)
  <1> DEFINE S == x.sets[i]  n == assoc(x.policy)  w == wayOf(S, tag)
             p == getPredictionHash(pc)
             h == learned(OPTgen(aged(x.hawk), getUsageIntervalHash(a), tag), p)
             T == hawkLines(h, p, S, w)
  <1>1. S \in Ways(n) /\ n \in Nat \ {0} /\ x.sets = [x.sets EXCEPT ![i] = S]
    BY SetsHaveWays
  <1> HIDE DEF n
  <1>2. w \in 0..n
    BY <1>1, WayOfTag
  <1>3. CASE w = 1
    <2>1. d = x /\ SameTags(S, S)
      BY <1>1, <1>3, Untouched DEF HawkFind
    <2>2. Found(S, S, w, x.policy)
      BY <2>1 DEF Found
    <2>3. QED  BY <1>1, <2>1, <2>2 DEF n
  <1>4. CASE w # 1
    <2>1. d = [x EXCEPT !.hawk = h, !.sets[i] = T]
      BY <1>4, Zenon DEF HawkFind, hawkLearn
    <2> HIDE DEF w, p, h
    <2>2. T \in Ways(n) /\ SameTags(S, T)
      BY <1>1, <1>2, HawkLinesDo
    <2> HIDE DEF T
    <2>3. d.policy = x.policy /\ d.irand = x.irand /\ d.sets = [x.sets EXCEPT ![i] = T] /\ IsCache(d)
      BY <2>1 DEF Shape, IsCache
    <2>4. Shape(d)
      BY <2>2, <2>3 DEF Shape, n
    <2>5. Found(S, T, w, x.policy)
      BY <2>2 DEF Found
    <2>6. QED  BY <2>2, <2>3, <2>4, <2>5 DEF n, w
  <1>5. QED  BY <1>3, <1>4

\* findLine.
LEMMA FindDoes ==
  ASSUME NEW x, Shape(x), x.policy # "skew", NEW a \in Addrs, NEW pc,
         NEW d, d = findLine(x, a, a, pc)
  PROVE  LET i == calcIndex4Tag(calcTag(a))
         IN /\ Shape(d) /\ d.policy = x.policy
            /\ \E T \in Ways(assoc(x.policy)) :
                 /\ d.sets = [x.sets EXCEPT ![i] = T]
                 /\ Found(x.sets[i], T, wayOf(x.sets[i], calcTag(a)), x.policy)
  <1> DEFINE i == calcIndex4Tag(calcTag(a))  tag == calcTag(a)
  <1>1. i \in Sets
    BY CacheArrayAssumption
  <1>2. CASE x.policy = "hawkeye"
    <2>1. d = HawkFind(x, i, a, tag, pc)
      BY <1>2 DEF findLine
    <2> HIDE DEF i, tag
    <2>2. QED  BY <1>1, <1>2, <2>1, HawkFindDoes DEF i, tag
  <1>3. CASE x.policy = "dm"
    <2>1. d = x
      BY <1>3 DEF findLine
    <2> HIDE DEF i
    <2>2. /\ x.sets[i] \in Ways(assoc(x.policy)) /\ x.sets = [x.sets EXCEPT ![i] = x.sets[i]]
          /\ SameTags(x.sets[i], x.sets[i])
      BY <1>1, SetsHaveWays, Untouched
    <2>3. Found(x.sets[i], x.sets[i], wayOf(x.sets[i], tag), x.policy)
      BY <1>3, <2>2 DEF Found
    <2>4. QED  BY <2>1, <2>2, <2>3 DEF i
  <1>4. CASE x.policy # "hawkeye" /\ x.policy # "dm"
    <2>1. d = AssocFind(x, i, tag)
      BY <1>4 DEF findLine
    <2> HIDE DEF i, tag
    <2>2. QED  BY <1>1, <2>1, AssocFindDoes DEF i, tag
  <1>5. QED  BY <1>2, <1>3, <1>4

-----------------------------------------------------------------------------
(* Replacement, except in the skewed array *)

\* After findLine2Replace chose way v of S (the one found, h, if there was one),
\* which is now at way: in place or at the front.
Replaced(S, T, v, way, h) ==
  /\ h # 0 => v = h
  /\ \/ way = v /\ SameTags(S, T)
     \/ way = 1 /\ Fronted(S, T, v, S[v].tag)

\* lru takes the last way, leaves it there for a prefetch of an absent line ...
LruLast(S, T, v, way, h) == h = 0 => v = Len(S) /\ way = v /\ SameTags(S, T)

\* ... and brings a demanded line to the front.
LruFirst(S, T, v, way, h) ==
  (h = 0 => v = Len(S)) /\ way = 1 /\ Fronted(S, T, v, S[v].tag)

\* The array y after findLine2Replace in set i of x, which had the line at way h.
Chosen(x, y, i, way, h, kind) ==
  /\ Shape(y) /\ y.policy = x.policy
  /\ \E T \in Ways(assoc(x.policy)), v \in 1..assoc(x.policy) :
       /\ y.sets = [x.sets EXCEPT ![i] = T]
       /\ Replaced(x.sets[i], T, v, way, h)
       /\ x.policy = "lru" => IF kind = "prefetch" THEN LruLast(x.sets[i], T, v, way, h)
                              ELSE LruFirst(x.sets[i], T, v, way, h)

Kind(prefetch) == IF prefetch THEN "prefetch" ELSE "demand"

\* Only what uar has learned changes.
LEMMA TrainedDoes ==
  ASSUME NEW x, Shape(x), NEW l
  PROVE  Shape(trained(x, l)) /\ trained(x, l).policy = x.policy /\ trained(x, l).sets = x.sets
  <1> DEFINE t == trained(x, l)
             K == [p \in DOMAIN x.tracker \cup {l.pc} |->
                     IF p = l.pc THEN done(trackerOf(x, p), l.nDemand) ELSE x.tracker[p]]
  <1>1. t = IF x.policy = "uar" /\ l.tag # 0 THEN [x EXCEPT !.tracker = K] ELSE x
    BY DEF trained
  <1> HIDE DEF t, K
  <1>2. IsCache(t) /\ t.policy = x.policy /\ t.irand = x.irand /\ t.sets = x.sets
    BY <1>1 DEF Shape, IsCache
  <1>3. Shape(t)
    BY <1>2 DEF Shape
  <1>4. QED  BY <1>2, <1>3 DEF t

\* Only random's position changes.
LEMMA NextRandDoes ==
  ASSUME NEW x, Shape(x)
  PROVE  Shape(nextRand(x)) /\ nextRand(x).policy = x.policy /\ nextRand(x).sets = x.sets
  <1> DEFINE t == nextRand(x)
             m == (x.irand + 1) % Geometry.assoc
             r == IF m = 0 THEN (m + 1) % Geometry.assoc ELSE m
  <1>1. t = IF x.policy # "random" THEN x ELSE [x EXCEPT !.irand = r]
    BY DEF nextRand
  <1>2. x.policy = "random" => r \in 0..(Geometry.assoc - 1)
    <2> SUFFICES ASSUME x.policy = "random" PROVE r \in 0..(Geometry.assoc - 1)
      OBVIOUS
    <2>1. Geometry.assoc \in Nat \ {0} /\ x.irand \in 0..(Geometry.assoc - 1)
      BY CacheArrayAssumption DEF Shape
    <2>2. \A k \in Nat : \A g \in Nat \ {0} : k % g \in 0..(g - 1)
      OBVIOUS
    <2>3. x.irand + 1 \in Nat
      BY <2>1
    <2>4. m \in 0..(Geometry.assoc - 1)
      BY <2>1, <2>2, <2>3
    <2>5. m + 1 \in Nat
      BY <2>1, <2>4
    <2> HIDE DEF m
    <2>6. QED  BY <2>1, <2>2, <2>4, <2>5
  <1> HIDE DEF t, r
  <1>3. IsCache(t) /\ t.policy = x.policy /\ t.sets = x.sets
        /\ t.irand = (IF x.policy = "random" THEN r ELSE x.irand)
    BY <1>1 DEF Shape, IsCache
  <1>4. Shape(t)
    BY <1>2, <1>3 DEF Shape
  <1>5. QED  BY <1>3, <1>4 DEF t

\* The array y after way v of set i of x was taken, and is now at way.
Taken(x, y, i, v, way, kind) ==
  /\ Shape(y) /\ y.policy = x.policy
  /\ \E T \in Ways(assoc(x.policy)) :
       /\ y.sets = [x.sets EXCEPT ![i] = T]
       /\ \/ way = v /\ SameTags(x.sets[i], T)
          \/ way = 1 /\ Fronted(x.sets[i], T, v, x.sets[i][v].tag)
       /\ x.policy = "lru" =>
            IF kind = "prefetch" THEN way = v /\ SameTags(x.sets[i], T)
            ELSE way = 1 /\ Fronted(x.sets[i], T, v, x.sets[i][v].tag)

\* Taking way v for a line.
LEMMA PlacedDoes ==
  ASSUME NEW x, Shape(x), NEW i \in Sets, NEW v \in 1..assoc(x.policy), NEW pc \in PCs,
         NEW prefetch \in BOOLEAN, NEW kind, kind = Kind(prefetch),
         NEW r, r = placed(x, i, v, pc, prefetch)
  PROVE  Taken(x, r.c, i, v, r.way, kind)
  <1>0. kind = "prefetch" <=> prefetch
    BY DEF Kind
  <1> DEFINE S == x.sets[i]  n == assoc(x.policy)  P == [S EXCEPT ![v].pc = pc]
             rrip == x.policy \in {"par", "uar"}
             q1 == rripPrefetch(x, trackerOf(x, pc))  q2 == rripDemand(x, trackerOf(x, pc))
             P1 == [P EXCEPT ![v].rrip = q1]  P2 == [P EXCEPT ![v].rrip = q2]
  <1>1. S \in Ways(n) /\ n \in Nat \ {0} /\ v \in 1..n
    BY SetsHaveWays
  <1>2. q1 \in Nat /\ q2 \in Nat
    BY DEF rripPrefetch, rripDemand, RRIP_MAX
  <1> HIDE DEF q1, q2
  <1>3. P \in Ways(n) /\ SameTags(S, P)
    BY <1>1, FieldsDo
  <1>4. r = CASE prefetch /\ rrip -> [c |-> WithSet(x, i, P1), way |-> v]
              [] (prefetch /\ ~rrip) \/ (~prefetch /\ x.policy = "lrup") ->
                   [c |-> WithSet(x, i, P), way |-> v]
              [] ~prefetch /\ rrip -> [c |-> WithSet(x, i, toFront(P2, v)), way |-> 1]
              [] OTHER -> [c |-> WithSet(x, i, toFront(P, v)), way |-> 1]
    BY DEF placed, adjustRRIP, WithSet, q1, q2
  <1> HIDE DEF P
  <1>5. P1 \in Ways(n) /\ P2 \in Ways(n) /\ SameTags(P, P1) /\ SameTags(P, P2)
    BY <1>1, <1>2, <1>3, FieldsDo
  <1> HIDE DEF P1, P2
  <1>6. SameTags(S, P1) /\ SameTags(S, P2) /\ S[v].tag = P[v].tag /\ S[v].tag = P2[v].tag
    <2>1. SameTags(S, P1) /\ SameTags(S, P2) /\ S[v].tag = P[v].tag
      BY <1>1, <1>3, <1>5, SameTagsMove
    <2>2. QED  BY <1>1, <1>5, <2>1, SameTagsMove
  <1>7. /\ toFront(P, v) \in Ways(n) /\ Fronted(S, toFront(P, v), v, S[v].tag)
        /\ toFront(P2, v) \in Ways(n) /\ Fronted(S, toFront(P2, v), v, S[v].tag)
    <2>1. /\ toFront(P, v) \in Ways(n) /\ Fronted(P, toFront(P, v), v, S[v].tag)
          /\ toFront(P2, v) \in Ways(n) /\ Fronted(P2, toFront(P2, v), v, S[v].tag)
      BY <1>1, <1>3, <1>5, <1>6, FrontDoes
    <2>2. QED  BY <1>1, <1>3, <1>5, <1>6, <2>1, SameTagsMove
  <1>8. \A T \in Ways(n) : /\ Shape(WithSet(x, i, T)) /\ WithSet(x, i, T).policy = x.policy
                           /\ WithSet(x, i, T).sets = [x.sets EXCEPT ![i] = T]
    BY SetChanges
  <1> HIDE DEF S, n
  <1>9. CASE prefetch /\ rrip
    <2>1. r = [c |-> WithSet(x, i, P1), way |-> v]
      BY <1>4, <1>9
    <2>2. r.c = WithSet(x, i, P1) /\ r.way = v
      BY <2>1
    <2>3. prefetch
      BY <1>9
    <2>4. QED  BY <1>0, <1>5, <1>6, <1>8, <2>2, <2>3 DEF S, n, Taken
  <1>10. CASE (prefetch /\ ~rrip) \/ (~prefetch /\ x.policy = "lrup")
    <2>1. r = [c |-> WithSet(x, i, P), way |-> v]
      BY <1>4, <1>10
    <2>2. r.c = WithSet(x, i, P) /\ r.way = v /\ (x.policy = "lru" => prefetch)
      BY <1>10, <2>1
    <2>3. QED  BY <1>0, <1>3, <1>8, <2>2 DEF S, n, Taken
  <1>11. CASE ~prefetch /\ rrip
    <2>1. r = [c |-> WithSet(x, i, toFront(P2, v)), way |-> 1]
      BY <1>4, <1>11
    <2>2. r.c = WithSet(x, i, toFront(P2, v)) /\ r.way = 1 /\ ~prefetch
      BY <1>11, <2>1
    <2>3. QED  BY <1>0, <1>7, <1>8, <2>2 DEF S, n, Taken
  <1>12. CASE ~prefetch /\ ~rrip /\ x.policy # "lrup"
    <2>1. r = [c |-> WithSet(x, i, toFront(P, v)), way |-> 1]
      BY <1>4, <1>12
    <2>2. r.c = WithSet(x, i, toFront(P, v)) /\ r.way = 1 /\ ~prefetch
      BY <1>12, <2>1
    <2>3. QED  BY <1>0, <1>7, <1>8, <2>2 DEF S, n, Taken
  <1>13. QED  BY <1>9, <1>10, <1>11, <1>12

\* CacheAssoc::findLine2Replace.
LEMMA AssocReplaceDoes ==
  ASSUME NEW x, Shape(x), x.policy \notin {"dm", "skew"}, NEW i \in Sets, NEW tag,
         NEW pc \in PCs, NEW prefetch \in BOOLEAN, NEW kind, kind = Kind(prefetch),
         NEW r, r = AssocReplace(x, i, tag, pc, prefetch)
  PROVE  Chosen(x, r.c, i, r.way, wayOf(x.sets[i], tag), kind)
  <1>0. kind = "prefetch" <=> prefetch
    BY DEF Kind
  <1> DEFINE S == x.sets[i]  n == assoc(x.policy)  h == wayOf(S, tag)
             v == IF h > 0 THEN h ELSE victim(x, i)
             x1 == IF h > 0 THEN x ELSE nextRand(x)
             rrip == x.policy \in {"par", "uar"}
             t == trained(x1, S[v])
  <1>1. /\ S \in Ways(n) /\ n \in Nat \ {0} /\ 1 \in 1..n /\ Len(S) = n
        /\ x.sets = [x.sets EXCEPT ![i] = S]
    BY SetsHaveWays
  <1>2. h = 0 \/ h \in 1..n
    BY <1>1, WayOfTag
  <1>3. victim(x, i) \in 1..n /\ (x.policy = "lru" => victim(x, i) = Len(S))
    <2>1. Geometry.assoc \in Nat \ {0} /\ n = Geometry.assoc
      BY CacheArrayAssumption DEF assoc
    <2>2. CASE x.policy = "random"
      BY <2>1, <2>2 DEF victim, Shape
    <2>3. CASE x.policy # "random"
      BY <1>1, <2>3 DEF victim
    <2>4. QED  BY <2>2, <2>3
  <1>4. v \in 1..n /\ (h # 0 => v = h) /\ (x.policy = "lru" /\ h = 0 => v = Len(S))
    BY <1>1, <1>2, <1>3
  <1>5. Shape(x1) /\ x1.policy = x.policy /\ x1.sets = x.sets
    BY NextRandDoes
  <1>6. r = CASE h = 1 -> [c |-> IF rrip THEN [x EXCEPT !.sets[i] = adjustRRIP(@, 1, RRIP_MAX)]
                                 ELSE x, way |-> 1]
              [] h # 1 /\ v = 1 /\ ~rrip -> [c |-> x1, way |-> 1]
              [] OTHER -> placed(t, i, v, pc, prefetch)
    BY DEF AssocReplace, AssocReplaceAt
  <1>7. SameTags(S, S) /\ Fronted(S, S, 1, S[1].tag)
    BY <1>1, Untouched
  <1> HIDE DEF h, v, x1, t, S, n
  <1>8. CASE h = 1 /\ rrip
    <2> DEFINE T == adjustRRIP(S, 1, RRIP_MAX)
    <2>1. r = [c |-> WithSet(x, i, T), way |-> 1]
      BY <1>6, <1>8 DEF WithSet, S
    <2>2. T \in Ways(n) /\ SameTags(S, T)
      BY <1>1, FieldsDo DEF adjustRRIP, RRIP_MAX
    <2> HIDE DEF T
    <2>3. r.c = WithSet(x, i, T) /\ r.way = 1
      BY <2>1
    <2>4. Shape(r.c) /\ r.c.policy = x.policy /\ r.c.sets = [x.sets EXCEPT ![i] = T]
      BY <2>2, <2>3, SetChanges DEF n
    <2>5. v = 1 /\ x.policy # "lru"
      BY <1>4, <1>8
    <2>6. /\ Replaced(S, T, v, r.way, h)
          /\ x.policy = "lru" => IF prefetch THEN LruLast(S, T, v, r.way, h)
                               ELSE LruFirst(S, T, v, r.way, h)
      BY <1>8, <2>2, <2>3, <2>5 DEF Replaced, LruLast, LruFirst
    <2>7. QED  BY <1>0, <1>4, <2>2, <2>4, <2>6 DEF S, n, h, Chosen
  <1>9. CASE h = 1 /\ ~rrip
    <2>1. r = [c |-> x, way |-> 1]
      BY <1>6, <1>9
    <2>2. r.c = x /\ r.way = 1 /\ v = 1
      BY <1>4, <1>9, <2>1
    <2>3. /\ Replaced(S, S, v, r.way, h)
          /\ x.policy = "lru" => IF prefetch THEN LruLast(S, S, v, r.way, h)
                               ELSE LruFirst(S, S, v, r.way, h)
      BY <1>7, <1>9, <2>2 DEF Replaced, LruLast, LruFirst
    <2>4. QED  BY <1>0, <1>1, <1>4, <2>2, <2>3 DEF S, n, h, Chosen
  <1>10. CASE h # 1 /\ v = 1 /\ ~rrip
    <2>1. r = [c |-> x1, way |-> 1]
      BY <1>6, <1>10
    <2>2. r.c = x1 /\ r.way = 1 /\ v = 1 /\ h = 0
      BY <1>4, <1>10, <2>1
    <2>3. /\ Replaced(S, S, v, r.way, h)
          /\ x.policy = "lru" => IF prefetch THEN LruLast(S, S, v, r.way, h)
                               ELSE LruFirst(S, S, v, r.way, h)
      BY <1>4, <1>7, <2>2 DEF Replaced, LruLast, LruFirst
    <2>4. QED  BY <1>0, <1>1, <1>4, <1>5, <2>2, <2>3 DEF S, n, h, Chosen
  <1>11. CASE h # 1 /\ ~(v = 1 /\ ~rrip)
    <2>1. r = placed(t, i, v, pc, prefetch)
      BY <1>6, <1>11
    <2>2. Shape(t) /\ t.policy = x.policy /\ t.sets = x.sets
      BY <1>5, TrainedDoes DEF t
    <2>3. v \in 1..assoc(t.policy)
      BY <1>4, <2>2 DEF n
    <2>4. Taken(t, r.c, i, v, r.way, kind)
      BY <2>1, <2>2, <2>3, PlacedDoes
    <2>5. PICK T \in Ways(n) :
               /\ r.c.sets = [x.sets EXCEPT ![i] = T]
               /\ \/ r.way = v /\ SameTags(S, T)
                  \/ r.way = 1 /\ Fronted(S, T, v, S[v].tag)
               /\ x.policy = "lru" =>
                    IF prefetch THEN r.way = v /\ SameTags(S, T)
                    ELSE r.way = 1 /\ Fronted(S, T, v, S[v].tag)
      BY <1>0, <2>2, <2>4 DEF S, n, Taken
    <2>6. /\ Replaced(S, T, v, r.way, h)
          /\ x.policy = "lru" => IF prefetch THEN LruLast(S, T, v, r.way, h)
                               ELSE LruFirst(S, T, v, r.way, h)
      BY <1>4, <2>5 DEF Replaced, LruLast, LruFirst
    <2>7. Shape(r.c) /\ r.c.policy = x.policy
      BY <2>2, <2>4 DEF Taken
    <2>8. QED  BY <1>0, <1>4, <2>5, <2>6, <2>7 DEF S, n, h, Chosen
  <1>12. QED  BY <1>8, <1>9, <1>10, <1>11

\* HawkCache chooses one of the ways.
LEMMA HawkVictimDoes ==
  ASSUME NEW n \in Nat \ {0}, NEW S \in Ways(n)
  PROVE  HawkVictim(S).way \in 1..n
  <1> DEFINE invalid == {w \in 1..n : S[w].tag = 0}
             averse == {w \in 1..n : S[w].tag # 0 /\ S[w].rrip = 7}
             free == IF invalid = {} THEN n ELSE LowestOf(invalid)
             v == IF averse = {} THEN free ELSE HighestOf(averse)
             lru == v = free /\ S[v].rrip # 7
  <1>1. Len(S) = n
    BY DEF Ways
  <1>2. free \in 1..n
    <2>1. invalid # {} => LowestOf(invalid) \in invalid
      BY Lowest
    <2>2. QED  BY <2>1
  <1>3. v \in 1..n
    <2>1. averse # {} => HighestOf(averse) \in averse
      BY Highest
    <2> HIDE DEF free
    <2>2. QED  BY <1>2, <2>1
  <1>4. HawkVictim(S) = [way |-> IF lru THEN n ELSE v, detrain |-> lru]
    BY <1>1, Zenon DEF HawkVictim
  <1> HIDE DEF v, lru
  <1>5. HawkVictim(S).way = IF lru THEN n ELSE v
    BY <1>4
  <1>6. QED  BY <1>3, <1>5

\* HawkCache::findLine2Replace.
LEMMA HawkReplaceDoes ==
  ASSUME NEW x, Shape(x), x.policy = "hawkeye", NEW i \in Sets, NEW tag, NEW pc,
         NEW prefetch \in BOOLEAN, NEW kind, kind = Kind(prefetch),
         NEW r, r = HawkReplace(x, i, tag, pc, prefetch)
  PROVE  Chosen(x, r.c, i, r.way, wayOf(x.sets[i], tag), kind)
  <1>0. kind = "prefetch" <=> prefetch
    BY DEF Kind
  <1> DEFINE S == x.sets[i]  n == assoc(x.policy)  h == wayOf(S, tag)
  <1>1. S \in Ways(n) /\ n \in Nat \ {0} /\ x.sets = [x.sets EXCEPT ![i] = S]
    BY SetsHaveWays
  <1>2. h = 0 \/ h \in 1..n
    BY <1>1, WayOfTag
  <1>3. SameTags(S, S)
    BY <1>1, Untouched
  <1>4. r = IF h # 0 THEN [c |-> x, way |-> h]
            ELSE HawkReplaceAt(x, i, HawkVictim(S), pc, prefetch)
    BY DEF HawkReplace
  <1> HIDE DEF h, n
  <1>5. CASE h # 0
    <2>1. r.c = x /\ r.way = h
      BY <1>4, <1>5
    <2>2. /\ Replaced(S, S, h, r.way, h)
          /\ x.policy = "lru" => IF prefetch THEN LruLast(S, S, h, r.way, h)
                               ELSE LruFirst(S, S, h, r.way, h)
      BY <1>3, <2>1 DEF Replaced, LruLast, LruFirst
    <2>3. QED  BY <1>0, <1>1, <1>2, <1>5, <2>1, <2>2 DEF n, h, Chosen
  <1>6. CASE h = 0
    <2> DEFINE v == HawkVictim(S).way  p == getPredictionHash(pc)
               e == x.hawk.prediction[p]
               b == IF HawkVictim(S).detrain /\ e > 0 THEN e - 1 ELSE e
               T == [S EXCEPT ![v].prefetch = prefetch]
               Y == [x.sets EXCEPT ![i] = T]
               H == [x.hawk EXCEPT !.prediction = [x.hawk.prediction EXCEPT ![p] = b]]
    <2>1. v \in 1..n
      BY <1>1, HawkVictimDoes
    <2>2. r = [way |-> v, c |-> [x EXCEPT !.sets[i][v].prefetch = prefetch,
                                          !.hawk.prediction[p] = b]]
      BY <1>4, <1>6 DEF HawkReplaceAt
    <2>3. r.way = v /\ r.c = [x EXCEPT !.sets = Y, !.hawk = H]
      <3> HIDE DEF v, p, b
      <3>1. /\ r.way = v
            /\ r.c = [x EXCEPT !.sets[i][v].prefetch = prefetch, !.hawk.prediction[p] = b]
        BY <2>2
      <3>2. QED  BY <3>1 DEF Shape, IsCache
    <2> HIDE DEF v, H
    <2>4. T \in Ways(n) /\ SameTags(S, T)
      BY <1>1, <2>1, FieldsDo
    <2> HIDE DEF T
    <2>5. IsCache(r.c) /\ r.c.policy = x.policy /\ r.c.irand = x.irand /\ r.c.sets = Y
      BY <2>3 DEF Shape, IsCache
    <2>6. Shape(r.c)
      BY <1>1, <2>4, <2>5 DEF Shape, n
    <2>7. /\ Replaced(S, T, v, r.way, h)
          /\ x.policy = "lru" => IF prefetch THEN LruLast(S, T, v, r.way, h)
                               ELSE LruFirst(S, T, v, r.way, h)
      BY <1>6, <2>3, <2>4 DEF Replaced, LruLast, LruFirst
    <2>8. QED  BY <1>0, <2>1, <2>4, <2>5, <2>6, <2>7 DEF n, h, Chosen
  <1>7. QED  BY <1>5, <1>6

\* findLine2Replace.
LEMMA ReplaceDoes ==
  ASSUME NEW x, Shape(x), x.policy # "skew", NEW a \in Addrs, NEW tag, NEW pc \in PCs,
         NEW prefetch \in BOOLEAN, NEW kind, kind = Kind(prefetch),
         NEW i, i = calcIndex4Tag(calcTag(a)),
         NEW r, r = findLine2Replace(x, a, tag, pc, prefetch)
  PROVE  /\ r = [c |-> r.c, set |-> i, way |-> r.way]
         /\ Chosen(x, r.c, i, r.way, wayOf(x.sets[i], tag), kind)
  <1> DEFINE at(q) == [c |-> q.c, set |-> i, way |-> q.way]
  <1>1. i \in Sets
    BY CacheArrayAssumption
  <1>2. CASE x.policy = "hawkeye"
    <2>1. PICK q : q = HawkReplace(x, i, tag, pc, prefetch)
      OBVIOUS
    <2>2. r = at(q)
      BY <1>2, <2>1 DEF findLine2Replace
    <2>3. Chosen(x, q.c, i, q.way, wayOf(x.sets[i], tag), kind)
      BY <1>1, <1>2, <2>1, HawkReplaceDoes
    <2>4. QED  BY <2>2, <2>3
  <1>3. CASE x.policy = "dm"
    <2> DEFINE S == x.sets[i]  T == [S EXCEPT ![1].prefetch = prefetch]
    <2>1. r = [c |-> WithSet(x, i, T), set |-> i, way |-> 1]
      BY <1>3 DEF findLine2Replace, WithSet
    <2>2. S \in Ways(1) /\ assoc(x.policy) = 1
      BY <1>1, <1>3, SetsHaveWays DEF assoc
    <2>3. T \in Ways(1) /\ SameTags(S, T)
      BY <2>2, FieldsDo
    <2>4. wayOf(S, tag) # 0 => wayOf(S, tag) = 1
      BY <2>2, WayOfTag
    <2> HIDE DEF T
    <2>5. r.c = WithSet(x, i, T) /\ r.way = 1 /\ r = [c |-> r.c, set |-> i, way |-> r.way]
      BY <2>1
    <2>6. Shape(r.c) /\ r.c.policy = x.policy /\ r.c.sets = [x.sets EXCEPT ![i] = T]
      BY <1>1, <2>2, <2>3, <2>5, SetChanges
    <2>7. Replaced(S, T, 1, r.way, wayOf(S, tag))
      BY <2>3, <2>4, <2>5 DEF Replaced
    <2>8. QED  BY <1>3, <2>2, <2>3, <2>5, <2>6, <2>7 DEF Chosen
  <1>4. CASE x.policy # "hawkeye" /\ x.policy # "dm"
    <2>1. PICK q : q = AssocReplace(x, i, tag, pc, prefetch)
      OBVIOUS
    <2>2. r = at(q)
      BY <1>4, <2>1 DEF findLine2Replace
    <2>3. Chosen(x, q.c, i, q.way, wayOf(x.sets[i], tag), kind)
      <3>1. x.policy \notin {"dm", "skew"}
        BY <1>4
      <3>2. QED  BY <1>1, <2>1, <3>1, AssocReplaceDoes
    <2>4. QED  BY <2>2, <2>3
  <1>5. QED  BY <1>2, <1>3, <1>4

\* After a fill of the line with the tag, which way v of S has got.
Filled(S, U, v, h, tag) ==
  /\ h # 0 => v = h
  /\ InPlace(S, U, v, tag) \/ Fronted(S, U, v, tag)

Tagged(T, way, tag) == [T EXCEPT ![way] = [@ EXCEPT !.tag = tag, !.nDemand = 0]]

\* The tag is set where the line was placed.
LEMMA TagIsSet ==
  ASSUME NEW n \in Nat, NEW S \in Ways(n), NEW T \in Ways(n), NEW v \in 1..n, NEW way,
         NEW tag \in Tags \cup {0}
  PROVE  LET U == Tagged(T, way, tag)
         IN /\ way = v /\ SameTags(S, T) => U \in Ways(n) /\ InPlace(S, U, v, tag)
            /\ way = 1 /\ Fronted(S, T, v, S[v].tag) => U \in Ways(n) /\ Fronted(S, U, v, tag)
  <1> DEFINE U == Tagged(T, way, tag)
  <1>1. DOMAIN S = 1..n /\ 1 \in 1..n
    BY DEF Ways
  <1>2. way \in 1..n =>
          /\ U \in Ways(n) /\ U[way].tag = tag
          /\ \A u \in 1..n : u # way => U[u].tag = T[u].tag
    <2>1. SUFFICES ASSUME way \in 1..n
                   PROVE  /\ U \in Ways(n) /\ U[way].tag = tag
                          /\ \A u \in 1..n : u # way => U[u].tag = T[u].tag
      OBVIOUS
    <2>2. PICK l \in Line : l = T[way]
      BY <2>1 DEF Ways
    <2>3. PICK m : m = [l EXCEPT !.tag = tag, !.nDemand = 0]
      OBVIOUS
    <2>4. m \in Line /\ m.tag = tag
      BY <2>3 DEF Line
    <2>5. U = [T EXCEPT ![way] = m]
      BY <2>2, <2>3 DEF Tagged
    <2>6. QED  BY <2>1, <2>4, <2>5 DEF Ways
  <1> HIDE DEF U
  <1>3. way = v /\ SameTags(S, T) => U \in Ways(n) /\ InPlace(S, U, v, tag)
    BY <1>1, <1>2 DEF InPlace, SameTags
  <1>4. way = 1 /\ Fronted(S, T, v, S[v].tag) => U \in Ways(n) /\ Fronted(S, U, v, tag)
    BY <1>1, <1>2 DEF Fronted
  <1>5. QED  BY <1>3, <1>4 DEF U

\* The array y after the line with the tag was filled in set i of x, which had it
\* at way h.
FilledIn(x, y, i, h, tag, kind) ==
  /\ Shape(y) /\ y.policy = x.policy
  /\ \E U \in Ways(assoc(x.policy)), v \in 1..assoc(x.policy) :
       /\ y.sets = [x.sets EXCEPT ![i] = U]
       /\ Filled(x.sets[i], U, v, h, tag)
       /\ x.policy = "lru" =>
            /\ h = 0 => v = Len(x.sets[i])
            /\ kind = "demand" => Fronted(x.sets[i], U, v, tag)
            /\ h = 0 /\ kind = "prefetch" => InPlace(x.sets[i], U, v, tag)

\* setTag on the line that was chosen.
LEMMA SetTagDoes ==
  ASSUME NEW x, Shape(x), NEW i \in Sets, NEW way \in 1..assoc(x.policy), NEW tag,
         NEW r, r = [c |-> x, set |-> i, way |-> way]
  PROVE  setTag(r, tag).c = WithSet(x, i, Tagged(x.sets[i], way, tag))
  <1> DEFINE S == x.sets[i]  l == S[way]
             r1 == [r EXCEPT !.c.sets[i][way].tag = tag]
             l1 == [l EXCEPT !.tag = tag]
             l2 == [l EXCEPT !.tag = tag, !.nDemand = 0]
             S1 == [S EXCEPT ![way] = l1]
             x1 == WithSet(x, i, S1)
  <1>1. r.c = x /\ r.set = i /\ r.way = way
    OBVIOUS
  <1>2. r1 = [c |-> x1, set |-> i, way |-> way]
    BY <1>1 DEF WithSet
  <1>3. setTag(r, tag).c = [r1 EXCEPT !.c.sets[i][way].nDemand = 0].c
    BY <1>1 DEF setTag
  <1>4. S \in Ways(assoc(x.policy)) /\ x.sets \in [Sets -> Ways(assoc(x.policy))]
    BY SetsHaveWays DEF Shape
  <1>5. x1.sets = [x.sets EXCEPT ![i] = S1] /\ x1.sets[i] = S1
    BY <1>4 DEF WithSet, Shape, IsCache
  <1>6. S1[way] = l1
    BY <1>4 DEF Ways
  <1>7. setTag(r, tag).c = WithSet(x1, i, [x1.sets[i] EXCEPT ![way] = [x1.sets[i][way] EXCEPT !.nDemand = 0]])
    <2> HIDE DEF r1, x1
    <2>1. r1.c = x1 /\ DOMAIN r1 = {"c", "set", "way"}
      BY <1>2
    <2>2. QED  BY <1>3, <2>1 DEF WithSet
  <1>8. setTag(r, tag).c = WithSet(x1, i, [S1 EXCEPT ![way] = [l1 EXCEPT !.nDemand = 0]])
    <2> HIDE DEF S1, l1, x1
    <2> QED  BY <1>5, <1>6, <1>7
  <1>9. [S1 EXCEPT ![way] = [l1 EXCEPT !.nDemand = 0]] = [S EXCEPT ![way] = l2]
    <2>1. [l1 EXCEPT !.nDemand = 0] = l2
      OBVIOUS
    <2> HIDE DEF l1, l2
    <2>2. QED  BY <1>4, <2>1 DEF Ways
  <1>10. \A Z : WithSet(x1, i, Z) = WithSet(x, i, Z)
    <2> HIDE DEF S1
    <2> QED  BY <1>4 DEF WithSet, Shape, IsCache
  <1>11. QED  BY <1>8, <1>9, <1>10 DEF Tagged


\* fillLine, except in the skewed array.
LEMMA FillDoes ==
  ASSUME NEW x, Shape(x), x.policy # "skew", NEW a \in Addrs, NEW pc \in PCs,
         NEW prefetch \in BOOLEAN, NEW kind, kind = Kind(prefetch),
         NEW tag, tag = calcTag(a), NEW i, i = calcIndex4Tag(tag),
         NEW d, d = fillLine(x, a, a, pc, prefetch).c
  PROVE  FilledIn(x, d, i, wayOf(x.sets[i], tag), tag, kind)
  <1> DEFINE S == x.sets[i]  n == assoc(x.policy)  h == wayOf(S, tag)
  <1>1. i \in Sets /\ tag \in Tags \cup {0}
    BY CacheArrayAssumption DEF Tags
  <1>2. PICK r : r = findLine2Replace(x, a, tag, pc, prefetch)
    OBVIOUS
  <1>3. d = setTag(r, tag).c
    BY <1>2 DEF fillLine
  <1>4. r = [c |-> r.c, set |-> i, way |-> r.way] /\ Chosen(x, r.c, i, r.way, h, kind)
    BY <1>2, ReplaceDoes
  <1>5. PICK T \in Ways(n), v \in 1..n :
             /\ r.c.sets = [x.sets EXCEPT ![i] = T]
             /\ Replaced(S, T, v, r.way, h)
             /\ x.policy = "lru" => IF kind = "prefetch" THEN LruLast(S, T, v, r.way, h)
                                    ELSE LruFirst(S, T, v, r.way, h)
    BY <1>4 DEF Chosen
  <1>6. S \in Ways(n) /\ n \in Nat /\ 1 \in 1..n
    BY <1>1, SetsHaveWays
  <1> DEFINE way == r.way
             U == Tagged(T, way, tag)
  <1>7. /\ way = v /\ SameTags(S, T) => U \in Ways(n) /\ InPlace(S, U, v, tag)
        /\ way = 1 /\ Fronted(S, T, v, S[v].tag) => U \in Ways(n) /\ Fronted(S, U, v, tag)
    BY <1>1, <1>6, TagIsSet
  <1>8. Shape(r.c) /\ r.c.policy = x.policy /\ way \in 1..n
    BY <1>4, <1>5, <1>6 DEF Chosen, Replaced
  <1> HIDE DEF h, n, way
  <1>9. d = WithSet(r.c, i, U)
    <2>1. x.sets \in [Sets -> Ways(n)]
      BY DEF Shape, n
    <2>2. r.c.sets[i] = T
      BY <1>1, <1>5, <2>1
    <2>3. setTag(r, tag).c = WithSet(r.c, i, Tagged(r.c.sets[i], way, tag))
      <3>1. PICK y, w : y = r.c /\ w = r.way
        OBVIOUS
      <3>2. r = [c |-> y, set |-> i, way |-> w] /\ w \in 1..assoc(y.policy)
        BY <1>4, <1>8, <3>1 DEF way, n
      <3>3. Shape(y)
        BY <1>8, <3>1
      <3>4. setTag(r, tag).c = WithSet(y, i, Tagged(y.sets[i], w, tag))
        BY <1>1, <3>2, <3>3, SetTagDoes
      <3>5. QED  BY <3>1, <3>4 DEF way
    <2>4. QED  BY <1>3, <2>2, <2>3
  <1> HIDE DEF U
  <1>10. U \in Ways(n) /\ Filled(S, U, v, h, tag)
    BY <1>5, <1>7 DEF Replaced, Filled, way
  <1>11. Shape(d) /\ d.policy = x.policy /\ d.sets = [r.c.sets EXCEPT ![i] = U]
    BY <1>1, <1>8, <1>9, <1>10, SetChanges DEF n
  <1>12. d.sets = [x.sets EXCEPT ![i] = U]
    BY <1>5, <1>11
  <1>13. x.policy = "lru" =>
           /\ h = 0 => v = Len(S)
           /\ kind = "demand" => Fronted(S, U, v, tag)
           /\ h = 0 /\ kind = "prefetch" => InPlace(S, U, v, tag)
    BY <1>5, <1>7 DEF LruLast, LruFirst, Kind, way
  <1>14. QED  BY <1>10, <1>11, <1>12, <1>13 DEF h, n, FilledIn

-----------------------------------------------------------------------------
(* The invariant, except in the skewed array *)

\* A line with the tag got way v of a set and stayed there or moved to the front.
Moved(S, U, v, tag) == InPlace(S, U, v, tag) \/ Fronted(S, U, v, tag)

\* Way k of the new set has the tag, and any other way u the line of way f[u].
From(S, U, n, v, tag, k, f) ==
  /\ k \in 1..n /\ f \in [1..n -> 1..n] /\ U[k].tag = tag
  /\ \A u \in 1..n : u # k => U[u].tag = S[f[u]].tag /\ f[u] # v
  /\ \A u, w \in 1..n : u # k /\ w # k /\ u < w => f[u] < f[w]
  /\ \A u \in 1..n : u # k /\ u < n => f[u] < n

\* The other lines keep their order, and none of them was at way v.
LEMMA FrontedFrom ==
  ASSUME NEW n \in Nat \ {0}, NEW S \in Ways(n), NEW U, NEW v \in 1..n, NEW tag,
         Fronted(S, U, v, tag)
  PROVE  \E f : From(S, U, n, v, tag, 1, f)
  <1> DEFINE f == [u \in 1..n |-> IF u = 1 THEN 1 ELSE IF u <= v THEN u - 1 ELSE u]
  <1>1. DOMAIN S = 1..n /\ 1 \in 1..n
    BY DEF Ways
  <1>2. f \in [1..n -> 1..n]
    OBVIOUS
  <1>3. U[1].tag = tag /\ \A u \in 1..n : u # 1 => U[u].tag = S[f[u]].tag /\ f[u] # v
    BY <1>1 DEF Fronted
  <1>4. /\ \A u, w \in 1..n : u # 1 /\ w # 1 /\ u < w => f[u] < f[w]
        /\ \A u \in 1..n : u # 1 /\ u < n => f[u] < n
    OBVIOUS
  <1> HIDE DEF f
  <1>5. From(S, U, n, v, tag, 1, f)
    BY <1>1, <1>2, <1>3, <1>4 DEF From
  <1>6. QED  BY <1>5

\* So they do when the line stays where it is.
LEMMA InPlaceFrom ==
  ASSUME NEW n \in Nat \ {0}, NEW S \in Ways(n), NEW U, NEW v \in 1..n, NEW tag,
         InPlace(S, U, v, tag)
  PROVE  \E f : From(S, U, n, v, tag, v, f)
  <1> DEFINE f == [u \in 1..n |-> u]
  <1>1. DOMAIN S = 1..n
    BY DEF Ways
  <1>2. f \in [1..n -> 1..n]
    OBVIOUS
  <1>3. U[v].tag = tag /\ \A u \in 1..n : u # v => U[u].tag = S[f[u]].tag /\ f[u] # v
    BY <1>1 DEF InPlace
  <1>4. /\ \A u, w \in 1..n : u # v /\ w # v /\ u < w => f[u] < f[w]
        /\ \A u \in 1..n : u # v /\ u < n => f[u] < n
    OBVIOUS
  <1> HIDE DEF f
  <1>5. From(S, U, n, v, tag, v, f)
    BY <1>1, <1>2, <1>3, <1>4 DEF From
  <1>6. QED  BY <1>5

\* No line is there twice afterwards, if only way v had the tag.
LEMMA UniqueKept ==
  ASSUME NEW n \in Nat \ {0}, NEW S \in Ways(n), NEW U \in Ways(n), NEW v \in 1..n, NEW tag,
         Moved(S, U, v, tag), Unique(S),
         tag # 0 => \A u \in 1..n : S[u].tag = tag => u = v
  PROVE  Unique(U)
  <1>1. DOMAIN S = 1..n /\ DOMAIN U = 1..n
    BY DEF Ways
  <1>2. PICK k, f : From(S, U, n, v, tag, k, f)
    BY FrontedFrom, InPlaceFrom DEF Moved
  <1>3. SUFFICES ASSUME NEW u \in 1..n, NEW w \in 1..n, u < w, U[u].tag # 0, U[u].tag = U[w].tag
                 PROVE  FALSE
    <2>1. \A u, w \in 1..n : U[u].tag # 0 /\ U[u].tag = U[w].tag => ~(u < w) /\ ~(w < u)
      BY <1>3
    <2>2. \A u, w \in 1..n : ~(u < w) /\ ~(w < u) => u = w
      OBVIOUS
    <2>3. QED  BY <1>1, <2>1, <2>2 DEF Unique
  <1>4. CASE u # k /\ w # k
    <2>1. f[u] < f[w] /\ f[u] \in 1..n /\ f[w] \in 1..n /\ S[f[u]].tag # 0 /\ S[f[u]].tag = S[f[w]].tag
      BY <1>2, <1>3, <1>4 DEF From
    <2>2. f[u] = f[w]
      BY <1>1, <2>1 DEF Unique
    <2>3. QED  BY <2>1, <2>2
  <1>5. CASE u = k
    <2>1. w # k
      BY <1>3, <1>5
    <2>2. f[w] \in 1..n /\ f[w] # v /\ S[f[w]].tag = tag /\ tag # 0
      BY <1>2, <1>3, <1>5, <2>1 DEF From
    <2>3. QED  BY <2>2
  <1>6. CASE w = k
    <2>1. u # k
      BY <1>3, <1>6
    <2>2. f[u] \in 1..n /\ f[u] # v /\ S[f[u]].tag = tag /\ tag # 0
      BY <1>2, <1>3, <1>6, <2>1 DEF From
    <2>3. QED  BY <2>2
  <1>7. QED  BY <1>4, <1>5, <1>6

\* The lines are still in the set they index.
Home(S, i) == \A w \in DOMAIN S : S[w].tag # 0 => calcIndex4Tag(S[w].tag) = i

\* A line that got a way of the set it indexes is at home there.
LEMMA HomeKept ==
  ASSUME NEW n \in Nat \ {0}, NEW S \in Ways(n), NEW U \in Ways(n), NEW v \in 1..n, NEW tag,
         Moved(S, U, v, tag), NEW i, Home(S, i), tag # 0 => calcIndex4Tag(tag) = i
  PROVE  Home(U, i)
  <1>1. DOMAIN S = 1..n /\ DOMAIN U = 1..n
    BY DEF Ways
  <1>2. PICK k, f : From(S, U, n, v, tag, k, f)
    BY FrontedFrom, InPlaceFrom DEF Moved
  <1>3. QED  BY <1>1, <1>2 DEF Home, From

\* An array in which one set was changed that way.
LEMMA PlacedKept ==
  ASSUME NEW x, Shape(x), Placed(x), NEW y, Shape(y), y.policy = x.policy,
         NEW i \in Sets, NEW U \in Ways(assoc(x.policy)), y.sets = [x.sets EXCEPT ![i] = U],
         NEW v \in 1..assoc(x.policy), NEW tag, Moved(x.sets[i], U, v, tag),
         tag # 0 => /\ calcIndex4Tag(tag) = i
                    /\ \A u \in 1..assoc(x.policy) : x.sets[i][u].tag = tag => u = v
  PROVE  Placed(y)
  <1> DEFINE n == assoc(x.policy)  S == x.sets[i]
  <1>1. S \in Ways(n) /\ n \in Nat \ {0} /\ DOMAIN S = 1..n
    BY SetsHaveWays
  <1>2. Unique(S) /\ Home(S, i)
    BY <1>1 DEF Placed, Home
  <1>3. Unique(U) /\ Home(U, i)
    <2> HIDE DEF n, S
    <2> QED  BY <1>1, <1>2, UniqueKept, HomeKept DEF n, S
  <1>4. DOMAIN U = 1..n
    BY <1>1 DEF Ways
  <1>5. y.sets[i] = U /\ \A j \in Sets : j # i => y.sets[j] = x.sets[j]
    BY DEF Shape
  <1>6. QED  BY <1>3, <1>4, <1>5 DEF Placed, Home

\* The line an address indexes, if the array has it.
LEMMA Where ==
  ASSUME NEW x, x.policy # "skew", NEW a, NEW tag, tag = calcTag(a), NEW i, i = calcIndex4Tag(tag)
  PROVE  lineAt(x, a, a) = [set |-> i, way |-> wayOf(x.sets[i], tag)]
  BY DEF lineAt

\* findLine.
LEMMA FindKeeps ==
  ASSUME NEW x, Shape(x), Placed(x), x.policy # "skew", NEW a \in Addrs, NEW pc,
         NEW y, y = findLine(x, a, a, pc)
  PROVE  Shape(y) /\ y.policy = x.policy /\ Placed(y)
  <1> DEFINE n == assoc(x.policy)
  <1>1. PICK tag, i : tag = calcTag(a) /\ i = calcIndex4Tag(tag)
    OBVIOUS
  <1> DEFINE S == x.sets[i]  h == wayOf(S, tag)
  <1>2. i \in Sets
    BY <1>1, CacheArrayAssumption
  <1>3. S \in Ways(n) /\ n \in Nat \ {0} /\ 1 \in 1..n /\ DOMAIN S = 1..n
    BY <1>2, SetsHaveWays
  <1>4. Shape(y) /\ y.policy = x.policy
    BY FindDoes
  <1>5. PICK T \in Ways(n) : y.sets = [x.sets EXCEPT ![i] = T] /\ Found(S, T, h, x.policy)
    BY <1>1, FindDoes
  <1>6. h = 0 \/ h \in 1..n
    BY <1>3, WayOfTag
  <1> HIDE DEF h
  <1>7. PICK v \in 1..n : Moved(S, T, v, S[v].tag)
    <2>1. CASE SameTags(S, T)
      <3>1. Moved(S, T, 1, S[1].tag)
        BY <1>3, <2>1 DEF Moved, InPlace, SameTags
      <3>2. QED  BY <1>3, <3>1
    <2>2. CASE h # 0 /\ Fronted(S, T, h, S[h].tag)
      BY <1>6, <2>2 DEF Moved
    <2>3. QED  BY <1>5, <2>1, <2>2 DEF Found
  <1>8. S[v].tag # 0 => /\ calcIndex4Tag(S[v].tag) = i
                        /\ \A u \in 1..n : S[u].tag = S[v].tag => u = v
    BY <1>2, <1>3 DEF Placed, Unique
  <1>9. Placed(y)
    BY <1>2, <1>4, <1>5, <1>7, <1>8, PlacedKept
  <1>10. QED  BY <1>4, <1>9

\* fillLine.
LEMMA FillKeeps ==
  ASSUME NEW x, Shape(x), Placed(x), NEW tag, NEW i \in Sets, i = calcIndex4Tag(tag),
         NEW y, NEW kind, FilledIn(x, y, i, wayOf(x.sets[i], tag), tag, kind)
  PROVE  Shape(y) /\ y.policy = x.policy /\ Placed(y)
  <1> DEFINE n == assoc(x.policy)  S == x.sets[i]  h == wayOf(S, tag)
  <1>1. S \in Ways(n) /\ n \in Nat \ {0} /\ DOMAIN S = 1..n
    BY SetsHaveWays
  <1>2. Shape(y) /\ y.policy = x.policy
    BY DEF FilledIn
  <1>3. PICK U \in Ways(n), v \in 1..n :
          y.sets = [x.sets EXCEPT ![i] = U] /\ Filled(S, U, v, h, tag)
    BY DEF FilledIn
  <1>4. \A u \in 1..n : S[u].tag = tag => h \in 1..n /\ S[h].tag = tag
    BY <1>1, WayOfTag
  <1> HIDE DEF h
  <1>5. Moved(S, U, v, tag) /\ (h # 0 => v = h)
    BY <1>3 DEF Filled, Moved
  <1>6. tag # 0 => \A u \in 1..n : S[u].tag = tag => u = v
    BY <1>1, <1>4, <1>5 DEF Placed, Unique
  <1>7. Placed(y)
    BY <1>2, <1>3, <1>5, <1>6, PlacedKept
  <1>8. QED  BY <1>2, <1>7

\* invalidate.
LEMMA InvalidateDoes ==
  ASSUME NEW x, Shape(x), NEW i \in Sets, NEW w \in 1..assoc(x.policy),
         NEW y, y = invalidate(x, [set |-> i, way |-> w])
  PROVE  /\ Shape(y) /\ y.policy = x.policy
         /\ \E U \in Ways(assoc(x.policy)) :
              y.sets = [x.sets EXCEPT ![i] = U] /\ InPlace(x.sets[i], U, w, 0)
  <1> DEFINE S == x.sets[i]
             l == [S[w] EXCEPT !.tag = 0, !.nDemand = 0, !.pc = 0, !.prefetch = FALSE]
             U == [S EXCEPT ![w] = l]
  <1>1. S \in Ways(assoc(x.policy)) /\ DOMAIN S = 1..assoc(x.policy)
    BY SetsHaveWays
  <1>2. l \in Line /\ l.tag = 0
    <2>1. S[w] \in Line
      BY <1>1 DEF Ways
    <2> HIDE DEF S
    <2>2. QED  BY <2>1 DEF Line
  <1>3. y = WithSet(x, i, U)
    BY DEF invalidate, WithSet
  <1> HIDE DEF l
  <1>4. U \in Ways(assoc(x.policy)) /\ InPlace(S, U, w, 0)
    BY <1>1, <1>2 DEF Ways, InPlace
  <1> HIDE DEF U
  <1>5. Shape(y) /\ y.policy = x.policy /\ y.sets = [x.sets EXCEPT ![i] = U]
    BY <1>3, <1>4, SetChanges
  <1>6. QED  BY <1>4, <1>5

\* invalidate keeps the other lines where they are.
LEMMA InvalidateKeeps ==
  ASSUME NEW x, Shape(x), Placed(x), NEW i \in Sets, NEW w \in 1..assoc(x.policy),
         NEW y, y = invalidate(x, [set |-> i, way |-> w])
  PROVE  Shape(y) /\ y.policy = x.policy /\ Placed(y)
  <1>1. Shape(y) /\ y.policy = x.policy
    BY InvalidateDoes
  <1>2. PICK U \in Ways(assoc(x.policy)) :
          y.sets = [x.sets EXCEPT ![i] = U] /\ InPlace(x.sets[i], U, w, 0)
    BY InvalidateDoes
  <1>3. Moved(x.sets[i], U, w, 0)
    BY <1>2 DEF Moved
  <1>4. Placed(y)
    BY <1>1, <1>2, <1>3, PlacedKept
  <1>5. QED  BY <1>1, <1>4

-----------------------------------------------------------------------------
(* The skewed array *)

\* The same lines in the same sets.
SameLines(x, y) ==
  /\ Shape(y) /\ y.policy = x.policy
  /\ \A i \in Sets : y.sets[i][1].tag = x.sets[i][1].tag

\* Marking a line as recent or not moves nothing.
LEMMA RecentlyDoes ==
  ASSUME NEW x, Shape(x), x.policy = "skew", NEW i \in Sets, NEW b \in BOOLEAN
  PROVE  SameLines(x, recently(x, i, b))
  <1> DEFINE S == x.sets[i]  T == [S EXCEPT ![1].recent = b]
  <1>1. S \in Ways(1) /\ assoc(x.policy) = 1 /\ DOMAIN S = 1..1
    BY SetsHaveWays DEF assoc
  <1>2. T \in Ways(1) /\ SameTags(S, T)
    BY <1>1, FieldsDo
  <1>3. recently(x, i, b) = WithSet(x, i, T)
    BY DEF recently, WithSet
  <1> HIDE DEF T
  <1>4. /\ Shape(WithSet(x, i, T)) /\ WithSet(x, i, T).policy = x.policy
        /\ WithSet(x, i, T).sets = [x.sets EXCEPT ![i] = T]
    BY <1>1, <1>2, SetChanges
  <1>5. T[1].tag = S[1].tag
    BY <1>1, <1>2 DEF SameTags
  <1>6. QED  BY <1>3, <1>4, <1>5 DEF SameLines, Shape

\* Three times over.
LEMMA RecentlyThrice ==
  ASSUME NEW x, Shape(x), x.policy = "skew", NEW i \in Sets, NEW j \in Sets, NEW k \in Sets,
         NEW a \in BOOLEAN, NEW b \in BOOLEAN, NEW d \in BOOLEAN
  PROVE  SameLines(x, recently(recently(recently(x, i, a), j, b), k, d))
  <1>1. PICK y : y = recently(x, i, a)
    OBVIOUS
  <1>2. PICK z : z = recently(y, j, b)
    OBVIOUS
  <1>3. SameLines(x, y)
    BY <1>1, RecentlyDoes
  <1>4. SameLines(y, z)
    BY <1>2, <1>3, RecentlyDoes DEF SameLines
  <1>5. SameLines(z, recently(z, k, d))
    BY <1>3, <1>4, RecentlyDoes DEF SameLines
  <1>6. SameLines(x, recently(z, k, d))
    BY <1>3, <1>4, <1>5 DEF SameLines
  <1>7. QED  BY <1>1, <1>2, <1>6

\* skewHit finds a position with the tag, if there is one.
LEMMA SkewHitDoes ==
  ASSUME NEW x, NEW idx, NEW tag, NEW k, k = skewHit(x, idx, tag)
  PROVE  \/ k = 0 /\ \A j \in 1..3 : x.sets[idx[j]][1].tag # tag
         \/ k \in 1..3 /\ x.sets[idx[k]][1].tag = tag
  <1> DEFINE W == {j \in 1..3 : x.sets[idx[j]][1].tag = tag}
  <1>1. W # {} => LowestOf(W) \in W
    <2>1. W \in SUBSET Nat
      OBVIOUS
    <2> HIDE DEF W
    <2>2. QED  BY <2>1, Lowest
  <1>2. k = IF W = {} THEN 0 ELSE LowestOf(W)
    BY DEF skewHit
  <1>3. QED  BY <1>1, <1>2

\* findLine.
LEMMA SkewFindDoes ==
  ASSUME NEW x, Shape(x), x.policy = "skew", NEW a \in Addrs, NEW pc,
         NEW y, y = findLine(x, a, a, pc)
  PROVE  SameLines(x, y)
  <1>1. PICK idx, k : idx = skewIndexes(a) /\ k = skewHit(x, idx, calcTag(a))
    OBVIOUS
  <1>2. y = SkewFindAt(x, idx, k)
    BY <1>1 DEF findLine, SkewFind
  <1>3. \A j \in 1..3 : idx[j] \in Sets
    BY <1>1, CacheArrayAssumption
  <1>4. k = 0 \/ k \in 1..3
    BY <1>1, SkewHitDoes
  <1>5. CASE k # 0
    <2>1. y = recently(x, idx[k], TRUE)
      BY <1>2, <1>5 DEF SkewFindAt
    <2>2. QED  BY <1>3, <1>4, <1>5, <2>1, RecentlyDoes
  <1>6. CASE k = 0
    <2>1. y = recently(recently(recently(x, idx[3], FALSE), idx[2], FALSE), idx[1], FALSE)
      BY <1>2, <1>6 DEF SkewFindAt
    <2>2. idx[1] \in Sets /\ idx[2] \in Sets /\ idx[3] \in Sets
      BY <1>3
    <2>3. QED  BY <2>1, <2>2, RecentlyThrice
  <1>7. QED  BY <1>5, <1>6

\* rand_number can be anything.
LEMMA RandChanges ==
  ASSUME NEW x, Shape(x), x.policy = "skew", NEW r
  PROVE  SameLines(x, [x EXCEPT !.irand = r])
  <1>1. PICK y : y = [x EXCEPT !.irand = r]
    OBVIOUS
  <1>2. IsCache(y) /\ y.policy = x.policy /\ y.sets = x.sets
    BY <1>1 DEF Shape, IsCache
  <1>3. Shape(y)
    BY <1>2 DEF Shape
  <1>4. QED  BY <1>1, <1>2, <1>3 DEF SameLines

\* The position that is replaced becomes the recent one.
LEMMA SkewChosenDoes ==
  ASSUME NEW x, Shape(x), x.policy = "skew", NEW idx, \A j \in 1..3 : idx[j] \in Sets,
         NEW p \in 1..3, NEW rand, NEW prefetch \in BOOLEAN, NEW y,
         y = [skewChosen(x, idx, p) EXCEPT !.irand = rand, !.sets[idx[p]][1].prefetch = prefetch]
  PROVE  SameLines(x, y)
  <1>1. PICK x1 : x1 = skewChosen(x, idx, p)
    OBVIOUS
  <1>2. idx[1] \in Sets /\ idx[2] \in Sets /\ idx[3] \in Sets /\ idx[p] \in Sets
    OBVIOUS
  <1>3. SameLines(x, x1)
    <2>1. PICK b1 \in BOOLEAN, b2 \in BOOLEAN, b3 \in BOOLEAN :
            b1 = (p = 1) /\ b2 = (p = 2) /\ b3 = (p = 3)
      OBVIOUS
    <2>2. x1 = recently(recently(recently(x, idx[1], b1), idx[2], b2), idx[3], b3)
      BY <1>1, <2>1 DEF skewChosen, recently
    <2>3. QED  BY <1>2, <2>2, RecentlyThrice
  <1>4. PICK x2 : x2 = [x1 EXCEPT !.irand = rand]
    OBVIOUS
  <1>5. SameLines(x1, x2)
    BY <1>3, <1>4, RandChanges DEF SameLines
  <1>6. PICK i \in Sets : i = idx[p]
    BY <1>2
  <1> DEFINE S == x2.sets[i]  T == [S EXCEPT ![1].prefetch = prefetch]
  <1>7. y = WithSet(x2, i, T)
    <2>1. IsCache(x1)
      BY <1>3 DEF SameLines, Shape
    <2>2. QED  BY <1>1, <1>4, <1>6, <2>1 DEF WithSet, IsCache
  <1>8. Shape(x2) /\ x2.policy = "skew"
    BY <1>3, <1>5 DEF SameLines
  <1>9. S \in Ways(1) /\ assoc(x2.policy) = 1 /\ DOMAIN S = 1..1
    BY <1>8, SetsHaveWays DEF assoc
  <1>10. T \in Ways(1) /\ SameTags(S, T)
    BY <1>9, FieldsDo
  <1> HIDE DEF T
  <1>11. Shape(y) /\ y.policy = x2.policy /\ y.sets = [x2.sets EXCEPT ![i] = T]
    <2>1. T \in Ways(assoc(x2.policy))
      BY <1>9, <1>10
    <2>2. /\ Shape(WithSet(x2, i, T)) /\ WithSet(x2, i, T).policy = x2.policy
          /\ WithSet(x2, i, T).sets = [x2.sets EXCEPT ![i] = T]
      BY <1>8, <2>1, SetChanges
    <2>3. QED  BY <1>7, <2>2
  <1>12. T[1].tag = S[1].tag
    BY <1>9, <1>10 DEF SameTags
  <1>13. SameLines(x2, y)
    <2>1. \A j \in Sets : y.sets[j] = IF j = i THEN T ELSE x2.sets[j]
      BY <1>8, <1>11 DEF Shape
    <2>2. \A j \in Sets : y.sets[j][1].tag = x2.sets[j][1].tag
      BY <1>12, <2>1
    <2>3. QED  BY <1>11, <2>2 DEF SameLines
  <1>14. QED  BY <1>3, <1>5, <1>13 DEF SameLines

\* findLine2Replace.
LEMMA SkewReplaceDoes ==
  ASSUME NEW x, Shape(x), x.policy = "skew", NEW a \in Addrs, NEW tag, NEW pc,
         NEW prefetch \in BOOLEAN, NEW r, r = findLine2Replace(x, a, tag, pc, prefetch),
         NEW idx, idx = skewIndexes(a), NEW k, k = skewHit(x, idx, tag)
  PROVE  /\ r = [c |-> r.c, set |-> r.set, way |-> 1] /\ SameLines(x, r.c)
         /\ \E p \in 1..3 : r.set = idx[p] /\ (k # 0 => p = k)
  <1>1. PICK rand : rand = IF x.irand + 1 > 2 THEN 0 ELSE x.irand + 1
    OBVIOUS
  <1>2. PICK q : q = SkewReplaceAt(x, idx, k, rand, prefetch)
    OBVIOUS
  <1>3. q = SkewReplace(x, a, tag, prefetch)
    BY <1>1, <1>2 DEF SkewReplace
  <1>4. r = [c |-> q.c, set |-> q.set, way |-> 1]
    BY <1>3 DEF findLine2Replace
  <1>5. \A j \in 1..3 : idx[j] \in Sets
    BY CacheArrayAssumption
  <1>6. k \in 0..3
    BY SkewHitDoes
  <1>7. SameLines(x, q.c) /\ \E p \in 1..3 : q.set = idx[p] /\ (k # 0 => p = k)
    <2>1. CASE k \in {1, 2}
      <3>1. q = [c |-> x, set |-> idx[k]]
        BY <1>2, <2>1 DEF SkewReplaceAt
      <3>2. QED  BY <2>1, <3>1 DEF SameLines
    <2>2. CASE k = 3
      <3>1. q = [c |-> [x EXCEPT !.irand = IF @ > 2 THEN @ ELSE @ + 1], set |-> idx[3]]
        BY <1>2, <2>2 DEF SkewReplaceAt
      <3>2. q.c = [x EXCEPT !.irand = IF x.irand > 2 THEN x.irand ELSE x.irand + 1]
        BY <3>1 DEF Shape, IsCache
      <3>3. SameLines(x, q.c)
        BY <3>2, RandChanges
      <3>4. QED  BY <2>2, <3>1, <3>3
    <2>3. CASE k = 0
      <3>1. PICK p : p = skewPick(x, idx, rand)
        OBVIOUS
      <3>2. p \in 1..3
        BY <3>1 DEF skewPick
      <3>3. q = [c |-> [skewChosen(x, idx, p) EXCEPT !.irand = rand,
                                                     !.sets[idx[p]][1].prefetch = prefetch],
                 set |-> idx[p]]
        BY <1>2, <2>3, <3>1 DEF SkewReplaceAt
      <3>4. /\ q.c = [skewChosen(x, idx, p) EXCEPT !.irand = rand,
                                                   !.sets[idx[p]][1].prefetch = prefetch]
            /\ q.set = idx[p]
        BY <3>3
      <3>5. SameLines(x, q.c)
        <4>1. PICK z : z = q.c
          OBVIOUS
        <4>2. z = [skewChosen(x, idx, p) EXCEPT !.irand = rand,
                                                !.sets[idx[p]][1].prefetch = prefetch]
          BY <3>4, <4>1
        <4>3. SameLines(x, z)
          BY <1>5, <3>2, <4>2, SkewChosenDoes
        <4>4. QED  BY <4>1, <4>3
      <3>6. QED  BY <2>3, <3>2, <3>4, <3>5
    <2>4. QED  BY <1>6, <2>1, <2>2, <2>3
  <1>8. r.c = q.c /\ r.set = q.set /\ r = [c |-> r.c, set |-> r.set, way |-> 1]
    BY <1>4
  <1>9. QED  BY <1>7, <1>8

\* The invariant depends on the tags only.
LEMMA SameLinesKeep ==
  ASSUME NEW x, Skewed(x), NEW y, SameLines(x, y)
  PROVE  Skewed(y)
  BY DEF Skewed, SameLines

\* The positions of an address are sets.
LEMMA SkewAddr ==
  ASSUME NEW a \in Addrs
  PROVE  \A j \in 1..3 : skewIndexes(a)[j] \in Sets
  BY CacheArrayAssumption

\* One line changes its tag: to nothing, or to one of which it is a position and
\* that no other line has, if the addresses of the tag have the same positions.
LEMMA SkewTagged ==
  ASSUME NEW x, Skewed(x), NEW s \in Sets, NEW tag, NEW y,
         y.sets[s][1].tag = tag,
         \A i \in Sets : i # s => y.sets[i][1].tag = x.sets[i][1].tag,
         tag # 0 => OwnPlace(tag, s),
         tag # 0 /\ alike("skew", tag) => \A i \in Sets : x.sets[i][1].tag = tag => i = s
  PROVE  Skewed(y)
  <1>1. ASSUME NEW i \in Sets, y.sets[i][1].tag # 0
        PROVE  OwnPlace(y.sets[i][1].tag, i)
    <2>1. CASE i = s
      BY <1>1, <2>1
    <2>2. CASE i # s
      BY <1>1, <2>2 DEF Skewed
    <2>3. QED  BY <2>1, <2>2
  <1>2. ASSUME NEW i \in Sets, NEW j \in Sets, y.sets[i][1].tag # 0,
               y.sets[i][1].tag = y.sets[j][1].tag, alike("skew", y.sets[i][1].tag)
        PROVE  i = j
    <2>1. CASE i = s
      BY <1>2, <2>1
    <2>2. CASE j = s
      BY <1>2, <2>2
    <2>3. CASE i # s /\ j # s
      BY <1>2, <2>3 DEF Skewed
    <2>4. QED  BY <2>1, <2>2, <2>3
  <1>3. QED  BY <1>1, <1>2 DEF Skewed

\* fillLine.
LEMMA SkewFillKeeps ==
  ASSUME NEW x, Shape(x), Skewed(x), x.policy = "skew", NEW a \in Addrs, NEW pc,
         NEW prefetch \in BOOLEAN, NEW y, y = fillLine(x, a, a, pc, prefetch).c
  PROVE  Shape(y) /\ y.policy = x.policy /\ Skewed(y)
  <1>1. PICK tag, idx, k : tag = calcTag(a) /\ idx = skewIndexes(a) /\ k = skewHit(x, idx, tag)
    OBVIOUS
  <1>2. PICK r : r = findLine2Replace(x, a, tag, pc, prefetch)
    OBVIOUS
  <1>3. PICK z, s : z = r.c /\ s = r.set
    OBVIOUS
  <1>4. r = [c |-> z, set |-> s, way |-> 1] /\ SameLines(x, z)
    BY <1>1, <1>2, <1>3, SkewReplaceDoes
  <1>5. PICK p \in 1..3 : s = idx[p] /\ (k # 0 => p = k)
    BY <1>1, <1>2, <1>3, SkewReplaceDoes
  <1>6. \A j \in 1..3 : idx[j] \in Sets
    BY <1>1, SkewAddr
  <1>7. s \in Sets /\ Shape(z) /\ z.policy = "skew" /\ assoc(z.policy) = 1
    BY <1>4, <1>5, <1>6 DEF SameLines, assoc
  <1> DEFINE S == z.sets[s]  U == Tagged(S, 1, tag)
  <1>8. y = WithSet(z, s, U)
    <2>1. y = setTag(r, tag).c
      BY <1>1, <1>2 DEF fillLine
    <2>2. 1 \in 1..assoc(z.policy)
      BY <1>7
    <2>3. setTag(r, tag).c = WithSet(z, s, Tagged(z.sets[s], 1, tag))
      BY <1>4, <1>7, <2>2, SetTagDoes
    <2>4. QED  BY <2>1, <2>3
  <1>9. S \in Ways(1) /\ tag \in Tags \cup {0}
    BY <1>1, <1>7, SetsHaveWays DEF Tags
  <1>10. U \in Ways(1) /\ U[1].tag = tag
    <2>1. SameTags(S, S) /\ 1 \in 1..1
      BY DEF SameTags
    <2>2. U \in Ways(1) /\ InPlace(S, U, 1, tag)
      BY <1>9, <2>1, TagIsSet
    <2>3. QED  BY <2>2 DEF InPlace
  <1> HIDE DEF U
  <1>11. Shape(y) /\ y.policy = z.policy /\ y.sets = [z.sets EXCEPT ![s] = U]
    <2>1. U \in Ways(assoc(z.policy))
      BY <1>7, <1>10
    <2>2. /\ Shape(WithSet(z, s, U)) /\ WithSet(z, s, U).policy = z.policy
          /\ WithSet(z, s, U).sets = [z.sets EXCEPT ![s] = U]
      BY <1>7, <2>1, SetChanges
    <2>3. QED  BY <1>8, <2>2
  <1>12. /\ y.sets[s][1].tag = tag
         /\ \A i \in Sets : i # s => y.sets[i][1].tag = x.sets[i][1].tag
    <2>1. y.sets[s] = U /\ \A i \in Sets : i # s => y.sets[i] = z.sets[i]
      BY <1>7, <1>11 DEF Shape
    <2>2. QED  BY <1>4, <1>10, <2>1 DEF SameLines
  <1>13. tag # 0 /\ alike("skew", tag) => \A i \in Sets : x.sets[i][1].tag = tag => i = s
    <2> SUFFICES ASSUME tag # 0, alike("skew", tag), NEW i \in Sets, x.sets[i][1].tag = tag
                 PROVE  i = s
      OBVIOUS
    <2>1. OwnPlace(tag, i)
      BY DEF Skewed
    <2>2. PICK b \in Addrs : calcTag(b) = tag /\ \E j \in 1..3 : skewIndexes(b)[j] = i
      BY <2>1 DEF OwnPlace
    <2>3. skewIndexes(b) = idx
      BY <1>1, <2>2 DEF alike, addrsOf
    <2>4. PICK j \in 1..3 : idx[j] = i
      BY <2>2, <2>3
    <2>5. k \in 1..3 /\ x.sets[idx[k]][1].tag = tag
      BY <1>1, <2>4, SkewHitDoes
    <2>6. QED  BY <1>5, <1>6, <2>5 DEF Skewed
  <1>14. tag # 0 => OwnPlace(tag, s)
    BY <1>1, <1>5 DEF OwnPlace
  <1>15. Skewed(y)
    BY <1>7, <1>12, <1>13, <1>14, SkewTagged
  <1>16. QED  BY <1>7, <1>11, <1>15

\* invalidate.
LEMMA SkewInvalidateKeeps ==
  ASSUME NEW x, Shape(x), Skewed(x), x.policy = "skew", NEW i \in Sets,
         NEW y, y = invalidate(x, [set |-> i, way |-> 1])
  PROVE  Shape(y) /\ y.policy = x.policy /\ Skewed(y)
  <1>1. assoc(x.policy) = 1 /\ 1 \in 1..assoc(x.policy)
    BY DEF assoc
  <1>2. Shape(y) /\ y.policy = x.policy
    BY <1>1, InvalidateDoes
  <1>3. PICK U \in Ways(assoc(x.policy)) :
          y.sets = [x.sets EXCEPT ![i] = U] /\ InPlace(x.sets[i], U, 1, 0)
    BY <1>1, InvalidateDoes
  <1>4. y.sets[i][1].tag = 0 /\ \A j \in Sets : j # i => y.sets[j][1].tag = x.sets[j][1].tag
    BY <1>3 DEF Shape, InPlace
  <1>5. Skewed(y)
    BY <1>4, SkewTagged
  <1>6. QED  BY <1>2, <1>5

-----------------------------------------------------------------------------
(* Every line can be found *)

\* A new array has no lines.
LEMMA CreateSound ==
  ASSUME NEW p \in Policies, NEW j \in Junk, NEW x, x = create(p, j)
  PROVE  Sound(x) /\ \A i \in Sets : \A w \in DOMAIN x.sets[i] : x.sets[i][w].tag = 0
  <1>1. assoc(p) \in Nat \ {0} /\ Geometry.assoc \in Nat \ {0} /\ j \in Nat
    BY AssocPositive, CacheArrayAssumption
  <1>2. IsCache(x) /\ x.policy = p /\ x.irand = 0
        /\ x.sets = [i \in Sets |-> [w \in 1..assoc(p) |-> zero_line(p, j)]]
    BY DEF create, IsCache
  <1>3. zero_line(p, j) \in Line /\ zero_line(p, j).tag = 0
    BY <1>1 DEF zero_line, Line
  <1>4. x.sets \in [Sets -> Ways(assoc(p))]
    BY <1>2, <1>3 DEF Ways
  <1>5. Shape(x)
    BY <1>1, <1>2, <1>4 DEF Shape
  <1>6. \A i \in Sets : \A w \in 1..assoc(p) : x.sets[i][w].tag = 0
    BY <1>2, <1>3
  <1>7. \A i \in Sets : DOMAIN x.sets[i] = 1..assoc(p)
    BY <1>2
  <1>8. Placed(x)
    BY <1>2, <1>6, <1>7 DEF Placed, Unique
  <1>9. Skewed(x)
    <2>1. 1 \in 1..assoc(p)
      BY <1>1
    <2>2. QED  BY <1>6, <2>1 DEF Skewed
  <1>10. QED  BY <1>5, <1>6, <1>7, <1>8, <1>9 DEF Sound

\* findLine keeps the array sound.
LEMMA FindSound ==
  ASSUME NEW x, Sound(x), NEW a \in Addrs, NEW pc, NEW y, y = findLine(x, a, a, pc)
  PROVE  Sound(y) /\ y.policy = x.policy
  <1>1. CASE x.policy = "skew"
    <2>1. SameLines(x, y)
      BY <1>1, SkewFindDoes DEF Sound
    <2>2. Skewed(y)
      BY <1>1, <2>1, SameLinesKeep DEF Sound
    <2>3. QED  BY <1>1, <2>1, <2>2 DEF Sound, SameLines
  <1>2. CASE x.policy # "skew"
    <2>1. Shape(y) /\ y.policy = x.policy /\ Placed(y)
      BY <1>2, FindKeeps DEF Sound
    <2>2. QED  BY <1>2, <2>1 DEF Sound
  <1>3. QED  BY <1>1, <1>2

\* fillLine keeps the array sound.
LEMMA FillSound ==
  ASSUME NEW x, Sound(x), NEW a \in Addrs, NEW pc \in PCs, NEW prefetch \in BOOLEAN,
         NEW y, y = fillLine(x, a, a, pc, prefetch).c
  PROVE  Sound(y) /\ y.policy = x.policy
  <1>1. CASE x.policy = "skew"
    <2>1. Shape(y) /\ y.policy = x.policy /\ Skewed(y)
      BY <1>1, SkewFillKeeps DEF Sound
    <2>2. QED  BY <1>1, <2>1 DEF Sound
  <1>2. CASE x.policy # "skew"
    <2>1. PICK tag, i, kind : tag = calcTag(a) /\ i = calcIndex4Tag(tag) /\ kind = Kind(prefetch)
      OBVIOUS
    <2>2. i \in Sets /\ Shape(x) /\ Placed(x)
      BY <1>2, <2>1, CacheArrayAssumption DEF Sound
    <2>3. FilledIn(x, y, i, wayOf(x.sets[i], tag), tag, kind)
      BY <1>2, <2>1, <2>2, FillDoes
    <2>4. Shape(y) /\ y.policy = x.policy /\ Placed(y)
      BY <2>1, <2>2, <2>3, FillKeeps
    <2>5. QED  BY <1>2, <2>4 DEF Sound
  <1>3. QED  BY <1>1, <1>2

\* The line found is one of the array's.
LEMMA FoundWhere ==
  ASSUME NEW x, Shape(x), NEW a \in Addrs, NEW l, l = lineAt(x, a, a), l.way # 0
  PROVE  /\ l = [set |-> l.set, way |-> l.way] /\ l.set \in Sets /\ l.way \in 1..assoc(x.policy)
         /\ x.sets[l.set][l.way].tag = calcTag(a)
  <1>1. PICK tag, i, idx, k : /\ tag = calcTag(a) /\ i = calcIndex4Tag(tag)
                              /\ idx = skewIndexes(a) /\ k = skewHit(x, idx, tag)
    OBVIOUS
  <1>2. i \in Sets /\ \A j \in 1..3 : idx[j] \in Sets
    BY <1>1, CacheArrayAssumption
  <1>3. CASE x.policy = "skew"
    <2>1. l = [set |-> IF k = 0 THEN i ELSE idx[k], way |-> IF k = 0 THEN 0 ELSE 1]
      BY <1>1, <1>3 DEF lineAt
    <2>2. k # 0 /\ l.set = idx[k] /\ l.way = 1
      BY <2>1
    <2>3. k \in 1..3 /\ x.sets[idx[k]][1].tag = tag
      BY <1>1, <2>2, SkewHitDoes
    <2>4. assoc(x.policy) = 1
      BY <1>3 DEF assoc
    <2>5. l = [set |-> l.set, way |-> l.way]
      BY <2>1
    <2>6. QED  BY <1>1, <1>2, <2>2, <2>3, <2>4, <2>5
  <1>4. CASE x.policy # "skew"
    <2>1. l = [set |-> i, way |-> wayOf(x.sets[i], tag)]
      BY <1>1, <1>4, Where
    <2>2. x.sets[i] \in Ways(assoc(x.policy)) /\ assoc(x.policy) \in Nat
      BY <1>2, SetsHaveWays
    <2>3. PICK h : h = wayOf(x.sets[i], tag)
      OBVIOUS
    <2>4. l.set = i /\ l.way = h /\ l = [set |-> l.set, way |-> l.way]
      BY <2>1, <2>3
    <2>5. h \in 1..assoc(x.policy) /\ x.sets[i][h].tag = tag
      BY <2>2, <2>3, <2>4, WayOfTag
    <2>6. QED  BY <1>1, <1>2, <2>4, <2>5
  <1>5. QED  BY <1>3, <1>4

\* invalidate keeps the array sound.
LEMMA InvalidateSound ==
  ASSUME NEW x, Sound(x), NEW a \in Addrs, NEW l, l = lineAt(x, a, a), l.way # 0,
         NEW y, y = invalidate(x, l)
  PROVE  Sound(y) /\ y.policy = x.policy
  <1>1. /\ l = [set |-> l.set, way |-> l.way] /\ l.set \in Sets /\ l.way \in 1..assoc(x.policy)
        /\ Shape(x)
    BY FoundWhere DEF Sound
  <1>2. PICK i \in Sets, w \in 1..assoc(x.policy) : l = [set |-> i, way |-> w]
    BY <1>1
  <1>3. CASE x.policy = "skew"
    <2>1. w = 1
      BY <1>3 DEF assoc
    <2>2. Shape(y) /\ y.policy = x.policy /\ Skewed(y)
      BY <1>1, <1>2, <1>3, <2>1, SkewInvalidateKeeps DEF Sound
    <2>3. QED  BY <1>3, <2>2 DEF Sound
  <1>4. CASE x.policy # "skew"
    <2>1. Shape(y) /\ y.policy = x.policy /\ Placed(y)
      BY <1>1, <1>2, <1>4, InvalidateKeeps DEF Sound
    <2>2. QED  BY <1>4, <2>1 DEF Sound
  <1>5. QED  BY <1>3, <1>4

\* In the skewed array the address a line was brought in with finds one.
LEMMA SkewFinds ==
  ASSUME NEW x, Sound(x), x.policy = "skew", NEW i \in Sets,
         NEW tag, tag = x.sets[i][1].tag, NEW a \in Addrs, tag = calcTag(a),
         NEW j \in 1..3, skewIndexes(a)[j] = i
  PROVE  \E k \in 1..3 : /\ lineAt(x, a, a) = [set |-> skewIndexes(a)[k], way |-> 1]
                         /\ x.sets[skewIndexes(a)[k]][1].tag = tag
  <1>1. PICK idx, k : idx = skewIndexes(a) /\ k = skewHit(x, idx, tag)
    OBVIOUS
  <1>2. k \in 1..3 /\ x.sets[idx[k]][1].tag = tag
    <2>1. x.sets[idx[j]][1].tag = tag
      BY <1>1
    <2>2. QED  BY <1>1, <2>1, SkewHitDoes
  <1>3. k # 0
    BY <1>2
  <1>4. lineAt(x, a, a) = [set |-> idx[k], way |-> 1]
    BY <1>1, <1>3 DEF lineAt
  <1>5. QED  BY <1>1, <1>2, <1>4

\* A sound array finds the line of each of its tags where it is, or a copy.
LEMMA SoundFinds ==
  ASSUME NEW x, Sound(x), NEW i \in Sets, NEW w \in 1..assoc(x.policy),
         NEW tag, tag = x.sets[i][w].tag, tag # 0
  PROVE  /\ \E a \in addrsOf(tag) : lineAt(x, a, a).way # 0
         /\ alike(x.policy, tag) =>
              \A a \in addrsOf(tag) : lineAt(x, a, a) = [set |-> i, way |-> w]
  <1>1. x.sets[i] \in Ways(assoc(x.policy)) /\ assoc(x.policy) \in Nat /\ DOMAIN x.sets[i] = 1..assoc(x.policy)
    BY SetsHaveWays DEF Sound
  <1>2. tag \in Tags
    BY <1>1 DEF Ways, Line
  <1>3. PICK o \in addrsOf(tag) : o \in Addrs /\ tag = calcTag(o)
    BY <1>2 DEF Tags, addrsOf
  <1>4. CASE x.policy = "skew"
    <2>1. w = 1 /\ x.sets[i][1].tag = tag /\ Skewed(x)
      BY <1>4 DEF assoc, Sound
    <2>2. OwnPlace(tag, i)
      BY <2>1 DEF Skewed
    <2>3. PICK b \in Addrs : calcTag(b) = tag /\ \E j \in 1..3 : skewIndexes(b)[j] = i
      BY <2>2 DEF OwnPlace
    <2>4. PICK j \in 1..3 : skewIndexes(b)[j] = i
      BY <2>3
    <2>5. PICK k \in 1..3 : lineAt(x, b, b) = [set |-> skewIndexes(b)[k], way |-> 1]
      BY <1>4, <2>1, <2>3, <2>4, SkewFinds
    <2>6. b \in addrsOf(tag) /\ lineAt(x, b, b).way # 0
      BY <2>3, <2>5 DEF addrsOf
    <2>7. ASSUME alike(x.policy, tag), NEW a \in addrsOf(tag)
          PROVE  lineAt(x, a, a) = [set |-> i, way |-> w]
      <3>1. a \in Addrs /\ calcTag(a) = tag /\ skewIndexes(a)[j] = i
        BY <1>4, <2>4, <2>6, <2>7 DEF alike, addrsOf
      <3>2. PICK h \in 1..3 : /\ lineAt(x, a, a) = [set |-> skewIndexes(a)[h], way |-> 1]
                             /\ x.sets[skewIndexes(a)[h]][1].tag = tag
        BY <1>4, <2>1, <3>1, SkewFinds
      <3>3. skewIndexes(a)[h] \in Sets
        BY <3>1, SkewAddr
      <3>4. skewIndexes(a)[h] = i
        BY <1>4, <2>1, <2>7, <3>2, <3>3 DEF Skewed
      <3>5. QED  BY <2>1, <3>2, <3>4
    <2>8. QED  BY <2>6, <2>7
  <1>5. CASE x.policy # "skew"
    <2>1. calcIndex4Tag(tag) = i
      BY <1>5 DEF Sound, Placed
    <2>2. PICK h : h = wayOf(x.sets[i], tag)
      OBVIOUS
    <2>3. h \in 1..assoc(x.policy) /\ x.sets[i][h].tag = tag
      BY <1>1, <2>2, WayOfTag
    <2>4. h = w
      BY <1>1, <1>5, <2>3 DEF Sound, Placed, Unique
    <2>5. ASSUME NEW a \in addrsOf(tag)
          PROVE  lineAt(x, a, a) = [set |-> i, way |-> w]
      <3>1. tag = calcTag(a)
        BY DEF addrsOf
      <3>2. lineAt(x, a, a) = [set |-> i, way |-> wayOf(x.sets[i], tag)]
        BY <1>5, <2>1, <3>1, Where
      <3>3. QED  BY <2>2, <2>4, <3>2
    <2>6. lineAt(x, o, o) = [set |-> i, way |-> w] /\ w # 0
      BY <1>1, <1>3, <2>5
    <2>7. lineAt(x, o, o).way # 0
      BY <2>6
    <2>8. QED  BY <1>3, <2>5, <2>7
  <1>6. QED  BY <1>4, <1>5

\* The invariant says that lines can be found.
LEMMA ArrayInvFinds == ArrayInv => LinesFindable
  <1> SUFFICES ASSUME ArrayInv, NEW sw \in Valid, NEW tag, tag = c.sets[sw[1]][sw[2]].tag
               PROVE  /\ \E a \in addrsOf(tag) : lineAt(c, a, a).way # 0
                      /\ alike(c.policy, tag) =>
                           \A a \in addrsOf(tag) : lineAt(c, a, a) = [set |-> sw[1], way |-> sw[2]]
    BY Zenon DEF LinesFindable
  <1>1. /\ sw[1] \in Sets /\ sw[2] \in 1..Geometry.assoc
        /\ sw[2] <= Len(c.sets[sw[1]]) /\ tag # 0
    BY DEF Valid
  <1>2. PICK i \in Sets, w \in 1..Geometry.assoc : i = sw[1] /\ w = sw[2]
    BY <1>1
  <1>3. Len(c.sets[i]) = assoc(c.policy) /\ assoc(c.policy) \in Nat /\ Geometry.assoc \in Nat
    BY SetsHaveWays, CacheArrayAssumption DEF ArrayInv, Sound
  <1>4. w \in 1..assoc(c.policy)
    BY <1>1, <1>2, <1>3
  <1>5. /\ \E a \in addrsOf(tag) : lineAt(c, a, a).way # 0
        /\ alike(c.policy, tag) =>
             \A a \in addrsOf(tag) : lineAt(c, a, a) = [set |-> i, way |-> w]
    BY <1>1, <1>2, <1>4, SoundFinds DEF ArrayInv
  <1>6. QED  BY <1>2, <1>5

\* It holds of a new array ...
LEMMA InitArray == Init => ArrayInv
  BY CreateSound DEF Init, ArrayInv

\* ... and a step leaves the array sound and does not change its policy.
LEMMA NextArray ==
  ASSUME ArrayInv, [Next]_vars
  PROVE  ArrayInv' /\ c'.policy = c.policy
  <1>1. ASSUME NEW a \in Addrs, NEW pc \in PCs, ReadLine(a, pc)
        PROVE  ArrayInv' /\ c'.policy = c.policy
    BY <1>1, FindSound DEF ArrayInv, ReadLine
  <1>2. ASSUME NEW a \in Addrs, NEW pc \in PCs, NEW prefetch \in BOOLEAN,
               AllocateLine(a, pc, prefetch)
        PROVE  ArrayInv' /\ c'.policy = c.policy
    BY <1>2, FillSound DEF ArrayInv, AllocateLine
  <1>3. ASSUME NEW a \in Addrs, NEW pc \in PCs, FillLine(a, pc)
        PROVE  ArrayInv' /\ c'.policy = c.policy
    <2>1. PICK prefetch \in BOOLEAN : prefetch = FALSE
      OBVIOUS
    <2>2. c' = fillLine(c, a, a, pc, prefetch).c
      BY <1>3, <2>1 DEF FillLine
    <2>3. QED  BY <2>2, FillSound DEF ArrayInv
  <1>4. ASSUME NEW a \in Addrs, Invalidate(a)
        PROVE  ArrayInv' /\ c'.policy = c.policy
    BY <1>4, InvalidateSound DEF ArrayInv, Invalidate, present
  <1>5. CASE UNCHANGED vars
    BY <1>5 DEF vars, ArrayInv
  <1>6. QED
    BY <1>1, <1>2, <1>3, <1>4, <1>5 DEF Next

(* Every valid line of an array can be found, whatever the policy, the     *)
(* geometry, the bytes of the line that are used and the order of the      *)
(* operations: by each of its addresses and only there, when they look in  *)
(* the same places; by the one that brought it in otherwise.               *)
THEOREM Findable == Spec => []LinesFindable
  <1>1. Init => ArrayInv
    BY InitArray
  <1>2. ArrayInv /\ [Next]_vars => ArrayInv'
    BY NextArray
  <1>3. ArrayInv => LinesFindable
    BY ArrayInvFinds
  <1>4. QED  BY <1>1, <1>2, <1>3, PTL DEF Spec

-----------------------------------------------------------------------------
(* lru keeps each set in order of last use *)

\* Only the tags matter.
LEMMA OrderedSame ==
  ASSUME NEW n \in Nat, NEW S \in Ways(n), NEW U \in Ways(n), SameTags(S, U), NEW st, Ordered(S, st)
  PROVE  Ordered(U, st)
  <1>1. DOMAIN S = 1..n /\ DOMAIN U = 1..n /\ Len(S) = n /\ Len(U) = n
    BY DEF Ways
  <1>2. \A u \in 1..n : U[u].tag = S[u].tag
    BY <1>1 DEF SameTags
  <1>3. QED  BY <1>1, <1>2 DEF Ordered

\* A set that does not have the line.
LEMMA OrderedElsewhere ==
  ASSUME NEW n \in Nat, NEW S \in Ways(n), NEW st \in [Tags -> Nat], Ordered(S, st), NEW tag, NEW q,
         tag # 0 => \A u \in 1..n : S[u].tag # tag
  PROVE  Ordered(S, [st EXCEPT ![tag] = q])
  <1>1. DOMAIN S = 1..n /\ \A u \in 1..n : S[u].tag \in Tags \cup {0}
    BY DEF Ways, Line
  <1>2. \A u \in 1..n : S[u].tag # 0 => [st EXCEPT ![tag] = q][S[u].tag] = st[S[u].tag]
    BY <1>1
  <1>3. QED  BY <1>1, <1>2 DEF Ordered

\* Stamps that agree with st except at the tag, which is newer than all of them or
\* never used.
Restamped(st, st2, tag, m, q) ==
  /\ st \in [Tags -> 0..m] /\ m \in Nat /\ q \in Nat
  /\ tag # 0 => st2[tag] = q
  /\ \A t \in Tags : t # 0 /\ t # tag => st2[t] = st[t]

\* The line is now the first, and the newest, or the last, and was never used.
LEMMA OrderedKept ==
  ASSUME NEW n \in Nat \ {0}, NEW S \in Ways(n), NEW U \in Ways(n), NEW v \in 1..n, NEW tag,
         NEW k, NEW f, From(S, U, n, v, tag, k, f),
         tag # 0 => \A u \in 1..n : S[u].tag = tag => u = v,
         NEW st, Ordered(S, st), NEW st2, NEW m, NEW q, Restamped(st, st2, tag, m, q),
         tag # 0 => (k = 1 /\ q = m + 1) \/ (k = n /\ q = 0)
  PROVE  Ordered(U, st2)
  <1>1. /\ DOMAIN S = 1..n /\ DOMAIN U = 1..n /\ Len(S) = n /\ Len(U) = n
        /\ \A u \in 1..n : S[u].tag \in Tags \cup {0}
    BY DEF Ways, Line
  <1>2. k \in 1..n /\ U[k].tag = tag /\ m \in Nat /\ q \in Nat
    BY DEF From, Restamped
  <1> DEFINE old(u) == st[S[f[u]].tag]
  <1>3. ASSUME NEW u \in 1..n, u # k, U[u].tag # 0
        PROVE  /\ st2[U[u].tag] = old(u) /\ old(u) \in 0..m
               /\ f[u] \in 1..n /\ S[f[u]].tag # 0
    <2>1. f[u] \in 1..n /\ U[u].tag = S[f[u]].tag /\ f[u] # v
      BY <1>3 DEF From
    <2>2. U[u].tag # tag
      BY <1>3, <2>1
    <2>3. U[u].tag \in Tags
      BY <1>1, <1>3, <2>1
    <2>4. QED  BY <1>3, <2>1, <2>2, <2>3 DEF Restamped
  <1>4. ASSUME NEW u \in 1..n, u # k, U[u].tag # 0, u < n
        PROVE  old(u) > 0
    <2>1. f[u] < n /\ f[u] \in 1..n /\ S[f[u]].tag # 0
      BY <1>3, <1>4 DEF From
    <2>2. QED  BY <1>1, <2>1 DEF Ordered
  <1>5. ASSUME NEW u \in 1..n, NEW w \in 1..n, u < w, U[u].tag # 0, U[w].tag # 0
        PROVE  st2[U[u].tag] > st2[U[w].tag]
    <2>1. CASE u # k /\ w # k
      <3>1. f[u] < f[w] /\ f[u] \in 1..n /\ f[w] \in 1..n /\ S[f[u]].tag # 0 /\ S[f[w]].tag # 0
        BY <1>3, <1>5, <2>1 DEF From
      <3>2. old(u) > old(w)
        BY <1>1, <3>1 DEF Ordered
      <3>3. st2[U[u].tag] = old(u) /\ st2[U[w].tag] = old(w)
        BY <1>3, <1>5, <2>1
      <3>4. QED  BY <3>2, <3>3
    <2>2. CASE u = k
      <3>1. tag # 0 /\ w # k /\ k # n
        BY <1>2, <1>5, <2>2
      <3>2. st2[U[u].tag] = m + 1
        BY <1>2, <2>2, <3>1 DEF Restamped
      <3>3. st2[U[w].tag] \in 0..m
        BY <1>3, <1>5, <3>1
      <3>4. QED  BY <1>2, <3>2, <3>3
    <2>3. CASE w = k
      <3>1. tag # 0 /\ u # k /\ k # 1 /\ u < n
        BY <1>2, <1>5, <2>3
      <3>2. st2[U[w].tag] = 0
        BY <1>2, <2>3, <3>1 DEF Restamped
      <3>3. st2[U[u].tag] = old(u) /\ old(u) > 0
        BY <1>3, <1>4, <1>5, <3>1
      <3>4. QED  BY <3>2, <3>3
    <2>4. QED  BY <2>1, <2>2, <2>3
  <1>6. ASSUME NEW u \in 1..n, u < n, U[u].tag # 0
        PROVE  st2[U[u].tag] > 0
    <2>1. CASE u # k
      BY <1>3, <1>4, <1>6, <2>1
    <2>2. CASE u = k
      <3>1. tag # 0 /\ k # n
        BY <1>2, <1>6, <2>2
      <3>2. st2[U[u].tag] = m + 1
        BY <1>2, <2>2, <3>1 DEF Restamped
      <3>3. QED  BY <1>2, <3>2
    <2>3. QED  BY <2>1, <2>2
  <1>7. QED  BY <1>1, <1>5, <1>6 DEF Ordered

\* An array in which one line was used or prefetched.
LEMMA LruKept ==
  ASSUME NEW x, Shape(x), Placed(x), NEW i \in Sets, NEW tag \in Tags, calcIndex4Tag(tag) = i,
         NEW U \in Ways(assoc(x.policy)), NEW y, y.sets = [x.sets EXCEPT ![i] = U],
         NEW v \in 1..assoc(x.policy),
         tag # 0 => \A u \in 1..assoc(x.policy) : x.sets[i][u].tag = tag => u = v,
         NEW m \in Nat, NEW st \in [Tags -> 0..m], AllOrdered(x, st), NEW q,
         \/ q = m + 1 /\ Fronted(x.sets[i], U, v, tag)
         \/ q = 0 /\ v = assoc(x.policy) /\ InPlace(x.sets[i], U, v, tag)
  PROVE  AllOrdered(y, [st EXCEPT ![tag] = q])
  <1> DEFINE n == assoc(x.policy)  S == x.sets[i]  st2 == [st EXCEPT ![tag] = q]
  <1>1. S \in Ways(n) /\ n \in Nat \ {0}
    BY SetsHaveWays
  <1>2. y.sets[i] = U /\ \A j \in Sets : j # i => y.sets[j] = x.sets[j]
    BY DEF Shape
  <1>3. Restamped(st, st2, tag, m, q)
    BY DEF Restamped
  <1>4. Ordered(S, st)
    BY DEF AllOrdered
  <1> HIDE DEF n, S, st2
  <1>5. Ordered(U, st2)
    <2>1. CASE q = m + 1 /\ Fronted(S, U, v, tag)
      <3>1. PICK f : From(S, U, n, v, tag, 1, f)
        BY <1>1, <2>1, FrontedFrom DEF n
      <3>2. QED  BY <1>1, <1>3, <1>4, <2>1, <3>1, OrderedKept DEF n, S
    <2>2. CASE q = 0 /\ v = n /\ InPlace(S, U, v, tag)
      <3>1. PICK f : From(S, U, n, v, tag, n, f)
        BY <1>1, <2>2, InPlaceFrom DEF n
      <3>2. QED  BY <1>1, <1>3, <1>4, <2>2, <3>1, OrderedKept DEF n, S
    <2>3. QED  BY <2>1, <2>2 DEF n, S
  <1>6. ASSUME NEW j \in Sets, j # i PROVE Ordered(y.sets[j], st2)
    <2>1. x.sets[j] \in Ways(n) /\ n \in Nat
      BY SetsHaveWays DEF n
    <2>2. tag # 0 => \A u \in 1..n : x.sets[j][u].tag # tag
      BY <1>6 DEF Placed, n
    <2>3. st \in [Tags -> Nat] /\ Ordered(x.sets[j], st)
      BY DEF AllOrdered
    <2>4. Ordered(x.sets[j], st2)
      BY <2>1, <2>2, <2>3, OrderedElsewhere DEF st2
    <2>5. QED  BY <1>2, <1>6, <2>4
  <1>7. QED  BY <1>2, <1>5, <1>6 DEF AllOrdered, st2

\* findLine moves a line it finds to the front.
LEMMA LruFind ==
  ASSUME NEW x, Sound(x), x.policy = "lru", NEW a \in Addrs, NEW pc, NEW y, y = findLine(x, a, a, pc),
         NEW m \in Nat, NEW st \in [Tags -> 0..m], AllOrdered(x, st)
  PROVE  /\ lineAt(x, a, a).way # 0 => AllOrdered(y, [st EXCEPT ![calcTag(a)] = m + 1])
         /\ lineAt(x, a, a).way = 0 => AllOrdered(y, st)
  <1> DEFINE n == assoc(x.policy)
  <1>1. PICK tag, i : tag = calcTag(a) /\ i = calcIndex4Tag(tag)
    OBVIOUS
  <1>2. PICK h : h = wayOf(x.sets[i], tag)
    OBVIOUS
  <1> DEFINE S == x.sets[i]
  <1>3. i \in Sets /\ tag \in Tags /\ Shape(x) /\ Placed(x)
    BY <1>1, CacheArrayAssumption DEF Tags, Sound
  <1>4. lineAt(x, a, a).way = h
    <2>1. lineAt(x, a, a) = [set |-> i, way |-> h]
      BY <1>1, <1>2, Where
    <2>2. QED  BY <2>1
  <1>5. S \in Ways(n) /\ n \in Nat \ {0} /\ DOMAIN S = 1..n
    BY <1>3, SetsHaveWays
  <1>6. PICK T \in Ways(n) : y.sets = [x.sets EXCEPT ![i] = T] /\ Found(S, T, h, x.policy)
    BY <1>1, <1>2, <1>3, FindDoes
  <1> HIDE DEF n, S
  <1>7. CASE h # 0
    <2>1. h \in 1..n /\ S[h].tag = tag /\ Fronted(S, T, h, tag)
      BY <1>2, <1>5, <1>6, <1>7, WayOfTag DEF Found, S
    <2>2. tag # 0 => \A u \in 1..n : S[u].tag = tag => u = h
      BY <1>3, <1>5, <2>1 DEF Placed, Unique, S
    <2>3. AllOrdered(y, [st EXCEPT ![tag] = m + 1])
      BY <1>1, <1>3, <1>6, <2>1, <2>2, LruKept DEF n, S
    <2>4. QED  BY <1>1, <1>4, <1>7, <2>3
  <1>8. CASE h = 0
    <2>1. SameTags(S, T)
      BY <1>6, <1>8 DEF Found
    <2>2. Ordered(S, st)
      BY <1>3 DEF AllOrdered, S
    <2>3. Ordered(T, st)
      BY <1>5, <2>1, <2>2, OrderedSame
    <2>4. y.sets[i] = T /\ \A j \in Sets : j # i => y.sets[j] = x.sets[j]
      BY <1>3, <1>6 DEF Shape
    <2>5. AllOrdered(y, st)
      BY <2>3, <2>4 DEF AllOrdered
    <2>6. QED  BY <1>4, <1>8, <2>5
  <1>9. QED  BY <1>7, <1>8

\* A fill on demand brings the line to the front, the prefetch of an absent one
\* leaves it in the last way.
LEMMA LruFill ==
  ASSUME NEW x, Sound(x), x.policy = "lru", NEW a \in Addrs, NEW pc \in PCs,
         NEW prefetch \in BOOLEAN, NEW y, y = fillLine(x, a, a, pc, prefetch).c,
         NEW m \in Nat, NEW st \in [Tags -> 0..m], AllOrdered(x, st)
  PROVE  /\ ~prefetch => AllOrdered(y, [st EXCEPT ![calcTag(a)] = m + 1])
         /\ prefetch /\ lineAt(x, a, a).way = 0 => AllOrdered(y, [st EXCEPT ![calcTag(a)] = 0])
  <1> DEFINE n == assoc(x.policy)
  <1>1. PICK tag, i, kind : tag = calcTag(a) /\ i = calcIndex4Tag(tag) /\ kind = Kind(prefetch)
    OBVIOUS
  <1>2. PICK h : h = wayOf(x.sets[i], tag)
    OBVIOUS
  <1> DEFINE S == x.sets[i]
  <1>3. i \in Sets /\ tag \in Tags /\ Shape(x) /\ Placed(x)
    BY <1>1, CacheArrayAssumption DEF Tags, Sound
  <1>4. lineAt(x, a, a).way = h
    <2>1. lineAt(x, a, a) = [set |-> i, way |-> h]
      BY <1>1, <1>2, Where
    <2>2. QED  BY <2>1
  <1>5. S \in Ways(n) /\ n \in Nat \ {0} /\ DOMAIN S = 1..n /\ Len(S) = n
    BY <1>3, SetsHaveWays
  <1>6. FilledIn(x, y, i, h, tag, kind)
    <2>1. x.policy # "skew"
      OBVIOUS
    <2>2. FilledIn(x, y, i, wayOf(x.sets[i], tag), tag, kind)
      BY <1>1, <1>3, <2>1, FillDoes
    <2>3. QED  BY <1>2, <2>2
  <1>7. PICK U \in Ways(n), v \in 1..n :
          /\ y.sets = [x.sets EXCEPT ![i] = U] /\ Filled(S, U, v, h, tag)
          /\ h = 0 => v = Len(S)
          /\ kind = "demand" => Fronted(S, U, v, tag)
          /\ h = 0 /\ kind = "prefetch" => InPlace(S, U, v, tag)
    BY <1>6 DEF FilledIn
  <1>8. \A u \in 1..n : S[u].tag = tag => h \in 1..n /\ S[h].tag = tag
    BY <1>2, <1>5, WayOfTag
  <1>9. tag # 0 => \A u \in 1..n : S[u].tag = tag => u = v
    BY <1>3, <1>5, <1>7, <1>8 DEF Placed, Unique, Filled
  <1> HIDE DEF n, S
  <1>10. CASE ~prefetch
    <2>1. Fronted(S, U, v, tag)
      BY <1>1, <1>7, <1>10 DEF Kind
    <2>2. AllOrdered(y, [st EXCEPT ![tag] = m + 1])
      BY <1>1, <1>3, <1>7, <1>9, <2>1, LruKept DEF n, S
    <2>3. QED  BY <1>1, <1>10, <2>2
  <1>11. CASE prefetch /\ h = 0
    <2>1. v = n /\ InPlace(S, U, v, tag)
      BY <1>1, <1>5, <1>7, <1>11 DEF Kind
    <2>2. AllOrdered(y, [st EXCEPT ![tag] = 0])
      BY <1>1, <1>3, <1>7, <1>9, <2>1, LruKept DEF n, S
    <2>3. QED  BY <1>1, <1>11, <2>2
  <1>12. QED  BY <1>4, <1>10, <1>11

\* invalidate drops a line.
LEMMA LruInvalidate ==
  ASSUME NEW x, Shape(x), NEW i \in Sets, NEW w \in 1..assoc(x.policy),
         NEW y, y = invalidate(x, [set |-> i, way |-> w]),
         NEW m \in Nat, NEW st \in [Tags -> 0..m], AllOrdered(x, st)
  PROVE  AllOrdered(y, st)
  <1> DEFINE n == assoc(x.policy)  S == x.sets[i]
  <1>1. PICK U \in Ways(n) : y.sets = [x.sets EXCEPT ![i] = U] /\ InPlace(S, U, w, 0)
    BY InvalidateDoes
  <1>2. S \in Ways(n) /\ n \in Nat \ {0} /\ Ordered(S, st)
    BY SetsHaveWays DEF AllOrdered
  <1>3. y.sets[i] = U /\ \A j \in Sets : j # i => y.sets[j] = x.sets[j]
    BY <1>1 DEF Shape
  <1> HIDE DEF n, S
  <1>4. PICK f : From(S, U, n, w, 0, w, f)
    BY <1>1, <1>2, InPlaceFrom DEF n
  <1>5. Restamped(st, st, 0, m, 0)
    BY DEF Restamped
  <1>6. Ordered(U, st)
    BY <1>1, <1>2, <1>4, <1>5, OrderedKept DEF n
  <1>7. QED  BY <1>3, <1>6 DEF AllOrdered

\* The order holds of a new array, which has no lines ...
LEMMA InitLru == Init => LruInv
  <1> SUFFICES ASSUME Init PROVE LruInv
    OBVIOUS
  <1>1. PICK p \in Policies, j \in Junk : c = create(p, j)
    BY DEF Init
  <1>2. \A i \in Sets : \A w \in DOMAIN c.sets[i] : c.sets[i][w].tag = 0
    BY <1>1, CreateSound
  <1>3. AllOrdered(c, stamp)
    BY <1>2 DEF AllOrdered, Ordered
  <1>4. steps \in Nat /\ stamp \in [Tags -> 0..steps]
    BY DEF Init
  <1>5. QED  BY <1>3, <1>4 DEF LruInv

\* Stamps stay below the count of steps.
LEMMA StampsGrow ==
  ASSUME steps \in Nat, stamp \in [Tags -> 0..steps], NEW tag
  PROVE  /\ steps + 1 \in Nat /\ stamp \in [Tags -> 0..(steps + 1)]
         /\ [stamp EXCEPT ![tag] = steps + 1] \in [Tags -> 0..(steps + 1)]
         /\ [stamp EXCEPT ![tag] = 0] \in [Tags -> 0..(steps + 1)]
  <1>1. \A t \in Tags : stamp[t] \in 0..(steps + 1)
    BY SMT
  <1>2. DOMAIN stamp = Tags /\ steps + 1 \in 0..(steps + 1) /\ 0 \in 0..(steps + 1) /\ steps + 1 \in Nat
    OBVIOUS
  <1> DEFINE B == 0..(steps + 1)
  <1> HIDE DEF B
  <1>3. stamp \in [Tags -> B]
    BY <1>1, <1>2 DEF B
  <1>4. QED  BY <1>2, <1>3 DEF B

\* ... and every operation keeps it.
LEMMA NextLru ==
  ASSUME ArrayInv, LruInv, [Next]_vars
  PROVE  LruInv'
  <1>1. steps \in Nat /\ stamp \in [Tags -> 0..steps] /\ Sound(c)
    BY DEF LruInv, ArrayInv
  <1>2. c'.policy = c.policy
    BY NextArray
  <1>3. c.policy = "lru" => AllOrdered(c, stamp)
    BY DEF LruInv
  <1>4. ASSUME NEW a \in Addrs, NEW pc \in PCs, ReadLine(a, pc)
        PROVE  LruInv'
    <2>1. steps' = steps + 1 /\ c' = findLine(c, a, a, pc)
      BY <1>4 DEF ReadLine, Step
    <2>2. stamp' = IF present(a) /\ c.policy = "lru" THEN [stamp EXCEPT ![calcTag(a)] = steps + 1]
                   ELSE stamp
      BY <1>4 DEF ReadLine, usedNow
    <2>3. steps' \in Nat /\ stamp' \in [Tags -> 0..steps']
      BY <1>1, <2>1, <2>2, StampsGrow
    <2>4. c.policy = "lru" => AllOrdered(c', stamp')
      <3> SUFFICES ASSUME c.policy = "lru" PROVE AllOrdered(c', stamp')
        OBVIOUS
      <3>1. /\ lineAt(c, a, a).way # 0 => AllOrdered(c', [stamp EXCEPT ![calcTag(a)] = steps + 1])
            /\ lineAt(c, a, a).way = 0 => AllOrdered(c', stamp)
        BY <1>1, <1>3, <2>1, LruFind
      <3>2. QED  BY <2>2, <3>1 DEF present
    <2>5. QED  BY <1>2, <2>3, <2>4 DEF LruInv, AllOrdered
  <1>5. ASSUME NEW a \in Addrs, NEW pc \in PCs, NEW prefetch \in BOOLEAN,
               AllocateLine(a, pc, prefetch)
        PROVE  LruInv'
    <2>1. steps' = steps + 1 /\ ~present(a) /\ c' = fillLine(c, a, a, pc, prefetch).c
      BY <1>5 DEF AllocateLine, Step
    <2>2. stamp' = IF prefetch THEN [stamp EXCEPT ![calcTag(a)] = 0]
                   ELSE IF c.policy = "lru" THEN [stamp EXCEPT ![calcTag(a)] = steps + 1]
                   ELSE stamp
      BY <1>5 DEF AllocateLine, usedNow
    <2>3. steps' \in Nat /\ stamp' \in [Tags -> 0..steps']
      BY <1>1, <2>1, <2>2, StampsGrow
    <2>4. c.policy = "lru" => AllOrdered(c', stamp')
      <3> SUFFICES ASSUME c.policy = "lru" PROVE AllOrdered(c', stamp')
        OBVIOUS
      <3>1. /\ ~prefetch => AllOrdered(c', [stamp EXCEPT ![calcTag(a)] = steps + 1])
            /\ prefetch /\ lineAt(c, a, a).way = 0 => AllOrdered(c', [stamp EXCEPT ![calcTag(a)] = 0])
        BY <1>1, <1>3, <2>1, LruFill
      <3>2. QED  BY <2>1, <2>2, <3>1 DEF present
    <2>5. QED  BY <1>2, <2>3, <2>4 DEF LruInv, AllOrdered
  <1>6. ASSUME NEW a \in Addrs, NEW pc \in PCs, FillLine(a, pc)
        PROVE  LruInv'
    <2>1. steps' = steps + 1
      BY <1>6 DEF FillLine, Step
    <2>2. PICK prefetch \in BOOLEAN : prefetch = FALSE
      OBVIOUS
    <2>3. c' = fillLine(c, a, a, pc, prefetch).c
      BY <1>6, <2>2 DEF FillLine
    <2>4. stamp' = IF c.policy = "lru" THEN [stamp EXCEPT ![calcTag(a)] = steps + 1] ELSE stamp
      BY <1>6 DEF FillLine, usedNow
    <2>5. steps' \in Nat /\ stamp' \in [Tags -> 0..steps']
      BY <1>1, <2>1, <2>4, StampsGrow
    <2>6. c.policy = "lru" => AllOrdered(c', stamp')
      <3> SUFFICES ASSUME c.policy = "lru" PROVE AllOrdered(c', stamp')
        OBVIOUS
      <3>1. ~prefetch => AllOrdered(c', [stamp EXCEPT ![calcTag(a)] = steps + 1])
        BY <1>1, <1>3, <2>3, LruFill
      <3>2. QED  BY <2>2, <2>4, <3>1
    <2>7. QED  BY <1>2, <2>5, <2>6 DEF LruInv, AllOrdered
  <1>7. ASSUME NEW a \in Addrs, Invalidate(a)
        PROVE  LruInv'
    <2>1. /\ steps' = steps + 1 /\ stamp' = stamp /\ lineAt(c, a, a).way # 0
          /\ c' = invalidate(c, lineAt(c, a, a))
      BY <1>7 DEF Invalidate, Step, present
    <2>2. steps' \in Nat /\ stamp' \in [Tags -> 0..steps']
      BY <1>1, <2>1, StampsGrow
    <2>3. c.policy = "lru" => AllOrdered(c', stamp')
      <3> SUFFICES ASSUME c.policy = "lru" PROVE AllOrdered(c', stamp')
        OBVIOUS
      <3>1. PICK l : l = lineAt(c, a, a)
        OBVIOUS
      <3>2. l = [set |-> l.set, way |-> l.way] /\ l.set \in Sets /\ l.way \in 1..assoc(c.policy)
        BY <1>1, <2>1, <3>1, FoundWhere DEF Sound
      <3>3. PICK i \in Sets, w \in 1..assoc(c.policy) : l = [set |-> i, way |-> w]
        BY <3>2
      <3>4. AllOrdered(c', stamp)
        BY <1>1, <1>3, <2>1, <3>1, <3>3, LruInvalidate DEF Sound
      <3>5. QED  BY <2>1, <3>4
    <2>4. QED  BY <1>2, <2>2, <2>3 DEF LruInv, AllOrdered
  <1>8. CASE UNCHANGED vars
    BY <1>8 DEF vars, LruInv, AllOrdered
  <1>9. QED
    BY <1>4, <1>5, <1>6, <1>7, <1>8 DEF Next

\* The order by stamps is the order of last use.
LEMMA OrderedIsRecency == ArrayInv /\ LruInv => LruRecency
  <1> SUFFICES ASSUME ArrayInv, LruInv, c.policy = "lru", NEW i \in Sets,
                      NEW v \in 1..Geometry.assoc, NEW w \in 1..Geometry.assoc, v < w,
                      {<<i, v>>, <<i, w>>} \subseteq Valid
               PROVE  stamp[c.sets[i][v].tag] > stamp[c.sets[i][w].tag]
    BY DEF LruRecency
  <1>1. <<i, v>> \in Valid /\ <<i, w>> \in Valid
    OBVIOUS
  <1>2. c.sets[i][v].tag # 0 /\ c.sets[i][w].tag # 0 /\ v <= Len(c.sets[i]) /\ w <= Len(c.sets[i])
    BY <1>1 DEF Valid
  <1>3. DOMAIN c.sets[i] = 1..Len(c.sets[i]) /\ Len(c.sets[i]) \in Nat /\ Geometry.assoc \in Nat
    BY SetsHaveWays, CacheArrayAssumption DEF ArrayInv, Sound
  <1>4. v \in DOMAIN c.sets[i] /\ w \in DOMAIN c.sets[i]
    BY <1>2, <1>3
  <1>5. QED  BY <1>2, <1>4 DEF LruInv, AllOrdered, Ordered

(* With lru every set of the array is in order of last use, so the line    *)
(* that is replaced is the one unused for longest, for every associativity *)
(* and every order of lookups, fills, prefetches and invalidations.        *)
THEOREM Recency == Spec => []LruRecency
  <1>1. Init => ArrayInv /\ LruInv
    BY InitArray, InitLru
  <1>2. ArrayInv /\ LruInv /\ [Next]_vars => ArrayInv' /\ LruInv'
    BY NextArray, NextLru
  <1>3. ArrayInv /\ LruInv => LruRecency
    BY OrderedIsRecency
  <1>4. QED  BY <1>1, <1>2, <1>3, PTL DEF Spec
=============================================================================
