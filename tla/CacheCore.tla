----------------------------- MODULE CacheCore ------------------------------
(***************************************************************************)
(* The tag arrays of core/cachecore.hpp, used by every cache of the memory *)
(* system and by the branch target buffers: set-associative (lru, lrup,    *)
(* random, par, uar), Hawkeye, direct-mapped and skewed.  The module is a  *)
(* data type: operators from a cache c to a cache, one per method.         *)
(*                                                                         *)
(* c.policy   the replacement policy, or "dm" or "skew"                    *)
(* c.sets     set number -> its lines, theSet[0] first                     *)
(* c.irand    position random replaces next; for skew, rand_number         *)
(* c.tracker  pc -> [trend, conf], the entries made so far (uar)           *)
(* c.hawk     the Hawkeye tables                                           *)
(*                                                                         *)
(* A tag of 0 marks an invalid line.  SHIP is left out: it cannot run with *)
(* the line state (StateGeneric) that both users of the arrays have.       *)
(***************************************************************************)
EXTENDS Integers, Sequences, FiniteSets

CONSTANT Geometry   \* assoc, log2Sets, log2AddrLs, xorIndex, confMax, confHigh, hawkSize

LOCAL Shr(x, n) == x \div 2^n
LOCAL Low(x, n) == x % 2^n
\* The exclusive or of two numbers, bit by bit.
LOCAL bitXor[x \in Nat, y \in Nat] ==
  IF x = 0 THEN y ELSE ((x + y) % 2) + 2 * bitXor[x \div 2, y \div 2]
LowestOf(S) == CHOOSE x \in S : \A y \in S : x <= y
HighestOf(S) == CHOOSE x \in S : \A y \in S : x >= y

RRIP_MAX == 15
Sets == 0..(2^Geometry.log2Sets - 1)
assoc(policy) == IF policy \in {"dm", "skew"} THEN 1 ELSE Geometry.assoc
numLines(policy) == assoc(policy) * Cardinality(Sets)

calcTag(addr) == addr \div 2^Geometry.log2AddrLs

\* The set a tag indexes; xorIndex mixes higher bits in.
calcIndex4Tag(tag) ==
  Low(IF Geometry.xorIndex THEN bitXor[bitXor[tag, Shr(tag, 5)], Shr(tag, Geometry.log2Sets)] ELSE tag,
      Geometry.log2Sets)

\* The constructor's zero_line, invalidated.  Only the associative cache sets rrip
\* and none sets recent: junk is what the stack held.
zero_line(policy, junk) ==
  [tag |-> 0, prefetch |-> FALSE, pc |-> 0, nDemand |-> 0, data |-> 0,
   rrip |-> IF policy = "hawkeye" THEN junk ELSE 0,
   recent |-> policy = "skew" /\ junk # 0]

hawkTables ==
  LET H == 0..(Geometry.hawkSize - 1)
  IN [prediction |-> [i \in H |-> 0], usageInterval |-> [i \in 0..(numLines("hawkeye") - 1) |-> 0],
      occupancy |-> [i \in H |-> 0], it |-> 0, tracked |-> [i \in H |-> 0], ptr |-> 0]

create(policy, junk) ==
  [policy |-> policy, irand |-> 0, tracker |-> << >>,
   hawk |-> IF policy = "hawkeye" THEN hawkTables ELSE << >>,
   sets |-> [i \in Sets |-> [w \in 1..assoc(policy) |-> zero_line(policy, junk)]]]

-----------------------------------------------------------------------------
(* CacheAssoc.                                                             *)

wayOf(set, tag) ==
  LET W == {w \in DOMAIN set : set[w].tag = tag} IN IF W = {} THEN 0 ELSE LowestOf(W)

toFront(set, w) == <<set[w]>> \o SubSeq(set, 1, w - 1) \o SubSeq(set, w + 1, Len(set))

trackerOf(c, pc) == IF pc \in DOMAIN c.tracker THEN c.tracker[pc] ELSE [trend |-> -1, conf |-> 0]

\* Tracker::done: nDemand accesses before the line left.
done(t, nDemand) ==
  CASE t.trend < 0 -> [t EXCEPT !.trend = nDemand]
    [] t.trend >= 0 /\ t.trend = nDemand ->
         [t EXCEPT !.conf = IF @ < Geometry.confMax THEN @ + 1 ELSE @]
    [] OTHER ->
         LET mean == (nDemand + t.trend) \div 2
         IN [trend |-> IF nDemand > mean THEN mean + 1 ELSE mean,
             conf  |-> IF t.conf > 0 /\ t.trend \div 2 # nDemand \div 2 THEN t.conf - 1 ELSE t.conf]

\* The loops that would age the other lines compare with the value that has just
\* been overwritten, so only the line itself changes.
adjustRRIP(set, w, next_rrip) == [set EXCEPT ![w].rrip = next_rrip]

\* A hit, the line already in front: uar expects no more uses past the trend.
used(c, set) ==
  LET t == trackerOf(c, set[1].pc)
      n == set[1].nDemand + 1
  IN IF c.policy = "uar"
     THEN adjustRRIP([set EXCEPT ![1].nDemand = n], 1,
                     IF t.conf > Geometry.confHigh /\ 1 + t.trend < n
                     THEN RRIP_MAX \div 2 ELSE RRIP_MAX)
     ELSE adjustRRIP(set, 1, RRIP_MAX)

\* Mutant: a hit does not move the line to the front of its set.
AssocFindAt_NoMove(c, i, w) ==
  IF w = 0 \/ c.policy \notin {"par", "uar"} THEN c
  ELSE [c EXCEPT !.sets[i] = used(c, toFront(@, w))]

AssocFindAt(c, i, w) ==
  IF w = 0 \/ (w = 1 /\ c.policy \notin {"par", "uar"}) THEN c
  ELSE [c EXCEPT !.sets[i] = used(c, toFront(@, w))]

AssocFind(c, i, tag) == AssocFindAt(c, i, wayOf(c.sets[i], tag))

\* The line found in the scan is overruled: random takes the next position, the
\* other policies the last one, valid or not.
victim(c, i) == IF c.policy = "random" THEN c.irand + 1 ELSE Len(c.sets[i])

nextRand(c) ==
  IF c.policy # "random" THEN c
  ELSE [c EXCEPT !.irand = LET n == (@ + 1) % Geometry.assoc
                           IN IF n = 0 THEN (n + 1) % Geometry.assoc ELSE n]

\* uar learns from the line that leaves, whatever it is replaced by.
trained(c, l) ==
  IF c.policy = "uar" /\ l.tag # 0
  THEN [c EXCEPT !.tracker = [p \in DOMAIN @ \cup {l.pc} |->
                                IF p = l.pc THEN done(trackerOf(c, p), l.nDemand) ELSE @[p]]]
  ELSE c

rripPrefetch(c, t) ==
  IF c.policy = "uar" /\ t.conf > 0 /\ t.trend > 0 THEN RRIP_MAX \div 2 ELSE 0

rripDemand(c, t) ==
  CASE c.policy = "uar" /\ t.conf > Geometry.confHigh /\ t.trend = 0 -> 0
    [] c.policy = "uar" /\ t.conf > Geometry.confHigh /\ t.trend = 1 -> RRIP_MAX \div 2
    [] OTHER -> RRIP_MAX

\* Way w of set i takes the line: a prefetch and lrup leave it where it is.
placed(c, i, w, pc, prefetch) ==
  LET set == [c.sets[i] EXCEPT ![w].pc = pc]
      t   == trackerOf(c, pc)
      rrip == c.policy \in {"par", "uar"}
  IN CASE prefetch /\ rrip ->
            [c |-> [c EXCEPT !.sets[i] = adjustRRIP(set, w, rripPrefetch(c, t))], way |-> w]
       [] (prefetch /\ ~rrip) \/ (~prefetch /\ c.policy = "lrup") ->
            [c |-> [c EXCEPT !.sets[i] = set], way |-> w]
       [] ~prefetch /\ rrip ->
            [c |-> [c EXCEPT !.sets[i] = toFront(adjustRRIP(set, w, rripDemand(c, t)), w)], way |-> 1]
       [] OTHER ->
            [c |-> [c EXCEPT !.sets[i] = toFront(set, w)], way |-> 1]

AssocReplaceAt(c, i, hit, pc, prefetch) ==
  LET v == IF hit > 0 THEN hit ELSE victim(c, i)
      c1 == IF hit > 0 THEN c ELSE nextRand(c)
  IN CASE hit = 1 ->
            [c |-> IF c.policy \in {"par", "uar"}
                   THEN [c EXCEPT !.sets[i] = adjustRRIP(@, 1, RRIP_MAX)] ELSE c,
             way |-> 1]
       [] hit # 1 /\ v = 1 /\ c.policy \notin {"par", "uar"} -> [c |-> c1, way |-> 1]
       [] OTHER -> placed(trained(c1, c.sets[i][v]), i, v, pc, prefetch)

AssocReplace(c, i, tag, pc, prefetch) ==
  AssocReplaceAt(c, i, wayOf(c.sets[i], tag), pc, prefetch)

-----------------------------------------------------------------------------
(* HawkCache.  The occupancy vector replays what an optimal cache would    *)
(* have kept; the PC's counter learns whether its lines are worth keeping. *)

\* numLines is a power of two.  Tracked addresses are tags, hashed as addresses.
getUsageIntervalHash(addr) ==
  LET a == Shr(addr, Geometry.log2AddrLs) IN bitXor[Shr(a, 5), a] % numLines("hawkeye")
getPredictionHash(pc) == LET p == Shr(pc, 2) IN bitXor[Shr(p, 17), p] % Geometry.hawkSize

\* Every access: the iterator moves, and the interval of each tracked address grows.
aged(h) ==
  LET n == h.it + 1
      wraps == n >= Geometry.hawkSize
      at(u) == {i \in DOMAIN h.tracked :
                  h.tracked[i] # 0 /\ getUsageIntervalHash(h.tracked[i]) = u}
      grown(u) == h.usageInterval[u] + Cardinality(at(u))
  IN [h EXCEPT !.it = IF wraps THEN 0 ELSE n,
               !.occupancy = IF wraps THEN [i \in DOMAIN @ |-> 0] ELSE @,
               !.usageInterval = [u \in DOMAIN @ |-> IF grown(u) > 255 THEN 255 ELSE grown(u)]]

\* The interval since the last use, in the occupancy vector.
liveness(h, u) == LET limit == h.it - h.usageInterval[u]
                  IN (IF limit < 0 THEN 0 ELSE limit)..(h.it - 1)

\* Seen before: OPT hits if no slot of the interval is full, and then takes one in each.
reused(h, u, tag) ==
  LET cur == {i \in DOMAIN h.tracked : h.tracked[i] = tag /\ tag # 0}
      slot == IF cur = {} THEN 0 ELSE HighestOf(cur)
      miss == \E i \in liveness(h, u) : h.occupancy[i] >= numLines("hawkeye")
  IN [hit |-> ~miss,
      h |-> IF miss THEN h
            ELSE [h EXCEPT !.occupancy = [i \in DOMAIN @ |->
                              IF i \in liveness(h, u) /\ @[i] < 255 THEN @[i] + 1 ELSE @[i]],
                           !.usageInterval[u] = 0, !.tracked[slot] = 0]]

firstUse(h, u, tag) ==
  LET free == {i \in DOMAIN h.tracked : h.tracked[i] \in {tag, 0}}
      slot == IF free = {} THEN h.ptr ELSE LowestOf(free)
  IN [hit |-> TRUE,
      h |-> [h EXCEPT !.usageInterval[u] = 1, !.tracked[slot] = tag,
                      !.ptr = IF free = {} THEN (@ + 1) % Geometry.hawkSize ELSE @]]

OPTgen(h, u, tag) == IF h.usageInterval[u] > 0 THEN reused(h, u, tag) ELSE firstUse(h, u, tag)

learned(o, p) ==
  [o.h EXCEPT !.prediction[p] = IF o.hit THEN (IF @ < 7 THEN @ + 1 ELSE @)
                                ELSE (IF @ > 0 THEN @ - 1 ELSE @)]

friendly(h, p) == h.prediction[p] >= 4

\* The lines after the first: a friendly miss ages them, a hit sets the line's rrip.
hawkLines(h, p, set, w) ==
  CASE w > 1 -> [set EXCEPT ![w].rrip = IF friendly(h, p) THEN 0 ELSE 7]
    [] w = 0 /\ friendly(h, p) ->
         [v \in DOMAIN set |-> IF v > 1 /\ set[v].tag # 0 /\ set[v].rrip < 6
                               THEN [set[v] EXCEPT !.rrip = @ + 1] ELSE set[v]]
    [] OTHER -> set

hawkLearn(c, h, p, i, w) == [c EXCEPT !.hawk = h, !.sets[i] = hawkLines(h, p, @, w)]

\* A hit in the first position trains nothing.
HawkFind(c, i, addr, tag, pc) ==
  IF wayOf(c.sets[i], tag) = 1 THEN c
  ELSE hawkLearn(c, learned(OPTgen(aged(c.hawk), getUsageIntervalHash(addr), tag),
                            getPredictionHash(pc)),
                 getPredictionHash(pc), i, wayOf(c.sets[i], tag))

\* The last line with rrip 7; without one, the last line, and the PC is detrained.
HawkVictim(set) ==
  LET n == Len(set)
      invalid == {w \in 1..n : set[w].tag = 0}
      averse == {w \in 1..n : set[w].tag # 0 /\ set[w].rrip = 7}
      free == IF invalid = {} THEN n ELSE LowestOf(invalid)
      v == IF averse = {} THEN free ELSE HighestOf(averse)
      lru == v = free /\ set[v].rrip # 7
  IN [way |-> IF lru THEN n ELSE v, detrain |-> lru]

HawkReplaceAt(c, i, v, pc, prefetch) ==
  [way |-> v.way,
   c |-> [c EXCEPT !.sets[i][v.way].prefetch = prefetch,
                   !.hawk.prediction[getPredictionHash(pc)] =
                      IF v.detrain /\ @ > 0 THEN @ - 1 ELSE @]]

HawkReplace(c, i, tag, pc, prefetch) ==
  IF wayOf(c.sets[i], tag) # 0 THEN [c |-> c, way |-> wayOf(c.sets[i], tag)]
  ELSE HawkReplaceAt(c, i, HawkVictim(c.sets[i]), pc, prefetch)

-----------------------------------------------------------------------------
(* CacheDMSkew: three direct-mapped positions per address.                 *)

skewHash(addr) == bitXor[Shr(addr, 5), Shr(addr, 11)]
skewIndexes(addr) ==
  <<calcIndex4Tag(calcTag(addr)),
    calcIndex4Tag(calcTag(skewHash(addr))),
    calcIndex4Tag(calcTag(skewHash(addr) + Low(addr, 8)))>>

skewHit(c, idx, tag) ==
  LET W == {k \in 1..3 : c.sets[idx[k]][1].tag = tag} IN IF W = {} THEN 0 ELSE LowestOf(W)

recently(c, i, b) == [c EXCEPT !.sets[i][1].recent = b]

SkewFindAt(c, idx, k) ==
  IF k # 0 THEN recently(c, idx[k], TRUE)
  ELSE recently(recently(recently(c, idx[3], FALSE), idx[2], FALSE), idx[1], FALSE)

SkewFind(c, addr, tag) == SkewFindAt(c, skewIndexes(addr), skewHit(c, skewIndexes(addr), tag))

\* rand_number 0 tries the first position and then the third; 1 and 2 their own.
skewPick(c, idx, rand) ==
  CASE rand = 1 -> 2
    [] rand = 2 -> 3
    [] OTHER -> IF ~c.sets[idx[1]][1].recent THEN 1
                ELSE IF idx[3] # idx[1] /\ c.sets[idx[3]][1].recent THEN 1 ELSE 3

\* The chosen line becomes the recent one, unless a later assignment of another
\* position that is the same line clears it.
skewChosen(c, idx, k) ==
  recently(recently(recently(c, idx[1], k = 1), idx[2], k = 2), idx[3], k = 3)

SkewReplaceAt(c, idx, k, rand, prefetch) ==
  LET p == skewPick(c, idx, rand)
      c1 == skewChosen(c, idx, p)
  IN CASE k \in {1, 2} -> [c |-> c, set |-> idx[k]]
       [] k = 3 -> [c |-> [c EXCEPT !.irand = IF @ > 2 THEN @ ELSE @ + 1], set |-> idx[3]]
       [] OTHER -> [c |-> [c1 EXCEPT !.irand = rand, !.sets[idx[p]][1].prefetch = prefetch],
                    set |-> idx[p]]

\* Mutant: the replacement looks for the line in the first two positions only.
SkewReplace_TwoWay(c, addr, tag, prefetch) ==
  LET k == skewHit(c, skewIndexes(addr), tag)
  IN SkewReplaceAt(c, skewIndexes(addr), IF k = 3 THEN 0 ELSE k,
                   IF c.irand + 1 > 2 THEN 0 ELSE c.irand + 1, prefetch)

SkewReplace(c, addr, tag, prefetch) ==
  SkewReplaceAt(c, skewIndexes(addr), skewHit(c, skewIndexes(addr), tag),
                IF c.irand + 1 > 2 THEN 0 ELSE c.irand + 1, prefetch)

-----------------------------------------------------------------------------
(* CacheGeneric.  addr gives the index and tag_addr the tag: one and the   *)
(* same for a cache, two keys for a branch target buffer.                  *)

findLine(c, addr, tag_addr, pc) ==
  LET i == calcIndex4Tag(calcTag(addr)) IN
  CASE c.policy = "hawkeye" -> HawkFind(c, i, addr, calcTag(tag_addr), pc)
    [] c.policy = "skew"    -> SkewFind(c, addr, calcTag(tag_addr))
    [] c.policy = "dm"      -> c
    [] OTHER                -> AssocFind(c, i, calcTag(tag_addr))

\* Where the line is, and 0 for the way when it is not there.
lineAt(c, addr, tag_addr) ==
  LET i == calcIndex4Tag(calcTag(addr))
      idx == skewIndexes(addr)
      k == skewHit(c, idx, calcTag(tag_addr))
  IN IF c.policy = "skew" THEN [set |-> IF k = 0 THEN i ELSE idx[k], way |-> IF k = 0 THEN 0 ELSE 1]
     ELSE [set |-> i, way |-> wayOf(c.sets[i], calcTag(tag_addr))]

findLine2Replace(c, addr, tag, pc, prefetch) ==
  LET i == calcIndex4Tag(calcTag(addr))
      at(r) == [c |-> r.c, set |-> i, way |-> r.way]
      skew(r) == [c |-> r.c, set |-> r.set, way |-> 1]
  IN CASE c.policy = "hawkeye" -> at(HawkReplace(c, i, tag, pc, prefetch))
       [] c.policy = "skew"    -> skew(SkewReplace(c, addr, tag, prefetch))
       [] c.policy = "dm"      -> [c |-> [c EXCEPT !.sets[i][1].prefetch = prefetch],
                                   set |-> i, way |-> 1]
       [] OTHER                -> at(AssocReplace(c, i, tag, pc, prefetch))

\* setTag also forgets the demand count; nothing else of the old line is cleared.
setTag(r, tag) ==
  [r EXCEPT !.c.sets[r.set][r.way].tag = tag, !.c.sets[r.set][r.way].nDemand = 0]

fillLine(c, addr, tag_addr, pc, prefetch) ==
  setTag(findLine2Replace(c, addr, calcTag(tag_addr), pc, prefetch), calcTag(tag_addr))

invalidate(c, at) ==
  [c EXCEPT !.sets[at.set][at.way] = [@ EXCEPT !.tag = 0, !.nDemand = 0, !.pc = 0,
                                               !.prefetch = FALSE]]
=============================================================================
