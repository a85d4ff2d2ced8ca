----------------------------- MODULE CacheArray -----------------------------
(***************************************************************************)
(* A tag array in use, as the caches (mem/ccache.cpp) and the branch       *)
(* target buffers (simu/BPred.cpp) use it: lookups, allocations of absent  *)
(* lines on demand or by prefetch, fills of lines that may be present, and *)
(* invalidations, in any order.                                            *)
(*                                                                         *)
(* c      the array                                                        *)
(* stamp  tag -> when the line was last used on demand, 0 for a line that  *)
(*        a prefetch brought in (ghost, kept for lru)                      *)
(* steps  operations so far                                                *)
(***************************************************************************)
EXTENDS CacheCore

CONSTANTS Policies, Addrs, PCs, Junk, MaxSteps

\* An array has at least one way, and every index is one of its sets.  The
\* addresses are byte addresses: CCache::allocateLine and the lookups of
\* doReq pass mreq->getAddr() as it is.
ASSUME CacheArrayAssumption ==
  /\ Policies \subseteq {"lru", "lrup", "random", "par", "uar", "hawkeye", "dm", "skew"}
  /\ Geometry.assoc \in Nat \ {0} /\ 2^Geometry.log2AddrLs \in Nat \ {0}
  /\ Addrs \subseteq Nat /\ PCs \subseteq Nat /\ Junk \subseteq Nat
  /\ \A a \in Addrs : /\ calcIndex4Tag(calcTag(a)) \in Sets
                      /\ \A k \in 1..3 : skewIndexes(a)[k] \in Sets

VARIABLES c, stamp, steps

vars == <<c, stamp, steps>>

Tags == {calcTag(a) : a \in Addrs}

Init == /\ c \in {create(p, j) : p \in Policies, j \in Junk}
        /\ stamp = [t \in Tags |-> 0]
        /\ steps = 0

present(a) == lineAt(c, a, a).way # 0

Step == /\ steps < MaxSteps
        /\ steps' = steps + 1

usedNow(a) == stamp' = IF c.policy = "lru" THEN [stamp EXCEPT ![calcTag(a)] = steps + 1]
                       ELSE stamp

\* readLine, writeLine and findLine: the line, moved to the front, or nothing.
ReadLine(a, pc) ==
  /\ Step
  /\ c' = findLine(c, a, a, pc)
  /\ IF present(a) THEN usedNow(a) ELSE UNCHANGED stamp

\* CCache::allocateLine, after a miss; a prefetch leaves the line unused.
AllocateLine(a, pc, prefetch) ==
  /\ Step
  /\ ~present(a)
  /\ c' = fillLine(c, a, a, pc, prefetch).c
  /\ IF prefetch THEN stamp' = [stamp EXCEPT ![calcTag(a)] = 0] ELSE usedNow(a)

\* BPBTB::predict and updateOnly fill without looking first.
FillLine(a, pc) ==
  /\ Step
  /\ present(a)
  /\ c' = fillLine(c, a, a, pc, FALSE).c
  /\ usedNow(a)

\* A coherence invalidation.
Invalidate(a) ==
  /\ Step
  /\ present(a)
  /\ c' = invalidate(c, lineAt(c, a, a))
  /\ UNCHANGED stamp

Next == \E a \in Addrs :
          \/ \E pc \in PCs : \/ ReadLine(a, pc)
                             \/ FillLine(a, pc)
                             \/ \E prefetch \in BOOLEAN : AllocateLine(a, pc, prefetch)
          \/ Invalidate(a)

Spec == Init /\ [][Next]_vars

-----------------------------------------------------------------------------
Valid == {sw \in Sets \X (1..Geometry.assoc) :
            sw[2] <= Len(c.sets[sw[1]]) /\ c.sets[sw[1]][sw[2]].tag # 0}

\* The addresses of a line, and whether they all look in the same places: in
\* the skewed array the second and the third place depend on the byte within
\* the line (cachecore.hpp:1571-1590).
addrsOf(tag) == {a \in Addrs : calcTag(a) = tag}

alike(policy, tag) ==
  policy = "skew" => \A a, b \in addrsOf(tag) : skewIndexes(a) = skewIndexes(b)

(* Every valid line can be found.  When its addresses look in the same     *)
(* places, as they do in every array but the skewed one, looking any of    *)
(* them up returns that line, so it is in a set it indexes and no other    *)
(* line has its tag.  Otherwise the address that brought it in still finds *)
(* a copy of it; the others may miss, and bring in a second one.           *)
(* Replacement chooses a place without looking everywhere the lookup does, *)
(* and moves lines around (cachecore.hpp:1610).                            *)
LinesFindable ==
  \A sw \in Valid :
    LET tag == c.sets[sw[1]][sw[2]].tag IN
    /\ \E a \in addrsOf(tag) : lineAt(c, a, a).way # 0
    /\ alike(c.policy, tag) =>
         \A a \in addrsOf(tag) : lineAt(c, a, a) = [set |-> sw[1], way |-> sw[2]]

(* A line is in the array once.  The skewed array breaks this              *)
(* (cachecore.hpp:1610) when two addresses of a line look in different     *)
(* places: CacheArray_skew.cfg shows it.                                   *)
OneCopy ==
  \A sw, tw \in Valid :
    c.sets[sw[1]][sw[2]].tag = c.sets[tw[1]][tw[2]].tag => sw = tw

(* With lru a set is in order of last use, so that the last position,      *)
(* which findLine2Replace takes ("Get the oldest line possible"), holds    *)
(* the line unused for longest; one that was prefetched and never used     *)
(* comes after all the others.                                             *)
LruRecency ==
  c.policy = "lru" =>
    \A i \in Sets : \A v, w \in 1..Geometry.assoc :
      v < w /\ {<<i, v>>, <<i, w>>} \subseteq Valid =>
        stamp[c.sets[i][v].tag] > stamp[c.sets[i][w].tag]
=============================================================================
