------------------------ MODULE EventSchedulerProofs ------------------------
(***************************************************************************)
(* Proofs about EventScheduler, for every set of callbacks, every queue    *)
(* size TQueue accepts, every set of delays and every number of ports.     *)
(***************************************************************************)
EXTENDS EventScheduler, FiniteSetTheorems, WellFoundedInduction, TLAPS

----------------------------------------------------------------------------
(* The inductive invariant *)

\* nextJob never falls more than one clock behind, and only until it has
\* looked at the new clock.
ClockFollowed ==
  /\ minTime <= globalClock /\ globalClock <= minTime + 1
  /\ pc # "jobs" => minTime = globalClock

\* A callback is in the bucket of its time, and the buckets reach as far as
\* AccessSize clocks.
InItsBucket ==
  \A p \in 0..AccessSize-1 : \A j \in access[p] :
    /\ minTime <= time[j] /\ time[j] < minTime + AccessSize
    /\ p = Bucket(time[j])

\* nNodes counts the callbacks in the buckets.
NodesCounted == nNodes = Cardinality(InBuckets)

\* The heap holds nothing that is in a bucket, and minTooFar is a time that is
\* still to come and no later than any of the heap's.
HeapAhead ==
  /\ tooFar \cap InBuckets = {}
  /\ minTime < minTooFar
  /\ \A j \in tooFar : minTooFar <= time[j]

\* No callback is late; outside the calls of nextJob none is due.
NothingLate ==
  \A j \in Pending :
    /\ globalClock <= time[j] /\ 0 < time[j]
    /\ pc \in {"core", "drain", "grant"} => globalClock < time[j]

QueueInv == ClockFollowed /\ InItsBucket /\ NodesCounted /\ HeapAhead /\ NothingLate

\* A limited port's own count is right when it is of the current clock, and
\* when it is of an earlier one the port has granted nothing yet.
PortsCounted ==
  \A p \in Ports : nUnits[p] # 0 =>
    /\ granted_cycle[p] <= globalClock
    /\ granted_cycle[p] = globalClock => grants[p] = granted_this_cycle[p]
    /\ granted_cycle[p] # globalClock => grants[p] = 0
    /\ grants[p] <= nUnits[p]

----------------------------------------------------------------------------
(* Operators *)

\* Min finds the least member of a set of numbers.
LEMMA MinOfNats ==
  ASSUME NEW S \in SUBSET Nat, S # {}
  PROVE  Min(S) \in S /\ \A y \in S : Min(S) <= y
  <1> DEFINE Less == {m \in Nat \X Nat : m[1] < m[2]}
  <1>1. IsWellFoundedOn(Less, Nat)
    BY NatLessThanWellFounded DEF OpToRel
  <1> HIDE DEF Less
  <1>2. PICK x \in S : \A y \in S : ~(<<y, x>> \in Less)
    BY <1>1, WFMin
  <1>3. \A y \in S : y < x => <<y, x>> \in Less
    BY DEF Less
  <1>4. \A y \in S : x <= y
    <2> SUFFICES ASSUME NEW y \in S PROVE x <= y
      OBVIOUS
    <2>1. x \in Nat /\ y \in Nat /\ ~(y < x)
      BY <1>2, <1>3
    <2>2. QED  BY <2>1
  <1>5. QED  BY <1>4, Zenon DEF Min

\* Going round the ring: less than two turns need at most one subtraction.
LEMMA RingIndex ==
  ASSUME NEW x \in Nat, x < AccessSize + AccessSize
  PROVE  /\ x % AccessSize = IF x < AccessSize THEN x ELSE x - AccessSize
         /\ x % AccessSize \in 0..AccessSize-1
  <1>1. AccessSize \in Nat /\ AccessSize > 7
    BY EventSchedulerAssumption
  <1>2. x < AccessSize => x % AccessSize = x
    BY <1>1
  <1>3. x >= AccessSize => x % AccessSize = x - AccessSize
    BY <1>1
  <1>4. QED  BY <1>1, <1>2, <1>3

\* Within AccessSize clocks every time has a bucket of its own.
LEMMA BucketsApart ==
  ASSUME TypeOK, NEW t \in Nat, minTime <= t, t < minTime + AccessSize
  PROVE  /\ Bucket(t) = IF minPos + t - minTime < AccessSize
                        THEN minPos + t - minTime
                        ELSE minPos + t - minTime - AccessSize
         /\ Bucket(t) \in 0..AccessSize-1
  <1>1. AccessSize \in Nat /\ minPos \in 0..AccessSize-1 /\ minTime \in Nat
    BY EventSchedulerAssumption DEF TypeOK
  <1> DEFINE x == minPos + t - minTime
  <1>2. x \in Nat /\ x < AccessSize + AccessSize
    BY <1>1
  <1>3. Bucket(t) = x % AccessSize
    BY DEF Bucket
  <1> HIDE DEF x
  <1>4. /\ Bucket(t) = IF x < AccessSize THEN x ELSE x - AccessSize
        /\ Bucket(t) \in 0..AccessSize-1
    BY <1>1, <1>2, <1>3, RingIndex
  <1>5. QED  BY <1>1, <1>4 DEF x

\* When nextJob passes a bucket, the times that are still in reach keep theirs.
LEMMA BucketsKept ==
  ASSUME TypeOK, NEW d \in {0, 1}, NEW t \in Nat,
         minTime + d <= t, t < minTime + AccessSize
  PROVE  /\ (minPos + d) % AccessSize \in 0..AccessSize-1
         /\ (((minPos + d) % AccessSize) + t - (minTime + d)) % AccessSize = Bucket(t)
         /\ Bucket(t) = (minPos + d) % AccessSize <=> t = minTime + d
  <1>1. AccessSize \in Nat /\ AccessSize > 7
        /\ minPos \in 0..AccessSize-1 /\ minTime \in Nat
    BY EventSchedulerAssumption DEF TypeOK
  <1>2. /\ (minPos + d) % AccessSize =
             IF minPos + d < AccessSize THEN minPos + d ELSE minPos + d - AccessSize
        /\ (minPos + d) % AccessSize \in 0..AccessSize-1
    <2> DEFINE x == minPos + d
    <2>1. x \in Nat /\ x < AccessSize + AccessSize
      BY <1>1
    <2> HIDE DEF x
    <2>2. /\ x % AccessSize = IF x < AccessSize THEN x ELSE x - AccessSize
          /\ x % AccessSize \in 0..AccessSize-1
      BY <1>1, <2>1, RingIndex
    <2>3. QED  BY <1>1, <2>2 DEF x
  <1> DEFINE q == (minPos + d) % AccessSize
  <1>3. (q + t - (minTime + d)) % AccessSize =
           IF q + t - (minTime + d) < AccessSize THEN q + t - (minTime + d)
           ELSE q + t - (minTime + d) - AccessSize
    <2> HIDE DEF q
    <2>0. q \in 0..AccessSize-1
      BY <1>2 DEF q
    <2> DEFINE x == q + t - (minTime + d)
    <2>1. x \in Nat /\ x < AccessSize + AccessSize
      BY <1>1, <2>0
    <2> HIDE DEF x
    <2>2. x % AccessSize = IF x < AccessSize THEN x ELSE x - AccessSize
      BY <1>1, <2>1, RingIndex
    <2>3. QED  BY <1>1, <2>0, <2>2 DEF x
  <1>4. /\ minTime <= t
        /\ Bucket(t) = IF minPos + t - minTime < AccessSize
                       THEN minPos + t - minTime
                       ELSE minPos + t - minTime - AccessSize
    BY <1>1, BucketsApart
  <1> HIDE DEF q
  <1>5. q = IF minPos + d < AccessSize THEN minPos + d ELSE minPos + d - AccessSize
    BY <1>2 DEF q
  <1>6. (q + t - (minTime + d)) % AccessSize = Bucket(t)
    BY <1>1, <1>3, <1>4, <1>5
  <1>7. Bucket(t) = q <=> t = minTime + d
    BY <1>1, <1>4, <1>5
  <1>8. QED  BY <1>2, <1>6, <1>7 DEF q

\* The callbacks in the buckets are a finite set.
LEMMA BucketsFinite ==
  TypeOK => InBuckets \in SUBSET Jobs /\ IsFiniteSet(InBuckets)
  <1> SUFFICES ASSUME TypeOK PROVE InBuckets \in SUBSET Jobs /\ IsFiniteSet(InBuckets)
    OBVIOUS
  <1>1. InBuckets \in SUBSET Jobs
    BY DEF TypeOK, InBuckets
  <1>2. IsFiniteSet(Jobs)
    BY EventSchedulerAssumption
  <1>3. QED  BY <1>1, <1>2, FS_Subset

----------------------------------------------------------------------------
(* The operations on the queue *)

\* addNode puts each callback into the bucket of its time and counts it.
LEMMA AddNodes ==
  ASSUME TypeOK, NodesCounted,
         NEW J \in SUBSET Jobs, J \cap InBuckets = {},
         NEW t \in [Jobs -> Nat],
         \A j \in J : minTime <= t[j] /\ t[j] < minTime + AccessSize,
         addNodes(J, t)
  PROVE  /\ access' \in [0..AccessSize-1 -> SUBSET Jobs]
         /\ InBuckets' = InBuckets \cup J
         /\ nNodes' \in Nat /\ NodesCounted'
         /\ \A p \in 0..AccessSize-1 : \A j \in access'[p] :
              j \in access[p] \/ (j \in J /\ p = Bucket(t[j]))
  <1>1. access' = [p \in 0..AccessSize-1 |->
                     access[p] \cup {j \in J : Bucket(t[j]) = p}]
        /\ nNodes' = nNodes + Cardinality(J)
    BY DEF addNodes
  <1>2. access \in [0..AccessSize-1 -> SUBSET Jobs] /\ nNodes \in Nat
    BY DEF TypeOK
  <1>3. access' \in [0..AccessSize-1 -> SUBSET Jobs]
    BY <1>1, <1>2
  <1>4. \A p \in 0..AccessSize-1 : \A j \in access'[p] :
              j \in access[p] \/ (j \in J /\ p = Bucket(t[j]))
    BY <1>1
  <1>5. InBuckets' = InBuckets \cup J
    <2>1. \A j \in J : Bucket(t[j]) \in 0..AccessSize-1
      BY BucketsApart
    <2>2. \A j \in J : \E p \in 0..AccessSize-1 : j \in access'[p]
      BY <1>1, <2>1
    <2>3. \A p \in 0..AccessSize-1 : access[p] \subseteq access'[p]
      BY <1>1
    <2>4. QED  BY <1>4, <2>2, <2>3 DEF InBuckets
  <1>6. IsFiniteSet(J) /\ IsFiniteSet(InBuckets) /\ Cardinality(J) \in Nat
    BY BucketsFinite, FS_Subset, FS_CardinalityType, EventSchedulerAssumption
  <1>7. Cardinality(InBuckets \cup J) = nNodes + Cardinality(J)
    <2>1. Cardinality(InBuckets \cup J) =
            Cardinality(InBuckets) + Cardinality(J) - Cardinality(InBuckets \cap J)
      BY <1>6, FS_Union
    <2>2. Cardinality(InBuckets \cap J) = 0
      <3>1. InBuckets \cap J = {}
        OBVIOUS
      <3>2. QED  BY <3>1, FS_EmptySet
    <2>3. nNodes = Cardinality(InBuckets)
      BY DEF NodesCounted
    <2>4. QED  BY <1>2, <1>6, <2>1, <2>2, <2>3
  <1>8. NodesCounted'
    BY <1>1, <1>5, <1>7 DEF NodesCounted
  <1>9. QED  BY <1>1, <1>2, <1>3, <1>4, <1>5, <1>6, <1>8

\* nextJob takes one callback, the first of its bucket, out of the buckets.
LEMMA TakeOne ==
  ASSUME TypeOK, NodesCounted, InItsBucket,
         NEW p \in 0..AccessSize-1, take(p)
  PROVE  \E j \in access[p] :
           /\ \A k \in access[p] : priority[j] <= priority[k]
           /\ j \in Jobs /\ time' = [time EXCEPT ![j] = 0]
           /\ access' \in [0..AccessSize-1 -> SUBSET Jobs]
           /\ \A q \in 0..AccessSize-1 : access'[q] = access[q] \ {j}
           /\ InBuckets' = InBuckets \ {j}
           /\ nNodes' \in Nat /\ NodesCounted'
           /\ pc' = "call"
  <1>1. PICK j \in access[p] :
           /\ \A k \in access[p] : priority[j] <= priority[k]
           /\ access' = [access EXCEPT ![p] = @ \ {j}]
           /\ time' = [time EXCEPT ![j] = 0]
    BY DEF take
  <1>2. access \in [0..AccessSize-1 -> SUBSET Jobs] /\ j \in Jobs
    BY <1>1 DEF TypeOK
  <1>3. \A q \in 0..AccessSize-1 : j \in access[q] => q = p
    BY <1>1 DEF InItsBucket
  <1>4. \A q \in 0..AccessSize-1 : access'[q] = access[q] \ {j}
    BY <1>1, <1>2, <1>3
  <1>5. InBuckets' = InBuckets \ {j} /\ j \in InBuckets
    BY <1>4 DEF InBuckets
  <1>6. nNodes' = nNodes - 1 /\ pc' = "call"
    BY DEF take
  <1>7. nNodes' \in Nat /\ NodesCounted'
    <2>1. IsFiniteSet(InBuckets)
      BY BucketsFinite
    <2>2. /\ Cardinality(InBuckets \ {j}) = Cardinality(InBuckets) - 1
          /\ Cardinality(InBuckets \ {j}) \in Nat
      BY <1>5, <2>1, FS_RemoveElement, FS_CardinalityType
    <2>3. QED  BY <1>5, <1>6, <2>2 DEF NodesCounted
  <1>8. access' \in [0..AccessSize-1 -> SUBSET Jobs]
    BY <1>1, <1>2
  <1>9. QED  BY <1>1, <1>2, <1>4, <1>5, <1>6, <1>7, <1>8

\* The bucket nextJob stops at is that of the current clock: no earlier one
\* holds a callback.
LEMMA PassedToClock ==
  ASSUME TypeOK, QueueInv, pc = "jobs", ~CommonCase
  PROVE  Passed = globalClock - minTime /\ globalClock - minTime \in {0, 1}
  <1> DEFINE d == globalClock - minTime
             hits == {k \in 0..d : access[(minPos + k) % AccessSize] # {}}
  <1>1. /\ minTime \in Nat /\ globalClock \in Nat /\ d \in {0, 1}
        /\ AccessSize \in Nat /\ AccessSize > 7 /\ minPos \in 0..AccessSize-1
    BY EventSchedulerAssumption DEF TypeOK, QueueInv, ClockFollowed
  <1>2. Passed = IF hits = {} THEN d ELSE Min(hits)
    BY DEF Passed
  <1>3. (minPos + 0) % AccessSize = minPos
    <2>1. minPos + 0 = minPos /\ minPos \in Nat
          /\ minPos < AccessSize + AccessSize /\ minPos < AccessSize
      BY <1>1
    <2>2. QED  BY <2>1, RingIndex
  <1>4. access[minPos] = {}
    <2>1. CASE d = 0
      BY <1>1, <2>1 DEF CommonCase
    <2>2. CASE d = 1
      <3> SUFFICES ASSUME NEW j \in access[minPos] PROVE FALSE
        OBVIOUS
      <3>1. /\ minTime <= time[j] /\ time[j] < minTime + AccessSize
            /\ minPos = Bucket(time[j])
        BY <1>1 DEF QueueInv, InItsBucket
      <3>2. j \in Pending /\ j \in Jobs
        BY <1>1 DEF Pending, InBuckets, TypeOK
      <3>3. time[j] \in Nat /\ globalClock <= time[j]
        BY <3>2 DEF TypeOK, QueueInv, NothingLate
      <3>4. Bucket(time[j]) = minPos => time[j] = minTime
        BY <1>1, <3>1, <3>3, BucketsApart
      <3>5. QED  BY <1>1, <2>2, <3>1, <3>3, <3>4
    <2>3. QED  BY <1>1, <2>1, <2>2
  <1>5. 0 \notin hits
    BY <1>3, <1>4
  <1>6. hits \subseteq {1} /\ (d = 0 => hits = {})
    BY <1>1, <1>5
  <1>7. hits # {} => hits = {1} /\ d = 1 /\ Min(hits) = 1
    <2>1. ASSUME hits # {} PROVE hits = {1} /\ d = 1
      BY <1>1, <1>6, <2>1
    <2>2. ASSUME hits # {} PROVE Min(hits) \in hits
      <3>1. hits \in SUBSET Nat
        BY <1>6
      <3> HIDE DEF hits
      <3>2. QED  BY <2>2, <3>1, MinOfNats
    <2>3. QED  BY <2>1, <2>2
  <1>8. QED  BY <1>1, <1>2, <1>7

\* What nextJob does: it brings the queue to the current clock without moving
\* a callback, and either takes the first of those that are due or finds that
\* none is due, in the buckets or in the heap.
LEMMA NextJobDoes ==
  ASSUME TypeOK, QueueInv, nextJob
  PROVE  /\ minTime' = globalClock /\ minPos' \in 0..AccessSize-1
         /\ globalClock < minTooFar
         /\ UNCHANGED <<globalClock, tooFar, minTooFar, portVars>>
         /\ \A j \in InBuckets :
              (minPos' + time[j] - globalClock) % AccessSize = Bucket(time[j])
         /\ \/ \E p \in 0..AccessSize-1 :
                 /\ take(p)
                 /\ \A j \in InBuckets : time[j] = globalClock <=> j \in access[p]
            \/ /\ noJob
               /\ \A j \in InBuckets : globalClock < time[j]
  <1>1. /\ minTime \in Nat /\ globalClock \in Nat /\ minTooFar \in Nat
        /\ AccessSize \in Nat /\ AccessSize > 7 /\ minPos \in 0..AccessSize-1
        /\ time \in [Jobs -> Nat] /\ access \in [0..AccessSize-1 -> SUBSET Jobs]
        /\ minTime <= globalClock /\ minTime < minTooFar
    BY EventSchedulerAssumption DEF TypeOK, QueueInv, ClockFollowed, HeapAhead
  <1>2. \A p \in 0..AccessSize-1 : \A j \in access[p] :
          /\ j \in Jobs /\ time[j] \in Nat
          /\ minTime <= time[j] /\ time[j] < minTime + AccessSize
          /\ globalClock <= time[j] /\ p = Bucket(time[j])
    BY <1>1 DEF QueueInv, InItsBucket, NothingLate, Pending, InBuckets
  <1>3. /\ pc = "jobs"
        /\ UNCHANGED <<globalClock, tooFar, minTooFar>>
    BY DEF nextJob
  <1>4. CASE CommonCase /\ take(minPos) /\ UNCHANGED <<minTime, minPos, portVars>>
    <2>1. minTime = globalClock
      BY <1>4 DEF CommonCase
    <2>2. \A j \in InBuckets : (minPos' + time[j] - globalClock) % AccessSize = Bucket(time[j])
      BY <1>4, <2>1 DEF Bucket
    <2>3. \A j \in InBuckets : time[j] = globalClock <=> j \in access[minPos]
      <3> SUFFICES ASSUME NEW p \in 0..AccessSize-1, NEW j \in access[p]
                   PROVE  time[j] = globalClock <=> j \in access[minPos]
        BY DEF InBuckets
      <3>1. Bucket(time[j]) = minPos <=> time[j] = globalClock
        BY <1>1, <1>2, <2>1, BucketsApart
      <3>2. j \in access[minPos] => Bucket(time[j]) = minPos
        BY <1>1, <1>2
      <3>3. QED  BY <1>2, <3>1, <3>2
    <2>4. QED  BY <1>1, <1>3, <1>4, <2>1, <2>2, <2>3
  <1>5. CASE /\ ~CommonCase /\ ~HeapDue /\ nNodes = 0
             /\ minTime' = globalClock /\ minPos' = 0 /\ noJob
    <2>1. InBuckets = {}
      BY <1>5, BucketsFinite, FS_EmptySet DEF QueueInv, NodesCounted
    <2>2. globalClock < minTooFar
      BY <1>1, <1>5 DEF HeapDue
    <2>3. UNCHANGED portVars
      BY <1>5 DEF noJob
    <2>4. QED  BY <1>1, <1>3, <1>5, <2>1, <2>2, <2>3
  <1> DEFINE p == (minPos + Passed) % AccessSize
  <1>6. CASE /\ ~CommonCase /\ ~HeapDue
             /\ minTime' = minTime + Passed /\ minPos' = p
             /\ \/ access[p] # {} /\ take(p) /\ UNCHANGED portVars
                \/ access[p] = {} /\ noJob
    <2> DEFINE d == globalClock - minTime
    <2>1. Passed = d /\ d \in {0, 1}
      BY <1>3, <1>6, PassedToClock
    <2>2. minTime' = globalClock /\ globalClock = minTime + d
      BY <1>1, <1>6, <2>1
    <2>3. p = (minPos + d) % AccessSize
      BY <2>1
    <2> HIDE DEF d, p
    <2>4. p \in 0..AccessSize-1
      <3>1. /\ globalClock \in Nat /\ minTime + d <= globalClock
            /\ globalClock < minTime + AccessSize
        BY <1>1, <2>1, <2>2
      <3>2. QED  BY <2>1, <2>3, <3>1, BucketsKept
    <2>5. ASSUME NEW q \in 0..AccessSize-1, NEW j \in access[q]
          PROVE  /\ (p + time[j] - globalClock) % AccessSize = Bucket(time[j])
                 /\ time[j] = globalClock <=> j \in access[p]
      <3>1. /\ time[j] \in Nat /\ minTime + d <= time[j]
            /\ time[j] < minTime + AccessSize /\ q = Bucket(time[j])
        BY <1>2, <2>2
      <3>2. /\ (p + time[j] - (minTime + d)) % AccessSize = Bucket(time[j])
            /\ Bucket(time[j]) = p <=> time[j] = minTime + d
        BY <2>1, <2>3, <3>1, BucketsKept
      <3>3. j \in access[p] <=> p = q
        <4>1. j \in access[p] => p = Bucket(time[j])
          BY <1>2, <2>4
        <4>2. QED  BY <3>1, <4>1
      <3>4. QED  BY <2>2, <3>1, <3>2, <3>3
    <2>6. \A j \in InBuckets :
            /\ (minPos' + time[j] - globalClock) % AccessSize = Bucket(time[j])
            /\ time[j] = globalClock <=> j \in access[p]
      BY <1>6, <2>5 DEF InBuckets
    <2>7. globalClock < minTooFar
      BY <1>1, <1>6 DEF HeapDue
    <2>8. CASE access[p] # {} /\ take(p) /\ UNCHANGED portVars
      BY <1>3, <1>6, <2>2, <2>4, <2>6, <2>7, <2>8
    <2>9. CASE access[p] = {} /\ noJob
      <3>1. UNCHANGED portVars
        BY <2>9 DEF noJob
      <3>2. \A j \in InBuckets : globalClock < time[j]
        <4> SUFFICES ASSUME NEW q \in 0..AccessSize-1, NEW j \in access[q]
                     PROVE  globalClock < time[j]
          BY DEF InBuckets
        <4>1. time[j] # globalClock
          BY <2>5, <2>9
        <4>2. QED  BY <1>1, <1>2, <4>1
      <3>3. QED  BY <1>3, <1>6, <2>2, <2>4, <2>6, <2>7, <2>9, <3>1, <3>2
    <2>10. QED  BY <1>6, <2>8, <2>9
  <1>7. QED  BY <1>4, <1>5, <1>6 DEF nextJob

----------------------------------------------------------------------------
(* The invariant is inductive *)

\* The queue's part of the invariant depends only on these.
LEMMA QueueUnchanged ==
  ASSUME TypeOK, QueueInv, UNCHANGED <<globalClock, tqVars>>,
         pc' # "jobs" => pc # "jobs",
         pc' \in {"core", "drain", "grant"} => pc \in {"core", "drain", "grant"}
  PROVE  QueueInv'
  BY DEF QueueInv, tqVars, ClockFollowed, InItsBucket, Bucket, NodesCounted,
         HeapAhead, NothingLate, Pending, InBuckets

\* schedule keeps the queue in order, whether the callback goes into a bucket
\* or into the heap.
LEMMA ScheduleStep ==
  ASSUME TypeOK, QueueInv, NEW j \in Jobs, NEW delta \in Deltas,
         schedule(j, delta)
  PROVE  TypeOK' /\ QueueInv' /\ Pending' = Pending \cup {j}
  <1> DEFINE t == globalClock + delta
  <1>1. /\ pc # "jobs" /\ j \notin Pending
        /\ globalClock + delta <= MaxClock /\ insert(j, t)
        /\ UNCHANGED <<globalClock, pc, portVars, minTime, minPos>>
    BY DEF schedule, insert
  <1>2. /\ globalClock \in Nat /\ delta \in Nat /\ delta > 0
        /\ minTime = globalClock /\ AccessSize \in Nat
        /\ t \in Nat /\ globalClock < t
    BY <1>1, EventSchedulerAssumption DEF TypeOK, QueueInv, ClockFollowed
  <1> HIDE DEF t
  <1>3. /\ time' = [time EXCEPT ![j] = t] /\ time' \in [Jobs -> Nat]
        /\ time'[j] = t /\ \A k \in Pending : k \in Jobs /\ time'[k] = time[k]
    BY <1>1, <1>2, BucketsFinite DEF insert, TypeOK, Pending
  <1>4. CASE t - minTime < AccessSize
    <2>1. addNodes({j}, time') /\ UNCHANGED <<tooFar, minTooFar>>
      BY <1>1, <1>2, <1>4 DEF insert
    <2>2. /\ access' \in [0..AccessSize-1 -> SUBSET Jobs]
          /\ InBuckets' = InBuckets \cup {j}
          /\ nNodes' \in Nat /\ NodesCounted'
          /\ \A p \in 0..AccessSize-1 : \A k \in access'[p] :
               k \in access[p] \/ (k = j /\ p = Bucket(time'[k]))
      <3>1. {j} \in SUBSET Jobs /\ {j} \cap InBuckets = {}
        BY <1>1 DEF Pending
      <3>2. \A k \in {j} : minTime <= time'[k] /\ time'[k] < minTime + AccessSize
        BY <1>2, <1>3, <1>4
      <3>3. NodesCounted
        BY DEF QueueInv
      <3> DEFINE J == {j}
                 f == time'
      <3>4. f \in [Jobs -> Nat] /\ addNodes(J, f)
        BY <1>3, <2>1
      <3> HIDE DEF f, J
      <3>5. J \in SUBSET Jobs /\ J \cap InBuckets = {}
            /\ \A k \in J : minTime <= f[k] /\ f[k] < minTime + AccessSize
        BY <3>1, <3>2 DEF f, J
      <3>6. /\ access' \in [0..AccessSize-1 -> SUBSET Jobs]
            /\ InBuckets' = InBuckets \cup J
            /\ nNodes' \in Nat /\ NodesCounted'
            /\ \A p \in 0..AccessSize-1 : \A k \in access'[p] :
                 k \in access[p] \/ (k \in J /\ p = Bucket(f[k]))
        BY <3>3, <3>4, <3>5, AddNodes
      <3>7. QED  BY <3>6 DEF f, J
    <2>3. TypeOK'
      BY <1>1, <1>3, <2>1, <2>2 DEF TypeOK, portVars
    <2>4. Pending' = Pending \cup {j}
      BY <2>1, <2>2 DEF Pending
    <2>5. ClockFollowed'
      BY <1>1 DEF ClockFollowed, QueueInv
    <2>6. InItsBucket'
      <3> SUFFICES ASSUME NEW p \in 0..AccessSize-1, NEW k \in access'[p]
                   PROVE  /\ minTime <= time'[k] /\ time'[k] < minTime + AccessSize
                          /\ p = Bucket(time'[k])
        BY <1>1 DEF InItsBucket, Bucket
      <3>1. CASE k \in access[p]
        BY <1>3, <3>1 DEF QueueInv, InItsBucket, Pending, InBuckets
      <3>2. CASE k = j /\ p = Bucket(time'[k])
        BY <1>2, <1>3, <1>4, <3>2
      <3>3. QED  BY <2>2, <3>1, <3>2
    <2>7. HeapAhead'
      BY <1>1, <1>3, <2>1, <2>2 DEF QueueInv, HeapAhead, Pending
    <2>8. NothingLate'
      BY <1>1, <1>2, <1>3, <2>4 DEF QueueInv, NothingLate
    <2>9. QED  BY <2>2, <2>3, <2>4, <2>5, <2>6, <2>7, <2>8 DEF QueueInv
  <1>5. CASE t - minTime >= AccessSize
    <2>1. /\ tooFar' = tooFar \cup {j} /\ UNCHANGED <<access, nNodes>>
          /\ minTooFar' = IF minTooFar > t THEN t ELSE minTooFar
      BY <1>1, <1>2, <1>5 DEF insert
    <2>2. minTooFar \in Nat /\ minTooFar' \in Nat /\ minTooFar' <= t
          /\ minTooFar' <= minTooFar /\ InBuckets' = InBuckets
      BY <1>2, <2>1 DEF TypeOK, InBuckets
    <2>3. TypeOK'
      BY <1>1, <1>3, <2>1, <2>2 DEF TypeOK, portVars
    <2>4. Pending' = Pending \cup {j}
      BY <2>1, <2>2 DEF Pending
    <2>5. ClockFollowed' /\ NodesCounted'
      BY <1>1, <2>1, <2>2 DEF ClockFollowed, NodesCounted, QueueInv
    <2>6. InItsBucket'
      <3> SUFFICES ASSUME NEW p \in 0..AccessSize-1, NEW k \in access[p]
                   PROVE  /\ minTime <= time'[k] /\ time'[k] < minTime + AccessSize
                          /\ p = Bucket(time'[k])
        BY <1>1, <2>1 DEF InItsBucket, Bucket
      <3>1. QED  BY <1>3 DEF QueueInv, InItsBucket, Pending, InBuckets
    <2>7. HeapAhead'
      <3>1. \A k \in tooFar : time'[k] = time[k] /\ time[k] \in Nat /\ minTooFar <= time[k]
        BY <1>3 DEF Pending, QueueInv, HeapAhead, TypeOK
      <3>2. \A k \in tooFar' : minTooFar' <= time'[k]
        BY <1>2, <1>3, <2>1, <2>2, <3>1
      <3>3. minTime' < minTooFar'
        BY <1>1, <1>2, <2>1, <2>2 DEF QueueInv, HeapAhead
      <3>4. tooFar' \cap InBuckets' = {}
        BY <1>1, <2>1, <2>2 DEF QueueInv, HeapAhead, Pending
      <3>5. QED  BY <3>2, <3>3, <3>4 DEF HeapAhead
    <2>8. NothingLate'
      BY <1>1, <1>2, <1>3, <2>4 DEF QueueInv, NothingLate
    <2>9. QED  BY <2>3, <2>4, <2>5, <2>6, <2>7, <2>8 DEF QueueInv
  <1>6. QED  BY <1>2, <1>4, <1>5

\* adjustTooFar moves callbacks from the heap into the buckets and loses none.
LEMMA AdjustStep ==
  ASSUME TypeOK, QueueInv, adjustTooFar
  PROVE  TypeOK' /\ QueueInv' /\ Pending' = Pending
  <1> DEFINE near == {j \in tooFar : time[j] - minTime < AccessSize}
             far  == tooFar \ near
  <1>1. /\ pc = "jobs" /\ addNodes(near, time) /\ tooFar' = far
        /\ minTooFar' = IF far = {} THEN MaxTime ELSE Min({time[j] : j \in far})
        /\ UNCHANGED <<globalClock, pc, minTime, minPos, time, portVars>>
    BY DEF adjustTooFar
  <1>2. /\ minTime \in Nat /\ globalClock \in Nat /\ globalClock <= MaxClock
        /\ minTime <= globalClock /\ tooFar \in SUBSET Jobs
        /\ AccessSize \in Nat /\ AccessSize > 7 /\ time \in [Jobs -> Nat]
        /\ MaxClock \in Nat /\ MaxTime \in Nat /\ MaxClock < MaxTime
    BY EventSchedulerAssumption DEF TypeOK, QueueInv, ClockFollowed
  <1>3. \A j \in tooFar : /\ j \in Jobs /\ time[j] \in Nat
                          /\ globalClock <= time[j] /\ j \notin InBuckets
    BY <1>2 DEF QueueInv, NothingLate, HeapAhead, Pending
  <1>4. /\ near \in SUBSET Jobs /\ near \cap InBuckets = {}
        /\ \A j \in near : minTime <= time[j] /\ time[j] < minTime + AccessSize
    BY <1>2, <1>3
  <1>5. \A j \in far : time[j] \in Nat /\ minTime + AccessSize <= time[j]
    BY <1>2, <1>3
  <1>6. near \cup far = tooFar /\ near \cap far = {} /\ far \in SUBSET Jobs
    BY <1>2
  <1> HIDE DEF near, far
  <1>7. /\ access' \in [0..AccessSize-1 -> SUBSET Jobs]
        /\ InBuckets' = InBuckets \cup near
        /\ nNodes' \in Nat /\ NodesCounted'
        /\ \A p \in 0..AccessSize-1 : \A j \in access'[p] :
             j \in access[p] \/ (j \in near /\ p = Bucket(time[j]))
    BY <1>1, <1>2, <1>4, AddNodes DEF QueueInv
  <1>8. Pending' = Pending
    BY <1>1, <1>6, <1>7 DEF Pending
  <1>9. /\ minTooFar' \in Nat /\ minTime < minTooFar'
        /\ \A j \in far : minTooFar' <= time[j]
    <2>1. CASE far = {}
      BY <1>1, <1>2, <2>1
    <2>2. CASE far # {}
      <3> DEFINE T == {time[j] : j \in far}
      <3>1. /\ T \in SUBSET Nat /\ T # {}
            /\ \A t \in T : minTime + AccessSize <= t
            /\ \A j \in far : time[j] \in T
        BY <1>5, <2>2
      <3>2. minTooFar' = Min(T)
        BY <1>1, <2>2
      <3> HIDE DEF T
      <3>3. Min(T) \in T /\ \A t \in T : Min(T) <= t
        BY <3>1, MinOfNats
      <3>4. Min(T) \in Nat /\ minTime + AccessSize <= Min(T)
        BY <3>1, <3>3
      <3>5. minTime < Min(T)
        BY <1>2, <3>4
      <3>6. QED  BY <3>1, <3>2, <3>3, <3>4, <3>5
    <2>3. QED  BY <2>1, <2>2
  <1>10. TypeOK'
    BY <1>1, <1>6, <1>7, <1>9 DEF TypeOK, portVars
  <1>11. ClockFollowed'
    BY <1>1 DEF ClockFollowed, QueueInv
  <1>12. InItsBucket'
    <2> SUFFICES ASSUME NEW p \in 0..AccessSize-1, NEW j \in access'[p]
                 PROVE  /\ minTime <= time[j] /\ time[j] < minTime + AccessSize
                        /\ p = Bucket(time[j])
      BY <1>1 DEF InItsBucket, Bucket
    <2>1. CASE j \in access[p]
      BY <2>1 DEF QueueInv, InItsBucket
    <2>2. CASE j \in near /\ p = Bucket(time[j])
      BY <1>4, <2>2
    <2>3. QED  BY <1>7, <2>1, <2>2
  <1>13. HeapAhead'
    BY <1>1, <1>3, <1>6, <1>7, <1>9 DEF HeapAhead
  <1>14. NothingLate'
    BY <1>1, <1>8 DEF NothingLate, QueueInv
  <1>15. QED  BY <1>7, <1>8, <1>10, <1>11, <1>12, <1>13, <1>14 DEF QueueInv

\* nextJob keeps the queue in order, and when it takes a callback this is one
\* of the current clock that no other callback due goes before.
LEMMA NextJobStep ==
  ASSUME TypeOK, QueueInv, nextJob
  PROVE  /\ TypeOK' /\ QueueInv'
         /\ \/ /\ Pending' = Pending /\ UNCHANGED <<time, portVars>>
               /\ pc' = IF \E p \in Ports : has_pending(p) THEN "drain" ELSE "core"
            \/ \E j \in Pending :
                 /\ Pending' = Pending \ {j} /\ time' = [time EXCEPT ![j] = 0]
                 /\ time[j] = globalClock /\ pc' = "call"
                 /\ \A k \in Pending :
                      time[k] = globalClock => priority[j] <= priority[k]
  <1>1. /\ minTime' = globalClock /\ minPos' \in 0..AccessSize-1
        /\ globalClock < minTooFar
        /\ UNCHANGED <<globalClock, tooFar, minTooFar, portVars>>
        /\ \A j \in InBuckets :
             (minPos' + time[j] - globalClock) % AccessSize = Bucket(time[j])
    BY NextJobDoes
  <1>2. /\ minTime \in Nat /\ globalClock \in Nat /\ minTooFar \in Nat
        /\ AccessSize \in Nat /\ time \in [Jobs -> Nat] /\ tooFar \in SUBSET Jobs
        /\ access \in [0..AccessSize-1 -> SUBSET Jobs] /\ minTime <= globalClock
    BY EventSchedulerAssumption DEF TypeOK, QueueInv, ClockFollowed
  <1>3. \A j \in tooFar : /\ j \in Jobs /\ time[j] \in Nat /\ globalClock < time[j]
                          /\ j \notin InBuckets /\ minTooFar <= time[j]
    BY <1>1, <1>2 DEF QueueInv, HeapAhead
  <1>4. \A p \in 0..AccessSize-1 : \A j \in access[p] :
          /\ j \in Jobs /\ time[j] \in Nat /\ j \in InBuckets
          /\ globalClock <= time[j] /\ time[j] < globalClock + AccessSize
          /\ p = Bucket(time[j]) /\ 0 < time[j]
    <2> SUFFICES ASSUME NEW p \in 0..AccessSize-1, NEW j \in access[p]
                 PROVE  /\ j \in Jobs /\ time[j] \in Nat /\ j \in InBuckets
                        /\ globalClock <= time[j] /\ time[j] < globalClock + AccessSize
                        /\ p = Bucket(time[j]) /\ 0 < time[j]
      OBVIOUS
    <2>1. j \in Jobs /\ time[j] \in Nat /\ j \in InBuckets /\ j \in Pending
      BY <1>2 DEF Pending, InBuckets
    <2>2. globalClock <= time[j] /\ 0 < time[j]
      BY <2>1 DEF QueueInv, NothingLate
    <2>3. time[j] < minTime + AccessSize /\ p = Bucket(time[j])
      BY DEF QueueInv, InItsBucket
    <2>4. QED  BY <1>2, <2>1, <2>2, <2>3
  <1>5. CASE /\ noJob
             /\ \A j \in InBuckets : globalClock < time[j]
    <2>1. /\ UNCHANGED <<access, nNodes, time>>
          /\ pc' = IF \E p \in Ports : has_pending(p) THEN "drain" ELSE "core"
          /\ pc' \in {"core", "drain"}
      BY <1>5 DEF noJob
    <2>2. Pending' = Pending /\ InBuckets' = InBuckets
      BY <1>1, <2>1 DEF Pending, InBuckets
    <2>3. TypeOK'
      BY <1>1, <2>1, <1>2 DEF TypeOK, portVars, Control
    <2>4. ClockFollowed'
      BY <1>1, <1>2 DEF ClockFollowed
    <2>5. InItsBucket'
      BY <1>1, <1>4, <2>1 DEF InItsBucket, Bucket
    <2>6. NodesCounted' /\ HeapAhead'
      BY <1>1, <1>3, <2>1, <2>2 DEF NodesCounted, HeapAhead, QueueInv
    <2>7. NothingLate'
      BY <1>1, <1>3, <1>5, <2>1, <2>2 DEF NothingLate, Pending, QueueInv
    <2>8. QED  BY <1>1, <2>1, <2>2, <2>3, <2>4, <2>5, <2>6, <2>7 DEF QueueInv
  <1>6. ASSUME NEW p \in 0..AccessSize-1, take(p),
               \A j \in InBuckets : time[j] = globalClock <=> j \in access[p]
        PROVE  /\ TypeOK' /\ QueueInv'
               /\ \E j \in Pending :
                    /\ Pending' = Pending \ {j} /\ time' = [time EXCEPT ![j] = 0]
                    /\ time[j] = globalClock /\ pc' = "call"
                    /\ \A k \in Pending :
                         time[k] = globalClock => priority[j] <= priority[k]
    <2>1. NodesCounted /\ InItsBucket
      BY DEF QueueInv
    <2>2. PICK j \in access[p] :
           /\ \A k \in access[p] : priority[j] <= priority[k]
           /\ j \in Jobs /\ time' = [time EXCEPT ![j] = 0]
           /\ access' \in [0..AccessSize-1 -> SUBSET Jobs]
           /\ \A q \in 0..AccessSize-1 : access'[q] = access[q] \ {j}
           /\ InBuckets' = InBuckets \ {j}
           /\ nNodes' \in Nat /\ NodesCounted'
           /\ pc' = "call"
      BY <1>6, <2>1, TakeOne
    <2>3. /\ j \in InBuckets /\ j \notin tooFar
          /\ time[j] = globalClock
      BY <1>3, <1>4, <1>6, <2>2
    <2>4. Pending' = Pending \ {j} /\ j \in Pending
      BY <1>1, <2>2, <2>3 DEF Pending
    <2>5. \A k \in Pending : time[k] = globalClock => k \in access[p]
      BY <1>3, <1>2, <1>6 DEF Pending
    <2>6. \A k \in Jobs : k # j => time'[k] = time[k]
      BY <1>2, <2>2
    <2>7. TypeOK'
      BY <1>1, <1>2, <2>2 DEF TypeOK, portVars, Control
    <2>8. ClockFollowed'
      BY <1>1, <1>2 DEF ClockFollowed
    <2>9. InItsBucket'
      <3> SUFFICES ASSUME NEW q \in 0..AccessSize-1, NEW k \in access'[q]
                   PROVE  /\ minTime' <= time'[k] /\ time'[k] < minTime' + AccessSize
                          /\ q = (minPos' + time'[k] - minTime') % AccessSize
        BY DEF InItsBucket, Bucket
      <3>1. k \in access[q] /\ k # j
        BY <2>2
      <3>2. time'[k] = time[k]
        BY <1>4, <2>6, <3>1
      <3>3. QED  BY <1>1, <1>4, <3>1, <3>2
    <2>10. HeapAhead'
      BY <1>1, <1>3, <2>2, <2>3, <2>6 DEF HeapAhead
    <2>11. NothingLate'
      <3> SUFFICES ASSUME NEW k \in Pending' PROVE globalClock <= time'[k] /\ 0 < time'[k]
        BY <1>1, <2>2 DEF NothingLate
      <3>1. k \in Pending /\ k # j /\ k \in Jobs
        BY <2>4, <1>2, BucketsFinite DEF Pending
      <3>2. QED  BY <2>6, <3>1 DEF QueueInv, NothingLate
    <2>12. QED
      BY <2>2, <2>3, <2>4, <2>5, <2>7, <2>8, <2>9, <2>10, <2>11 DEF QueueInv
  <1>7. QED  BY <1>5, <1>6, NextJobDoes

\* drain_pending changes no callback and keeps the counts of the ports typed.
LEMMA CountTyped ==
  ASSUME TypeOK, NEW n \in Nat, count(port, n)
  PROVE  /\ granted_this_cycle' \in [Ports -> Nat]
         /\ granted_cycle' \in [Ports -> Nat]
         /\ align_cycle(port) \in Nat
  BY EventSchedulerAssumption DEF count, TypeOK, align_cycle

\* Every step keeps the state well typed and the queue in order.
LEMMA QueueStep ==
  TypeOK /\ QueueInv /\ [Next]_vars => TypeOK' /\ QueueInv'
  <1> SUFFICES ASSUME TypeOK, QueueInv, [Next]_vars PROVE TypeOK' /\ QueueInv'
    OBVIOUS
  <1>1. CASE adjustTooFar
    BY <1>1, AdjustStep
  <1>2. CASE nextJob
    BY <1>2, NextJobStep
  <1>3. CASE return
    <2>1. UNCHANGED <<globalClock, tqVars, portVars>> /\ pc' \in Control
          /\ (pc' # "jobs" => pc # "jobs")
          /\ (pc' \in {"core", "drain", "grant"} => pc \in {"core", "drain", "grant"})
      BY <1>3 DEF return, Control
    <2>2. TypeOK'
      BY <2>1 DEF TypeOK, tqVars, portVars
    <2>3. QED  BY <2>1, <2>2, QueueUnchanged
  <1>4. CASE advanceClock
    <2>1. /\ pc = "core" /\ globalClock < MaxClock /\ globalClock' = globalClock + 1
          /\ pc' = "jobs" /\ grants' = [p \in Ports |-> 0]
          /\ UNCHANGED <<tqVars, port, queue, granted_this_cycle, granted_cycle, requests>>
      BY <1>4 DEF advanceClock
    <2>2. globalClock \in Nat /\ minTime \in Nat /\ minTime = globalClock
      BY <2>1 DEF TypeOK, QueueInv, ClockFollowed
    <2>3. TypeOK'
      BY <2>1, <2>2, EventSchedulerAssumption DEF TypeOK, tqVars, Control
    <2>4. ClockFollowed'
      BY <2>1, <2>2 DEF ClockFollowed, tqVars
    <2>5. InItsBucket' /\ NodesCounted' /\ HeapAhead' /\ InBuckets' = InBuckets
      BY <2>1 DEF QueueInv, InItsBucket, NodesCounted, HeapAhead, InBuckets, Bucket, tqVars
    <2>6. NothingLate'
      <3> SUFFICES ASSUME NEW j \in Pending
                   PROVE  globalClock + 1 <= time[j] /\ 0 < time[j]
        BY <2>1, <2>5 DEF NothingLate, Pending, tqVars
      <3>1. j \in Jobs /\ time[j] \in Nat
        BY BucketsFinite DEF Pending, TypeOK
      <3>2. QED  BY <2>1, <2>2, <3>1 DEF QueueInv, NothingLate
    <2>7. QED  BY <2>3, <2>4, <2>5, <2>6 DEF QueueInv
  <1>5. CASE grant
    <2>1. /\ pc = "drain" /\ pc' = "grant" /\ count(port, align_cycle(port) + 1)
          /\ queue' = [queue EXCEPT ![port] = @ \ {Min(@)}]
          /\ grants' = [grants EXCEPT ![port] = @ + 1]
          /\ UNCHANGED <<globalClock, tqVars, port, requests>>
      BY <1>5 DEF grant
    <2>2. align_cycle(port) \in Nat
      BY DEF TypeOK, align_cycle
    <2>3. TypeOK'
      <3>1. align_cycle(port) + 1 \in Nat
        BY <2>2
      <3>2. granted_this_cycle' \in [Ports -> Nat] /\ granted_cycle' \in [Ports -> Nat]
        BY <2>1, <3>1, CountTyped
      <3>3. queue' \in [Ports -> SUBSET Reqs]
        <4> DEFINE Q == queue[port] \ {Min(queue[port])}
        <4>1. queue' = [queue EXCEPT ![port] = Q]
          BY <2>1
        <4>2. Q \in SUBSET Reqs
          BY DEF TypeOK
        <4> HIDE DEF Q
        <4>3. QED  BY <4>1, <4>2 DEF TypeOK
      <3>4. grants' \in [Ports -> Nat] /\ pc' \in Control
        BY <2>1 DEF TypeOK, Control
      <3>5. QED  BY <2>1, <3>2, <3>3, <3>4 DEF TypeOK, tqVars
    <2>4. QED  BY <2>1, <2>3, QueueUnchanged
  <1>6. CASE drained
    <2>1. /\ pc = "drain" /\ pc' \in {"drain", "jobs"} /\ count(port, align_cycle(port))
          /\ port' = IF port < NPorts THEN port + 1 ELSE 1
          /\ UNCHANGED <<globalClock, tqVars, queue, requests, grants>>
      BY <1>6 DEF drained
    <2>2. align_cycle(port) \in Nat
      BY DEF TypeOK, align_cycle
    <2>3. TypeOK'
      <3>1. granted_this_cycle' \in [Ports -> Nat] /\ granted_cycle' \in [Ports -> Nat]
        BY <2>1, <2>2, CountTyped
      <3>2. port' \in Ports
        BY <2>1, EventSchedulerAssumption DEF TypeOK, Ports
      <3>3. pc' \in Control
        BY <2>1 DEF Control
      <3>4. QED  BY <2>1, <3>1, <3>2, <3>3 DEF TypeOK, tqVars
    <2>4. QED  BY <2>1, <2>3, QueueUnchanged
  <1>7. ASSUME NEW j \in Jobs, NEW delta \in Deltas, schedule(j, delta)
        PROVE  TypeOK' /\ QueueInv'
    BY <1>7, ScheduleStep
  <1>8. ASSUME NEW p \in Ports, NEW r \in Reqs, port_schedule(p, r)
        PROVE  TypeOK' /\ QueueInv'
    <2>1. UNCHANGED <<globalClock, pc, tqVars, port, granted_this_cycle, granted_cycle, grants>>
      BY <1>8 DEF port_schedule
    <2>2. TypeOK'
      BY <1>8 DEF port_schedule, TypeOK, tqVars
    <2>3. QED  BY <2>1, <2>2, QueueUnchanged
  <1>9. CASE UNCHANGED vars
    <2>1. TypeOK'
      BY <1>9 DEF vars, TypeOK, tqVars, portVars
    <2>2. QED  BY <1>9, <2>1, QueueUnchanged DEF vars
  <1>10. QED
    BY <1>1, <1>2, <1>3, <1>4, <1>5, <1>6, <1>7, <1>8, <1>9 DEF Next, Loop, Done

\* Initially the queue is empty and in order.
LEMMA QueueInit ==
  Init => TypeOK /\ QueueInv
  <1> SUFFICES ASSUME Init PROVE TypeOK /\ QueueInv
    OBVIOUS
  <1> USE EventSchedulerAssumption
  <1>1. InBuckets = {} /\ Pending = {}
    BY DEF Init, InBuckets, Pending
  <1>2. TypeOK
    BY DEF Init, TypeOK, Control, Ports
  <1>3. ClockFollowed /\ InItsBucket /\ HeapAhead /\ NothingLate
    BY <1>1 DEF Init, ClockFollowed, InItsBucket, HeapAhead, NothingLate
  <1>4. NodesCounted
    BY <1>1, FS_EmptySet DEF Init, NodesCounted
  <1>5. QED  BY <1>2, <1>3, <1>4 DEF QueueInv

\* Every step keeps the counts of the ports right: advanceClock starts a new
\* clock, in which align_cycle forgets the count of the old one.
LEMMA PortStep ==
  TypeOK /\ PortsCounted /\ [Next]_vars => PortsCounted'
  <1> SUFFICES ASSUME TypeOK, PortsCounted, [Next]_vars PROVE PortsCounted'
    OBVIOUS
  <1>1. /\ globalClock \in Nat /\ port \in Ports
        /\ granted_cycle \in [Ports -> Nat] /\ granted_this_cycle \in [Ports -> Nat]
        /\ grants \in [Ports -> Nat] /\ nUnits \in [Ports -> Nat]
    BY EventSchedulerAssumption DEF TypeOK
  <1>2. ASSUME UNCHANGED <<globalClock, granted_this_cycle, granted_cycle, grants>>
        PROVE  PortsCounted'
    BY <1>2 DEF PortsCounted
  <1>3. CASE advanceClock
    BY <1>1, <1>3 DEF advanceClock, PortsCounted
  <1>4. CASE grant
    <2>1. /\ can_grant(port) /\ count(port, align_cycle(port) + 1)
          /\ grants' = [grants EXCEPT ![port] = @ + 1]
          /\ globalClock' = globalClock
      BY <1>4 DEF grant
    <2> SUFFICES ASSUME NEW p \in Ports, nUnits[p] # 0
                 PROVE  /\ granted_cycle'[p] <= globalClock
                        /\ granted_cycle'[p] = globalClock => grants'[p] = granted_this_cycle'[p]
                        /\ granted_cycle'[p] # globalClock => grants'[p] = 0
                        /\ grants'[p] <= nUnits[p]
      BY <2>1 DEF PortsCounted
    <2>2. CASE p # port
      BY <1>1, <2>1, <2>2 DEF count, PortsCounted
    <2>3. CASE p = port
      <3>1. align_cycle(p) = grants[p] /\ align_cycle(p) < nUnits[p]
        BY <1>1, <2>1, <2>3 DEF can_grant, align_cycle, PortsCounted
      <3>2. /\ granted_cycle'[p] = globalClock
            /\ granted_this_cycle'[p] = align_cycle(p) + 1
            /\ grants'[p] = grants[p] + 1
        BY <1>1, <2>1, <2>3 DEF count
      <3>3. QED  BY <1>1, <3>1, <3>2
    <2>4. QED  BY <2>2, <2>3
  <1>5. CASE drained
    <2>1. count(port, align_cycle(port)) /\ UNCHANGED <<globalClock, grants>>
      BY <1>5 DEF drained
    <2> SUFFICES ASSUME NEW p \in Ports, nUnits[p] # 0
                 PROVE  /\ granted_cycle'[p] <= globalClock
                        /\ granted_cycle'[p] = globalClock => grants[p] = granted_this_cycle'[p]
                        /\ granted_cycle'[p] # globalClock => grants[p] = 0
                        /\ grants[p] <= nUnits[p]
      BY <2>1 DEF PortsCounted
    <2>2. CASE p # port
      BY <1>1, <2>1, <2>2 DEF count, PortsCounted
    <2>3. CASE p = port
      <3>1. align_cycle(p) = grants[p] /\ grants[p] <= nUnits[p]
        BY <1>1, <2>3 DEF align_cycle, PortsCounted
      <3>2. /\ granted_cycle'[p] = globalClock
            /\ granted_this_cycle'[p] = align_cycle(p)
        BY <1>1, <2>1, <2>3 DEF count
      <3>3. QED  BY <1>1, <3>1, <3>2
    <2>4. QED  BY <2>2, <2>3
  <1>6. CASE adjustTooFar \/ return
    BY <1>2, <1>6 DEF adjustTooFar, return, portVars
  <1>7. CASE nextJob
    BY <1>2, <1>7 DEF nextJob, noJob, portVars
  <1>8. ASSUME NEW j \in Jobs, NEW delta \in Deltas, schedule(j, delta)
        PROVE  PortsCounted'
    BY <1>2, <1>8 DEF schedule, portVars
  <1>9. ASSUME NEW p \in Ports, NEW r \in Reqs, port_schedule(p, r)
        PROVE  PortsCounted'
    BY <1>2, <1>9 DEF port_schedule
  <1>10. CASE UNCHANGED vars
    BY <1>2, <1>10 DEF vars, portVars
  <1>11. QED
    BY <1>3, <1>4, <1>5, <1>6, <1>7, <1>8, <1>9, <1>10 DEF Next, Loop, Done

----------------------------------------------------------------------------
(* The theorems *)

\* The state of the scheduler is always well typed.
THEOREM TypeCorrect == Spec => []TypeOK
  <1>1. QED  BY QueueInit, QueueStep, PTL DEF Spec

\* The queue is always in order: every callback is where its time says.
THEOREM QueueInOrder == Spec => []QueueInv
  <1>1. QED  BY QueueInit, QueueStep, PTL DEF Spec

\* No PortPipePriority grants more than its units in a clock, however often
\* advanceClock drains it.
THEOREM PortsNeverOvergrant == Spec => []GrantsBounded
  <1>1. Init => PortsCounted
    BY EventSchedulerAssumption DEF Init, PortsCounted
  <1>2. PortsCounted => GrantsBounded
    BY DEF PortsCounted, GrantsBounded
  <1>3. QED  BY <1>1, <1>2, QueueInit, QueueStep, PortStep, PTL DEF Spec

\* What a step does to the pending callbacks and their times.
LEMMA PendingStep ==
  ASSUME TypeOK, QueueInv, [Next]_vars
  PROVE  \/ Pending' = Pending /\ UNCHANGED <<globalClock, time>>
         \/ /\ advanceClock
            /\ Pending' = Pending /\ UNCHANGED time
         \/ \E j \in Jobs \ Pending :
              /\ Pending' = Pending \cup {j} /\ UNCHANGED globalClock
              /\ \E t \in Nat : globalClock < t /\ time' = [time EXCEPT ![j] = t]
         \/ \E j \in Pending :
              /\ Pending' = Pending \ {j} /\ time' = [time EXCEPT ![j] = 0]
              /\ time[j] = globalClock /\ UNCHANGED globalClock
              /\ \A k \in Pending :
                   time[k] = globalClock => priority[j] <= priority[k]
  <1>1. ASSUME UNCHANGED tqVars PROVE Pending' = Pending /\ UNCHANGED time
    BY <1>1 DEF tqVars, Pending, InBuckets
  <1>2. CASE adjustTooFar
    <2>1. Pending' = Pending
      BY <1>2, AdjustStep
    <2>2. QED  BY <1>2, <2>1 DEF adjustTooFar
  <1>3. CASE nextJob
    <2>1. UNCHANGED globalClock
      BY <1>3 DEF nextJob
    <2>2. QED  BY <1>3, <2>1, NextJobStep
  <1>4. CASE return \/ grant \/ drained
    BY <1>1, <1>4 DEF return, grant, drained
  <1>5. CASE advanceClock
    BY <1>1, <1>5 DEF advanceClock
  <1>6. ASSUME NEW j \in Jobs, NEW delta \in Deltas, schedule(j, delta)
        PROVE  \E k \in Jobs \ Pending :
                 /\ Pending' = Pending \cup {k} /\ UNCHANGED globalClock
                 /\ \E t \in Nat : globalClock < t /\ time' = [time EXCEPT ![k] = t]
    <2>1. /\ j \notin Pending /\ UNCHANGED globalClock
          /\ time' = [time EXCEPT ![j] = globalClock + delta]
      BY <1>6 DEF schedule, insert
    <2>2. Pending' = Pending \cup {j}
      BY <1>6, ScheduleStep
    <2>3. globalClock + delta \in Nat /\ globalClock < globalClock + delta
      BY EventSchedulerAssumption DEF TypeOK
    <2>4. QED  BY <2>1, <2>2, <2>3
  <1>7. ASSUME NEW p \in Ports, NEW r \in Reqs, port_schedule(p, r)
        PROVE  Pending' = Pending /\ UNCHANGED <<globalClock, time>>
    BY <1>1, <1>7 DEF port_schedule
  <1>8. CASE UNCHANGED vars
    BY <1>1, <1>8 DEF vars
  <1>9. QED
    BY <1>2, <1>3, <1>4, <1>5, <1>6, <1>7, <1>8 DEF Next, Loop, Done

\* A step of the scheduler is a step of what it promises, or changes nothing
\* that the promise is about.
LEMMA EventsStep ==
  ASSUME TypeOK, QueueInv, [Next]_vars
  PROVE  [Events!Next]_<<globalClock,
                         [j \in Jobs |-> IF j \in Pending THEN time[j] ELSE 0]>>
  <1> DEFINE D == [j \in Jobs |-> IF j \in Pending THEN time[j] ELSE 0]
  <1>1. /\ time \in [Jobs -> Nat] /\ Pending \in SUBSET Jobs
        /\ globalClock \in Nat
        /\ \A j \in Pending : globalClock <= time[j] /\ 0 < time[j]
    BY BucketsFinite DEF TypeOK, Pending, QueueInv, NothingLate
  <1>2. CASE Pending' = Pending /\ UNCHANGED <<globalClock, time>>
    BY <1>2
  <1>3. CASE advanceClock /\ Pending' = Pending /\ UNCHANGED time
    <2>1. pc = "core" /\ globalClock' = globalClock + 1
      BY <1>3 DEF advanceClock
    <2>2. \A j \in Pending : globalClock < time[j]
      BY <2>1 DEF QueueInv, NothingLate
    <2>3. D' = D /\ \A j \in Jobs : D[j] # 0 => D[j] > globalClock
      BY <1>1, <1>3, <2>2
    <2>4. Events!Advance
      BY <2>1, <2>3 DEF Events!Advance
    <2>5. QED  BY <2>4 DEF Events!Next
  <1>4. ASSUME NEW j \in Jobs \ Pending, Pending' = Pending \cup {j},
               UNCHANGED globalClock, NEW t \in Nat, globalClock < t,
               time' = [time EXCEPT ![j] = t]
        PROVE  Events!Next
    <2>1. D[j] = 0 /\ D'[j] = t /\ D' = [D EXCEPT ![j] = t]
      BY <1>1, <1>4
    <2>2. Events!Schedule(j)
      BY <1>1, <1>4, <2>1 DEF Events!Schedule
    <2>3. QED  BY <2>2 DEF Events!Next
  <1>5. ASSUME NEW j \in Pending, Pending' = Pending \ {j},
               time' = [time EXCEPT ![j] = 0], time[j] = globalClock,
               UNCHANGED globalClock
        PROVE  Events!Next
    <2>1. j \in Jobs /\ D[j] = globalClock /\ D[j] # 0 /\ D' = [D EXCEPT ![j] = 0]
      BY <1>1, <1>5
    <2>2. Events!Call(j)
      BY <1>5, <2>1 DEF Events!Call
    <2>3. QED  BY <2>1, <2>2 DEF Events!Next
  <1>6. QED  BY <1>2, <1>3, <1>4, <1>5, PendingStep

\* The calendar queue implements the abstract scheduler: every callback is
\* called in exactly the clock it was scheduled for, through the reuse of the
\* buckets and the moves out of the heap.
THEOREM OnTime == Spec => CallsOnTime
  <1>1. Init => Events!Init
    BY DEF Init, Events!Init, Pending, InBuckets
  <1>2. QED
    BY <1>1, QueueInit, QueueStep, EventsStep, PTL DEF Spec, CallsOnTime, Events!Spec

\* Of the callbacks that are due, one of the least priority value is called.
THEOREM PriorityOrder == Spec => StrictPriority
  <1>1. ASSUME TypeOK, QueueInv, [Next]_vars
        PROVE  [\A j \in Pending \ Pending' : \A k \in Pending :
                  time[k] = globalClock => priority[j] <= priority[k]]_vars
    BY <1>1, PendingStep
  <1>2. QED
    BY <1>1, QueueInit, QueueStep, PTL DEF Spec, StrictPriority

\* When advanceClock returns, nothing that could happen in this clock is left.
THEOREM ClockExhausted == Spec => FixedPoint
  <1>1. ASSUME TypeOK, QueueInv, PortsCounted, [Next]_vars
        PROVE  [pc # "core" /\ pc' = "core" =>
                  /\ \A j \in Pending' : time'[j] > globalClock
                  /\ \A p \in Ports : queue'[p] # {} =>
                       nUnits[p] # 0 /\ grants'[p] = nUnits[p]]_vars
    <2> SUFFICES ASSUME Next, pc # "core", pc' = "core"
                 PROVE  /\ \A j \in Pending' : time'[j] > globalClock
                        /\ \A p \in Ports : queue'[p] # {} =>
                             nUnits[p] # 0 /\ grants'[p] = nUnits[p]
      BY <1>1
    <2>1. nextJob
      BY DEF Next, Loop, Done, adjustTooFar, return, advanceClock, grant, drained,
             schedule, port_schedule, vars
    <2>2. /\ QueueInv' /\ UNCHANGED <<globalClock, portVars>>
          /\ ~\E p \in Ports : has_pending(p)
      BY <1>1, <2>1, NextJobStep, NextJobDoes
    <2>3. \A j \in Pending' : time'[j] > globalClock
      <3>1. TypeOK'
        BY <1>1, <2>1, NextJobStep
      <3>2. Pending' \in SUBSET Jobs
        BY <3>1 DEF Pending, InBuckets, TypeOK
      <3>3. \A j \in Pending' : time'[j] \in Nat /\ globalClock < time'[j]
        BY <2>2, <3>1, <3>2 DEF QueueInv, NothingLate, TypeOK
      <3>4. globalClock \in Nat
        BY <1>1 DEF TypeOK
      <3>5. QED  BY <3>3, <3>4
    <2>4. ASSUME NEW p \in Ports, queue'[p] # {}
          PROVE  nUnits[p] # 0 /\ grants'[p] = nUnits[p]
      <3>1. UNCHANGED <<queue, grants>> /\ ~has_pending(p)
        BY <2>2 DEF portVars
      <3>2. /\ nUnits[p] \in Nat /\ nUnits[p] # 0 /\ granted_cycle[p] = globalClock
            /\ granted_this_cycle[p] \in Nat /\ ~(granted_this_cycle[p] < nUnits[p])
        BY <1>1, <2>4, <3>1, EventSchedulerAssumption DEF has_pending, TypeOK
      <3>3. grants[p] = granted_this_cycle[p] /\ grants[p] <= nUnits[p]
        BY <1>1, <3>2 DEF PortsCounted
      <3>4. QED  BY <3>1, <3>2, <3>3
    <2>5. QED  BY <2>3, <2>4
  <1>2. Init => PortsCounted
    BY EventSchedulerAssumption DEF Init, PortsCounted
  <1>3. QED
    BY <1>1, <1>2, QueueInit, QueueStep, PortStep, PTL DEF Spec, FixedPoint
============================================================================
