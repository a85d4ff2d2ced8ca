--------------------------- MODULE EventScheduler ---------------------------
(***************************************************************************)
(* The simulation kernel: the calendar queue of callbacks (core/tqueue.hpp,*)
(* class TQueue), the loop that advances the clock (core/callback.hpp,     *)
(* EventScheduler::advanceClock) and the priority-managed ports it drains  *)
(* (core/port.cpp, PortPipePriority and PortUnlimitedPriority).            *)
(*                                                                         *)
(* A bucket of the queue is a list sorted by priority; here it is the set  *)
(* of its callbacks, of which one with the least priority value is first.  *)
(* TQueue::remove, TQueue::reschedule and the flush_transient of the ports *)
(* are never called by the simulator and are left out.                     *)
(***************************************************************************)
EXTENDS Integers, FiniteSets, FiniteSetsExt

CONSTANTS
  Jobs,        \* callback objects
  priority,    \* [Jobs -> Nat]: CallbackBase::getPriority
  AccessSize,  \* buckets of the queue
  MaxTime,     \* a time later than every other: the far heap is empty
  Deltas,      \* delays callbacks are scheduled with
  NPorts,      \* priority-managed ports, in the order they were registered
  nUnits,      \* [1..NPorts -> Nat]: 0 stands for PortUnlimitedPriority
  Reqs,        \* port requests, named by their priority (the Dinst ID)
  MaxClock     \* bound on the clock

Ports == 1..NPorts

ASSUME EventSchedulerAssumption ==
  /\ IsFiniteSet(Jobs) /\ priority \in [Jobs -> Nat]
  /\ AccessSize \in Nat /\ AccessSize > 7
  /\ MaxClock \in Nat /\ MaxTime \in Nat /\ MaxTime > MaxClock
  /\ Deltas \subseteq Nat \ {0}
  /\ NPorts \in Nat \ {0} /\ nUnits \in [Ports -> Nat]
  /\ Reqs \subseteq Nat /\ IsFiniteSet(Reqs)

VARIABLES
  globalClock,
  pc,           \* where the simulator is: see Control
  access,       \* TQueue::access, the buckets
  minTime,      \* the time of the bucket at minPos
  minPos,
  nNodes,       \* callbacks in the buckets
  tooFar,       \* the heap of callbacks beyond the buckets
  minTooFar,
  time,         \* [Jobs -> TQTime]
  port,         \* the port drain_port_queues is at
  queue,        \* [Ports -> requests waiting]
  granted_this_cycle, granted_cycle,
  requests,     \* requests made so far
  grants        \* history: [Ports -> requests granted in the current clock]

tqVars   == <<access, minTime, minPos, nNodes, tooFar, minTooFar, time>>
portVars == <<port, queue, granted_this_cycle, granted_cycle, requests, grants>>
vars     == <<globalClock, pc, tqVars, portVars>>

\* "core": the cores run, outside advanceClock.  "jobs": advanceClock is about
\* to call nextJob.  "call", "grant": a callback of the queue, of a port, runs.
\* "drain": drain_port_queues is at `port'.
Control == {"core", "jobs", "call", "drain", "grant"}

InBuckets == UNION {access[p] : p \in 0..AccessSize-1}
Pending   == InBuckets \cup tooFar

TypeOK ==
  /\ globalClock \in 0..MaxClock /\ pc \in Control
  /\ access \in [0..AccessSize-1 -> SUBSET Jobs]
  /\ minTime \in Nat /\ minPos \in 0..AccessSize-1 /\ nNodes \in Nat
  /\ tooFar \subseteq Jobs /\ minTooFar \in Nat
  /\ time \in [Jobs -> Nat]
  /\ port \in Ports /\ queue \in [Ports -> SUBSET Reqs]
  /\ granted_this_cycle \in [Ports -> Nat] /\ granted_cycle \in [Ports -> Nat]
  /\ requests \subseteq Reqs /\ grants \in [Ports -> Nat]

----------------------------------------------------------------------------
(* TQueue *)

\* The bucket of a time that is less than AccessSize after minTime.
Bucket(t) == (minPos + t - minTime) % AccessSize

\* TQueue::addNode, for callbacks whose times are t[j].
addNodes(J, t) ==
  /\ access' = [p \in 0..AccessSize-1 |-> access[p] \cup {j \in J : Bucket(t[j]) = p}]
  /\ nNodes' = nNodes + Cardinality(J)

\* TQueue::insert
insert(j, t) ==
  /\ time' = [time EXCEPT ![j] = t]
  /\ \/ /\ t - minTime < AccessSize
        /\ addNodes({j}, time')
        /\ UNCHANGED <<tooFar, minTooFar>>
     \/ /\ t - minTime >= AccessSize
        /\ tooFar' = tooFar \cup {j}
        /\ minTooFar' = IF minTooFar > t THEN t ELSE minTooFar
        /\ UNCHANGED <<access, nNodes>>
  /\ UNCHANGED <<minTime, minPos>>

\* EventScheduler::schedule, by a core or by a callback that is being called.
schedule(j, delta) ==
  /\ pc \in {"core", "call", "grant"}
  /\ j \notin Pending
  /\ globalClock + delta <= MaxClock
  /\ insert(j, globalClock + delta)
  /\ UNCHANGED <<globalClock, pc, portVars>>

\* The first test of TQueue::nextJob: the bucket of the current clock.
CommonCase == access[minPos] # {} /\ minTime = globalClock

\* Mutant: the heap is looked at one clock too late.
HeapDue_late == minTooFar < globalClock

\* nextJob looks at the heap once its earliest callback is due.
HeapDue == minTooFar <= globalClock

\* TQueue::adjustTooFar moves what has come close enough into the buckets.
adjustTooFar ==
  LET near == {j \in tooFar : time[j] - minTime < AccessSize}
      far  == tooFar \ near IN
  /\ pc = "jobs" /\ ~CommonCase
  /\ HeapDue
  /\ addNodes(near, time)
  /\ tooFar' = far
  /\ minTooFar' = IF far = {} THEN MaxTime ELSE Min({time[j] : j \in far})
  /\ UNCHANGED <<globalClock, pc, minTime, minPos, time, portVars>>

\* The buckets nextJob passes: up to the first one that is not empty, or to
\* the one of the current clock.
Passed ==
  LET hits == {k \in 0..(globalClock - minTime) :
                 access[(minPos + k) % AccessSize] # {}}
  IN IF hits = {} THEN globalClock - minTime ELSE Min(hits)

\* Mutant: the callbacks of a bucket are called in any order.
take_any(p) ==
  /\ \E j \in access[p] : /\ access' = [access EXCEPT ![p] = @ \ {j}]
                          /\ time' = [time EXCEPT ![j] = 0]
  /\ nNodes' = nNodes - 1
  /\ pc' = "call"

\* nextJob takes the first callback of bucket p and advanceClock calls it; the
\* object then returns to its pool, and its time means nothing any more.
take(p) ==
  /\ \E j \in access[p] :
       /\ \A k \in access[p] : priority[j] <= priority[k]
       /\ access' = [access EXCEPT ![p] = @ \ {j}]
       /\ time' = [time EXCEPT ![j] = 0]
  /\ nNodes' = nNodes - 1
  /\ pc' = "call"

\* Mutant: the count of an earlier clock is taken for this one's.
has_pending_stale(p) ==
  queue[p] # {} /\ (nUnits[p] = 0 \/ granted_this_cycle[p] < nUnits[p])

\* PortPipePriority::has_pending and PortUnlimitedPriority::has_pending
has_pending(p) ==
  /\ queue[p] # {}
  /\ \/ nUnits[p] = 0
     \/ granted_cycle[p] # globalClock
     \/ granted_this_cycle[p] < nUnits[p]

\* nextJob found nothing: advanceClock drains the ports if a request can be
\* granted, or else is done with this clock.
noJob ==
  /\ pc' = IF \E p \in Ports : has_pending(p) THEN "drain" ELSE "core"
  /\ UNCHANGED <<access, nNodes, time, portVars>>

\* TQueue::nextJob once the heap holds nothing that is due.
nextJob ==
  LET p == (minPos + Passed) % AccessSize IN
  /\ pc = "jobs"
  /\ \/ /\ CommonCase
        /\ take(minPos)
        /\ UNCHANGED <<minTime, minPos, portVars>>
     \/ /\ ~CommonCase /\ ~HeapDue
        /\ nNodes = 0
        /\ minTime' = globalClock /\ minPos' = 0
        /\ noJob
     \/ /\ ~CommonCase /\ ~HeapDue
        /\ nNodes # 0
        /\ minTime' = minTime + Passed /\ minPos' = p
        /\ \/ access[p] # {} /\ take(p) /\ UNCHANGED portVars
           \/ access[p] = {} /\ noJob
  /\ UNCHANGED <<globalClock, tooFar, minTooFar>>

\* A callback returns to advanceClock or to drain_pending.
return ==
  /\ \/ pc = "call"  /\ pc' = "jobs"
     \/ pc = "grant" /\ pc' = "drain"
  /\ UNCHANGED <<globalClock, tqVars, portVars>>

\* EventScheduler::advanceClock
advanceClock ==
  /\ pc = "core" /\ globalClock < MaxClock
  /\ globalClock' = globalClock + 1
  /\ pc' = "jobs"
  /\ grants' = [p \in Ports |-> 0]
  /\ UNCHANGED <<tqVars, port, queue, granted_this_cycle, granted_cycle, requests>>

----------------------------------------------------------------------------
(* Priority-managed ports *)

\* PortPipePriority::schedule and PortUnlimitedPriority::schedule.  The bound
\* leaves the requests the clocks they need.
port_schedule(p, r) ==
  /\ pc \in {"core", "call", "grant"}
  /\ r \notin requests
  /\ globalClock + Cardinality(Reqs) <= MaxClock
  /\ requests' = requests \cup {r}
  /\ queue' = [queue EXCEPT ![p] = @ \cup {r}]
  /\ UNCHANGED <<globalClock, pc, tqVars, port, granted_this_cycle, granted_cycle, grants>>

\* Mutant: the count starts again at every drain of the clock.
align_drain(p) == 0

\* PortPipePriority::align_cycle; an unlimited port counts nothing.
align_cycle(p) == IF granted_cycle[p] # globalClock THEN 0 ELSE granted_this_cycle[p]

\* The loop condition of PortPipePriority::drain_pending and of
\* PortUnlimitedPriority::drain_pending
can_grant(p) == queue[p] # {} /\ (nUnits[p] = 0 \/ align_cycle(p) < nUnits[p])

count(p, n) ==
  /\ granted_this_cycle' = [granted_this_cycle EXCEPT ![p] = IF nUnits[p] = 0 THEN @ ELSE n]
  /\ granted_cycle' = [granted_cycle EXCEPT ![p] = IF nUnits[p] = 0 THEN @ ELSE globalClock]

\* drain_port_queues and drain_pending of the port it is at: one turn of the
\* loop grants the oldest request.
grant ==
  /\ pc = "drain" /\ can_grant(port)
  /\ queue' = [queue EXCEPT ![port] = @ \ {Min(@)}]
  /\ count(port, align_cycle(port) + 1)
  /\ grants' = [grants EXCEPT ![port] = @ + 1]
  /\ pc' = "grant"
  /\ UNCHANGED <<globalClock, tqVars, port, requests>>

\* Mutant: the walk over the ports does not start again.
drained_past ==
  /\ pc = "drain" /\ ~can_grant(port)
  /\ count(port, align_cycle(port))
  /\ port' = port + 1
  /\ pc' = IF port < NPorts THEN "drain" ELSE "jobs"
  /\ UNCHANGED <<globalClock, tqVars, queue, requests, grants>>

\* The loop ends: the next port, or back to the callbacks.
drained ==
  /\ pc = "drain" /\ ~can_grant(port)
  /\ count(port, align_cycle(port))
  /\ port' = IF port < NPorts THEN port + 1 ELSE 1
  /\ pc' = IF port < NPorts THEN "drain" ELSE "jobs"
  /\ UNCHANGED <<globalClock, tqVars, queue, requests, grants>>

----------------------------------------------------------------------------
Init ==
  /\ globalClock = 0 /\ pc = "core"
  /\ access = [p \in 0..AccessSize-1 |-> {}]
  /\ minTime = 0 /\ minPos = 0 /\ nNodes = 0
  /\ tooFar = {} /\ minTooFar = MaxTime
  /\ time = [j \in Jobs |-> 0]
  /\ port = 1 /\ queue = [p \in Ports |-> {}]
  /\ granted_this_cycle = [p \in Ports |-> 0]
  /\ granted_cycle = [p \in Ports |-> 0]
  /\ requests = {} /\ grants = [p \in Ports |-> 0]

Loop == adjustTooFar \/ nextJob \/ return \/ advanceClock \/ grant \/ drained

Done == pc = "core" /\ globalClock = MaxClock /\ UNCHANGED vars

Next ==
  \/ Loop
  \/ \E j \in Jobs, delta \in Deltas : schedule(j, delta)
  \/ \E p \in Ports, r \in Reqs : port_schedule(p, r)
  \/ Done

Spec == Init /\ [][Next]_vars

\* The simulator's main loop keeps calling advanceClock.
FairSpec == Spec /\ WF_vars(Loop)

----------------------------------------------------------------------------
(* Properties *)

\* Every callback is called in exactly the clock it was scheduled for, through
\* the buckets, their reuse after AccessSize clocks, and the heap.
Events == INSTANCE EventSpec WITH
            due <- [j \in Jobs |-> IF j \in Pending THEN time[j] ELSE 0]

CallsOnTime == Events!Spec

\* STRICT_PRIORITY: of the callbacks due in the current clock, wherever they
\* wait, the one with the least priority value is called first.
StrictPriority ==
  [][\A j \in Pending \ Pending' : \A k \in Pending :
        time[k] = globalClock => priority[j] <= priority[k]]_vars

\* PortPipePriority: "Each cycle, at most nUnits queued requests are granted".
GrantsBounded ==
  \A p \in Ports : nUnits[p] # 0 => grants[p] <= nUnits[p]

\* advanceClock: "Repeat until both are empty."  When it returns, no callback
\* is due and a request waits only at a port that has granted all its units.
FixedPoint ==
  [][pc # "core" /\ pc' = "core" =>
       /\ \A j \in Pending' : time'[j] > globalClock
       /\ \A p \in Ports : queue'[p] # {} => nUnits[p] # 0 /\ grants'[p] = nUnits[p]]_vars

\* docs/debugging.md: "Once scheduled, the callback will fire"; and a request
\* is granted, though older ones may pass it.
EverythingHappens ==
  /\ \A j \in Jobs : j \in Pending ~> j \notin Pending
  /\ \A r \in Reqs : r \in requests ~> \A p \in Ports : r \notin queue[p]
============================================================================
