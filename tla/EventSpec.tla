----------------------------- MODULE EventSpec -----------------------------
(***************************************************************************)
(* What EventScheduler promises to the simulator: a callback scheduled for *)
(* a clock is called in that clock, not before and not after, and the      *)
(* clock does not advance past a callback that is due.  How the callbacks  *)
(* are found is left open; EventScheduler implements this.                 *)
(***************************************************************************)
EXTENDS Naturals

CONSTANT Jobs   \* callback objects

VARIABLES
  globalClock,
  due           \* [Jobs -> the clock the callback is scheduled for; 0: none]

Init == globalClock = 0 /\ due = [j \in Jobs |-> 0]

\* EventScheduler::schedule: always for a later clock.
Schedule(j) ==
  /\ due[j] = 0
  /\ due' = [due EXCEPT ![j] = due'[j]]
  /\ due'[j] \in Nat /\ due'[j] > globalClock
  /\ UNCHANGED globalClock

\* The callback is called.
Call(j) ==
  /\ due[j] = globalClock /\ due[j] # 0
  /\ due' = [due EXCEPT ![j] = 0]
  /\ UNCHANGED globalClock

\* EventScheduler::advanceClock: nothing is due any more in the old clock.
Advance ==
  /\ \A j \in Jobs : due[j] # 0 => due[j] > globalClock
  /\ globalClock' = globalClock + 1
  /\ UNCHANGED due

Next == Advance \/ \E j \in Jobs : Schedule(j) \/ Call(j)

Spec == Init /\ [][Next]_<<globalClock, due>>
============================================================================
