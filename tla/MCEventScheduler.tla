-------------------------- MODULE MCEventScheduler --------------------------
(* Two callbacks of different priority, the smallest queue TQueue accepts,  *)
(* a one-unit port and an unlimited one.                                   *)
EXTENDS EventScheduler

MCJobs     == {1, 2}
MCPriority == [j \in MCJobs |-> 3 - j]
MCDeltas   == {1, 7, 8}
MCUnits    == <<1, 0>>
MCReqs     == {1, 2}
============================================================================
