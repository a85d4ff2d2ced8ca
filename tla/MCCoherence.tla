---------------------------- MODULE MCCoherence ----------------------------
(* Coherence with two first-level caches and two lines, for TLC. *)
EXTENDS Coherence

\* mem/cache_test.cpp: inclusive, no directory, allocate on a miss
Opt(ways) == [inclusive |-> TRUE, directory |-> FALSE, victim |-> FALSE, allocateMiss |-> TRUE,
              justDirectory |-> FALSE, ways |-> ways, prefetchDegree |-> 0]
MCConf(l2, kinds, n) ==
    [opt |-> [c \in Cache |-> IF c = L2 THEN l2 ELSE Opt(1)], kinds |-> kinds, maxIssue |-> n,
     degrees |-> {}, maxRequests |-> 1, slowMemory |-> TRUE, nlp |-> [a \in Addr |-> <<>>]]
Directory == [Opt(1) EXCEPT !.directory = TRUE]
\* With two requests a port a prefetch starts while it has none; one of degree
\* 0 starts in a first-level cache, one of degree 1 in L2 and one of 2 nowhere.
Prefetching(base, degrees) ==
    [base EXCEPT !.maxRequests = 2, !.degrees = degrees, !.opt[L2].prefetchDegree = 1,
                 !.nlp = [a \in Addr |-> IF a = "x" THEN <<"y">> ELSE <<>>]]
\* The prefetches of a one-way L2 displace the other line.
Displacing == Prefetching(MCConf(Opt(1), {"write"}, 3), {1, 2})
MCDisplacing == {Displacing}
MCConfs ==
    {MCConf(Opt(1), {"read", "write"}, 3),
     MCConf(Opt(2), {"read", "write"}, 3),
     MCConf(Directory, {"read", "write"}, 3),
     Prefetching(MCConf(Opt(2), {"write"}, 3), {0, 1}),
     Prefetching(MCConf(Opt(2), {"write", "scb_prefetch"}, 2), {0}),
     Displacing,
     [MCConf(Opt(1), {"write"}, 3) EXCEPT !.slowMemory = FALSE],
     MCConf([Opt(1) EXCEPT !.victim = TRUE], {"specread", "write", "ncread", "scb_dirty", "scb_clean"}, 2),
     MCConf([Opt(1) EXCEPT !.allocateMiss = FALSE], {"read", "write"}, 2),
     MCConf([Directory EXCEPT !.justDirectory = TRUE], {"read", "write"}, 3)}
\* Two requests are enough for an invalidation to pass a fill.
MCPorts == {MCConf(Opt(2), {"read", "write"}, 2)}
EntryOf == [a \in Addr |-> a]
=============================================================================
