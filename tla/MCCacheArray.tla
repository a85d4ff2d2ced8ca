---------------------------- MODULE MCCacheArray ----------------------------
(* Two sets of two ways and four lines, three of them of one set.  Of one  *)
(* line two bytes are used, 6152 and 6153, which the skewed array looks up *)
(* in different sets.                                                      *)
EXTENDS CacheArray

MCGeometry == [assoc |-> 2, log2Sets |-> 1, log2AddrLs |-> 2, xorIndex |-> FALSE,
               confMax |-> 2, confHigh |-> 0, hawkSize |-> 4]

MCAddrs == {4096, 6152, 6153, 8196, 8200}
=============================================================================
