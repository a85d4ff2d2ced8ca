-------------------------- MODULE MCLoadStoreUnit --------------------------
(* Short programs of loads and stores on one or two lines of one word.     *)
EXTENDS LoadStoreUnit

CONSTANTS l1, l2

TwoLines == {l1, l2}
OneWord  == {0}
Cleared  == {FALSE}

LD(l) == [op |-> "LD", line |-> l, word |-> 0]
ST(l) == [op |-> "ST", line |-> l, word |-> 0]

\* A store, two loads that may hit it, a store to the other line.
Mixed == <<ST(l1), LD(l1), LD(l2), ST(l2)>>

\* More loads than the load queue has entries.
ThreeLoads == <<LD(l1), LD(l2), LD(l1)>>

\* Two stores that compete for a store buffer of one line.
Pressure == <<ST(l1), ST(l2), LD(l1), LD(l2)>>
============================================================================
