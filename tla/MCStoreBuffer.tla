--------------------------- MODULE MCStoreBuffer ---------------------------
(* The store buffer on up to four lines of two words; see README.md for what each *)
(* configuration of this module turns on.                               *)
EXTENDS StoreBuffer

CONSTANTS l1, l2, l3, l4

FourLines == {l1, l2, l3, l4}
MCLines   == {l1, l2, l3}
OneLine   == {l1}
TwoLines  == {l1, l2}
MCWords   == {0, 1}
OneWord   == {0}
Zeroed    == {FALSE}
NoLines   == {}
AnyBool   == BOOLEAN
============================================================================
