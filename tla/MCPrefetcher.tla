---------------------------- MODULE MCPrefetcher ----------------------------
(* Two loads that share the entry of the table, on four pages.  An int     *)
(* holds a stride of one page backwards, its least value, and none forwards. *)
EXTENDS Prefetcher

MCPCs == {4, 20}
MCLoads == {4096 * n : n \in 0..3}
=============================================================================
