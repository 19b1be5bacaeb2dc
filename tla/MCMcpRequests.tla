--------------------------- MODULE MCMcpRequests ---------------------------
(* A small instance of McpRequests: three ids over a map of two entries. *)
EXTENDS McpRequests, TLC

\* The ids differ in nothing but their name.
Symmetry == Permutations(Ids)
=============================================================================
