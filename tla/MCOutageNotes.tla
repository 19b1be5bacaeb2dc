--------------------------- MODULE MCOutageNotes ---------------------------
(* Three hooks and two codes for TLC. *)
EXTENDS OutageNotes, TLC

CONSTANTS h1, h2, h3

MCHooks == {h1, h2, h3}
HookSymmetry == Permutations(MCHooks)
=============================================================================
