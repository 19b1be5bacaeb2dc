----------------------------- MODULE MCMcpRelay -----------------------------
(* Small instances of McpRelay: pipes of one chunk, two client lines. *)
EXTENDS McpRelay
=============================================================================
