---------------------------- MODULE MCMcpSession ----------------------------
(* A small instance of McpSession: a launcher and a helper, pipes of one   *)
(* chunk, so that the write of a long line waits midway, two client lines. *)
EXTENDS McpSession
=============================================================================
