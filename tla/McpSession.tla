----------------------------- MODULE McpSession -----------------------------
(***************************************************************************)
(* A whole MCP proxy session: run_proxy_until of                           *)
(* crates/agent-guard/src/mcp_proxy/transport.rs from its first line to    *)
(* its return.  The relay loop is McpRelay's; how the loop ended decides   *)
(* how the server is stopped, which is McpShutdown's.  The proxy may be    *)
(* dropped at any await of either.                                         *)
(***************************************************************************)
EXTENDS McpShutdown, Sequences

CONSTANTS Cap, MaxLines, Duplex   \* of the relay loop

VARIABLES
    pipe, partial, todo, killing, stdinOpen, draining, stopAsked, client,
    server, sent, written, relayed, torn,   \* of the relay loop
    loopEnded                               \* its ended

relayVars == <<pipe, partial, todo, killing, stdinOpen, draining, loopEnded,
               stopAsked, client, server, sent, written, relayed, torn>>

Relay == INSTANCE McpRelay WITH ended <- loopEnded

ASSUME SessionAssumption == Relay!RelayAssumption

sessionVars == <<vars, relayVars>>

SessionInit ==
    /\ Relay!Init
    /\ step = "relaying"
    /\ ended = "Error"       \* not read before the loop has ended
    /\ timeUp = FALSE /\ reaped = FALSE /\ stray = FALSE
    /\ proc = [m \in Members |-> IF m = Launcher THEN "running" ELSE "none"]
    /\ got = [m \in Members |-> {}]
    /\ obeys = [m \in Members |-> TRUE]

RelayStep ==
    /\ step = "relaying" /\ loopEnded = "no"
    /\ Relay!Next
    /\ UNCHANGED vars

\* The group when the loop is left, or dropped.  What its processes did while
\* the loop ran, and what they make of SIGTERM, is chosen here: as long as the
\* server's output is open, one of them has it.
GroupIsNow ==
    /\ proc' \in [Members -> {"none", "running", "exited"}]
    /\ proc'[Launcher] # "none"
    /\ \A h \in Helpers : proc'[h] # "exited"
    /\ server.up => \E m \in Members : proc'[m] = "running"
    /\ obeys' \in [Members -> BOOLEAN]

\* Nothing reads or writes the pipes any more.
PipesClose ==
    /\ pipe' = [p \in Relay!Pipes |-> <<>>]
    /\ partial' = Relay!NoneHeld
    /\ todo' = [stdin |-> <<>>, out |-> <<>>]
    /\ killing' = FALSE /\ stdinOpen' = FALSE /\ draining' = FALSE
    /\ stopAsked' = FALSE /\ torn' = FALSE
    /\ client' = [open |-> TRUE, rest |-> <<>>]
    /\ server' = [up |-> FALSE, rest |-> <<>>]
    /\ sent' = 0 /\ written' = 0 /\ relayed' = 0

\* The loop is left, with why it ended.
ShutDown ==
    /\ step = "relaying" /\ loopEnded # "no"
    /\ ended' = loopEnded
    /\ step' = "leave"
    /\ GroupIsNow
    /\ PipesClose
    /\ UNCHANGED <<loopEnded, timeUp, reaped, got, stray>>

\* The proxy's future is dropped in the loop: Drop for Server.
DroppedInLoop ==
    /\ step = "relaying" /\ loopEnded = "no"
    /\ step' = "dropped"
    /\ loopEnded' = "Error"
    /\ GroupIsNow
    /\ got' = [m \in Members |-> IF proc'[m] = "running" THEN {"kill"} ELSE {}]
    /\ PipesClose
    /\ UNCHANGED <<ended, timeUp, reaped, stray>>

ShutdownStep ==
    /\ step # "relaying"
    /\ Next
    /\ UNCHANGED relayVars

SessionNext == RelayStep \/ ShutDown \/ DroppedInLoop \/ ShutdownStep

\* The fairness of the two parts, and the loop, once it ended, is left.
SessionSpec ==
    /\ SessionInit /\ [][SessionNext]_sessionVars
    /\ Relay!Fairness
    /\ WF_sessionVars(ShutDown)
    /\ WF_sessionVars(ShutdownStep /\ Proxy)
    /\ \A m \in Members : WF_sessionVars(ShutdownStep /\ Dies(m))

-----------------------------------------------------------------------------
SessionTypeOK == IF step = "relaying" THEN Relay!TypeOK ELSE TypeOK

\* What the client reads is whole lines (McpRelay).
LinesNeverInterleave == Relay!LinesNeverInterleave

\* A server that exits leaves no line behind it (McpRelay).
NothingLeftUnrelayed == step = "relaying" => Relay!NothingLeftUnrelayed

\* The session ends as a whole: once the client closed its end or the proxy is
\* asked to stop, the loop is left and the server is stopped, whatever it makes
\* of the closing of its input and of SIGTERM.
SessionEnds == stopAsked \/ ~client.open ~> step \in {"returned", "dropped"}
=============================================================================
