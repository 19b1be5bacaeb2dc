------------------------------ MODULE McpRelay ------------------------------
(***************************************************************************)
(* The relay loop of an MCP proxy session: one task that reads the client, *)
(* the server's output and its stderr, and writes what it read to the      *)
(* other side.  Models run_proxy_until's select! loop and CappedLines of   *)
(* crates/agent-guard/src/mcp_proxy/transport.rs, with the pipes between   *)
(* the three processes.  What becomes of a line is an input here (the      *)
(* verdicts are McpRequests'); what follows the loop is McpShutdown's.     *)
(***************************************************************************)
EXTENDS Naturals, Sequences

CONSTANTS
    Cap,       \* the chunks a pipe holds
    MaxLines,  \* bound of the model: the lines the client sends
    Duplex     \* the server reads its input while it has output to write

\* Assumed where the module is instantiated (McpSession).
RelayAssumption ==
    /\ Cap \in Nat \ {0}
    /\ MaxLines \in Nat
    /\ Duplex \in BOOLEAN

\* A line that one read returns, and one that takes two.
Short == <<"whole">>
Long == <<"head", "tail">>

Inputs == {"in", "stdout"}             \* the pipes the proxy reads
Pipes == Inputs \cup {"stdin", "out"}  \* and those it writes

VARIABLES
    pipe,       \* the chunks in each pipe
    partial,    \* whether the pending next_line of an input holds a line's head
    todo,       \* what the branch taken still has to write, to each side
    killing,    \* the branch taken ends the session once it wrote
    stdinOpen,  \* the proxy's end of the server's stdin: child_stdin
    draining,   \* drain_until is set
    ended,      \* why the loop ended
    stopAsked,  \* a stop signal was delivered
    client,     \* open: its end is open; rest: what it still has to write
    server      \* up: it runs; rest: what it still has to write

\* History, read by the properties only.
VARIABLES
    sent,     \* lines the client began
    written,  \* lines the server wrote
    relayed,  \* lines the proxy took from the server
    torn      \* a line was read without its head

vars == <<pipe, partial, todo, killing, stdinOpen, draining, ended, stopAsked,
          client, server, sent, written, relayed, torn>>

Ended == {"no", "ClientLeft", "ServerClosed", "Stopped", "KillMode", "Error"}

Room(p) == Len(pipe[p]) < Cap

Moved(chunk, p) == [pipe EXCEPT ![p] = Append(@, chunk)]

Drained(p) == [pipe EXCEPT ![p] = Tail(@)]

NoneHeld == [p \in Inputs |-> FALSE]

\* Faulty: a branch may be taken while another one writes.
NotEnded == ended = "no"

\* The task is at the select!: no branch is being handled.
InSelect == /\ ended = "no"
            /\ todo = [stdin |-> <<>>, out |-> <<>>]
            /\ ~killing

Init == /\ pipe = [p \in Pipes |-> <<>>]
        /\ partial = NoneHeld
        /\ todo = [stdin |-> <<>>, out |-> <<>>]
        /\ killing = FALSE
        /\ stdinOpen = TRUE
        /\ draining = FALSE
        /\ ended = "no"
        /\ stopAsked = FALSE
        /\ client = [open |-> TRUE, rest |-> <<>>]
        /\ server = [up |-> TRUE, rest |-> <<>>]
        /\ sent = 0
        /\ written = 0
        /\ relayed = 0
        /\ torn = FALSE

\* The peers, external to the proxy.
peers == <<client, server, sent, written, stopAsked>>

----------------------------------------------------------------------------
(* The branches of the select!.  A branch that completes drops the futures  *)
(* of the others, and with each what its next_line had read of a line.      *)

\* next_line took a chunk with no newline, and waits for the rest.
ReadPart(p) ==
    /\ InSelect
    /\ pipe[p] # <<>> /\ Head(pipe[p]) = "head"
    /\ p = "in" => stdinOpen
    /\ pipe' = Drained(p)
    /\ partial' = [partial EXCEPT ![p] = TRUE]
    /\ UNCHANGED <<todo, killing, stdinOpen, draining, ended, relayed, torn, peers>>

\* next_line returns a line: all of it, or the rest of one whose head is gone.
ReadLine(p) ==
    /\ InSelect
    /\ pipe[p] # <<>> /\ Head(pipe[p]) # "head"
    /\ pipe' = Drained(p)
    /\ partial' = NoneHeld
    /\ torn' = (torn \/ (Head(pipe[p]) = "tail" /\ ~partial[p]))

LineRead(p) == IF partial[p] THEN Long ELSE Short

\* The client's line is dropped, forwarded, refused, refused to end the
\* session, or a batch that goes on in part.
ClientLine(verdict) ==
    /\ ReadLine("in")
    /\ stdinOpen
    /\ todo' = [stdin |-> IF verdict \in {"forward", "split"} THEN LineRead("in")
                          ELSE <<>>,
                out |-> IF verdict \in {"deny", "kill", "split"} THEN Short
                        ELSE <<>>]
    /\ killing' = (verdict = "kill")
    /\ UNCHANGED <<stdinOpen, draining, ended, relayed, peers>>

Verdicts == {"drop", "forward", "deny", "kill", "split"}

ServerLine ==
    /\ ReadLine("stdout")
    /\ todo' = [todo EXCEPT !.out = LineRead("stdout")]
    /\ relayed' = relayed + 1
    /\ UNCHANGED <<killing, stdinOpen, draining, ended, peers>>

\* A line of stderr, or its end: the server's, or of a process it left behind.
StderrLine ==
    /\ InSelect
    /\ partial' = NoneHeld
    /\ UNCHANGED <<pipe, todo, killing, stdinOpen, draining, ended, relayed, torn,
                   peers>>

\* The client closed its end: the server's input is closed, the window armed.
ClientEof ==
    /\ InSelect
    /\ stdinOpen
    /\ pipe["in"] = <<>> /\ ~client.open
    /\ stdinOpen' = FALSE
    /\ draining' = TRUE
    /\ partial' = NoneHeld
    /\ UNCHANGED <<pipe, todo, killing, ended, relayed, torn, peers>>

End(why) ==
    /\ ended' = why
    /\ UNCHANGED <<pipe, partial, todo, killing, stdinOpen, draining, relayed,
                   torn, peers>>

\* Faulty: the session ends with the server's process, not with its output.
ServerGone == InSelect /\ ~server.up /\ End("ServerClosed")

\* A read fails, or the line is over MAX_LINE_BYTES.
ReadFails(p) == /\ InSelect
                /\ pipe[p] # <<>>
                /\ p = "in" => stdinOpen
                /\ End("Error")

ServerEof == /\ InSelect
             /\ pipe["stdout"] = <<>> /\ ~server.up
             /\ End("ServerClosed")

DrainDue == InSelect /\ draining /\ End("ClientLeft")

StopSeen == InSelect /\ stopAsked /\ End("Stopped")

----------------------------------------------------------------------------
(* write_line: the task waits here, and polls nothing else, until the pipe  *)
(* takes the whole line.                                                    *)

WriteServer ==
    /\ ended = "no"
    /\ todo.stdin # <<>>
    /\ server.up /\ Room("stdin")
    /\ pipe' = Moved(Head(todo.stdin), "stdin")
    /\ todo' = [todo EXCEPT !.stdin = Tail(@)]
    /\ UNCHANGED <<partial, killing, stdinOpen, draining, ended, relayed, torn, peers>>

\* The server is gone: the write fails, and the session with it.
WriteFails == ended = "no" /\ todo.stdin # <<>> /\ ~server.up /\ End("Error")

\* So it is if the client that closed its end has closed the other too.
ClientGone == /\ ended = "no"
              /\ todo.stdin = <<>> /\ todo.out # <<>>
              /\ ~client.open
              /\ End("Error")

WriteClient ==
    /\ ended = "no"
    /\ todo.stdin = <<>> /\ todo.out # <<>>
    /\ Room("out")
    /\ pipe' = Moved(Head(todo.out), "out")
    /\ todo' = [todo EXCEPT !.out = Tail(@)]
    /\ UNCHANGED <<partial, killing, stdinOpen, draining, ended, relayed, torn, peers>>

EndKilled == /\ ended = "no"
             /\ killing /\ todo = [stdin |-> <<>>, out |-> <<>>]
             /\ End("KillMode")

----------------------------------------------------------------------------
(* The client and the server. *)

proxy == <<partial, todo, killing, stdinOpen, draining, ended, relayed, torn>>

ClientBegins(line) ==
    /\ client.open /\ client.rest = <<>>
    /\ sent < MaxLines
    /\ client' = [client EXCEPT !.rest = line]
    /\ sent' = sent + 1
    /\ UNCHANGED <<pipe, server, written, stopAsked, proxy>>

ClientWrites ==
    /\ client.rest # <<>> /\ Room("in")
    /\ pipe' = Moved(Head(client.rest), "in")
    /\ client' = [client EXCEPT !.rest = Tail(@)]
    /\ UNCHANGED <<server, sent, written, stopAsked, proxy>>

ClientReads ==
    /\ pipe["out"] # <<>>
    /\ pipe' = Drained("out")
    /\ UNCHANGED <<peers, proxy>>

ClientCloses ==
    /\ client.open /\ client.rest = <<>>
    /\ client' = [client EXCEPT !.open = FALSE]
    /\ UNCHANGED <<pipe, server, sent, written, stopAsked, proxy>>

\* The server reads a chunk, and answers the line it ends, or does not.
ServerReads(answer) ==
    /\ server.up /\ pipe["stdin"] # <<>>
    /\ Duplex \/ server.rest = <<>>
    /\ Head(pipe["stdin"]) = "head" => answer = <<>>
    /\ pipe' = Drained("stdin")
    /\ server' = [server EXCEPT !.rest = @ \o answer]
    /\ UNCHANGED <<client, sent, written, stopAsked, proxy>>

ServerWrites ==
    /\ server.up /\ server.rest # <<>> /\ Room("stdout")
    /\ pipe' = Moved(Head(server.rest), "stdout")
    /\ server' = [server EXCEPT !.rest = Tail(@)]
    /\ written' = IF Head(server.rest) = "head" THEN written ELSE written + 1
    /\ UNCHANGED <<client, sent, stopAsked, proxy>>

ServerExits ==
    /\ server.up /\ server.rest = <<>>
    /\ server' = [server EXCEPT !.up = FALSE]
    /\ UNCHANGED <<pipe, client, sent, written, stopAsked, proxy>>

AskToStop ==
    /\ ~stopAsked
    /\ stopAsked' = TRUE
    /\ UNCHANGED <<pipe, client, server, sent, written, proxy>>

----------------------------------------------------------------------------
Proxy == \/ \E p \in Inputs : ReadPart(p) \/ ReadFails(p)
         \/ \E v \in Verdicts : ClientLine(v)
         \/ ServerLine \/ StderrLine
         \/ ClientEof \/ ServerEof \/ DrainDue \/ StopSeen
         \/ WriteServer \/ WriteFails \/ WriteClient \/ ClientGone \/ EndKilled

Peers == \/ \E line \in {Short, Long} : ClientBegins(line)
         \/ ClientWrites \/ ClientReads \/ ClientCloses
         \/ \E answer \in {<<>>, Short, Long} : ServerReads(answer)
         \/ ServerWrites \/ ServerExits
         \/ AskToStop

Next == Proxy \/ Peers

Spec == Init /\ [][Next]_vars

\* select! polls its branches in a random order, so one that stays ready is
\* taken in the end; a write that can go on goes on; and both peers keep at it:
\* the client reads what it is sent, the server reads and writes.
Fairness ==
    /\ \A p \in Inputs : SF_vars(ReadPart(p))
    /\ SF_vars(\E v \in Verdicts : ClientLine(v))
    /\ SF_vars(ServerLine) /\ SF_vars(ClientEof) /\ SF_vars(ServerEof)
    /\ SF_vars(DrainDue) /\ SF_vars(StopSeen)
    /\ WF_vars(WriteServer) /\ WF_vars(WriteFails) /\ WF_vars(WriteClient)
    /\ WF_vars(EndKilled)
    /\ WF_vars(ClientReads)
    /\ WF_vars(\E answer \in {<<>>, Short, Long} : ServerReads(answer))
    /\ WF_vars(ServerWrites)

FairSpec == Spec /\ Fairness

----------------------------------------------------------------------------
Chunks == {"whole", "head", "tail"}

TypeOK == /\ pipe \in [Pipes -> Seq(Chunks)]
          /\ \A p \in Pipes : Len(pipe[p]) <= Cap
          /\ partial \in [Inputs -> BOOLEAN]
          /\ todo \in [stdin : Seq(Chunks), out : Seq(Chunks)]
          /\ ended \in Ended
          /\ client \in [open : BOOLEAN, rest : Seq(Chunks)]
          /\ server \in [up : BOOLEAN, rest : Seq(Chunks)]

\* What the client reads is whole lines: a denial and a relayed answer never
\* interleave, there being one writer to the client.
LinesNeverInterleave ==
    LET out == pipe["out"] \o todo.out
    IN  \A i \in 1 .. Len(out) - 1 : out[i] = "head" <=> out[i + 1] = "tail"

\* A server that exits leaves nothing behind it: every line it wrote is relayed
\* before the session ends on its account.
NothingLeftUnrelayed == ended = "ServerClosed" => relayed = written

\* The loop is left once the client closed its end, or the proxy is asked to
\* stop.
LoopEnds == stopAsked \/ ~client.open ~> ended # "no"

\* "Pass-through forwards the original line bytes": no line is read without its
\* beginning.
LinesArriveWhole == ~torn
=============================================================================
