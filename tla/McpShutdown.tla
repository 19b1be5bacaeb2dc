----------------------------- MODULE McpShutdown -----------------------------
(***************************************************************************)
(* How an MCP proxy session stops its server once the relay loop ended:    *)
(* the end of run_proxy_until, stop_server and Server of                   *)
(* crates/agent-guard/src/mcp_proxy/transport.rs, on unix.  The server is  *)
(* a process group: the launcher the proxy spawned, and what it started.   *)
(***************************************************************************)
EXTENDS Naturals, FiniteSets

CONSTANTS
    Launcher,  \* the spawned process, which leads the group
    Helpers    \* the processes it may start in its group

ASSUME LauncherAssumption == Launcher \notin Helpers

Members == {Launcher} \cup Helpers

VARIABLES
    ended,   \* why the relay loop ended
    step,    \* where the proxy is
    timeUp,  \* the deadline of stop_server passed
    reaped,  \* the launcher was waited for
    proc,    \* the state of each process of the group
    got,     \* the signals each was sent
    obeys    \* whether each ends on SIGTERM

\* History, read by the properties only.
VARIABLE stray  \* a signal was sent to a group id that is free

vars == <<ended, step, timeUp, reaped, proc, got, obeys, stray>>

Ended == {"KillMode", "ServerClosed", "ClientLeft", "Stopped", "Error"}

\* "leave": the loop was just left.  The others are where the proxy awaits:
\* the exit of a server that closed its output, the exit of the launcher it
\* asked to stop, the end of the group, the exit of what it killed.
Awaits == {"grace", "wait", "group", "reap"}
Steps == {"leave", "returned", "dropped"} \cup Awaits

Running == {m \in Members : proc[m] = "running"}

Init == /\ ended \in Ended
        /\ step = "leave"
        /\ timeUp = FALSE
        /\ reaped = FALSE
        /\ proc \in [Members -> {"none", "running", "exited"}]
        /\ proc[Launcher] # "none"
        /\ \A h \in Helpers : proc[h] # "exited"
        /\ got = [m \in Members |-> {}]
        /\ obeys \in [Members -> BOOLEAN]
        /\ stray = FALSE

\* Faulty: the group is signalled whether or not it is there.
Always(gone) == TRUE

\* signal_group: once the launcher is reaped, only while the group answers.
\* Until then the id is the server's, and a launcher that exited answers.
Reaches(gone) == ~gone \/ Running # {}

\* Sending s to the group.  gone: the launcher has been reaped.
Signal(s, gone) ==
    /\ got' = [m \in Members |-> IF Reaches(gone) /\ m \in Running
                                 THEN got[m] \cup {s} ELSE got[m]]
    /\ stray' = (stray \/ (Reaches(gone) /\ gone /\ Running = {}))

\* The launcher has exited and is waited for.
Waited == /\ proc[Launcher] = "exited"
          /\ reaped' = TRUE
          /\ proc' = [proc EXCEPT ![Launcher] = "gone"]

----------------------------------------------------------------------------
\* A server that closed its output is given the grace to exit on its own.
LeaveClosed == /\ step = "leave" /\ ended = "ServerClosed"
               /\ step' = "grace"
               /\ UNCHANGED <<ended, timeUp, reaped, proc, got, obeys, stray>>

\* Otherwise the group is asked to stop at once ...
LeaveAsking == /\ step = "leave" /\ ended \in {"ClientLeft", "Stopped", "Error"}
               /\ Signal("term", FALSE)
               /\ step' = "wait"
               /\ UNCHANGED <<ended, timeUp, reaped, proc, obeys>>

\* ... or, in kill mode, killed.
LeaveKilling == /\ step = "leave" /\ ended = "KillMode"
                /\ Signal("kill", FALSE)
                /\ step' = "reap"
                /\ UNCHANGED <<ended, timeUp, reaped, proc, obeys>>

\* The grace is over, by the launcher's exit or by the clock: the group is
\* asked to stop.
GraceExited == /\ step = "grace"
               /\ Waited
               /\ Signal("term", TRUE)
               /\ step' = "group"
               /\ UNCHANGED <<ended, timeUp, obeys>>

GraceElapsed == /\ step = "grace"
                /\ Signal("term", FALSE)
                /\ step' = "wait"
                /\ UNCHANGED <<ended, timeUp, reaped, proc, obeys>>

\* The launcher stopped, or the deadline passed, before it did.
WaitExited == /\ step = "wait"
              /\ Waited
              /\ step' = "group"
              /\ UNCHANGED <<ended, timeUp, got, obeys, stray>>

\* Faulty: the deadline is not for a launcher that goes on.
TimeUpOnceReaped == /\ step = "group"
                    /\ timeUp' = TRUE
                    /\ UNCHANGED <<ended, step, reaped, proc, got, obeys, stray>>

TimeUp == /\ step \in {"wait", "group"}
          /\ timeUp' = TRUE
          /\ step' = "group"
          /\ UNCHANGED <<ended, reaped, proc, got, obeys, stray>>

\* Faulty: the launcher's exit ends the wait for the group ...
LauncherGone == reaped \/ timeUp

\* group_gone_by is done.
GroupGone == (reaped /\ Running = {}) \/ timeUp

\* Faulty: ... and there is nothing to kill after a launcher that stopped.
KillUnlessExited ==
    /\ step = "group" /\ GroupGone
    /\ IF reaped THEN UNCHANGED <<got, stray>> ELSE Signal("kill", FALSE)
    /\ step' = IF reaped THEN "returned" ELSE "reap"
    /\ UNCHANGED <<ended, timeUp, reaped, proc, obeys>>

\* What is left of the group is killed.
Kill == /\ step = "group" /\ GroupGone
        /\ Signal("kill", reaped)
        /\ step' = IF reaped THEN "returned" ELSE "reap"
        /\ UNCHANGED <<ended, timeUp, reaped, proc, obeys>>

Reap == /\ step = "reap"
        /\ Waited
        /\ step' = "returned"
        /\ UNCHANGED <<ended, timeUp, got, obeys, stray>>

\* The proxy's future is dropped where it awaits: Drop for Server.
Dropped == /\ step \in Awaits
           /\ IF reaped THEN UNCHANGED <<got, stray>> ELSE Signal("kill", FALSE)
           /\ step' = "dropped"
           /\ UNCHANGED <<ended, timeUp, reaped, proc, obeys>>

----------------------------------------------------------------------------
(* The processes of the group. *)

Gone(m) == IF m = Launcher THEN "exited" ELSE "gone"

\* A signalled process ends ...
Dies(m) == /\ proc[m] = "running"
           /\ "kill" \in got[m] \/ ("term" \in got[m] /\ obeys[m])
           /\ proc' = [proc EXCEPT ![m] = Gone(m)]
           /\ UNCHANGED <<ended, step, timeUp, reaped, got, obeys, stray>>

\* ... and any may end of itself.
Exits(m) == /\ proc[m] = "running"
            /\ proc' = [proc EXCEPT ![m] = Gone(m)]
            /\ UNCHANGED <<ended, step, timeUp, reaped, got, obeys, stray>>

Starts(h) == /\ proc[Launcher] = "running" /\ "kill" \notin got[Launcher]
             /\ proc[h] = "none"
             /\ proc' = [proc EXCEPT ![h] = "running"]
             /\ UNCHANGED <<ended, step, timeUp, reaped, got, obeys, stray>>

Proxy == \/ LeaveClosed \/ LeaveAsking \/ LeaveKilling
         \/ GraceExited \/ GraceElapsed
         \/ WaitExited \/ TimeUp
         \/ Kill \/ Reap

Next == \/ Proxy
        \/ Dropped
        \/ \E m \in Members : Dies(m) \/ Exits(m)
        \/ \E h \in Helpers : Starts(h)

Spec == Init /\ [][Next]_vars

----------------------------------------------------------------------------
TypeOK == /\ ended \in Ended
          /\ step \in Steps
          /\ timeUp \in BOOLEAN
          /\ reaped \in BOOLEAN
          /\ proc \in [Members -> {"none", "running", "exited", "gone"}]
          /\ proc[Launcher] # "none"
          /\ reaped <=> proc[Launcher] = "gone"
          /\ \A h \in Helpers : proc[h] # "exited"
          /\ got \in [Members -> SUBSET {"term", "kill"}]
          /\ obeys \in [Members -> BOOLEAN]
          /\ stray \in BOOLEAN

\* "Its server never outlives it", "always reaped": when the proxy returns, the
\* launcher was waited for, and every process of the group was killed or is
\* gone; so they are when the proxy is dropped before it waited for the launcher.
NothingLeftRunning ==
    /\ step = "returned" => reaped
    /\ step = "returned" \/ (step = "dropped" /\ ~reaped) =>
          \A m \in Running : "kill" \in got[m]

\* A launcher that exits at once on SIGTERM does not cut its child's grace
\* short: outside kill mode, and unless the proxy itself is dropped, no process
\* is killed before the grace is over.
KilledOnlyAfterTheGrace ==
    [][step' # "dropped" /\ ended # "KillMode" =>
          \A m \in Members : "kill" \in got'[m] \ got[m] => timeUp]_vars

\* No signal goes to a group id that is no longer the server's.
NoStraySignal == ~stray
=============================================================================
