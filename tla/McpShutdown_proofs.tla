------------------------- MODULE McpShutdown_proofs -------------------------
(***************************************************************************)
(* Theorems about McpShutdown, for any number of helpers.                  *)
(***************************************************************************)
EXTENDS McpShutdown, TLAPS

\* Everything that runs has been killed, and can start nothing more.
AllKilled == \A m \in Running : "kill" \in got[m]

\* So it is from the moment the proxy kills, or is dropped in time.
Killed == /\ step \in {"reap", "returned"} => AllKilled
          /\ step = "dropped" /\ ~reaped => AllKilled
          /\ step = "returned" => reaped

Inv == TypeOK /\ Killed

LEMMA LauncherIsMember == Launcher \in Members /\ Helpers \subseteq Members
BY DEF Members

LEMMA InvInit == Init => Inv
BY LauncherAssumption DEF Init, Inv, TypeOK, Killed, AllKilled, Steps, Members

\* A signal leaves the types alone and takes no other one back, and it is never
\* sent to a group that is not there.
LEMMA SignalSent ==
    ASSUME TypeOK, NEW s \in {"term", "kill"}, NEW gone \in BOOLEAN, Signal(s, gone)
    PROVE  /\ got' \in [Members -> SUBSET {"term", "kill"}]
           /\ \A m \in Running : got'[m] = got[m] \cup {s}
           /\ \A m \in Members \ Running : got'[m] = got[m]
           /\ stray' = stray
<1>1. \A m \in Running : Reaches(gone) /\ m \in Members
  BY DEF Reaches, Running
<1>2. got' = [m \in Members |-> IF m \in Running THEN got[m] \cup {s} ELSE got[m]]
  BY <1>1 DEF Signal
<1>3. \A m \in Members : got[m] \cup {s} \in SUBSET {"term", "kill"}
  BY DEF TypeOK
<1>4. ~(Reaches(gone) /\ gone /\ Running = {})
  BY DEF Reaches
<1>5. stray' = stray
  BY <1>4 DEF Signal, TypeOK
<1> QED
  BY <1>1, <1>2, <1>3, <1>5 DEF TypeOK

LEMMA InvStep == Inv /\ [Next]_vars => Inv'
<1> SUFFICES ASSUME Inv, [Next]_vars PROVE Inv'
  OBVIOUS
<1> USE LauncherIsMember, LauncherAssumption DEF Inv, Killed, AllKilled, Steps, Awaits
<1>1. CASE LeaveClosed
  BY <1>1 DEF LeaveClosed, TypeOK, Running
<1>2. CASE LeaveAsking
  <2>1. TypeOK'
    BY <1>2, SignalSent DEF LeaveAsking, TypeOK
  <2> QED
    BY <1>2, <2>1 DEF LeaveAsking
<1>3. CASE LeaveKilling
  <2>1. TypeOK'
    BY <1>3, SignalSent DEF LeaveKilling, TypeOK
  <2>2. \A m \in Running : "kill" \in got'[m]
    BY <1>3, SignalSent DEF LeaveKilling
  <2> QED
    BY <1>3, <2>1, <2>2 DEF LeaveKilling, Running
<1>4. CASE GraceExited
  BY <1>4, SignalSent DEF GraceExited, Waited, TypeOK, Running
<1>5. CASE GraceElapsed
  BY <1>5, SignalSent DEF GraceElapsed, TypeOK, Running
<1>6. CASE WaitExited
  BY <1>6 DEF WaitExited, Waited, TypeOK, Running
<1>7. CASE TimeUp
  BY <1>7 DEF TimeUp, TypeOK, Running
<1>8. CASE Kill
  <2>1. reaped \in BOOLEAN
    BY DEF TypeOK
  <2> QED
    BY <1>8, <2>1, SignalSent DEF Kill, TypeOK, Running
<1>9. CASE Reap
  BY <1>9 DEF Reap, Waited, TypeOK, Running
<1>10. CASE Dropped
  <2>1. TypeOK'
    BY <1>10, SignalSent DEF Dropped, TypeOK
  <2>2. CASE reaped
    BY <1>10, <2>1, <2>2 DEF Dropped
  <2>3. CASE ~reaped
    <3>1. \A m \in Running : "kill" \in got'[m]
      BY <1>10, <2>3, SignalSent DEF Dropped
    <3> QED
      BY <1>10, <2>1, <2>3, <3>1 DEF Dropped, Running
  <2> QED
    BY <2>2, <2>3
<1>11. ASSUME NEW m \in Members, Dies(m) \/ Exits(m) PROVE Inv'
  BY <1>11 DEF Dies, Exits, Gone, TypeOK, Running
<1>12. ASSUME NEW h \in Helpers, Starts(h) PROVE Inv'
  BY <1>12 DEF Starts, TypeOK, Running
<1>13. CASE UNCHANGED vars
  BY <1>13 DEF vars, TypeOK, Running
<1> QED
  BY <1>1, <1>2, <1>3, <1>4, <1>5, <1>6, <1>7, <1>8, <1>9, <1>10, <1>11, <1>12,
     <1>13 DEF Next, Proxy

THEOREM Invariant == Spec => []Inv
BY InvInit, InvStep, PTL DEF Spec

\* Every part of the state keeps its type, and the launcher is marked as reaped
\* exactly when it is gone.
THEOREM TypeCorrect == Spec => []TypeOK
<1>1. Inv => TypeOK
  BY DEF Inv
<1> QED
  BY <1>1, Invariant, PTL

\* The server never outlives a proxy that returned, or that was dropped before
\* it waited for the launcher, however many processes the launcher started and
\* whatever they make of SIGTERM.
THEOREM ServerNeverOutlives == Spec => []NothingLeftRunning
<1>1. Inv => NothingLeftRunning
  BY DEF Inv, Killed, AllKilled, NothingLeftRunning
<1> QED
  BY <1>1, Invariant, PTL

LEMMA StrayStays == Inv /\ [Next]_vars => stray' = stray
<1> SUFFICES ASSUME Inv, [Next]_vars PROVE stray' = stray
  OBVIOUS
<1>1. reaped \in BOOLEAN /\ TypeOK
  BY DEF Inv, TypeOK
<1> QED
  BY <1>1, SignalSent
  DEF Next, Proxy, vars, LeaveClosed, LeaveAsking, LeaveKilling, GraceExited,
      GraceElapsed, WaitExited, TimeUp, Kill, Reap, Dropped, Dies, Exits, Starts

\* No signal goes to a group id once the group is gone.
THEOREM SignalsStay == Spec => []NoStraySignal
<1>1. Init => NoStraySignal
  BY DEF Init, NoStraySignal
<1>2. Inv /\ NoStraySignal /\ [Next]_vars => NoStraySignal'
  BY StrayStays DEF NoStraySignal
<1> QED
  BY <1>1, <1>2, Invariant, PTL DEF Spec

LEMMA KillsAreDue ==
    Inv /\ [Next]_vars =>
        [step' # "dropped" /\ ended # "KillMode" =>
            \A m \in Members : "kill" \in got'[m] \ got[m] => timeUp]_vars
<1> SUFFICES ASSUME Inv, [Next]_vars,
                    step' # "dropped", ended # "KillMode",
                    NEW m \in Members, "kill" \in got'[m], "kill" \notin got[m]
             PROVE  timeUp
  OBVIOUS
<1>1. TypeOK /\ reaped \in BOOLEAN
  BY DEF Inv, TypeOK
<1>2. CASE Kill
  <2>1. m \in Running
    BY <1>1, <1>2, SignalSent DEF Kill
  <2> QED
    BY <1>2, <2>1 DEF Kill, GroupGone
<1>3. CASE LeaveAsking \/ GraceExited \/ GraceElapsed
  <2>1. got'[m] = got[m] \/ got'[m] = got[m] \cup {"term"}
    BY <1>1, <1>3, SignalSent DEF LeaveAsking, GraceExited, GraceElapsed
  <2> QED
    BY <2>1
<1>4. CASE got' = got
  BY <1>4
<1> QED
  BY <1>2, <1>3, <1>4
  DEF Next, Proxy, vars, LeaveClosed, LeaveKilling, WaitExited, TimeUp, Reap,
      Dropped, Dies, Exits, Starts

\* No process is killed before the grace it was given is over.
THEOREM GraceIsGiven == Spec => KilledOnlyAfterTheGrace
BY KillsAreDue, Invariant, PTL DEF Spec, KilledOnlyAfterTheGrace
=============================================================================
