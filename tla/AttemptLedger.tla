--------------------------- MODULE AttemptLedger ---------------------------
(***************************************************************************)
(* What the pending state of crates/cli/src/observe_io.rs promises of the  *)
(* dangerous asks it is given: each waits, is handed out to one call once  *)
(* it no longer waits, and is recorded by that call, once.  Only a call    *)
(* that dies with an ask in hand, or whose append is refused, loses it.    *)
(***************************************************************************)
CONSTANT Asks

VARIABLES waiting,   \* the asks held for their outcome
          handed,    \* those handed out to be recorded
          recorded,  \* those with a record in the event sink
          lost       \* those handed out and never recorded

vars == <<waiting, handed, recorded, lost>>

Fresh == Asks \ (waiting \cup handed \cup recorded \cup lost)

Init == /\ waiting \subseteq Asks
        /\ handed = {}
        /\ recorded = {}
        /\ lost = {}

\* One save: what leaves is handed out, and at most one new ask is held.
Exchange(new, out) ==
    /\ waiting' = (waiting \ out) \cup new
    /\ handed' = handed \cup out
    /\ UNCHANGED <<recorded, lost>>

Close == \E out \in SUBSET waiting : Exchange({}, out)

Hold == \E a \in Fresh : \E out \in SUBSET waiting : Exchange({a}, out)

\* An ask that cannot be held is handed out at once.
Decline == \E a \in Fresh : /\ handed' = handed \cup {a}
                            /\ UNCHANGED <<waiting, recorded, lost>>

Record == \E a \in handed : /\ handed' = handed \ {a}
                            /\ recorded' = recorded \cup {a}
                            /\ UNCHANGED <<waiting, lost>>

Lose == \E out \in SUBSET handed : /\ handed' = handed \ out
                                   /\ lost' = lost \cup out
                                   /\ UNCHANGED <<waiting, recorded>>

Next == Close \/ Hold \/ Decline \/ Record \/ Lose

Spec == Init /\ [][Next]_vars
=============================================================================
