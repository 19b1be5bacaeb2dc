---------------------------- MODULE UpdateStore ----------------------------
(***************************************************************************)
(* What crates/agent-guard/src/file_update.rs promises its callers: a      *)
(* stored file that several processes read, change and replace behaves as  *)
(* one atomic register of updates.  A call either takes effect at one      *)
(* instant, on top of everything already stored, or changes nothing.      *)
(***************************************************************************)
CONSTANT Writers        \* the calls, one update each

VARIABLES content,      \* the updates the file holds
          outcome       \* what became of each call

vars == <<content, outcome>>

Init == /\ content = {}
        /\ outcome = [w \in Writers |-> "pending"]

Apply(w) == /\ outcome[w] = "pending"
            /\ content' = content \cup {w}
            /\ outcome' = [outcome EXCEPT ![w] = "applied"]

Refuse(w) == /\ outcome[w] = "pending"
             /\ outcome' = [outcome EXCEPT ![w] = "refused"]
             /\ UNCHANGED content

Next == \E w \in Writers : Apply(w) \/ Refuse(w)

Spec == Init /\ [][Next]_vars
=============================================================================
