---------------------------- MODULE OutageNotes ----------------------------
(***************************************************************************)
(* The note of an outage: note_failure_at, note_success_at and             *)
(* is_first_of_episode_at of crates/cli/src/record_health.rs, as record of *)
(* crates/cli/src/graph_io.rs calls them when a decision could not be      *)
(* recorded, or could.                                                     *)
(*                                                                         *)
(* Hooks are processes of their own and nothing locks the note: it is      *)
(* read, counted up, truncated and written in place, removed by a hook     *)
(* that recorded, and read back to decide whether somebody is told.        *)
(***************************************************************************)
EXTENDS Naturals

CONSTANTS
    Hooks,
    Codes,      \* what a recording may fail with
    Ok,         \* the outcome of one that did not: no code
    None        \* the absence of a file: no hook

VARIABLES
    pc,
    outcome,    \* how each hook's recording ended
    before,     \* the note each hook read: a set of at most one
    inode,      \* the file each hook opened, named for the hook that made it
    named,      \* the file at the note's name, None if there is none
    body,       \* what each file holds
    told        \* the hooks that notified somebody

vars == <<pc, outcome, before, inode, named, body, told>>

\* What a file can hold beside a note.
Empty == [code |-> "empty", lost |-> 0, first |-> FALSE]
Garbled == [code |-> "garbled", lost |-> 0, first |-> FALSE]

-----------------------------------------------------------------------------
\* read_at: the note at the name, if there is one and it parses.
read_at == {body[f] : f \in {named} \ {None}} \ {Empty, Garbled}

\* What a failure with code writes after it read p.
Outage(code, p) ==
    LET same == {n \in p : n.code = code}
    IN  IF same = {} THEN [code |-> code, lost |-> 1, first |-> TRUE]
        ELSE LET n == CHOOSE n \in same : TRUE
             IN  [code |-> code, lost |-> n.lost + 1, first |-> FALSE]

-----------------------------------------------------------------------------
Init ==
    /\ pc = [h \in Hooks |-> "recording"]
    /\ outcome = [h \in Hooks |-> Ok]
    /\ before = [h \in Hooks |-> {}]
    /\ inode = [h \in Hooks |-> None]
    /\ named = None
    /\ body = [h \in Hooks |-> Empty]
    /\ told = {}

\* The attempt to record a decision ends (record_at_with_origin).
Record(h, o) ==
    /\ pc[h] = "recording"
    /\ outcome' = [outcome EXCEPT ![h] = o]
    /\ pc' = [pc EXCEPT ![h] = "read"]
    /\ UNCHANGED <<before, inode, named, body, told>>

\* Both kinds read the note first; a success with no note is done.
Read(h) ==
    /\ pc[h] = "read"
    /\ before' = [before EXCEPT ![h] = read_at]
    /\ pc' = [pc EXCEPT ![h] = IF outcome[h] # Ok THEN "create"
                               ELSE IF read_at = {} THEN "done" ELSE "remove"]
    /\ UNCHANGED <<outcome, inode, named, body, told>>

Remove(h) ==
    /\ pc[h] = "remove"
    /\ named' = None
    /\ pc' = [pc EXCEPT ![h] = "done"]
    /\ UNCHANGED <<outcome, before, inode, body, told>>

\* write_health: create_new, or the file that is there, unless it was removed
\* in between.
Create(h) ==
    /\ pc[h] = "create"
    /\ IF named = None
       THEN /\ named' = h
            /\ inode' = [inode EXCEPT ![h] = h]
            /\ pc' = [pc EXCEPT ![h] = "cut"]
       ELSE /\ pc' = [pc EXCEPT ![h] = "open"]
            /\ UNCHANGED <<inode, named>>
    /\ UNCHANGED <<outcome, before, body, told>>

Open(h) ==
    /\ pc[h] = "open"
    /\ inode' = [inode EXCEPT ![h] = named]
    /\ pc' = [pc EXCEPT ![h] = IF named = None THEN "check" ELSE "cut"]
    /\ UNCHANGED <<outcome, before, named, body, told>>

\* set_len(0).  A file that was removed since is no longer written.
Cut(h) ==
    /\ pc[h] = "cut"
    /\ IF inode[h] = named
       THEN /\ body' = [body EXCEPT ![inode[h]] = Empty]
            /\ pc' = [pc EXCEPT ![h] = "write"]
       ELSE /\ pc' = [pc EXCEPT ![h] = "check"]
            /\ UNCHANGED body
    /\ UNCHANGED <<outcome, before, inode, named, told>>

\* write_all, from the start of the file.  Over what another hook wrote since
\* the cut, the end of a longer note may remain.
Write(h) ==
    LET note == Outage(outcome[h], before[h])
        old == body[inode[h]]
    IN  /\ pc[h] = "write"
        /\ \/ body' = [body EXCEPT ![inode[h]] = note]
           \/ /\ old \notin {Empty, note}
              /\ body' = [body EXCEPT ![inode[h]] = Garbled]
        /\ pc' = [pc EXCEPT ![h] = "check"]
        /\ UNCHANGED <<outcome, before, inode, named, told>>

\* is_first_of_episode_at: the note is read back, and fire_text if it is the
\* first of its episode.
Check(h) ==
    /\ pc[h] = "check"
    /\ told' = told \cup {g \in {h} : \E n \in read_at : n.first}
    /\ pc' = [pc EXCEPT ![h] = "done"]
    /\ UNCHANGED <<outcome, before, inode, named, body>>

\* A hook may be killed at any step.
Kill(h) ==
    /\ pc[h] \notin {"done", "killed"}
    /\ pc' = [pc EXCEPT ![h] = "killed"]
    /\ UNCHANGED <<outcome, before, inode, named, body, told>>

Next ==
    \E h \in Hooks :
        \/ \E o \in Codes \cup {Ok} : Record(h, o)
        \/ Read(h) \/ Remove(h) \/ Create(h) \/ Open(h)
        \/ Cut(h) \/ Write(h) \/ Check(h) \/ Kill(h)

Spec == Init /\ [][Next]_vars

-----------------------------------------------------------------------------
\* "Tell someone ONCE per episode": when every hook has ended, none was killed
\* and none recorded, and all that failed failed with one code, somebody was
\* told of it.
OutageIsTold ==
    (/\ \A h \in Hooks : pc[h] = "done"
     /\ Ok \notin {outcome[h] : h \in Hooks}
     /\ \A g, h \in Hooks : outcome[g] = outcome[h])
    => told # {}
=============================================================================
