---------------------------- MODULE RecordStore ----------------------------
(***************************************************************************)
(* The recording of one screened command in the decision record: record_at *)
(* and GraphLock of crates/cli/src/graph_io.rs, with `graph --clear`.      *)
(*                                                                         *)
(* Every hook is a process that records one decision, under the graph lock *)
(* and, for the replacement, under the update lock of FileReplace, whose   *)
(* own healing is modelled there and not here.  It may be killed between   *)
(* two steps, meet an I/O error in any system call, and find either lock   *)
(* kept by a process that is no hook.                                      *)
(***************************************************************************)
EXTENDS NarrativeGraph

CONSTANTS
    Hooks,     \* the hooks, each recording one decision
    Session,   \* Session[h]: the session of the decision
    Event,     \* Event[h]: its event; the same for a delivery and its repeat
    Barred,    \* the hooks that cannot open a lock an older release left
    OldGraph   \* what an earlier run may have recorded

ASSUME StoreAssumption ==
    /\ Barred \subseteq Hooks
    /\ Nobody \notin Hooks

ASSUME OldGraphAssumption == WellFormed(OldGraph)

VARIABLES
    file,       \* the graph file
    aside,      \* the files moved aside as corrupt
    lockName,   \* the lock file the graph lock's name refers to
    fd,         \* fd[h]: the lock file h opened
    holding,    \* the hooks that hold the lock they opened
    updating,   \* the hook that holds the update lock
    outsider,   \* the locks held by a process that is no hook
    pc,
    read,       \* read[h]: the file as h loaded it, what it expects to replace
    mine,       \* mine[h]: the graph h is about to write
    first,      \* history: the file at the start
    wiped,      \* history: the files `graph --clear` removed
    pruned,     \* history: the decisions dropped to stay within the caps
    late,       \* history: the hooks the file changed under in their last step
    excused     \* history: the hooks that met an I/O error, or lost the file
                \* they had read to someone their lock does not keep out

history == <<first, wiped, pruned, late, excused>>
locks == <<lockName, fd, holding, updating, outsider>>
vars == <<file, aside, locks, pc, read, mine, history>>

NoFile == [kind |-> "none", graph |-> EmptyGraph]
Garbage == [kind |-> "corrupt", graph |-> EmptyGraph]

\* A blank file is an empty graph's.
GraphFile(g) == [kind |-> "graph", graph |-> g]

LockFiles == {"legacy lock", "graph lock"}
NoLock == "no lock"

Steps == {"open", "lock", "load", "aside", "ingest", "prune", "update",
          "compare", "rename"}

\* How a record ends.  Lost stands for the errors before anything is written
\* (the directory, a lock unavailable or timed out, the corrupt file not
\* moved) and for a hook that is killed; failed for graph_write_failed.
Ended == {"recorded", "duplicate", "lost", "failed"}

Locked == {"load", "aside", "ingest", "prune", "update", "compare", "rename"}

DecisionsIn(f) == Decisions(f.graph)

----------------------------------------------------------------------------
At(h, step) == pc[h] = step

Goto(h, step) == pc' = [pc EXCEPT ![h] = step]

\* The hook's record ends: both locks are dropped, with what it had read.
Return(h, how) ==
    /\ Goto(h, how)
    /\ holding' = holding \ {h}
    /\ updating' = IF updating = h THEN Nobody ELSE updating
    /\ fd' = [fd EXCEPT ![h] = NoLock]
    /\ read' = [read EXCEPT ![h] = NoFile]
    /\ mine' = [mine EXCEPT ![h] = EmptyGraph]
    /\ late' = late \ {h}

\* A step that only moves on.
MovesOn(h, step) ==
    /\ Goto(h, step)
    /\ UNCHANGED <<file, aside, holding, lockName, outsider, history>>

\* A step that ends and leaves the file alone.
Ends(h, how) ==
    /\ Return(h, how)
    /\ UNCHANGED <<file, aside, lockName, outsider, first, wiped, pruned,
                   excused>>

\* The hooks past their reading of the file.
Readers == {h \in Hooks : pc[h] \in Locked \ {"load", "aside"}}

\* Those of them whom the lock of h does not keep out.
Strangers(h) == {g \in Readers : fd[g] # fd[h]}

\* What h read, with its decision added and nothing pruned.
Extended(h) == Ingest(read[h].graph, Session[h], Event[h], h)

Free(lock) == /\ lock \notin outsider
              /\ \A g \in holding : fd[g] # lock

UpdateFree == updating = Nobody /\ "update lock" \notin outsider

----------------------------------------------------------------------------
(* Faulty variants, each of the action it is named after.                  *)

\* The lock is taken while another holds it.
TakeLockBusy(h) ==
    /\ At(h, "lock")
    /\ fd[h] = lockName
    /\ holding' = holding \cup {h}
    /\ Goto(h, "load")
    /\ UNCHANGED <<file, aside, lockName, fd, updating, outsider, read, mine,
                   history>>

\* The wait for the lock has no bound.
LockBusyWaits(h) == At(h, "lock") /\ ~Free(fd[h]) /\ UNCHANGED vars

\* A corrupt file is taken for an empty one.
LoadCorruptAsEmpty(h) ==
    /\ At(h, "load")
    /\ read' = [read EXCEPT ![h] = file]
    /\ mine' = [mine EXCEPT ![h] = file.graph]
    /\ MovesOn(h, "ingest")
    /\ UNCHANGED <<fd, updating>>

\* The file is replaced whatever it holds by now.
CompareSkipped(h) ==
    /\ At(h, "compare")
    /\ MovesOn(h, "rename")
    /\ UNCHANGED <<fd, updating, read, mine>>

\* The update lock stays held after the replacement.
RenameKeepsLock(h) ==
    /\ At(h, "rename")
    /\ file' = GraphFile(mine[h])
    /\ pruned' = pruned \cup (Decisions(Extended(h)) \ Decisions(mine[h]))
    /\ late' = late \ {h}
    /\ Goto(h, "recorded")
    /\ holding' = holding \ {h}
    /\ fd' = [fd EXCEPT ![h] = NoLock]
    /\ read' = [read EXCEPT ![h] = NoFile]
    /\ mine' = [mine EXCEPT ![h] = EmptyGraph]
    /\ excused' = excused \cup Strangers(h)
    /\ UNCHANGED <<aside, lockName, updating, outsider, first, wiped>>

----------------------------------------------------------------------------
Init == /\ file \in {NoFile, Garbage, GraphFile(OldGraph)}
        /\ aside = {}
        /\ lockName \in LockFiles
        /\ fd = [h \in Hooks |-> NoLock]
        /\ holding = {}
        /\ updating = Nobody
        /\ outsider = {}
        /\ pc = [h \in Hooks |-> "open"]
        /\ read = [h \in Hooks |-> NoFile]
        /\ mine = [h \in Hooks |-> EmptyGraph]
        /\ first = file
        /\ wiped = {}
        /\ pruned = {}
        /\ late = {}
        /\ excused = {}

\* The lock is opened; one this account cannot open is replaced where the
\* directory is shared, and is a failure elsewhere.
OpenLock(h) ==
    /\ At(h, "open")
    /\ lockName' = IF h \in Barred THEN "graph lock" ELSE lockName
    /\ fd' = [fd EXCEPT ![h] = lockName']
    /\ Goto(h, "lock")
    /\ UNCHANGED <<file, aside, holding, updating, outsider, read, mine,
                   history>>

\* try_lock succeeds on the lock that is still the one at the name.
TakeLock(h) ==
    /\ At(h, "lock")
    /\ Free(fd[h])
    /\ fd[h] = lockName
    /\ holding' = holding \cup {h}
    /\ Goto(h, "load")
    /\ UNCHANGED <<file, aside, lockName, fd, updating, outsider, read, mine,
                   history>>

\* It succeeds on a lock replaced meanwhile: the one there now is opened, or
\* the wait is over.
LockReplaced(h) ==
    /\ At(h, "lock")
    /\ Free(fd[h])
    /\ fd[h] # lockName
    /\ \/ /\ fd' = [fd EXCEPT ![h] = lockName]
          /\ MovesOn(h, "lock")
          /\ UNCHANGED <<updating, read, mine>>
       \/ Ends(h, "lost")

\* The wait for a lock somebody holds runs out.
LockBusy(h) == At(h, "lock") /\ ~Free(fd[h]) /\ Ends(h, "lost")

\* load_record_result_at: a file that cannot be read counts as corrupt, one
\* that is not there or is blank as an empty graph.
Load(h) ==
    /\ At(h, "load")
    /\ \/ /\ file.kind # "corrupt"
          /\ read' = [read EXCEPT ![h] = file]
          /\ mine' = [mine EXCEPT ![h] = file.graph]
          /\ MovesOn(h, "ingest")
          /\ UNCHANGED <<fd, updating>>
       \/ /\ file.kind # "none"
          /\ MovesOn(h, "aside")
          /\ UNCHANGED <<fd, updating, read, mine>>

\* The corrupt file is moved aside and the record starts afresh; or it is
\* gone by now, and the record ends.
MoveAside(h) ==
    /\ At(h, "aside")
    /\ file # NoFile
    /\ aside' = aside \cup {file}
    /\ file' = NoFile
    /\ late' = late \cup {g \in Hooks : At(g, "rename")}
    /\ excused' = excused \cup Strangers(h)
    /\ Goto(h, "ingest")
    /\ UNCHANGED <<locks, read, mine, first, wiped, pruned>>

NothingToMove(h) == At(h, "aside") /\ file = NoFile /\ Ends(h, "lost")

\* The decision is added, unless its event is in the record, and the node cap
\* applied.
AddDecision(h) ==
    /\ At(h, "ingest")
    /\ IF Recorded(mine[h], Event[h])
         THEN Ends(h, "duplicate")
         ELSE /\ mine' = [mine EXCEPT
                     ![h] = WithinNodeCap(Extended(h))]
              /\ MovesOn(h, "prune")
              /\ UNCHANGED <<fd, updating, read>>

\* One test of prune's loop condition, and the pass that follows it.
Prune(h) ==
    /\ At(h, "prune")
    /\ IF OverByteBudget(mine[h])
         THEN /\ mine' = [mine EXCEPT ![h] = DropShare(@)]
              /\ MovesOn(h, "prune")
         ELSE /\ UNCHANGED mine
              /\ MovesOn(h, "update")
    /\ UNCHANGED <<fd, updating, read>>

\* The replacement takes the update lock, for as long as it may wait.
TakeUpdateLock(h) ==
    /\ At(h, "update")
    /\ UpdateFree
    /\ updating' = h
    /\ MovesOn(h, "compare")
    /\ UNCHANGED <<fd, read, mine>>

UpdateLockBusy(h) ==
    At(h, "update") /\ ~UpdateFree /\ Ends(h, "lost")

\* The file must still be what was read.
Compare(h) ==
    /\ At(h, "compare")
    /\ \/ /\ file = read[h]
          /\ MovesOn(h, "rename")
          /\ UNCHANGED <<fd, updating, read, mine>>
       \/ /\ file # read[h]
          /\ Ends(h, "failed")

Rename(h) ==
    /\ At(h, "rename")
    /\ file' = GraphFile(mine[h])
    /\ pruned' = pruned \cup (Decisions(Extended(h)) \ Decisions(mine[h]))
    /\ excused' = excused \cup Strangers(h)
    /\ Return(h, "recorded")
    /\ UNCHANGED <<aside, lockName, outsider, first, wiped>>

----------------------------------------------------------------------------
(* What happens around the hooks.                                          *)

\* A system call of the hook fails.
IoError(h) ==
    \/ pc[h] \in {"open", "lock", "aside"} /\ Ends(h, "lost")
    \/ /\ pc[h] \in {"update", "compare", "rename"}
       /\ Return(h, "failed")
       /\ excused' = excused \cup {h}
       /\ UNCHANGED <<file, aside, lockName, outsider, first, wiped, pruned>>

\* The hook is killed: the locks go with its process.
Kill(h) == pc[h] \notin Ended /\ Ends(h, "lost")

\* `graph --clear` takes no lock (bound of the model: it is run once).
Clear == /\ file # NoFile
         /\ wiped = {}
         /\ wiped' = wiped \cup {file}
         /\ file' = NoFile
         /\ late' = late \cup {h \in Hooks : At(h, "rename")}
         /\ excused' = excused \cup Readers
         /\ UNCHANGED <<aside, locks, pc, read, mine, first, pruned>>

\* Another process takes a lock and keeps it for as long as it likes (bound of
\* the model: one lock at a time).
KeepLock == /\ outsider = {}
            /\ \E lock \in LockFiles \cup {"update lock"} :
                 /\ IF lock = "update lock" THEN UpdateFree ELSE Free(lock)
                 /\ outsider' = outsider \cup {lock}
            /\ UNCHANGED <<file, aside, lockName, fd, holding, updating, pc,
                           read, mine, history>>

LeaveLock == /\ \E lock \in outsider : outsider' = outsider \ {lock}
             /\ UNCHANGED <<file, aside, lockName, fd, holding, updating, pc,
                            read, mine, history>>

Record(h) == \/ OpenLock(h) \/ TakeLock(h) \/ LockReplaced(h) \/ LockBusy(h)
             \/ Load(h) \/ MoveAside(h) \/ NothingToMove(h)
             \/ AddDecision(h) \/ Prune(h) \/ TakeUpdateLock(h)
             \/ UpdateLockBusy(h) \/ Compare(h) \/ Rename(h)

Next == \/ \E h \in Hooks : Record(h) \/ IoError(h) \/ Kill(h)
        \/ Clear
        \/ KeepLock
        \/ LeaveLock

Spec == Init /\ [][Next]_vars

\* A hook that may take a step takes one, and does not count on an error to
\* end it; nobody has to give a lock back.
FairSpec == Spec /\ \A h \in Hooks : WF_vars(Record(h))

----------------------------------------------------------------------------
\* Every variable has its type, a hook holds a lock it opened from the load
\* to its end, and the update lock through the comparison and the replacement
\* only: a lock is never left behind and never used unheld.
TypeOK ==
    /\ {f.kind : f \in {file, first} \cup aside \cup wiped}
           \subseteq {"none", "corrupt", "graph"}
    /\ lockName \in LockFiles
    /\ pc \in [Hooks -> Steps \cup Ended]
    /\ fd \in [Hooks -> LockFiles \cup {NoLock}]
    /\ holding = {h \in Hooks : pc[h] \in Locked}
    /\ \A h \in holding : fd[h] \in LockFiles
    /\ outsider \subseteq LockFiles \cup {"update lock"}
    /\ updating \in Hooks \cup {Nobody}
    /\ {h \in Hooks : pc[h] \in {"compare", "rename"}} = {updating} \ {Nobody}
    /\ late \subseteq {h \in Hooks : At(h, "rename")}
    /\ excused \subseteq Hooks

\* An event delivered twice, to two hooks at once or to one after the other,
\* has one command in the record, even while a replaced lock lets two hooks
\* read the file together.
EachEventOnce == EventsOnce(file.graph)

\* A decision that was recorded is in the file, or in one moved aside, or was
\* cleared by the person or pruned as the oldest: no other hook overwrites it.
RecordedStays ==
    LET kept == {file} \cup aside \cup wiped
    IN {h \in Hooks : pc[h] = "recorded"} \cup DecisionsIn(first)
           \subseteq pruned \cup UNION {DecisionsIn(f) : f \in kept}

\* The bytes of a corrupt file are never overwritten: they are where they
\* were, or moved aside, or the person cleared them.
CorruptIsPreserved ==
    first = Garbage => Garbage \in {file} \cup aside \cup wiped

\* Whatever was pruned, every command in the file is still reached from its
\* session, and no edge dangles.
EveryCommandIsLinked == Linked(file.graph)

\* The graph lock does its work: a replacement refused because the file is
\* not what was read has a reason the lock cannot keep out.  Hooks that hold
\* one and the same lock file never cost each other a record.
NoRecordFailsForAnother ==
    \A h \in Hooks : pc[h] = "failed" => h \in excused

\* A file that changed since it was read is replaced only if it changed in
\* the one step between the last comparison and the replacement: what was
\* cleared before that does not come back.
OnlyLateChangesAreUndone ==
    [][\A h \in Hooks : At(h, "rename") /\ pc'[h] = "recorded"
                            => file = read[h] \/ h \in late]_vars

\* The record is written before the verdict is returned, so it ends, whoever
\* keeps a lock and however long.
VerdictNotWithheld == \A h \in Hooks : <>(pc[h] \in Ended)
=============================================================================
