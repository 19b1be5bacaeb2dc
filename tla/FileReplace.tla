---------------------------- MODULE FileReplace ----------------------------
(***************************************************************************)
(* The atomic replacement of a stored file, under its sibling update lock: *)
(* replace_inner_with and UpdateLock of                                    *)
(* crates/agent-guard/src/file_update.rs.                                  *)
(*                                                                         *)
(* Every call reads the file, prepares it with one more update, and asks   *)
(* for the replacement only if the file still holds what it read.  Calls   *)
(* are of other processes and accounts; any of them may be killed between  *)
(* two system calls.  A stored file is the set of updates it holds (the    *)
(* empty set: no file), so an update that disappears is one a later        *)
(* replacement overwrote without having read it.                           *)
(***************************************************************************)
EXTENDS Naturals

CONSTANTS
    Writers,        \* the calls; each is one process doing one update
    Account,        \* Account[w]: the account the call w runs as
    RootAccount,    \* the account every file opens for
    Edits,          \* saves by an editor, which takes no lock
    SharedRecord,   \* a shared record in a shared directory (locks are healed)
    Attempts,       \* LOCK_ATTEMPTS
    Legacy,         \* the creator of a lock an older release left
    NoLock          \* the absence of a lock file

ASSUME ReplaceAssumption ==
    /\ Legacy \notin Writers
    /\ SharedRecord \in BOOLEAN
    /\ Attempts \in Nat \ {0}
    /\ Writers \cap Edits = {}

\* A lock file is named by who created it and in which of its attempts: one
\* pass of the acquire loop creates at most one.
LockFiles == (Writers \cup {Legacy}) \X Nat

ASSUME NoLockAssumption == NoLock \notin LockFiles

VARIABLES
    target,     \* the updates the stored file holds
    temps,      \* the calls whose staged temporary file is on disk
    lockName,   \* the lock file the sibling name refers to
    shared,     \* the lock files the directory's group can open
    held,       \* the calls that hold the flock of the file they opened
    outsider,   \* the lock file held by a process that is no writer
    pc, fd, expected, attempt,
    edited,     \* the editor's saves that happened
    racing      \* racing[e]: the calls past their last comparison at edit e

lockVars  == <<lockName, shared, outsider>>
fileVars  == <<target, edited, racing>>
vars == <<target, temps, lockName, shared, held, outsider, pc, fd, expected,
          attempt, edited, racing>>

Ended == {"done", "failed", "busy", "crashed"}

Steps == {"load", "open", "mend", "create", "publish", "stageLock", "swap",
          "reopen", "lock", "verify", "compare", "stage", "check", "recheck",
          "rename", "unlock"}

----------------------------------------------------------------------------
Owner(f) == IF f[1] = Legacy THEN RootAccount ELSE Account[f[1]]

\* open(O_RDONLY) of the lock: the group's bit, the owner, or root.
CanOpen(w, f) == /\ f # NoLock
                 /\ \/ f \in shared
                    \/ Owner(f) = Account[w]
                    \/ Account[w] = RootAccount

NewLock(w) == <<w, attempt[w]>>

Free(f) == /\ outsider # f
           /\ \A v \in held : fd[v] # f

\* lock_still_names: the lock w opened is still the file at the name.
StillNamed(w) == lockName = fd[w]

At(w, step) == pc[w] = step

Goto(w, step) == pc' = [pc EXCEPT ![w] = step]

\* The call returns: its lock is dropped, its temporary file is removed.
Return(w, how) == /\ Goto(w, how)
                  /\ held' = held \ {w}
                  /\ temps' = temps \ {w}

----------------------------------------------------------------------------
(* Faulty variants, each of the action it is named after: what the code     *)
(* would be with one line of it dropped or moved.                           *)

\* A lock that may not be opened is taken for opened.
OpenLockUnasked(w) ==
    /\ At(w, "open")
    /\ fd' = [fd EXCEPT ![w] = IF CanOpen(w, lockName) THEN lockName ELSE @]
    /\ Goto(w, IF SharedRecord THEN "mend" ELSE "lock")
    /\ UNCHANGED <<fileVars, temps, lockVars, held, expected, attempt>>

\* The spent wait is not reported: the update goes on without the lock.
LockBusyProceeds(w) ==
    /\ At(w, "lock")
    /\ ~Free(fd[w])
    /\ Goto(w, "compare")
    /\ UNCHANGED <<fileVars, temps, lockVars, held, fd, expected, attempt>>

\* The wait for the lock has no bound (the blocking flock of old).
LockBusyWaits(w) == At(w, "lock") /\ ~Free(fd[w]) /\ UNCHANGED vars

\* The lock is dropped with the check that precedes the commit.
CheckLockReleases(w) ==
    /\ At(w, "check")
    /\ IF StillNamed(w)
         THEN /\ Goto(w, "recheck")
              /\ held' = held \ {w}
              /\ UNCHANGED temps
         ELSE Return(w, "failed")
    /\ UNCHANGED <<fileVars, lockVars, fd, expected, attempt>>

\* The second comparison is left out.
RecheckSkipped(w) ==
    /\ At(w, "recheck")
    /\ Goto(w, "rename")
    /\ UNCHANGED <<fileVars, temps, lockVars, held, fd, expected, attempt>>

\* The early return of the second comparison leaves the staged file behind.
RecheckLitters(w) ==
    /\ At(w, "recheck")
    /\ IF target = expected[w]
         THEN /\ Goto(w, "rename")
              /\ UNCHANGED held
         ELSE /\ Goto(w, "failed")
              /\ held' = held \ {w}
    /\ UNCHANGED <<fileVars, temps, lockVars, fd, expected, attempt>>

----------------------------------------------------------------------------
Init == /\ target = {}
        /\ temps = {}
        /\ \/ /\ lockName = NoLock
              /\ shared = {}
           \/ /\ lockName = <<Legacy, 0>>
              /\ shared \in {{}, {<<Legacy, 0>>}}
        /\ held = {}
        /\ outsider = NoLock
        /\ pc = [w \in Writers |-> "load"]
        /\ fd = [w \in Writers |-> NoLock]
        /\ expected = [w \in Writers |-> {}]
        /\ attempt = [w \in Writers |-> 0]
        /\ edited = {}
        /\ racing = [e \in Edits |-> {}]

\* The caller reads the file it will change.
Load(w) == /\ At(w, "load")
           /\ expected' = [expected EXCEPT ![w] = target]
           /\ Goto(w, "open")
           /\ UNCHANGED <<fileVars, temps, lockVars, held, fd, attempt>>

\* open_lock: the existing lock, or what its absence or its mode leads to.
OpenLock(w) ==
    /\ At(w, "open")
    /\ \/ /\ CanOpen(w, lockName)
          /\ fd' = [fd EXCEPT ![w] = lockName]
          /\ Goto(w, IF SharedRecord THEN "mend" ELSE "lock")
       \/ /\ lockName = NoLock
          /\ Goto(w, "create")
          /\ UNCHANGED fd
       \/ /\ lockName # NoLock
          /\ ~CanOpen(w, lockName)
          /\ Goto(w, IF SharedRecord THEN "stageLock" ELSE "failed")
          /\ UNCHANGED fd
    /\ UNCHANGED <<fileVars, temps, lockVars, held, expected, attempt>>

\* mend_shared_lock: whoever opens a lock the group cannot makes it shared, if
\* the file system lets it.
MendLock(w) == /\ At(w, "mend")
               /\ shared' \in {shared, shared \cup {fd[w]}}
               /\ Goto(w, "lock")
               /\ UNCHANGED <<fileVars, temps, lockName, held, outsider, fd,
                              expected, attempt>>

\* open(create_new), private at first; a lock made meanwhile is used instead.
CreateLock(w) ==
    /\ At(w, "create")
    /\ \/ /\ lockName = NoLock
          /\ lockName' = NewLock(w)
          /\ fd' = [fd EXCEPT ![w] = NewLock(w)]
          /\ Goto(w, "publish")
       \/ /\ CanOpen(w, lockName)
          /\ fd' = [fd EXCEPT ![w] = lockName]
          /\ Goto(w, "lock")
          /\ UNCHANGED lockName
       \/ /\ lockName # NoLock
          /\ ~CanOpen(w, lockName)
          /\ Goto(w, "failed")
          /\ UNCHANGED <<lockName, fd>>
    /\ UNCHANGED <<fileVars, temps, shared, held, outsider, expected, attempt>>

\* apply_new_file_ownership: the directory decides the lock's final mode.
PublishLock(w) ==
    /\ At(w, "publish")
    /\ shared' = IF SharedRecord THEN shared \cup {fd[w]} ELSE shared
    /\ Goto(w, "lock")
    /\ UNCHANGED <<fileVars, temps, lockName, held, outsider, fd, expected,
                   attempt>>

\* replace_unusable_lock, up to its last look: a lock somebody has healed in
\* the meantime wins and the staged one is thrown away.
StageLock(w) ==
    /\ At(w, "stageLock")
    /\ Goto(w, IF CanOpen(w, lockName) THEN "reopen" ELSE "swap")
    /\ UNCHANGED <<fileVars, temps, lockVars, held, fd, expected, attempt>>

\* ... and its rename of the staged lock over the name.
SwapLock(w) == /\ At(w, "swap")
               /\ lockName' = NewLock(w)
               /\ shared' = shared \cup {NewLock(w)}
               /\ Goto(w, "reopen")
               /\ UNCHANGED <<fileVars, temps, held, outsider, fd, expected,
                              attempt>>

ReopenLock(w) ==
    /\ At(w, "reopen")
    /\ IF CanOpen(w, lockName)
         THEN /\ fd' = [fd EXCEPT ![w] = lockName]
              /\ Goto(w, "lock")
         ELSE /\ Goto(w, "failed")
              /\ UNCHANGED fd
    /\ UNCHANGED <<fileVars, temps, lockVars, held, expected, attempt>>

\* take_lock_within: try_lock succeeds ...
TakeLock(w) == /\ At(w, "lock")
               /\ Free(fd[w])
               /\ held' = held \cup {w}
               /\ Goto(w, "verify")
               /\ UNCHANGED <<fileVars, temps, lockVars, fd, expected, attempt>>

\* ... or the wait is spent with the lock still held by somebody.
LockBusy(w) == /\ At(w, "lock")
               /\ ~Free(fd[w])
               /\ Return(w, "busy")
               /\ UNCHANGED <<fileVars, lockVars, fd, expected, attempt>>

\* The lock is looked at again after the flock: a replaced lock is dropped, the loop runs
\* again, and LOCK_ATTEMPTS replacements give the call up.
VerifyLock(w) ==
    /\ At(w, "verify")
    /\ IF StillNamed(w)
         THEN /\ Goto(w, "compare")
              /\ UNCHANGED <<held, attempt>>
         ELSE /\ held' = held \ {w}
              /\ attempt' = [attempt EXCEPT ![w] = @ + 1]
              /\ Goto(w, IF attempt[w] + 1 = Attempts THEN "failed" ELSE "open")
    /\ UNCHANGED <<fileVars, temps, lockVars, fd, expected>>

\* The first comparison, right after the lock.
Compare(w) ==
    /\ At(w, "compare")
    /\ IF target = expected[w]
         THEN /\ Goto(w, "stage")
              /\ UNCHANGED <<held, temps>>
         ELSE Return(w, "failed")
    /\ UNCHANGED <<fileVars, lockVars, fd, expected, attempt>>

\* The sibling temporary file: created, written, synced, closed.
StageFile(w) == /\ At(w, "stage")
                /\ temps' = temps \cup {w}
                /\ Goto(w, "check")
                /\ UNCHANGED <<fileVars, lockVars, held, fd, expected, attempt>>

\* UpdateLock::still_named
CheckLock(w) ==
    /\ At(w, "check")
    /\ IF StillNamed(w)
         THEN /\ Goto(w, "recheck")
              /\ UNCHANGED <<held, temps>>
         ELSE Return(w, "failed")
    /\ UNCHANGED <<fileVars, lockVars, fd, expected, attempt>>

\* The second comparison, which narrows the window an editor can fall in.
Recheck(w) ==
    /\ At(w, "recheck")
    /\ IF target = expected[w]
         THEN /\ Goto(w, "rename")
              /\ UNCHANGED <<held, temps>>
         ELSE Return(w, "failed")
    /\ UNCHANGED <<fileVars, lockVars, fd, expected, attempt>>

Rename(w) == /\ At(w, "rename")
             /\ target' = expected[w] \cup {w}
             /\ temps' = temps \ {w}
             /\ Goto(w, "unlock")
             /\ UNCHANGED <<edited, racing, lockVars, held, fd, expected, attempt>>

\* The directory is synced, the lock dropped, Ok returned.
Unlock(w) == /\ At(w, "unlock")
             /\ Return(w, "done")
             /\ UNCHANGED <<fileVars, lockVars, fd, expected, attempt>>

\* An error of the file system at any call that can give one.
IoError(w) ==
    /\ pc[w] \in {"open", "create", "publish", "stageLock", "swap", "reopen",
                  "lock", "compare", "stage", "check", "recheck", "rename"}
    /\ Return(w, "failed")
    /\ UNCHANGED <<fileVars, lockVars, fd, expected, attempt>>

\* The process is killed: the kernel drops its flock, its files stay.
Crash(w) == /\ pc[w] \notin Ended
            /\ Goto(w, "crashed")
            /\ held' = held \ {w}
            /\ UNCHANGED <<fileVars, temps, lockVars, fd, expected, attempt>>

Step(w) == \/ Load(w)       \/ OpenLock(w)   \/ MendLock(w)  \/ CreateLock(w)
           \/ PublishLock(w)\/ StageLock(w)  \/ SwapLock(w)  \/ ReopenLock(w)
           \/ TakeLock(w)   \/ LockBusy(w)   \/ VerifyLock(w)\/ Compare(w)
           \/ StageFile(w)  \/ CheckLock(w)  \/ Recheck(w)   \/ Rename(w)
           \/ Unlock(w)

----------------------------------------------------------------------------
\* Those who take no part in the protocol: an editor that saves the file, and
\* a process of an account in the group that holds the lock as long as it likes.
Edit(e) == /\ e \notin edited
           /\ edited' = edited \cup {e}
           /\ target' = target \cup {e}
           /\ racing' = [racing EXCEPT ![e] = {w \in Writers : At(w, "rename")}]
           /\ UNCHANGED <<temps, lockVars, held, pc, fd, expected, attempt>>

OutsiderLocks == /\ outsider = NoLock
                 /\ lockName # NoLock
                 /\ Free(lockName)
                 /\ outsider' = lockName
                 /\ UNCHANGED <<fileVars, temps, lockName, shared, held, pc, fd,
                                expected, attempt>>

OutsiderUnlocks == /\ outsider # NoLock
                   /\ outsider' = NoLock
                   /\ UNCHANGED <<fileVars, temps, lockName, shared, held, pc,
                                  fd, expected, attempt>>

Next == \/ \E w \in Writers : Step(w) \/ IoError(w) \/ Crash(w)
        \/ \E e \in Edits : Edit(e)
        \/ OutsiderLocks
        \/ OutsiderUnlocks

Spec == Init /\ [][Next]_vars

\* A process that was not killed goes on; nobody else is relied on, least of
\* all the holder of the lock.
FairSpec == Spec /\ \A w \in Writers : WF_vars(Step(w))

----------------------------------------------------------------------------
TypeOK == /\ target \subseteq Writers \cup Edits
          /\ temps \subseteq Writers
          /\ lockName \in LockFiles \cup {NoLock}
          /\ shared \subseteq LockFiles
          /\ held \subseteq Writers
          /\ outsider \in LockFiles \cup {NoLock}
          /\ pc \in [Writers -> Steps \cup Ended]
          /\ fd \in [Writers -> LockFiles \cup {NoLock}]
          /\ expected \in [Writers -> SUBSET (Writers \cup Edits)]
          /\ attempt \in [Writers -> Nat]
          /\ edited \subseteq Edits
          /\ racing \in [Edits -> SUBSET Writers]

\* A call that returned Ok stays in the file: no later replacement overwrites
\* it unread ("rather than both passing the compare-and-swap and the last
\* rename winning", UpdateLock::still_named).
NoLostUpdate == \A w \in Writers : pc[w] = "done" => w \in target

\* The calls that answered Ok, or are about to; and all that can have replaced
\* the file, those killed with a lock open among them.
Committed == {w \in Writers : pc[w] \in {"unlock", "done"}}
Replacers == Committed \cup
             {w \in Writers : pc[w] = "crashed" /\ fd[w] # NoLock}

\* Where locks are healed, an update can be lost only between calls that went
\* by two different lock files: as long as all opened the same one, no kill,
\* error, timeout or order of their steps overwrites an update unread.
LossNeedsTwoLocks == \/ Committed \subseteq target
                     \/ \E u, v \in Replacers : fd[u] # fd[v]

\* An editor's save is lost only in the final window, to a call that had made
\* its last comparison when the save landed.
EditLostOnlyInFinalWindow ==
    [][\A e \in Edits : e \in target /\ e \notin target' =>
           \E v \in racing[e] : At(v, "rename")]_vars

\* Every call returns, however long others hold the lock: the wait is bounded.
EveryCallReturns == \A w \in Writers : <>(pc[w] \in Ended)

\* A temporary file outlives its call only when the call was killed.
OnlyKilledCallsLitter ==
    \A w \in temps : pc[w] \in {"check", "recheck", "rename", "crashed"}

----------------------------------------------------------------------------
\* The register the callers see: an update takes effect at its rename.
Outcome == [w \in Writers |->
               IF w \in target THEN "applied"
               ELSE IF pc[w] \in {"failed", "busy", "crashed"}
                    THEN "refused" ELSE "pending"]

Promise == INSTANCE UpdateStore WITH
    content <- target \cap Writers, outcome <- Outcome

\* In a private directory the replacement is that atomic register of the
\* calls' updates, crashes, errors and an editor's saves included.
IsAtomicStore == Promise!Spec
=============================================================================
