------------------------ MODULE FileReplace_proofs ------------------------
(***************************************************************************)
(* Theorems about FileReplace, for any set of calls, accounts and edits.   *)
(***************************************************************************)
EXTENDS FileReplace, TLAPS

\* A call has the flock of the file it opened exactly in these steps ...
Holding == {"verify", "compare", "stage", "check", "recheck", "rename", "unlock"}

\* ... and a lock file open in these.
HasOpened == Holding \cup {"mend", "publish", "lock", "done"}

\* The steps between the first comparison and the rename.
Prepared == {"stage", "check", "recheck", "rename"}

\* A lock file made in one of the attempts of a call is a lock file.
LEMMA NewLockIsFile ==
    ASSUME TypeOK, NEW w \in Writers
    PROVE  NewLock(w) \in LockFiles /\ NewLock(w) # NoLock
BY NoLockAssumption DEF TypeOK, NewLock, LockFiles

\* Who has which lock file, and who holds its flock.
Locking ==
    /\ \A w \in Writers : pc[w] \in HasOpened => fd[w] # NoLock
    /\ \A w \in Writers : w \in held <=> pc[w] \in Holding
    /\ \A u, v \in held : fd[u] = fd[v] => u = v

LockInv == TypeOK /\ Locking

LEMMA LockInvInit == Init => LockInv
<1> SUFFICES ASSUME Init PROVE LockInv
  OBVIOUS
<1>1. <<Legacy, 0>> \in LockFiles
  BY DEF LockFiles
<1> QED
  BY <1>1 DEF Init, LockInv, Locking, TypeOK, Steps, HasOpened, Holding

LEMMA LockInvStep == LockInv /\ [Next]_vars => LockInv'
<1> SUFFICES ASSUME LockInv, [Next]_vars PROVE LockInv'
  OBVIOUS
<1> USE DEF LockInv, Locking, TypeOK, HasOpened, Holding, StillNamed, Goto, Return, At,
            Steps, Ended, fileVars, lockVars
<1>1. ASSUME NEW w \in Writers, Load(w) \/ OpenLock(w) PROVE LockInv'
  BY <1>1 DEF Load, OpenLock, CanOpen
<1>2. ASSUME NEW w \in Writers, MendLock(w) \/ PublishLock(w) PROVE LockInv'
  BY <1>2 DEF MendLock, PublishLock
<1>3. ASSUME NEW w \in Writers, CreateLock(w) \/ ReopenLock(w) PROVE LockInv'
  BY <1>3, NewLockIsFile DEF CreateLock, ReopenLock, CanOpen
<1>4. ASSUME NEW w \in Writers, StageLock(w) \/ SwapLock(w) PROVE LockInv'
  BY <1>4, NewLockIsFile DEF StageLock, SwapLock
<1>5. ASSUME NEW w \in Writers, TakeLock(w) PROVE LockInv'
  BY <1>5 DEF TakeLock, Free
<1>6. ASSUME NEW w \in Writers, LockBusy(w) PROVE LockInv'
  BY <1>6 DEF LockBusy
<1>7. ASSUME NEW w \in Writers, VerifyLock(w) PROVE LockInv'
  BY <1>7 DEF VerifyLock
<1>8. ASSUME NEW w \in Writers,
             Compare(w) \/ StageFile(w) \/ CheckLock(w) \/ Recheck(w)
      PROVE  LockInv'
  BY <1>8 DEF Compare, StageFile, CheckLock, Recheck
<1>9. ASSUME NEW w \in Writers, Rename(w) \/ Unlock(w) PROVE LockInv'
  BY <1>9 DEF Rename, Unlock
<1>10. ASSUME NEW w \in Writers, IoError(w) \/ Crash(w) PROVE LockInv'
  BY <1>10 DEF IoError, Crash
<1>11. ASSUME NEW e \in Edits, Edit(e) PROVE LockInv'
  BY <1>11 DEF Edit
<1>12. CASE OutsiderLocks \/ OutsiderUnlocks
  BY <1>12 DEF OutsiderLocks, OutsiderUnlocks
<1>13. CASE UNCHANGED vars
  BY <1>13 DEF vars
<1> QED
  BY <1>1, <1>2, <1>3, <1>4, <1>5, <1>6, <1>7, <1>8, <1>9, <1>10, <1>11,
     <1>12, <1>13
  DEF Next, Step

\* Every reachable state has the declared types.
THEOREM TypeCorrect == Spec => []TypeOK
<1>1. LockInv => TypeOK
  BY DEF LockInv
<1> QED BY LockInvInit, LockInvStep, <1>1, PTL DEF Spec

-----------------------------------------------------------------------------
\* As long as all who can have replaced the file opened one lock file, the
\* committed updates are in the file, and in what every prepared call that
\* opened that lock file is about to write.
OneLock == \A u, v \in Replacers : fd[u] = fd[v]

Serial == OneLock =>
    /\ Committed \subseteq target
    /\ \A v \in Writers :
          /\ pc[v] \in Prepared
          /\ \A u \in Replacers : fd[u] = fd[v]
          => Committed \subseteq expected[v]

LEMMA SerialInit == Init => Serial
BY DEF Init, Serial, Committed, Prepared

LEMMA SerialStep == LockInv /\ Serial /\ [Next]_vars => Serial'
<1> SUFFICES ASSUME LockInv, Serial, [Next]_vars PROVE Serial'
  OBVIOUS
<1> USE DEF LockInv, Locking, TypeOK, Serial, OneLock, Committed, Replacers,
            HasOpened, Holding, Prepared, StillNamed, Goto, Return, At, Steps,
            Ended, fileVars, lockVars
<1>1. ASSUME NEW w \in Writers, Load(w) \/ OpenLock(w) PROVE Serial'
  BY <1>1 DEF Load, OpenLock
<1>2. ASSUME NEW w \in Writers, MendLock(w) \/ PublishLock(w) PROVE Serial'
  BY <1>2 DEF MendLock, PublishLock
<1>3. ASSUME NEW w \in Writers, CreateLock(w) \/ ReopenLock(w) PROVE Serial'
  BY <1>3 DEF CreateLock, ReopenLock
<1>4. ASSUME NEW w \in Writers, StageLock(w) \/ SwapLock(w) PROVE Serial'
  BY <1>4 DEF StageLock, SwapLock
<1>5. ASSUME NEW w \in Writers, TakeLock(w) \/ LockBusy(w) PROVE Serial'
  BY <1>5 DEF TakeLock, LockBusy
<1>6. ASSUME NEW w \in Writers, VerifyLock(w) PROVE Serial'
  BY <1>6 DEF VerifyLock
<1>7. ASSUME NEW w \in Writers, Compare(w) PROVE Serial'
  BY <1>7 DEF Compare
<1>8. ASSUME NEW w \in Writers, StageFile(w) \/ CheckLock(w) \/ Recheck(w)
      PROVE  Serial'
  BY <1>8 DEF StageFile, CheckLock, Recheck
<1>9. ASSUME NEW w \in Writers, Rename(w) PROVE Serial'
  BY <1>9 DEF Rename
<1>10. ASSUME NEW w \in Writers, Unlock(w) PROVE Serial'
  BY <1>10 DEF Unlock
<1>11. ASSUME NEW w \in Writers, IoError(w) PROVE Serial'
  BY <1>11 DEF IoError
<1>12. ASSUME NEW w \in Writers, Crash(w) PROVE Serial'
  BY <1>12 DEF Crash
<1>13. ASSUME NEW e \in Edits, Edit(e) PROVE Serial'
  BY <1>13 DEF Edit
<1>14. CASE OutsiderLocks \/ OutsiderUnlocks
  BY <1>14 DEF OutsiderLocks, OutsiderUnlocks
<1>15. CASE UNCHANGED vars
  BY <1>15 DEF vars
<1> QED
  BY <1>1, <1>2, <1>3, <1>4, <1>5, <1>6, <1>7, <1>8, <1>9, <1>10, <1>11,
     <1>12, <1>13, <1>14, <1>15
  DEF Next, Step

\* An update is lost only between calls that went by two different lock files,
\* for any number of calls and accounts, healing and editors included.
THEOREM LossNeedsTwo == Spec => []LossNeedsTwoLocks
<1>1. Serial => LossNeedsTwoLocks
  BY DEF Serial, OneLock, LossNeedsTwoLocks
<1> QED
  BY LockInvInit, LockInvStep, SerialInit, SerialStep, <1>1, PTL DEF Spec

-----------------------------------------------------------------------------
\* In a private directory nothing renames over the lock, so every call opens
\* the one lock file there is.
OnePrivateLock ==
    ~SharedRecord => \A w \in Writers :
        /\ pc[w] \notin {"mend", "stageLock", "swap", "reopen"}
        /\ fd[w] \in {NoLock, lockName}

LEMMA OnePrivateLockStep ==
    LockInv /\ OnePrivateLock /\ [Next]_vars => OnePrivateLock'
<1> SUFFICES ASSUME LockInv, OnePrivateLock, [Next]_vars PROVE OnePrivateLock'
  OBVIOUS
<1> USE DEF LockInv, TypeOK, OnePrivateLock, StillNamed, Goto, Return, At,
            fileVars, lockVars
<1>1. ASSUME NEW w \in Writers,
             \/ Load(w) \/ MendLock(w) \/ PublishLock(w) \/ StageLock(w)
             \/ SwapLock(w) \/ ReopenLock(w) \/ TakeLock(w) \/ LockBusy(w)
      PROVE  OnePrivateLock'
  BY <1>1 DEF Load, MendLock, PublishLock, StageLock, SwapLock, ReopenLock,
              TakeLock, LockBusy
<1>2. ASSUME NEW w \in Writers, OpenLock(w) PROVE OnePrivateLock'
  BY <1>2 DEF OpenLock, CanOpen
<1>3. ASSUME NEW w \in Writers, CreateLock(w) PROVE OnePrivateLock'
  BY <1>3 DEF CreateLock, CanOpen
<1>4. ASSUME NEW w \in Writers,
             \/ VerifyLock(w) \/ Compare(w) \/ StageFile(w) \/ CheckLock(w)
             \/ Recheck(w) \/ Rename(w) \/ Unlock(w) \/ IoError(w) \/ Crash(w)
      PROVE  OnePrivateLock'
  BY <1>4 DEF VerifyLock, Compare, StageFile, CheckLock, Recheck, Rename,
              Unlock, IoError, Crash
<1>5. CASE \/ \E e \in Edits : Edit(e)
           \/ OutsiderLocks \/ OutsiderUnlocks \/ UNCHANGED vars
  BY <1>5 DEF Edit, OutsiderLocks, OutsiderUnlocks, vars
<1> QED BY <1>1, <1>2, <1>3, <1>4, <1>5 DEF Next, Step

\* In a private directory a call that answered Ok is never overwritten unread,
\* whatever is killed, fails or runs out of time, and beside any editor.
THEOREM PrivateNeverLoses ==
    ASSUME SharedRecord = FALSE
    PROVE  Spec => []NoLostUpdate
<1>1. Init => OnePrivateLock
  BY DEF Init, OnePrivateLock
<1>2. LockInv /\ Serial /\ OnePrivateLock => NoLostUpdate
  BY DEF LockInv, Locking, HasOpened, Holding, Serial, OneLock, OnePrivateLock,
         NoLostUpdate, Committed, Replacers
<1> QED
  BY LockInvInit, LockInvStep, SerialInit, SerialStep, OnePrivateLockStep,
     <1>1, <1>2, PTL DEF Spec

-----------------------------------------------------------------------------
\* The updates a prepared call read are those the file still holds, whatever an
\* editor did, and an update is in the file only once its call has renamed.
Undisturbed ==
    /\ \A v \in Writers : pc[v] \in Prepared =>
           target \cap Writers = expected[v] \cap Writers
    /\ \A w \in target \cap Writers : pc[w] \in {"unlock", "done", "crashed"}

LEMMA UndisturbedStep ==
    ASSUME SharedRecord = FALSE
    PROVE  LockInv /\ OnePrivateLock /\ Undisturbed /\ [Next]_vars => Undisturbed'
<1> SUFFICES ASSUME LockInv, OnePrivateLock, Undisturbed, [Next]_vars
             PROVE  Undisturbed'
  OBVIOUS
<1> USE DEF LockInv, Locking, TypeOK, Undisturbed, HasOpened, Holding, Prepared,
            StillNamed, Goto, Return, At, fileVars, lockVars
<1>1. ASSUME NEW w \in Writers, Rename(w) PROVE Undisturbed'
  <2>1. \A v \in Writers : pc[v] \in Prepared => v = w
    BY <1>1 DEF Rename, OnePrivateLock
  <2> QED BY <1>1, <2>1 DEF Rename
<1>2. ASSUME NEW w \in Writers, Compare(w) PROVE Undisturbed'
  BY <1>2 DEF Compare
<1>3. ASSUME NEW w \in Writers, Load(w) \/ OpenLock(w) \/ CreateLock(w)
      PROVE  Undisturbed'
  BY <1>3 DEF Load, OpenLock, CreateLock
<1>4. ASSUME NEW w \in Writers,
             \/ MendLock(w) \/ PublishLock(w) \/ StageLock(w) \/ SwapLock(w)
             \/ ReopenLock(w) \/ TakeLock(w) \/ LockBusy(w) \/ VerifyLock(w)
      PROVE  Undisturbed'
  BY <1>4 DEF MendLock, PublishLock, StageLock, SwapLock, ReopenLock, TakeLock,
              LockBusy, VerifyLock
<1>5. ASSUME NEW w \in Writers,
             \/ StageFile(w) \/ CheckLock(w) \/ Recheck(w) \/ Unlock(w)
             \/ IoError(w) \/ Crash(w)
      PROVE  Undisturbed'
  BY <1>5 DEF StageFile, CheckLock, Recheck, Unlock, IoError, Crash, Ended
<1>6. CASE OutsiderLocks \/ OutsiderUnlocks \/ UNCHANGED vars
  BY <1>6 DEF OutsiderLocks, OutsiderUnlocks, vars
<1>7. ASSUME NEW e \in Edits, Edit(e) PROVE Undisturbed'
  BY <1>7, ReplaceAssumption DEF Edit
<1> QED
  BY <1>1, <1>2, <1>3, <1>4, <1>5, <1>6, <1>7 DEF Next, Step

\* In a private directory the replacement implements the atomic register of the
\* calls' updates: it takes effect at the rename or not at all.
THEOREM PrivateIsAtomic ==
    ASSUME SharedRecord = FALSE
    PROVE  Spec => IsAtomicStore
<1>1. Init => OnePrivateLock /\ Undisturbed
  BY DEF Init, OnePrivateLock, Undisturbed, Prepared
<1>2. Init => Promise!Init
  BY DEF Init, Outcome, Promise!Init
<1>3. LockInv /\ OnePrivateLock /\ Undisturbed /\ [Next]_vars
        => [Promise!Next]_(Promise!vars)
  <2> SUFFICES ASSUME LockInv, OnePrivateLock, Undisturbed, [Next]_vars
               PROVE  [Promise!Next]_(Promise!vars)
    OBVIOUS
  <2> USE DEF LockInv, TypeOK, Undisturbed, Prepared, Goto, Return, At,
              fileVars, lockVars, Promise!vars
  <2>1. ASSUME NEW w \in Writers, Rename(w) PROVE Promise!Apply(w)
    <3>1. /\ w \notin target
          /\ target' \cap Writers = (target \cap Writers) \cup {w}
      BY <2>1 DEF Rename
    <3>2. \A v \in Writers : pc'[v] = IF v = w THEN "unlock" ELSE pc[v]
      BY <2>1 DEF Rename
    <3>3. pc[w] = "rename"
      BY <2>1 DEF Rename
    <3>4. Outcome[w] = "pending" /\ Outcome' = [Outcome EXCEPT ![w] = "applied"]
      BY <3>1, <3>2, <3>3 DEF Outcome
    <3> QED BY <3>1, <3>4 DEF Promise!Apply
  <2>2. ASSUME NEW w \in Writers, target' = target,
               pc' = [pc EXCEPT ![w] = pc'[w]],
               pc'[w] \in {"failed", "busy", "crashed"},
               pc[w] \notin {"failed", "busy", "crashed"}
        PROVE  [Promise!Next]_(Promise!vars)
    <3>1. CASE w \in target
      BY <2>2, <3>1 DEF Outcome
    <3>2. CASE w \notin target
      <4>1. Outcome[w] = "pending"
        BY <2>2, <3>2 DEF Outcome
      <4>2. Outcome' = [Outcome EXCEPT ![w] = "refused"]
        BY <2>2, <3>2 DEF Outcome
      <4> QED BY <2>2, <4>1, <4>2 DEF Promise!Next, Promise!Refuse
    <3> QED BY <3>1, <3>2
  <2>3. ASSUME NEW w \in Writers, target' = target,
               pc' = [pc EXCEPT ![w] = pc'[w]],
               pc'[w] \notin {"failed", "busy", "crashed"},
               pc[w] \notin {"failed", "busy", "crashed"}
        PROVE  UNCHANGED Promise!vars
    BY <2>3 DEF Outcome
  <2>4. ASSUME NEW w \in Writers, Step(w) \/ IoError(w) \/ Crash(w), ~Rename(w)
        PROVE  /\ target' = target
               /\ pc' = [pc EXCEPT ![w] = pc'[w]]
               /\ pc[w] \notin {"failed", "busy", "crashed"}
    <3>1. CASE \/ Load(w) \/ OpenLock(w) \/ CreateLock(w) \/ MendLock(w)
               \/ PublishLock(w) \/ StageLock(w) \/ SwapLock(w) \/ ReopenLock(w)
      BY <3>1 DEF Load, OpenLock, CreateLock, MendLock, PublishLock, StageLock,
                  SwapLock, ReopenLock
    <3>2. CASE \/ TakeLock(w) \/ LockBusy(w) \/ VerifyLock(w) \/ Compare(w)
               \/ StageFile(w) \/ CheckLock(w) \/ Recheck(w) \/ Unlock(w)
      BY <3>2 DEF TakeLock, LockBusy, VerifyLock, Compare, StageFile, CheckLock,
                  Recheck, Unlock
    <3>3. CASE IoError(w) \/ Crash(w)
      BY <3>3 DEF IoError, Crash, Ended
    <3> QED BY <2>4, <3>1, <3>2, <3>3 DEF Step
  <2>5. CASE OutsiderLocks \/ OutsiderUnlocks \/ UNCHANGED vars
    BY <2>5 DEF OutsiderLocks, OutsiderUnlocks, vars, Outcome
  <2>6. ASSUME NEW e \in Edits, Edit(e) PROVE UNCHANGED Promise!vars
    BY <2>6, ReplaceAssumption DEF Edit, Outcome
  <2> QED
    BY <2>1, <2>2, <2>3, <2>4, <2>5, <2>6 DEF Next, Promise!Next, Step
<1> QED
  BY LockInvInit, LockInvStep, OnePrivateLockStep, UndisturbedStep, <1>1, <1>2,
     <1>3, PTL DEF Spec, IsAtomicStore, Promise!Spec

-----------------------------------------------------------------------------
\* Only a killed call leaves its staged file behind: every return of
\* replace_inner_with removes it, whatever failed and wherever.
THEOREM NoLitter == Spec => []OnlyKilledCallsLitter
<1>1. Init => OnlyKilledCallsLitter
  BY DEF Init, OnlyKilledCallsLitter
<1>2. LockInv /\ OnlyKilledCallsLitter /\ [Next]_vars => OnlyKilledCallsLitter'
  <2> SUFFICES ASSUME LockInv, OnlyKilledCallsLitter, [Next]_vars
               PROVE  OnlyKilledCallsLitter'
    OBVIOUS
  <2> USE DEF LockInv, TypeOK, OnlyKilledCallsLitter, Goto, Return, At
  <2>1. ASSUME NEW w \in Writers,
               \/ Load(w) \/ OpenLock(w) \/ CreateLock(w) \/ MendLock(w)
               \/ PublishLock(w) \/ StageLock(w) \/ SwapLock(w) \/ ReopenLock(w)
        PROVE  OnlyKilledCallsLitter'
    BY <2>1 DEF Load, OpenLock, CreateLock, MendLock, PublishLock, StageLock,
                SwapLock, ReopenLock
  <2>2. ASSUME NEW w \in Writers,
               \/ TakeLock(w) \/ LockBusy(w) \/ VerifyLock(w) \/ Compare(w)
               \/ StageFile(w) \/ CheckLock(w) \/ Recheck(w) \/ Rename(w)
               \/ Unlock(w)
        PROVE  OnlyKilledCallsLitter'
    BY <2>2 DEF TakeLock, LockBusy, VerifyLock, Compare, StageFile, CheckLock,
                Recheck, Rename, Unlock
  <2>3. ASSUME NEW w \in Writers, IoError(w) \/ Crash(w)
        PROVE  OnlyKilledCallsLitter'
    BY <2>3 DEF IoError, Crash
  <2>4. CASE \/ \E e \in Edits : Edit(e)
             \/ OutsiderLocks \/ OutsiderUnlocks \/ UNCHANGED vars
    BY <2>4 DEF Edit, OutsiderLocks, OutsiderUnlocks, vars
  <2> QED
    BY <2>1, <2>2, <2>3, <2>4 DEF Next, Step
<1> QED
  BY LockInvInit, LockInvStep, <1>1, <1>2, PTL DEF Spec

\* What is in the file and a call about to rename has not read was saved after
\* that call's last comparison.
SavedLate ==
    \A w \in Writers, e \in Edits :
        /\ At(w, "rename")
        /\ e \in target \ expected[w]
        => w \in racing[e]

LEMMA SavedLateStep ==
    ASSUME SharedRecord = FALSE
    PROVE  LockInv /\ OnePrivateLock /\ SavedLate /\ [Next]_vars => SavedLate'
<1> SUFFICES ASSUME LockInv, OnePrivateLock, SavedLate, [Next]_vars
             PROVE  SavedLate'
  OBVIOUS
<1> USE DEF LockInv, Locking, TypeOK, SavedLate, HasOpened, Holding, Goto, Return, At
<1>1. ASSUME NEW w \in Writers, Rename(w) PROVE SavedLate'
  <2>1. \A v \in Writers : pc[v] = "rename" => v = w
    BY <1>1 DEF Rename, OnePrivateLock
  <2>2. \A v \in Writers : pc'[v] # "rename"
    BY <1>1, <2>1 DEF Rename
  <2> QED
    BY <2>2
<1>2. ASSUME NEW w \in Writers,
             \/ Load(w) \/ OpenLock(w) \/ CreateLock(w) \/ MendLock(w)
             \/ PublishLock(w) \/ StageLock(w) \/ SwapLock(w) \/ ReopenLock(w)
      PROVE  SavedLate'
  BY <1>2 DEF Load, OpenLock, CreateLock, MendLock, PublishLock, StageLock,
              SwapLock, ReopenLock, fileVars
<1>3. ASSUME NEW w \in Writers,
             \/ TakeLock(w) \/ LockBusy(w) \/ VerifyLock(w) \/ Compare(w)
             \/ StageFile(w) \/ CheckLock(w) \/ Recheck(w) \/ Unlock(w)
             \/ IoError(w) \/ Crash(w)
      PROVE  SavedLate'
  BY <1>3 DEF TakeLock, LockBusy, VerifyLock, Compare, StageFile, CheckLock,
              Recheck, Unlock, IoError, Crash, fileVars
<1>4. ASSUME NEW e \in Edits, Edit(e) PROVE SavedLate'
  BY <1>4 DEF Edit
<1>5. CASE OutsiderLocks \/ OutsiderUnlocks \/ UNCHANGED vars
  BY <1>5 DEF OutsiderLocks, OutsiderUnlocks, vars, fileVars
<1> QED
  BY <1>1, <1>2, <1>3, <1>4, <1>5 DEF Next, Step

\* In a private directory an editor's save is lost only to a call that had made
\* its last comparison when the save landed: the second comparison narrows the
\* window an editor can fall in to the rename.
THEOREM EditsAreLostLate ==
    ASSUME SharedRecord = FALSE
    PROVE  Spec => EditLostOnlyInFinalWindow
<1>1. Init => OnePrivateLock /\ SavedLate
  BY DEF Init, OnePrivateLock, SavedLate, At
<1>2. LockInv /\ SavedLate /\ [Next]_vars =>
        [\A e \in Edits : e \in target /\ e \notin target' =>
           \E v \in racing[e] : At(v, "rename")]_vars
  <2> SUFFICES ASSUME LockInv, SavedLate, [Next]_vars,
                      NEW e \in Edits, e \in target, e \notin target'
               PROVE  \E v \in racing[e] : At(v, "rename")
    OBVIOUS
  <2>1. PICK w \in Writers : Rename(w)
    <3>1. ASSUME NEW w \in Writers,
                 \/ Load(w) \/ OpenLock(w) \/ CreateLock(w) \/ MendLock(w)
                 \/ PublishLock(w) \/ StageLock(w) \/ SwapLock(w) \/ ReopenLock(w)
                 \/ TakeLock(w) \/ LockBusy(w) \/ VerifyLock(w) \/ Compare(w)
          PROVE  FALSE
      BY <3>1 DEF Load, OpenLock, CreateLock, MendLock, PublishLock, StageLock,
                  SwapLock, ReopenLock, TakeLock, LockBusy, VerifyLock, Compare,
                  fileVars
    <3>2. ASSUME NEW w \in Writers,
                 \/ StageFile(w) \/ CheckLock(w) \/ Recheck(w) \/ Unlock(w)
                 \/ IoError(w) \/ Crash(w)
          PROVE  FALSE
      BY <3>2 DEF StageFile, CheckLock, Recheck, Unlock, IoError, Crash, fileVars
    <3>3. CASE \/ \E d \in Edits : Edit(d)
               \/ OutsiderLocks \/ OutsiderUnlocks \/ UNCHANGED vars
      BY <3>3 DEF Edit, OutsiderLocks, OutsiderUnlocks, vars, fileVars
    <3> QED
      BY <3>1, <3>2, <3>3 DEF Next, Step
  <2>2. At(w, "rename") /\ e \notin expected[w]
    BY <2>1 DEF Rename
  <2> QED
    BY <2>2 DEF SavedLate
<1> QED
  BY LockInvInit, LockInvStep, OnePrivateLockStep, SavedLateStep, <1>1, <1>2, PTL
  DEF Spec, EditLostOnlyInFinalWindow
=============================================================================
