------------------------- MODULE MetadataCache_proofs -------------------------
(***************************************************************************)
(* Proofs about the disk cache, for any number of windows and any catalogs. *)
(* What follows from the lock is proved from mutual exclusion alone, and   *)
(* mutual exclusion under the conditions it needs.                         *)
(***************************************************************************)
EXTENDS MetadataCache, TLAPS

-----------------------------------------------------------------------------
(* Types *)

\* A window in a step of a save is a saver, and in one of a clear a cleaner.
StepsHaveOwner ==
    /\ \A p \in Procs : pc[p] \in SaveSteps \cup Waiting \cup {"crashed"} => p \in Savers
    /\ \A p \in Procs : pc[p] \in {"list", "unpublish", "sweep"} => p \in Cleaners

\* A read has a manifest to work from.
ReadHasManifest ==
    \A p \in Procs : pc[p] \in ReadSteps \ {"manifest"} => seen[p] # NoManifest

\* A save verifies a manifest of its own content, and rewrites what it verified.
SaveHasCurrent ==
    \A s \in Savers :
        /\ pc[s] \in ReadSteps => goal[s] # "none"
        /\ pc[s] # "idle" => snapshot[s] # NoSnapshot
        /\ pc[s] \in ReadSteps /\ goal[s] = "verify" => current[s] # NoManifest
        /\ pc[s] = "rewrite" => current[s] # NoManifest

TInv == TypeOK /\ StepsHaveOwner /\ ReadHasManifest /\ SaveHasCurrent

\* The type invariant, with what it rests on, in the initial state and under every
\* group of actions.
LEMMA TInvInit == Init => TInv
  <1> SUFFICES ASSUME Init PROVE TInv
    OBVIOUS
  <1>1. TypeOK
    BY DEF Init, TypeOK, Steps, Procs
  <1>2. StepsHaveOwner /\ ReadHasManifest
    BY DEF Init, StepsHaveOwner, ReadHasManifest, Waiting, SaveSteps, ReadSteps, Procs
  <1>3. SaveHasCurrent
    BY DEF Init, SaveHasCurrent, ReadSteps, Procs
  <1> QED
    BY <1>1, <1>2, <1>3 DEF TInv

\* The lock file.
LEMMA TInvLock ==
    ASSUME TInv, NEW s \in Savers, BeginSave(s) \/ Lock(s) \/ Crash(s)
    PROVE  TInv'
  <1> USE ProcessAssumption DEF TInv, TypeOK, StepsHaveOwner, ReadHasManifest, SaveHasCurrent,
          Steps, Waiting, SaveSteps, ReadSteps, Ends, Procs, At, Goto, fileVars, lockVars,
          readVars, saveVars
  <1>1. CASE BeginSave(s)
    BY <1>1, DataAssumption DEF BeginSave, Snapshots, NoSnapshot
  <1>2. CASE AcquireLock(s)
    BY <1>2 DEF AcquireLock
  <1>3. CASE FailAttempt(s) \/ SeeStale(s) \/ Sleep(s)
    BY <1>3 DEF FailAttempt, SeeStale, Sleep
  <1>4. CASE RemoveStale(s) \/ Unlock(s)
    <2>1. lock' \in Savers \cup {Free} /\ stale' \in BOOLEAN
      BY <1>4 DEF RemoveStale, Unlock, RemoveLock
    <2>2. CASE RemoveStale(s)
      BY <2>1, <2>2 DEF RemoveStale
    <2>3. CASE Unlock(s)
      BY <2>1, <2>3 DEF Unlock
    <2> QED
      BY <1>4, <2>2, <2>3
  <1>5. CASE GiveUp(s)
    <2>1. lock' \in Savers \cup {Free} /\ stale' \in BOOLEAN
      BY <1>5 DEF GiveUp, RemoveLock
    <2>2. pc' = [pc EXCEPT ![s] = "done"] /\ pc[s] \in {"held", "recover"}
      BY <1>5 DEF GiveUp
    <2> QED
      BY <1>5, <2>1, <2>2 DEF GiveUp, EndSave
  <1>6. CASE Crash(s)
    BY <1>6 DEF Crash, InSection
  <1> QED
    BY <1>1, <1>2, <1>3, <1>4, <1>5, <1>6 DEF Lock

\* What a read returns to.
LEMMA TInvReturn ==
    ASSUME TInv, NEW p \in Savers \cup Readers, NEW hit \in BOOLEAN, pc[p] \in ReadSteps,
           Return(p, hit), hit => seen[p] # NoManifest,
           payload' \in [Contents -> {"none", "good", "bad"}],
           manifest' \in Manifests \cup {NoManifest},
           UNCHANGED <<lockVars, readVars, listed>>
    PROVE  TInv'
  <1> USE ProcessAssumption DEF TInv, TypeOK, StepsHaveOwner, ReadHasManifest, SaveHasCurrent,
          Steps, Waiting, SaveSteps, ReadSteps, Ends, Procs, At, Goto, fileVars, lockVars,
          readVars, saveVars
  <1>1. CASE p \in Readers
    BY <1>1 DEF Return
  <1>2. CASE p \in Savers /\ goal[p] = "verify"
    <2>1. pc' = [pc EXCEPT ![p] = "rewrite"] \/ pc' = [pc EXCEPT ![p] = "previous"]
      BY <1>2 DEF Return
    <2>2. /\ goal' = [goal EXCEPT ![p] = "none"]
          /\ UNCHANGED <<snapshot, current, outcome>>
      BY <1>2 DEF Return
    <2> QED
      BY <1>2, <2>1, <2>2
  <1>3. CASE p \in Savers /\ goal[p] = "confirm"
    <2>1. pc' = [pc EXCEPT ![p] = "unlock"]
      BY <1>3 DEF Return
    <2>2. /\ goal' = [goal EXCEPT ![p] = "none"]
          /\ outcome' \in [Savers -> {"none", "saved", "confirmed", "skipped", "raceLost",
                                     "failed"}]
          /\ UNCHANGED <<snapshot, current>>
      BY <1>3 DEF Return, EndSave
    <2> QED
      BY <1>3, <2>1, <2>2
  <1> QED
    BY <1>1, <1>2, <1>3 DEF Return

LEMMA TInvRead ==
    ASSUME TInv, NEW p \in Savers \cup Readers, Read(p)
    PROVE  TInv'
  <1> USE ProcessAssumption DEF TInv, TypeOK, StepsHaveOwner, ReadHasManifest, SaveHasCurrent,
          Steps, Waiting, SaveSteps, ReadSteps, Ends, Procs, At, Goto, fileVars, lockVars,
          readVars, saveVars
  <1>1. CASE ReadManifest(p)
    BY <1>1 DEF ReadManifest
  <1>2. CASE MissManifest(p)
    BY <1>2, TInvReturn DEF MissManifest
  <1>3. CASE StatPayload(p)
    <2>1. pc' = [pc EXCEPT ![p] = "drop"] \/ pc' = [pc EXCEPT ![p] = "read"]
          \/ pc' = [pc EXCEPT ![p] = "quarantine"]
      BY <1>3 DEF StatPayload
    <2> QED
      BY <1>3, <2>1 DEF StatPayload
  <1>4. CASE DropManifest(p)
    BY <1>4, TInvReturn DEF DropManifest
  <1>5. CASE ReadPayload(p)
    BY <1>5, TInvReturn DEF ReadPayload
  <1>6. CASE HashMismatch(p)
    BY <1>6 DEF HashMismatch
  <1>7. CASE Reread(p)
    <2>1. pc' = [pc EXCEPT ![p] = "manifest"] \/ pc' = [pc EXCEPT ![p] = "quarantine"]
      BY <1>7 DEF Reread
    <2>2. retried' \in [Procs -> BOOLEAN]
      BY <1>7 DEF Reread
    <2> QED
      BY <1>7, <2>1, <2>2 DEF Reread
  <1>8. CASE Quarantine(p)
    BY <1>8 DEF Quarantine
  <1>9. CASE SetAside(p)
    <2>1. payload' \in [Contents -> {"none", "good", "bad"}]
      BY <1>9 DEF SetAside
    <2> QED
      BY <1>9, <2>1, TInvReturn DEF SetAside
  <1> QED
    BY <1>1, <1>2, <1>3, <1>4, <1>5, <1>6, <1>7, <1>8, <1>9 DEF Read

\* A save that holds the lock.
LEMMA TInvSave ==
    ASSUME TInv, NEW s \in Savers, Save(s)
    PROVE  TInv'
  <1> USE ProcessAssumption DEF TInv, TypeOK, StepsHaveOwner, ReadHasManifest, SaveHasCurrent,
          Steps, Waiting, SaveSteps, ReadSteps, Ends, Procs, At, Goto, fileVars, lockVars,
          readVars, saveVars
  <1>1. CASE CompareNewer(s)
    BY <1>1 DEF CompareNewer, EndSave
  <1>2. CASE CompareSame(s)
    BY <1>2, DataAssumption DEF CompareSame, ReadFor, NoManifest, Snapshots, NoSnapshot
  <1>3. CASE CompareOlder(s)
    BY <1>3 DEF CompareOlder
  <1>4. CASE Rewrite(s)
    BY <1>4 DEF Rewrite, EndSave
  <1>5. CASE ReadPrevious(s)
    BY <1>5 DEF ReadPrevious
  <1>6. CASE WritePayload(s)
    BY <1>6 DEF WritePayload
  <1>7. CASE Publish(s)
    <2>1. manifest' \in Manifests
      BY <1>7 DEF Publish, Manifests, Snapshots
    <2> QED
      BY <1>7, <2>1 DEF Publish
  <1>8. CASE Retire(s)
    BY <1>8 DEF Retire
  <1>9. CASE ConfirmLost(s)
    BY <1>9 DEF ConfirmLost, EndSave
  <1>10. CASE ConfirmOurs(s)
    BY <1>10 DEF ConfirmOurs, ReadFor
  <1>11. CASE WriteFails(s)
    BY <1>11 DEF WriteFails, EndSave
  <1>12. CASE TooLarge(s)
    BY <1>12 DEF TooLarge, EndSave
  <1> QED
    BY <1>1, <1>2, <1>3, <1>4, <1>5, <1>6, <1>7, <1>8, <1>9, <1>10, <1>11, <1>12 DEF Save

LEMMA TInvClean ==
    ASSUME TInv, NEW c \in Cleaners, Clean(c)
    PROVE  TInv'
  <1> USE ProcessAssumption DEF TInv, TypeOK, StepsHaveOwner, ReadHasManifest, SaveHasCurrent,
          Steps, Waiting, SaveSteps, ReadSteps, Ends, Procs, At, Goto, fileVars, lockVars,
          readVars, saveVars
  <1>1. Files \in SUBSET (Contents \cup {LockFile})
    BY DEF Files
  <1>2. CASE BeginClear(c)
    BY <1>2 DEF BeginClear
  <1>3. CASE ListFiles(c)
    BY <1>1, <1>3 DEF ListFiles
  <1>4. CASE BeginEvict(c)
    BY <1>1, <1>4 DEF BeginEvict
  <1>5. CASE Unpublish(c)
    BY <1>5 DEF Unpublish
  <1>6. CASE Sweep(c)
    <2>1. /\ payload' \in [Contents -> {"none", "good", "bad"}]
          /\ lock' \in Savers \cup {Free}
          /\ stale' \in BOOLEAN
      <3>1. PICK file \in listed[c] :
               IF file = LockFile
               THEN RemoveLock /\ UNCHANGED payload
               ELSE payload' = [payload EXCEPT ![file] = "none"] /\ UNCHANGED lockVars
        BY <1>6 DEF Sweep
      <3>2. CASE file = LockFile
        BY <3>1, <3>2 DEF RemoveLock
      <3>3. CASE file # LockFile
        BY <3>1, <3>3
      <3> QED
        BY <3>2, <3>3
    <2>2. listed' \in [Cleaners -> SUBSET (Contents \cup {LockFile})]
      BY <1>6 DEF Sweep
    <2> QED
      BY <1>6, <2>1, <2>2 DEF Sweep
  <1>7. CASE EndSweep(c)
    BY <1>7 DEF EndSweep
  <1> QED
    BY <1>2, <1>3, <1>4, <1>5, <1>6, <1>7 DEF Clean

LEMMA TInvInductive == TInv /\ [Next]_vars => TInv'
  <1> SUFFICES ASSUME TInv, [Next]_vars PROVE TInv'
    OBVIOUS
  <1> USE ProcessAssumption DEF TInv, TypeOK, StepsHaveOwner, ReadHasManifest, SaveHasCurrent,
          Steps, Waiting, SaveSteps, ReadSteps, Ends, Procs, At, Goto, fileVars, lockVars,
          readVars, saveVars
  <1>1. ASSUME NEW r \in Readers, BeginLoad(r) PROVE TInv'
    BY <1>1 DEF BeginLoad
  <1>2. CASE LeaseExpires
    BY <1>2 DEF LeaseExpires
  <1>3. ASSUME NEW c \in Contents, Damage(c) PROVE TInv'
    BY <1>3 DEF Damage
  <1>4. CASE UNCHANGED vars
    BY <1>4 DEF vars
  <1> QED
    BY <1>1, <1>2, <1>3, <1>4, TInvLock, TInvSave, TInvRead, TInvClean DEF Next

\* Whatever windows save, load and clear, in whatever order and with whatever
\* faults, the files, the lock and the windows are in states the model names.
THEOREM TypeCorrect == Spec => []TypeOK
  <1>1. Spec => []TInv
    BY TInvInit, TInvInductive, PTL DEF Spec
  <1> QED
    BY <1>1, PTL DEF TInv

-----------------------------------------------------------------------------
(* The lock and its holder                                                  *)

\* Reading on behalf of a save leaves the save where it was, in its section.
LEMMA ReadStaysInSection ==
    ASSUME TInv, NEW p \in Savers \cup Readers, Read(p), NEW s \in Savers
    PROVE  /\ InSection(s)' <=> InSection(s)
           /\ pc'[s] = pc[s] \/ (s = p /\ pc[s] \in ReadSteps /\ InSection(s))
           /\ lock' = lock
  <1> USE ProcessAssumption DEF TInv, TypeOK, StepsHaveOwner, ReadHasManifest, SaveHasCurrent,
          ReadSteps, SaveSteps, Procs, At, Goto, InSection, lockVars, saveVars
  <1>1. ASSUME NEW hit, Return(p, hit), pc[p] \in ReadSteps
        PROVE  /\ InSection(s)' <=> InSection(s)
               /\ pc'[s] = pc[s] \/ (s = p /\ pc[s] \in ReadSteps /\ InSection(s))
    <2>1. CASE p \in Readers
      <3>1. p \notin Savers /\ p # s
        BY <2>1
      <3>2. pc'[s] = pc[s] /\ UNCHANGED saveVars
        BY <1>1, <3>1 DEF Return
      <3> QED
        BY <3>1, <3>2
    <2>2. CASE p \in Savers
      <3>1. goal' = [goal EXCEPT ![p] = "none"]
        BY <1>1, <2>2 DEF Return, EndSave
      <3>2. \/ pc' = [pc EXCEPT ![p] = "rewrite"]
            \/ pc' = [pc EXCEPT ![p] = "previous"]
            \/ pc' = [pc EXCEPT ![p] = "unlock"]
        BY <1>1, <2>2 DEF Return
      <3>3. CASE s = p
        <4>1. goal[p] # "none"
          BY <1>1, <2>2
        <4>2. pc'[p] \in {"rewrite", "previous", "unlock"}
          BY <3>2, <2>2
        <4> QED
          BY <1>1, <3>3, <4>1, <4>2
      <3>4. CASE s # p
        <4>1. pc'[s] = pc[s] /\ goal'[s] = goal[s]
          BY <3>1, <3>2, <3>4
        <4> QED
          BY <4>1
      <3> QED
        BY <3>3, <3>4
    <2> QED
      BY <2>1, <2>2
  <1>2. CASE MissManifest(p) \/ DropManifest(p) \/ ReadPayload(p) \/ SetAside(p)
    <2>1. PICK hit : Return(p, hit)
      BY <1>2 DEF MissManifest, DropManifest, ReadPayload, SetAside
    <2>2. pc[p] \in ReadSteps /\ UNCHANGED lockVars
      BY <1>2 DEF MissManifest, DropManifest, ReadPayload, SetAside
    <2> HIDE DEF TInv
    <2> QED
      BY <1>1, <2>1, <2>2 DEF lockVars
  <1>3. CASE ReadManifest(p) \/ StatPayload(p) \/ HashMismatch(p) \/ Reread(p) \/ Quarantine(p)
    <2>1. UNCHANGED <<lockVars, saveVars>> /\ pc[p] \in ReadSteps
      BY <1>3 DEF ReadManifest, StatPayload, HashMismatch, Reread, Quarantine
    <2>2. \E step \in ReadSteps : pc' = [pc EXCEPT ![p] = step]
      BY <1>3 DEF ReadManifest, StatPayload, HashMismatch, Reread, Quarantine
    <2>3. CASE s = p
      <3>1. pc'[p] \in ReadSteps /\ goal' = goal
        BY <2>1, <2>2, <2>3
      <3>2. goal[p] # "none"
        BY <2>1, <2>3
      <3> QED
        BY <2>1, <2>3, <3>1, <3>2
    <2>4. CASE s # p
      <3>1. pc'[s] = pc[s] /\ goal' = goal
        BY <2>1, <2>2, <2>4
      <3> QED
        BY <2>1, <3>1
    <2> QED
      BY <2>3, <2>4
  <1> QED
    BY <1>2, <1>3 DEF Read

\* A window that leaves its lock behind: it crashed, or its unlink failed.
LeftBehind(s) == pc[s] = "crashed" \/ (pc[s] = "done" /\ "unlink" \in Faults)

\* Who enters the section takes the lock, who leaves it removes it or leaves it
\* behind, and who crashed or ended stays so.
LEMMA SectionStep ==
    ASSUME TInv, [Next]_vars, NEW s \in Savers
    PROVE  /\ InSection(s) /\ ~InSection(s)' => LeftBehind(s)' \/ lock' = Free
           /\ ~InSection(s) /\ InSection(s)' => lock = Free /\ lock' = s
           /\ pc[s] \in {"crashed", "done"} => pc'[s] = pc[s]
  <1> USE ProcessAssumption DEF TInv, TypeOK, StepsHaveOwner, SaveHasCurrent, ReadSteps, SaveSteps,
          Waiting, Procs, At, Goto, InSection, LeftBehind, lockVars, saveVars
  <1> DEFINE Claim == /\ InSection(s) /\ ~InSection(s)' => LeftBehind(s)' \/ lock' = Free
                      /\ ~InSection(s) /\ InSection(s)' => lock = Free /\ lock' = s
                      /\ pc[s] \in {"crashed", "done"} => pc'[s] = pc[s]
  <1>1. ASSUME NEW t \in Savers, BeginSave(t) \/ Crash(t) PROVE Claim
    BY <1>1 DEF BeginSave, Crash
  <1>2. ASSUME NEW t \in Savers, Lock(t) PROVE Claim
    <2>1. CASE AcquireLock(t)
      BY <2>1 DEF AcquireLock
    <2>2. CASE FailAttempt(t) \/ SeeStale(t) \/ Sleep(t)
      BY <2>2 DEF FailAttempt, SeeStale, Sleep
    <2>3. CASE RemoveStale(t) \/ Unlock(t)
      BY <2>3 DEF RemoveStale, Unlock, RemoveLock
    <2>4. CASE GiveUp(t)
      BY <2>4 DEF GiveUp, EndSave
    <2> QED
      BY <1>2, <2>1, <2>2, <2>3, <2>4 DEF Lock
  <1>3. ASSUME NEW t \in Savers, Save(t) PROVE Claim
    <2>1. CASE CompareNewer(t) \/ Rewrite(t) \/ ConfirmLost(t) \/ TooLarge(t) \/ WriteFails(t)
      BY <2>1 DEF CompareNewer, Rewrite, ConfirmLost, TooLarge, WriteFails, EndSave
    <2>2. CASE CompareSame(t) \/ ConfirmOurs(t)
      BY <2>2 DEF CompareSame, ConfirmOurs, ReadFor
    <2>3. CASE CompareOlder(t) \/ ReadPrevious(t) \/ WritePayload(t) \/ Publish(t) \/ Retire(t)
      BY <2>3 DEF CompareOlder, ReadPrevious, WritePayload, Publish, Retire
    <2> QED
      BY <1>3, <2>1, <2>2, <2>3 DEF Save
  <1>4. ASSUME NEW p \in Savers \cup Readers, Read(p) PROVE Claim
    BY <1>4, ReadStaysInSection
  <1>5. ASSUME NEW c \in Cleaners, Clean(c) PROVE Claim
    BY <1>5 DEF Clean, BeginClear, ListFiles, BeginEvict, Unpublish, Sweep, EndSweep
  <1>6. CASE \/ \E r \in Readers : BeginLoad(r)
             \/ LeaseExpires
             \/ \E c \in Contents : Damage(c)
             \/ UNCHANGED vars
    BY <1>6 DEF BeginLoad, LeaseExpires, Damage, vars
  <1> QED
    BY <1>1, <1>2, <1>3, <1>4, <1>5, <1>6 DEF Next

\* Only a window that enters its section makes a lock file.
LEMMA LockStep ==
    ASSUME TInv, [Next]_vars
    PROVE  \/ lock' = lock
           \/ lock' = Free
           \/ lock' \in Savers /\ pc'[lock'] = "compare"
  <1> USE DEF lockVars
  <1>1. ASSUME NEW t \in Savers, BeginSave(t) \/ Crash(t) \/ Save(t) PROVE lock' = lock
    BY <1>1 DEF BeginSave, Crash, Save, CompareNewer, Rewrite, ConfirmLost, TooLarge, WriteFails, CompareSame,
       ConfirmOurs, CompareOlder, ReadPrevious, WritePayload, Publish, Retire
  <1>2. ASSUME NEW t \in Savers, Lock(t)
        PROVE  lock' = lock \/ lock' = Free \/ (lock' = t /\ pc'[t] = "compare")
    <2>1. CASE AcquireLock(t)
      BY <2>1 DEF AcquireLock, At, Goto, TInv, TypeOK, Procs
    <2>2. CASE FailAttempt(t) \/ SeeStale(t) \/ Sleep(t)
      BY <2>2 DEF FailAttempt, SeeStale, Sleep
    <2>3. CASE RemoveStale(t) \/ GiveUp(t) \/ Unlock(t)
      BY <2>3 DEF RemoveStale, GiveUp, Unlock, RemoveLock
    <2> QED
      BY <1>2, <2>1, <2>2, <2>3 DEF Lock
  <1>3. ASSUME NEW p \in Savers \cup Readers, Read(p) PROVE lock' = lock
    BY <1>3 DEF Read, ReadManifest, MissManifest, StatPayload, DropManifest, ReadPayload,
       HashMismatch, Reread, Quarantine, SetAside
  <1>4. ASSUME NEW c \in Cleaners, Clean(c) PROVE lock' = lock \/ lock' = Free
    BY <1>4 DEF Clean, BeginClear, ListFiles, BeginEvict, Unpublish, Sweep, EndSweep, RemoveLock
  <1>5. CASE \/ \E r \in Readers : BeginLoad(r)
             \/ LeaseExpires
             \/ \E c \in Contents : Damage(c)
             \/ UNCHANGED vars
    BY <1>5 DEF BeginLoad, LeaseExpires, Damage, vars
  <1> QED
    BY <1>1, <1>2, <1>3, <1>4, <1>5 DEF Next

\* The lock file belongs to a window in its section, or to one that left it behind.
LockIsHeld == lock # Free => InSection(lock) \/ LeftBehind(lock)

LEMMA LockIsHeldInductive == TInv /\ LockIsHeld /\ [Next]_vars => LockIsHeld'
  <1> SUFFICES ASSUME TInv, LockIsHeld, [Next]_vars, lock' # Free
               PROVE  InSection(lock)' \/ LeftBehind(lock)'
    BY DEF LockIsHeld
  <1>1. CASE lock' = lock
    <2>1. lock \in Savers /\ lock # Free
      BY <1>1 DEF TInv, TypeOK
    <2>2. PICK s \in Savers : s = lock
      BY <2>1
    <2>3. InSection(s) \/ LeftBehind(s)
      BY <2>1, <2>2 DEF LockIsHeld
    <2>4. InSection(s)' \/ LeftBehind(s)'
      BY <2>3, <1>1, <2>1, SectionStep DEF LeftBehind
    <2> QED
      BY <1>1, <2>2, <2>4 DEF InSection, LeftBehind
  <1>2. CASE lock' \in Savers /\ pc'[lock'] = "compare"
    BY <1>2 DEF InSection, SaveSteps
  <1> QED
    BY <1>1, <1>2, LockStep

\* As long as the lock file can be removed, it outlives its save only in a window
\* that crashed, whoever breaks locks, clears the directory, fails to write or
\* outlives its lease.
THEOREM LockIsReleasedHolds ==
    ASSUME "unlink" \notin Faults
    PROVE  Spec => []LockIsReleased
  <1>1. Init => LockIsHeld
    BY DEF Init, LockIsHeld
  <1>2. Spec => []TInv
    BY TInvInit, TInvInductive, PTL DEF Spec
  <1>3. TInv /\ LockIsHeld => LockIsReleased
    BY DEF LockIsHeld, LockIsReleased, LeftBehind, TInv, TypeOK, SaveHasCurrent, InSection,
       SaveSteps, ReadSteps
  <1> QED
    BY <1>1, <1>2, <1>3, LockIsHeldInductive, PTL DEF Spec

-----------------------------------------------------------------------------
(* Mutual exclusion                                                         *)

\* What the lock needs: nobody removes it for another reason, no holder outlives
\* its lease, and a lock left behind is recovered by one window.
Leased ==
    /\ Cleaners = {}
    /\ "overrun" \notin Faults
    /\ "crash" \in Faults \/ "unlink" \in Faults =>
          \A s, t, u \in Savers : s = t \/ s = u \/ t = u

\* Who is in the section has the lock, and only a lock left behind goes stale and
\* is recovered.
LeaseInv ==
    /\ LockIsHeld
    /\ \A s \in Savers : InSection(s) => lock = s
    /\ stale => lock \in Savers /\ LeftBehind(lock)
    /\ \A s \in Savers : pc[s] = "recover" => lock \in Savers /\ LeftBehind(lock)
    /\ "crash" \notin Faults => \A s \in Savers : pc[s] # "crashed"

\* How the lock goes, how it goes stale, and who begins to recover it or crashes.
LEMMA LeaseStep ==
    ASSUME TInv, [Next]_vars, Cleaners = {}, "overrun" \notin Faults
    PROVE  /\ lock # Free /\ lock' = Free =>
                 \E t \in Savers : pc[t] \in {"recover", "unlock"} /\ pc'[t] \in {"lock", "done"}
           /\ stale' => /\ lock' = lock
                        /\ stale \/ (lock # Free /\ ~InSection(lock))
           /\ \A s \in Savers : pc'[s] = "recover" /\ pc[s] # "recover" =>
                 stale /\ lock # Free /\ lock' = lock
           /\ \A s \in Savers : pc'[s] = "crashed" /\ pc[s] # "crashed" => "crash" \in Faults
  <1> USE ProcessAssumption DEF TInv, TypeOK, StepsHaveOwner, SaveHasCurrent, Procs, At, Goto,
          lockVars
  <1> DEFINE Claim ==
        /\ lock # Free /\ lock' = Free =>
              \E t \in Savers : pc[t] \in {"recover", "unlock"} /\ pc'[t] \in {"lock", "done"}
        /\ stale' => /\ lock' = lock
                     /\ stale \/ (lock # Free /\ ~InSection(lock))
        /\ \A s \in Savers : pc'[s] = "recover" /\ pc[s] # "recover" =>
              stale /\ lock # Free /\ lock' = lock
        /\ \A s \in Savers : pc'[s] = "crashed" /\ pc[s] # "crashed" => "crash" \in Faults
  <1>1. ASSUME NEW t \in Savers, BeginSave(t) \/ Crash(t) PROVE Claim
    BY <1>1 DEF BeginSave, Crash
  <1>2. ASSUME NEW t \in Savers, Lock(t) PROVE Claim
    <2>1. CASE AcquireLock(t)
      BY <2>1 DEF AcquireLock
    <2>2. CASE FailAttempt(t) \/ SeeStale(t) \/ Sleep(t)
      BY <2>2 DEF FailAttempt, SeeStale, Sleep, LockIsStale
    <2>3. CASE RemoveStale(t) \/ Unlock(t)
      BY <2>3 DEF RemoveStale, Unlock, RemoveLock
    <2>4. CASE GiveUp(t)
      BY <2>4 DEF GiveUp, RemoveLock
    <2> QED
      BY <1>2, <2>1, <2>2, <2>3, <2>4 DEF Lock
  <1>3. ASSUME NEW t \in Savers, Save(t) PROVE Claim
    <2>1. UNCHANGED lockVars
      BY <1>3 DEF Save, CompareNewer, Rewrite, ConfirmLost, TooLarge, WriteFails, CompareSame,
         ConfirmOurs, CompareOlder, ReadPrevious, WritePayload, Publish, Retire
    <2>2. \E step \in SaveSteps \cup ReadSteps : pc' = [pc EXCEPT ![t] = step]
      BY <1>3 DEF Save, CompareNewer, Rewrite, ConfirmLost, TooLarge, WriteFails, CompareSame,
         ConfirmOurs, CompareOlder, ReadPrevious, WritePayload, Publish, Retire, ReadFor,
         SaveSteps, ReadSteps
    <2> QED
      BY <2>1, <2>2 DEF SaveSteps, ReadSteps
  <1>4. ASSUME NEW p \in Savers \cup Readers, Read(p) PROVE Claim
    <2>1. UNCHANGED lockVars
      BY <1>4 DEF Read, ReadManifest, MissManifest, StatPayload, DropManifest, ReadPayload,
         HashMismatch, Reread, Quarantine, SetAside
    <2>2. \A s \in Savers : pc'[s] = pc[s] \/ InSection(s)'
      BY <1>4, ReadStaysInSection
    <2> QED
      BY <2>1, <2>2 DEF InSection, SaveSteps, ReadSteps
  <1>5. CASE \/ \E r \in Readers : BeginLoad(r)
             \/ LeaseExpires
             \/ \E c \in Contents : Damage(c)
             \/ UNCHANGED vars
    BY <1>5 DEF BeginLoad, LeaseExpires, Damage, vars
  <1> QED
    BY <1>1, <1>2, <1>3, <1>4, <1>5 DEF Next

LEMMA LeaseInductive ==
    ASSUME Leased
    PROVE  TInv /\ LeaseInv /\ [Next]_vars => LeaseInv'
  <1> SUFFICES ASSUME TInv, LeaseInv, [Next]_vars PROVE LeaseInv'
    OBVIOUS
  <1>0. LockIsHeld'
    BY LockIsHeldInductive DEF LeaseInv
  <1>1. \A s \in Savers : InSection(s) => ~LeftBehind(s) /\ pc[s] # "recover"
    BY DEF InSection, LeftBehind, SaveSteps, ReadSteps
  <1>2. \A s \in Savers : pc[s] = "unlock" => lock = s
    BY DEF LeaseInv, InSection, SaveSteps
  <1>3. \A s \in Savers : LeftBehind(s) => pc'[s] = pc[s]
    BY SectionStep DEF LeftBehind
  \* A lock that went was the mover's own, or one it recovered.
  <1>4. ASSUME lock # Free, lock' = Free
        PROVE  \E t \in Savers :
                  /\ pc[t] \in {"recover", "unlock"}
                  /\ pc'[t] \in {"lock", "done"}
                  /\ \/ lock = t
                     \/ pc[t] = "recover" /\ lock \in Savers /\ LeftBehind(lock)
    BY <1>2, <1>4, LeaseStep DEF Leased, LeaseInv
  <1>5. ASSUME NEW s \in Savers, InSection(s)' PROVE lock' = s
    <2>1. CASE ~InSection(s)
      BY <1>5, <2>1, SectionStep
    <2>2. CASE InSection(s)
      <3>1. lock = s /\ lock # Free /\ ~LeftBehind(s)
        BY <1>1, <2>2, ProcessAssumption DEF LeaseInv
      <3>2. lock' # Free
        BY <1>4, <1>5, <3>1 DEF InSection, SaveSteps, ReadSteps
      <3>3. ASSUME lock' \in Savers, pc'[lock'] = "compare" PROVE lock' = s
        <4>1. PICK t \in Savers : t = lock'
          BY <3>3
        <4>2. InSection(t)'
          BY <3>3, <4>1 DEF InSection, SaveSteps
        <4>3. InSection(t)
          BY <3>1, <4>2, SectionStep
        <4> QED
          BY <3>1, <4>1, <4>3 DEF LeaseInv
      <3> QED
        BY <3>1, <3>2, <3>3, LockStep
    <2> QED
      BY <2>1, <2>2
  <1>6. stale' => lock' \in Savers /\ LeftBehind(lock)'
    <2>1. SUFFICES ASSUME stale' PROVE lock' \in Savers /\ LeftBehind(lock)'
      OBVIOUS
    <2>2. lock' = lock /\ lock \in Savers /\ LeftBehind(lock)
      BY <2>1, LeaseStep DEF Leased, LeaseInv, LockIsHeld, TInv, TypeOK
    <2> QED
      BY <1>3, <2>2 DEF LeftBehind
  <1>7. ASSUME NEW s \in Savers, pc'[s] = "recover"
        PROVE  lock' \in Savers /\ LeftBehind(lock)'
    <2>1. lock \in Savers /\ LeftBehind(lock)
      BY <1>7, LeaseStep DEF Leased, LeaseInv
    <2>2. lock' # Free
      <3>1. SUFFICES ASSUME lock' = Free PROVE FALSE
        OBVIOUS
      <3>2. PICK t \in Savers :
                  /\ pc[t] \in {"recover", "unlock"}
                  /\ pc'[t] \in {"lock", "done"}
                  /\ \/ lock = t
                     \/ pc[t] = "recover" /\ lock \in Savers /\ LeftBehind(lock)
        BY <1>4, <2>1, <3>1, ProcessAssumption
      <3>3. pc[t] = "recover" /\ t # s /\ t # lock
        BY <1>7, <2>1, <3>2 DEF LeftBehind
      <3>4. lock # s
        BY <1>3, <1>7, <2>1 DEF LeftBehind
      <3>5. "crash" \in Faults \/ "unlink" \in Faults
        BY <2>1 DEF LeaseInv, LeftBehind
      <3> QED
        BY <2>1, <3>3, <3>4, <3>5 DEF Leased
    <2>3. ASSUME lock' \in Savers, pc'[lock'] = "compare" PROVE lock' = lock
      <3>1. PICK t \in Savers : t = lock'
        BY <2>3
      <3>2. InSection(t)'
        BY <2>3, <3>1 DEF InSection, SaveSteps
      <3>3. InSection(t)
        BY <2>1, <3>2, SectionStep, ProcessAssumption
      <3>4. ~LeftBehind(t)
        BY <1>1, <3>3
      <3> QED
        BY <3>1, <3>3 DEF LeaseInv
    <2>4. lock' = lock
      BY <2>2, <2>3, LockStep
    <2> QED
      BY <1>3, <2>1, <2>4 DEF LeftBehind
  <1>8. "crash" \notin Faults => \A s \in Savers : pc'[s] # "crashed"
    BY LeaseStep DEF Leased, LeaseInv
  <1> QED
    BY <1>0, <1>5, <1>6, <1>7, <1>8 DEF LeaseInv

\* With leases that last and stale locks recovered by one window, no two saves are
\* in the critical section at once, for any number of windows.
THEOREM MutualExclusionHolds ==
    ASSUME Leased
    PROVE  Spec => []MutualExclusion
  <1>1. Init => LeaseInv
    BY DEF Init, LeaseInv, LockIsHeld, InSection, SaveSteps, ReadSteps, Procs
  <1>2. Spec => []TInv
    BY TInvInit, TInvInductive, PTL DEF Spec
  <1>3. LeaseInv => MutualExclusion
    BY DEF LeaseInv, MutualExclusion
  <1> QED
    BY <1>1, <1>2, <1>3, LeaseInductive, PTL DEF Spec

-----------------------------------------------------------------------------
(* Publication, for saves that exclude each other                           *)

\* Nothing on disk is newer than what a save is about to publish, and what it
\* verifies is still there, or gone.
PublishInv ==
    \A s \in Savers :
        /\ pc[s] \in {"previous", "payload", "publish"} => ~NewerExists(s)
        /\ (pc[s] \in ReadSteps /\ goal[s] = "verify") \/ pc[s] = "rewrite" =>
              /\ current[s].content = snapshot[s].content
              /\ manifest = NoManifest \/ manifest.content = snapshot[s].content

\* Only the publishing steps of a save put a manifest in place, and a save that
\* began keeps its snapshot.
LEMMA ManifestStep ==
    ASSUME TInv, [Next]_vars
    PROVE  /\ \/ manifest' = manifest
              \/ manifest' = NoManifest
              \/ \E s \in Savers : Rewrite(s) \/ Publish(s)
           /\ \A s \in Savers : pc[s] # "idle" => snapshot'[s] = snapshot[s]
  <1> USE DEF fileVars, saveVars
  <1> DEFINE Claim == /\ \/ manifest' = manifest
                         \/ manifest' = NoManifest
                         \/ \E s \in Savers : Rewrite(s) \/ Publish(s)
                      /\ \A s \in Savers : pc[s] # "idle" => snapshot'[s] = snapshot[s]
  <1>1. ASSUME NEW t \in Savers, BeginSave(t) PROVE Claim
    BY <1>1 DEF BeginSave, At, TInv, TypeOK
  <1>2. ASSUME NEW t \in Savers, Crash(t) \/ Lock(t) PROVE Claim
    BY <1>2 DEF Crash, Lock, AcquireLock, FailAttempt, SeeStale, Sleep, RemoveStale, GiveUp, Unlock
  <1>3. ASSUME NEW t \in Savers, Save(t) PROVE Claim
    BY <1>3 DEF Save, CompareNewer, Rewrite, ConfirmLost, TooLarge, WriteFails, CompareSame,
       ConfirmOurs, CompareOlder, ReadPrevious, WritePayload, Publish, Retire
  <1>4. ASSUME NEW p \in Savers \cup Readers, Read(p) PROVE Claim
    <2>1. ASSUME NEW hit, Return(p, hit) PROVE snapshot' = snapshot
      BY <2>1 DEF Return
    <2> QED
      BY <1>4, <2>1 DEF Read, ReadManifest, MissManifest, StatPayload, DropManifest, ReadPayload,
         HashMismatch, Reread, Quarantine, SetAside
  <1>5. ASSUME NEW c \in Cleaners, Clean(c) PROVE Claim
    BY <1>5 DEF Clean, BeginClear, ListFiles, BeginEvict, Unpublish, Sweep, EndSweep
  <1>6. CASE \/ \E r \in Readers : BeginLoad(r)
             \/ LeaseExpires
             \/ \E c \in Contents : Damage(c)
             \/ UNCHANGED vars
    BY <1>6 DEF BeginLoad, LeaseExpires, Damage, vars
  <1> QED
    BY <1>1, <1>2, <1>3, <1>4, <1>5, <1>6 DEF Next

\* The steps a save takes into the part of its section that publishes.
LEMMA PublishStep ==
    ASSUME TInv, [Next]_vars, NEW s \in Savers
    PROVE  /\ pc'[s] \in {"previous", "payload", "publish"} =>
                \/ pc[s] \in {"previous", "payload"}
                \/ pc'[s] = pc[s]
                \/ pc[s] = "compare" /\ ~NewerExists(s)
                \/ pc[s] \in ReadSteps /\ goal[s] = "verify"
           /\ (pc'[s] \in ReadSteps /\ goal'[s] = "verify") \/ pc'[s] = "rewrite" =>
                \/ /\ pc[s] = "compare"
                   /\ manifest.content = snapshot[s].content
                   /\ current'[s] = manifest
                   /\ manifest' = manifest
                \/ /\ (pc[s] \in ReadSteps /\ goal[s] = "verify") \/ pc[s] = "rewrite"
                   /\ current'[s] = current[s]
  <1> USE ProcessAssumption DEF TInv, TypeOK, StepsHaveOwner, SaveHasCurrent, Procs, At, Goto,
          saveVars, ReadSteps
  <1> DEFINE Claim ==
           /\ pc'[s] \in {"previous", "payload", "publish"} =>
                \/ pc[s] \in {"previous", "payload"}
                \/ pc'[s] = pc[s]
                \/ pc[s] = "compare" /\ ~NewerExists(s)
                \/ pc[s] \in ReadSteps /\ goal[s] = "verify"
           /\ (pc'[s] \in ReadSteps /\ goal'[s] = "verify") \/ pc'[s] = "rewrite" =>
                \/ /\ pc[s] = "compare"
                   /\ manifest.content = snapshot[s].content
                   /\ current'[s] = manifest
                   /\ manifest' = manifest
                \/ /\ (pc[s] \in ReadSteps /\ goal[s] = "verify") \/ pc[s] = "rewrite"
                   /\ current'[s] = current[s]
  <1>1. ASSUME NEW t \in Savers, BeginSave(t) \/ Crash(t) PROVE Claim
    BY <1>1 DEF BeginSave, Crash
  <1>2. ASSUME NEW t \in Savers, Lock(t) PROVE Claim
    <2>1. CASE AcquireLock(t) \/ FailAttempt(t) \/ SeeStale(t) \/ Sleep(t)
      BY <2>1 DEF AcquireLock, FailAttempt, SeeStale, Sleep
    <2>2. CASE RemoveStale(t) \/ Unlock(t)
      BY <2>2 DEF RemoveStale, Unlock
    <2>3. CASE GiveUp(t)
      BY <2>3 DEF GiveUp, EndSave
    <2> QED
      BY <1>2, <2>1, <2>2, <2>3 DEF Lock
  <1>3. ASSUME NEW t \in Savers, Save(t) PROVE Claim
    <2>1. CASE CompareNewer(t) \/ Rewrite(t) \/ ConfirmLost(t) \/ TooLarge(t) \/ WriteFails(t)
      BY <2>1 DEF CompareNewer, Rewrite, ConfirmLost, TooLarge, WriteFails, EndSave
    <2>2. CASE CompareSame(t)
      BY <2>2 DEF CompareSame, ReadFor, fileVars
    <2>3. CASE ConfirmOurs(t)
      BY <2>3 DEF ConfirmOurs, ReadFor
    <2>4. CASE CompareOlder(t) \/ ReadPrevious(t) \/ WritePayload(t) \/ Publish(t) \/ Retire(t)
      BY <2>4 DEF CompareOlder, ReadPrevious, WritePayload, Publish, Retire
    <2> QED
      BY <1>3, <2>1, <2>2, <2>3, <2>4 DEF Save
  <1>4. ASSUME NEW p \in Savers \cup Readers, Read(p) PROVE Claim
    <2>1. ASSUME NEW hit, Return(p, hit), pc[p] \in ReadSteps PROVE Claim
      <3>1. CASE p # s
        <4>1. pc'[s] = pc[s] /\ goal'[s] = goal[s] /\ current'[s] = current[s]
          BY <2>1, <3>1 DEF Return, EndSave
        <4> QED
          BY <4>1
      <3>2. CASE p = s
        BY <2>1, <3>2 DEF Return, EndSave
      <3> QED
        BY <3>1, <3>2
    <2>2. CASE MissManifest(p) \/ DropManifest(p) \/ ReadPayload(p) \/ SetAside(p)
      <3>1. PICK hit : Return(p, hit) /\ pc[p] \in ReadSteps
        BY <2>2 DEF MissManifest, DropManifest, ReadPayload, SetAside
      <3> QED
        BY <2>1, <3>1
    <2>3. CASE ReadManifest(p) \/ StatPayload(p) \/ HashMismatch(p) \/ Reread(p) \/ Quarantine(p)
      <3>1. UNCHANGED saveVars /\ pc[p] \in ReadSteps
        BY <2>3 DEF ReadManifest, StatPayload, HashMismatch, Reread, Quarantine
      <3>2. \E step \in ReadSteps : pc' = [pc EXCEPT ![p] = step]
        BY <2>3 DEF ReadManifest, StatPayload, HashMismatch, Reread, Quarantine
      <3> QED
        BY <3>1, <3>2
    <2> QED
      BY <1>4, <2>2, <2>3 DEF Read
  <1>5. ASSUME NEW c \in Cleaners, Clean(c) PROVE Claim
    BY <1>5 DEF Clean, BeginClear, ListFiles, BeginEvict, Unpublish, Sweep, EndSweep
  <1>6. CASE \/ \E r \in Readers : BeginLoad(r)
             \/ LeaseExpires
             \/ \E c \in Contents : Damage(c)
             \/ UNCHANGED vars
    BY <1>6 DEF BeginLoad, LeaseExpires, Damage, vars
  <1> QED
    BY <1>1, <1>2, <1>3, <1>4, <1>5, <1>6 DEF Next

LEMMA PublishInductive ==
    TInv /\ PublishInv /\ MutualExclusion /\ [Next]_vars => PublishInv'
  <1> SUFFICES ASSUME TInv, PublishInv, MutualExclusion, [Next]_vars, NEW s \in Savers
               PROVE  /\ pc'[s] \in {"previous", "payload", "publish"} => ~NewerExists(s)'
                      /\ (pc'[s] \in ReadSteps /\ goal'[s] = "verify") \/ pc'[s] = "rewrite" =>
                            /\ current'[s].content = snapshot'[s].content
                            /\ manifest' = NoManifest \/ manifest'.content = snapshot'[s].content
    BY DEF PublishInv
  <1>1. CASE \E t \in Savers : Rewrite(t) \/ Publish(t)
    <2>1. PICK t \in Savers : Rewrite(t) \/ Publish(t)
      BY <1>1
    <2>2. /\ pc[t] \in SaveSteps
          /\ pc' = [pc EXCEPT ![t] = "unlock"] \/ pc' = [pc EXCEPT ![t] = "retire"]
          /\ goal' = goal \/ goal' = [goal EXCEPT ![t] = "none"]
      BY <2>1 DEF Rewrite, Publish, At, Goto, EndSave, SaveSteps, saveVars
    <2>3. CASE s = t
      <3>1. pc'[s] \in {"unlock", "retire"}
        BY <2>2, <2>3 DEF TInv, TypeOK, Procs
      <3> QED
        BY <3>1 DEF ReadSteps
    <2>4. CASE s # t
      <3>1. ~InSection(s)
        BY <2>2, <2>4 DEF MutualExclusion, InSection
      <3>2. pc'[s] = pc[s] /\ goal'[s] = goal[s]
        BY <2>2, <2>4 DEF TInv, TypeOK, Procs
      <3> QED
        BY <3>1, <3>2 DEF InSection, SaveSteps
    <2> QED
      BY <2>3, <2>4
  <1>2. CASE ~\E t \in Savers : Rewrite(t) \/ Publish(t)
    <2>1. manifest' = manifest \/ manifest' = NoManifest
      BY <1>2, ManifestStep
    <2>2. pc[s] # "idle" => snapshot'[s] = snapshot[s]
      BY ManifestStep
    <2>3. ASSUME pc'[s] \in {"previous", "payload", "publish"} PROVE ~NewerExists(s)'
      <3>1. /\ ~NewerExists(s)
            /\ pc[s] # "idle"
        <4>1. CASE pc[s] \in ReadSteps /\ goal[s] = "verify"
          BY <4>1 DEF PublishInv, NewerExists, Newer, ReadSteps
        <4> QED
          BY <2>3, <4>1, PublishStep DEF PublishInv
      <3> QED
        BY <2>1, <2>2, <3>1 DEF NewerExists
    <2>4. ASSUME (pc'[s] \in ReadSteps /\ goal'[s] = "verify") \/ pc'[s] = "rewrite"
          PROVE  /\ current'[s].content = snapshot'[s].content
                 /\ manifest' = NoManifest \/ manifest'.content = snapshot'[s].content
      <3>1. CASE /\ pc[s] = "compare"
                 /\ manifest.content = snapshot[s].content
                 /\ current'[s] = manifest
                 /\ manifest' = manifest
        BY <2>2, <3>1
      <3>2. CASE /\ (pc[s] \in ReadSteps /\ goal[s] = "verify") \/ pc[s] = "rewrite"
                 /\ current'[s] = current[s]
        BY <2>1, <2>2, <3>2 DEF PublishInv, ReadSteps
      <3> QED
        BY <2>4, <3>1, <3>2, PublishStep
    <2> QED
      BY <2>3, <2>4
  <1> QED
    BY <1>1, <1>2

\* What a step does to the files.
LEMMA FileStep ==
    ASSUME TInv, [Next]_vars
    PROVE  \/ manifest' = NoManifest
           \/ /\ manifest' = manifest
              /\ \A c \in Contents : payload'[c] \in {payload[c], "none", "bad"}
           \/ \E s \in Savers : Rewrite(s) \/ Publish(s) \/ WritePayload(s)
  <1> USE DEF fileVars, TInv, TypeOK
  <1> DEFINE Claim ==
           \/ manifest' = NoManifest
           \/ /\ manifest' = manifest
              /\ \A c \in Contents : payload'[c] \in {payload[c], "none", "bad"}
           \/ \E s \in Savers : Rewrite(s) \/ Publish(s) \/ WritePayload(s)
  <1>1. ASSUME NEW t \in Savers, BeginSave(t) \/ Crash(t) \/ Lock(t) PROVE Claim
    BY <1>1 DEF BeginSave, Crash, Lock, AcquireLock, FailAttempt, SeeStale, Sleep, RemoveStale,
       GiveUp, Unlock
  <1>2. ASSUME NEW t \in Savers, Save(t) PROVE Claim
    BY <1>2 DEF Save, CompareNewer, ConfirmLost, TooLarge, WriteFails, CompareSame, ConfirmOurs,
       CompareOlder, ReadPrevious, Retire
  <1>3. ASSUME NEW p \in Savers \cup Readers, Read(p) PROVE Claim
    BY <1>3 DEF Read, ReadManifest, MissManifest, StatPayload, DropManifest, ReadPayload,
       HashMismatch, Reread, Quarantine, SetAside
  <1>4. ASSUME NEW k \in Cleaners, Clean(k) PROVE Claim
    BY <1>4 DEF Clean, BeginClear, ListFiles, BeginEvict, Unpublish, Sweep, EndSweep
  <1>5. CASE \/ \E r \in Readers : BeginLoad(r)
             \/ LeaseExpires
             \/ \E c \in Contents : Damage(c)
             \/ UNCHANGED vars
    BY <1>5 DEF BeginLoad, LeaseExpires, Damage, vars
  <1> QED
    BY <1>1, <1>2, <1>3, <1>4, <1>5 DEF Next

\* A usable entry is one the abstract cache may hold.
LEMMA UsableLemma ==
    ASSUME TInv
    PROVE  /\ Usable = NoSnapshot \/ (manifest # NoManifest /\ payload[manifest.content] = "good")
           /\ manifest # NoManifest => /\ manifest.content \in Contents
                                       /\ manifest.captured \in Instants
  BY DEF Usable, TInv, TypeOK, Manifests

LEMMA RefinementStep ==
    ASSUME TInv, TInv', PublishInv, [Next]_vars
    PROVE  [Newest!Publish \/ Newest!Forget]_Usable
  <1> USE DEF Newest!Entries, Newest!NoEntry, Newest!Publish, Newest!Forget, Newest!Replaces
  <1>1. Usable' = NoSnapshot => Newest!Forget
    BY DEF NoSnapshot
  <1>2. CASE manifest' = NoManifest
    BY <1>1, <1>2 DEF Usable
  <1>3. CASE /\ manifest' = manifest
             /\ \A c \in Contents : payload'[c] \in {payload[c], "none", "bad"}
    <2>1. Usable' = NoSnapshot \/ Usable' = Usable
      BY <1>3, UsableLemma DEF Usable
    <2> QED
      BY <1>1, <2>1
  <1>4. ASSUME NEW s \in Savers, WritePayload(s) PROVE [Newest!Publish \/ Newest!Forget]_Usable
    <2>1. manifest' = manifest /\ payload' = [payload EXCEPT ![snapshot[s].content] = "good"]
      BY <1>4 DEF WritePayload
    <2>2. CASE Usable' = NoSnapshot \/ Usable' = Usable
      BY <1>1, <2>2
    <2>3. CASE Usable' # NoSnapshot /\ Usable' # Usable
      <3>1. /\ manifest # NoManifest
            /\ Usable' = [content |-> manifest.content, captured |-> manifest.captured]
        BY <2>1, <2>3 DEF Usable
      <3>2. Usable = NoSnapshot
        BY <2>3, <3>1 DEF Usable
      <3> QED
        BY <3>1, <3>2, UsableLemma DEF NoSnapshot
    <2> QED
      BY <2>2, <2>3
  <1>5. ASSUME NEW s \in Savers, Publish(s) PROVE [Newest!Publish \/ Newest!Forget]_Usable
    <2>1. /\ ~NewerExists(s)
          /\ snapshot[s] \in Snapshots
          /\ manifest' = [content |-> snapshot[s].content, captured |-> snapshot[s].captured,
                          writer |-> s]
          /\ payload' = payload
      BY <1>5 DEF Publish, At, PublishInv, TInv, TypeOK, SaveHasCurrent
    <2>2. CASE Usable' = NoSnapshot
      BY <1>1, <2>2
    <2>3. CASE Usable' # NoSnapshot
      <3> DEFINE new == [content |-> snapshot[s].content, captured |-> snapshot[s].captured]
      <3>1. Usable' = new
        BY <2>1, <2>3 DEF Usable
      <3>2. new \in Newest!Entries /\ new.content \in Nat /\ new.captured \in Nat
        BY <2>1, DataAssumption DEF Snapshots
      <3>3. CASE Usable = NoSnapshot
        BY <3>1, <3>2, <3>3 DEF NoSnapshot
      <3>4. CASE Usable # NoSnapshot
        <4>1. /\ manifest # NoManifest
              /\ Usable = [content |-> manifest.content, captured |-> manifest.captured]
          BY <3>4 DEF Usable
        <4>2. manifest.content \in Nat /\ manifest.captured \in Nat
          BY <4>1, UsableLemma, DataAssumption
        <4>3. Newest!Replaces(new, Usable)
          BY <2>1, <3>2, <4>1, <4>2 DEF NewerExists, Newer
        <4> HIDE DEF Newest!Replaces, new
        <4> QED
          BY <3>1, <3>2, <4>3
      <3> QED
        BY <3>3, <3>4
    <2> QED
      BY <2>2, <2>3
  <1>6. ASSUME NEW s \in Savers, Rewrite(s) PROVE [Newest!Publish \/ Newest!Forget]_Usable
    <2>1. /\ manifest' = current[s]
          /\ payload' = payload
          /\ pc[s] = "rewrite"
      BY <1>6 DEF Rewrite, At
    <2>2. manifest = NoManifest \/ manifest.content = current[s].content
      BY <2>1 DEF PublishInv
    <2>3. CASE Usable' = NoSnapshot
      BY <1>1, <2>3
    <2>4. CASE Usable' # NoSnapshot
      <3> DEFINE new == [content |-> current[s].content, captured |-> current[s].captured]
      <3>1. Usable' = new
        BY <2>1, <2>4 DEF Usable
      <3>2. current[s] \in Manifests
        BY <2>1 DEF TInv, TypeOK, SaveHasCurrent
      <3>3. new \in Newest!Entries
        BY <3>2 DEF Manifests
      <3>4. Usable = NoSnapshot \/ Usable.content = new.content
        BY <2>2 DEF Usable
      <3> QED
        BY <3>1, <3>3, <3>4 DEF NoSnapshot
    <2> QED
      BY <2>3, <2>4
  <1> QED
    BY <1>2, <1>3, <1>4, <1>5, <1>6, FileStep

\* The files implement the abstract cache: as long as saves exclude each other, no
\* read without a lock, clear, damage, failed write or crash replaces the usable
\* entry by an older capture of other content, unless the entry is dated beyond the
\* skew allowed for clocks; for any number of windows and any captures.
THEOREM ImplementsNewestHolds == Spec /\ []MutualExclusion => ImplementsNewest
  <1>1. Init => PublishInv
    BY DEF Init, PublishInv, ReadSteps, Procs
  <1>2. Spec => []TInv
    BY TInvInit, TInvInductive, PTL DEF Spec
  <1>3. Spec /\ []MutualExclusion => []PublishInv
    BY <1>1, <1>2, PublishInductive, PTL DEF Spec
  <1>4. Init => Newest!CacheInit
    BY DEF Init, Newest!CacheInit, Newest!NoEntry, Usable, NoSnapshot
  <1>5. TInv /\ TInv' /\ PublishInv /\ [Next]_vars => [Newest!Publish \/ Newest!Forget]_Usable
    BY RefinementStep
  <1> QED
    BY <1>2, <1>3, <1>4, <1>5, PTL DEF Spec, ImplementsNewest, Newest!CacheSpec

\* The files implement the abstract cache whenever the conditions of the lock are
\* met: no capture but one dated in the future is replaced by an earlier one.
COROLLARY LeasedImplementsNewest ==
    ASSUME Leased
    PROVE  Spec => ImplementsNewest
  BY MutualExclusionHolds, ImplementsNewestHolds, PTL

-----------------------------------------------------------------------------
(* Dangling manifests                                                       *)

\* A manifest names the content its writer saves.
Written(m) ==
    m # NoManifest =>
        /\ m.writer \in Savers
        /\ pc[m.writer] # "idle"
        /\ m.content = snapshot[m.writer].content

WrittenInv ==
    /\ Written(manifest)
    /\ \A p \in Procs : Written(seen[p])
    /\ \A s \in Savers : Written(current[s])

\* What a process knows of a manifest it has read from the disk.
LEMMA KnownStep ==
    ASSUME TInv, [Next]_vars
    PROVE  /\ \A s \in Savers : /\ pc[s] # "idle" => pc'[s] # "idle"
                                /\ current'[s] \in {current[s], manifest}
           /\ \A p \in Procs : seen'[p] \in {seen[p], manifest}
  <1> USE ProcessAssumption DEF TInv, TypeOK, Procs, At, Goto, readVars, saveVars
  <1> DEFINE Claim ==
           /\ \A s \in Savers : /\ pc[s] # "idle" => pc'[s] # "idle"
                                /\ current'[s] \in {current[s], manifest}
           /\ \A p \in Procs : seen'[p] \in {seen[p], manifest}
  <1>1. ASSUME NEW t \in Savers, BeginSave(t) \/ Crash(t) PROVE Claim
    BY <1>1 DEF BeginSave, Crash
  <1>2. ASSUME NEW t \in Savers, Lock(t) PROVE Claim
    BY <1>2 DEF Lock, AcquireLock, FailAttempt, SeeStale, Sleep, RemoveStale, GiveUp, Unlock
  <1>3. ASSUME NEW t \in Savers, Save(t) PROVE Claim
    <2>1. CASE CompareNewer(t) \/ Rewrite(t) \/ ConfirmLost(t) \/ TooLarge(t) \/ WriteFails(t)
      BY <2>1 DEF CompareNewer, Rewrite, ConfirmLost, TooLarge, WriteFails
    <2>2. CASE CompareSame(t) \/ ConfirmOurs(t)
      BY <2>2 DEF CompareSame, ConfirmOurs, ReadFor
    <2>3. CASE CompareOlder(t) \/ ReadPrevious(t) \/ WritePayload(t) \/ Publish(t) \/ Retire(t)
      BY <2>3 DEF CompareOlder, ReadPrevious, WritePayload, Publish, Retire
    <2> QED
      BY <1>3, <2>1, <2>2, <2>3 DEF Save
  <1>4. ASSUME NEW p \in Savers \cup Readers, Read(p) PROVE Claim
    <2>1. current' = current
      <3>1. ASSUME NEW hit, Return(p, hit) PROVE current' = current
        BY <3>1 DEF Return
      <3> QED
        BY <1>4, <3>1 DEF Read, ReadManifest, MissManifest, StatPayload, DropManifest, ReadPayload,
           HashMismatch, Reread, Quarantine, SetAside
    <2>2. \A q \in Procs : seen'[q] \in {seen[q], manifest}
      BY <1>4 DEF Read, ReadManifest, MissManifest, StatPayload, DropManifest, ReadPayload,
         HashMismatch, Reread, Quarantine, SetAside
    <2>3. \A s \in Savers : pc[s] # "idle" => pc'[s] # "idle"
      BY <1>4, ReadStaysInSection DEF InSection, SaveSteps, ReadSteps
    <2> QED
      BY <2>1, <2>2, <2>3
  <1>5. ASSUME NEW k \in Cleaners, Clean(k) PROVE Claim
    BY <1>5 DEF Clean, BeginClear, ListFiles, BeginEvict, Unpublish, Sweep, EndSweep
  <1>6. CASE \/ \E r \in Readers : BeginLoad(r)
             \/ LeaseExpires
             \/ \E c \in Contents : Damage(c)
             \/ UNCHANGED vars
    BY <1>6 DEF BeginLoad, LeaseExpires, Damage, vars
  <1> QED
    BY <1>1, <1>2, <1>3, <1>4, <1>5, <1>6 DEF Next

LEMMA WrittenInductive == TInv /\ WrittenInv /\ [Next]_vars => WrittenInv'
  <1> SUFFICES ASSUME TInv, WrittenInv, [Next]_vars PROVE WrittenInv'
    OBVIOUS
  <1>1. \A m : Written(m) => Written(m)'
    BY ManifestStep, KnownStep DEF Written
  <1>2. Written(manifest)'
    <2>1. CASE manifest' = manifest \/ manifest' = NoManifest
      BY <1>1, <2>1 DEF WrittenInv, Written
    <2>2. ASSUME NEW s \in Savers, Rewrite(s) PROVE Written(manifest)'
      <3>1. manifest' = current[s]
        BY <2>2 DEF Rewrite
      <3> QED
        BY <1>1, <3>1 DEF WrittenInv, Written
    <2>3. ASSUME NEW s \in Savers, Publish(s) PROVE Written(manifest)'
      <3>1. /\ manifest'.writer = s
            /\ manifest'.content = snapshot[s].content
            /\ pc[s] # "idle"
        BY <2>3 DEF Publish, At
      <3>2. pc'[s] # "idle" /\ snapshot'[s] = snapshot[s]
        BY <3>1, ManifestStep, KnownStep
      <3> QED
        BY <3>1, <3>2 DEF Written
    <2> QED
      BY <2>1, <2>2, <2>3, ManifestStep
  <1>3. ASSUME NEW p \in Procs PROVE Written(seen[p])'
    BY <1>1, KnownStep DEF WrittenInv, Written
  <1>4. ASSUME NEW s \in Savers PROVE Written(current[s])'
    <2>1. current'[s] \in {current[s], manifest}
      BY KnownStep
    <2>2. Written(current[s]) /\ Written(manifest)
      BY DEF WrittenInv
    <2> QED
      BY <1>1, <2>1, <2>2 DEF Written
  <1> QED
    BY <1>2, <1>3, <1>4 DEF WrittenInv

\* Nobody removes or damages payloads but the saves themselves.
Undisturbed == Cleaners = {} /\ "damage" \notin Faults

\* The payload of what a save is about to put in place is there, and what it is
\* about to retire is not named.
PayloadInv ==
    /\ \A c \in Contents : payload[c] # "bad"
    /\ \A p \in Procs : pc[p] \notin {"reread", "quarantine", "aside"}
    /\ \A s \in Savers :
          /\ pc[s] = "publish" => payload[snapshot[s].content] = "good"
          /\ pc[s] = "rewrite" => payload[current[s].content] = "good"
          /\ pc[s] = "retire" => manifest = NoManifest \/ manifest.content = snapshot[s].content

\* How payloads go, and how a save comes to its publishing steps.
LEMMA PayloadStep ==
    ASSUME TInv, PayloadInv, [Next]_vars, Undisturbed
    PROVE  /\ \A c \in Contents :
                \/ payload'[c] \in {payload[c], "good"}
                \/ \E t \in Savers : Retire(t) /\ c = current[t].content /\ c # snapshot[t].content
           /\ \A p \in Procs : pc'[p] \notin {"reread", "quarantine", "aside"}
           /\ \A s \in Savers :
                /\ pc'[s] = "publish" => pc[s] = "publish" \/ WritePayload(s)
                /\ pc'[s] = "retire" => pc[s] = "retire" \/ Publish(s)
                /\ pc'[s] = "rewrite" =>
                      \/ pc[s] = "rewrite"
                      \/ /\ pc[s] = "read"
                         /\ goal[s] = "verify"
                         /\ payload[seen[s].content] = "good"
                         /\ seen[s].writer = current[s].writer
                         /\ payload' = payload
  <1> USE ProcessAssumption DEF TInv, TypeOK, StepsHaveOwner, Procs, At, Goto, fileVars, Undisturbed
  <1> DEFINE Claim ==
           /\ \A c \in Contents :
                \/ payload'[c] \in {payload[c], "good"}
                \/ \E t \in Savers : Retire(t) /\ c = current[t].content /\ c # snapshot[t].content
           /\ \A p \in Procs : pc'[p] \notin {"reread", "quarantine", "aside"}
           /\ \A s \in Savers :
                /\ pc'[s] = "publish" => pc[s] = "publish" \/ WritePayload(s)
                /\ pc'[s] = "retire" => pc[s] = "retire" \/ Publish(s)
                /\ pc'[s] = "rewrite" =>
                      \/ pc[s] = "rewrite"
                      \/ /\ pc[s] = "read"
                         /\ goal[s] = "verify"
                         /\ payload[seen[s].content] = "good"
                         /\ seen[s].writer = current[s].writer
                         /\ payload' = payload
  <1>1. ASSUME NEW t \in Savers, BeginSave(t) \/ Crash(t) PROVE Claim
    BY <1>1 DEF BeginSave, Crash, PayloadInv
  <1>2. ASSUME NEW t \in Savers, Lock(t) PROVE Claim
    BY <1>2 DEF Lock, AcquireLock, FailAttempt, SeeStale, Sleep, RemoveStale, GiveUp, Unlock,
       PayloadInv
  <1>3. ASSUME NEW t \in Savers, Save(t) PROVE Claim
    <2>1. CASE CompareNewer(t) \/ Rewrite(t) \/ ConfirmLost(t) \/ TooLarge(t) \/ WriteFails(t)
      BY <2>1 DEF CompareNewer, Rewrite, ConfirmLost, TooLarge, WriteFails, PayloadInv
    <2>2. CASE CompareSame(t) \/ ConfirmOurs(t)
      BY <2>2 DEF CompareSame, ConfirmOurs, ReadFor, PayloadInv
    <2>3. CASE CompareOlder(t) \/ ReadPrevious(t)
      BY <2>3 DEF CompareOlder, ReadPrevious, PayloadInv
    <2>4. CASE WritePayload(t) \/ Publish(t)
      BY <2>4 DEF WritePayload, Publish, PayloadInv
    <2>5. CASE Retire(t)
      <3>1. \A c \in Contents :
               payload'[c] = payload[c] \/ (c = current[t].content /\ c # snapshot[t].content)
        BY <2>5 DEF Retire
      <3>2. pc' = [pc EXCEPT ![t] = "confirm"]
        BY <2>5 DEF Retire
      <3>3. \A p \in Procs : pc'[p] = pc[p] \/ pc'[p] = "confirm"
        BY <3>2
      <3> QED
        BY <2>5, <3>1, <3>3 DEF PayloadInv
    <2> QED
      BY <1>3, <2>1, <2>2, <2>3, <2>4, <2>5 DEF Save
  <1>4. ASSUME NEW p \in Savers \cup Readers, Read(p) PROVE Claim
    <2>1. CASE MissManifest(p) \/ DropManifest(p) \/ ReadPayload(p)
      <3>1. PICK hit : Return(p, hit) /\ (hit => pc[p] = "read" /\ payload[seen[p].content] = "good")
        BY <2>1 DEF MissManifest, DropManifest, ReadPayload
      <3>2. payload' = payload
        BY <2>1 DEF MissManifest, DropManifest, ReadPayload
      <3>3. \/ pc' = [pc EXCEPT ![p] = "hit"] \/ pc' = [pc EXCEPT ![p] = "miss"]
            \/ pc' = [pc EXCEPT ![p] = "previous"] \/ pc' = [pc EXCEPT ![p] = "unlock"]
            \/ /\ pc' = [pc EXCEPT ![p] = "rewrite"]
               /\ goal[p] = "verify" /\ hit /\ seen[p].writer = current[p].writer
        BY <3>1 DEF Return
      <3> QED
        BY <3>1, <3>2, <3>3 DEF PayloadInv
    <2>2. CASE ReadManifest(p) \/ StatPayload(p)
      <3>1. payload' = payload
        BY <2>2 DEF ReadManifest, StatPayload
      <3>2. \/ pc' = [pc EXCEPT ![p] = "stat"] \/ pc' = [pc EXCEPT ![p] = "drop"]
            \/ pc' = [pc EXCEPT ![p] = "read"]
        <4>1. CASE ReadManifest(p)
          BY <4>1 DEF ReadManifest
        <4>2. CASE StatPayload(p)
          <5>1. pc[p] = "stat" /\ p \in Procs
            BY <4>2 DEF StatPayload
          <5>2. seen[p].content \in Contents
            BY <5>1 DEF ReadHasManifest, ReadSteps, Manifests
          <5>3. payload[seen[p].content] # "bad"
            BY <5>2 DEF PayloadInv
          <5> QED
            BY <4>2, <5>3 DEF StatPayload
        <4> QED
          BY <2>2, <4>1, <4>2
      <3> QED
        BY <3>1, <3>2 DEF PayloadInv
    <2>3. CASE HashMismatch(p)
      <3>1. pc[p] = "read" /\ payload[seen[p].content] = "bad" /\ p \in Procs
        BY <2>3 DEF HashMismatch
      <3>2. seen[p].content \in Contents
        BY <3>1 DEF ReadHasManifest, ReadSteps, Manifests
      <3> QED
        BY <3>1, <3>2 DEF PayloadInv
    <2>4. CASE Reread(p) \/ Quarantine(p) \/ SetAside(p)
      BY <2>4 DEF Reread, Quarantine, SetAside, PayloadInv
    <2> QED
      BY <1>4, <2>1, <2>2, <2>3, <2>4 DEF Read
  <1>5. CASE \/ \E r \in Readers : BeginLoad(r)
             \/ LeaseExpires
             \/ \E c \in Contents : Damage(c)
             \/ UNCHANGED vars
    BY <1>5 DEF BeginLoad, LeaseExpires, Damage, vars, PayloadInv
  <1> QED
    BY <1>1, <1>2, <1>3, <1>4, <1>5 DEF Next

LEMMA PayloadInductive ==
    ASSUME Undisturbed
    PROVE  /\ TInv /\ WrittenInv /\ MutualExclusion /\ PayloadInv /\ [Next]_vars => PayloadInv'
           /\ TInv /\ TInv' /\ PayloadInv /\ NoDangling /\ [Next]_vars => NoDangling'
  <1> SUFFICES ASSUME TInv, PayloadInv, [Next]_vars
               PROVE  /\ WrittenInv /\ MutualExclusion => PayloadInv'
                      /\ TInv' /\ NoDangling => NoDangling'
    OBVIOUS
  <1>2. \A c \in Contents : payload'[c] # "bad"
    <2>1. TAKE c \in Contents
    <2>2. ASSUME NEW t \in Savers, Retire(t) PROVE payload'[c] # "bad"
      BY <2>2 DEF Retire, PayloadInv, TInv, TypeOK
    <2> QED
      BY <2>2, PayloadStep DEF PayloadInv
  <1>3. ASSUME WrittenInv, MutualExclusion, NEW s \in Savers
        PROVE  /\ pc'[s] = "publish" => payload'[snapshot'[s].content] = "good"
               /\ pc'[s] = "rewrite" => payload'[current'[s].content] = "good"
               /\ pc'[s] = "retire" => manifest' = NoManifest \/ manifest'.content = snapshot'[s].content
    <2>1. \A t \in Savers : pc[s] \in SaveSteps /\ pc[t] \in SaveSteps => t = s
      BY <1>3 DEF MutualExclusion, InSection
    <2>2. \A t \in Savers : Retire(t) => pc[t] = "retire" /\ pc'[t] = "confirm"
      BY DEF Retire, At, Goto, TInv, TypeOK, Procs
    <2>3. ASSUME pc'[s] = "publish" PROVE payload'[snapshot'[s].content] = "good"
      <3>1. CASE WritePayload(s)
        BY <3>1, ManifestStep DEF WritePayload, At, TInv, TypeOK, SaveHasCurrent, Snapshots
      <3>2. CASE pc[s] = "publish"
        <4>1. snapshot'[s] = snapshot[s] /\ snapshot[s].content \in Contents
          BY <3>2, ManifestStep DEF TInv, TypeOK, SaveHasCurrent, Snapshots
        <4>2. \A t \in Savers : ~Retire(t)
          BY <2>1, <2>2, <3>2 DEF SaveSteps
        <4> QED
          BY <3>2, <4>1, <4>2, PayloadStep DEF PayloadInv
      <3> QED
        BY <2>3, <3>1, <3>2, PayloadStep
    <2>4. ASSUME pc'[s] = "rewrite" PROVE payload'[current'[s].content] = "good"
      <3>1. current'[s] = current[s]
        <4>1. pc[s] # "compare"
          BY <2>4, PayloadStep
        <4> QED
          BY <2>4, <4>1, PublishStep
      <3>2. CASE pc[s] = "rewrite"
        <4>1. current[s].content \in Contents
          BY <3>2 DEF TInv, TypeOK, SaveHasCurrent, Manifests
        <4>2. \A t \in Savers : ~Retire(t)
          BY <2>1, <2>2, <3>2 DEF SaveSteps
        <4> QED
          BY <3>1, <3>2, <4>1, <4>2, PayloadStep DEF PayloadInv
      <3>3. CASE /\ pc[s] = "read"
                 /\ goal[s] = "verify"
                 /\ payload[seen[s].content] = "good"
                 /\ seen[s].writer = current[s].writer
                 /\ payload' = payload
        <4>1. seen[s] # NoManifest /\ current[s] # NoManifest
          BY <3>3 DEF TInv, ReadHasManifest, SaveHasCurrent, ReadSteps, Procs
        <4>2. seen[s].content = current[s].content
          BY <1>3, <3>3, <4>1 DEF WrittenInv, Written, Procs
        <4> QED
          BY <3>1, <3>3, <4>2
      <3> QED
        BY <2>4, <3>2, <3>3, PayloadStep
    <2>5. ASSUME pc'[s] = "retire"
          PROVE  manifest' = NoManifest \/ manifest'.content = snapshot'[s].content
      <3>1. CASE Publish(s)
        BY <3>1, ManifestStep DEF Publish, At
      <3>2. CASE pc[s] = "retire" /\ ~Publish(s)
        <4>1. \A t \in Savers : ~Rewrite(t) /\ ~Publish(t)
          BY <2>1, <3>2 DEF Rewrite, Publish, At, SaveSteps
        <4> QED
          BY <3>2, <4>1, ManifestStep DEF PayloadInv
      <3> QED
        BY <2>5, <3>1, <3>2, PayloadStep
    <2> QED
      BY <2>3, <2>4, <2>5
  <1>4. ASSUME TInv', NoDangling, manifest' # NoManifest PROVE payload'[manifest'.content] # "none"
    <2>1. manifest'.content \in Contents
      BY <1>4 DEF TInv, TypeOK, Manifests
    <2>2. CASE manifest' = manifest
      <3>1. ASSUME NEW t \in Savers, Retire(t) PROVE manifest.content = snapshot[t].content
        BY <1>4, <2>2, <3>1 DEF Retire, At, PayloadInv
      <3> QED
        BY <1>4, <2>1, <2>2, <3>1, PayloadStep DEF NoDangling
    <2>3. ASSUME NEW t \in Savers, Rewrite(t) PROVE payload'[manifest'.content] # "none"
      BY <2>3 DEF Rewrite, At, PayloadInv
    <2>4. ASSUME NEW t \in Savers, Publish(t) PROVE payload'[manifest'.content] # "none"
      BY <2>4 DEF Publish, At, PayloadInv
    <2> QED
      BY <1>4, <2>2, <2>3, <2>4, ManifestStep
  <1> QED
    BY <1>2, <1>3, <1>4, PayloadStep DEF PayloadInv, NoDangling

\* When nobody clears or damages the files and saves exclude each other, a manifest
\* on disk names a payload that is there, between any two file operations, for
\* any number of windows, and so also for what a crash leaves behind.
THEOREM NoDanglingHolds ==
    ASSUME Undisturbed
    PROVE  Spec /\ []MutualExclusion => []NoDangling
  <1>1. Init => WrittenInv /\ PayloadInv /\ NoDangling
    BY DEF Init, WrittenInv, Written, PayloadInv, NoDangling, Procs
  <1>2. Spec => []TInv
    BY TInvInit, TInvInductive, PTL DEF Spec
  <1>3. Spec => []WrittenInv
    BY <1>1, <1>2, WrittenInductive, PTL DEF Spec
  <1>4. Spec /\ []MutualExclusion => []PayloadInv
    BY <1>1, <1>2, <1>3, PayloadInductive, PTL DEF Spec
  <1> QED
    BY <1>1, <1>2, <1>4, PayloadInductive, PTL DEF Spec

\* No manifest dangles whenever the conditions of the lock are met and no file is
\* damaged.
COROLLARY LeasedNoDangling ==
    ASSUME Leased, "damage" \notin Faults
    PROVE  Spec => []NoDangling
  <1>1. Undisturbed
    BY DEF Leased, Undisturbed
  <1> QED
    BY <1>1, MutualExclusionHolds, NoDanglingHolds, PTL

=============================================================================
