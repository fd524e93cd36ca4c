---------------------------- MODULE MetadataCache ----------------------------
(***************************************************************************)
(* One entry of the disk cache of catalogs, shared by the windows of a     *)
(* machine (services/metadata/cache/metadataCacheStore.ts and              *)
(* metadataCacheCoordinator.ts): saves that serialize on a lock file,      *)
(* compare and publish payload before manifest; reads and clears that take *)
(* no lock; crashes, failed writes and damaged files.                      *)
(*                                                                         *)
(* One action is one file operation: windows are processes, and each await *)
(* lets the others run.  A payload file is named after its content, and a  *)
(* content is its hash, so writing one is idempotent.  Temporary files are *)
(* left out: nobody reads them.                                            *)
(***************************************************************************)
EXTENDS Integers, FiniteSets

CONSTANTS
    Savers,         \* saveNow calls, each of one window
    Readers,        \* load calls
    Cleaners,       \* clearForKey calls and evictions
    Contents,       \* catalogs, as content hashes
    Instants,       \* capture instants
    Ahead,          \* those beyond now + MAX_FUTURE_CLOCK_SKEW_MS: a clock was wrong
    Faults          \* of "crash", "io", "unlink", "damage", "overrun"

Free == "free"      \* nobody's name

ASSUME DataAssumption ==
    /\ Contents \subseteq Nat \ {0}
    /\ Instants \subseteq Nat \ {0}
    /\ Ahead \subseteq Instants

ASSUME ProcessAssumption ==
    /\ Savers \cap (Readers \cup Cleaners) = {}
    /\ Readers \cap Cleaners = {}
    /\ Free \notin Savers

VARIABLES
    \* the entry's directory
    payload,        \* each payload file: "none", "good" or "bad"
    manifest,
    lock,           \* who created .publication.lock, or Free
    stale,          \* the lock file is older than PUBLICATION_LOCK_STALE_MS
    \* the processes
    pc,
    seen,           \* manifest the read in progress works from
    retried,        \* the read has gone back to a newer manifest
    \* savers
    snapshot,       \* what the save publishes
    current,        \* manifest the comparison, then the write, found
    goal,           \* what the saver reads the entry for
    outcome,
    \* cleaners
    listed          \* files still to be removed

fileVars == <<payload, manifest>>
lockVars == <<lock, stale>>
readVars == <<seen, retried>>
saveVars == <<snapshot, current, goal, outcome>>
vars == <<fileVars, lockVars, pc, readVars, saveVars, listed>>

-----------------------------------------------------------------------------

Procs == Savers \cup Readers \cup Cleaners

NoManifest == [content |-> 0, captured |-> 0, writer |-> Free]

LockFile == 0       \* .publication.lock among the files of a directory

Manifests == [content : Contents, captured : Instants, writer : Savers]

ReadSteps == {"manifest", "stat", "drop", "read", "reread", "quarantine", "aside"}

\* The critical section of a save.
SaveSteps == {"compare", "rewrite", "previous", "payload", "publish", "retire", "confirm", "unlock"}

Ends == {"hit", "miss", "done", "crashed"}

Waiting == {"lock", "held", "recover"}

Steps == {"idle", "list", "unpublish", "sweep"} \cup Waiting \cup SaveSteps \cup ReadSteps \cup Ends

Snapshots == [content : Contents, captured : Instants]

NoSnapshot == [content |-> 0, captured |-> 0]

TypeOK ==
    /\ payload \in [Contents -> {"none", "good", "bad"}]
    /\ manifest \in Manifests \cup {NoManifest}
    /\ lock \in Savers \cup {Free}
    /\ stale \in BOOLEAN
    /\ pc \in [Procs -> Steps]
    /\ seen \in [Procs -> Manifests \cup {NoManifest}]
    /\ retried \in [Procs -> BOOLEAN]
    /\ snapshot \in [Savers -> Snapshots \cup {NoSnapshot}]
    /\ current \in [Savers -> Manifests \cup {NoManifest}]
    /\ goal \in [Savers -> {"none", "verify", "confirm"}]
    /\ outcome \in [Savers -> {"none", "saved", "confirmed", "skipped", "raceLost", "failed"}]
    /\ listed \in [Cleaners -> SUBSET (Contents \cup {LockFile})]

Init ==
    /\ payload = [c \in Contents |-> "none"]
    /\ manifest = NoManifest
    /\ lock = Free
    /\ stale = FALSE
    /\ pc = [p \in Procs |-> "idle"]
    /\ seen = [p \in Procs |-> NoManifest]
    /\ retried = [p \in Procs |-> FALSE]
    /\ snapshot = [s \in Savers |-> NoSnapshot]
    /\ current = [s \in Savers |-> NoManifest]
    /\ goal = [s \in Savers |-> "none"]
    /\ outcome = [s \in Savers |-> "none"]
    /\ listed = [c \in Cleaners |-> {}]

-----------------------------------------------------------------------------

InSection(s) ==
    pc[s] \in SaveSteps \/ (pc[s] \in ReadSteps /\ goal[s] # "none")

Goto(p, step) == pc' = [pc EXCEPT ![p] = step]

At(p, step, next) == pc[p] = step /\ Goto(p, next)

EndSave(s, result) ==
    /\ outcome' = [outcome EXCEPT ![s] = result]
    /\ goal' = [goal EXCEPT ![s] = "none"]

-----------------------------------------------------------------------------
(* The lock file *)

\* saveNow begins, with an eligible snapshot.
BeginSave(s) ==
    /\ At(s, "idle", "lock")
    /\ \E new \in Snapshots : snapshot' = [snapshot EXCEPT ![s] = new]
    /\ UNCHANGED <<fileVars, lockVars, readVars, current, goal, outcome, listed>>

\* writeFileExclusive succeeds.
AcquireLock(s) ==
    /\ At(s, "lock", "compare")
    /\ lock = Free
    /\ lock' = s
    /\ stale' = FALSE
    /\ UNCHANGED <<fileVars, readVars, saveVars, listed>>

\* writeFileExclusive finds the file there.
FailAttempt(s) ==
    /\ At(s, "lock", "held")
    /\ lock # Free
    /\ UNCHANGED <<fileVars, lockVars, readVars, saveVars, listed>>

LockIsStale == lock # Free /\ stale

\* Mutant of SeeStale: the age of the lock is not looked at.
SeeLock(s) ==
    /\ At(s, "held", "recover")
    /\ lock # Free
    /\ UNCHANGED <<fileVars, lockVars, readVars, saveVars, listed>>

\* Its modification time is PUBLICATION_LOCK_STALE_MS ago.
SeeStale(s) ==
    /\ At(s, "held", "recover")
    /\ LockIsStale
    /\ UNCHANGED <<fileVars, lockVars, readVars, saveVars, listed>>

\* It is younger, or gone: sleep, and try again.
Sleep(s) ==
    /\ At(s, "held", "lock")
    /\ ~LockIsStale
    /\ UNCHANGED <<fileVars, lockVars, readVars, saveVars, listed>>

\* The file at the lock's path is removed, whoever made it.  An unlink that fails
\* is swallowed, and the file stays.
RemoveLock ==
    \/ lock' = Free /\ stale' = FALSE
    \/ "unlink" \in Faults /\ UNCHANGED lockVars

RemoveStale(s) ==
    /\ At(s, "recover", "lock")
    /\ RemoveLock
    /\ UNCHANGED <<fileVars, readVars, saveVars, listed>>

\* Mutant of GiveUp: the attempts have no limit.
NeverGivesUp(s) == pc[s] = "given up" /\ UNCHANGED vars

\* That was the last of PUBLICATION_LOCK_ATTEMPTS.
GiveUp(s) ==
    /\ \/ At(s, "held", "done") /\ ~LockIsStale /\ UNCHANGED lockVars
       \/ At(s, "recover", "done") /\ RemoveLock
    /\ EndSave(s, "failed")
    /\ UNCHANGED <<fileVars, readVars, snapshot, current, listed>>

\* The lease runs out: of a holder that crashed, of one that could not remove its
\* lock, or of one that is slow.
LeaseExpires ==
    /\ lock # Free
    /\ ~stale
    /\ InSection(lock) => "overrun" \in Faults
    /\ stale' = TRUE
    /\ UNCHANGED <<fileVars, lock, pc, readVars, saveVars, listed>>

\* The finally of withFileLock.
Unlock(s) ==
    /\ At(s, "unlock", "done")
    /\ RemoveLock
    /\ UNCHANGED <<fileVars, readVars, saveVars, listed>>

-----------------------------------------------------------------------------
(* Reading the entry (readEntry): by load, and by a save that verifies or   *)
(* confirms what it finds                                                   *)

BeginLoad(r) ==
    /\ At(r, "idle", "manifest")
    /\ UNCHANGED <<fileVars, lockVars, readVars, saveVars, listed>>

\* What the caller of readEntry does with the result.
Return(p, hit) ==
    \/ /\ p \in Readers
       /\ Goto(p, IF hit THEN "hit" ELSE "miss")
       /\ UNCHANGED saveVars
    \/ /\ p \in Savers
       /\ goal[p] = "verify"
       /\ Goto(p, IF hit /\ seen[p].writer = current[p].writer THEN "rewrite" ELSE "previous")
       /\ goal' = [goal EXCEPT ![p] = "none"]
       /\ UNCHANGED <<snapshot, current, outcome>>
    \/ /\ p \in Savers
       /\ goal[p] = "confirm"
       /\ Goto(p, "unlock")
       /\ EndSave(p, IF hit /\ seen[p].writer = p THEN "saved" ELSE "raceLost")
       /\ UNCHANGED <<snapshot, current>>

\* The manifest file is read, or is missing.
ReadManifest(p) ==
    /\ pc[p] = "manifest"
    /\ manifest # NoManifest
    /\ seen' = [seen EXCEPT ![p] = manifest]
    /\ Goto(p, "stat")
    /\ UNCHANGED <<fileVars, lockVars, retried, saveVars, listed>>

MissManifest(p) ==
    /\ pc[p] = "manifest"
    /\ manifest = NoManifest
    /\ Return(p, FALSE)
    /\ UNCHANGED <<fileVars, lockVars, readVars, listed>>

\* A payload of the wrong size is quarantined unread.
StatPayload(p) ==
    /\ pc[p] = "stat"
    /\ LET file == payload[seen[p].content] IN
          \/ file = "none" /\ Goto(p, "drop")
          \/ file # "none" /\ Goto(p, "read")
          \/ file = "bad" /\ Goto(p, "quarantine")
    /\ UNCHANGED <<fileVars, lockVars, readVars, saveVars, listed>>

\* The payload is missing: the file at the manifest's path is removed.
DropManifest(p) ==
    /\ pc[p] = "drop"
    /\ manifest' = NoManifest
    /\ Return(p, FALSE)
    /\ UNCHANGED <<payload, lockVars, readVars, listed>>

\* The payload is read, or cannot be, and its hash compared.
ReadPayload(p) ==
    /\ pc[p] = "read"
    /\ payload[seen[p].content] # "bad"
    /\ Return(p, payload[seen[p].content] = "good")
    /\ UNCHANGED <<fileVars, lockVars, readVars, listed>>

\* Its hash is not the manifest's; if its length is not what stat said, it is
\* quarantined at once.
HashMismatch(p) ==
    /\ At(p, "read", "reread") \/ At(p, "read", "quarantine")
    /\ payload[seen[p].content] = "bad"
    /\ UNCHANGED <<fileVars, lockVars, readVars, saveVars, listed>>

\* The manifest is read again: another one sends the read back, once.
Reread(p) ==
    /\ pc[p] = "reread"
    /\ LET again == ~retried[p] /\ manifest # NoManifest
                     /\ manifest.writer # seen[p].writer
       IN  /\ retried' = [retried EXCEPT ![p] = @ \/ again]
           /\ Goto(p, IF again THEN "manifest" ELSE "quarantine")
    /\ UNCHANGED <<fileVars, lockVars, seen, saveVars, listed>>

\* quarantineEntry: the manifest first, then the payload.
Quarantine(p) ==
    /\ At(p, "quarantine", "aside")
    /\ manifest' = NoManifest
    /\ UNCHANGED <<payload, lockVars, readVars, saveVars, listed>>

SetAside(p) ==
    /\ pc[p] = "aside"
    /\ payload' = [payload EXCEPT ![seen[p].content] = "none"]
    /\ Return(p, FALSE)
    /\ UNCHANGED <<manifest, lockVars, readVars, listed>>

Read(p) ==
    \/ ReadManifest(p) \/ MissManifest(p) \/ StatPayload(p) \/ DropManifest(p)
    \/ ReadPayload(p) \/ HashMismatch(p) \/ Reread(p) \/ Quarantine(p) \/ SetAside(p)

-----------------------------------------------------------------------------
(* A save that holds the lock                                               *)

\* readEntry starts anew, for this purpose.
ReadFor(s, purpose) ==
    /\ Goto(s, "manifest")
    /\ goal' = [goal EXCEPT ![s] = purpose]
    /\ retried' = [retried EXCEPT ![s] = FALSE]
    /\ UNCHANGED seen

\* A manifest dated beyond the skew allowed for clocks is newer than nothing.
Newer(old, new) ==
    /\ old.content # new.content
    /\ old.captured \notin Ahead
    /\ \/ old.captured > new.captured
       \/ old.captured = new.captured /\ old.content >= new.content

\* Mutant of NewerExists: whoever saves last wins.
LastWriterWins(s) == FALSE

NewerExists(s) == manifest # NoManifest /\ Newer(manifest, snapshot[s])

\* The manifest is compared with the snapshot.
CompareNewer(s) ==
    /\ At(s, "compare", "unlock")
    /\ NewerExists(s)
    /\ EndSave(s, "skipped")
    /\ UNCHANGED <<fileVars, lockVars, readVars, snapshot, current, listed>>

CompareSame(s) ==
    /\ pc[s] = "compare"
    /\ manifest.content = snapshot[s].content
    /\ current' = [current EXCEPT ![s] = manifest]
    /\ ReadFor(s, "verify")
    /\ UNCHANGED <<fileVars, lockVars, snapshot, outcome, listed>>

\* The snapshot is to be written: also one of the same content, when the manifest
\* was written under another policy.
CompareOlder(s) ==
    /\ At(s, "compare", "previous")
    /\ ~NewerExists(s)
    /\ UNCHANGED <<fileVars, lockVars, readVars, saveVars, listed>>

\* The entry is what the snapshot says: its manifest, as it was read, is
\* written back with a new validation.
Rewrite(s) ==
    /\ At(s, "rewrite", "unlock")
    /\ manifest' = current[s]
    /\ EndSave(s, "confirmed")
    /\ UNCHANGED <<payload, lockVars, readVars, snapshot, current, listed>>

\* writeEntry: the compressed payload is larger than maxEntryBytes.
TooLarge(s) ==
    /\ At(s, "previous", "unlock")
    /\ EndSave(s, "skipped")
    /\ UNCHANGED <<fileVars, lockVars, readVars, snapshot, current, listed>>

\* writeEntry: the manifest it is about to replace.
ReadPrevious(s) ==
    /\ At(s, "previous", "payload")
    /\ current' = [current EXCEPT ![s] = manifest]
    /\ UNCHANGED <<fileVars, lockVars, readVars, snapshot, goal, outcome, listed>>

\* Mutant of WritePayload: the previous payload is removed before the manifest
\* that replaces its own is in place.
RetiresFirst(s) ==
    /\ At(s, "payload", "publish")
    /\ payload' = [c \in Contents |->
                     CASE c = snapshot[s].content -> "good"
                       [] c = current[s].content -> "none"
                       [] OTHER -> payload[c]]
    /\ UNCHANGED <<manifest, lockVars, readVars, saveVars, listed>>

WritePayload(s) ==
    /\ At(s, "payload", "publish")
    /\ payload' = [payload EXCEPT ![snapshot[s].content] = "good"]
    /\ UNCHANGED <<manifest, lockVars, readVars, saveVars, listed>>

\* Mutant of Publish: the manifest is dated at its publication, after the capture.
PublishDated(s) ==
    /\ At(s, "publish", "retire")
    /\ manifest' = [content |-> snapshot[s].content, captured |-> snapshot[s].captured + 1,
                    writer |-> s]
    /\ UNCHANGED <<payload, lockVars, readVars, saveVars, listed>>

\* The manifest is renamed into place, last.
Publish(s) ==
    /\ At(s, "publish", "retire")
    /\ manifest' = [content |-> snapshot[s].content, captured |-> snapshot[s].captured,
                    writer |-> s]
    /\ UNCHANGED <<payload, lockVars, readVars, saveVars, listed>>

\* The payload the previous manifest named is removed.
Retire(s) ==
    /\ At(s, "retire", "confirm")
    /\ payload' = [c \in Contents |->
                     IF c = current[s].content /\ c # snapshot[s].content
                     THEN "none" ELSE payload[c]]
    /\ UNCHANGED <<manifest, lockVars, readVars, saveVars, listed>>

\* The manifest is read once more, and the entry if it is still ours.
ConfirmLost(s) ==
    /\ At(s, "confirm", "unlock")
    /\ manifest.writer # s
    /\ EndSave(s, "raceLost")
    /\ UNCHANGED <<fileVars, lockVars, readVars, snapshot, current, listed>>

ConfirmOurs(s) ==
    /\ pc[s] = "confirm"
    /\ manifest.writer = s
    /\ ReadFor(s, "confirm")
    /\ UNCHANGED <<fileVars, lockVars, snapshot, current, outcome, listed>>

\* Mutant of WriteFails: the failure skips the finally of the lock.
FailsLocked(s) ==
    /\ "io" \in Faults
    /\ pc[s] \in {"payload", "publish", "rewrite"}
    /\ Goto(s, "done")
    /\ EndSave(s, "failed")
    /\ UNCHANGED <<fileVars, lockVars, readVars, snapshot, current, listed>>

\* A file cannot be written, or renamed after the retries.
WriteFails(s) ==
    /\ "io" \in Faults
    /\ pc[s] \in {"payload", "publish", "rewrite"}
    /\ Goto(s, "unlock")
    /\ EndSave(s, "failed")
    /\ UNCHANGED <<fileVars, lockVars, readVars, snapshot, current, listed>>

Save(s) ==
    \/ CompareNewer(s) \/ CompareSame(s) \/ CompareOlder(s) \/ Rewrite(s)
    \/ ReadPrevious(s) \/ WritePayload(s) \/ Publish(s) \/ Retire(s)
    \/ ConfirmLost(s) \/ ConfirmOurs(s) \/ TooLarge(s) \/ WriteFails(s)

-----------------------------------------------------------------------------
(* Clearing and evicting, by windows that take no lock                      *)

Files ==
    {c \in Contents : payload[c] # "none"}
    \cup (IF lock = Free THEN {} ELSE {LockFile})

\* clearForKey lists the directory after removing the manifest; an eviction
\* works from a scan made before.
BeginClear(c) ==
    /\ At(c, "idle", "list")
    /\ manifest' = NoManifest
    /\ UNCHANGED <<payload, lockVars, readVars, saveVars, listed>>

ListFiles(c) ==
    /\ At(c, "list", "sweep")
    /\ listed' = [listed EXCEPT ![c] = Files]
    /\ UNCHANGED <<fileVars, lockVars, readVars, saveVars>>

BeginEvict(c) ==
    /\ At(c, "idle", "unpublish")
    /\ manifest # NoManifest
    /\ payload[manifest.content] # "none"
    /\ listed' = [listed EXCEPT ![c] = Files]
    /\ UNCHANGED <<fileVars, lockVars, readVars, saveVars>>

Unpublish(c) ==
    /\ At(c, "unpublish", "sweep")
    /\ manifest' = NoManifest
    /\ UNCHANGED <<payload, lockVars, readVars, saveVars, listed>>

Sweep(c) ==
    /\ pc[c] = "sweep"
    /\ \E file \in listed[c] :
          /\ listed' = [listed EXCEPT ![c] = @ \ {file}]
          /\ IF file = LockFile
             THEN RemoveLock /\ UNCHANGED payload
             ELSE payload' = [payload EXCEPT ![file] = "none"] /\ UNCHANGED lockVars
    /\ UNCHANGED <<manifest, pc, readVars, saveVars>>

EndSweep(c) ==
    /\ At(c, "sweep", "done")
    /\ listed[c] = {}
    /\ UNCHANGED <<fileVars, lockVars, readVars, saveVars, listed>>

Clean(c) ==
    BeginClear(c) \/ ListFiles(c) \/ BeginEvict(c) \/ Unpublish(c) \/ Sweep(c) \/ EndSweep(c)

-----------------------------------------------------------------------------
(* Faults                                                                   *)

\* The window of a save dies with the lock held.
Crash(s) ==
    /\ "crash" \in Faults
    /\ InSection(s)
    /\ Goto(s, "crashed")
    /\ UNCHANGED <<fileVars, lockVars, readVars, saveVars, listed>>

\* A payload file on disk is truncated or altered.
Damage(c) ==
    /\ "damage" \in Faults
    /\ payload[c] = "good"
    /\ payload' = [payload EXCEPT ![c] = "bad"]
    /\ UNCHANGED <<manifest, lockVars, pc, readVars, saveVars, listed>>

-----------------------------------------------------------------------------

Lock(s) ==
    \/ AcquireLock(s) \/ FailAttempt(s) \/ SeeStale(s) \/ Sleep(s) \/ RemoveStale(s)
    \/ GiveUp(s) \/ Unlock(s)

Next ==
    \/ \E s \in Savers : BeginSave(s) \/ Lock(s) \/ Save(s) \/ Crash(s)
    \/ \E r \in Readers : BeginLoad(r)
    \/ \E p \in Savers \cup Readers : Read(p)
    \/ \E c \in Cleaners : Clean(c)
    \/ LeaseExpires
    \/ \E c \in Contents : Damage(c)

Spec == Init /\ [][Next]_vars

\* File operations are answered, and a save has a last attempt at the lock.
\* Nothing makes a call begin, and a lease need not run out while somebody waits.
FairSpec ==
    /\ Spec
    /\ \A s \in Savers :
          /\ WF_vars(Lock(s) \/ Save(s) \/ Read(s))
          /\ SF_vars(GiveUp(s))
    /\ \A r \in Readers : WF_vars(Read(r))
    /\ \A c \in Cleaners : WF_vars(ListFiles(c) \/ Unpublish(c) \/ Sweep(c) \/ EndSweep(c))

-----------------------------------------------------------------------------
(* Properties                                                               *)

\* "Serialize compare + publication for one key across extension-host
\* processes": no two saves are between withFileLock's acquisition and its
\* finally at once.  It needs holders that keep their lease, and no more than one
\* save looking at a lock that a crash or a failed unlink left.
MutualExclusion ==
    \A s, t \in Savers : InSection(s) /\ InSection(t) => s = t

\* At every moment, and so after a crash between any two file operations, the
\* manifest on disk names a payload that is there (writeEntry renames the payload
\* first, and retires the previous one last).
NoDangling == manifest # NoManifest => payload[manifest.content] # "none"

Usable == IF manifest # NoManifest /\ payload[manifest.content] = "good"
          THEN [content |-> manifest.content, captured |-> manifest.captured]
          ELSE NoSnapshot

Newest == INSTANCE NewestCache WITH entry <- Usable

\* Saves of several windows, reads that discard what they find missing, failed
\* writes and crashes change the usable entry only as the abstract cache allows:
\* a later capture is never replaced by an earlier one of other content, unless it
\* is dated in the future (saveNow's comparison and its publication, under the lock).
ImplementsNewest == Newest!CacheSpec

\* A lock outlives its save only in a window that crashed: whatever fails but the
\* unlink of the lock itself, which is swallowed, and whoever breaks it, the finally
\* of withFileLock removes it.
LockIsReleased ==
    (\A s \in Savers : pc[s] \in {"idle", "done"}) => lock = Free

\* A save that began ends, even one that waits for a lock a crashed window left.
CacheSettles ==
    \A s \in Savers : (pc[s] # "idle") ~> (pc[s] \in Ends)
=============================================================================
