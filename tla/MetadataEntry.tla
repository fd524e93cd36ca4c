---------------------------- MODULE MetadataEntry ----------------------------
(***************************************************************************)
(* One catalog entry of the metadata engine                                *)
(* (services/metadata/metadataService.ts): the session lane its            *)
(* hydrations, digests and lazy definition reads share, the watchdog that  *)
(* abandons an operation of the lane, the digest validation, the retry and *)
(* poll timers, the identity latch, and the ensureFresh callers that wait  *)
(* for any of these.                                                       *)
(*                                                                         *)
(* A catalog is the number of DDL statements its reader saw.  One action   *)
(* is one answer of the server, one timer or one call, with the promise    *)
(* reactions it sets off; the start of the next lane operation (StartOp)   *)
(* and the callers that resume after it (Resume) are steps of their own,   *)
(* taken before anything else happens, because a caller reads what that    *)
(* start wrote.                                                            *)
(***************************************************************************)
EXTENDS Integers, Sequences, FiniteSets, SequencesExt

CONSTANTS
    Calls,          \* ensureFresh calls
    MaxDdl,         \* DDL statements of other clients
    MaxRefreshes,   \* generation from which nobody asks for a refresh, and the
                    \* last one whose definitions are asked for
    BackoffSteps,   \* length of the retry ladder, options.retryBackoffMs
    Events,         \* of "hang", "fail", "offline", "rename", "release", "dispose", "definition"
    MaxFaults       \* hangs, failures and offline periods together

ASSUME BoundsAssumption ==
    /\ MaxDdl \in Nat
    /\ MaxRefreshes \in Nat
    /\ BackoffSteps \in Nat
    /\ MaxFaults \in Nat

VARIABLES
    \* the server and the window
    catalog,        \* DDL statements the database has seen
    renamed,        \* sessions up to this one sit in a renamed database
    network,        \* isNetworkAllowed()
    faults,
    \* the lane
    lane,           \* operations that wait for the session
    op,             \* the one that runs
    late,           \* operations the watchdog abandoned, still unanswered
    opEpoch,
    sessionWedged,
    session,        \* number of the source's current session, 0 before any
    forcedRefresh,  \* a follow-up pass is due
    \* what the entry shows
    snapshot,       \* generation, and the catalog it was read from
    status,
    definition,     \* generation the cached module definition was read in
    \* validation
    lastDigest,
    manifestDigest,
    validation,     \* stage of validationInFlight
    validated,      \* lastValidatedAtMs is within every caller's TTL
    lastValidation,
    \* timers and latches
    polling,        \* "timer": pollTimer is armed; "pass", "validation": a
                    \* tick awaits the pass in flight, the validation
    retry,          \* retryTimer is armed
    failedAttempts,
    identityDrift,
    leased,         \* refCount > 0
    disposed,
    \* ensureFresh calls
    call,
    since           \* the catalog a requireLive call that waits has found

envVars == <<catalog, renamed, network, faults>>
laneVars == <<lane, forcedRefresh>>
opVars == <<op, late, opEpoch, sessionWedged, session>>
shownVars == <<snapshot, status, definition>>
digestVars == <<lastDigest, manifestDigest>>
verdictVars == <<validation, validated, lastValidation>>
timerVars == <<polling, retry, failedAttempts>>
latchVars == <<identityDrift, leased, disposed>>
callVars == <<call, since>>
vars == <<envVars, laneVars, opVars, shownVars, digestVars, verdictVars, timerVars, latchVars,
          callVars>>

-----------------------------------------------------------------------------

None == -1

Kinds == {"hydrate", "digest", "definition"}

\* An operation: the session it runs on, what it captured when it started (a
\* hydration the epoch, a definition read the generation), and the catalog a
\* hydration has read.
Ops == [kind : Kinds, captured : Nat, session : Nat, read : None..MaxDdl]

Idle == [kind |-> "idle"]

\* What an ensureFresh call waits for: in mode requireLive a pass, in allowStale
\* one it joined, in requireValidated the validation, until that or the pass it
\* chained has settled; and what it answers.
LiveWaits == {"pass", "queued", "followup", "resumed"}
Waits == LiveWaits \cup {"joined", "validating", "settled"}
Answers == {"live", "validated", "stale", "unavailable"}

TypeOK ==
    /\ catalog \in 0..MaxDdl
    /\ renamed \in Nat
    /\ network \in BOOLEAN
    /\ faults \in 0..MaxFaults
    /\ lane \in Seq(Kinds)
    /\ op \in Ops \cup {Idle}
    /\ late \subseteq Ops
    /\ opEpoch \in Nat
    /\ sessionWedged \in BOOLEAN
    /\ session \in Nat
    /\ forcedRefresh \in BOOLEAN
    /\ snapshot \in [gen : Nat, version : None..MaxDdl]
    /\ status \in {"absent", "loading", "ready", "stale", "failed"}
    /\ definition \in Nat \cup {None}
    /\ lastDigest \in None..MaxDdl
    /\ manifestDigest \in None..MaxDdl
    /\ validation \in {"none", "slot", "lane", "joined", "pass", "queued", "followup", "resumed"}
    /\ validated \in BOOLEAN
    /\ lastValidation \in {"none", "unchanged", "changed", "failed"}
    /\ polling \subseteq {"timer", "pass", "validation"}
    /\ retry \in BOOLEAN
    /\ failedAttempts \in 0..BackoffSteps
    /\ identityDrift \in BOOLEAN
    /\ leased \in BOOLEAN
    /\ disposed \in BOOLEAN
    /\ call \in [Calls -> {"none"} \cup Waits \cup Answers]
    /\ since \in [Calls -> 0..MaxDdl]

Init ==
    /\ catalog = 0
    /\ renamed = 0
    /\ network = TRUE
    /\ faults = 0
    /\ lane = <<>>
    /\ op = Idle
    /\ late = {}
    /\ opEpoch = 0
    /\ sessionWedged = FALSE
    /\ session = 0
    /\ forcedRefresh = FALSE
    /\ snapshot = [gen |-> 0, version |-> None]
    /\ status = "absent"
    /\ definition = None
    /\ lastDigest = None
    /\ manifestDigest = None
    /\ validation = "none"
    /\ validated = FALSE
    /\ lastValidation = "none"
    /\ polling = {}
    /\ retry = FALSE
    /\ failedAttempts = 0
    /\ identityDrift = FALSE
    /\ leased = FALSE
    /\ disposed = FALSE
    /\ call = [c \in Calls |-> "none"]
    /\ since = [c \in Calls |-> 0]

-----------------------------------------------------------------------------

HasSnapshot == snapshot.gen > 0

InLane(kind) == kind \in Range(lane)

Hydrating == op.kind = "hydrate" \/ InLane("hydrate")

\* The microtasks that run before the next answer, timer or call.
Starting == op = Idle /\ lane # <<>>

Resuming == validation = "resumed" \/ \E c \in Calls : call[c] \in {"resumed", "settled"}

\* clearNetworkTimers.  A tick that is running goes on.
ClearTimers ==
    /\ polling' = polling \ {"timer"}
    /\ retry' = FALSE

\* resetPollBackoff of an entry that is not latched: the poll is armed anew, when
\* schedulePoll may.
ResetPoll == IF network /\ leased THEN polling \cup {"timer"} ELSE polling \ {"timer"}

\* The ticks that awaited what is over end with schedulePoll.
EndTicks(over, poll, drift) ==
    polling' = IF poll \cap over # {} /\ network /\ leased /\ ~drift
               THEN (poll \ over) \cup {"timer"}
               ELSE poll \ over

\* Mutant of Hydrate: a forced trigger joins the pass in flight.
HydrateJoins(force) ==
    /\ lane' = IF Hydrating THEN lane ELSE Append(lane, "hydrate")
    /\ UNCHANGED forcedRefresh

\* hydrate() with the network on: a new pass, or a place behind the one in
\* flight; a caller that does not force joins that one.
Hydrate(force) ==
    /\ lane' = IF Hydrating THEN lane ELSE Append(lane, "hydrate")
    /\ forcedRefresh' = (forcedRefresh \/ (force /\ Hydrating))

HydrateWait(force) == IF force /\ Hydrating THEN "queued" ELSE "pass"

\* The follow-up of the pass in flight will find no network, and clear the timers.
CutOff == forcedRefresh /\ ~network /\ ~disposed

\* Mutant of ScheduleRetry: the ladder has no end.
ScheduleRetries(armed) ==
    LET arms == leased /\ network /\ HasSnapshot /\ ~armed
    IN  /\ retry' = ((armed /\ ~CutOff) \/ arms)
        /\ failedAttempts' = IF arms THEN failedAttempts + 1 ELSE failedAttempts

\* scheduleFailedRetry at the end of a pass, when the timer is armed or not.
ScheduleRetry(armed) ==
    LET arms == leased /\ network /\ HasSnapshot /\ ~armed /\ failedAttempts < BackoffSteps
    IN  /\ retry' = ((armed /\ ~CutOff) \/ arms)
        /\ failedAttempts' = IF arms THEN failedAttempts + 1 ELSE failedAttempts

\* A requireValidated answer that did not meet the bar.
NotValidated(drift) == IF HasSnapshot /\ ~drift THEN "stale" ELSE "unavailable"

-----------------------------------------------------------------------------
(* The end of a pass *)

\* The hydrate promise settles with the entry in status st: the callers and
\* the validation that wait for it go on, and a follow-up pass is queued.
\* One that waited behind the pass reads the status later (Resume).  has,
\* drift, claim and verdict are what the pass leaves in the entry, queue the
\* rest of the lane.
SettlePass(queue, st, has, drift, claim, verdict) ==
    LET follows == forcedRefresh /\ ~disposed /\ network
        ok == st = "ready"
        Behind(w) == IF w = "queued" /\ follows THEN "followup" ELSE "resumed"
        Missed == IF has /\ ~drift THEN "stale" ELSE "unavailable"
    IN  /\ op' = Idle
        /\ lane' = IF follows THEN Append(queue, "hydrate") ELSE queue
        /\ forcedRefresh' = FALSE
        /\ call' = [c \in Calls |->
               CASE call[c] = "pass" -> IF ok THEN "live" ELSE "unavailable"
                 [] call[c] = "joined" -> IF has THEN "live" ELSE "unavailable"
                 [] call[c] \in {"queued", "followup"} -> Behind(call[c])
                 [] call[c] = "validating" /\ validation = "joined" ->
                        IF ok THEN "validated" ELSE Missed
                 [] call[c] = "validating" /\ validation = "pass" -> "settled"
                 [] OTHER -> call[c]]
        /\ validation' = CASE validation \in {"joined", "pass"} -> "none"
                           [] validation \in {"queued", "followup"} -> Behind(validation)
                           [] OTHER -> validation
        /\ validated' = (claim \/ (ok /\ validation \in {"joined", "pass"}))
        /\ lastValidation' = CASE validation = "joined" -> IF ok THEN "unchanged" ELSE "failed"
                               [] validation = "pass" -> "changed"
                               [] OTHER -> verdict

\* The poll ticks that awaited the pass, or a validation that ends with it, when
\* the pass leaves the poll as it is in poll.
SettleTicks(poll, drift) ==
    EndTicks({"pass"} \cup (IF validation \in {"joined", "pass"} THEN {"validation"} ELSE {}),
             IF CutOff THEN poll \ {"timer"} ELSE poll, drift)

\* The callers and the validation that waited behind a pass read the status.
Resume ==
    /\ ~Starting
    /\ Resuming
    /\ call' = [c \in Calls |->
           IF call[c] \in {"resumed", "settled"} \/ (call[c] = "validating" /\ validation = "resumed")
           THEN CASE status = "ready" -> "live"
                  [] call[c] = "resumed" -> "unavailable"
                  [] OTHER -> NotValidated(identityDrift)
           ELSE call[c]]
    /\ IF validation = "resumed"
       THEN /\ validation' = "none"
            /\ validated' = (validated \/ status = "ready")
            /\ lastValidation' = "changed"
            /\ EndTicks({"validation"}, polling, identityDrift)
       ELSE UNCHANGED <<verdictVars, polling>>
    /\ UNCHANGED <<envVars, laneVars, opVars, shownVars, digestVars, retry, failedAttempts, latchVars,
                   since>>

\* validateEntry finishes with a verdict, "unchanged" or "failed"; claim is the
\* TTL claim it leaves.
Verdict(result, drift, claim) ==
    /\ validation' = "none"
    /\ lastValidation' = result
    /\ validated' = claim
    /\ call' = [c \in Calls |->
           IF call[c] # "validating" THEN call[c]
           ELSE IF result = "unchanged" THEN "validated" ELSE NotValidated(drift)]

-----------------------------------------------------------------------------
(* The session lane *)

\* Mutant of Recycle: a wedged session is used again.
KeepSession ==
    /\ session' = IF session = 0 THEN 1 ELSE session
    /\ sessionWedged' = FALSE

\* A wedged session gives way to a new one, opened by name.
Recycle ==
    /\ session' = IF sessionWedged \/ session = 0 THEN session + 1 ELSE session
    /\ sessionWedged' = FALSE

\* The next operation of the lane starts.
Starts(kind) ==
    /\ Starting
    /\ Head(lane) = kind
    /\ Recycle
    /\ UNCHANGED <<envVars, late, opEpoch, snapshot, definition, digestVars, failedAttempts,
                   latchVars, since>>

\* hydrateCore() gives up at once without a network, or after dispose().
PassMayRun == network /\ ~disposed

Captured(kind) ==
    CASE kind = "hydrate" -> opEpoch
      [] kind = "definition" -> snapshot.gen
      [] OTHER -> 0

\* An operation looks at the network and starts.
StartOp(kind) ==
    /\ Starts(kind)
    /\ IF kind = "hydrate" THEN PassMayRun ELSE network
    /\ op' = [kind |-> kind, captured |-> Captured(kind), session |-> session', read |-> None]
    /\ lane' = Tail(lane)
    /\ status' = CASE kind # "hydrate" -> status
                   [] HasSnapshot -> "stale"
                   [] OTHER -> "loading"
    /\ UNCHANGED <<forcedRefresh, verdictVars, polling, retry, call>>

SkipHydrate ==
    /\ Starts("hydrate")
    /\ ~PassMayRun
    /\ SettlePass(Tail(lane), status, HasSnapshot, identityDrift, validated, lastValidation)
    /\ SettleTicks(polling, identityDrift)
    /\ retry' = (retry /\ ~CutOff)
    /\ UNCHANGED status

SkipDigest ==
    /\ Starts("digest")
    /\ ~network
    /\ Verdict("failed", identityDrift, validated)
    /\ EndTicks({"validation"}, polling, identityDrift)
    /\ lane' = Tail(lane)
    /\ UNCHANGED <<forcedRefresh, op, status, retry>>

SkipDefinition ==
    /\ Starts("definition")
    /\ ~network
    /\ lane' = Tail(lane)
    /\ UNCHANGED <<forcedRefresh, op, status, verdictVars, polling, retry, call>>

-----------------------------------------------------------------------------
(* Hydration *)

Sits(o) == o.session > renamed  \* the session is still in the entry's database

\* The schema reads H1 to H7.  H0 before them is best effort: where it fails they
\* go on, whatever database the session sits in.
ReadCatalog ==
    /\ op.kind = "hydrate"
    /\ op.read = None
    /\ op' = [op EXCEPT !.read = catalog]
    /\ UNCHANGED <<envVars, laneVars, late, opEpoch, sessionWedged, session, shownVars, digestVars,
                   verdictVars, timerVars, latchVars, callVars>>

\* A pass fails: hydrateCore's catch, or containLaneTimeout.  claim and verdict
\* are what it leaves of the last validation.
FailPass(drift, claim, verdict) ==
    /\ status' = "failed"
    /\ SettlePass(lane, "failed", HasSnapshot, drift, claim, verdict)

\* latchInitialIdentityMismatch, without the timers it clears.
LatchMismatch ==
    /\ identityDrift' = TRUE
    /\ sessionWedged' = TRUE

\* H0 finds the session in another database: the latch, then the catch.
FindMismatch ==
    /\ op.kind = "hydrate"
    /\ op.read = None
    /\ ~Sits(op)
    /\ LatchMismatch
    /\ SettleTicks(polling \ {"timer"}, TRUE)
    /\ IF op.captured = opEpoch
       THEN FailPass(TRUE, FALSE, lastValidation) /\ ScheduleRetry(FALSE)
       ELSE /\ SettlePass(lane, status, HasSnapshot, TRUE, FALSE, lastValidation)
            /\ retry' = FALSE
            /\ UNCHANGED <<status, failedAttempts>>
    /\ UNCHANGED <<envVars, late, opEpoch, session, snapshot, definition, digestVars, leased,
                   disposed, since>>

\* The rest of hydrateCore(): publication, barred to an operation whose epoch
\* has passed.
Publish ==
    /\ op.kind = "hydrate"
    /\ op.read # None
    /\ IF op.captured = opEpoch
       THEN /\ snapshot' = [gen |-> snapshot.gen + 1, version |-> op.read]
            /\ status' = "ready"
            /\ definition' = None
            /\ lastDigest' = None
            /\ manifestDigest' = None
            /\ retry' = FALSE
            /\ failedAttempts' = 0
            /\ identityDrift' = FALSE
            /\ SettlePass(lane, "ready", TRUE, FALSE, TRUE, "unchanged")
            /\ SettleTicks(ResetPoll, FALSE)
       ELSE /\ SettlePass(lane, status, HasSnapshot, identityDrift, validated, lastValidation)
            /\ SettleTicks(polling, identityDrift)
            /\ retry' = (retry /\ ~CutOff)
            /\ UNCHANGED <<shownVars, digestVars, failedAttempts, identityDrift>>
    /\ UNCHANGED <<envVars, late, opEpoch, sessionWedged, session, leased, disposed, since>>

-----------------------------------------------------------------------------
(* Digests and definitions *)

\* Mutant of DigestChanged: the drift is reported, and nothing refreshed.
DigestChangedForgets ==
    /\ validation' = "resumed"
    /\ UNCHANGED <<laneVars, validated, lastValidation, polling, retry, call>>

\* Mutant of DigestChanged: the pass that cannot run is waited for.
DigestChangedWaits ==
    /\ IF network /\ ~disposed THEN Hydrate(TRUE) ELSE UNCHANGED <<laneVars>>
    /\ validation' = HydrateWait(TRUE)
    /\ UNCHANGED <<validated, lastValidation, polling, retry, call>>

\* The digest differs: a forced pass, which the validation waits for.
DigestChanged ==
    IF network /\ ~disposed
    THEN /\ Hydrate(TRUE)
         /\ validation' = HydrateWait(TRUE)
         /\ UNCHANGED <<validated, lastValidation, polling, retry, call>>
    ELSE /\ ClearTimers
         /\ validation' = "resumed"
         /\ UNCHANGED <<laneVars, validated, lastValidation, call>>

\* The digest row arrives: identity first, then the comparison with the last
\* digest or, for a catalog read from disk, the manifest's.
AnswerDigest ==
    LET baseline == IF lastDigest # None THEN lastDigest ELSE manifestDigest IN
    /\ op.kind = "digest"
    /\ op' = Idle
    /\ IF ~Sits(op)
       THEN /\ identityDrift' = TRUE
            /\ sessionWedged' = (sessionWedged \/ ~identityDrift)
            /\ EndTicks({"validation"}, IF identityDrift THEN polling ELSE polling \ {"timer"}, TRUE)
            /\ Verdict("failed", TRUE, validated /\ identityDrift)
            /\ UNCHANGED <<laneVars, digestVars, retry>>
       ELSE /\ lastDigest' = catalog
            /\ manifestDigest' = None
            /\ IF baseline \notin {None, catalog}
               THEN DigestChanged
               ELSE /\ Verdict("unchanged", FALSE, TRUE)
                    /\ EndTicks({"validation"}, polling, identityDrift)
                    /\ UNCHANGED <<laneVars, retry>>
            /\ UNCHANGED <<sessionWedged, identityDrift>>
    /\ UNCHANGED <<envVars, late, opEpoch, session, shownVars, failedAttempts, leased, disposed,
                   since>>

\* getModuleDefinition() of the one object, not cached and not being read.
ReadDefinition ==
    /\ "definition" \in Events
    /\ leased
    /\ network
    /\ definition = None
    /\ snapshot.gen <= MaxRefreshes
    /\ op.kind # "definition"
    /\ ~InLane("definition")
    /\ lane' = Append(lane, "definition")
    /\ UNCHANGED <<envVars, forcedRefresh, opVars, shownVars, digestVars, verdictVars, timerVars,
                   latchVars, callVars>>

\* Mutant of CacheDefinition: the generation is not compared.
CacheAnyDefinition(o) == definition' = o.captured

\* The lazy cache is per generation.
CacheDefinition(o) ==
    definition' = IF o.captured = snapshot.gen THEN o.captured ELSE definition

AnswerDefinition ==
    /\ op.kind = "definition"
    /\ op' = Idle
    /\ CacheDefinition(op)
    /\ UNCHANGED <<envVars, laneVars, late, opEpoch, sessionWedged, session, snapshot, status,
                   digestVars, verdictVars, timerVars, latchVars, callVars>>

-----------------------------------------------------------------------------
(* Faults *)

Fault(kind) ==
    /\ kind \in Events
    /\ faults < MaxFaults
    /\ faults' = faults + 1

\* The operation that runs ends without its answer; a database access error
\* revokes the claim of the last validation.
OpFails ==
    CASE op.kind = "hydrate" ->
            /\ SettleTicks(polling, identityDrift)
            /\ IF op.captured = opEpoch
               THEN /\ \/ FailPass(identityDrift, validated, lastValidation)
                       \/ FailPass(identityDrift, FALSE, "failed")
                    /\ ScheduleRetry(retry)
               ELSE /\ SettlePass(lane, status, HasSnapshot, identityDrift, validated, lastValidation)
                    /\ retry' = (retry /\ ~CutOff)
                    /\ UNCHANGED <<status, failedAttempts>>
      [] op.kind = "digest" ->
            /\ Verdict("failed", identityDrift, validated)
            /\ EndTicks({"validation"}, polling, identityDrift)
            /\ op' = Idle
            /\ UNCHANGED <<laneVars, status, retry, failedAttempts>>
      [] OTHER ->
            /\ op' = Idle
            /\ UNCHANGED <<laneVars, status, verdictVars, timerVars, call>>

\* The server rejects the operation.
Fail ==
    /\ op # Idle
    /\ Fault("fail")
    /\ OpFails
    /\ UNCHANGED <<catalog, renamed, network, late, opEpoch, sessionWedged, session, snapshot,
                   definition, digestVars, latchVars, since>>

\* withWatchdog: the operation is abandoned, and may still be answered.
Watchdog ==
    /\ op # Idle
    /\ Fault("hang")
    /\ opEpoch' = opEpoch + 1
    /\ sessionWedged' = TRUE
    /\ late' = late \cup {op}
    /\ IF op.kind = "hydrate"
       THEN /\ SettleTicks(polling, identityDrift)
            /\ IF disposed
               THEN /\ SettlePass(lane, status, HasSnapshot, identityDrift, validated, lastValidation)
                    /\ UNCHANGED <<status, retry, failedAttempts>>
               ELSE FailPass(identityDrift, validated, lastValidation) /\ ScheduleRetry(retry)
       ELSE OpFails
    /\ UNCHANGED <<catalog, renamed, network, session, snapshot, definition, digestVars, latchVars,
                   since>>

\* Mutant of LateAnswer: an abandoned hydration publishes.
LatePublishes(o) ==
    /\ o \in late
    /\ late' = late \ {o}
    /\ IF o.kind = "hydrate" /\ o.read # None
       THEN snapshot' = [gen |-> snapshot.gen + 1, version |-> o.read]
       ELSE UNCHANGED snapshot
    /\ UNCHANGED <<envVars, laneVars, op, opEpoch, sessionWedged, session, status, definition,
                   digestVars, verdictVars, timerVars, latchVars, callVars>>

\* An abandoned operation is answered, or fails.  The epoch keeps a hydration
\* from publishing, but not from the latch of H0; a definition compares
\* generations only.
LateAnswer(o) ==
    /\ o \in late
    /\ late' = late \ {o}
    /\ CASE o.kind = "hydrate" /\ o.read = None /\ ~Sits(o) ->
                /\ LatchMismatch
                /\ ClearTimers
                /\ validated' = FALSE
                /\ UNCHANGED definition
         [] o.kind = "definition" ->
                /\ CacheDefinition(o)
                /\ UNCHANGED <<sessionWedged, validated, polling, retry, identityDrift>>
         [] OTHER ->
                UNCHANGED <<sessionWedged, definition, validated, polling, retry, identityDrift>>
    /\ UNCHANGED <<envVars, laneVars, op, opEpoch, session, snapshot, status, digestVars,
                   validation, lastValidation, failedAttempts, leased, disposed, callVars>>

\* The database of the current session is renamed, once in a behaviour.
Rename ==
    /\ "rename" \in Events
    /\ renamed = 0
    /\ session > 0
    /\ renamed' = session
    /\ UNCHANGED <<catalog, network, faults, laneVars, opVars, shownVars, digestVars, verdictVars,
                   timerVars, latchVars, callVars>>

SetNetwork ==
    /\ \/ network /\ Fault("offline")
       \/ ~network /\ UNCHANGED faults
    /\ network' = ~network
    /\ UNCHANGED <<catalog, renamed, laneVars, opVars, shownVars, digestVars, verdictVars,
                   timerVars, latchVars, callVars>>

Dispose ==
    /\ "dispose" \in Events
    /\ ~disposed
    /\ disposed' = TRUE
    /\ leased' = FALSE
    /\ opEpoch' = opEpoch + 1
    /\ ClearTimers
    /\ UNCHANGED <<envVars, laneVars, op, late, sessionWedged, session, shownVars, digestVars,
                   verdictVars, failedAttempts, identityDrift, callVars>>

-----------------------------------------------------------------------------
(* Requests *)

\* schedulePoll
Polls == network /\ leased /\ ~identityDrift

\* A DDL statement commits; if it ran through this window, notifyExecutedBatch
\* sniffs it, resets the poll and asks for a refresh, which without a network
\* clears the timers.
Ddl ==
    /\ catalog < MaxDdl
    /\ catalog' = catalog + 1
    /\ \/ UNCHANGED <<laneVars, polling, retry>>
       \/ /\ Polls
          /\ polling' = ResetPoll
          /\ Hydrate(TRUE)
          /\ UNCHANGED retry
       \/ /\ leased /\ ~identityDrift /\ ~network
          /\ ClearTimers
          /\ UNCHANGED <<laneVars>>
    /\ UNCHANGED <<renamed, network, faults, opVars, shownVars, digestVars, verdictVars,
                   failedAttempts, latchVars, callVars>>

\* Another batch ran through this window: the poll is reset, and one that may
\* hide DDL asks for a digest (checkDigest).
ExecutedBatch ==
    /\ leased
    /\ ~identityDrift
    /\ polling' = ResetPoll
    /\ \/ UNCHANGED validation
       \/ /\ network /\ status = "ready" /\ ~Hydrating /\ validation = "none"
          /\ validation' = "slot"
    /\ UNCHANGED <<envVars, laneVars, opVars, shownVars, digestVars, validated, lastValidation, retry,
                   failedAttempts, latchVars, callVars>>

\* acquire(), which also hydrates an entry that is absent or has failed.
Acquire ==
    /\ ~disposed
    /\ leased' = TRUE
    /\ polling' = IF network /\ ~identityDrift THEN polling \cup {"timer"} ELSE polling
    /\ IF network /\ status \in {"absent", "failed"}
       THEN Hydrate(FALSE)
       ELSE UNCHANGED <<laneVars>>
    /\ UNCHANGED <<envVars, opVars, shownVars, digestVars, verdictVars, retry, failedAttempts,
                   identityDrift, disposed, callVars>>

\* dispose() of the last lease.
Release ==
    /\ "release" \in Events
    /\ leased
    /\ leased' = FALSE
    /\ polling' = polling \ {"timer"}
    /\ UNCHANGED <<envVars, laneVars, opVars, shownVars, digestVars, verdictVars, retry,
                   failedAttempts, identityDrift, disposed, callVars>>

\* refresh() of a lease.
Refresh ==
    /\ leased
    /\ \/ /\ network
          /\ snapshot.gen < MaxRefreshes
          /\ Hydrate(TRUE)
          /\ UNCHANGED <<polling, retry>>
       \/ /\ ~network
          /\ ClearTimers
          /\ UNCHANGED <<laneVars>>
    /\ UNCHANGED <<envVars, opVars, shownVars, digestVars, verdictVars, failedAttempts, latchVars,
                   callVars>>

\* publishExternalSnapshot: a snapshot from disk, with or without a digest.
PublishExternal ==
    /\ ~HasSnapshot
    /\ ~Hydrating
    /\ status # "loading"
    /\ ~disposed
    /\ \E version \in 0..catalog, seeded \in BOOLEAN :
          /\ snapshot' = [gen |-> 1, version |-> version]
          /\ manifestDigest' = IF seeded THEN version ELSE None
    /\ status' = "ready"
    /\ definition' = None
    /\ UNCHANGED <<envVars, laneVars, opVars, lastDigest, verdictVars, timerVars, latchVars,
                   callVars>>

\* noteAccessStateChanged: the server catalog saw the database's state change.
NoteAccessChanged ==
    /\ ~disposed
    /\ validated' = FALSE
    /\ lastValidation' = "none"
    /\ polling' = IF identityDrift THEN polling ELSE ResetPoll
    /\ UNCHANGED <<envVars, laneVars, opVars, shownVars, digestVars, validation, retry,
                   failedAttempts, latchVars, callVars>>

\* The TTL of the callers runs out.
ExpireTtl ==
    /\ validated
    /\ validated' = FALSE
    /\ UNCHANGED <<envVars, laneVars, opVars, shownVars, digestVars, validation, lastValidation,
                   timerVars, latchVars, callVars>>

-----------------------------------------------------------------------------
(* Timers and the limiter *)

\* The retry timer fires.
RetryTimer ==
    /\ retry
    /\ retry' = FALSE
    /\ IF leased /\ network /\ status = "failed" /\ ~Hydrating
       THEN Hydrate(FALSE)
       ELSE UNCHANGED <<laneVars>>
    /\ UNCHANGED <<envVars, opVars, shownVars, digestVars, verdictVars, polling, failedAttempts,
                   latchVars, callVars>>

\* Mutant of PollTick: the tail of the retry ladder is left out.
PollTickValidates ==
    /\ "timer" \in polling
    /\ Polls
    /\ status = "ready" /\ ~Hydrating
    /\ validation' = IF validation = "none" THEN "slot" ELSE validation
    /\ polling' = (polling \ {"timer"}) \cup {"validation"}
    /\ UNCHANGED <<envVars, laneVars, opVars, shownVars, digestVars, validated, lastValidation, retry,
                   failedAttempts, latchVars, callVars>>

\* The poll timer fires: the tick stops, retries a failed entry and awaits that
\* pass, or awaits a validation, its own or the one in flight.  One that finds
\* nothing to do arms the timer again.
PollTick ==
    /\ "timer" \in polling
    /\ \/ /\ ~Polls
          /\ polling' = polling \ {"timer"}
          /\ UNCHANGED <<laneVars, validation>>
       \/ /\ Polls
          /\ status = "failed" /\ HasSnapshot /\ ~retry /\ ~Hydrating
          /\ Hydrate(FALSE)
          /\ polling' = (polling \ {"timer"}) \cup {"pass"}
          /\ UNCHANGED validation
       \/ /\ Polls
          /\ status = "ready" /\ ~Hydrating
          /\ validation' = IF validation = "none" THEN "slot" ELSE validation
          /\ polling' = (polling \ {"timer"}) \cup {"validation"}
          /\ UNCHANGED <<laneVars>>
    /\ UNCHANGED <<envVars, opVars, shownVars, digestVars, validated, lastValidation, retry,
                   failedAttempts, latchVars, callVars>>

\* The limiter the entries of a store share admits the validation, which then
\* queues its digest in the lane.
TakeSlot ==
    /\ validation = "slot"
    /\ validation' = "lane"
    /\ lane' = Append(lane, "digest")
    /\ UNCHANGED <<envVars, forcedRefresh, opVars, shownVars, digestVars, validated, lastValidation,
                   timerVars, latchVars, callVars>>

-----------------------------------------------------------------------------
(* ensureFresh *)

\* A call begins, on a lease.
Ask(c, answer) ==
    /\ call[c] = "none"
    /\ leased
    /\ since' = IF answer \in LiveWaits THEN [since EXCEPT ![c] = catalog] ELSE since
    /\ call' = [call EXCEPT ![c] = answer]
    /\ UNCHANGED <<envVars, opVars, shownVars, digestVars, validated, lastValidation,
                   failedAttempts, latchVars>>

\* No network, in any mode: the retained snapshot, and no more timers.
AskOffline(c) ==
    /\ ~network
    /\ Ask(c, IF HasSnapshot THEN "stale" ELSE "unavailable")
    /\ ClearTimers
    /\ UNCHANGED <<laneVars, validation>>

\* The retained snapshot, with a background refresh of an old one; without a
\* snapshot the call joins the hydration.
AllowStale(c) ==
    /\ network
    /\ IF HasSnapshot
       THEN /\ Ask(c, "stale")
            /\ \/ UNCHANGED <<laneVars>>
               \/ ~Hydrating /\ ~identityDrift /\ snapshot.gen < MaxRefreshes /\ Hydrate(TRUE)
       ELSE Ask(c, "joined") /\ Hydrate(FALSE)
    /\ UNCHANGED <<validation, polling, retry>>

\* validateEntry answers a latched entry with its last verdict.
LatchedVerdict ==
    CASE lastValidation = "unchanged" -> "validated"
      [] lastValidation = "changed" /\ status = "ready" -> "live"
      [] OTHER -> "unavailable"

\* The TTL, the validation in flight, the latch, or a new validation, which
\* for an entry with nothing to validate is its hydration.
RequireValidated(c) ==
    /\ network
    /\ IF HasSnapshot /\ validated
       THEN /\ Ask(c, "validated")
            /\ UNCHANGED <<laneVars, validation>>
       ELSE IF validation = "none" /\ identityDrift
       THEN /\ Ask(c, LatchedVerdict)
            /\ UNCHANGED <<laneVars, validation>>
       ELSE /\ Ask(c, "validating")
            /\ CASE validation # "none" -> UNCHANGED <<laneVars, validation>>
                 [] HasSnapshot /\ status \notin {"failed", "absent"} ->
                        validation' = "slot" /\ UNCHANGED <<laneVars>>
                 [] OTHER -> validation' = "joined" /\ Hydrate(FALSE)
    /\ UNCHANGED <<polling, retry>>

\* Mutant of RequireLive: the call joins the pass in flight.
RequireLiveJoins(c) ==
    /\ network
    /\ ~identityDrift
    /\ Ask(c, "pass")
    /\ Hydrate(FALSE)
    /\ UNCHANGED <<validation, polling, retry>>

\* A pass that starts after the call; a latched entry refuses.
RequireLive(c) ==
    /\ network
    /\ IF identityDrift
       THEN /\ Ask(c, "unavailable")
            /\ UNCHANGED <<laneVars>>
       ELSE /\ Ask(c, HydrateWait(TRUE))
            /\ Hydrate(TRUE)
    /\ UNCHANGED <<validation, polling, retry>>

\* raceWait: the caller stops waiting, the work goes on.
CallTimesOut(c) ==
    /\ call[c] \in Waits
    /\ call' = [call EXCEPT ![c] = IF call[c] \in {"validating", "settled"} THEN NotValidated(FALSE)
                                   ELSE "unavailable"]
    /\ UNCHANGED <<envVars, laneVars, opVars, shownVars, digestVars, verdictVars, timerVars,
                   latchVars, since>>

-----------------------------------------------------------------------------

Start == (\E kind \in Kinds : StartOp(kind)) \/ SkipHydrate \/ SkipDigest \/ SkipDefinition

OpAnswered == ReadCatalog \/ FindMismatch \/ Publish \/ AnswerDigest \/ AnswerDefinition

\* No microtask is due.
Quiet == ~Starting /\ ~Resuming

Next ==
    \/ Start
    \/ Resume
    \/ /\ Quiet
       /\ \/ OpAnswered
          \/ Fail
          \/ Watchdog
          \/ \E o \in late : LateAnswer(o)
          \/ ReadDefinition
          \/ Rename \/ SetNetwork \/ Dispose
          \/ Ddl \/ ExecutedBatch \/ Acquire \/ Release \/ Refresh
          \/ PublishExternal \/ NoteAccessChanged \/ ExpireTtl
          \/ RetryTimer \/ PollTick \/ TakeSlot
          \/ \E c \in Calls : \/ AskOffline(c)
                              \/ AllowStale(c)
                              \/ RequireValidated(c)
                              \/ RequireLive(c)
                              \/ CallTimesOut(c)

Spec == Init /\ [][Next]_vars

\* Microtasks run; an operation is answered or the watchdog ends it, which
\* frees the slots of the limiter; timers fire.
FairSpec ==
    /\ Spec
    /\ WF_vars(Start)
    /\ WF_vars(Resume)
    /\ WF_vars(Quiet /\ OpAnswered)
    /\ WF_vars(Quiet /\ TakeSlot)
    /\ WF_vars(Quiet /\ RetryTimer)
    /\ WF_vars(Quiet /\ PollTick)

-----------------------------------------------------------------------------
(* Properties *)

\* The dedicated session allows one active query: while an operation runs, no
\* abandoned one is still unanswered on its session, or on a later one.
OneQueryPerSession == op # Idle => \A o \in late : o.session < op.session

\* Nobody waits for work that is not scheduled: each wait of a caller or of
\* the shared validation has the operation behind it that will end it.
WaitersAreServed ==
    /\ forcedRefresh => Hydrating
    /\ \A wait \in {validation} \cup {call[c] : c \in Calls} :
          /\ wait \in {"pass", "joined", "followup"} => Hydrating
          /\ wait = "queued" => forcedRefresh
    /\ validation = "lane" => op.kind = "digest" \/ InLane("digest")
    /\ \A c \in Calls : call[c] = "validating" => validation # "none"

\* A cached definition was read in the generation of the snapshot it is shown
\* with, whatever was abandoned, published or loaded while it was being read.
DefinitionIsOfGeneration == definition # None => definition = snapshot.gen

\* A catalog is never replaced by an older one, and every replacement has a
\* greater generation, also when abandoned hydrations are answered late.
SnapshotNeverRegresses ==
    [][snapshot' # snapshot => /\ snapshot'.gen > snapshot.gen
                               /\ snapshot'.version >= snapshot.version]_vars

\* A requireLive caller told "live" gets a catalog read after it asked:
\* joining the pass in flight would not do.  Without a network, or in a
\* disposed engine, the pass does not run.
LiveIsForThisCall ==
    [][\A c \in Calls : /\ call[c] \in LiveWaits /\ call'[c] = "live"
                        /\ network /\ ~disposed
                        => snapshot'.version >= since[c]]_vars

\* Every ensureFresh call is answered, also when it has no timeout.
CallSettles == \A c \in Calls : call[c] \in Waits ~> call[c] \in Answers

\* A failed entry that still shows a snapshot and has a timer left becomes
\* ready again, past the end of the retry ladder too, unless the network goes
\* off or the entry is latched, released or disposed.
FailedRecovers ==
    status = "failed" /\ HasSnapshot /\ (polling # {} \/ retry)
        ~> status = "ready" \/ ~network \/ identityDrift \/ ~leased

\* A digest has seen the catalog v, other than the one it was compared with, and
\* the refresh it chained is due.
DriftSeen(v) == lastDigest = v /\ validation \in {"pass", "queued", "followup", "resumed"}

\* Drift the digest has seen ends in a catalog at least that recent, although
\* the digest it is compared with has moved on: in the pass the validation
\* asked for, or in a later one of the poll, whose timer or tick there must be.
\* An entry whose poll an offline call has cleared may forget it.
DriftIsRefreshed ==
    \A v \in 1..MaxDdl :
        DriftSeen(v) /\ polling # {}
            ~> snapshot.version >= v \/ ~network \/ identityDrift \/ ~leased
=============================================================================
