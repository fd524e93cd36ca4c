---------------------------- MODULE SqlDataPlane ----------------------------
(***************************************************************************)
(* The provider registry of the SQL Data Plane                             *)
(* (services/sqlDataPlane/sqlDataPlaneService.ts), for one provider entry: *)
(* single-flight startup, its supersession by a configuration change or by *)
(* disposal, the deferred swap of a stale backend, and the accounting of   *)
(* sessions that drives it.                                                *)
(*                                                                         *)
(* A startup and the backend it creates share a number.  An action is one  *)
(* run of the JavaScript thread; a startup that settles resumes the calls  *)
(* that await it in the same run.                                          *)
(***************************************************************************)
EXTENDS Integers, FiniteSets

CONSTANTS
    Clients,        \* callers: each obtains the service and opens one session
    MaxStartups,    \* factory.create() runs
    Configs         \* values of the entry's fingerprinted settings

ASSUME RegistryAssumption ==
    /\ MaxStartups \in Nat
    /\ Configs # {}

VARIABLES
    config,         \* the settings now
    disposed,
    \* the BackendEntry
    entryState,
    startup,        \* number of entry.startup, 0 when undefined
    service,        \* number of entry.service, 0 when undefined
    fingerprint,    \* configFingerprint
    staleConfig,
    activeSessionCount,
    \* each startup and its backend
    created,        \* startups begun
    backend,        \* "none", "creating", "up", "disposing" or "down"
    builtWith,      \* settings the startup began with
    swapping,       \* backends whose disposal a recomposeEntry awaits
    \* each client
    phase,          \* "idle", "waiting", "holding", "opening", "open", "closed", "failed"
    using,          \* the startup awaited, then the backend used
    finalized,      \* SessionRecord.finalized
    closing         \* clients whose session.close() has not returned

entryVars == <<entryState, startup, service, fingerprint, staleConfig>>
backendVars == <<created, backend, builtWith, swapping>>
clientVars == <<phase, using>>
sessionVars == <<activeSessionCount, finalized, closing>>
vars == <<config, disposed, entryVars, backendVars, clientVars, sessionVars>>

-----------------------------------------------------------------------------

Startups == 1..MaxStartups

TypeOK ==
    /\ config \in Configs
    /\ disposed \in BOOLEAN
    /\ entryState \in {"idle", "starting", "running", "failed", "disposed"}
    /\ startup \in 0..MaxStartups
    /\ service \in 0..MaxStartups
    /\ fingerprint \in Configs
    /\ staleConfig \in BOOLEAN
    /\ activeSessionCount \in Nat
    /\ created \in 0..MaxStartups
    /\ backend \in [Startups -> {"none", "creating", "up", "disposing", "down"}]
    /\ builtWith \in [Startups -> Configs]
    /\ swapping \subseteq Startups
    /\ phase \in [Clients -> {"idle", "waiting", "holding", "opening", "open", "closed", "failed"}]
    /\ using \in [Clients -> 0..MaxStartups]
    /\ finalized \subseteq Clients
    /\ closing \subseteq Clients

Init ==
    /\ config \in Configs
    /\ disposed = FALSE
    /\ entryState = "idle"
    /\ startup = 0
    /\ service = 0
    /\ fingerprint = config
    /\ staleConfig = FALSE
    /\ activeSessionCount = 0
    /\ created = 0
    /\ backend = [n \in Startups |-> "none"]
    /\ builtWith = [n \in Startups |-> config]
    /\ swapping = {}
    /\ phase = [c \in Clients |-> "idle"]
    /\ using = [c \in Clients |-> 0]
    /\ finalized = {}
    /\ closing = {}

-----------------------------------------------------------------------------
(* Disposing and recomposing the entry *)

\* disposeEntry() up to its await.
DisposeEntry ==
    /\ service' = 0
    /\ startup' = 0
    /\ backend' = IF service = 0 THEN backend ELSE [backend EXCEPT ![service] = "disposing"]

\* recomposeEntry().  Without a backend to dispose it runs through; else the
\* rest of it, EndRecompose, follows the disposal.  The fingerprint it ends
\* with is left to the caller.
EndRecompose ==
    /\ entryState' = "idle"
    /\ staleConfig' = FALSE

RecomposeEntry ==
    /\ DisposeEntry
    /\ \/ /\ service = 0
          /\ EndRecompose
          /\ UNCHANGED swapping
       \/ /\ service # 0
          /\ swapping' = swapping \cup {service}
          /\ entryState' = IF entryState = "failed" THEN entryState ELSE "disposed"
          /\ UNCHANGED staleConfig

\* Mutant of BackendDisposed: a superseded startup never rejects.
DisposedSilently(n) ==
    /\ backend[n] = "disposing"
    /\ backend' = [backend EXCEPT ![n] = "down"]
    /\ \/ /\ n \in swapping
          /\ swapping' = swapping \ {n}
          /\ EndRecompose
          /\ fingerprint' = config
       \/ /\ n \notin swapping
          /\ UNCHANGED <<swapping, entryState, staleConfig, fingerprint>>
    /\ UNCHANGED <<config, disposed, startup, service, created, builtWith, clientVars, sessionVars>>

\* disposeService() settled, or DISPOSE_TIMEOUT_MS ran out: a superseded
\* startup rejects, and a recompose goes on whatever the entry became.
BackendDisposed(n) ==
    /\ backend[n] = "disposing"
    /\ backend' = [backend EXCEPT ![n] = "down"]
    /\ phase' = [c \in Clients |-> IF phase[c] = "waiting" /\ using[c] = n THEN "failed" ELSE phase[c]]
    /\ \/ /\ n \in swapping
          /\ swapping' = swapping \ {n}
          /\ EndRecompose
          /\ fingerprint' = config
       \/ /\ n \notin swapping
          /\ UNCHANGED <<swapping, entryState, staleConfig, fingerprint>>
    /\ UNCHANGED <<config, disposed, startup, service, created, builtWith, using, sessionVars>>

\* handleConfigurationChanged(), for this entry.
ConfigurationChanged ==
    /\ ~disposed
    /\ config' \in Configs \ {config}
    /\ \/ /\ service = 0 /\ startup = 0
          /\ fingerprint' = config'
          /\ UNCHANGED <<entryState, startup, service, staleConfig, backend, swapping>>
       \/ /\ service # 0 \/ startup # 0
          /\ config' = fingerprint
          /\ UNCHANGED <<entryVars, backend, swapping>>
       \/ /\ service # 0 \/ startup # 0
          /\ config' # fingerprint
          /\ fingerprint' = config'
          /\ \/ /\ activeSessionCount = 0
                /\ RecomposeEntry
             \/ /\ activeSessionCount # 0
                /\ staleConfig' = TRUE
                /\ UNCHANGED <<entryState, startup, service, backend, swapping>>
    /\ UNCHANGED <<disposed, created, builtWith, clientVars, sessionVars>>

\* dispose() of the registry.
Dispose ==
    /\ ~disposed
    /\ disposed' = TRUE
    /\ DisposeEntry
    /\ entryState' = IF entryState = "failed" THEN entryState ELSE "disposed"
    /\ UNCHANGED <<config, fingerprint, staleConfig, created, builtWith, swapping, clientVars,
                   sessionVars>>

-----------------------------------------------------------------------------
(* service(): single-flight startup *)

Move(c, to, n) ==
    /\ phase' = [phase EXCEPT ![c] = to]
    /\ using' = [using EXCEPT ![c] = n]

\* The running backend, the startup in flight, or a new one; a caller that was
\* refused may try again.
GetService(c) ==
    /\ phase[c] \in {"idle", "failed"}
    /\ ~disposed
    /\ \/ /\ service # 0
          /\ Move(c, "holding", service)
          /\ UNCHANGED <<startup, created, backend, builtWith, entryState>>
       \/ /\ service = 0 /\ startup # 0
          /\ Move(c, "waiting", startup)
          /\ UNCHANGED <<startup, created, backend, builtWith, entryState>>
       \/ /\ service = 0 /\ startup = 0
          /\ created < MaxStartups
          /\ created' = created + 1
          /\ startup' = created'
          /\ backend' = [backend EXCEPT ![created'] = "creating"]
          /\ builtWith' = [builtWith EXCEPT ![created'] = config]
          /\ entryState' = "starting"
          /\ Move(c, "waiting", created')
    /\ UNCHANGED <<config, disposed, service, fingerprint, staleConfig, swapping, sessionVars>>

\* assertNotDisposed
GetServiceRefused(c) ==
    /\ phase[c] = "idle"
    /\ disposed
    /\ Move(c, "failed", 0)
    /\ UNCHANGED <<config, disposed, entryVars, backendVars, sessionVars>>

\* Mutants of Created: a startup publishes its backend without asking whether it
\* is still the current one, or a superseded one still answers its callers.
CreatedUnchecked(n) ==
    /\ backend[n] = "creating"
    /\ service' = n
    /\ entryState' = "running"
    /\ backend' = [backend EXCEPT ![n] = "up"]
    /\ phase' = [c \in Clients |-> IF phase[c] = "waiting" /\ using[c] = n
                                     THEN "holding" ELSE phase[c]]
    /\ UNCHANGED <<config, disposed, startup, fingerprint, staleConfig, created, builtWith, swapping,
                   using, sessionVars>>

CreatedAnswersAll(n) ==
    /\ backend[n] = "creating"
    /\ phase' = [c \in Clients |-> IF phase[c] = "waiting" /\ using[c] = n
                                     THEN "holding" ELSE phase[c]]
    /\ \/ /\ ~disposed /\ startup = n
          /\ service' = n
          /\ entryState' = "running"
          /\ backend' = [backend EXCEPT ![n] = "up"]
       \/ /\ disposed \/ startup # n
          /\ backend' = [backend EXCEPT ![n] = "disposing"]
          /\ UNCHANGED <<service, entryState>>
    /\ UNCHANGED <<config, disposed, startup, fingerprint, staleConfig, created, builtWith, swapping,
                   using, sessionVars>>

\* factory.create() resolved.  The current startup publishes its backend; a
\* superseded one disposes of it.
Created(n) ==
    /\ backend[n] = "creating"
    /\ \/ /\ ~disposed /\ startup = n
          /\ service' = n
          /\ entryState' = "running"
          /\ backend' = [backend EXCEPT ![n] = "up"]
          /\ phase' = [c \in Clients |-> IF phase[c] = "waiting" /\ using[c] = n
                                           THEN "holding" ELSE phase[c]]
       \/ /\ disposed \/ startup # n
          /\ backend' = [backend EXCEPT ![n] = "disposing"]
          /\ UNCHANGED <<service, entryState, phase>>
    /\ UNCHANGED <<config, disposed, startup, fingerprint, staleConfig, created, builtWith, swapping,
                   using, sessionVars>>

\* factory.create() rejected: only the current startup may touch the entry.
CreateFailed(n) ==
    /\ backend[n] = "creating"
    /\ backend' = [backend EXCEPT ![n] = "down"]
    /\ phase' = [c \in Clients |-> IF phase[c] = "waiting" /\ using[c] = n THEN "failed" ELSE phase[c]]
    /\ \/ /\ startup = n
          /\ startup' = 0
          /\ entryState' = "failed"
       \/ /\ startup # n
          /\ UNCHANGED <<startup, entryState>>
    /\ UNCHANGED <<config, disposed, service, fingerprint, staleConfig, created, builtWith, swapping,
                   using, sessionVars>>

-----------------------------------------------------------------------------
(* Sessions through the registry view *)

\* view.openSession(): a backend that was retired refuses (canOpen), unless it does
\* not know yet, or still drains although its disposal was given up.
BeginOpen(c) ==
    /\ phase[c] = "holding"
    /\ \/ phase' = [phase EXCEPT ![c] = "opening"]
       \/ /\ backend[using[c]] # "up"
          /\ phase' = [phase EXCEPT ![c] = "failed"]
    /\ UNCHANGED <<config, disposed, entryVars, backendVars, using, sessionVars>>

\* registerSession(): the entry counts the session, whatever backend it has now.
Opened(c) ==
    /\ phase[c] = "opening"
    /\ phase' = [phase EXCEPT ![c] = "open"]
    /\ activeSessionCount' = activeSessionCount + 1
    /\ UNCHANGED <<config, disposed, entryVars, backendVars, using, finalized, closing>>

OpenFailed(c) ==
    /\ phase[c] = "opening"
    /\ phase' = [phase EXCEPT ![c] = "failed"]
    /\ UNCHANGED <<config, disposed, entryVars, backendVars, using, sessionVars>>

\* The last session out swaps a stale backend.
SwapIfStale ==
    \/ /\ activeSessionCount' = 0 /\ staleConfig /\ ~disposed
       /\ RecomposeEntry
       /\ fingerprint' = IF service = 0 THEN config ELSE fingerprint
    \/ /\ activeSessionCount' # 0 \/ ~staleConfig \/ disposed
       /\ UNCHANGED <<entryVars, backend, swapping>>

\* Mutants of Finalize: a record is finalized as often as it is asked to, with
\* and without the clamp at zero, and the last session out swaps nothing.
FinalizeAgain(c) ==
    /\ finalized' = finalized \cup {c}
    /\ activeSessionCount' = IF activeSessionCount > 0 THEN activeSessionCount - 1 ELSE 0
    /\ SwapIfStale

FinalizeUnclamped(c) ==
    /\ finalized' = finalized \cup {c}
    /\ activeSessionCount' = activeSessionCount - 1
    /\ SwapIfStale

FinalizeWithoutSwap(c) ==
    /\ finalized' = finalized \cup {c}
    /\ activeSessionCount' = IF c \in finalized THEN activeSessionCount ELSE activeSessionCount - 1
    /\ UNCHANGED <<entryVars, backend, swapping>>

\* finalize(): once per record.
Finalize(c) ==
    \/ /\ c \in finalized
       /\ UNCHANGED <<finalized, activeSessionCount, entryVars, backend, swapping>>
    \/ /\ c \notin finalized
       /\ finalized' = finalized \cup {c}
       /\ activeSessionCount' = IF activeSessionCount > 0 THEN activeSessionCount - 1 ELSE 0
       /\ SwapIfStale

\* session.close() called; closing is what the backend reports before it returns.
CloseSession(c) ==
    /\ phase[c] \in {"open", "closed"}
    /\ c \notin closing
    /\ closing' = closing \cup {c}
    /\ UNCHANGED <<config, disposed, entryVars, backendVars, clientVars, activeSessionCount, finalized>>

\* onDidChangeState: the session was closed or lost.
SessionEnded(c) ==
    /\ phase[c] = "open"
    /\ phase' = [phase EXCEPT ![c] = "closed"]
    /\ Finalize(c)
    /\ UNCHANGED <<config, disposed, created, builtWith, using, closing>>

\* The wrapped close() returned, or threw without the session having closed.
CloseReturned(c) ==
    /\ c \in closing
    /\ closing' = closing \ {c}
    /\ Finalize(c)
    /\ UNCHANGED <<config, disposed, created, builtWith, clientVars>>

-----------------------------------------------------------------------------

Next ==
    \/ ConfigurationChanged
    \/ Dispose
    \/ \E n \in Startups : Created(n) \/ CreateFailed(n) \/ BackendDisposed(n)
    \/ \E c \in Clients :
          \/ GetService(c)
          \/ GetServiceRefused(c)
          \/ BeginOpen(c)
          \/ Opened(c)
          \/ OpenFailed(c)
          \/ CloseSession(c)
          \/ SessionEnded(c)
          \/ CloseReturned(c)

Spec == Init /\ [][Next]_vars

\* factory.create() settles (the STS2 factory is bounded by initializeMs), and
\* so does a disposal (bounded by DISPOSE_TIMEOUT_MS).
Bounded ==
    \A n \in Startups :
        /\ WF_vars(Created(n) \/ CreateFailed(n))
        /\ WF_vars(BackendDisposed(n))

FairSpec == Spec /\ Bounded

-----------------------------------------------------------------------------
(* Properties *)

Registered == {c \in Clients : phase[c] \in {"open", "closed"}}

\* A backend that runs is the entry's: a startup superseded by a configuration
\* change or by disposal never leaves its backend running beside it ("never let
\* its late result resurrect a disposed or stale entry").
OneLiveBackend == \A n \in Startups : backend[n] = "up" => n = service /\ ~disposed

\* A registered session is counted once until it is finalized, by whichever of
\* its state event and the return of close() comes first.
CountIsExact == activeSessionCount = Cardinality(Registered \ finalized)

\* Its settings are no longer those of the registry.
Outdated(n) == n # 0 /\ builtWith[n] # config

\* "Swapped when count reaches 0": with no session left, the entry has neither a
\* backend nor a startup of old settings.  The premise excludes a change of the
\* settings that overtakes an older swap with its successor in use: when that swap
\* ends, recomposeEntry clears a mark that is not its own.
StaleSwapsAtZero ==
    [](Outdated(startup) => swapping = {})
        => [](activeSessionCount = 0 => ~Outdated(startup) /\ ~Outdated(service))

\* service() resolves to the entry's running backend, never to one retired
\* while the caller awaited its startup.
ServiceIsCurrent ==
    [][\A c \in Clients :
          phase[c] # "holding" /\ phase'[c] = "holding" =>
              using'[c] = service' /\ backend'[service'] = "up"]_vars

\* Every caller of service() gets an answer, also one whose startup was superseded.
ServiceSettles == \A c \in Clients : phase[c] = "waiting" ~> phase[c] # "waiting"
=============================================================================
