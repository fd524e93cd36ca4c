-------------------------- MODULE SqlDataPlane_proofs --------------------------
(***************************************************************************)
(* Proofs about the provider registry, for any set of callers, finite or   *)
(* not, any number of startups and any settings.                           *)
(***************************************************************************)
EXTENDS SqlDataPlane, FiniteSetTheorems, TLAPS

-----------------------------------------------------------------------------
(* The inductive invariant *)

BackendStates == {"none", "creating", "up", "disposing", "down"}

\* A startup in flight has no backend yet, and a running backend is its own.
StartupIsCurrent ==
    /\ service # 0 => startup = service /\ backend[service] = "up"
    /\ startup # 0 /\ service = 0 => backend[startup] = "creating"
    /\ disposed => service = 0 /\ startup = 0

\* Only a session that was registered is closed or finalized.
RecordsAreRegistered == finalized \subseteq Registered /\ closing \subseteq Registered

\* The mark outlives the last session only while a recompose that will clear it
\* awaits a disposal.
MarkedIsSwapped == staleConfig /\ activeSessionCount = 0 /\ ~disposed => swapping # {}

IInv ==
    /\ TypeOK
    /\ StartupIsCurrent
    /\ OneLiveBackend
    /\ RecordsAreRegistered
    /\ IsFiniteSet(Registered \ finalized)
    /\ CountIsExact
    /\ MarkedIsSwapped

-----------------------------------------------------------------------------
(* Lemmas about the entry *)

\* disposeEntry() leaves no backend running.
LEMMA DisposeEntryLemma ==
    ASSUME IInv, DisposeEntry
    PROVE  /\ service' = 0 /\ startup' = 0
           /\ backend' \in [Startups -> BackendStates]
           /\ \A n \in Startups : backend'[n] # "up"
  <1>1. service' = 0 /\ startup' = 0
    BY DEF DisposeEntry
  <1>2. backend \in [Startups -> BackendStates] /\ service \in 0..MaxStartups
    BY DEF IInv, TypeOK, BackendStates
  <1>3. CASE service = 0
    <2>1. backend' = backend
      BY <1>3 DEF DisposeEntry
    <2>2. \A n \in Startups : n # 0
      BY RegistryAssumption DEF Startups
    <2> QED
      BY <1>1, <1>2, <1>3, <2>1, <2>2 DEF IInv, OneLiveBackend
  <1>4. CASE service # 0
    <2>1. backend' = [backend EXCEPT ![service] = "disposing"]
      BY <1>4 DEF DisposeEntry
    <2>2. service \in Startups
      BY <1>2, <1>4, RegistryAssumption DEF Startups
    <2>3. backend' \in [Startups -> BackendStates]
      BY <1>2, <2>1, <2>2 DEF BackendStates
    <2>4. \A n \in Startups : backend'[n] # "up"
      BY <1>2, <2>1, <2>2 DEF IInv, OneLiveBackend
    <2> QED
      BY <1>1, <2>3, <2>4
  <1> QED
    BY <1>3, <1>4

\* recomposeEntry() clears the mark, or a disposal that will clear it is under way.
LEMMA RecomposeLemma ==
    ASSUME IInv, RecomposeEntry
    PROVE  /\ service' = 0 /\ startup' = 0
           /\ backend' \in [Startups -> BackendStates]
           /\ \A n \in Startups : backend'[n] # "up"
           /\ entryState' \in {"idle", "starting", "running", "failed", "disposed"}
           /\ staleConfig' \in BOOLEAN
           /\ swapping' \subseteq Startups
           /\ staleConfig' => swapping' # {}
  <1>1. DisposeEntry
    BY DEF RecomposeEntry
  <1>2. CASE service = 0 /\ EndRecompose /\ swapping' = swapping
    BY <1>1, <1>2, DisposeEntryLemma DEF EndRecompose, IInv, TypeOK
  <1>3. CASE /\ service # 0
             /\ swapping' = swapping \cup {service}
             /\ entryState' = IF entryState = "failed" THEN entryState ELSE "disposed"
             /\ staleConfig' = staleConfig
    <2>1. service \in Startups
      BY <1>3, RegistryAssumption DEF IInv, TypeOK, Startups
    <2>2. entryState' \in {"idle", "starting", "running", "failed", "disposed"}
      BY <1>3
    <2>3. swapping' \subseteq Startups /\ swapping' # {}
      BY <1>3, <2>1 DEF IInv, TypeOK
    <2>4. staleConfig' \in BOOLEAN
      BY <1>3 DEF IInv, TypeOK
    <2> QED
      BY <1>1, <2>2, <2>3, <2>4, DisposeEntryLemma
  <1> QED
    BY <1>2, <1>3 DEF RecomposeEntry

\* What an entry without a running backend and without a startup satisfies.
LEMMA EmptyEntry ==
    ASSUME service' = 0, startup' = 0, \A n \in Startups : backend'[n] # "up"
    PROVE  StartupIsCurrent' /\ OneLiveBackend'
  BY DEF StartupIsCurrent, OneLiveBackend, Startups

\* Steps that leave the entry, its backends and disposal alone.
LEMMA EntryFrame ==
    ASSUME IInv, UNCHANGED <<service, startup, backend, disposed>>
    PROVE  StartupIsCurrent' /\ OneLiveBackend'
  BY DEF IInv, StartupIsCurrent, OneLiveBackend

-----------------------------------------------------------------------------
(* Lemmas about the sessions *)

\* Steps that register and finalize nothing keep the books.
LEMMA SessionFrame ==
    ASSUME IInv, UNCHANGED <<activeSessionCount, finalized, closing>>,
           \A c \in Clients : phase[c] \in {"open", "closed"} <=> phase'[c] \in {"open", "closed"}
    PROVE  RecordsAreRegistered' /\ IsFiniteSet(Registered \ finalized)' /\ CountIsExact'
  <1>1. Registered' = Registered
    BY DEF Registered
  <1> QED
    BY <1>1 DEF IInv, RecordsAreRegistered, CountIsExact

\* Moving one client along its phases.
LEMMA PhaseType ==
    ASSUME TypeOK, NEW c \in Clients,
           NEW to \in {"idle", "waiting", "holding", "opening", "open", "closed", "failed"},
           phase' = [phase EXCEPT ![c] = to]
    PROVE  /\ phase' \in [Clients -> {"idle", "waiting", "holding", "opening", "open", "closed", "failed"}]
           /\ phase'[c] = to
           /\ \A d \in Clients \ {c} : phase'[d] = phase[d]
  BY DEF TypeOK

\* finalize(): the count follows the records, and the last one out swaps a
\* stale entry.
LEMMA FinalizeLemma ==
    ASSUME IInv, NEW c \in Registered, Finalize(c), Registered' = Registered,
           UNCHANGED <<config, disposed>>
    PROVE  /\ finalized' \subseteq Registered'
           /\ IsFiniteSet(Registered \ finalized)'
           /\ CountIsExact'
           /\ activeSessionCount' \in Nat
           /\ MarkedIsSwapped'
           /\ StartupIsCurrent' /\ OneLiveBackend'
           /\ backend' \in [Startups -> BackendStates]
           /\ startup' \in 0..MaxStartups /\ service' \in 0..MaxStartups
           /\ entryState' \in {"idle", "starting", "running", "failed", "disposed"}
           /\ fingerprint' \in Configs
           /\ staleConfig' \in BOOLEAN
           /\ swapping' \subseteq Startups
  <1>1. CASE c \in finalized /\ UNCHANGED <<finalized, activeSessionCount, entryVars, backend, swapping>>
    <2>1. MarkedIsSwapped'
      BY <1>1 DEF IInv, MarkedIsSwapped, entryVars
    <2>2. finalized' \subseteq Registered' /\ IsFiniteSet(Registered \ finalized)' /\ CountIsExact'
      BY <1>1 DEF IInv, RecordsAreRegistered, CountIsExact
    <2>3. StartupIsCurrent' /\ OneLiveBackend'
      BY <1>1, EntryFrame DEF entryVars
    <2> QED
      BY <1>1, <2>1, <2>2, <2>3 DEF IInv, TypeOK, entryVars, BackendStates
  <1>2. CASE /\ c \notin finalized
             /\ finalized' = finalized \cup {c}
             /\ activeSessionCount' = IF activeSessionCount > 0 THEN activeSessionCount - 1 ELSE 0
             /\ SwapIfStale
    <2>1. (Registered \ finalized)' = (Registered \ finalized) \ {c} /\ c \in Registered \ finalized
      BY <1>2
    <2>2. IsFiniteSet(Registered \ finalized)'
      BY <2>1, FS_RemoveElement DEF IInv
    <2>3. Cardinality(Registered \ finalized)' = Cardinality(Registered \ finalized) - 1
      BY <2>1, FS_RemoveElement DEF IInv
    <2>4. Cardinality(Registered \ finalized) \in Nat /\ Cardinality(Registered \ finalized)' \in Nat
      BY <2>2, FS_CardinalityType DEF IInv
    <2>5. CountIsExact' /\ activeSessionCount' \in Nat
      BY <1>2, <2>3, <2>4 DEF IInv, CountIsExact
    <2>6. finalized' \subseteq Registered'
      BY <1>2 DEF IInv, RecordsAreRegistered
    <2>7. CASE /\ activeSessionCount' = 0 /\ staleConfig /\ ~disposed
               /\ RecomposeEntry
               /\ fingerprint' = IF service = 0 THEN config ELSE fingerprint
      <3>1. fingerprint' \in Configs
        BY <2>7 DEF IInv, TypeOK
      <3>2. MarkedIsSwapped'
        BY <2>7, RecomposeLemma DEF MarkedIsSwapped
      <3>3. StartupIsCurrent' /\ OneLiveBackend'
        BY <2>7, RecomposeLemma, EmptyEntry
      <3>4. 0 \in 0..MaxStartups
        BY RegistryAssumption
      <3> QED
        BY <2>2, <2>5, <2>6, <2>7, <3>1, <3>2, <3>3, <3>4, RecomposeLemma
    <2>8. CASE (activeSessionCount' # 0 \/ ~staleConfig \/ disposed) /\ UNCHANGED <<entryVars, backend, swapping>>
      <3>1. MarkedIsSwapped'
        BY <2>8 DEF MarkedIsSwapped, entryVars
      <3>2. StartupIsCurrent' /\ OneLiveBackend'
        BY <2>8, EntryFrame DEF entryVars
      <3> QED
        BY <2>2, <2>5, <2>6, <2>8, <3>1, <3>2 DEF IInv, TypeOK, entryVars, BackendStates
    <2> QED
      BY <1>2, <2>7, <2>8 DEF SwapIfStale
  <1> QED
    BY <1>1, <1>2 DEF Finalize

-----------------------------------------------------------------------------
(* One lemma per group of actions *)

PhaseNames == {"idle", "waiting", "holding", "opening", "open", "closed", "failed"}

LEMMA InitIInv == Init => IInv
  <1> SUFFICES ASSUME Init PROVE IInv
    OBVIOUS
  <1>1. TypeOK
    <2>1. 0 \in 0..MaxStartups /\ 0 \in Nat
      BY RegistryAssumption
    <2>2. backend \in [Startups -> {"none", "creating", "up", "disposing", "down"}]
      BY DEF Init
    <2>3. builtWith \in [Startups -> Configs]
      BY DEF Init
    <2>4. phase \in [Clients -> {"idle", "waiting", "holding", "opening", "open", "closed", "failed"}]
      BY DEF Init
    <2>5. using \in [Clients -> 0..MaxStartups]
      BY <2>1 DEF Init
    <2> QED
      BY <2>1, <2>2, <2>3, <2>4, <2>5 DEF Init, TypeOK
  <1>2. StartupIsCurrent /\ OneLiveBackend
    BY DEF Init, StartupIsCurrent, OneLiveBackend
  <1>3. Registered = {}
    BY DEF Init, Registered
  <1>4. RecordsAreRegistered /\ MarkedIsSwapped
    BY DEF Init, RecordsAreRegistered, MarkedIsSwapped
  <1>5. Registered \ finalized = {}
    BY <1>3
  <1>6. IsFiniteSet(Registered \ finalized) /\ CountIsExact
    BY <1>5, FS_EmptySet DEF Init, CountIsExact
  <1> QED
    BY <1>1, <1>2, <1>4, <1>6 DEF IInv

\* A configuration change swaps the entry, marks it, or only notes its fingerprint.
LEMMA ConfigurationChangedStep ==
    ASSUME IInv, ConfigurationChanged
    PROVE  IInv'
  <1> USE DEF ConfigurationChanged
  <1>1. RecordsAreRegistered' /\ IsFiniteSet(Registered \ finalized)' /\ CountIsExact'
    BY SessionFrame DEF clientVars, sessionVars
  <1>2. /\ config' \in Configs
        /\ UNCHANGED <<disposed, created, builtWith, phase, using, activeSessionCount, finalized, closing>>
    BY DEF clientVars, sessionVars
  <1>3. CASE UNCHANGED <<startup, service, staleConfig, entryState, backend, swapping>> /\ fingerprint' \in Configs
    <2>1. TypeOK'
      BY <1>2, <1>3 DEF IInv, TypeOK
    <2>2. StartupIsCurrent' /\ OneLiveBackend'
      BY <1>2, <1>3, EntryFrame
    <2>3. MarkedIsSwapped'
      BY <1>2, <1>3 DEF IInv, MarkedIsSwapped
    <2> QED
      BY <1>1, <2>1, <2>2, <2>3 DEF IInv
  <1>4. CASE RecomposeEntry /\ fingerprint' = config'
    <2>1. 0 \in 0..MaxStartups
      BY RegistryAssumption
    <2>2. TypeOK'
      BY <1>2, <1>4, <2>1, RecomposeLemma DEF IInv, TypeOK, BackendStates
    <2>3. StartupIsCurrent' /\ OneLiveBackend'
      BY <1>4, RecomposeLemma, EmptyEntry
    <2>4. MarkedIsSwapped'
      BY <1>4, RecomposeLemma DEF MarkedIsSwapped
    <2> QED
      BY <1>1, <2>2, <2>3, <2>4 DEF IInv
  <1>5. CASE /\ activeSessionCount # 0
             /\ staleConfig' = TRUE
             /\ UNCHANGED <<entryState, startup, service, backend, swapping>>
             /\ fingerprint' = config'
    <2>1. TypeOK'
      BY <1>2, <1>5 DEF IInv, TypeOK
    <2>2. StartupIsCurrent' /\ OneLiveBackend'
      BY <1>2, <1>5, EntryFrame
    <2>3. MarkedIsSwapped'
      BY <1>2, <1>5 DEF MarkedIsSwapped
    <2> QED
      BY <1>1, <2>1, <2>2, <2>3 DEF IInv
  <1>6. fingerprint \in Configs
    BY DEF IInv, TypeOK
  <1> QED
    BY <1>2, <1>3, <1>4, <1>5, <1>6 DEF entryVars

\* Disposal of the registry empties the entry.
LEMMA DisposeStep ==
    ASSUME IInv, Dispose
    PROVE  IInv'
  <1>1. RecordsAreRegistered' /\ IsFiniteSet(Registered \ finalized)' /\ CountIsExact'
    BY SessionFrame DEF Dispose, clientVars, sessionVars
  <1>2. StartupIsCurrent' /\ OneLiveBackend'
    BY DisposeEntryLemma, EmptyEntry DEF Dispose
  <1>3. MarkedIsSwapped'
    BY DEF Dispose, MarkedIsSwapped
  <1>4. 0 \in 0..MaxStartups
    BY RegistryAssumption
  <1>5. entryState' \in {"idle", "starting", "running", "failed", "disposed"}
    BY DEF Dispose
  <1>6. TypeOK'
    BY <1>4, <1>5, DisposeEntryLemma DEF IInv, TypeOK, Dispose, clientVars, sessionVars, BackendStates
  <1> QED
    BY <1>1, <1>2, <1>3, <1>6 DEF IInv

\* Phases that a settled startup leaves behind.
LEMMA SettledPhases ==
    ASSUME TypeOK, NEW n, NEW to \in {"holding", "failed"},
           phase' = [c \in Clients |-> IF phase[c] = "waiting" /\ using[c] = n THEN to ELSE phase[c]]
    PROVE  /\ phase' \in [Clients -> PhaseNames]
           /\ \A c \in Clients : phase[c] \in {"open", "closed"} <=> phase'[c] \in {"open", "closed"}
  BY DEF TypeOK, PhaseNames

\* The current startup publishes its backend; any other one disposes of it.
LEMMA CreatedStep ==
    ASSUME IInv, NEW n \in Startups, Created(n)
    PROVE  IInv'
  <1> USE DEF Created
  <1>1. /\ UNCHANGED <<config, disposed, startup, fingerprint, staleConfig, created, builtWith, swapping, using>>
        /\ UNCHANGED <<activeSessionCount, finalized, closing>>
    BY DEF sessionVars
  <1>2. backend \in [Startups -> BackendStates] /\ n # 0 /\ n \in 0..MaxStartups
    BY RegistryAssumption DEF IInv, TypeOK, BackendStates, Startups
  <1>3. MarkedIsSwapped'
    BY <1>1 DEF IInv, MarkedIsSwapped
  <1>4. service # n
    BY <1>2 DEF IInv, StartupIsCurrent
  <1>5. CASE /\ ~disposed /\ startup = n
             /\ service' = n
             /\ entryState' = "running"
             /\ backend' = [backend EXCEPT ![n] = "up"]
             /\ phase' = [c \in Clients |-> IF phase[c] = "waiting" /\ using[c] = n
                                              THEN "holding" ELSE phase[c]]
    <2>1. service = 0
      BY <1>4, <1>5 DEF IInv, StartupIsCurrent
    <2>2. \A m \in Startups : backend[m] # "up"
      BY <2>1, RegistryAssumption DEF IInv, OneLiveBackend, Startups
    <2>3. backend' \in [Startups -> BackendStates]
      BY <1>2, <1>5 DEF BackendStates
    <2>4. \A m \in Startups : backend'[m] = IF m = n THEN "up" ELSE backend[m]
      BY <1>2, <1>5
    <2>5. StartupIsCurrent'
      BY <1>1, <1>2, <1>5, <2>4 DEF StartupIsCurrent
    <2>6. OneLiveBackend'
      BY <1>1, <1>5, <2>2, <2>4 DEF OneLiveBackend
    <2>7. phase' \in [Clients -> PhaseNames]
      BY <1>5, SettledPhases DEF IInv
    <2>8. TypeOK'
      BY <1>1, <1>2, <1>5, <2>3, <2>7 DEF IInv, TypeOK, BackendStates, PhaseNames
    <2>9. RecordsAreRegistered' /\ IsFiniteSet(Registered \ finalized)' /\ CountIsExact'
      BY <1>1, <1>5, SettledPhases, SessionFrame DEF IInv
    <2> QED
      BY <1>3, <2>5, <2>6, <2>8, <2>9 DEF IInv
  <1>6. CASE /\ disposed \/ startup # n
             /\ backend' = [backend EXCEPT ![n] = "disposing"]
             /\ UNCHANGED <<service, entryState, phase>>
    <2>1. startup # n
      BY <1>2, <1>6 DEF IInv, StartupIsCurrent
    <2>2. backend' \in [Startups -> BackendStates]
      BY <1>2, <1>6 DEF BackendStates
    <2>3. \A m \in Startups : backend'[m] = IF m = n THEN "disposing" ELSE backend[m]
      BY <1>2, <1>6
    <2>4. service \in 0..MaxStartups /\ startup \in 0..MaxStartups
      BY DEF IInv, TypeOK
    <2>5. StartupIsCurrent'
      BY <1>1, <1>4, <1>6, <2>1, <2>3, <2>4, RegistryAssumption DEF IInv, StartupIsCurrent, Startups
    <2>6. OneLiveBackend'
      BY <1>1, <1>6, <2>3 DEF IInv, OneLiveBackend
    <2>7. TypeOK'
      BY <1>1, <1>6, <2>2 DEF IInv, TypeOK, BackendStates
    <2>8. RecordsAreRegistered' /\ IsFiniteSet(Registered \ finalized)' /\ CountIsExact'
      BY <1>1, <1>6, SessionFrame
    <2> QED
      BY <1>3, <2>5, <2>6, <2>7, <2>8 DEF IInv
  <1> QED
    BY <1>5, <1>6

\* A failed startup is cleared when it is the current one.
LEMMA CreateFailedStep ==
    ASSUME IInv, NEW n \in Startups, CreateFailed(n)
    PROVE  IInv'
  <1> USE DEF CreateFailed
  <1>1. /\ UNCHANGED <<config, disposed, service, fingerprint, staleConfig, created, builtWith, swapping, using>>
        /\ UNCHANGED <<activeSessionCount, finalized, closing>>
    BY DEF sessionVars
  <1>2. backend \in [Startups -> BackendStates] /\ service \in 0..MaxStartups /\ startup \in 0..MaxStartups
    BY DEF IInv, TypeOK, BackendStates
  <1>3. service # n /\ 0 \in 0..MaxStartups
    BY RegistryAssumption DEF IInv, StartupIsCurrent, Startups
  <1>4. backend' \in [Startups -> BackendStates]
    BY <1>2 DEF BackendStates
  <1>5. \A m \in Startups : backend'[m] = IF m = n THEN "down" ELSE backend[m]
    BY <1>2
  <1>6. phase' \in [Clients -> PhaseNames]
    BY SettledPhases DEF IInv
  <1>7. startup' \in 0..MaxStartups /\ entryState' \in {"idle", "starting", "running", "failed", "disposed"}
    BY <1>3 DEF IInv, TypeOK
  <1>8. TypeOK'
    BY <1>1, <1>4, <1>6, <1>7 DEF IInv, TypeOK, BackendStates, PhaseNames
  <1>9. StartupIsCurrent'
    <2>1. CASE startup = n /\ startup' = 0
      BY <1>1, <1>2, <1>3, <2>1, RegistryAssumption DEF IInv, StartupIsCurrent, Startups
    <2>2. CASE startup # n /\ startup' = startup
      BY <1>1, <1>2, <1>3, <1>5, <2>2, RegistryAssumption DEF IInv, StartupIsCurrent, Startups
    <2> QED
      BY <2>1, <2>2
  <1>10. OneLiveBackend'
    BY <1>1, <1>5 DEF IInv, OneLiveBackend
  <1>11. RecordsAreRegistered' /\ IsFiniteSet(Registered \ finalized)' /\ CountIsExact'
    BY <1>1, SettledPhases, SessionFrame DEF IInv
  <1>12. MarkedIsSwapped'
    BY <1>1 DEF IInv, MarkedIsSwapped
  <1> QED
    BY <1>8, <1>9, <1>10, <1>11, <1>12 DEF IInv

\* A disposal that ends completes its swap, which clears the mark.
LEMMA BackendDisposedStep ==
    ASSUME IInv, NEW n \in Startups, BackendDisposed(n)
    PROVE  IInv'
  <1> USE DEF BackendDisposed
  <1>1. /\ UNCHANGED <<config, disposed, startup, service, created, builtWith, using>>
        /\ UNCHANGED <<activeSessionCount, finalized, closing>>
    BY DEF sessionVars
  <1>2. backend \in [Startups -> BackendStates] /\ service \in 0..MaxStartups /\ startup \in 0..MaxStartups
    BY DEF IInv, TypeOK, BackendStates
  <1>3. backend' \in [Startups -> BackendStates]
    BY <1>2 DEF BackendStates
  <1>4. \A m \in Startups : backend'[m] = IF m = n THEN "down" ELSE backend[m]
    BY <1>2
  <1>5. phase' \in [Clients -> PhaseNames]
    BY SettledPhases DEF IInv
  <1>6. /\ swapping' \subseteq Startups
        /\ staleConfig' \in BOOLEAN
        /\ fingerprint' \in Configs
        /\ entryState' \in {"idle", "starting", "running", "failed", "disposed"}
    BY DEF IInv, TypeOK, EndRecompose
  <1>7. TypeOK'
    BY <1>1, <1>3, <1>5, <1>6 DEF IInv, TypeOK, BackendStates, PhaseNames
  <1>8. StartupIsCurrent'
    BY <1>1, <1>2, <1>4, RegistryAssumption DEF IInv, StartupIsCurrent, Startups
  <1>9. OneLiveBackend'
    BY <1>1, <1>4 DEF IInv, OneLiveBackend
  <1>10. RecordsAreRegistered' /\ IsFiniteSet(Registered \ finalized)' /\ CountIsExact'
    BY <1>1, SettledPhases, SessionFrame DEF IInv
  <1>11. MarkedIsSwapped'
    <2>1. staleConfig' = FALSE \/ UNCHANGED <<staleConfig, swapping>>
      BY DEF EndRecompose
    <2>2. CASE staleConfig' = FALSE
      BY <2>2 DEF MarkedIsSwapped
    <2>3. CASE UNCHANGED <<staleConfig, swapping>>
      BY <1>1, <2>3 DEF IInv, MarkedIsSwapped
    <2> QED
      BY <2>1, <2>2, <2>3
  <1> QED
    BY <1>7, <1>8, <1>9, <1>10, <1>11 DEF IInv

\* service() hands out the running backend, joins a startup or begins one.
LEMMA GetServiceStep ==
    ASSUME IInv, NEW c \in Clients, GetService(c) \/ GetServiceRefused(c)
    PROVE  IInv'
  <1>1. ASSUME NEW to \in {"waiting", "holding", "failed"}, NEW n \in 0..MaxStartups, Move(c, to, n),
               phase[c] \in {"idle", "failed"},
               UNCHANGED <<activeSessionCount, finalized, closing>>
        PROVE  /\ phase' \in [Clients -> PhaseNames]
               /\ using' \in [Clients -> 0..MaxStartups]
               /\ RecordsAreRegistered' /\ IsFiniteSet(Registered \ finalized)' /\ CountIsExact'
    <2>1. phase' \in [Clients -> PhaseNames] /\ using' \in [Clients -> 0..MaxStartups]
      BY <1>1 DEF Move, IInv, TypeOK, PhaseNames
    <2>2. phase'[c] = to /\ \A d \in Clients \ {c} : phase'[d] = phase[d]
      BY <1>1 DEF Move, IInv, TypeOK
    <2>3. \A d \in Clients : phase[d] \in {"open", "closed"} <=> phase'[d] \in {"open", "closed"}
      BY <1>1, <2>2
    <2> QED
      BY <1>1, <2>1, <2>3, SessionFrame
  <1>2. CASE /\ UNCHANGED <<config, disposed, entryVars, backendVars, sessionVars>>
             /\ phase[c] \in {"idle", "failed"}
             /\ \E to \in {"waiting", "holding", "failed"}, n \in 0..MaxStartups : Move(c, to, n)
    <2>1. UNCHANGED <<config, disposed, entryState, startup, service, fingerprint, staleConfig, created,
                      backend, builtWith, swapping, activeSessionCount, finalized, closing>>
      BY <1>2 DEF entryVars, backendVars, sessionVars
    <2>2. /\ phase' \in [Clients -> PhaseNames]
          /\ using' \in [Clients -> 0..MaxStartups]
          /\ RecordsAreRegistered' /\ IsFiniteSet(Registered \ finalized)' /\ CountIsExact'
      BY <1>1, <1>2, <2>1
    <2>3. TypeOK'
      BY <2>1, <2>2 DEF IInv, TypeOK, PhaseNames
    <2>4. StartupIsCurrent' /\ OneLiveBackend'
      BY <2>1, EntryFrame
    <2>5. MarkedIsSwapped'
      BY <2>1 DEF IInv, MarkedIsSwapped
    <2> QED
      BY <2>2, <2>3, <2>4, <2>5 DEF IInv
  <1>3. CASE /\ GetService(c)
             /\ service = 0 /\ startup = 0
             /\ created < MaxStartups
             /\ created' = created + 1
             /\ startup' = created'
             /\ backend' = [backend EXCEPT ![created'] = "creating"]
             /\ builtWith' = [builtWith EXCEPT ![created'] = config]
             /\ entryState' = "starting"
             /\ Move(c, "waiting", created')
    <2>1. /\ UNCHANGED <<config, disposed, service, fingerprint, staleConfig, swapping>>
          /\ UNCHANGED <<activeSessionCount, finalized, closing>>
          /\ phase[c] \in {"idle", "failed"}
          /\ ~disposed
      BY <1>3 DEF GetService, sessionVars
    <2>2. created' \in Startups /\ created' \in 0..MaxStartups /\ created' # 0
      BY <1>3, RegistryAssumption DEF IInv, TypeOK, Startups
    <2>3. backend' \in [Startups -> BackendStates]
      BY <1>3 DEF IInv, TypeOK, BackendStates
    <2>4. \A m \in Startups : backend'[m] = IF m = created' THEN "creating" ELSE backend[m]
      BY <1>3 DEF IInv, TypeOK
    <2>5. builtWith' \in [Startups -> Configs]
      BY <1>3 DEF IInv, TypeOK
    <2>6. /\ phase' \in [Clients -> PhaseNames]
          /\ using' \in [Clients -> 0..MaxStartups]
          /\ RecordsAreRegistered' /\ IsFiniteSet(Registered \ finalized)' /\ CountIsExact'
      BY <1>1, <1>3, <2>1, <2>2
    <2>7. TypeOK'
      BY <1>3, <2>1, <2>2, <2>3, <2>5, <2>6 DEF IInv, TypeOK, BackendStates, PhaseNames
    <2>8. StartupIsCurrent'
      BY <1>3, <2>1, <2>2, <2>4 DEF StartupIsCurrent
    <2>9. OneLiveBackend'
      BY <2>1, <2>4 DEF IInv, OneLiveBackend
    <2>10. MarkedIsSwapped'
      BY <2>1 DEF IInv, MarkedIsSwapped
    <2> QED
      BY <2>6, <2>7, <2>8, <2>9, <2>10 DEF IInv
  <1>4. service \in 0..MaxStartups /\ startup \in 0..MaxStartups /\ 0 \in 0..MaxStartups
    BY RegistryAssumption DEF IInv, TypeOK
  <1>5. GetServiceRefused(c) => IInv'
    BY <1>2, <1>4 DEF GetServiceRefused
  <1>6. ASSUME GetService(c) PROVE IInv'
    <2>1. CASE service # 0 /\ Move(c, "holding", service) /\ UNCHANGED <<startup, created, backend, builtWith, entryState>>
      BY <1>2, <1>4, <1>6, <2>1 DEF GetService, entryVars, backendVars
    <2>2. CASE service = 0 /\ startup # 0 /\ Move(c, "waiting", startup)
               /\ UNCHANGED <<startup, created, backend, builtWith, entryState>>
      BY <1>2, <1>4, <1>6, <2>2 DEF GetService, entryVars, backendVars
    <2> QED
      BY <1>3, <1>6, <2>1, <2>2 DEF GetService
  <1> QED
    BY <1>5, <1>6

\* Calls in flight: an open registers nothing before it succeeds.
LEMMA OpeningStep ==
    ASSUME IInv, NEW c \in Clients, BeginOpen(c) \/ OpenFailed(c)
    PROVE  IInv'
  <1>1. PICK to \in {"failed", "opening"} : phase' = [phase EXCEPT ![c] = to]
    BY DEF BeginOpen, OpenFailed
  <1>2. /\ UNCHANGED <<config, disposed, entryState, startup, service, fingerprint, staleConfig, created>>
        /\ UNCHANGED <<backend, builtWith, swapping, using, activeSessionCount, finalized, closing>>
        /\ phase[c] \in {"holding", "opening"}
    BY DEF BeginOpen, OpenFailed, entryVars, backendVars, sessionVars
  <1>3. phase' \in [Clients -> PhaseNames]
    BY <1>1 DEF IInv, TypeOK, PhaseNames
  <1>4. phase'[c] = to /\ \A d \in Clients \ {c} : phase'[d] = phase[d]
    BY <1>1 DEF IInv, TypeOK
  <1>5. \A d \in Clients : phase[d] \in {"open", "closed"} <=> phase'[d] \in {"open", "closed"}
    BY <1>2, <1>4
  <1>6. RecordsAreRegistered' /\ IsFiniteSet(Registered \ finalized)' /\ CountIsExact'
    BY <1>2, <1>5, SessionFrame
  <1>7. TypeOK'
    BY <1>2, <1>3 DEF IInv, TypeOK, PhaseNames
  <1>8. StartupIsCurrent' /\ OneLiveBackend'
    BY <1>2, EntryFrame
  <1>9. MarkedIsSwapped'
    BY <1>2 DEF IInv, MarkedIsSwapped
  <1> QED
    BY <1>6, <1>7, <1>8, <1>9 DEF IInv

\* registerSession() counts a session that was not registered before.
LEMMA OpenedStep ==
    ASSUME IInv, NEW c \in Clients, Opened(c)
    PROVE  IInv'
  <1>1. /\ UNCHANGED <<config, disposed, entryState, startup, service, fingerprint, staleConfig, created>>
        /\ UNCHANGED <<backend, builtWith, swapping, using, finalized, closing>>
        /\ phase[c] = "opening"
        /\ phase' = [phase EXCEPT ![c] = "open"]
        /\ activeSessionCount' = activeSessionCount + 1
    BY DEF Opened, entryVars, backendVars
  <1>2. phase' \in [Clients -> PhaseNames]
    BY <1>1 DEF IInv, TypeOK, PhaseNames
  <1>3. phase'[c] = "open" /\ \A d \in Clients \ {c} : phase'[d] = phase[d]
    BY <1>1 DEF IInv, TypeOK
  <1>4. Registered' = Registered \cup {c} /\ c \notin Registered
    BY <1>1, <1>3 DEF Registered
  <1>5. RecordsAreRegistered'
    BY <1>1, <1>4 DEF IInv, RecordsAreRegistered
  <1>6. (Registered \ finalized)' = (Registered \ finalized) \cup {c} /\ c \notin Registered \ finalized
    BY <1>1, <1>4 DEF IInv, RecordsAreRegistered
  <1>7. IsFiniteSet(Registered \ finalized)'
    BY <1>6, FS_AddElement DEF IInv
  <1>8. CountIsExact'
    BY <1>1, <1>6, FS_AddElement DEF IInv, CountIsExact
  <1>9. activeSessionCount \in Nat /\ activeSessionCount' \in Nat
    BY <1>1 DEF IInv, TypeOK
  <1>10. TypeOK'
    BY <1>1, <1>2, <1>9 DEF IInv, TypeOK, PhaseNames
  <1>11. StartupIsCurrent' /\ OneLiveBackend'
    BY <1>1, EntryFrame
  <1>12. MarkedIsSwapped'
    BY <1>1, <1>9 DEF MarkedIsSwapped
  <1> QED
    BY <1>5, <1>7, <1>8, <1>10, <1>11, <1>12 DEF IInv

\* close() called: nothing is counted yet.
LEMMA CloseSessionStep ==
    ASSUME IInv, NEW c \in Clients, CloseSession(c)
    PROVE  IInv'
  <1>1. /\ UNCHANGED <<config, disposed, entryState, startup, service, fingerprint, staleConfig, created>>
        /\ UNCHANGED <<backend, builtWith, swapping, phase, using, activeSessionCount, finalized>>
        /\ phase[c] \in {"open", "closed"}
        /\ closing' = closing \cup {c}
    BY DEF CloseSession, entryVars, backendVars, clientVars
  <1>2. Registered' = Registered /\ c \in Registered
    BY <1>1 DEF Registered
  <1>3. RecordsAreRegistered' /\ IsFiniteSet(Registered \ finalized)' /\ CountIsExact'
    BY <1>1, <1>2 DEF IInv, RecordsAreRegistered, CountIsExact
  <1>4. TypeOK'
    BY <1>1 DEF IInv, TypeOK
  <1>5. StartupIsCurrent' /\ OneLiveBackend'
    BY <1>1, EntryFrame
  <1>6. MarkedIsSwapped'
    BY <1>1 DEF IInv, MarkedIsSwapped
  <1> QED
    BY <1>3, <1>4, <1>5, <1>6 DEF IInv

\* A session ends by its state event or by the return of close(), in any order.
LEMMA SessionEndStep ==
    ASSUME IInv, NEW c \in Clients, SessionEnded(c) \/ CloseReturned(c)
    PROVE  IInv'
  <1>1. UNCHANGED <<config, disposed, created, builtWith, using>> /\ Finalize(c)
    BY DEF SessionEnded, CloseReturned, clientVars
  <1>2. /\ c \in Registered
        /\ Registered' = Registered
        /\ phase' \in [Clients -> PhaseNames]
        /\ closing' \subseteq closing
    <2>1. CASE SessionEnded(c)
      <3>1. phase[c] = "open" /\ phase' = [phase EXCEPT ![c] = "closed"] /\ closing' = closing
        BY <2>1 DEF SessionEnded
      <3>2. phase' \in [Clients -> PhaseNames]
        BY <3>1 DEF IInv, TypeOK, PhaseNames
      <3>3. phase'[c] = "closed" /\ \A d \in Clients \ {c} : phase'[d] = phase[d]
        BY <3>1 DEF IInv, TypeOK
      <3>4. Registered' = Registered /\ c \in Registered
        BY <3>1, <3>3 DEF Registered
      <3> QED
        BY <3>1, <3>2, <3>4
    <2>2. CASE CloseReturned(c)
      <3>1. c \in closing /\ closing' \subseteq closing /\ phase' = phase
        BY <2>2 DEF CloseReturned, clientVars
      <3>2. Registered' = Registered /\ c \in Registered
        BY <3>1 DEF Registered, IInv, RecordsAreRegistered
      <3> QED
        BY <3>1, <3>2 DEF IInv, TypeOK, PhaseNames
    <2> QED
      BY <2>1, <2>2
  <1>3. RecordsAreRegistered'
    BY <1>1, <1>2, FinalizeLemma DEF IInv, RecordsAreRegistered
  <1>4. finalized' \subseteq Clients /\ closing' \subseteq Clients
    BY <1>3 DEF RecordsAreRegistered, Registered
  <1>5. TypeOK'
    BY <1>1, <1>2, <1>4, FinalizeLemma DEF IInv, TypeOK, PhaseNames, BackendStates
  <1> QED
    BY <1>1, <1>2, <1>3, <1>5, FinalizeLemma DEF IInv

LEMMA StutteringStep == ASSUME IInv, UNCHANGED vars PROVE IInv'
  <1>1. /\ UNCHANGED <<config, disposed, entryState, startup, service, fingerprint, staleConfig, created>>
        /\ UNCHANGED <<backend, builtWith, swapping, phase, using, activeSessionCount, finalized, closing>>
    BY DEF vars, entryVars, backendVars, clientVars, sessionVars
  <1>2. TypeOK'
    BY <1>1 DEF IInv, TypeOK
  <1>3. RecordsAreRegistered' /\ IsFiniteSet(Registered \ finalized)' /\ CountIsExact'
    BY <1>1, SessionFrame
  <1>4. StartupIsCurrent' /\ OneLiveBackend'
    BY <1>1, EntryFrame
  <1>5. MarkedIsSwapped'
    BY <1>1 DEF IInv, MarkedIsSwapped
  <1> QED
    BY <1>2, <1>3, <1>4, <1>5 DEF IInv

LEMMA NextIInv == IInv /\ [Next]_vars => IInv'
  <1> SUFFICES ASSUME IInv, [Next]_vars PROVE IInv'
    OBVIOUS
  <1>1. CASE ConfigurationChanged
    BY <1>1, ConfigurationChangedStep
  <1>2. CASE Dispose
    BY <1>2, DisposeStep
  <1>3. ASSUME NEW n \in Startups, Created(n) \/ CreateFailed(n) \/ BackendDisposed(n) PROVE IInv'
    BY <1>3, CreatedStep, CreateFailedStep, BackendDisposedStep
  <1>4. ASSUME NEW c \in Clients,
               \/ GetService(c) \/ GetServiceRefused(c) \/ BeginOpen(c) \/ Opened(c)
               \/ OpenFailed(c) \/ CloseSession(c) \/ SessionEnded(c) \/ CloseReturned(c)
        PROVE  IInv'
    BY <1>4, GetServiceStep, OpeningStep, OpenedStep, CloseSessionStep, SessionEndStep
  <1>5. CASE UNCHANGED vars
    BY <1>5, StutteringStep
  <1> QED
    BY <1>1, <1>2, <1>3, <1>4, <1>5 DEF Next

-----------------------------------------------------------------------------
(* Old settings *)

\* The entry knows the settings there are, and a startup of other settings is marked.
OutdatedIsMarked == fingerprint = config /\ (Outdated(startup) => staleConfig)

\* No swap is under way that could clear the mark of an outdated startup.
NothingOvertaken == Outdated(startup) => swapping = {}

\* recomposeEntry() leaves no startup to be outdated.
LEMMA EmptyIsMarked ==
    ASSUME startup' = 0, fingerprint' = config'
    PROVE  OutdatedIsMarked'
  BY DEF OutdatedIsMarked, Outdated

\* Steps that leave the startup, its settings and the mark alone.
LEMMA MarkFrame ==
    ASSUME OutdatedIsMarked, UNCHANGED <<config, fingerprint, startup, builtWith, staleConfig>>
    PROVE  OutdatedIsMarked'
  BY DEF OutdatedIsMarked, Outdated

\* Only a swap that has been overtaken takes the mark from an outdated startup.
LEMMA NextIsMarked ==
    ASSUME IInv, OutdatedIsMarked, NothingOvertaken, [Next]_vars
    PROVE  OutdatedIsMarked'
  <1>1. ASSUME ConfigurationChanged PROVE OutdatedIsMarked'
    <2>1. config' # fingerprint
      BY <1>1 DEF ConfigurationChanged, OutdatedIsMarked
    <2>2. fingerprint' = config'
      BY <1>1, <2>1 DEF ConfigurationChanged
    <2>3. CASE service = 0 /\ startup = 0 /\ startup' = startup
      BY <2>2, <2>3, EmptyIsMarked
    <2>4. CASE RecomposeEntry
      BY <2>2, <2>4, RecomposeLemma, EmptyIsMarked
    <2>5. CASE staleConfig' = TRUE
      BY <2>2, <2>5 DEF OutdatedIsMarked
    <2> QED
      BY <1>1, <2>1, <2>3, <2>4, <2>5 DEF ConfigurationChanged
  <1>2. ASSUME Dispose PROVE OutdatedIsMarked'
    BY <1>2, EmptyIsMarked DEF Dispose, DisposeEntry, OutdatedIsMarked
  <1>3. ASSUME NEW n \in Startups, Created(n) PROVE OutdatedIsMarked'
    BY <1>3, MarkFrame DEF Created
  <1>4. ASSUME NEW n \in Startups, CreateFailed(n) PROVE OutdatedIsMarked'
    <2>1. UNCHANGED <<config, fingerprint, builtWith, staleConfig>> /\ (startup' = 0 \/ startup' = startup)
      BY <1>4 DEF CreateFailed
    <2> QED
      BY <2>1, EmptyIsMarked, MarkFrame DEF OutdatedIsMarked
  <1>5. ASSUME NEW n \in Startups, BackendDisposed(n) PROVE OutdatedIsMarked'
    <2>1. UNCHANGED <<config, startup, builtWith>>
      BY <1>5 DEF BackendDisposed
    <2>2. CASE n \in swapping /\ fingerprint' = config
      BY <2>1, <2>2 DEF NothingOvertaken, OutdatedIsMarked, Outdated
    <2>3. CASE UNCHANGED <<staleConfig, fingerprint>>
      BY <2>1, <2>3, MarkFrame
    <2> QED
      BY <1>5, <2>2, <2>3 DEF BackendDisposed
  <1>6. ASSUME NEW c \in Clients, GetService(c) PROVE OutdatedIsMarked'
    <2>1. UNCHANGED <<config, fingerprint, staleConfig>>
      BY <1>6 DEF GetService
    <2>2. CASE UNCHANGED <<startup, builtWith>>
      BY <2>1, <2>2, MarkFrame
    <2>3. CASE /\ created < MaxStartups
               /\ created' = created + 1
               /\ startup' = created'
               /\ builtWith' = [builtWith EXCEPT ![created'] = config]
      <3>1. created' \in Startups
        BY <2>3, RegistryAssumption DEF IInv, TypeOK, Startups
      <3>2. builtWith'[created'] = config
        BY <2>3, <3>1 DEF IInv, TypeOK
      <3> QED
        BY <2>1, <2>3, <3>2 DEF OutdatedIsMarked, Outdated
    <2> QED
      BY <1>6, <2>2, <2>3 DEF GetService
  <1>7. ASSUME NEW c \in Clients,
               GetServiceRefused(c) \/ BeginOpen(c) \/ Opened(c) \/ OpenFailed(c) \/ CloseSession(c)
        PROVE  OutdatedIsMarked'
    BY <1>7, MarkFrame DEF GetServiceRefused, BeginOpen, Opened, OpenFailed, CloseSession, entryVars, backendVars
  <1>8. ASSUME NEW c \in Clients, SessionEnded(c) \/ CloseReturned(c) PROVE OutdatedIsMarked'
    <2>1. UNCHANGED <<config, builtWith>> /\ Finalize(c)
      BY <1>8 DEF SessionEnded, CloseReturned
    <2>2. CASE UNCHANGED entryVars
      BY <2>1, <2>2, MarkFrame DEF entryVars
    <2>3. CASE RecomposeEntry /\ fingerprint' = IF service = 0 THEN config ELSE fingerprint
      BY <2>1, <2>3, RecomposeLemma, EmptyIsMarked DEF OutdatedIsMarked
    <2> QED
      BY <2>1, <2>2, <2>3 DEF Finalize, SwapIfStale
  <1>9. ASSUME UNCHANGED vars PROVE OutdatedIsMarked'
    BY <1>9, MarkFrame DEF vars, entryVars, backendVars
  <1> QED
    BY <1>1, <1>2, <1>3, <1>4, <1>5, <1>6, <1>7, <1>8, <1>9 DEF Next

-----------------------------------------------------------------------------
(* Theorems *)

\* The inductive invariant holds in every reachable state of the registry.
THEOREM Invariance == Spec => []IInv
  BY InitIInv, NextIInv, PTL DEF Spec

\* Every variable keeps its type, the session count of the entry included.
THEOREM TypeCorrect == Spec => []TypeOK
  <1>1. IInv => TypeOK
    BY DEF IInv
  <1> QED
    BY <1>1, Invariance, PTL

\* A superseded or disposed startup never leaves a backend running (service()).
THEOREM OneLiveBackendHolds == Spec => []OneLiveBackend
  <1>1. IInv => OneLiveBackend
    BY DEF IInv
  <1> QED
    BY <1>1, Invariance, PTL

\* Each registered session is counted once until it is finalized (registerSession).
THEOREM CountIsExactHolds == Spec => []CountIsExact
  <1>1. IInv => CountIsExact
    BY DEF IInv
  <1> QED
    BY <1>1, Invariance, PTL

\* Without a session, neither the backend nor the startup of the entry has old
\* settings, unless a change overtook an older swap (handleConfigurationChanged,
\* finalize, recomposeEntry).
THEOREM StaleSwapsAtZeroHolds == Spec => StaleSwapsAtZero
  <1> DEFINE UpToDate == activeSessionCount = 0 => ~Outdated(startup) /\ ~Outdated(service)
  <1>1. Init => OutdatedIsMarked
    BY DEF Init, OutdatedIsMarked, Outdated
  <1>2. IInv /\ OutdatedIsMarked /\ NothingOvertaken /\ [Next]_vars => OutdatedIsMarked'
    BY NextIsMarked
  <1>3. IInv /\ OutdatedIsMarked /\ NothingOvertaken => UpToDate
    <2> SUFFICES ASSUME IInv, OutdatedIsMarked, NothingOvertaken, activeSessionCount = 0
                 PROVE  ~Outdated(startup) /\ ~Outdated(service)
      OBVIOUS
    <2>1. ~Outdated(startup)
      <3> SUFFICES ASSUME Outdated(startup) PROVE FALSE
        OBVIOUS
      <3>1. staleConfig /\ swapping = {}
        BY DEF OutdatedIsMarked, NothingOvertaken
      <3>2. ~disposed
        BY DEF Outdated, IInv, StartupIsCurrent
      <3> QED
        BY <3>1, <3>2 DEF IInv, MarkedIsSwapped
    <2>2. service = 0 \/ service = startup
      BY DEF IInv, StartupIsCurrent
    <2> QED
      BY <2>1, <2>2 DEF Outdated
  <1>4. StaleSwapsAtZero <=> ([]NothingOvertaken => []UpToDate)
    BY DEF StaleSwapsAtZero, NothingOvertaken
  <1> QED
    BY <1>1, <1>2, <1>3, <1>4, Invariance, PTL DEF Spec

\* service() hands out the entry's running backend only (service, after its await).
THEOREM ServiceIsCurrentHolds == Spec => ServiceIsCurrent
  <1> DEFINE Handed(c) == phase[c] # "holding" /\ phase'[c] = "holding"
             Current == \A c \in Clients : Handed(c) => using'[c] = service' /\ backend'[service'] = "up"
  <1>1. IInv /\ [Next]_vars => Current
    <2> SUFFICES ASSUME IInv, [Next]_vars, NEW c \in Clients, Handed(c)
                 PROVE  using'[c] = service' /\ backend'[service'] = "up"
      OBVIOUS
    <2>1. (\E n \in Startups : Created(n)) \/ (\E d \in Clients : GetService(d))
      <3>1. ASSUME NEW n \in Startups, CreateFailed(n) \/ BackendDisposed(n) PROVE FALSE
        BY <3>1 DEF CreateFailed, BackendDisposed
      <3>2. ASSUME NEW d \in Clients, NEW to \in PhaseNames \ {"holding"}, phase' = [phase EXCEPT ![d] = to]
            PROVE  FALSE
        BY <3>2 DEF IInv, TypeOK, PhaseNames
      <3>3. phase' # phase
        OBVIOUS
      <3>4. ASSUME NEW d \in Clients, GetServiceRefused(d) \/ BeginOpen(d) \/ Opened(d) \/ OpenFailed(d) \/ SessionEnded(d)
            PROVE  FALSE
        <4>1. PICK to \in PhaseNames \ {"holding"} : phase' = [phase EXCEPT ![d] = to]
          BY <3>4 DEF GetServiceRefused, Move, BeginOpen, Opened, OpenFailed, SessionEnded, PhaseNames
        <4> QED
          BY <4>1, <3>2
      <3>5. ASSUME NEW d \in Clients, CloseSession(d) \/ CloseReturned(d) PROVE FALSE
        BY <3>3, <3>5 DEF CloseSession, CloseReturned, clientVars
      <3>6. ~ConfigurationChanged /\ ~Dispose /\ ~UNCHANGED vars
        BY <3>3 DEF ConfigurationChanged, Dispose, vars, clientVars
      <3> QED
        BY <3>1, <3>4, <3>5, <3>6 DEF Next
    <2>2. service' # 0 => backend'[service'] = "up"
      BY NextIInv DEF IInv, StartupIsCurrent
    <2>3. ASSUME NEW n \in Startups, Created(n) PROVE using'[c] = service' /\ service' # 0
      BY <2>3, RegistryAssumption DEF Created, IInv, TypeOK, Startups
    <2>4. ASSUME NEW d \in Clients, GetService(d) PROVE using'[c] = service' /\ service' # 0
      <3>1. service # 0 /\ Move(d, "holding", service) /\ c = d
        <4>1. CASE Move(d, "holding", service) /\ service # 0
          BY <4>1 DEF Move, IInv, TypeOK
        <4>2. ASSUME NEW n, Move(d, "waiting", n) PROVE FALSE
          BY <4>2 DEF Move, IInv, TypeOK
        <4> QED
          BY <2>4, <4>1, <4>2 DEF GetService
      <3>2. service' = service
        BY <2>4 DEF GetService
      <3> QED
        BY <3>1, <3>2 DEF Move, IInv, TypeOK
    <2> QED
      BY <2>1, <2>2, <2>3, <2>4
  <1> QED
    BY <1>1, Invariance, PTL DEF Spec, ServiceIsCurrent

=============================================================================
