----------------------------- MODULE Sts2Backend -----------------------------
(***************************************************************************)
(* The engine of the STS2 binding (services/sts2/sts2Backend.ts): the      *)
(* single-flight initialize handshake, connection opens that share its     *)
(* result, the sessions they create, session loss, close, and disposal of  *)
(* the backend while any of these is in flight.                            *)
(*                                                                         *)
(* One action is one run of the JavaScript thread between two awaits.  An  *)
(* open call and the session it may create share an identity.  A query is  *)
(* reduced to its life in the session; Sts2Query models its lane.          *)
(***************************************************************************)
EXTENDS Integers, FiniteSets

CONSTANTS
    Opens,          \* openSession calls, and the sessions they create
    MaxCloses       \* close() requests of one session outstanding at a time

ASSUME ClosesAssumption == MaxCloses \in Nat \ {0}

VARIABLES
    \* Sts2Backend
    availability,   \* "unavailable" is the retryable kind, "disposed" is not
    starting,       \* the shared initialize attempt is in flight
    subscribed,     \* notificationSubs holds the wire subscriptions
    disposed,
    drain,          \* dispose(): "none", "draining" or "done"
    sessions,       \* the map of sessions fatal and dispose reach
    \* each openSession call
    opens,          \* "none", "starting", "auth", "wire", "opened" or "failed"
    asked,          \* auth provider or service has not answered the call
    \* each Sts2Session
    state,
    closes,         \* close() calls awaiting connection.close
    awaited,        \* sessions whose close dispose() awaits
    query           \* activeQuery, or the terminal of the last one

backendVars == <<availability, starting, subscribed, disposed, drain, sessions>>
openVars == <<opens, asked>>
sessionVars == <<state, closes, awaited, query>>
vars == <<backendVars, openVars, sessionVars>>

-----------------------------------------------------------------------------

OpenStates == {"none", "starting", "auth", "wire", "opened", "failed"}

SessionStates == {"none", "open", "closing", "closed", "lost"}

Terminals == {"completed", "canceled", "connectionLost"}

QueryStates == {"none", "submitted", "running"} \cup Terminals

TypeOK ==
    /\ availability \in {"unknown", "available", "unavailable", "disposed"}
    /\ starting \in BOOLEAN
    /\ subscribed \in BOOLEAN
    /\ disposed \in BOOLEAN
    /\ drain \in {"none", "draining", "done"}
    /\ sessions \subseteq Opens
    /\ opens \in [Opens -> OpenStates]
    /\ asked \subseteq Opens
    /\ state \in [Opens -> SessionStates]
    /\ closes \in [Opens -> 0..MaxCloses]
    /\ awaited \subseteq Opens
    /\ query \in [Opens -> QueryStates]

Init ==
    /\ availability = "unknown"
    /\ starting = FALSE
    /\ subscribed = FALSE
    /\ disposed = FALSE
    /\ drain = "none"
    /\ sessions = {}
    /\ opens = [o \in Opens |-> "none"]
    /\ asked = {}
    /\ state = [o \in Opens |-> "none"]
    /\ closes = [o \in Opens |-> 0]
    /\ awaited = {}
    /\ query = [o \in Opens |-> "none"]

-----------------------------------------------------------------------------
(* initialize *)

\* start() proper, and the part of doStart() before its await.
BeginStart ==
    /\ starting' = TRUE
    /\ subscribed' = TRUE

\* start(), called by the provider factory on the backend it created.
Start ==
    /\ availability = "unknown"
    /\ ~disposed
    /\ ~starting
    /\ BeginStart
    /\ UNCHANGED <<availability, disposed, drain, sessions, openVars, sessionVars>>

\* The opens that wait for the shared attempt go on together.
ResumeOpens(ok) ==
    /\ opens' = [o \in Opens |-> IF opens[o] # "starting" THEN opens[o]
                                 ELSE IF ok THEN "auth" ELSE "failed"]
    /\ asked' = IF ok THEN asked \cup {o \in Opens : opens[o] = "starting"} ELSE asked

\* The rest of doStart(), when v2/initialize was answered.
StartAnswered ==
    /\ starting
    /\ starting' = FALSE
    /\ availability' = "available"
    /\ ResumeOpens(TRUE)
    /\ UNCHANGED <<subscribed, disposed, drain, sessions, sessionVars>>

\* Mutant of StartFailed: the opens that wait for the attempt are left waiting.
StartFailsAlone ==
    /\ starting
    /\ starting' = FALSE
    /\ availability' = "unavailable"
    /\ UNCHANGED <<subscribed, disposed, drain, sessions, openVars, sessionVars>>

\* The rest of doStart(), when it failed or initializeMs ran out.
StartFailed ==
    /\ starting
    /\ starting' = FALSE
    /\ availability' = "unavailable"
    /\ ResumeOpens(FALSE)
    /\ UNCHANGED <<subscribed, disposed, drain, sessions, sessionVars>>

-----------------------------------------------------------------------------
(* openSession *)

Ask(o, stage) ==
    /\ opens' = [opens EXCEPT ![o] = stage]
    /\ asked' = asked \cup {o}

\* canOpen(): available, or one more (shared) attempt; a disposed backend
\* starts nothing, and an attempt it had in flight is not joined either.
OpenSession(o) ==
    /\ opens[o] = "none"
    /\ \/ /\ availability = "available"
          /\ Ask(o, "auth")
          /\ UNCHANGED <<starting, subscribed>>
       \/ /\ availability \in {"unknown", "unavailable"}
          /\ ~disposed
          /\ opens' = [opens EXCEPT ![o] = "starting"]
          /\ \/ ~starting /\ BeginStart
             \/ starting /\ UNCHANGED <<starting, subscribed>>
          /\ UNCHANGED asked
       \/ /\ availability = "disposed" \/ (availability # "available" /\ disposed)
          /\ opens' = [opens EXCEPT ![o] = "failed"]
          /\ UNCHANGED <<asked, starting, subscribed>>
    /\ UNCHANGED <<availability, disposed, drain, sessions, sessionVars>>

\* resolveOpenAuth settled: the connection.open request goes out.
AuthResolved(o) ==
    /\ opens[o] = "auth"
    /\ o \in asked
    /\ Ask(o, "wire")
    /\ UNCHANGED <<backendVars, sessionVars>>

\* The auth provider or the service refused the call.
OpenRefused(o) ==
    /\ opens[o] \in {"auth", "wire"}
    /\ o \in asked
    /\ opens' = [opens EXCEPT ![o] = "failed"]
    /\ asked' = asked \ {o}
    /\ UNCHANGED <<backendVars, sessionVars>>

\* connection.open was answered: the session joins the map, whatever became
\* of the backend meanwhile.
OpenAnswered(o) ==
    /\ opens[o] = "wire"
    /\ o \in asked
    /\ opens' = [opens EXCEPT ![o] = "opened"]
    /\ asked' = asked \ {o}
    /\ state' = [state EXCEPT ![o] = "open"]
    /\ sessions' = sessions \cup {o}
    /\ UNCHANGED <<availability, starting, subscribed, disposed, drain, closes, awaited, query>>

\* The open budget ran out: connection.cancel goes out, an answer may follow.
OpenExpired(o) ==
    /\ opens[o] \in {"auth", "wire"}
    /\ opens' = [opens EXCEPT ![o] = "failed"]
    /\ UNCHANGED <<asked, backendVars, sessionVars>>

\* withDeadline drops an answer that comes after the deadline.
LateAnswer(o) ==
    /\ opens[o] = "failed"
    /\ o \in asked
    /\ asked' = asked \ {o}
    /\ UNCHANGED <<opens, backendVars, sessionVars>>

-----------------------------------------------------------------------------
(* The session's query *)

IsActive(o) == query[o] \in {"submitted", "running"}

\* execute(): only on an open session, one query at a time.
Execute(o) ==
    /\ state[o] = "open"
    /\ ~IsActive(o)
    /\ query' = [query EXCEPT ![o] = "submitted"]
    /\ UNCHANGED <<backendVars, openVars, state, closes, awaited>>

\* The response of query.execute: the query runs, or failed.
ExecuteAnswered(o) ==
    /\ query[o] = "submitted"
    /\ \E outcome \in {"running", "completed"} : query' = [query EXCEPT ![o] = outcome]
    /\ UNCHANGED <<backendVars, openVars, state, closes, awaited>>

\* The query.complete notification, heard only while subscribed.
QueryCompletes(o) ==
    /\ subscribed
    /\ query[o] = "running"
    /\ query' = [query EXCEPT ![o] = "completed"]
    /\ UNCHANGED <<backendVars, openVars, state, closes, awaited>>

\* The feature cancels, and the cancel deadline settles the query.
CancelQuery(o) ==
    /\ IsActive(o)
    /\ query' = [query EXCEPT ![o] = "canceled"]
    /\ UNCHANGED <<backendVars, openVars, state, closes, awaited>>

\* activeQuery?.synthesizeTerminal, for a set of sessions.
Synthesize(S, status) ==
    query' = [o \in Opens |-> IF o \in S /\ IsActive(o) THEN status ELSE query[o]]

-----------------------------------------------------------------------------
(* Losing, closing and disposing *)

\* The sessions markLost changes, of those onFatal reaches.
Losable == {o \in sessions : state[o] \notin {"closed", "lost"}}

\* Mutants of Fatal: a lost session's query is left to the wire, or the session
\* is given the backend's state.
FatalForgetsQueries ==
    /\ subscribed
    /\ availability' = "unavailable"
    /\ state' = [o \in Opens |-> IF o \in Losable THEN "lost" ELSE state[o]]
    /\ sessions' = sessions \ Losable
    /\ UNCHANGED <<starting, subscribed, disposed, drain, openVars, closes, awaited, query>>

FatalCopiesState ==
    /\ subscribed
    /\ availability' = "unavailable"
    /\ state' = [o \in Opens |-> IF o \in Losable THEN availability' ELSE state[o]]
    /\ Synthesize(Losable, "connectionLost")
    /\ sessions' = sessions \ Losable
    /\ UNCHANGED <<starting, subscribed, disposed, drain, openVars, closes, awaited>>

\* v2/fatal: onFatal, with markLost of every session in the map.
Fatal ==
    /\ subscribed
    /\ availability' = "unavailable"
    /\ state' = [o \in Opens |-> IF o \in Losable THEN "lost" ELSE state[o]]
    /\ Synthesize(Losable, "connectionLost")
    /\ sessions' = sessions \ Losable
    /\ UNCHANGED <<starting, subscribed, disposed, drain, openVars, closes, awaited>>

\* Mutants of Close: the session leaves the map before its close settled, or a
\* closed session may be closed again.
CloseRemovesEarly(o) ==
    /\ state[o] \notin {"none", "closed", "closing"}
    /\ closes[o] < MaxCloses
    /\ state' = [state EXCEPT ![o] = "closing"]
    /\ closes' = [closes EXCEPT ![o] = @ + 1]
    /\ sessions' = sessions \ {o}
    /\ UNCHANGED <<availability, starting, subscribed, disposed, drain, openVars, awaited, query>>

CloseAgain(o) ==
    /\ state[o] \notin {"none", "closing"}
    /\ closes[o] < MaxCloses
    /\ state' = [state EXCEPT ![o] = "closing"]
    /\ closes' = [closes EXCEPT ![o] = @ + 1]
    /\ UNCHANGED <<backendVars, openVars, awaited, query>>

\* close(), up to its await.  A lost session may be closed too.
Close(o) ==
    /\ state[o] \notin {"none", "closed", "closing"}
    /\ closes[o] < MaxCloses
    /\ state' = [state EXCEPT ![o] = "closing"]
    /\ closes' = [closes EXCEPT ![o] = @ + 1]
    /\ UNCHANGED <<backendVars, openVars, awaited, query>>

\* The rest of closeInternal: answered, refused, or closeMs ran out.
EndClose(o, status) ==
    /\ Synthesize({o}, status)
    /\ state' = [state EXCEPT ![o] = "closed"]

CloseDone(o) ==
    /\ closes[o] > 0
    /\ closes' = [closes EXCEPT ![o] = @ - 1]
    /\ EndClose(o, "canceled")
    /\ sessions' = sessions \ {o}
    /\ UNCHANGED <<availability, starting, subscribed, disposed, drain, openVars, awaited>>

\* dispose() up to its await: closeForBackendDispose of every session in the
\* map, which returns at once for one that is closing.
Closable == {o \in sessions : state[o] \notin {"closed", "closing"}}

Dispose ==
    /\ ~disposed
    /\ disposed' = TRUE
    /\ subscribed' = FALSE
    /\ drain' = "draining"
    /\ awaited' = Closable
    /\ state' = [o \in Opens |-> IF o \in Closable THEN "closing" ELSE state[o]]
    /\ UNCHANGED <<availability, starting, sessions, openVars, closes, query>>

DisposedCloseDone(o) ==
    /\ o \in awaited
    /\ awaited' = awaited \ {o}
    /\ EndClose(o, "connectionLost")
    /\ sessions' = sessions \ {o}
    /\ UNCHANGED <<availability, starting, subscribed, disposed, drain, openVars, closes>>

\* All closes settled: the maps are cleared.
DisposeDone ==
    /\ drain = "draining"
    /\ awaited = {}
    /\ drain' = "done"
    /\ sessions' = {}
    /\ availability' = "disposed"
    /\ UNCHANGED <<starting, subscribed, disposed, openVars, sessionVars>>

-----------------------------------------------------------------------------

Initialize == StartAnswered \/ StartFailed

SettleOpen(o) ==
    \/ AuthResolved(o)
    \/ OpenRefused(o)
    \/ OpenAnswered(o)
    \/ OpenExpired(o)

Next ==
    \/ Start
    \/ Initialize
    \/ Fatal
    \/ Dispose
    \/ DisposeDone
    \/ \E o \in Opens :
          \/ OpenSession(o)
          \/ SettleOpen(o)
          \/ LateAnswer(o)
          \/ Execute(o)
          \/ ExecuteAnswered(o)
          \/ QueryCompletes(o)
          \/ CancelQuery(o)
          \/ Close(o)
          \/ CloseDone(o)
          \/ DisposedCloseDone(o)

Spec == Init /\ [][Next]_vars

\* Deadlines bound the handshake, each open and each close; settled promises
\* run.  The service owes no answer and no notification.
Deadlines ==
    /\ WF_vars(Initialize)
    /\ \A o \in Opens :
          /\ WF_vars(OpenExpired(o))
          /\ WF_vars(CloseDone(o))
          /\ WF_vars(DisposedCloseDone(o))
    /\ WF_vars(DisposeDone)

FairSpec == Spec /\ Deadlines

-----------------------------------------------------------------------------
(* Properties *)

\* A query never outlives its session: whichever of close, fatal and dispose
\* ended the session settled its query (markLost, closeInternal).
NoQueryOutlivesSession == \A o \in Opens : IsActive(o) => state[o] \in {"open", "closing"}

\* Fatal leaves no session open and no query running, that of a session being
\* closed included; dispose leaves none open; and when it is done, a query that
\* still runs is of a session opened after it began, or of one whose own close()
\* is under way and will settle it (onFatal, dispose, closeInternal).
ReachesEverySession ==
    [][/\ Fatal => \A o \in Opens : state'[o] # "open" /\ ~IsActive(o)'
       /\ Dispose => \A o \in Opens : state'[o] # "open"
       /\ DisposeDone => \A o \in Opens : IsActive(o) => state[o] = "open" \/ closes[o] > 0]_vars

\* A session begins only for an open still waiting for it, never for one that
\* failed or timed out ("a late completion can no longer open a session"); it
\* ends once, and nothing revives it.
SessionEndsOnce ==
    [][\A o \in Opens :
          /\ state[o] # state'[o] /\ state[o] = "none" => opens'[o] = "opened"
          /\ state[o] = "closed" => state'[o] = "closed"
          /\ state[o] = "lost" => state'[o] \in {"lost", "closing", "closed"}
          /\ state[o] \in {"closing", "closed", "lost"} => state'[o] # "open"]_vars

\* Every open settles even if neither initialize nor the service ever answers.
\* A close ends the session and its query, whatever the service does.  Disposal
\* ends, and the sessions it closes settle their queries.
OpenAndCloseSettle ==
    /\ \A o \in Opens :
          /\ opens[o] \in {"starting", "auth", "wire"} ~> opens[o] \in {"opened", "failed"}
          /\ state[o] = "closing" ~> ~IsActive(o) /\ state[o] \in {"closed", "lost"}
          /\ disposed /\ o \in awaited /\ IsActive(o) ~> ~IsActive(o)
    /\ disposed ~> drain = "done"
=============================================================================
