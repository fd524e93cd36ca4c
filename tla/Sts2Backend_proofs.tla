-------------------------- MODULE Sts2Backend_proofs --------------------------
(***************************************************************************)
(* Proofs about the STS2 backend, for any set of open calls.               *)
(***************************************************************************)
EXTENDS Sts2Backend, TLAPS

-----------------------------------------------------------------------------
(* The inductive invariant *)

\* The map holds live sessions only, and a query runs in a session that is one.
MapIsLive == \A o \in sessions : state[o] \in {"open", "closing"}

\* Until disposal is done the map misses no open session and no active query.
MapIsComplete ==
    drain # "done" => \A o \in Opens : state[o] = "open" \/ IsActive(o) => o \in sessions

\* Only a session that was opened has closes under way.
ClosesHaveSession == \A o \in Opens : closes[o] > 0 \/ o \in awaited => state[o] # "none"

\* An open that failed or timed out left no session behind.
NoLateSession == \A o \in Opens : state[o] # "none" => opens[o] = "opened"

\* A session being closed has a close in flight that will settle its query.
ClosingIsPending == \A o \in Opens : state[o] = "closing" => closes[o] > 0 \/ o \in awaited

\* Disposal starts by unsubscribing, and nothing starts after it.
DisposedIsQuiet ==
    /\ disposed => ~subscribed
    /\ drain # "none" => disposed
    /\ awaited # {} => disposed

IInv ==
    /\ TypeOK
    /\ NoQueryOutlivesSession
    /\ MapIsLive
    /\ MapIsComplete
    /\ ClosingIsPending
    /\ NoLateSession
    /\ ClosesHaveSession
    /\ DisposedIsQuiet

-----------------------------------------------------------------------------
(* Lemmas *)

\* A settled query is not active.
LEMMA TerminalIsInactive ==
    ASSUME NEW status \in Terminals
    PROVE  status \in QueryStates /\ status \notin {"submitted", "running"}
  BY DEF Terminals, QueryStates

\* Synthesize settles the queries of S with the status and leaves the others.
LEMMA SynthesizeLemma ==
    ASSUME TypeOK, NEW S, NEW status \in Terminals, Synthesize(S, status)
    PROVE  /\ query' \in [Opens -> QueryStates]
           /\ \A o \in Opens : IsActive(o)' <=> IsActive(o) /\ o \notin S
  <1>1. \A o \in Opens : query'[o] = IF o \in S /\ IsActive(o) THEN status ELSE query[o]
    BY DEF Synthesize
  <1>2. query' \in [Opens -> QueryStates]
    BY TerminalIsInactive DEF Synthesize, TypeOK
  <1>3. \A o \in Opens : IsActive(o)' <=> IsActive(o) /\ o \notin S
    BY <1>1, TerminalIsInactive DEF IsActive
  <1> QED
    BY <1>2, <1>3

\* A step that leaves sessions, their map and their queries alone keeps IInv,
\* when it keeps the types and does not subscribe a disposed backend.
LEMMA SessionFrame ==
    ASSUME IInv, TypeOK', UNCHANGED <<state, sessions, query, closes, awaited, drain, disposed>>,
           \A o \in Opens : opens[o] = "opened" => opens'[o] = "opened",
           disposed => ~subscribed'
    PROVE  IInv'
  <1>1. NoQueryOutlivesSession' /\ MapIsLive' /\ MapIsComplete' /\ ClosingIsPending' /\ ClosesHaveSession'
    BY DEF IInv, NoQueryOutlivesSession, MapIsLive, MapIsComplete, ClosingIsPending, IsActive,
           ClosesHaveSession
  <1>2. NoLateSession'
    BY DEF IInv, NoLateSession
  <1>3. DisposedIsQuiet'
    BY DEF IInv, DisposedIsQuiet
  <1> QED
    BY <1>1, <1>2, <1>3 DEF IInv

\* A step of one query: it may become active in an open session only.
LEMMA QueryFrame ==
    ASSUME IInv, NEW o \in Opens, NEW q \in QueryStates,
           query' = [query EXCEPT ![o] = q],
           state[o] = "open" \/ IsActive(o),
           UNCHANGED <<backendVars, openVars, state, closes, awaited>>
    PROVE  IInv'
  <1>1. TypeOK'
    BY DEF IInv, TypeOK, backendVars, openVars
  <1>2. \A p \in Opens : IsActive(p)' => IsActive(p) \/ (p = o /\ (state[o] = "open" \/ IsActive(o)))
    BY DEF IInv, TypeOK, IsActive
  <1>3. NoQueryOutlivesSession'
    BY <1>2 DEF IInv, NoQueryOutlivesSession
  <1>4. MapIsComplete'
    BY <1>2 DEF IInv, MapIsComplete, backendVars
  <1>5. MapIsLive' /\ ClosingIsPending' /\ NoLateSession' /\ ClosesHaveSession' /\ DisposedIsQuiet'
    BY DEF IInv, MapIsLive, ClosingIsPending, NoLateSession, ClosesHaveSession, DisposedIsQuiet,
           backendVars, openVars
  <1> QED
    BY <1>1, <1>3, <1>4, <1>5 DEF IInv

-----------------------------------------------------------------------------
(* One lemma per group of actions *)

\* The handshake resumes opens; it creates no session.
LEMMA InitializeStep ==
    ASSUME IInv, Start \/ Initialize
    PROVE  IInv'
  <1>1. CASE Start
    <2>1. TypeOK'
      BY <1>1 DEF IInv, TypeOK, Start, BeginStart, openVars, sessionVars
    <2> QED
      BY <1>1, <2>1, SessionFrame DEF Start, BeginStart, openVars, sessionVars
  <1>2. ASSUME NEW ok \in BOOLEAN, ResumeOpens(ok),
               UNCHANGED <<subscribed, disposed, drain, sessions, sessionVars>>,
               starting' = FALSE, availability' \in {"available", "unavailable"}
        PROVE  IInv'
    <2>1. opens' \in [Opens -> OpenStates]
      BY <1>2 DEF IInv, TypeOK, ResumeOpens, OpenStates
    <2>2. asked' \subseteq Opens
      BY <1>2 DEF IInv, TypeOK, ResumeOpens
    <2>3. TypeOK'
      BY <1>2, <2>1, <2>2 DEF IInv, TypeOK, sessionVars
    <2>4. \A o \in Opens : opens[o] = "opened" => opens'[o] = "opened"
      BY <1>2 DEF ResumeOpens
    <2>5. disposed => ~subscribed'
      BY <1>2 DEF IInv, DisposedIsQuiet
    <2>6. UNCHANGED <<state, sessions, query, closes, awaited, drain, disposed>>
      BY <1>2 DEF sessionVars
    <2> QED
      BY <2>3, <2>4, <2>5, <2>6, SessionFrame
  <1>3. CASE StartAnswered
    BY <1>2, <1>3 DEF StartAnswered
  <1>4. CASE StartFailed
    BY <1>2, <1>4 DEF StartFailed
  <1> QED
    BY <1>1, <1>3, <1>4 DEF Initialize

\* An open call: only its answer in time creates a session, which joins the map.
LEMMA OpenStep ==
    ASSUME IInv, NEW o \in Opens, OpenSession(o) \/ SettleOpen(o) \/ LateAnswer(o)
    PROVE  IInv'
  <1>1. CASE OpenAnswered(o)
    <2>1. state' = [state EXCEPT ![o] = "open"] /\ sessions' = sessions \cup {o}
      BY <1>1 DEF OpenAnswered
    <2>2. opens' = [opens EXCEPT ![o] = "opened"] /\ asked' = asked \ {o} /\ state[o] = "none"
      BY <1>1 DEF OpenAnswered, IInv, NoLateSession
    <2>3. UNCHANGED <<availability, starting, subscribed, disposed, drain, closes, awaited, query>>
      BY <1>1 DEF OpenAnswered
    <2>4. TypeOK'
      BY <2>1, <2>2, <2>3 DEF IInv, TypeOK, OpenStates, SessionStates
    <2>5. NoQueryOutlivesSession'
      BY <2>1, <2>3 DEF IInv, TypeOK, NoQueryOutlivesSession, IsActive
    <2>6. MapIsLive'
      BY <2>1 DEF IInv, TypeOK, MapIsLive
    <2>7. MapIsComplete'
      BY <2>1, <2>3 DEF IInv, TypeOK, MapIsComplete, IsActive
    <2>8. ClosingIsPending'
      BY <2>1, <2>3 DEF IInv, TypeOK, ClosingIsPending
    <2>9. NoLateSession'
      BY <2>1, <2>2 DEF IInv, TypeOK, NoLateSession
    <2>10. DisposedIsQuiet'
      BY <2>3 DEF IInv, DisposedIsQuiet
    <2>11. ClosesHaveSession'
      BY <2>1, <2>3 DEF IInv, TypeOK, ClosesHaveSession
    <2> QED
      BY <2>4, <2>5, <2>6, <2>7, <2>8, <2>9, <2>10, <2>11 DEF IInv
  <1>2. ASSUME NEW stage \in OpenStates, opens' = [opens EXCEPT ![o] = stage] \/ opens' = opens,
               opens[o] # "opened" \/ opens' = opens,
               asked' \subseteq asked \cup {o},
               starting' \in BOOLEAN, subscribed' \in BOOLEAN, disposed => ~subscribed',
               UNCHANGED <<availability, disposed, drain, sessions, sessionVars>>
        PROVE  IInv'
    <2>1. TypeOK'
      BY <1>2 DEF IInv, TypeOK, sessionVars
    <2>2. \A p \in Opens : opens[p] = "opened" => opens'[p] = "opened"
      BY <1>2 DEF IInv, TypeOK
    <2>3. UNCHANGED <<state, sessions, query, closes, awaited, drain, disposed>>
      BY <1>2 DEF sessionVars
    <2> QED
      BY <1>2, <2>1, <2>2, <2>3, SessionFrame
  <1>3. subscribed \in BOOLEAN /\ starting \in BOOLEAN /\ (disposed => ~subscribed)
    BY DEF IInv, TypeOK, DisposedIsQuiet
  <1>4. CASE OpenSession(o)
    <2>1. CASE opens' = [opens EXCEPT ![o] = "auth"] /\ asked' = asked \cup {o}
               /\ UNCHANGED <<starting, subscribed>>
      BY <1>2, <1>3, <1>4, <2>1 DEF OpenSession, OpenStates
    <2>2. CASE /\ opens' = [opens EXCEPT ![o] = "starting"] /\ asked' = asked /\ ~disposed
               /\ BeginStart \/ UNCHANGED <<starting, subscribed>>
      BY <1>2, <1>3, <1>4, <2>2 DEF OpenSession, OpenStates, BeginStart
    <2>3. CASE /\ opens' = [opens EXCEPT ![o] = "failed"]
               /\ UNCHANGED <<asked, starting, subscribed>>
      BY <1>2, <1>3, <1>4, <2>3 DEF OpenSession, OpenStates
    <2> QED
      BY <1>4, <2>1, <2>2, <2>3 DEF OpenSession, Ask
  <1>5. CASE AuthResolved(o)
    BY <1>2, <1>3, <1>5 DEF AuthResolved, Ask, OpenStates, backendVars
  <1>6. CASE OpenRefused(o)
    BY <1>2, <1>3, <1>6 DEF OpenRefused, OpenStates, backendVars
  <1>7. CASE OpenExpired(o)
    BY <1>2, <1>3, <1>7 DEF OpenExpired, OpenStates, backendVars
  <1>8. CASE LateAnswer(o)
    BY <1>2, <1>3, <1>8 DEF LateAnswer, OpenStates, backendVars
  <1> QED
    BY <1>1, <1>4, <1>5, <1>6, <1>7, <1>8 DEF SettleOpen

\* The session's query.
LEMMA QueryStep ==
    ASSUME IInv, NEW o \in Opens,
           Execute(o) \/ ExecuteAnswered(o) \/ QueryCompletes(o) \/ CancelQuery(o)
    PROVE  IInv'
  <1>1. {"submitted", "running", "completed", "canceled"} \subseteq QueryStates
    BY DEF QueryStates, Terminals
  <1>2. CASE Execute(o)
    BY <1>1, <1>2, QueryFrame DEF Execute
  <1>3. CASE ExecuteAnswered(o)
    BY <1>1, <1>3, QueryFrame DEF ExecuteAnswered, IsActive
  <1>4. CASE QueryCompletes(o)
    BY <1>1, <1>4, QueryFrame DEF QueryCompletes, IsActive
  <1>5. CASE CancelQuery(o)
    BY <1>1, <1>5, QueryFrame DEF CancelQuery
  <1> QED
    BY <1>2, <1>3, <1>4, <1>5

\* Fatal takes every live session of the map, and their queries with them.
LEMMA FatalStep ==
    ASSUME IInv, Fatal
    PROVE  IInv'
  <1>1. Synthesize(Losable, "connectionLost") /\ sessions' = sessions \ Losable
    BY DEF Fatal
  <1>2. state' = [o \in Opens |-> IF o \in Losable THEN "lost" ELSE state[o]]
    BY DEF Fatal
  <1>3. UNCHANGED <<starting, subscribed, disposed, drain, openVars, closes, awaited>>
    BY DEF Fatal
  <1>4. query' \in [Opens -> QueryStates] /\ \A o \in Opens : IsActive(o)' <=> IsActive(o) /\ o \notin Losable
    BY <1>1, SynthesizeLemma DEF Terminals, IInv
  <1>5. Losable = sessions
    BY DEF Losable, IInv, MapIsLive
  <1>6. TypeOK'
    BY <1>1, <1>2, <1>3, <1>4 DEF IInv, TypeOK, Fatal, SessionStates, openVars
  <1>7. NoQueryOutlivesSession'
    BY <1>2, <1>4 DEF IInv, NoQueryOutlivesSession
  <1>8. MapIsLive'
    BY <1>1, <1>5 DEF MapIsLive
  <1>9. MapIsComplete'
    BY <1>1, <1>2, <1>3, <1>4, <1>5 DEF IInv, MapIsComplete
  <1>10. ClosingIsPending'
    BY <1>2, <1>3 DEF IInv, ClosingIsPending
  <1>11. NoLateSession'
    BY <1>2, <1>3, <1>5 DEF IInv, NoLateSession, MapIsLive, TypeOK, openVars
  <1>12. DisposedIsQuiet'
    BY <1>3 DEF IInv, DisposedIsQuiet
  <1>13. ClosesHaveSession'
    BY <1>2, <1>3 DEF IInv, ClosesHaveSession
  <1> QED
    BY <1>6, <1>7, <1>8, <1>9, <1>10, <1>11, <1>12, <1>13 DEF IInv

\* close() keeps the session in the map until it settled.
LEMMA CloseStep ==
    ASSUME IInv, NEW o \in Opens, Close(o)
    PROVE  IInv'
  <1>1. state' = [state EXCEPT ![o] = "closing"] /\ closes' = [closes EXCEPT ![o] = @ + 1]
    BY DEF Close
  <1>2. UNCHANGED <<backendVars, openVars, awaited, query>>
    BY DEF Close
  <1>3. state[o] \notin {"none", "closed", "closing"} /\ closes[o] < MaxCloses
    BY DEF Close
  <1>4. closes' \in [Opens -> 0..MaxCloses] /\ closes'[o] > 0
    BY <1>1, <1>3, ClosesAssumption DEF IInv, TypeOK
  <1>5. TypeOK'
    BY <1>1, <1>2, <1>4 DEF IInv, TypeOK, backendVars, openVars, SessionStates
  <1>6. NoQueryOutlivesSession'
    BY <1>1, <1>2 DEF IInv, TypeOK, NoQueryOutlivesSession, IsActive
  <1>7. MapIsLive'
    BY <1>1, <1>2 DEF IInv, TypeOK, MapIsLive, backendVars
  <1>8. MapIsComplete'
    BY <1>1, <1>2 DEF IInv, TypeOK, MapIsComplete, IsActive, backendVars
  <1>9. ClosingIsPending'
    <2>1. \A p \in Opens : p # o => closes'[p] = closes[p] /\ state'[p] = state[p]
      BY <1>1 DEF IInv, TypeOK
    <2> QED
      BY <1>2, <1>4, <2>1 DEF IInv, ClosingIsPending
  <1>10. NoLateSession'
    BY <1>1, <1>2, <1>3 DEF IInv, TypeOK, NoLateSession, openVars
  <1>11. DisposedIsQuiet'
    BY <1>2 DEF IInv, DisposedIsQuiet, backendVars
  <1>12. ClosesHaveSession'
    BY <1>1, <1>2 DEF IInv, TypeOK, ClosesHaveSession
  <1> QED
    BY <1>5, <1>6, <1>7, <1>8, <1>9, <1>10, <1>11, <1>12 DEF IInv

\* The end of a close, of the feature or of dispose().
LEMMA CloseDoneStep ==
    ASSUME IInv, NEW o \in Opens, CloseDone(o) \/ DisposedCloseDone(o)
    PROVE  IInv'
  <1>1. PICK status \in Terminals : EndClose(o, status)
    BY DEF CloseDone, DisposedCloseDone, Terminals
  <1>2. state' = [state EXCEPT ![o] = "closed"] /\ sessions' = sessions \ {o}
    BY <1>1 DEF EndClose, CloseDone, DisposedCloseDone
  <1>3. query' \in [Opens -> QueryStates] /\ \A p \in Opens : IsActive(p)' <=> IsActive(p) /\ p \notin {o}
    BY <1>1, SynthesizeLemma DEF EndClose, IInv
  <1>4. UNCHANGED <<availability, starting, subscribed, disposed, drain, openVars>>
    BY DEF CloseDone, DisposedCloseDone
  <1>5. /\ closes' \in [Opens -> 0..MaxCloses] /\ awaited' \subseteq Opens
        /\ \A p \in Opens : p # o => closes'[p] = closes[p] /\ (p \in awaited' <=> p \in awaited)
    BY ClosesAssumption DEF CloseDone, DisposedCloseDone, IInv, TypeOK
  <1>6. TypeOK'
    BY <1>2, <1>3, <1>4, <1>5 DEF IInv, TypeOK, SessionStates, openVars
  <1>7. NoQueryOutlivesSession'
    BY <1>2, <1>3 DEF IInv, TypeOK, NoQueryOutlivesSession
  <1>8. MapIsLive'
    BY <1>2 DEF IInv, TypeOK, MapIsLive
  <1>9. MapIsComplete'
    BY <1>2, <1>3, <1>4 DEF IInv, TypeOK, MapIsComplete
  <1>10. ClosingIsPending'
    BY <1>2, <1>5 DEF IInv, TypeOK, ClosingIsPending
  <1>11. state[o] # "none"
    BY DEF CloseDone, DisposedCloseDone, IInv, ClosesHaveSession
  <1>12. NoLateSession'
    BY <1>2, <1>4, <1>11 DEF IInv, TypeOK, NoLateSession, openVars
  <1>13. DisposedIsQuiet'
    <2>1. awaited' \subseteq awaited
      BY DEF CloseDone, DisposedCloseDone
    <2> QED
      BY <1>4, <2>1 DEF IInv, DisposedIsQuiet
  <1>14. ClosesHaveSession'
    BY <1>2, <1>5 DEF IInv, TypeOK, ClosesHaveSession
  <1> QED
    BY <1>6, <1>7, <1>8, <1>9, <1>10, <1>12, <1>13, <1>14 DEF IInv

\* dispose() begins to close every live session of the map.
LEMMA DisposeStep ==
    ASSUME IInv, Dispose
    PROVE  IInv'
  <1>1. state' = [o \in Opens |-> IF o \in Closable THEN "closing" ELSE state[o]]
    BY DEF Dispose
  <1>2. /\ disposed' = TRUE /\ subscribed' = FALSE /\ drain' = "draining" /\ awaited' = Closable
        /\ UNCHANGED <<availability, starting, sessions, openVars, closes, query>>
    BY DEF Dispose
  <1>3. ~disposed /\ drain = "none"
    BY DEF Dispose, IInv, DisposedIsQuiet, TypeOK
  <1>4. Closable \subseteq sessions /\ \A o \in Closable : state[o] = "open"
    BY DEF Closable, IInv, MapIsLive
  <1>5. TypeOK'
    BY <1>1, <1>2, <1>4 DEF IInv, TypeOK, SessionStates, openVars
  <1>6. NoQueryOutlivesSession'
    BY <1>1, <1>2 DEF IInv, TypeOK, NoQueryOutlivesSession, IsActive
  <1>7. MapIsLive'
    BY <1>1, <1>2 DEF IInv, TypeOK, MapIsLive
  <1>8. MapIsComplete'
    BY <1>1, <1>2, <1>3, <1>4 DEF IInv, TypeOK, MapIsComplete, IsActive
  <1>9. ClosingIsPending'
    <2>1. SUFFICES ASSUME NEW o \in Opens, state'[o] = "closing"
                   PROVE  closes[o] > 0 \/ o \in Closable
      BY <1>2 DEF ClosingIsPending
    <2>2. CASE o \notin Closable
      <3>1. state[o] = "closing" /\ o \notin awaited
        BY <1>1, <2>1, <2>2, <1>3 DEF IInv, DisposedIsQuiet
      <3> QED
        BY <3>1 DEF IInv, ClosingIsPending
    <2> QED
      BY <2>2
  <1>10. NoLateSession'
    BY <1>1, <1>2, <1>4 DEF IInv, TypeOK, NoLateSession, openVars
  <1>11. ClosesHaveSession'
    BY <1>1, <1>2 DEF IInv, TypeOK, ClosesHaveSession
  <1>12. DisposedIsQuiet'
    BY <1>2 DEF DisposedIsQuiet
  <1> QED
    BY <1>5, <1>6, <1>7, <1>8, <1>9, <1>10, <1>11, <1>12 DEF IInv

\* Once every close it awaits is done, dispose() drops the map.
LEMMA DisposeDoneStep ==
    ASSUME IInv, DisposeDone
    PROVE  IInv'
  <1>1. drain = "draining" /\ drain' = "done" /\ sessions' = {} /\ availability' = "disposed"
    BY DEF DisposeDone
  <1>2. UNCHANGED <<starting, subscribed, disposed, openVars, sessionVars>>
    BY DEF DisposeDone
  <1>3. TypeOK'
    BY <1>1, <1>2 DEF IInv, TypeOK, openVars, sessionVars
  <1>4. NoQueryOutlivesSession' /\ ClosingIsPending' /\ NoLateSession' /\ ClosesHaveSession'
    BY <1>2 DEF IInv, NoQueryOutlivesSession, ClosingIsPending, NoLateSession, ClosesHaveSession,
                IsActive, openVars, sessionVars
  <1>5. MapIsLive' /\ MapIsComplete'
    BY <1>1 DEF MapIsLive, MapIsComplete
  <1>6. DisposedIsQuiet'
    BY <1>1, <1>2 DEF IInv, DisposedIsQuiet
  <1> QED
    BY <1>3, <1>4, <1>5, <1>6 DEF IInv

-----------------------------------------------------------------------------
(* Theorems *)

\* IInv holds of every reachable state.
THEOREM Invariance == Spec => []IInv
  <1>1. Init => IInv
    <2> SUFFICES ASSUME Init PROVE IInv
      OBVIOUS
    <2>1. TypeOK
      <3>1. closes \in [Opens -> 0..MaxCloses]
        <4>1. closes = [o \in Opens |-> 0] /\ 0 \in 0..MaxCloses
          BY ClosesAssumption DEF Init
        <4> QED
          BY <4>1
      <3>2. /\ opens \in [Opens -> OpenStates]
            /\ state \in [Opens -> SessionStates]
            /\ query \in [Opens -> QueryStates]
        BY DEF Init, OpenStates, SessionStates, QueryStates
      <3>3. /\ availability \in {"unknown", "available", "unavailable", "disposed"}
            /\ starting \in BOOLEAN /\ subscribed \in BOOLEAN /\ disposed \in BOOLEAN
            /\ drain \in {"none", "draining", "done"}
            /\ sessions \subseteq Opens /\ asked \subseteq Opens /\ awaited \subseteq Opens
        BY DEF Init
      <3> QED
        BY <3>1, <3>2, <3>3 DEF TypeOK
    <2>2. \A o \in Opens : state[o] = "none" /\ ~IsActive(o) /\ closes[o] = 0
      BY DEF Init, IsActive
    <2>3. sessions = {} /\ awaited = {} /\ ~disposed /\ drain = "none"
      BY DEF Init
    <2> QED
      BY <2>1, <2>2, <2>3
      DEF IInv, NoQueryOutlivesSession, MapIsLive, MapIsComplete, ClosingIsPending, NoLateSession,
          ClosesHaveSession, DisposedIsQuiet
  <1>2. IInv /\ [Next]_vars => IInv'
    <2> SUFFICES ASSUME IInv, [Next]_vars PROVE IInv'
      OBVIOUS
    <2>1. CASE Start \/ Initialize
      BY <2>1, InitializeStep
    <2>2. CASE Fatal
      BY <2>2, FatalStep
    <2>3. CASE Dispose
      BY <2>3, DisposeStep
    <2>4. CASE DisposeDone
      BY <2>4, DisposeDoneStep
    <2>5. ASSUME NEW o \in Opens, OpenSession(o) \/ SettleOpen(o) \/ LateAnswer(o)
          PROVE  IInv'
      BY <2>5, OpenStep
    <2>6. ASSUME NEW o \in Opens,
                 Execute(o) \/ ExecuteAnswered(o) \/ QueryCompletes(o) \/ CancelQuery(o)
          PROVE  IInv'
      BY <2>6, QueryStep
    <2>7. ASSUME NEW o \in Opens, Close(o)
          PROVE  IInv'
      BY <2>7, CloseStep
    <2>8. ASSUME NEW o \in Opens, CloseDone(o) \/ DisposedCloseDone(o)
          PROVE  IInv'
      BY <2>8, CloseDoneStep
    <2>9. CASE UNCHANGED vars
      <3>1. UNCHANGED <<backendVars, openVars, sessionVars>>
        BY <2>9 DEF vars
      <3>2. TypeOK'
        BY <3>1 DEF IInv, TypeOK, backendVars, openVars, sessionVars
      <3> QED
        BY <3>1, <3>2, SessionFrame DEF backendVars, openVars, sessionVars, IInv, DisposedIsQuiet
    <2> QED
      BY <2>1, <2>2, <2>3, <2>4, <2>5, <2>6, <2>7, <2>8, <2>9 DEF Next
  <1> QED
    BY <1>1, <1>2, PTL DEF Spec

\* Every variable of the backend keeps its type.
THEOREM TypeCorrect == Spec => []TypeOK
  <1>1. IInv => TypeOK
    BY DEF IInv
  <1> QED
    BY <1>1, Invariance, PTL

\* However a session ended, by close, fatal or dispose, its query settled with it.
THEOREM NoQueryOutlivesSessionHolds == Spec => []NoQueryOutlivesSession
  <1>1. IInv => NoQueryOutlivesSession
    BY DEF IInv
  <1> QED
    BY <1>1, Invariance, PTL

\* Fatal leaves no session and no query, dispose no open session, and the end of
\* disposal no query but those of later sessions and of closes under way.
THEOREM ReachesEverySessionHolds == Spec => ReachesEverySession
  <1> DEFINE Lost == Fatal => \A o \in Opens : state'[o] # "open" /\ ~IsActive(o)'
             Closing == Dispose => \A o \in Opens : state'[o] # "open"
             Drained == DisposeDone => \A o \in Opens : IsActive(o) => state[o] = "open" \/ closes[o] > 0
  <1>1. ASSUME IInv, Fatal, NEW o \in Opens
        PROVE  state'[o] # "open" /\ ~IsActive(o)'
    <2>1. drain # "done"
      BY <1>1 DEF Fatal, IInv, DisposedIsQuiet
    <2>2. Losable = sessions
      BY <1>1 DEF Losable, IInv, MapIsLive
    <2>3. IsActive(o)' <=> IsActive(o) /\ o \notin sessions
      BY <1>1, <2>2, SynthesizeLemma DEF Fatal, Terminals, IInv
    <2>4. state'[o] = IF o \in sessions THEN "lost" ELSE state[o]
      BY <1>1, <2>2 DEF Fatal
    <2>5. state[o] = "open" \/ IsActive(o) => o \in sessions
      BY <1>1, <2>1 DEF IInv, MapIsComplete
    <2> QED
      BY <2>3, <2>4, <2>5
  <1>2. ASSUME IInv, Dispose, NEW o \in Opens
        PROVE  state'[o] # "open"
    <2>1. drain # "done"
      BY <1>2 DEF Dispose, IInv, DisposedIsQuiet
    <2>2. state[o] = "open" => o \in Closable
      BY <1>2, <2>1 DEF Closable, IInv, MapIsComplete
    <2> QED
      BY <1>2, <2>2 DEF Dispose
  <1>3. ASSUME IInv, DisposeDone, NEW o \in Opens, IsActive(o)
        PROVE  state[o] = "open" \/ closes[o] > 0
    <2>1. state[o] \in {"open", "closing"} /\ o \notin awaited
      BY <1>3 DEF DisposeDone, IInv, NoQueryOutlivesSession
    <2> QED
      BY <1>3, <2>1 DEF IInv, ClosingIsPending
  <1>4. IInv => [Lost /\ Closing /\ Drained]_vars
    BY <1>1, <1>2, <1>3
  <1>5. Spec => [][Lost /\ Closing /\ Drained]_vars
    BY <1>4, Invariance, PTL
  <1> QED
    BY <1>5, PTL DEF ReachesEverySession

\* A session begins in time and ends once: no open that failed has one, closed is
\* final, and neither a late answer, a fatal nor disposal reopens a session that was
\* closed, lost or being closed.
THEOREM SessionEndsOnceHolds == Spec => SessionEndsOnce
  <1> DEFINE Ends(o) == /\ state[o] = "closed" => state'[o] = "closed"
                        /\ state[o] = "lost" => state'[o] \in {"lost", "closing", "closed"}
                        /\ state[o] \in {"closing", "closed", "lost"} => state'[o] # "open"
  <1>1. ASSUME IInv, [Next]_vars, NEW o \in Opens
        PROVE  Ends(o)
    <2>1. state \in [Opens -> SessionStates]
      BY <1>1 DEF IInv, TypeOK
    <2>2. CASE state' = state
      BY <2>2
    <2>3. CASE \E p \in Opens : OpenAnswered(p)
      <3>1. PICK p \in Opens : OpenAnswered(p)
        BY <2>3
      <3>2. state' = [state EXCEPT ![p] = "open"] /\ state[p] = "none"
        BY <1>1, <3>1 DEF OpenAnswered, IInv, NoLateSession
      <3> QED
        BY <2>1, <3>2
    <2>4. CASE Fatal
      BY <2>4 DEF Fatal, Losable
    <2>5. CASE \E p \in Opens : Close(p)
      BY <2>1, <2>5 DEF Close
    <2>6. CASE \E p \in Opens : CloseDone(p) \/ DisposedCloseDone(p)
      <3>1. PICK p \in Opens : state' = [state EXCEPT ![p] = "closed"]
        BY <2>6 DEF CloseDone, DisposedCloseDone, EndClose
      <3> QED
        BY <2>1, <3>1
    <2>7. CASE Dispose
      <3>1. \A p \in Closable : state[p] = "open"
        BY <1>1 DEF Closable, IInv, MapIsLive
      <3>2. state' = [p \in Opens |-> IF p \in Closable THEN "closing" ELSE state[p]]
        BY <2>7 DEF Dispose
      <3> QED
        BY <3>1, <3>2
    <2>8. CASE Start \/ Initialize \/ DisposeDone \/ UNCHANGED vars
      BY <2>2, <2>8
      DEF Start, Initialize, StartAnswered, StartFailed, DisposeDone, vars, sessionVars
    <2>9. ASSUME NEW p \in Opens,
                 \/ OpenSession(p) \/ AuthResolved(p) \/ OpenRefused(p) \/ OpenExpired(p)
                 \/ LateAnswer(p)
          PROVE  Ends(o)
      BY <2>2, <2>9
      DEF OpenSession, AuthResolved, OpenRefused, OpenExpired, LateAnswer, sessionVars
    <2>10. ASSUME NEW p \in Opens,
                  Execute(p) \/ ExecuteAnswered(p) \/ QueryCompletes(p) \/ CancelQuery(p)
           PROVE  Ends(o)
      BY <2>2, <2>10 DEF Execute, ExecuteAnswered, QueryCompletes, CancelQuery
    <2> QED
      BY <1>1, <2>3, <2>4, <2>5, <2>6, <2>7, <2>8, <2>9, <2>10 DEF Next, SettleOpen
  <1> DEFINE Once(o) == /\ state[o] # state'[o] /\ state[o] = "none" => opens'[o] = "opened"
                        /\ state[o] = "closed" => state'[o] = "closed"
                        /\ state[o] = "lost" => state'[o] \in {"lost", "closing", "closed"}
                        /\ state[o] \in {"closing", "closed", "lost"} => state'[o] # "open"
  <1>2. ASSUME IInv, IInv', [Next]_vars, NEW o \in Opens
        PROVE  Once(o)
    <2>1. state[o] # state'[o] /\ state[o] = "none" => opens'[o] = "opened"
      BY <1>2 DEF IInv, NoLateSession
    <2> QED
      BY <1>1, <1>2, <2>1
  <1>3. IInv /\ IInv' /\ [Next]_vars => [\A o \in Opens : Once(o)]_vars
    BY <1>2
  <1>4. Spec => [][\A o \in Opens : Once(o)]_vars
    BY <1>3, Invariance, PTL DEF Spec
  <1> QED
    BY <1>4 DEF SessionEndsOnce

=============================================================================
