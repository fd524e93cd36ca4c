------------------------------ MODULE QueryEditor ------------------------------
(***************************************************************************)
(* The classic query path: the execution slot of an editor                 *)
(* (models/sqlOutputContentProvider.ts), the QueryRunner that carries its  *)
(* query (controllers/queryRunner.ts) and the routing of notifications     *)
(* (controllers/queryNotificationHandler.ts).                              *)
(*                                                                         *)
(* Everything is keyed by the URI of the editor: SQL Tools Service knows a *)
(* query by it, notifications are routed by it, and Save As changes it     *)
(* while a query runs.  An action is one run of the JavaScript thread      *)
(* between two awaits; the service is external.                            *)
(***************************************************************************)
EXTENDS Integers, Sequences

CONSTANTS
    Runs,           \* queries the user asks for
    Cancels,        \* uses of the cancel command
    Changes,        \* closings of an editor (its results not in a panel) and Save As
    Uris,
    MaxRunners,     \* bound: QueryRunner objects
    Faults          \* of "slow", "unreadable"

None == "none"      \* nobody's name

Calls == Runs \cup Cancels \cup Changes

ASSUME EditorAssumption ==
    /\ None \notin Calls
    /\ Runs \cap (Cancels \cup Changes) = {}
    /\ Cancels \cap Changes = {}
    /\ Uris # {}
    /\ MaxRunners \in Nat \ {0}

VARIABLES
    \* QueryNotificationHandler and SqlOutputContentProvider
    slots,          \* _queryExecutionInFlightUris: the run that blocks an editor
    resultsMap,     \* _queryResultsMap: the runner of an editor, 0 for none
    routes,         \* _queryRunners: who gets the notifications of a URI
    \* QueryRunner
    created,        \* runners made so far
    runners,
    \* the calls
    pc,
    runner,         \* the runner a call works with
    at,             \* the URI a call began with
    promise,        \* the promise of each run
    \* the service and the pipe
    requests,
    replies,
    queries         \* the query the service runs for a URI

editorVars == <<slots, resultsMap, routes>>
runnerVars == <<created, runners>>
callVars == <<pc, runner, at>>
wireVars == <<requests, replies, queries>>
vars == <<editorVars, runnerVars, callVars, promise, wireVars>>

-----------------------------------------------------------------------------

Runners == 1..MaxRunners

Runner ==
    [uri : Uris,                    \* _ownerUri
     executing : BOOLEAN,           \* _isExecuting
     registered : SUBSET Uris,      \* _registeredNotificationUris
     recovery : BOOLEAN,            \* _orphanedQueryRecoveryTimer
     promises : [Uris -> Runs \cup {None}],
     listeners : SUBSET Runs]       \* slots to release on its onComplete

NewRunner(u) ==
    [uri |-> u, executing |-> FALSE, registered |-> {}, recovery |-> FALSE,
     promises |-> [v \in Uris |-> None], listeners |-> {}]

Steps == {"idle", "reset", "panel", "reading", "submitted", "canceling", "closing", "disposing",
          "over", "closed", "saved"}

Request == [type : {"execute", "cancel", "dispose"}, who : Calls, uri : Uris]
           \cup [type : {"rename"}, from : Uris, to : Uris]

Reply == [type : {"refused", "found", "none", "disposed", "complete"},
          who : Calls, uri : Uris]

TypeOK ==
    /\ slots \in [Uris -> Runs \cup {None}]
    /\ resultsMap \in [Uris -> 0..MaxRunners]
    /\ routes \in [Uris -> 0..MaxRunners]
    /\ created \in 0..MaxRunners
    /\ runners \in [Runners -> Runner]
    /\ pc \in [Calls -> Steps]
    /\ runner \in [Calls -> 0..MaxRunners]
    /\ at \in [Calls -> Uris]
    /\ promise \in [Runs -> {"none", "pending", "resolved", "rejected"}]
    /\ requests \in Seq(Request)
    /\ replies \in Seq(Reply)
    /\ queries \in [Uris -> Runs \cup {None}]

Init ==
    LET u == CHOOSE v \in Uris : TRUE IN
        /\ slots = [v \in Uris |-> None]
        /\ resultsMap = [v \in Uris |-> 0]
        /\ routes = [v \in Uris |-> 0]
        /\ created = 0
        /\ runners = [n \in Runners |-> NewRunner(u)]
        /\ pc = [c \in Calls |-> "idle"]
        /\ runner = [c \in Calls |-> 0]
        /\ at = [c \in Calls |-> u]
        /\ promise = [r \in Runs |-> "none"]
        /\ requests = <<>>
        /\ replies = <<>>
        /\ queries = [v \in Uris |-> None]

-----------------------------------------------------------------------------
(* What the calls are made of                                               *)

Goto(c, step) == pc' = [pc EXCEPT ![c] = step]

\* Mutant of Ask: the request does not say whose query.
AskWithoutUri(type, c, u) == requests' = Append(requests, [type |-> type, who |-> c])

Ask(type, c, u) == requests' = Append(requests, [type |-> type, who |-> c, uri |-> u])

HoldsSlot(r) == \E u \in Uris : slots[u] = r

\* The slots once the listeners of these runs have released theirs.
Without(released) == [u \in Uris |-> IF slots[u] \in released THEN None ELSE slots[u]]

\* The routes once these URIs are unregistered, whoever they lead to.
Unrouted(uris) == [u \in Uris |-> IF u \in uris THEN 0 ELSE routes[u]]

\* A deferred promise takes its first outcome.
Settled(runs, result) ==
    [r \in Runs |-> IF r \in runs /\ promise[r] = "pending" THEN result ELSE promise[r]]

\* A runner whose query is over, with the promise it kept under this URI.
Ended(x, u) ==
    [x EXCEPT !.executing = FALSE, !.recovery = FALSE, !.registered = {},
              !.promises[u] = None, !.listeners = {}]

\* Mutant of Cleanup: no completeEmitter, so the slot stays taken.
CleanupSilently(n, result) ==
    LET x == runners[n] IN
        /\ runners' = [runners EXCEPT ![n] = Ended(x, x.uri)]
        /\ routes' = Unrouted(x.registered)
        /\ promise' = Settled({x.promises[x.uri]}, result)
        /\ UNCHANGED slots

\* _handleQueryCleanup.
Cleanup(n, result) ==
    LET x == runners[n] IN
        /\ runners' = [runners EXCEPT ![n] = Ended(x, x.uri)]
        /\ slots' = Without(x.listeners)
        /\ routes' = Unrouted(x.registered)
        /\ promise' = Settled({x.promises[x.uri]}, result)

\* Mutant of SetUp: the promise is not kept.
SetUpForgetsPromise(x, r) ==
    [x EXCEPT !.executing = TRUE, !.registered = @ \cup {x.uri}, !.listeners = @ \cup {r}]

\* setupQueryExecution, with the slot's listener attached and the promise kept.
SetUp(x, r) ==
    [x EXCEPT !.executing = TRUE, !.registered = @ \cup {x.uri},
              !.promises[x.uri] = r, !.listeners = @ \cup {r}]

-----------------------------------------------------------------------------
(* Running a query                                                          *)

IsBusy(u) ==
    \/ slots[u] # None
    \/ resultsMap[u] # 0 /\ runners[resultsMap[u]].executing

\* The slot is taken, or the runner executes without: the user is told, and may
\* cancel.
Blocked(r, u) ==
    /\ IsBusy(u)
    /\ Goto(r, "over")
    /\ promise' = [promise EXCEPT ![r] = "rejected"]
    /\ UNCHANGED <<editorVars, runnerVars, runner, at, requests>>

\* A runner is reused: a query it may have left behind is canceled first.
Reuse(r, u) ==
    LET n == resultsMap[u] IN
        /\ ~IsBusy(u)
        /\ n # 0
        /\ slots' = [slots EXCEPT ![u] = r]
        /\ Goto(r, "reset")
        /\ runner' = [runner EXCEPT ![r] = n]
        /\ at' = [at EXCEPT ![r] = u]
        /\ promise' = [promise EXCEPT ![r] = "pending"]
        /\ Ask("cancel", r, runners[n].uri)
        /\ UNCHANGED <<resultsMap, routes, runnerVars>>

\* The first query of an editor has a runner made for it, and then its panel, if
\* results open in a tab.
Create(r, u) ==
    LET n == created + 1 IN
        /\ ~IsBusy(u)
        /\ resultsMap[u] = 0
        /\ n \in Runners
        /\ created' = n
        /\ runners' = [runners EXCEPT ![n] = NewRunner(u)]
        /\ resultsMap' = [resultsMap EXCEPT ![u] = n]
        /\ slots' = [slots EXCEPT ![u] = r]
        /\ Goto(r, "panel")
        /\ runner' = [runner EXCEPT ![r] = n]
        /\ at' = [at EXCEPT ![r] = u]
        /\ promise' = [promise EXCEPT ![r] = "pending"]
        /\ UNCHANGED <<routes, requests>>

Run(r) ==
    /\ pc[r] = "idle"
    /\ \E u \in Uris :
          \/ Blocked(r, u)
          \/ Reuse(r, u)
          \/ Create(r, u)
    /\ UNCHANGED <<replies, queries>>

\* Mutant of AfterCancel: no recovery when the service knew of no query.
AfterCancelTrusts(x, answer) ==
    CASE answer = "failed" -> Ended(x, x.uri)
      [] answer \in {"found", "none"} -> x

\* What becomes of a runner when its cancel() is answered, or fails.
AfterCancel(x, answer) ==
    CASE answer = "failed" -> Ended(x, x.uri)
      [] answer = "none" -> [x EXCEPT !.recovery = @ \/ x.executing]
      [] answer = "found" -> x

\* resetQueryRunner returns, and the run goes on whether it has its slot or not.
ResetEnds(r, answer) ==
    LET n == runner[r]
        x == runners[n]
        failed == answer = "failed"
    IN  /\ pc[r] = "reset"
        /\ Goto(r, "panel")
        /\ runners' = [runners EXCEPT ![n] =
               [AfterCancel(x, answer) EXCEPT !.executing = FALSE, !.promises[x.uri] = None]]
        /\ slots' = IF failed THEN Without(x.listeners) ELSE slots
        /\ routes' = Unrouted(IF failed THEN x.registered ELSE {})
        /\ promise' = Settled({x.promises[x.uri]}, "rejected")
        /\ UNCHANGED <<resultsMap, created, runner, at>>

\* The runner and its panel are there: the run is set up, unless it lost its slot
\* meanwhile.
Prepared(r) ==
    LET n == runner[r]
        x == runners[n]
    IN  /\ pc[r] = "panel"
        /\ IF HoldsSlot(r)
           THEN /\ Goto(r, "reading")
                /\ runners' = [runners EXCEPT ![n] = SetUp(x, r)]
                /\ routes' = IF x.uri \in x.registered THEN routes ELSE [routes EXCEPT ![x.uri] = n]
                /\ at' = [at EXCEPT ![r] = x.uri]
                /\ UNCHANGED promise
           ELSE /\ Goto(r, "over")
                /\ promise' = Settled({r}, "rejected")
                /\ UNCHANGED <<routes, runners, at>>
        /\ UNCHANGED <<slots, resultsMap, created, runner, wireVars>>

\* The text is read from the document, and the query sent.
Submit(r) ==
    /\ pc[r] = "reading"
    /\ Goto(r, "submitted")
    /\ Ask("execute", r, at[r])
    /\ UNCHANGED <<editorVars, runnerVars, runner, at, promise, replies, queries>>

\* The document cannot be read, or the service refuses the query.
RunFails(r) ==
    LET x == runners[runner[r]] IN
        /\ Goto(r, "over")
        /\ runners' = [runners EXCEPT ![runner[r]] = Ended(x, x.uri)]
        /\ slots' = Without(x.listeners \cup {r})
        /\ routes' = Unrouted(x.registered)
        /\ promise' = Settled({x.promises[x.uri], r}, "rejected")
        /\ UNCHANGED <<resultsMap, created, runner, at>>

ReadFails(r) ==
    /\ "unreadable" \in Faults
    /\ pc[r] = "reading"
    /\ RunFails(r)
    /\ UNCHANGED wireVars

-----------------------------------------------------------------------------
(* Canceling                                                                *)

\* cancelQuery: the runner's query, or a run still being set up.
Cancel(c) ==
    /\ pc[c] = "idle"
    /\ \E u \in Uris :
          LET n == resultsMap[u] IN
          IF n # 0 /\ runners[n].executing
          THEN /\ Goto(c, "canceling")
               /\ runner' = [runner EXCEPT ![c] = n]
               /\ Ask("cancel", c, runners[n].uri)
               /\ UNCHANGED slots
          ELSE /\ slots[u] # None
               /\ slots' = [slots EXCEPT ![u] = None]
               /\ Goto(c, "over")
               /\ UNCHANGED <<runner, requests>>
    /\ UNCHANGED <<resultsMap, routes, runnerVars, at, promise, replies, queries>>

\* cancel() is answered, or fails; then cleanupRunner, if it called, forgets the
\* runner of the URI it began with.
CancelEnds(c, answer) ==
    LET n == runner[c]
        x == runners[n]
    IN  /\ pc[c] \in {"canceling", "closing"}
        /\ Goto(c, IF pc[c] = "closing" THEN "closed" ELSE "over")
        /\ IF answer = "failed"
           THEN Cleanup(n, "rejected")
           ELSE /\ runners' = [runners EXCEPT ![n] = AfterCancel(x, answer)]
                /\ UNCHANGED <<slots, routes, promise>>
        /\ resultsMap' = IF pc[c] = "closing" THEN [resultsMap EXCEPT ![at[c]] = 0] ELSE resultsMap
        /\ UNCHANGED <<created, runner, at>>

\* queryCancelOrphanGraceMs after the service knew of no query; the end of a
\* query clears the timer.
Recover(n) ==
    /\ runners[n].recovery
    /\ runners[n].executing
    /\ Cleanup(n, "rejected")
    /\ UNCHANGED <<resultsMap, created, callVars, wireVars>>

-----------------------------------------------------------------------------
(* Closing and saving the editor                                            *)

\* cleanupRunner.
Close(c) ==
    /\ pc[c] = "idle"
    /\ \E u \in Uris :
          LET n == resultsMap[u] IN
          /\ n # 0
          /\ runner' = [runner EXCEPT ![c] = n]
          /\ at' = [at EXCEPT ![c] = u]
          /\ IF runners[n].executing
             THEN /\ Goto(c, "closing")
                  /\ Ask("cancel", c, runners[n].uri)
                  /\ UNCHANGED resultsMap
             ELSE /\ Goto(c, "disposing")
                  /\ Ask("dispose", c, runners[n].uri)
                  /\ resultsMap' = [resultsMap EXCEPT ![u] = 0]
    /\ UNCHANGED <<slots, routes, runnerVars, promise, replies, queries>>

\* dispose() is answered, one way or the other.
DisposeEnds(c) ==
    /\ pc[c] = "disposing"
    /\ Goto(c, "closed")
    /\ Cleanup(runner[c], "resolved")
    /\ UNCHANGED <<resultsMap, created, runner, at>>

\* updateQueryRunnerUri of a runner.
Renamed(x, u, v) ==
    [x EXCEPT !.uri = v,
              !.promises = IF x.promises[u] = None THEN @
                           ELSE [@ EXCEPT ![v] = x.promises[u], ![u] = None],
              !.registered = IF x.executing THEN @ \cup {v}
                             ELSE IF u \in @ THEN (@ \ {u}) \cup {v} ELSE @]

\* Mutant of SaveAs: the slot stays under the old URI.
SaveAsKeepsSlot(c, u, v) ==
    LET n == resultsMap[u] IN
        /\ pc[c] = "idle"
        /\ u # v
        /\ resultsMap[v] = 0
        /\ slots[v] = None
        /\ Goto(c, "saved")
        /\ IF n = 0
           THEN UNCHANGED <<resultsMap, routes, runners, requests>>
           ELSE /\ runners' = [runners EXCEPT ![n] = Renamed(@, u, v)]
                /\ routes' = IF runners[n].executing /\ v \notin runners[n].registered
                             THEN [routes EXCEPT ![v] = n] ELSE routes
                /\ resultsMap' = [resultsMap EXCEPT ![v] = n, ![u] = 0]
                /\ requests' = Append(requests, [type |-> "rename", from |-> u, to |-> v])
        /\ UNCHANGED <<slots, created, runner, at, promise, replies, queries>>

\* updateQueryRunnerUri of the content provider; nobody saves over the file of
\* another editor with a query.
SaveAs(c, u, v) ==
    LET n == resultsMap[u] IN
        /\ pc[c] = "idle"
        /\ u # v
        /\ resultsMap[v] = 0
        /\ slots[v] = None
        /\ Goto(c, "saved")
        /\ slots' = IF slots[u] = None THEN slots
                    ELSE [slots EXCEPT ![v] = slots[u], ![u] = None]
        /\ IF n = 0
           THEN UNCHANGED <<resultsMap, routes, runners, requests>>
           ELSE /\ runners' = [runners EXCEPT ![n] = Renamed(@, u, v)]
                /\ routes' = IF runners[n].executing /\ v \notin runners[n].registered
                             THEN [routes EXCEPT ![v] = n] ELSE routes
                /\ resultsMap' = [resultsMap EXCEPT ![v] = n, ![u] = 0]
                /\ requests' = Append(requests, [type |-> "rename", from |-> u, to |-> v])
        /\ UNCHANGED <<created, runner, at, promise, replies, queries>>

-----------------------------------------------------------------------------
(* The service, as the requests and notifications show it                    *)

Answer(type, request) ==
    replies' = Append(replies, [type |-> type, who |-> request.who, uri |-> request.uri])

SvcExecute(m) ==
    \/ /\ queries[m.uri] = None
       /\ queries' = [queries EXCEPT ![m.uri] = m.who]
       /\ UNCHANGED replies
    \/ /\ queries[m.uri] # None
       /\ Answer("refused", m)
       /\ UNCHANGED queries

SvcCancel(m) ==
    /\ Answer(IF queries[m.uri] = None THEN "none" ELSE "found", m)
    /\ UNCHANGED queries

SvcDispose(m) ==
    /\ queries' = [queries EXCEPT ![m.uri] = None]
    /\ Answer("disposed", m)

SvcRename(m) ==
    /\ queries' = IF queries[m.from] = None THEN queries
                  ELSE [queries EXCEPT ![m.to] = queries[m.from], ![m.from] = None]
    /\ UNCHANGED replies

SvcHandle ==
    /\ requests # <<>>
    /\ requests' = Tail(requests)
    /\ LET m == Head(requests) IN
          \/ m.type = "execute" /\ SvcExecute(m)
          \/ m.type = "cancel" /\ SvcCancel(m)
          \/ m.type = "dispose" /\ SvcDispose(m)
          \/ m.type = "rename" /\ SvcRename(m)
    /\ UNCHANGED <<editorVars, runnerVars, callVars, promise>>

\* A query ends, by itself or canceled.
SvcComplete ==
    /\ \E u \in Uris :
          /\ queries[u] # None
          /\ queries' = [queries EXCEPT ![u] = None]
          /\ replies' = Append(replies, [type |-> "complete", who |-> queries[u], uri |-> u])
    /\ UNCHANGED <<editorVars, runnerVars, callVars, promise, requests>>

-----------------------------------------------------------------------------
(* Answers and notifications                                                *)

\* query/complete goes to whoever is registered for its URI.
QueryComplete(m) ==
    LET n == routes[m.uri] IN
        IF n = 0
        THEN UNCHANGED <<editorVars, runnerVars, callVars, promise>>
        ELSE LET x == runners[n] IN
             /\ runners' = [runners EXCEPT ![n] = Ended(x, m.uri)]
             /\ slots' = Without(x.listeners)
             /\ routes' = Unrouted(x.registered \cup {m.uri})
             /\ promise' = Settled({x.promises[m.uri]}, "resolved")
             /\ UNCHANGED <<resultsMap, created, callVars>>

CancelAnswered(m) ==
    \/ ResetEnds(m.who, m.type)
    \/ CancelEnds(m.who, m.type)
    \/ /\ pc[m.who] \notin {"reset", "canceling", "closing"}
       /\ UNCHANGED <<editorVars, runnerVars, callVars, promise>>

Receive ==
    /\ replies # <<>>
    /\ replies' = Tail(replies)
    /\ LET m == Head(replies) IN
          \/ m.type = "complete" /\ QueryComplete(m)
          \/ m.type = "refused" /\ RunFails(m.who)
          \/ m.type \in {"found", "none"} /\ CancelAnswered(m)
          \/ m.type = "disposed" /\ DisposeEnds(m.who)
    /\ UNCHANGED <<requests, queries>>

\* queryCancelRequestTimeoutMs runs out, first for the cancel sent first.
Unheard == replies \o requests

Waits(m) == m.type \in {"cancel", "found", "none"} /\ pc[m.who] \in {"reset", "canceling", "closing"}

TimeOut ==
    /\ "slow" \in Faults
    /\ \E i \in DOMAIN Unheard :
          /\ Waits(Unheard[i])
          /\ \A j \in 1..(i - 1) : ~Waits(Unheard[j])
          /\ LET c == Unheard[i].who IN ResetEnds(c, "failed") \/ CancelEnds(c, "failed")
    /\ UNCHANGED wireVars

-----------------------------------------------------------------------------

Next ==
    \/ \E r \in Runs : Run(r) \/ Prepared(r) \/ Submit(r) \/ ReadFails(r)
    \/ \E c \in Cancels : Cancel(c)
    \/ \E c \in Changes : Close(c) \/ \E u, v \in Uris : SaveAs(c, u, v)
    \/ \E n \in Runners : Recover(n)
    \/ SvcHandle \/ SvcComplete \/ Receive \/ TimeOut

Spec == Init /\ [][Next]_vars

\* The event loop: messages are dispatched, timers fire, a panel opens, a document
\* is read or cannot be.
EventLoop ==
    /\ WF_vars(Receive)
    /\ WF_vars(TimeOut)
    /\ \A n \in Runners : WF_vars(Recover(n))
    /\ \A r \in Runs : WF_vars(Prepared(r)) /\ WF_vars(Submit(r) \/ ReadFails(r))

FairSpec == Spec /\ EventLoop

-----------------------------------------------------------------------------
(* Properties                                                               *)

\* No editor is blocked for nothing: whoever holds a slot is being set up, or
\* its runner executes and will release the slot when it stops, under whatever
\* URI Save As has moved the slot to (releaseExecutionSlotOnComplete,
\* _handleQueryCleanup and the catch of runQuery).
SlotIsOwned ==
    \A r \in Runs : HoldsSlot(r) =>
        \/ pc[r] \in {"reset", "panel"}
        \/ r \in runners[runner[r]].listeners /\ runners[runner[r]].executing

NothingClosed == \A c \in Changes : pc[c] \in {"idle", "saved"}

\* Until an editor is closed, a runner that executes is the one its editor would
\* cancel, its editor is blocked for other runs, and so an editor has one
\* query, whatever was renamed, canceled or timed out ("Keep the execution slot
\* with the editor").
ExecutingIsKnown ==
    NothingClosed => \A n \in Runners : runners[n].executing =>
        /\ resultsMap[runners[n].uri] = n
        /\ slots[runners[n].uri] # None

NothingSaved == \A c \in Changes : pc[c] # "saved"

\* With a service that answers, a run settles its promise and leaves its editor,
\* in a window where no editor is closed or renamed ("A promise that will be
\* resolved/rejected when the query completes or fails").
RunSettles ==
    WF_vars(SvcHandle) /\ WF_vars(SvcComplete) =>
        \A r \in Runs : promise[r] = "pending" ~>
            \/ promise[r] \in {"resolved", "rejected"} /\ ~HoldsSlot(r)
            \/ ~NothingClosed
            \/ ~NothingSaved

\* A cancel frees the editor even if the service answers nothing, as long as the
\* queries it has end and no editor was renamed ("Never wait forever on the
\* service").
CancelFrees ==
    WF_vars(SvcComplete) =>
        \A c \in Cancels \cup Changes, r \in Runs :
            pc[c] \in {"canceling", "closing"} /\ r \in runners[runner[c]].listeners
                ~> ~HoldsSlot(r) \/ ~NothingSaved
=============================================================================
