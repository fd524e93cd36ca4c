------------------------------ MODULE Sts2Query ------------------------------
(***************************************************************************)
(* One query lane of the STS2 binding (services/sts2/sts2Backend.ts):      *)
(* Sts2Query, the part of Sts2Backend that routes notifications to it      *)
(* (registerQuery, unregisterQuery, bufferOrphan) and the part of          *)
(* Sts2Session that can end it (markLost, closeInternal).                  *)
(*                                                                         *)
(* The JavaScript thread runs one handler at a time, so an action is one   *)
(* run to completion: a wire message dispatched, a timer, a settled        *)
(* promise, or a call of the feature.  Between two actions everything      *)
(* else may run.  The STS service is external: it is modelled from the     *)
(* notifications the binding handles and the credit window it is told of.  *)
(***************************************************************************)
EXTENDS Integers, Sequences, FiniteSets

CONSTANTS
    MaxSets,        \* result sets the service produces for the query
    MaxPages,       \* pages of rows in each of them
    MaxMessages,    \* server messages (PRINT, RAISERROR) it may interleave
    Window,         \* credit: pages the service sends ahead of the last ack
    OrphanCap,      \* MAX_ORPHAN_EVENTS_PER_QUERY
    Controls,       \* what the feature may do: "cancel", "dispose", "close"
    Faults          \* what may go wrong: "lost", "sink", "gap", "duplicate"

ASSUME BoundsAssumption ==
    /\ MaxSets \in Nat
    /\ MaxPages \in Nat
    /\ MaxMessages \in Nat
    /\ Window \in Nat \ {0}
    /\ OrphanCap \in Nat

VARIABLES
    \* Sts2Query
    backendId,            \* the execute response assigned the server's query id
    accepted,             \* handle.accepted
    terminalSent,
    completion,           \* handle.completion
    summary,              \* status carried by the queued onComplete
    errorSeen,            \* errors > 0
    ledgers,              \* result set -> nextPageSeq, -1 before its metadata
    receivedPageOrdinal,
    highestAckedPageSeq,
    lane,                 \* queued sink callbacks, the head first
    sinkBusy,             \* the head callback was invoked and has not settled
    cancelCall,           \* progress of handle.cancel()
    cancelDeadlineTimer,
    disposeCall,          \* progress of handle.dispose()
    drainTimer,
    \* Sts2Backend's routing of this query's id
    route,                \* "unknown", "active" (in queries) or "retired"
    orphans,              \* orphanBuffer entry of the id
    draining,             \* registerQuery is emptying the orphan buffer
    \* Sts2Session
    session,
    closing,              \* a connection.close request is outstanding
    \* the service and the stdio pipe from it
    wire,                 \* FIFO of messages to the client
    svc,                  \* [status, responded, set, page, sent, messages]
    \* what the sink has seen
    sinkLog,              \* callbacks invoked, in order
    durable               \* ordinals of the pages the sink accepted

queryVars == <<backendId, accepted, terminalSent, completion, summary, errorSeen,
               ledgers, receivedPageOrdinal, highestAckedPageSeq>>
laneVars == <<lane, sinkBusy>>
controlVars == <<cancelCall, cancelDeadlineTimer, disposeCall, drainTimer>>
routeVars == <<route, orphans, draining>>
sessionVars == <<session, closing>>
serviceVars == <<wire, svc>>
sinkVars == <<sinkLog, durable>>
vars == <<queryVars, laneVars, controlVars, routeVars, sessionVars, serviceVars, sinkVars>>

-----------------------------------------------------------------------------
(* Values *)

ResultSets == 1..MaxSets

Acceptance == {"pending", "accepted", "rejected", "aborted"}

\* QueryCompletionStatus; "failed" is split by the error code the summary carries.
Statuses == {"succeeded", "completedWithErrors", "failed", "canceled", "disposed",
             "connectionLost", "protocolViolation", "sinkError"}

\* A sink callback waiting in the lane; ord is a page's ack ordinal.
Steps == [kind : {"accepted", "set", "page", "message", "complete"},
          set : Nat, seq : Nat, ord : Nat]

DataKinds == {"set", "page", "message"}

\* A message of the service; tag is a message class or a completion status.
Tags == {"ok", "error", "info", "succeeded", "failed", "canceled", "disposed"}

Messages == [kind : {"response", "set", "rows", "message", "complete"},
             set : Nat, seq : Nat, tag : Tags]

Step(kind, set, seq, ord) == [kind |-> kind, set |-> set, seq |-> seq, ord |-> ord]

Message(kind, set, seq, tag) == [kind |-> kind, set |-> set, seq |-> seq, tag |-> tag]

CallStates == {"none", "waiting", "requested", "acknowledged", "uncertain"}

QueryTypeOK ==
    /\ backendId \in BOOLEAN
    /\ accepted \in Acceptance
    /\ terminalSent \in BOOLEAN
    /\ completion \in Statuses \cup {"pending"}
    /\ summary \in Statuses \cup {"none"}
    /\ errorSeen \in BOOLEAN
    /\ ledgers \in [ResultSets -> Nat \cup {-1}]
    /\ receivedPageOrdinal \in Nat
    /\ highestAckedPageSeq \in Nat \cup {-1}

LaneTypeOK ==
    /\ lane \in Seq(Steps)
    /\ sinkBusy \in BOOLEAN

ControlTypeOK ==
    /\ cancelCall \in CallStates
    /\ cancelDeadlineTimer \in BOOLEAN
    /\ disposeCall \in CallStates
    /\ drainTimer \in BOOLEAN

RouteTypeOK ==
    /\ route \in {"unknown", "active", "retired"}
    /\ orphans \in Seq(Messages)
    /\ draining \in BOOLEAN

SessionTypeOK ==
    /\ session \in {"open", "closing", "closed", "lost"}
    /\ closing \in BOOLEAN

ServiceTypeOK ==
    /\ wire \in Seq(Messages)
    /\ svc \in [status : {"idle", "running", "ended", "rejected"}, responded : BOOLEAN,
                set : 0..MaxSets, page : 0..MaxPages, sent : Nat, messages : 0..MaxMessages,
                duplicated : BOOLEAN]

SinkTypeOK ==
    /\ sinkLog \in Seq(Steps)
    /\ durable \in SUBSET Nat

TypeOK ==
    /\ QueryTypeOK
    /\ LaneTypeOK
    /\ ControlTypeOK
    /\ RouteTypeOK
    /\ SessionTypeOK
    /\ ServiceTypeOK
    /\ SinkTypeOK

\* execute(): the lane is empty, the request is on its way to the service.
Init ==
    /\ backendId = FALSE
    /\ accepted = "pending"
    /\ terminalSent = FALSE
    /\ completion = "pending"
    /\ summary = "none"
    /\ errorSeen = FALSE
    /\ ledgers = [s \in ResultSets |-> -1]
    /\ receivedPageOrdinal = 0
    /\ highestAckedPageSeq = -1
    /\ lane = <<>>
    /\ sinkBusy = FALSE
    /\ cancelCall = "none"
    /\ cancelDeadlineTimer = FALSE
    /\ disposeCall = "none"
    /\ drainTimer = FALSE
    /\ route = "unknown"
    /\ orphans = <<>>
    /\ draining = FALSE
    /\ session = "open"
    /\ closing = FALSE
    /\ wire = <<>>
    /\ svc = [status |-> "idle", responded |-> FALSE, set |-> 0, page |-> 0,
              sent |-> 0, messages |-> 0, duplicated |-> FALSE]
    /\ sinkLog = <<>>
    /\ durable = {}

-----------------------------------------------------------------------------
(* Settling: the promises of the handle and the one terminal *)

\* Mutant of SettleAccepted: a later settlement replaces the first.
SettleAcceptedAgain(value) == accepted' = value

\* settleAccepted: only the first settlement counts.
SettleAccepted(value) ==
    accepted' = IF accepted = "pending" THEN value ELSE accepted

Enqueue(step) == lane' = Append(lane, step)

\* finishTerminal, for a query that is not terminal yet.
FinishTerminal(status) ==
    /\ ~terminalSent
    /\ terminalSent' = TRUE
    /\ summary' = status
    /\ cancelDeadlineTimer' = FALSE
    /\ Enqueue(Step("complete", 0, 0, 0))

\* Mutants of SynthesizeTerminal: acceptance settles with the terminal's status,
\* or is left pending.
SynthesizeIntoAcceptance(status) ==
    \/ /\ terminalSent
       /\ UNCHANGED <<accepted, terminalSent, summary, cancelDeadlineTimer, lane>>
    \/ /\ SettleAccepted(status)
       /\ FinishTerminal(status)

SynthesizeWithoutAcceptance(status) ==
    \/ /\ terminalSent
       /\ UNCHANGED <<accepted, terminalSent, summary, cancelDeadlineTimer, lane>>
    \/ /\ FinishTerminal(status)
       /\ UNCHANGED accepted

\* synthesizeTerminal: nothing after a terminal, else acceptance and terminal.
SynthesizeTerminal(status) ==
    \/ /\ terminalSent
       /\ UNCHANGED <<accepted, terminalSent, summary, cancelDeadlineTimer, lane>>
    \/ /\ SettleAccepted("aborted")
       /\ FinishTerminal(status)

\* unregisterQuery(backendId): without an id yet there is no route to retire.
UnregisterQuery ==
    /\ route' = IF backendId THEN "retired" ELSE route
    /\ orphans' = IF backendId THEN <<>> ELSE orphans

-----------------------------------------------------------------------------
(* Wire deliveries: one notification handed to the lane *)

\* terminalGuard, and the duplicate terminal onWireComplete drops.
DropAfterTerminal ==
    /\ terminalSent
    /\ UNCHANGED <<terminalSent, summary, errorSeen, ledgers, receivedPageOrdinal,
                   cancelDeadlineTimer, lane>>

OnWireResultSet(m) ==
    /\ m.kind = "set"
    /\ ~terminalSent
    /\ ledgers' = [ledgers EXCEPT ![m.set] = 0]
    /\ Enqueue(Step("set", m.set, 0, 0))
    /\ UNCHANGED <<terminalSent, summary, errorSeen, receivedPageOrdinal, cancelDeadlineTimer>>

\* Mutants of OnWireRows: no terminalGuard, and no sequence check.
UnguardedRows(m) ==
    /\ m.kind = "rows"
    /\ \/ /\ ledgers[m.set] = m.seq
          /\ ledgers' = [ledgers EXCEPT ![m.set] = m.seq + 1]
          /\ receivedPageOrdinal' = receivedPageOrdinal + 1
          /\ Enqueue(Step("page", m.set, m.seq, receivedPageOrdinal))
          /\ UNCHANGED <<terminalSent, summary, cancelDeadlineTimer>>
       \/ /\ ledgers[m.set] # m.seq
          /\ FinishTerminal("protocolViolation")
          /\ UNCHANGED <<ledgers, receivedPageOrdinal>>
    /\ UNCHANGED errorSeen

UncheckedRows(m) ==
    /\ ~terminalSent
    /\ m.kind = "rows"
    /\ ledgers' = [ledgers EXCEPT ![m.set] = m.seq + 1]
    /\ receivedPageOrdinal' = receivedPageOrdinal + 1
    /\ Enqueue(Step("page", m.set, m.seq, receivedPageOrdinal))
    /\ UNCHANGED <<terminalSent, summary, errorSeen, cancelDeadlineTimer>>

\* Rows before metadata, or a page out of sequence (a page carries one row, so
\* a wrong rowOffset is a wrong pageSeq): protocolViolation.
OnWireRows(m) ==
    /\ m.kind = "rows"
    /\ ~terminalSent
    /\ \/ /\ ledgers[m.set] = m.seq
          /\ ledgers' = [ledgers EXCEPT ![m.set] = m.seq + 1]
          /\ receivedPageOrdinal' = receivedPageOrdinal + 1
          /\ Enqueue(Step("page", m.set, m.seq, receivedPageOrdinal))
          /\ UNCHANGED <<terminalSent, summary, cancelDeadlineTimer>>
       \/ /\ ledgers[m.set] # m.seq
          /\ FinishTerminal("protocolViolation")
          /\ UNCHANGED <<ledgers, receivedPageOrdinal>>
    /\ UNCHANGED errorSeen

OnWireMessage(m) ==
    /\ m.kind = "message"
    /\ ~terminalSent
    /\ errorSeen' = (errorSeen \/ m.tag = "error")
    /\ Enqueue(Step("message", 0, 0, 0))
    /\ UNCHANGED <<terminalSent, summary, ledgers, receivedPageOrdinal, cancelDeadlineTimer>>

\* Mutant of CompletionOf: server errors are forgotten.
CompletionIgnoringErrors(tag) ==
    IF tag \in {"succeeded", "canceled", "disposed"} THEN tag ELSE "failed"

CompletionOf(tag) ==
    IF tag = "succeeded" THEN IF errorSeen THEN "completedWithErrors" ELSE "succeeded"
    ELSE IF tag \in {"canceled", "disposed"} THEN tag ELSE "failed"

OnWireComplete(m) ==
    /\ m.kind = "complete"
    /\ FinishTerminal(CompletionOf(m.tag))
    /\ UNCHANGED <<errorSeen, ledgers, receivedPageOrdinal>>

OnWire(m) ==
    /\ \/ DropAfterTerminal
       \/ OnWireResultSet(m)
       \/ OnWireRows(m)
       \/ OnWireMessage(m)
       \/ OnWireComplete(m)
    /\ UNCHANGED <<backendId, accepted, completion, highestAckedPageSeq, sinkBusy,
                   cancelCall, disposeCall, drainTimer>>

\* The subscriptions of subscribe(): to the lane, to nobody, or to the buffer.
ReceiveNotification ==
    /\ wire # <<>>
    /\ Head(wire).kind # "response"
    /\ wire' = Tail(wire)
    /\ \/ /\ route = "active"
          /\ OnWire(Head(wire))
          /\ UNCHANGED <<orphans>>
       \/ /\ route = "retired"
          /\ UNCHANGED <<queryVars, laneVars, controlVars, orphans>>
       \/ /\ route = "unknown"
          /\ orphans' = IF Len(orphans) < OrphanCap THEN Append(orphans, Head(wire)) ELSE orphans
          /\ UNCHANGED <<queryVars, laneVars, controlVars>>
    /\ UNCHANGED <<route, draining, sessionVars, svc, sinkVars>>

-----------------------------------------------------------------------------
(* start(): the execute response *)

\* Accepted: the lane is registered, and registerQuery goes on to drain the
\* orphan buffer before anything else runs (draining).
ReceiveAccepted ==
    /\ wire # <<>>
    /\ Head(wire).kind = "response"
    /\ Head(wire).tag = "ok"
    /\ wire' = Tail(wire)
    /\ backendId' = TRUE
    /\ SettleAccepted("accepted")
    /\ route' = "active"
    /\ draining' = TRUE
    /\ UNCHANGED <<terminalSent, completion, summary, errorSeen, ledgers, receivedPageOrdinal,
                   highestAckedPageSeq, laneVars, controlVars, orphans, sessionVars, svc, sinkVars>>

\* One buffered notification, in arrival order.
DrainOrphan ==
    /\ draining
    /\ orphans # <<>>
    /\ OnWire(Head(orphans))
    /\ orphans' = Tail(orphans)
    /\ UNCHANGED <<route, draining, sessionVars, serviceVars, sinkVars>>

\* registerQuery returned: start() queues onAccepted and its handler ends.
FinishRegister ==
    /\ draining
    /\ orphans = <<>>
    /\ draining' = FALSE
    /\ Enqueue(Step("accepted", 0, 0, 0))
    /\ UNCHANGED <<queryVars, sinkBusy, controlVars, route, orphans, sessionVars, serviceVars,
                   sinkVars>>

ReceiveRejected ==
    /\ wire # <<>>
    /\ Head(wire).kind = "response"
    /\ Head(wire).tag = "error"
    /\ wire' = Tail(wire)
    /\ errorSeen' = TRUE
    /\ SettleAccepted("rejected")
    /\ \/ /\ terminalSent
          /\ UNCHANGED <<terminalSent, summary, cancelDeadlineTimer, lane>>
       \/ FinishTerminal("failed")
    /\ UNCHANGED <<backendId, completion, ledgers, receivedPageOrdinal, highestAckedPageSeq,
                   sinkBusy, cancelCall, disposeCall, drainTimer, routeVars, sessionVars, svc,
                   sinkVars>>

-----------------------------------------------------------------------------
(* enqueue(): one sink callback in flight *)

StartStep ==
    /\ lane # <<>>
    /\ ~sinkBusy
    /\ sinkBusy' = TRUE
    /\ sinkLog' = Append(sinkLog, Head(lane))
    /\ UNCHANGED <<queryVars, lane, controlVars, routeVars, sessionVars, serviceVars, durable>>

\* Mutants of AckPage: ack what was received rather than what the sink took, or
\* ack the page's number within its result set.
AckReceived(step) ==
    highestAckedPageSeq' = IF step.kind = "page" /\ ~terminalSent
                             THEN receivedPageOrdinal - 1 ELSE highestAckedPageSeq

AckWithinSet(step) ==
    highestAckedPageSeq' = IF step.kind = "page" /\ ~terminalSent /\ step.seq > highestAckedPageSeq
                             THEN step.seq ELSE highestAckedPageSeq

\* The ack of a page the sink accepted: a high-water mark, silent after terminal.
AckPage(step) ==
    highestAckedPageSeq' = IF step.kind = "page" /\ ~terminalSent /\ step.ord > highestAckedPageSeq
                             THEN step.ord ELSE highestAckedPageSeq

CompletePage(step) ==
    durable' = IF step.kind = "page" THEN durable \cup {step.ord} ELSE durable

\* completionResolve: only the first call settles the promise.
ResolveCompletion(status) ==
    completion' = IF completion = "pending" THEN status ELSE completion

\* The callback resolved: ack a page, settle the handle after onComplete.
FinishStep ==
    /\ sinkBusy
    /\ sinkBusy' = FALSE
    /\ lane' = Tail(lane)
    /\ AckPage(Head(lane))
    /\ CompletePage(Head(lane))
    /\ \/ /\ Head(lane).kind = "complete"
          /\ ResolveCompletion(summary)
          /\ UnregisterQuery
       \/ /\ Head(lane).kind # "complete"
          /\ UNCHANGED <<completion, route, orphans>>
    /\ UNCHANGED <<backendId, accepted, terminalSent, summary, errorSeen, ledgers,
                   receivedPageOrdinal, controlVars, draining, sessionVars, serviceVars, sinkLog>>

\* The callback threw.  onComplete settles the handle all the same (finally);
\* another callback fails the query, unless a terminal was already queued.
FailStep ==
    /\ "sink" \in Faults
    /\ sinkBusy
    /\ sinkBusy' = FALSE
    /\ lane' = Tail(lane)
    /\ \/ /\ Head(lane).kind = "complete"
          /\ ResolveCompletion(summary)
          /\ UnregisterQuery
          /\ UNCHANGED <<terminalSent, cancelDeadlineTimer>>
       \/ /\ Head(lane).kind # "complete"
          /\ ~terminalSent
          /\ terminalSent' = TRUE
          /\ cancelDeadlineTimer' = FALSE
          /\ ResolveCompletion("sinkError")
          /\ UnregisterQuery
       \/ /\ Head(lane).kind # "complete"
          /\ terminalSent
          /\ UNCHANGED <<terminalSent, cancelDeadlineTimer, completion, route, orphans>>
    /\ UNCHANGED <<backendId, accepted, summary, errorSeen, ledgers, receivedPageOrdinal,
                   highestAckedPageSeq, cancelCall, disposeCall, drainTimer, draining, sessionVars,
                   serviceVars, sinkLog, durable>>

-----------------------------------------------------------------------------
(* handle.cancel() *)

\* Mutant of ArmCancelDeadline: no deadline unless the service acknowledged.
ArmWhenAcknowledged ==
    cancelDeadlineTimer' = (cancelDeadlineTimer \/ (~terminalSent /\ cancelCall' = "acknowledged"))

\* armCancelCompletionDeadline
ArmCancelDeadline == cancelDeadlineTimer' = (cancelDeadlineTimer \/ ~terminalSent)

\* queryIdForControl: with an id the request goes out, else acceptance is awaited.
Cancel ==
    /\ "cancel" \in Controls
    /\ cancelCall = "none"
    /\ cancelCall' = IF backendId THEN "requested" ELSE "waiting"
    /\ UNCHANGED <<queryVars, laneVars, cancelDeadlineTimer, disposeCall, drainTimer, routeVars,
                   sessionVars, serviceVars, sinkVars>>

ProceedCancel ==
    /\ cancelCall = "waiting"
    /\ accepted # "pending"
    /\ cancelCall' = IF accepted = "accepted" THEN "requested" ELSE "acknowledged"
    /\ UNCHANGED <<queryVars, laneVars, cancelDeadlineTimer, disposeCall, drainTimer, routeVars,
                   sessionVars, serviceVars, sinkVars>>

\* query.cancel was answered, rejected, or cancelAckMs ran out.
SettleCancel ==
    /\ \/ cancelCall = "requested" /\ cancelCall' \in {"acknowledged", "uncertain"}
       \/ cancelCall = "waiting" /\ cancelCall' = "uncertain"
    /\ ArmCancelDeadline
    /\ UNCHANGED <<queryVars, laneVars, disposeCall, drainTimer, routeVars, sessionVars,
                   serviceVars, sinkVars>>

\* completeAfterCancelMs without a terminal.
CancelDeadline ==
    /\ cancelDeadlineTimer
    /\ SynthesizeTerminal("canceled")
    /\ UNCHANGED <<backendId, completion, errorSeen, ledgers, receivedPageOrdinal,
                   highestAckedPageSeq, sinkBusy, cancelCall, disposeCall, drainTimer, routeVars,
                   sessionVars, serviceVars, sinkVars>>

-----------------------------------------------------------------------------
(* handle.dispose() *)

Dispose ==
    /\ "dispose" \in Controls
    /\ disposeCall = "none"
    /\ disposeCall' = IF backendId THEN "requested" ELSE "waiting"
    /\ UNCHANGED <<queryVars, laneVars, cancelCall, cancelDeadlineTimer, drainTimer, routeVars,
                   sessionVars, serviceVars, sinkVars>>

ProceedDispose ==
    /\ disposeCall = "waiting"
    /\ accepted # "pending"
    /\ disposeCall' = IF accepted = "accepted" THEN "requested" ELSE "acknowledged"
    /\ UNCHANGED <<queryVars, laneVars, cancelCall, cancelDeadlineTimer, drainTimer, routeVars,
                   sessionVars, serviceVars, sinkVars>>

\* query.dispose was answered: the wire terminal gets the drain window.
DisposeAnswered ==
    /\ disposeCall = "requested"
    /\ disposeCall' = "acknowledged"
    /\ drainTimer' = TRUE
    /\ UNCHANGED <<queryVars, laneVars, cancelCall, cancelDeadlineTimer, routeVars, sessionVars,
                   serviceVars, sinkVars>>

DisposeFailed ==
    /\ disposeCall \in {"waiting", "requested"}
    /\ disposeCall' = "uncertain"
    /\ SynthesizeTerminal("disposed")
    /\ UNCHANGED <<backendId, completion, errorSeen, ledgers, receivedPageOrdinal,
                   highestAckedPageSeq, sinkBusy, cancelCall, drainTimer, routeVars, sessionVars,
                   serviceVars, sinkVars>>

DrainDeadline ==
    /\ drainTimer
    /\ drainTimer' = FALSE
    /\ SynthesizeTerminal("disposed")
    /\ UNCHANGED <<backendId, completion, errorSeen, ledgers, receivedPageOrdinal,
                   highestAckedPageSeq, sinkBusy, cancelCall, disposeCall, routeVars, sessionVars,
                   serviceVars, sinkVars>>

-----------------------------------------------------------------------------
(* The session of the query *)

\* markLost, on v2/fatal.
LoseSession ==
    /\ "lost" \in Faults
    /\ session \notin {"closed", "lost"}
    /\ session' = "lost"
    /\ SynthesizeTerminal("connectionLost")
    /\ UNCHANGED <<backendId, completion, errorSeen, ledgers, receivedPageOrdinal,
                   highestAckedPageSeq, sinkBusy, cancelCall, disposeCall, drainTimer, routeVars,
                   closing, serviceVars, sinkVars>>

\* closeInternal up to its await ...
CloseSession ==
    /\ "close" \in Controls
    /\ session \notin {"closed", "closing"}
    /\ session' = "closing"
    /\ closing' = TRUE
    /\ UNCHANGED <<queryVars, laneVars, controlVars, routeVars, serviceVars, sinkVars>>

\* ... and after it: connection.close was answered, rejected, or timed out.
FinishClose ==
    /\ closing
    /\ closing' = FALSE
    /\ SynthesizeTerminal("canceled")
    /\ session' = "closed"
    /\ UNCHANGED <<backendId, completion, errorSeen, ledgers, receivedPageOrdinal,
                   highestAckedPageSeq, sinkBusy, cancelCall, disposeCall, drainTimer, routeVars,
                   serviceVars, sinkVars>>

-----------------------------------------------------------------------------
(* The STS service (external).  It may stream before it answers execute, it   *)
(* keeps to its credit window, and it numbers pages per result set.           *)

clientVars == <<queryVars, laneVars, controlVars, routeVars, sessionVars, sinkVars>>

Send(m) == wire' = Append(wire, m)

\* The client asked the service to end the query early.
EndRequested == cancelCall # "none" \/ disposeCall # "none" \/ closing \/ terminalSent

SvcStart ==
    /\ svc.status = "idle"
    /\ svc' = [svc EXCEPT !.status = "running"]
    /\ UNCHANGED <<clientVars, wire>>

SvcReject ==
    /\ svc.status = "idle"
    /\ svc' = [svc EXCEPT !.status = "rejected", !.responded = TRUE]
    /\ Send(Message("response", 0, 0, "error"))
    /\ UNCHANGED clientVars

SvcRespond ==
    /\ svc.status \in {"running", "ended"}
    /\ ~svc.responded
    /\ svc' = [svc EXCEPT !.responded = TRUE]
    /\ Send(Message("response", 0, 0, "ok"))
    /\ UNCHANGED clientVars

SvcResultSet ==
    /\ svc.status = "running"
    /\ svc.set < MaxSets
    /\ svc.set = 0 \/ svc.page = MaxPages
    /\ svc' = [svc EXCEPT !.set = @ + 1, !.page = 0]
    /\ Send(Message("set", svc.set + 1, 0, "ok"))
    /\ UNCHANGED clientVars

HasCredit == svc.sent - (highestAckedPageSeq + 1) < Window

SvcRows ==
    /\ svc.status = "running"
    /\ svc.set > 0
    /\ svc.page < MaxPages
    /\ HasCredit
    /\ svc' = [svc EXCEPT !.page = @ + 1, !.sent = @ + 1]
    /\ Send(Message("rows", svc.set, svc.page, "ok"))
    /\ UNCHANGED clientVars

SvcMessage ==
    /\ svc.status = "running"
    /\ svc.messages < MaxMessages
    /\ svc' = [svc EXCEPT !.messages = @ + 1]
    /\ \E class \in {"info", "error"} : Send(Message("message", 0, 0, class))
    /\ UNCHANGED clientVars

OutputDone == svc.set = MaxSets /\ (svc.set > 0 => svc.page = MaxPages)

SvcComplete ==
    /\ svc.status = "running"
    /\ OutputDone
    /\ svc' = [svc EXCEPT !.status = "ended"]
    /\ Send(Message("complete", 0, 0, "succeeded"))
    /\ UNCHANGED clientVars

\* The query failed on the server, or a cancel, dispose or close ended it.
SvcAbort ==
    /\ svc.status = "running"
    /\ svc' = [svc EXCEPT !.status = "ended"]
    /\ \E tag \in {"failed", "canceled", "disposed"} :
          /\ tag = "failed" \/ EndRequested
          /\ Send(Message("complete", 0, 0, tag))
    /\ UNCHANGED clientVars

\* The violations the lane checks for: a page out of sequence or ahead of its
\* metadata, and a second terminal.
SvcGap ==
    /\ "gap" \in Faults
    /\ svc.status = "running"
    /\ svc.set > 0
    /\ svc.page < MaxPages
    /\ HasCredit
    /\ svc' = [svc EXCEPT !.page = @ + 1, !.sent = @ + 1]
    /\ \/ Send(Message("rows", svc.set, svc.page + 1, "ok"))
       \/ svc.set < MaxSets /\ Send(Message("rows", svc.set + 1, 0, "ok"))
    /\ UNCHANGED clientVars

SvcDuplicate ==
    /\ "duplicate" \in Faults
    /\ svc.status = "ended"
    /\ ~svc.duplicated
    /\ svc' = [svc EXCEPT !.duplicated = TRUE]
    /\ \E tag \in {"succeeded", "failed"} : Send(Message("complete", 0, 0, tag))
    /\ UNCHANGED clientVars

-----------------------------------------------------------------------------
(* The specification *)

\* The handle settled and its lane is empty: the query may rest here.
Finished ==
    /\ completion # "pending"
    /\ lane = <<>>
    /\ UNCHANGED vars

Register == DrainOrphan \/ FinishRegister

Client ==
    \/ ReceiveNotification
    \/ ReceiveAccepted
    \/ ReceiveRejected
    \/ StartStep
    \/ FinishStep
    \/ FailStep
    \/ ProceedCancel
    \/ SettleCancel
    \/ CancelDeadline
    \/ ProceedDispose
    \/ DisposeAnswered
    \/ DisposeFailed
    \/ DrainDeadline
    \/ FinishClose

Environment ==
    \/ Cancel
    \/ Dispose
    \/ CloseSession
    \/ LoseSession

Service ==
    \/ SvcStart
    \/ SvcReject
    \/ SvcRespond
    \/ SvcResultSet
    \/ SvcRows
    \/ SvcMessage
    \/ SvcComplete
    \/ SvcAbort
    \/ SvcGap
    \/ SvcDuplicate

\* registerQuery drains synchronously: nothing of the client runs in between.
\* The service is a process of its own and goes on.
Next ==
    \/ draining /\ Register
    \/ ~draining /\ (Client \/ Environment \/ Finished)
    \/ Service

Spec == Init /\ [][Next]_vars

-----------------------------------------------------------------------------
(* Fairness.  Timers fire, dispatched messages and settled promises run, and  *)
(* registerQuery ends: that is the JavaScript event loop.  A sink callback    *)
(* settles one way or the other: what IQueryEventSink asks of the feature.    *)
(* Nothing is assumed of the feature's calls or of faults.                    *)

EventLoop ==
    /\ WF_vars(draining /\ Register)
    /\ WF_vars(~draining /\ (ReceiveNotification \/ ReceiveAccepted \/ ReceiveRejected))
    /\ WF_vars(~draining /\ StartStep)
    /\ WF_vars(~draining /\ FinishStep)
    /\ WF_vars(~draining /\ (ProceedCancel \/ SettleCancel))
    /\ WF_vars(~draining /\ CancelDeadline)
    /\ WF_vars(~draining /\ (ProceedDispose \/ DisposeAnswered \/ DisposeFailed))
    /\ WF_vars(~draining /\ DrainDeadline)
    /\ WF_vars(~draining /\ FinishClose)

\* A healthy service answers execute, streams its output and completes.
HealthyService ==
    /\ WF_vars(SvcStart \/ SvcReject)
    /\ WF_vars(SvcRespond)
    /\ WF_vars(SvcResultSet \/ SvcRows \/ SvcComplete)

FairSpec == Spec /\ EventLoop

-----------------------------------------------------------------------------
(* Properties *)

Seen(kind) == {i \in DOMAIN sinkLog : sinkLog[i].kind = kind}

SeenData == {i \in DOMAIN sinkLog : sinkLog[i].kind \in DataKinds}

\* The sink is told the end at most once, and no result set, page or message
\* follows it, whatever mix of wire terminal, timers, session loss, buffered
\* notifications and sink failures ended the query (finishTerminal,
\* terminalGuard, enqueue).
OneTerminal ==
    \A i \in Seen("complete") :
        /\ \A j \in Seen("complete") : i = j
        /\ \A j \in SeenData : j < i

\* Metadata before rows and gapless pages, as the sink sees them: a page comes
\* after its set's onResultSetStarted and right after the page before it
\* (onWireRows' ledger check, the orphan replay and the lane's order).
PagesInOrder ==
    \A i \in Seen("page") :
        LET page == sinkLog[i]
            Earlier(kind, seq) ==
                \E j \in Seen(kind) : j < i /\ sinkLog[j].set = page.set /\ sinkLog[j].seq = seq
        IN  /\ Earlier("set", 0)
            /\ page.seq > 0 => Earlier("page", page.seq - 1)
            /\ \A j \in Seen("page") : j < i => sinkLog[j].set # page.set \/ sinkLog[j].seq < page.seq

\* Never ack unseen: the high-water mark covers only pages the sink accepted,
\* every one of them (the ack of enqueue's page step).
AckedIsDurable == \A n \in 0..highestAckedPageSeq : n \in durable

\* The handle settles only after the sink was told the same outcome, or with a
\* sink error and then the sink is never told; and acceptance settled before.
CompletionAfterSink ==
    completion # "pending" =>
        /\ accepted # "pending"
        /\ \/ completion = summary /\ Seen("complete") # {}
           \/ completion = "sinkError" /\ Seen("complete") = {}

\* A success is the whole result: every page the service sent reached the sink,
\* and no error message did (errorSeen turns it into completedWithErrors).
SucceededIsWhole ==
    completion = "succeeded" => Cardinality(Seen("page")) = svc.sent /\ ~errorSeen

\* A query the feature cancelled or disposed, or whose session was closed or
\* lost, settles even if the service never answers again (the deadlines and
\* synthesized terminals).
ControlSettles ==
    (cancelCall # "none" \/ disposeCall # "none" \/ session # "open") ~> completion # "pending"

\* With a healthy service the query settles, also without help from the feature:
\* the credit window never starves a query with several result sets.
QuerySettles == HealthyService => <>(completion # "pending")

\* The lane implements the backend-neutral contract of a query: acceptance and
\* completion settle once and in order, pages are shown in sequence and acked
\* only after they were, the sink is told one terminal and the handle agrees.
Handle == INSTANCE QueryHandle WITH
    told <- IF Seen("complete") = {} THEN "none" ELSE summary,
    shown <- {sinkLog[i].ord : i \in Seen("page")},
    acked <- highestAckedPageSeq + 1

ImplementsHandle == Handle!Spec
=============================================================================
