--------------------------- MODULE Sts2Query_proofs ---------------------------
(***************************************************************************)
(* Proofs about the query lane, for every number of result sets, pages and *)
(* messages, every credit window and buffer cap, and every set of controls *)
(* and faults.                                                             *)
(***************************************************************************)
EXTENDS Sts2Query, TLAPS

-----------------------------------------------------------------------------
(* Steps, messages and sequences *)

\* A step built by the lane has the shape the lane carries.
LEMMA StepType ==
    ASSUME NEW kind \in {"accepted", "set", "page", "message", "complete"},
           NEW set \in Nat, NEW seq \in Nat, NEW ord \in Nat
    PROVE  Step(kind, set, seq, ord) \in Steps
  BY DEF Step, Steps

\* A message the service sends has the shape the pipe carries.
LEMMA MessageType ==
    ASSUME NEW kind \in {"response", "set", "rows", "message", "complete"},
           NEW set \in Nat, NEW seq \in Nat, NEW tag \in Tags
    PROVE  Message(kind, set, seq, tag) \in Messages
  BY DEF Message, Messages

\* The empty sequence has every sequence type.
LEMMA EmptySequence ==
    \A S : <<>> \in Seq(S)
  OBVIOUS

\* Appending to a sequence and taking it apart stay in its type.
LEMMA SeqType ==
    ASSUME NEW S, NEW s \in Seq(S)
    PROVE  /\ \A e \in S : Append(s, e) \in Seq(S)
           /\ s # <<>> => Head(s) \in S /\ Tail(s) \in Seq(S)
  OBVIOUS

\* Appending an element keeps the others where they are.
LEMMA AppendElements ==
    ASSUME NEW S, NEW s \in Seq(S), NEW e \in S
    PROVE  /\ Len(Append(s, e)) = Len(s) + 1
           /\ DOMAIN Append(s, e) = 1..(Len(s) + 1)
           /\ \A i \in 1..Len(s) : Append(s, e)[i] = s[i]
           /\ Append(s, e)[Len(s) + 1] = e
  OBVIOUS

\* The tail is the sequence shifted by one.
LEMMA TailElements ==
    ASSUME NEW S, NEW s \in Seq(S), s # <<>>
    PROVE  /\ Len(s) \in Nat \ {0}
           /\ Len(Tail(s)) = Len(s) - 1
           /\ DOMAIN Tail(s) = 1..(Len(s) - 1)
           /\ \A i \in 1..(Len(s) - 1) : Tail(s)[i] = s[i + 1]
           /\ Head(s) = s[1]
  OBVIOUS

-----------------------------------------------------------------------------
(* Type correctness *)

\* A callback in flight is the head of the lane, and a queued onComplete
\* carries a summary: TypeOK is not inductive without them.
BusyHasHead == sinkBusy => lane # <<>>

CompleteHasSummary ==
    \A i \in DOMAIN lane : lane[i].kind = "complete" => terminalSent /\ summary # "none"

TypeInv == TypeOK /\ BusyHasHead /\ CompleteHasSummary

\* What an action leaves alone stays well typed.
LEMMA Frame ==
    /\ QueryTypeOK /\ UNCHANGED queryVars => QueryTypeOK'
    /\ LaneTypeOK /\ UNCHANGED laneVars => LaneTypeOK'
    /\ ControlTypeOK /\ UNCHANGED controlVars => ControlTypeOK'
    /\ RouteTypeOK /\ UNCHANGED routeVars => RouteTypeOK'
    /\ SessionTypeOK /\ UNCHANGED sessionVars => SessionTypeOK'
    /\ ServiceTypeOK /\ UNCHANGED serviceVars => ServiceTypeOK'
    /\ SinkTypeOK /\ UNCHANGED sinkVars => SinkTypeOK'
  <1>1. QueryTypeOK /\ UNCHANGED queryVars => QueryTypeOK'
    BY DEF QueryTypeOK, queryVars
  <1>2. LaneTypeOK /\ UNCHANGED laneVars => LaneTypeOK'
    BY DEF LaneTypeOK, laneVars
  <1>3. ControlTypeOK /\ UNCHANGED controlVars => ControlTypeOK'
    BY DEF ControlTypeOK, controlVars
  <1>4. RouteTypeOK /\ UNCHANGED routeVars => RouteTypeOK'
    BY DEF RouteTypeOK, routeVars
  <1>5. SessionTypeOK /\ UNCHANGED sessionVars => SessionTypeOK'
    BY DEF SessionTypeOK, sessionVars
  <1>6. ServiceTypeOK /\ UNCHANGED serviceVars => ServiceTypeOK'
    BY DEF ServiceTypeOK, serviceVars
  <1>7. SinkTypeOK /\ UNCHANGED sinkVars => SinkTypeOK'
    BY DEF SinkTypeOK, sinkVars
  <1> QED
    BY <1>1, <1>2, <1>3, <1>4, <1>5, <1>6, <1>7

\* The lane with an onComplete appended.
LEMMA CompleteStepType ==
    ASSUME LaneTypeOK
    PROVE  Append(lane, Step("complete", 0, 0, 0)) \in Seq(Steps)
  BY StepType, SeqType DEF LaneTypeOK

\* Synthesizing a terminal, in an action that keeps the rest of the query.
LEMMA SynthesizeType ==
    ASSUME TypeOK, NEW status \in Statuses, SynthesizeTerminal(status),
           UNCHANGED <<backendId, completion, errorSeen, ledgers, receivedPageOrdinal,
                       highestAckedPageSeq, sinkBusy>>
    PROVE  QueryTypeOK' /\ LaneTypeOK' /\ cancelDeadlineTimer' \in BOOLEAN
  <1>1. CASE UNCHANGED <<accepted, terminalSent, summary, cancelDeadlineTimer, lane>>
    BY <1>1 DEF TypeOK, QueryTypeOK, LaneTypeOK, ControlTypeOK
  <1>2. CASE SettleAccepted("aborted") /\ FinishTerminal(status)
    <2>1. accepted' \in Acceptance
      BY <1>2 DEF SettleAccepted, TypeOK, QueryTypeOK, Acceptance
    <2>2. LaneTypeOK'
      BY <1>2, CompleteStepType DEF FinishTerminal, Enqueue, TypeOK, LaneTypeOK
    <2> QED
      BY <1>2, <2>1, <2>2 DEF FinishTerminal, TypeOK, QueryTypeOK
  <1> QED
    BY <1>1, <1>2 DEF SynthesizeTerminal

\* A notification handed to the lane.
LEMMA OnWireType ==
    ASSUME TypeOK, NEW m \in Messages, OnWire(m)
    PROVE  QueryTypeOK' /\ LaneTypeOK' /\ ControlTypeOK'
  <1>1. m.set \in Nat /\ m.seq \in Nat /\ m.seq + 1 \in Nat
    BY DEF Messages
  <1>a. UNCHANGED <<backendId, accepted, completion, highestAckedPageSeq, sinkBusy, cancelCall,
                    disposeCall, drainTimer>>
    BY DEF OnWire
  <1>2. CASE DropAfterTerminal
    BY <1>2, <1>a DEF DropAfterTerminal, TypeOK, QueryTypeOK, LaneTypeOK, ControlTypeOK
  <1>3. CASE OnWireResultSet(m)
    <2>1. LaneTypeOK'
      BY <1>1, <1>3, <1>a, StepType, SeqType
      DEF OnWireResultSet, Enqueue, TypeOK, LaneTypeOK
    <2> QED
      BY <1>3, <1>a, <2>1 DEF OnWireResultSet, TypeOK, QueryTypeOK, ControlTypeOK
  <1>4. CASE OnWireRows(m) /\ ledgers[m.set] = m.seq
    <2>1. /\ ledgers' = [ledgers EXCEPT ![m.set] = m.seq + 1]
          /\ receivedPageOrdinal' = receivedPageOrdinal + 1
          /\ lane' = Append(lane, Step("page", m.set, m.seq, receivedPageOrdinal))
          /\ UNCHANGED <<terminalSent, summary, errorSeen, cancelDeadlineTimer>>
      BY <1>4 DEF OnWireRows, Enqueue
    <2>2. LaneTypeOK'
      BY <1>1, <1>a, <2>1, StepType, SeqType DEF TypeOK, QueryTypeOK, LaneTypeOK
    <2>3. ledgers \in [ResultSets -> Nat \cup {-1}] /\ receivedPageOrdinal \in Nat
      BY DEF TypeOK, QueryTypeOK
    <2>4. ledgers' \in [ResultSets -> Nat \cup {-1}]
      BY <1>1, <2>1, <2>3
    <2>5. receivedPageOrdinal' \in Nat
      BY <2>1, <2>3
    <2> QED
      BY <1>a, <2>1, <2>2, <2>4, <2>5 DEF TypeOK, QueryTypeOK, ControlTypeOK
  <1>5. CASE OnWireRows(m) /\ ledgers[m.set] # m.seq
    <2>1. FinishTerminal("protocolViolation") /\ UNCHANGED <<ledgers, receivedPageOrdinal, errorSeen>>
      BY <1>5 DEF OnWireRows
    <2>2. LaneTypeOK'
      BY <1>a, <2>1, CompleteStepType DEF FinishTerminal, Enqueue, TypeOK, LaneTypeOK
    <2> QED
      BY <1>a, <2>1, <2>2 DEF FinishTerminal, Statuses, TypeOK, QueryTypeOK, ControlTypeOK
  <1>6. CASE OnWireMessage(m)
    <2>1. LaneTypeOK'
      BY <1>6, <1>a, StepType, SeqType DEF OnWireMessage, Enqueue, TypeOK, LaneTypeOK
    <2>2. errorSeen' \in BOOLEAN
      BY <1>6, Zenon DEF OnWireMessage
    <2> QED
      BY <1>6, <1>a, <2>1, <2>2 DEF OnWireMessage, TypeOK, QueryTypeOK, ControlTypeOK
  <1>7. CASE OnWireComplete(m)
    <2>1. LaneTypeOK'
      BY <1>7, <1>a, CompleteStepType
      DEF OnWireComplete, FinishTerminal, Enqueue, TypeOK, LaneTypeOK
    <2>2. CompletionOf(m.tag) \in Statuses
      BY DEF CompletionOf, Statuses
    <2> QED
      BY <1>7, <1>a, <2>1, <2>2
      DEF OnWireComplete, FinishTerminal, TypeOK, QueryTypeOK, ControlTypeOK
  <1> QED
    BY <1>2, <1>3, <1>4, <1>5, <1>6, <1>7 DEF OnWire, OnWireRows

\* The service's steps, whatever the client does.
SvcType ==
    [status : {"idle", "running", "ended", "rejected"}, responded : BOOLEAN,
     set : 0..MaxSets, page : 0..MaxPages, sent : Nat, messages : 0..MaxMessages,
     duplicated : BOOLEAN]

LEMMA ServiceStepType == ServiceTypeOK /\ Service => ServiceTypeOK'
  <1> SUFFICES ASSUME ServiceTypeOK, Service PROVE ServiceTypeOK'
    OBVIOUS
  <1>0. /\ svc \in SvcType /\ wire \in Seq(Messages)
        /\ svc.set \in Nat /\ svc.page \in Nat /\ svc.set + 1 \in Nat /\ svc.page + 1 \in Nat
        /\ MaxSets \in Nat /\ MaxPages \in Nat /\ MaxMessages \in Nat
    BY BoundsAssumption DEF ServiceTypeOK, SvcType
  <1>1. \A m \in Messages : Append(wire, m) \in Seq(Messages)
    BY <1>0, SeqType
  <1>2. CASE SvcStart
    <2>1. wire' \in Seq(Messages)
      BY <1>0, <1>1, <1>2, MessageType DEF Tags, SvcStart, Send
    <2>2. svc' \in SvcType
      BY <1>0, <1>2 DEF SvcStart, SvcType
    <2> QED
      BY <2>1, <2>2 DEF ServiceTypeOK, SvcType
  <1>3. CASE SvcReject
    <2>1. wire' \in Seq(Messages)
      BY <1>0, <1>1, <1>3, MessageType DEF Tags, SvcReject, Send
    <2>2. svc' \in SvcType
      BY <1>0, <1>3 DEF SvcReject, SvcType
    <2> QED
      BY <2>1, <2>2 DEF ServiceTypeOK, SvcType
  <1>4. CASE SvcRespond
    <2>1. wire' \in Seq(Messages)
      BY <1>0, <1>1, <1>4, MessageType DEF Tags, SvcRespond, Send
    <2>2. svc' \in SvcType
      BY <1>0, <1>4 DEF SvcRespond, SvcType
    <2> QED
      BY <2>1, <2>2 DEF ServiceTypeOK, SvcType
  <1>5. CASE SvcResultSet
    <2>1. wire' \in Seq(Messages)
      BY <1>0, <1>1, <1>5, MessageType DEF Tags, SvcResultSet, Send
    <2>2. svc' \in SvcType
      <3>1. svc.set + 1 \in 0..MaxSets /\ 0 \in 0..MaxPages
        BY <1>0, <1>5 DEF SvcResultSet, SvcType
      <3> QED
        BY <1>0, <1>5, <3>1 DEF SvcResultSet, SvcType
    <2> QED
      BY <2>1, <2>2 DEF ServiceTypeOK, SvcType
  <1>6. CASE SvcRows
    <2>1. wire' \in Seq(Messages)
      BY <1>0, <1>1, <1>6, MessageType DEF Tags, SvcRows, Send
    <2>2. svc' \in SvcType
      <3>1. svc.page + 1 \in 0..MaxPages /\ svc.sent + 1 \in Nat
        BY <1>0, <1>6 DEF SvcRows, SvcType
      <3> QED
        BY <1>0, <1>6, <3>1 DEF SvcRows, SvcType
    <2> QED
      BY <2>1, <2>2 DEF ServiceTypeOK, SvcType
  <1>7. CASE SvcMessage
    <2>1. wire' \in Seq(Messages)
      BY <1>0, <1>1, <1>7, MessageType DEF Tags, SvcMessage, Send
    <2>2. svc' \in SvcType
      <3>1. svc.messages + 1 \in 0..MaxMessages
        BY <1>0, <1>7 DEF SvcMessage, SvcType
      <3> QED
        BY <1>0, <1>7, <3>1 DEF SvcMessage, SvcType
    <2> QED
      BY <2>1, <2>2 DEF ServiceTypeOK, SvcType
  <1>8. CASE SvcComplete
    <2>1. wire' \in Seq(Messages)
      BY <1>0, <1>1, <1>8, MessageType DEF Tags, SvcComplete, Send
    <2>2. svc' \in SvcType
      BY <1>0, <1>8 DEF SvcComplete, SvcType
    <2> QED
      BY <2>1, <2>2 DEF ServiceTypeOK, SvcType
  <1>9. CASE SvcAbort
    <2>1. wire' \in Seq(Messages)
      BY <1>0, <1>1, <1>9, MessageType DEF Tags, SvcAbort, Send
    <2>2. svc' \in SvcType
      BY <1>0, <1>9 DEF SvcAbort, SvcType
    <2> QED
      BY <2>1, <2>2 DEF ServiceTypeOK, SvcType
  <1>10. CASE SvcGap
    <2>1. wire' \in Seq(Messages)
      BY <1>0, <1>1, <1>10, MessageType DEF Tags, SvcGap, Send
    <2>2. svc' \in SvcType
      <3>1. svc.page + 1 \in 0..MaxPages /\ svc.sent + 1 \in Nat
        BY <1>0, <1>10 DEF SvcGap, SvcType
      <3> QED
        BY <1>0, <1>10, <3>1 DEF SvcGap, SvcType
    <2> QED
      BY <2>1, <2>2 DEF ServiceTypeOK, SvcType
  <1>11. CASE SvcDuplicate
    <2>1. wire' \in Seq(Messages)
      BY <1>0, <1>1, <1>11, MessageType DEF Tags, SvcDuplicate, Send
    <2>2. svc' \in SvcType
      BY <1>0, <1>11 DEF SvcDuplicate, SvcType
    <2> QED
      BY <2>1, <2>2 DEF ServiceTypeOK, SvcType
  <1> QED
    BY <1>2, <1>3, <1>4, <1>5, <1>6, <1>7, <1>8, <1>9, <1>10, <1>11 DEF Service

\* Every action keeps every variable in its type.
LEMMA TypeStep == TypeInv /\ [Next]_vars => TypeOK'
  <1> SUFFICES ASSUME TypeInv, [Next]_vars PROVE TypeOK'
    OBVIOUS
  <1>0. TypeOK /\ BusyHasHead /\ CompleteHasSummary
    BY DEF TypeInv
  <1>1. CASE ReceiveNotification
    <2>1. Head(wire) \in Messages /\ ServiceTypeOK' /\ SessionTypeOK' /\ SinkTypeOK'
      BY <1>0, <1>1, SeqType, Frame DEF ReceiveNotification, TypeOK, ServiceTypeOK
    <2>2. CASE route = "active" /\ OnWire(Head(wire)) /\ UNCHANGED orphans
      <3>1. RouteTypeOK'
        BY <1>0, <1>1, <2>2 DEF ReceiveNotification, TypeOK, RouteTypeOK
      <3> QED
        BY <1>0, <2>1, <2>2, <3>1, OnWireType DEF TypeOK
    <2>3. CASE route = "retired" /\ UNCHANGED <<queryVars, laneVars, controlVars, orphans>>
      <3>1. RouteTypeOK'
        BY <1>0, <1>1, <2>3 DEF ReceiveNotification, TypeOK, RouteTypeOK
      <3> QED
        BY <1>0, <2>1, <2>3, <3>1, Frame DEF TypeOK
    <2>4. CASE /\ orphans' = IF Len(orphans) < OrphanCap
                               THEN Append(orphans, Head(wire)) ELSE orphans
               /\ UNCHANGED <<queryVars, laneVars, controlVars>>
      <3>1. RouteTypeOK'
        BY <1>0, <1>1, <2>1, <2>4, SeqType DEF ReceiveNotification, TypeOK, RouteTypeOK
      <3> QED
        BY <1>0, <2>1, <2>4, <3>1, Frame DEF TypeOK
    <2> QED
      BY <1>1, <2>2, <2>3, <2>4 DEF ReceiveNotification
  <1>2. CASE ReceiveAccepted
    <2>1. QueryTypeOK'
      BY <1>0, <1>2 DEF ReceiveAccepted, SettleAccepted, Acceptance, TypeOK, QueryTypeOK
    <2>2. RouteTypeOK' /\ ServiceTypeOK'
      BY <1>0, <1>2, SeqType DEF ReceiveAccepted, TypeOK, RouteTypeOK, ServiceTypeOK
    <2> QED
      BY <1>0, <1>2, <2>1, <2>2, Frame DEF ReceiveAccepted, TypeOK
  <1>3. CASE ReceiveRejected
    <2>1. ServiceTypeOK'
      BY <1>0, <1>3, SeqType DEF ReceiveRejected, TypeOK, ServiceTypeOK
    <2>2. accepted' \in Acceptance /\ errorSeen' \in BOOLEAN /\ "failed" \in Statuses
      BY <1>0, <1>3 DEF ReceiveRejected, SettleAccepted, Acceptance, Statuses, TypeOK, QueryTypeOK
    <2>3. /\ terminalSent' \in BOOLEAN
          /\ summary' \in Statuses \cup {"none"}
          /\ cancelDeadlineTimer' \in BOOLEAN
          /\ lane' \in Seq(Steps)
      <3>1. CASE UNCHANGED <<terminalSent, summary, cancelDeadlineTimer, lane>>
        BY <1>0, <3>1 DEF TypeOK, QueryTypeOK, LaneTypeOK, ControlTypeOK
      <3>2. CASE FinishTerminal("failed")
        BY <1>0, <2>2, <3>2, CompleteStepType DEF FinishTerminal, Enqueue, TypeOK
      <3> QED
        BY <1>3, <3>1, <3>2 DEF ReceiveRejected
    <2>4. QueryTypeOK' /\ LaneTypeOK' /\ ControlTypeOK'
      BY <1>0, <1>3, <2>2, <2>3
      DEF ReceiveRejected, TypeOK, QueryTypeOK, LaneTypeOK, ControlTypeOK
    <2> QED
      BY <1>0, <1>3, <2>1, <2>4, Frame DEF ReceiveRejected, TypeOK
  <1>4. CASE StartStep
    <2>1. SinkTypeOK'
      BY <1>0, <1>4, SeqType DEF StartStep, TypeOK, LaneTypeOK, SinkTypeOK
    <2>2. LaneTypeOK'
      BY <1>0, <1>4 DEF StartStep, TypeOK, LaneTypeOK
    <2> QED
      BY <1>0, <1>4, <2>1, <2>2, Frame DEF StartStep, TypeOK
  <1>5. CASE FinishStep
    <2>1. Head(lane) \in Steps /\ LaneTypeOK'
      BY <1>0, <1>5, SeqType DEF FinishStep, BusyHasHead, TypeOK, LaneTypeOK
    <2>2. highestAckedPageSeq' \in Nat \cup {-1} /\ SinkTypeOK'
      BY <1>0, <1>5, <2>1
      DEF FinishStep, AckPage, CompletePage, Steps, TypeOK, QueryTypeOK, SinkTypeOK
    <2>3. completion' \in Statuses \cup {"pending"} /\ RouteTypeOK'
      <3>1. CASE Head(lane).kind = "complete"
        <4>1. ResolveCompletion(summary) /\ UnregisterQuery /\ UNCHANGED draining
          BY <1>5, <3>1 DEF FinishStep
        <4>2. summary # "none"
          BY <1>0, <1>5, <3>1
          DEF FinishStep, BusyHasHead, CompleteHasSummary, TypeOK, LaneTypeOK
        <4>3. completion' \in Statuses \cup {"pending"}
          BY <1>0, <4>1, <4>2 DEF ResolveCompletion, TypeOK, QueryTypeOK
        <4>4. RouteTypeOK'
          BY <1>0, <4>1 DEF UnregisterQuery, TypeOK, RouteTypeOK
        <4> QED
          BY <4>3, <4>4
      <3>2. CASE Head(lane).kind # "complete"
        <4>1. UNCHANGED completion /\ UNCHANGED routeVars
          BY <1>5, <3>2 DEF FinishStep, routeVars
        <4> QED
          BY <1>0, <4>1, Frame DEF TypeOK, QueryTypeOK
      <3> QED
        BY <3>1, <3>2
    <2>4. QueryTypeOK'
      BY <1>0, <1>5, <2>2, <2>3 DEF FinishStep, TypeOK, QueryTypeOK
    <2> QED
      BY <1>0, <1>5, <2>1, <2>2, <2>3, <2>4, Frame DEF FinishStep, TypeOK
  <1>6. CASE FailStep
    <2>1. Head(lane) \in Steps /\ LaneTypeOK' /\ SinkTypeOK'
      <3>1. Head(lane) \in Steps /\ LaneTypeOK'
        BY <1>0, <1>6, SeqType DEF FailStep, BusyHasHead, TypeOK, LaneTypeOK
      <3>2. SinkTypeOK'
        BY <1>0, <1>6 DEF FailStep, TypeOK, SinkTypeOK
      <3> QED
        BY <3>1, <3>2
    <2>2. completion' \in Statuses \cup {"pending"} /\ RouteTypeOK' /\ terminalSent' \in BOOLEAN
          /\ cancelDeadlineTimer' \in BOOLEAN
      <3>1. CASE Head(lane).kind = "complete"
        <4>1. /\ ResolveCompletion(summary) /\ UnregisterQuery
              /\ UNCHANGED <<draining, terminalSent, cancelDeadlineTimer>>
          BY <1>6, <3>1 DEF FailStep
        <4>2. summary # "none"
          BY <1>0, <1>6, <3>1
          DEF FailStep, BusyHasHead, CompleteHasSummary, TypeOK, LaneTypeOK
        <4>3. completion' \in Statuses \cup {"pending"}
          BY <1>0, <4>1, <4>2 DEF ResolveCompletion, TypeOK, QueryTypeOK
        <4>4. RouteTypeOK'
          BY <1>0, <4>1 DEF UnregisterQuery, TypeOK, RouteTypeOK
        <4> QED
          BY <1>0, <4>1, <4>3, <4>4 DEF TypeOK, QueryTypeOK, ControlTypeOK
      <3>2. CASE Head(lane).kind # "complete" /\ ~terminalSent
        <4>1. /\ ResolveCompletion("sinkError") /\ UnregisterQuery
              /\ terminalSent' = TRUE /\ cancelDeadlineTimer' = FALSE /\ UNCHANGED draining
          BY <1>6, <3>2 DEF FailStep
        <4>2. completion' \in Statuses \cup {"pending"}
          BY <1>0, <4>1 DEF ResolveCompletion, Statuses, TypeOK, QueryTypeOK
        <4>3. RouteTypeOK'
          BY <1>0, <4>1 DEF UnregisterQuery, TypeOK, RouteTypeOK
        <4> QED
          BY <4>1, <4>2, <4>3
      <3>3. CASE Head(lane).kind # "complete" /\ terminalSent
        <4>1. UNCHANGED <<terminalSent, cancelDeadlineTimer, completion>> /\ UNCHANGED routeVars
          BY <1>6, <3>3 DEF FailStep, routeVars
        <4> QED
          BY <1>0, <4>1, Frame DEF TypeOK, QueryTypeOK, ControlTypeOK
      <3> QED
        BY <3>1, <3>2, <3>3
    <2>3. QueryTypeOK' /\ ControlTypeOK'
      BY <1>0, <1>6, <2>2 DEF FailStep, TypeOK, QueryTypeOK, ControlTypeOK
    <2> QED
      BY <1>0, <1>6, <2>1, <2>2, <2>3, Frame DEF FailStep, TypeOK
  <1>7. CASE Cancel \/ ProceedCancel
    <2>1. ControlTypeOK'
      BY <1>0, <1>7 DEF Cancel, ProceedCancel, CallStates, TypeOK, ControlTypeOK
    <2> QED
      BY <1>0, <1>7, <2>1, Frame DEF Cancel, ProceedCancel, TypeOK
  <1>8. CASE SettleCancel
    <2>1. cancelDeadlineTimer' \in BOOLEAN
      BY <1>8, Zenon DEF SettleCancel, ArmCancelDeadline
    <2>2. ControlTypeOK'
      BY <1>0, <1>8, <2>1 DEF SettleCancel, CallStates, TypeOK, ControlTypeOK
    <2> QED
      BY <1>0, <1>8, <2>2, Frame DEF SettleCancel, TypeOK
  <1>9. CASE CancelDeadline
    <2>1. SynthesizeTerminal("canceled") /\ "canceled" \in Statuses
      BY <1>9 DEF CancelDeadline, Statuses
    <2>2. QueryTypeOK' /\ LaneTypeOK' /\ cancelDeadlineTimer' \in BOOLEAN
      BY <1>0, <1>9, <2>1, SynthesizeType DEF CancelDeadline
    <2>3. ControlTypeOK'
      BY <1>0, <1>9, <2>2 DEF CancelDeadline, TypeOK, ControlTypeOK
    <2> QED
      BY <1>0, <1>9, <2>2, <2>3, Frame DEF CancelDeadline, TypeOK
  <1>10. CASE Dispose \/ ProceedDispose \/ DisposeAnswered
    <2>1. ControlTypeOK'
      BY <1>0, <1>10
      DEF Dispose, ProceedDispose, DisposeAnswered, CallStates, TypeOK, ControlTypeOK
    <2> QED
      BY <1>0, <1>10, <2>1, Frame DEF Dispose, ProceedDispose, DisposeAnswered, TypeOK
  <1>11. CASE DisposeFailed
    <2>1. SynthesizeTerminal("disposed") /\ "disposed" \in Statuses
      BY <1>11 DEF DisposeFailed, Statuses
    <2>2. QueryTypeOK' /\ LaneTypeOK' /\ cancelDeadlineTimer' \in BOOLEAN
      BY <1>0, <1>11, <2>1, SynthesizeType DEF DisposeFailed
    <2>3. ControlTypeOK'
      BY <1>0, <1>11, <2>2 DEF DisposeFailed, CallStates, TypeOK, ControlTypeOK
    <2> QED
      BY <1>0, <1>11, <2>2, <2>3, Frame DEF DisposeFailed, TypeOK
  <1>12. CASE DrainDeadline
    <2>1. SynthesizeTerminal("disposed") /\ "disposed" \in Statuses
      BY <1>12 DEF DrainDeadline, Statuses
    <2>2. QueryTypeOK' /\ LaneTypeOK' /\ cancelDeadlineTimer' \in BOOLEAN
      BY <1>0, <1>12, <2>1, SynthesizeType DEF DrainDeadline
    <2>3. ControlTypeOK'
      BY <1>0, <1>12, <2>2 DEF DrainDeadline, TypeOK, ControlTypeOK
    <2> QED
      BY <1>0, <1>12, <2>2, <2>3, Frame DEF DrainDeadline, TypeOK
  <1>13. CASE LoseSession
    <2>1. SynthesizeTerminal("connectionLost") /\ "connectionLost" \in Statuses
      BY <1>13 DEF LoseSession, Statuses
    <2>2. QueryTypeOK' /\ LaneTypeOK' /\ cancelDeadlineTimer' \in BOOLEAN
      BY <1>0, <1>13, <2>1, SynthesizeType DEF LoseSession
    <2>3. ControlTypeOK' /\ SessionTypeOK'
      BY <1>0, <1>13, <2>2 DEF LoseSession, TypeOK, ControlTypeOK, SessionTypeOK
    <2> QED
      BY <1>0, <1>13, <2>2, <2>3, Frame DEF LoseSession, TypeOK
  <1>14. CASE CloseSession
    <2>1. SessionTypeOK'
      BY <1>14 DEF CloseSession, SessionTypeOK
    <2> QED
      BY <1>0, <1>14, <2>1, Frame DEF CloseSession, TypeOK
  <1>15. CASE FinishClose
    <2>1. SynthesizeTerminal("canceled") /\ "canceled" \in Statuses
      BY <1>15 DEF FinishClose, Statuses
    <2>2. QueryTypeOK' /\ LaneTypeOK' /\ cancelDeadlineTimer' \in BOOLEAN
      BY <1>0, <1>15, <2>1, SynthesizeType DEF FinishClose
    <2>3. ControlTypeOK' /\ SessionTypeOK'
      BY <1>0, <1>15, <2>2 DEF FinishClose, TypeOK, ControlTypeOK, SessionTypeOK
    <2> QED
      BY <1>0, <1>15, <2>2, <2>3, Frame DEF FinishClose, TypeOK
  <1>16. CASE draining /\ DrainOrphan
    <2>1. Head(orphans) \in Messages /\ OnWire(Head(orphans)) /\ RouteTypeOK'
      BY <1>0, <1>16, SeqType DEF DrainOrphan, TypeOK, RouteTypeOK
    <2> QED
      BY <1>0, <1>16, <2>1, OnWireType, Frame DEF DrainOrphan, TypeOK
  <1>17. CASE draining /\ FinishRegister
    <2>1. LaneTypeOK' /\ RouteTypeOK'
      BY <1>0, <1>17, StepType, SeqType
      DEF FinishRegister, Enqueue, TypeOK, LaneTypeOK, RouteTypeOK
    <2> QED
      BY <1>0, <1>17, <2>1, Frame DEF FinishRegister, TypeOK
  <1>18. CASE Service
    <2>1. clientVars' = clientVars
      BY <1>18
      DEF Service, SvcStart, SvcReject, SvcRespond, SvcResultSet, SvcRows, SvcMessage, SvcComplete,
          SvcAbort, SvcGap, SvcDuplicate
    <2>2. ServiceTypeOK'
      BY <1>0, <1>18, ServiceStepType DEF TypeOK
    <2> QED
      BY <1>0, <2>1, <2>2, Frame DEF clientVars, TypeOK
  <1>19. CASE UNCHANGED vars
    BY <1>0, <1>19, Frame DEF vars, TypeOK
  <1> QED
    BY <1>1, <1>2, <1>3, <1>4, <1>5, <1>6, <1>7, <1>8, <1>9, <1>10, <1>11, <1>12, <1>13, <1>14,
       <1>15, <1>16, <1>17, <1>18, <1>19
    DEF Next, Register, Client, Environment, Finished

-----------------------------------------------------------------------------
(* The inductive invariant: what the lane and the sink's log look like around *)
(* the terminal                                                              *)

\* The callback in flight is the last one logged.
HeadLogged == sinkBusy => sinkLog # <<>> /\ sinkLog[Len(sinkLog)] = lane[1]

\* Nothing happens to a query whose acceptance has not settled.
PendingIsIdle ==
    /\ accepted = "pending" => lane = <<>> /\ sinkLog = <<>> /\ ~terminalSent /\ route # "active"
    /\ draining => accepted # "pending"

\* Behind a queued onComplete only a late onAccepted may wait.
CompleteIsLast ==
    \A i, j \in DOMAIN lane : i < j /\ lane[i].kind = "complete" => lane[j].kind = "accepted"

\* Once the sink was told the end, only onAccepted is left to call.
LogClosed ==
    \A i \in DOMAIN sinkLog : sinkLog[i].kind = "complete" =>
        /\ terminalSent
        /\ summary # "none"
        /\ \A j \in DOMAIN sinkLog : j > i => sinkLog[j].kind = "accepted"
        /\ \A k \in DOMAIN lane : lane[k].kind = "accepted" \/ (k = 1 /\ sinkBusy)

\* The two ways to settle: after onComplete, or by a sink error without one.
SettledWell ==
    /\ ~terminalSent => summary = "none" /\ completion = "pending"
    /\ summary # "sinkError"
    /\ completion # "pending" =>
         \/ /\ completion = summary
            /\ \E i \in DOMAIN sinkLog : sinkLog[i].kind = "complete"
         \/ /\ completion = "sinkError"
            /\ summary = "none"

\* A rejected or aborted query is terminal and has no data anywhere.
UnacceptedIsQuiet ==
    accepted \in {"rejected", "aborted"} =>
        /\ terminalSent
        /\ \A i \in DOMAIN lane : lane[i].kind \notin DataKinds
        /\ \A i \in DOMAIN sinkLog : sinkLog[i].kind \notin DataKinds

LaneInv ==
    /\ BusyHasHead
    /\ CompleteHasSummary
    /\ HeadLogged
    /\ PendingIsIdle
    /\ CompleteIsLast
    /\ LogClosed
    /\ SettledWell
    /\ UnacceptedIsQuiet

IInv == TypeOK /\ LaneInv

-----------------------------------------------------------------------------
(* The invariant is inductive *)

\* What LaneInv speaks of, besides the lane itself.
laneContext == <<accepted, terminalSent, summary, completion, sinkBusy, sinkLog, route, draining>>

\* An action that touches none of it.
LEMMA LaneFrame == LaneInv /\ UNCHANGED <<laneContext, lane>> => LaneInv'
  BY DEF LaneInv, BusyHasHead, CompleteHasSummary, HeadLogged, PendingIsIdle, CompleteIsLast,
         LogClosed, SettledWell, UnacceptedIsQuiet, laneContext

\* finishTerminal, in an action that may settle acceptance first.
LEMMA TerminalStep ==
    ASSUME IInv, NEW status \in Statuses \ {"sinkError"}, FinishTerminal(status),
           accepted' # "pending", accepted # "pending" => accepted' = accepted,
           accepted' \in Acceptance,
           UNCHANGED <<completion, sinkBusy, sinkLog, route, draining>>
    PROVE  LaneInv'
  <1> DEFINE last == Step("complete", 0, 0, 0)
  <1>1. /\ lane \in Seq(Steps) /\ sinkLog \in Seq(Steps) /\ last \in Steps
        /\ lane' = Append(lane, last) /\ ~terminalSent /\ terminalSent' /\ summary' = status
        /\ status # "none" /\ last.kind = "complete"
    BY StepType
    DEF IInv, TypeOK, LaneTypeOK, SinkTypeOK, FinishTerminal, Enqueue, Statuses, Step
  <1>2. /\ DOMAIN lane' = 1..(Len(lane) + 1) /\ DOMAIN lane = 1..Len(lane) /\ Len(lane) \in Nat
        /\ \A i \in 1..Len(lane) : lane'[i] = lane[i]
        /\ lane'[Len(lane) + 1].kind = "complete"
        /\ lane' # <<>>
    BY <1>1, AppendElements
  <1>3. \A i \in DOMAIN lane : lane[i].kind # "complete"
    BY <1>1 DEF IInv, LaneInv, CompleteHasSummary
  <1>4. \A i \in DOMAIN sinkLog : sinkLog[i].kind # "complete"
    BY <1>1 DEF IInv, LaneInv, LogClosed
  <1>5. BusyHasHead' /\ CompleteHasSummary'
    BY <1>1, <1>2 DEF BusyHasHead, CompleteHasSummary
  <1>6. HeadLogged'
    BY <1>2 DEF IInv, LaneInv, HeadLogged, BusyHasHead
  <1>7. PendingIsIdle'
    BY DEF PendingIsIdle
  <1>8. CompleteIsLast'
    BY <1>2, <1>3 DEF CompleteIsLast
  <1>9. LogClosed'
    BY <1>4 DEF LogClosed
  <1>10. SettledWell'
    BY <1>1 DEF IInv, LaneInv, SettledWell
  <1>11. UnacceptedIsQuiet'
    <2>1. CASE accepted = "pending"
      BY <1>1, <1>2, <2>1 DEF IInv, LaneInv, PendingIsIdle, UnacceptedIsQuiet, DataKinds
    <2>2. CASE accepted # "pending"
      BY <1>1, <1>2, <2>2 DEF IInv, LaneInv, UnacceptedIsQuiet, DataKinds
    <2> QED
      BY <2>1, <2>2
  <1> QED
    BY <1>5, <1>6, <1>7, <1>8, <1>9, <1>10, <1>11 DEF LaneInv

\* synthesizeTerminal, with the rest of what LaneInv speaks of kept.
LEMMA SynthesizeStep ==
    ASSUME IInv, NEW status \in Statuses \ {"sinkError"}, SynthesizeTerminal(status),
           UNCHANGED <<completion, sinkBusy, sinkLog, route, draining>>
    PROVE  LaneInv'
  <1>1. CASE UNCHANGED <<accepted, terminalSent, summary, cancelDeadlineTimer, lane>>
    BY <1>1, LaneFrame DEF IInv, laneContext
  <1>2. CASE SettleAccepted("aborted") /\ FinishTerminal(status)
    BY <1>2, TerminalStep DEF SettleAccepted, IInv, TypeOK, QueryTypeOK, Acceptance
  <1> QED
    BY <1>1, <1>2 DEF SynthesizeTerminal

\* A data callback queued for a query that is not terminal.
LEMMA DataStep ==
    ASSUME IInv, ~terminalSent, accepted # "pending",
           NEW step \in Steps, step.kind \in DataKinds, lane' = Append(lane, step),
           UNCHANGED laneContext
    PROVE  LaneInv'
  <1>1. lane \in Seq(Steps)
    BY DEF IInv, TypeOK, LaneTypeOK
  <1>2. /\ DOMAIN lane' = 1..(Len(lane) + 1) /\ DOMAIN lane = 1..Len(lane) /\ Len(lane) \in Nat
        /\ \A i \in 1..Len(lane) : lane'[i] = lane[i]
        /\ lane'[Len(lane) + 1] = step
        /\ lane' # <<>>
    BY <1>1, AppendElements
  <1>3. \A i \in DOMAIN lane : lane[i].kind # "complete"
    BY DEF IInv, LaneInv, CompleteHasSummary
  <1>4. \A i \in DOMAIN sinkLog : sinkLog[i].kind # "complete"
    BY DEF IInv, LaneInv, LogClosed
  <1>5. BusyHasHead' /\ CompleteHasSummary' /\ CompleteIsLast'
    BY <1>2, <1>3 DEF BusyHasHead, CompleteHasSummary, CompleteIsLast, DataKinds
  <1>6. HeadLogged'
    BY <1>2 DEF IInv, LaneInv, HeadLogged, BusyHasHead, laneContext
  <1>7. PendingIsIdle'
    BY DEF IInv, LaneInv, PendingIsIdle, laneContext
  <1>8. LogClosed'
    BY <1>4 DEF LogClosed, laneContext
  <1>9. SettledWell' /\ UnacceptedIsQuiet'
    BY DEF IInv, LaneInv, SettledWell, UnacceptedIsQuiet, laneContext
  <1> QED
    BY <1>5, <1>6, <1>7, <1>8, <1>9 DEF LaneInv

\* A notification handed to a lane whose acceptance settled.
LEMMA OnWireStep ==
    ASSUME IInv, accepted # "pending", NEW m \in Messages, OnWire(m),
           UNCHANGED <<sinkLog, route, draining>>
    PROVE  LaneInv'
  <1>1. m.set \in Nat /\ m.seq \in Nat /\ receivedPageOrdinal \in Nat
    BY DEF Messages, IInv, TypeOK, QueryTypeOK
  <1>2. CASE DropAfterTerminal
    BY <1>2, LaneFrame DEF DropAfterTerminal, OnWire, IInv, laneContext
  <1>3. CASE OnWireResultSet(m)
    <2>1. Step("set", m.set, 0, 0) \in Steps /\ Step("set", m.set, 0, 0).kind \in DataKinds
      BY <1>1, StepType DEF Step, DataKinds
    <2> QED
      BY <1>3, <2>1, DataStep DEF OnWireResultSet, Enqueue, OnWire, laneContext
  <1>4. CASE OnWireRows(m) /\ ledgers[m.set] = m.seq
    <2> DEFINE page == Step("page", m.set, m.seq, receivedPageOrdinal)
    <2>1. page \in Steps /\ page.kind \in DataKinds
      BY <1>1, StepType DEF Step, DataKinds
    <2>2. ~terminalSent /\ lane' = Append(lane, page) /\ UNCHANGED laneContext
      BY <1>4 DEF OnWireRows, Enqueue, OnWire, laneContext
    <2> QED
      BY <2>1, <2>2, DataStep
  <1>5. CASE OnWireRows(m) /\ ledgers[m.set] # m.seq
    <2>1. FinishTerminal("protocolViolation") /\ "protocolViolation" \in Statuses \ {"sinkError"}
      BY <1>5 DEF OnWireRows, Statuses
    <2> QED
      BY <2>1, TerminalStep DEF OnWire, IInv, TypeOK, QueryTypeOK
  <1>6. CASE OnWireMessage(m)
    <2>1. Step("message", 0, 0, 0) \in Steps /\ Step("message", 0, 0, 0).kind \in DataKinds
      BY StepType DEF Step, DataKinds
    <2> QED
      BY <1>6, <2>1, DataStep DEF OnWireMessage, Enqueue, OnWire, laneContext
  <1>7. CASE OnWireComplete(m)
    <2>1. CompletionOf(m.tag) \in Statuses \ {"sinkError"}
      BY DEF CompletionOf, Statuses
    <2> QED
      BY <1>7, <2>1, TerminalStep DEF OnWireComplete, OnWire, IInv, TypeOK, QueryTypeOK
  <1> QED
    BY <1>2, <1>3, <1>4, <1>5, <1>6, <1>7 DEF OnWire, OnWireRows

\* enqueue's next callback is invoked: it moves into the log and stays the head.
LEMMA StartStepInv == IInv /\ StartStep => LaneInv'
  <1> SUFFICES ASSUME IInv, StartStep PROVE LaneInv'
    OBVIOUS
  <1>1. /\ lane \in Seq(Steps) /\ sinkLog \in Seq(Steps) /\ lane # <<>> /\ ~sinkBusy
        /\ Head(lane) = lane[1] /\ Head(lane) \in Steps /\ sinkBusy' /\ lane' = lane
        /\ sinkLog' = Append(sinkLog, lane[1])
        /\ UNCHANGED <<accepted, terminalSent, summary, completion, route, draining>>
    BY SeqType, TailElements
    DEF IInv, TypeOK, LaneTypeOK, SinkTypeOK, StartStep, queryVars, routeVars
  <1>2. /\ Len(sinkLog') = Len(sinkLog) + 1 /\ Len(sinkLog) \in Nat
        /\ DOMAIN sinkLog' = 1..(Len(sinkLog) + 1) /\ DOMAIN sinkLog = 1..Len(sinkLog)
        /\ \A i \in 1..Len(sinkLog) : sinkLog'[i] = sinkLog[i]
        /\ sinkLog'[Len(sinkLog) + 1] = lane[1] /\ sinkLog' # <<>>
    BY <1>1, AppendElements
  <1>3. DOMAIN lane = 1..Len(lane) /\ Len(lane) \in Nat \ {0} /\ 1 \in DOMAIN lane
    BY <1>1, TailElements
  <1>4. BusyHasHead' /\ CompleteHasSummary' /\ CompleteIsLast'
    BY <1>1 DEF IInv, LaneInv, BusyHasHead, CompleteHasSummary, CompleteIsLast
  <1>5. HeadLogged'
    BY <1>1, <1>2 DEF HeadLogged
  <1>6. PendingIsIdle'
    BY <1>1 DEF IInv, LaneInv, PendingIsIdle
  <1>7. LogClosed'
    <2> SUFFICES ASSUME NEW i \in DOMAIN sinkLog', sinkLog'[i].kind = "complete"
                 PROVE  /\ terminalSent' /\ summary' # "none"
                        /\ \A j \in DOMAIN sinkLog' : j > i => sinkLog'[j].kind = "accepted"
                        /\ \A k \in DOMAIN lane' : lane'[k].kind = "accepted" \/ (k = 1 /\ sinkBusy')
      BY DEF LogClosed
    <2>1. CASE i \in DOMAIN sinkLog
      <3>1. /\ terminalSent /\ summary # "none"
            /\ \A j \in DOMAIN sinkLog : j > i => sinkLog[j].kind = "accepted"
            /\ \A k \in DOMAIN lane : lane[k].kind = "accepted"
        BY <1>1, <1>2, <2>1 DEF IInv, LaneInv, LogClosed
      <3> QED
        BY <1>1, <1>2, <1>3, <3>1
    <2>2. CASE i = Len(sinkLog) + 1
      <3>1. lane[1].kind = "complete"
        BY <1>2, <2>2
      <3>2. terminalSent /\ summary # "none"
        BY <1>3, <3>1 DEF IInv, LaneInv, CompleteHasSummary
      <3>3. \A k \in DOMAIN lane : k > 1 => lane[k].kind = "accepted"
        BY <1>3, <3>1 DEF IInv, LaneInv, CompleteIsLast
      <3> QED
        BY <1>1, <1>2, <1>3, <2>2, <3>2, <3>3
    <2> QED
      BY <1>2, <2>1, <2>2
  <1>8. SettledWell'
    BY <1>1, <1>2 DEF IInv, LaneInv, SettledWell
  <1>9. UnacceptedIsQuiet'
    BY <1>1, <1>2, <1>3 DEF IInv, LaneInv, UnacceptedIsQuiet
  <1> QED
    BY <1>4, <1>5, <1>6, <1>7, <1>8, <1>9 DEF LaneInv

\* The callback settled: its step leaves the lane.  A finished onComplete, or a
\* failed callback of a query that was not terminal, settles the handle.
LEMMA PopStepInv ==
    ASSUME IInv, sinkBusy, sinkBusy' = FALSE, lane' = Tail(lane),
           UNCHANGED <<accepted, summary, sinkLog, draining>>,
           route' = "active" => route = "active",
           \/ /\ lane[1].kind = "complete"
              /\ completion' = IF completion = "pending" THEN summary ELSE completion
              /\ UNCHANGED terminalSent
           \/ /\ lane[1].kind # "complete"
              /\ UNCHANGED <<completion, terminalSent>>
           \/ /\ lane[1].kind # "complete"
              /\ ~terminalSent
              /\ terminalSent' = TRUE
              /\ completion' = "sinkError"
    PROVE  LaneInv'
  <1>1. lane \in Seq(Steps) /\ sinkLog \in Seq(Steps) /\ lane # <<>>
    BY DEF IInv, TypeOK, LaneTypeOK, SinkTypeOK, LaneInv, BusyHasHead
  <1>2. /\ Len(lane) \in Nat \ {0} /\ DOMAIN lane = 1..Len(lane)
        /\ DOMAIN lane' = 1..(Len(lane) - 1)
        /\ \A i \in 1..(Len(lane) - 1) : lane'[i] = lane[i + 1]
    BY <1>1, TailElements
  <1>3. terminalSent => terminalSent'
    OBVIOUS
  <1>4. BusyHasHead' /\ HeadLogged'
    BY DEF BusyHasHead, HeadLogged
  <1>5. CompleteHasSummary'
    BY <1>2, <1>3 DEF IInv, LaneInv, CompleteHasSummary
  <1>6. PendingIsIdle'
    BY <1>1 DEF IInv, LaneInv, PendingIsIdle
  <1>7. CompleteIsLast'
    <2> SUFFICES ASSUME NEW i \in DOMAIN lane', NEW j \in DOMAIN lane', i < j,
                        lane'[i].kind = "complete"
                 PROVE  lane'[j].kind = "accepted"
      BY DEF CompleteIsLast
    <2>1. i + 1 \in DOMAIN lane /\ j + 1 \in DOMAIN lane /\ i + 1 < j + 1
      BY <1>2
    <2> QED
      BY <1>2, <2>1 DEF IInv, LaneInv, CompleteIsLast
  <1>8. LogClosed'
    <2> SUFFICES ASSUME NEW i \in DOMAIN sinkLog, sinkLog[i].kind = "complete"
                 PROVE  /\ terminalSent' /\ summary # "none"
                        /\ \A j \in DOMAIN sinkLog : j > i => sinkLog[j].kind = "accepted"
                        /\ \A k \in DOMAIN lane' : lane'[k].kind = "accepted"
      BY DEF LogClosed
    <2>1. /\ terminalSent /\ summary # "none"
          /\ \A j \in DOMAIN sinkLog : j > i => sinkLog[j].kind = "accepted"
          /\ \A k \in DOMAIN lane : k > 1 => lane[k].kind = "accepted"
      BY <1>2 DEF IInv, LaneInv, LogClosed
    <2> QED
      BY <1>2, <1>3, <2>1
  <1>9. SettledWell'
    <2>1. CASE lane[1].kind = "complete"
      <3>1. /\ sinkLog # <<>> /\ sinkLog[Len(sinkLog)].kind = "complete"
            /\ Len(sinkLog) \in DOMAIN sinkLog
        BY <1>1, <2>1 DEF IInv, LaneInv, HeadLogged
      <3>2. terminalSent /\ summary # "none"
        BY <1>2, <2>1 DEF IInv, LaneInv, CompleteHasSummary
      <3> QED
        BY <2>1, <3>1, <3>2 DEF IInv, LaneInv, SettledWell
    <2>2. CASE lane[1].kind # "complete" /\ UNCHANGED <<completion, terminalSent>>
      BY <2>2 DEF IInv, LaneInv, SettledWell
    <2>3. CASE /\ lane[1].kind # "complete" /\ ~terminalSent
               /\ terminalSent' = TRUE /\ completion' = "sinkError"
      BY <2>3 DEF IInv, LaneInv, SettledWell
    <2> QED
      BY <2>1, <2>2, <2>3
  <1>10. UnacceptedIsQuiet'
    BY <1>2, <1>3 DEF IInv, LaneInv, UnacceptedIsQuiet
  <1> QED
    BY <1>4, <1>5, <1>6, <1>7, <1>8, <1>9, <1>10 DEF LaneInv

\* start() queues onAccepted last, behind whatever registerQuery replayed.
LEMMA FinishRegisterInv == IInv /\ draining /\ FinishRegister => LaneInv'
  <1> SUFFICES ASSUME IInv, draining, FinishRegister PROVE LaneInv'
    OBVIOUS
  <1> DEFINE step == Step("accepted", 0, 0, 0)
  <1>1. /\ lane \in Seq(Steps) /\ step \in Steps /\ step.kind = "accepted"
        /\ lane' = Append(lane, step) /\ draining' = FALSE
        /\ UNCHANGED <<accepted, terminalSent, summary, completion, sinkBusy, sinkLog, route>>
    BY StepType
    DEF IInv, TypeOK, LaneTypeOK, FinishRegister, Enqueue, Step, queryVars, sinkVars
  <1>2. /\ DOMAIN lane' = 1..(Len(lane) + 1) /\ DOMAIN lane = 1..Len(lane) /\ Len(lane) \in Nat
        /\ \A i \in 1..Len(lane) : lane'[i] = lane[i]
        /\ lane'[Len(lane) + 1].kind = "accepted"
        /\ lane' # <<>>
    BY <1>1, AppendElements
  <1>3. BusyHasHead'
    BY <1>2 DEF BusyHasHead
  <1>4. CompleteHasSummary' /\ CompleteIsLast'
    BY <1>1, <1>2 DEF IInv, LaneInv, CompleteHasSummary, CompleteIsLast
  <1>5. HeadLogged'
    BY <1>1, <1>2 DEF IInv, LaneInv, HeadLogged, BusyHasHead
  <1>6. PendingIsIdle'
    BY <1>1 DEF IInv, LaneInv, PendingIsIdle
  <1>7. LogClosed'
    <2> SUFFICES ASSUME NEW i \in DOMAIN sinkLog, sinkLog[i].kind = "complete"
                 PROVE  /\ terminalSent /\ summary # "none"
                        /\ \A j \in DOMAIN sinkLog : j > i => sinkLog[j].kind = "accepted"
                        /\ \A k \in DOMAIN lane' : lane'[k].kind = "accepted" \/ (k = 1 /\ sinkBusy)
      BY <1>1 DEF LogClosed
    <2> QED
      BY <1>2 DEF IInv, LaneInv, LogClosed
  <1>8. SettledWell'
    BY <1>1 DEF IInv, LaneInv, SettledWell
  <1>9. UnacceptedIsQuiet'
    BY <1>1, <1>2 DEF IInv, LaneInv, UnacceptedIsQuiet, DataKinds
  <1> QED
    BY <1>3, <1>4, <1>5, <1>6, <1>7, <1>8, <1>9 DEF LaneInv

\* Every action keeps LaneInv.
LEMMA LaneStep == IInv /\ [Next]_vars => LaneInv'
  <1> SUFFICES ASSUME IInv, [Next]_vars PROVE LaneInv'
    OBVIOUS
  <1> USE DEF laneContext, queryVars, laneVars, controlVars, routeVars, sessionVars, serviceVars,
              sinkVars
  <1>0. TypeOK /\ LaneInv
    BY DEF IInv
  <1>1. CASE ReceiveNotification
    <2>1. CASE route = "active" /\ OnWire(Head(wire))
      <3>1. Head(wire) \in Messages
        BY <1>0, <1>1, SeqType DEF ReceiveNotification, TypeOK, ServiceTypeOK
      <3>2. accepted # "pending"
        BY <2>1 DEF IInv, LaneInv, PendingIsIdle
      <3> QED
        BY <1>1, <2>1, <3>1, <3>2, OnWireStep DEF ReceiveNotification
    <2>2. CASE UNCHANGED <<queryVars, laneVars>>
      BY <1>0, <1>1, <2>2, LaneFrame DEF ReceiveNotification
    <2> QED
      BY <1>1, <2>1, <2>2 DEF ReceiveNotification
  <1>2. CASE ReceiveAccepted
    <2>1. accepted' # "pending" /\ (accepted # "pending" => accepted' = accepted)
          /\ (accepted = "pending" => accepted' = "accepted")
      BY <1>2 DEF ReceiveAccepted, SettleAccepted
    <2>2. UNCHANGED <<lane, sinkBusy, sinkLog, terminalSent, summary, completion>>
      BY <1>2 DEF ReceiveAccepted
    <2>3. PendingIsIdle' /\ UnacceptedIsQuiet'
      BY <2>1, <2>2 DEF IInv, LaneInv, PendingIsIdle, UnacceptedIsQuiet
    <2> QED
      BY <2>2, <2>3
      DEF IInv, LaneInv, BusyHasHead, CompleteHasSummary, HeadLogged, CompleteIsLast, LogClosed,
          SettledWell
  <1>3. CASE ReceiveRejected
    <2>1. /\ accepted' # "pending" /\ (accepted # "pending" => accepted' = accepted)
          /\ accepted' \in Acceptance /\ "failed" \in Statuses \ {"sinkError"}
          /\ UNCHANGED <<completion, sinkBusy, sinkLog, route, draining>>
      BY <1>0, <1>3
      DEF ReceiveRejected, SettleAccepted, Acceptance, Statuses, TypeOK, QueryTypeOK
    <2>2. CASE terminalSent /\ UNCHANGED <<terminalSent, summary, cancelDeadlineTimer, lane>>
      <3>1. UNCHANGED accepted
        BY <2>1, <2>2 DEF IInv, LaneInv, PendingIsIdle
      <3> QED
        BY <1>0, <2>1, <2>2, <3>1, LaneFrame
    <2>3. CASE FinishTerminal("failed")
      BY <2>1, <2>3, TerminalStep
    <2> QED
      BY <1>3, <2>2, <2>3 DEF ReceiveRejected
  <1>4. CASE StartStep
    BY <1>4, StartStepInv
  <1>5. CASE FinishStep
    <2>1. lane \in Seq(Steps) /\ lane # <<>> /\ Head(lane) = lane[1]
      BY <1>0, <1>5 DEF FinishStep, TypeOK, LaneTypeOK, LaneInv, BusyHasHead
    <2>2. route' = "active" => route = "active"
      BY <1>5 DEF FinishStep, UnregisterQuery
    <2>3. /\ sinkBusy /\ sinkBusy' = FALSE /\ lane' = Tail(lane)
          /\ UNCHANGED <<accepted, summary, sinkLog, draining, terminalSent>>
      BY <1>5 DEF FinishStep
    <2>4. \/ /\ lane[1].kind = "complete"
             /\ completion' = IF completion = "pending" THEN summary ELSE completion
          \/ lane[1].kind # "complete" /\ UNCHANGED completion
      BY <1>5, <2>1 DEF FinishStep, ResolveCompletion
    <2> QED
      BY <2>2, <2>3, <2>4, PopStepInv
  <1>6. CASE FailStep
    <2>1. lane \in Seq(Steps) /\ lane # <<>> /\ Head(lane) = lane[1]
      BY <1>0, <1>6 DEF FailStep, TypeOK, LaneTypeOK, LaneInv, BusyHasHead
    <2>2. route' = "active" => route = "active"
      BY <1>6 DEF FailStep, UnregisterQuery
    <2>3. /\ sinkBusy /\ sinkBusy' = FALSE /\ lane' = Tail(lane)
          /\ UNCHANGED <<accepted, summary, sinkLog, draining>>
      BY <1>6 DEF FailStep
    <2>4. ~terminalSent => completion = "pending"
      BY DEF IInv, LaneInv, SettledWell
    <2>5. \/ /\ lane[1].kind = "complete"
             /\ completion' = IF completion = "pending" THEN summary ELSE completion
             /\ UNCHANGED terminalSent
          \/ lane[1].kind # "complete" /\ UNCHANGED <<completion, terminalSent>>
          \/ /\ lane[1].kind # "complete" /\ ~terminalSent /\ terminalSent' = TRUE
             /\ completion' = "sinkError"
      BY <1>6, <2>1, <2>4 DEF FailStep, ResolveCompletion
    <2> QED
      BY <2>2, <2>3, <2>5, PopStepInv
  <1>7. CASE Cancel \/ ProceedCancel \/ SettleCancel \/ Dispose \/ ProceedDispose \/ DisposeAnswered
             \/ CloseSession
    BY <1>0, <1>7, LaneFrame
    DEF Cancel, ProceedCancel, SettleCancel, Dispose, ProceedDispose, DisposeAnswered, CloseSession
  <1>8. CASE CancelDeadline
    <2>1. "canceled" \in Statuses \ {"sinkError"}
      BY DEF Statuses
    <2> QED
      BY <1>8, <2>1, SynthesizeStep DEF CancelDeadline
  <1>9. CASE DisposeFailed \/ DrainDeadline
    <2>1. "disposed" \in Statuses \ {"sinkError"}
      BY DEF Statuses
    <2> QED
      BY <1>9, <2>1, SynthesizeStep DEF DisposeFailed, DrainDeadline
  <1>10. CASE LoseSession
    <2>1. "connectionLost" \in Statuses \ {"sinkError"}
      BY DEF Statuses
    <2> QED
      BY <1>10, <2>1, SynthesizeStep DEF LoseSession
  <1>11. CASE FinishClose
    <2>1. "canceled" \in Statuses \ {"sinkError"}
      BY DEF Statuses
    <2> QED
      BY <1>11, <2>1, SynthesizeStep DEF FinishClose
  <1>12. CASE draining /\ DrainOrphan
    <2>1. Head(orphans) \in Messages /\ OnWire(Head(orphans))
      BY <1>0, <1>12, SeqType DEF DrainOrphan, TypeOK, RouteTypeOK
    <2>2. accepted # "pending"
      BY <1>12 DEF IInv, LaneInv, PendingIsIdle
    <2> QED
      BY <1>12, <2>1, <2>2, OnWireStep DEF DrainOrphan
  <1>13. CASE draining /\ FinishRegister
    BY <1>13, FinishRegisterInv
  <1>14. CASE Service
    <2>1. clientVars' = clientVars
      BY <1>14
      DEF Service, SvcStart, SvcReject, SvcRespond, SvcResultSet, SvcRows, SvcMessage, SvcComplete,
          SvcAbort, SvcGap, SvcDuplicate
    <2> QED
      BY <1>0, <2>1, LaneFrame DEF clientVars
  <1>15. CASE UNCHANGED vars
    BY <1>0, <1>15, LaneFrame DEF vars
  <1> QED
    BY <1>1, <1>2, <1>3, <1>4, <1>5, <1>6, <1>7, <1>8, <1>9, <1>10, <1>11, <1>12, <1>13, <1>14,
       <1>15
    DEF Next, Register, Client, Environment, Finished

-----------------------------------------------------------------------------
(* Theorems *)

\* IInv holds of every reachable state.
THEOREM Invariance == Spec => []IInv
  <1>1. Init => IInv
    <2>1. Init => TypeOK
      <3>1. Init => QueryTypeOK
        <4> SUFFICES ASSUME Init PROVE QueryTypeOK
          OBVIOUS
        <4>1. ledgers \in [ResultSets -> Nat \cup {-1}]
          <5>1. ledgers = [s \in ResultSets |-> -1]
            BY DEF Init
          <5> QED
            BY <5>1
        <4>2. receivedPageOrdinal \in Nat /\ highestAckedPageSeq \in Nat \cup {-1}
          BY DEF Init
        <4>3. /\ backendId \in BOOLEAN
              /\ accepted \in Acceptance
              /\ terminalSent \in BOOLEAN
              /\ completion \in Statuses \cup {"pending"}
              /\ summary \in Statuses \cup {"none"}
              /\ errorSeen \in BOOLEAN
          BY DEF Init, Acceptance
        <4> QED
          BY <4>1, <4>2, <4>3 DEF QueryTypeOK
      <3>2. Init => LaneTypeOK
        <4>1. Init => lane = <<>> /\ sinkBusy \in BOOLEAN
          BY DEF Init
        <4> QED
          BY <4>1, EmptySequence DEF LaneTypeOK
      <3>3. Init => ControlTypeOK
        BY DEF Init, ControlTypeOK, CallStates
      <3>4. Init => RouteTypeOK
        <4>1. Init => route = "unknown" /\ orphans = <<>> /\ draining \in BOOLEAN
          BY DEF Init
        <4> QED
          BY <4>1, EmptySequence DEF RouteTypeOK
      <3>5. Init => SessionTypeOK
        BY DEF Init, SessionTypeOK
      <3>6. Init => ServiceTypeOK
        BY BoundsAssumption DEF Init, ServiceTypeOK
      <3>7. Init => SinkTypeOK
        BY DEF Init, SinkTypeOK
      <3> QED
        BY <3>1, <3>2, <3>3, <3>4, <3>5, <3>6, <3>7 DEF TypeOK
    <2>2. Init => LaneInv
      BY DEF Init, LaneInv, BusyHasHead, CompleteHasSummary, HeadLogged, PendingIsIdle,
             CompleteIsLast, LogClosed, SettledWell, UnacceptedIsQuiet
    <2> QED
      BY <2>1, <2>2 DEF IInv
  <1>2. IInv /\ [Next]_vars => IInv'
    BY TypeStep, LaneStep DEF IInv, LaneInv, TypeInv
  <1> QED
    BY <1>1, <1>2, PTL DEF Spec

\* Every variable of the lane keeps its type, for all bounds, controls and faults.
THEOREM TypeCorrect == Spec => []TypeOK
  <1>1. IInv => TypeOK
    BY DEF IInv
  <1> QED
    BY <1>1, Invariance, PTL

\* The sink is told the end at most once and gets no data after it, however the
\* query ends: finishTerminal, terminalGuard and the lane's order suffice.
THEOREM OneTerminalHolds == Spec => []OneTerminal
  <1>1. IInv => OneTerminal
    <2> SUFFICES ASSUME IInv, NEW i \in DOMAIN sinkLog, sinkLog[i].kind = "complete"
                 PROVE  /\ \A j \in DOMAIN sinkLog : sinkLog[j].kind = "complete" => i = j
                        /\ \A j \in DOMAIN sinkLog : sinkLog[j].kind \in DataKinds => j < i
      BY DEF OneTerminal, Seen, SeenData
    <2>1. sinkLog \in Seq(Steps) /\ \A j \in DOMAIN sinkLog : j \in Nat
      BY DEF IInv, TypeOK, SinkTypeOK
    <2>2. \A j \in DOMAIN sinkLog : j > i => sinkLog[j].kind = "accepted"
      BY DEF IInv, LaneInv, LogClosed
    <2>3. ASSUME NEW j \in DOMAIN sinkLog, sinkLog[j].kind = "complete" PROVE i = j
      <3>1. i > j => sinkLog[i].kind = "accepted"
        BY <2>3 DEF IInv, LaneInv, LogClosed
      <3> QED
        BY <2>1, <2>2, <2>3, <3>1
    <2>4. ASSUME NEW j \in DOMAIN sinkLog, sinkLog[j].kind \in DataKinds PROVE j < i
      BY <2>1, <2>2, <2>4 DEF DataKinds
    <2> QED
      BY <2>3, <2>4
  <1> QED
    BY <1>1, Invariance, PTL

\* The handle settles with the outcome the sink was told, or by a sink error and
\* then the sink was told none; acceptance settled before.
THEOREM CompletionAfterSinkHolds == Spec => []CompletionAfterSink
  <1>1. IInv => CompletionAfterSink
    <2> SUFFICES ASSUME IInv, completion # "pending"
                 PROVE  /\ accepted # "pending"
                        /\ \/ completion = summary /\ Seen("complete") # {}
                           \/ completion = "sinkError" /\ Seen("complete") = {}
      BY DEF CompletionAfterSink
    <2>1. accepted # "pending"
      BY DEF IInv, LaneInv, SettledWell, PendingIsIdle
    <2>2. CASE completion = summary /\ \E i \in DOMAIN sinkLog : sinkLog[i].kind = "complete"
      BY <2>1, <2>2 DEF Seen
    <2>3. CASE completion = "sinkError" /\ summary = "none"
      BY <2>1, <2>3 DEF Seen, IInv, LaneInv, LogClosed
    <2> QED
      BY <2>2, <2>3 DEF IInv, LaneInv, SettledWell
  <1> QED
    BY <1>1, Invariance, PTL

\* A query reported rejected or aborted showed the sink no data
\* (api.ts: "rejected (no stream events), or aborted before submission").
UnacceptedShowsNothing == accepted \in {"rejected", "aborted"} => SeenData = {}

\* A query that was rejected or aborted never showed the sink any data, whatever
\* notifications were buffered for it or arrived late.
THEOREM UnacceptedShowsNothingHolds == Spec => []UnacceptedShowsNothing
  <1>1. IInv => UnacceptedShowsNothing
    BY DEF IInv, LaneInv, UnacceptedIsQuiet, UnacceptedShowsNothing, SeenData
  <1> QED
    BY <1>1, Invariance, PTL

-----------------------------------------------------------------------------
(* Acknowledgements *)

IsPage(i) == i \in DOMAIN lane /\ lane[i].kind = "page"

\* Queued pages stand in the order of their ordinals, all of them received.
OrdinalsInOrder ==
    /\ \A i \in DOMAIN lane : IsPage(i) => lane[i].ord < receivedPageOrdinal
    /\ \A i, j \in DOMAIN lane : IsPage(i) /\ IsPage(j) /\ i < j => lane[i].ord < lane[j].ord

\* Until the terminal every page received was taken by the sink or is queued.
NoPageMissing ==
    ~terminalSent =>
        \A n \in 0..(receivedPageOrdinal - 1) :
            n \in durable \/ \E i \in DOMAIN lane : IsPage(i) /\ lane[i].ord = n

AckInv == OrdinalsInOrder /\ NoPageMissing /\ AckedIsDurable

\* Queued callbacks carry numbers.
LEMMA OrdinalType ==
    ASSUME NEW s \in Seq(Steps), NEW i \in DOMAIN s
    PROVE  s[i].ord \in Nat
  <1>1. s[i] \in Steps
    OBVIOUS
  <1> QED
    BY <1>1 DEF Steps

\* Steps that leave the queue as it is, or append a callback other than a page.
LEMMA AckFrame ==
    ASSUME TypeOK, AckInv,
           UNCHANGED <<receivedPageOrdinal, highestAckedPageSeq, durable>>,
           terminalSent => terminalSent',
           \/ lane' = lane
           \/ \E step \in Steps : step.kind # "page" /\ lane' = Append(lane, step)
    PROVE  AckInv'
  <1>1. lane \in Seq(Steps)
    BY DEF TypeOK, LaneTypeOK
  <1>2. /\ \A i \in DOMAIN lane : i \in DOMAIN lane' /\ lane'[i] = lane[i]
        /\ \A i \in DOMAIN lane' : lane'[i].kind = "page" => i \in DOMAIN lane
    <2>1. CASE lane' = lane
      BY <2>1
    <2>2. ASSUME NEW step \in Steps, step.kind # "page", lane' = Append(lane, step)
          PROVE  /\ \A i \in DOMAIN lane : i \in DOMAIN lane' /\ lane'[i] = lane[i]
                 /\ \A i \in DOMAIN lane' : lane'[i].kind = "page" => i \in DOMAIN lane
      BY <1>1, <2>2, AppendElements
    <2> QED
      BY <2>1, <2>2
  <1>3. \A i : IsPage(i)' <=> IsPage(i)
    BY <1>2 DEF IsPage
  <1>4. OrdinalsInOrder'
    BY <1>2, <1>3 DEF AckInv, OrdinalsInOrder, IsPage
  <1>5. NoPageMissing'
    BY <1>2, <1>3 DEF AckInv, NoPageMissing, IsPage
  <1>6. AckedIsDurable'
    BY DEF AckInv, AckedIsDurable
  <1> QED
    BY <1>4, <1>5, <1>6 DEF AckInv

\* A page received takes the next ordinal and the last place.
LEMMA AckReceive ==
    ASSUME TypeOK, AckInv, NEW set \in Nat, NEW seq \in Nat,
           lane' = Append(lane, Step("page", set, seq, receivedPageOrdinal)),
           receivedPageOrdinal' = receivedPageOrdinal + 1,
           UNCHANGED <<highestAckedPageSeq, durable, terminalSent>>
    PROVE  AckInv'
  <1> DEFINE step == Step("page", set, seq, receivedPageOrdinal)
             last == Len(lane) + 1
  <1>1. lane \in Seq(Steps) /\ receivedPageOrdinal \in Nat
    BY DEF TypeOK, LaneTypeOK, QueryTypeOK
  <1>2. step \in Steps /\ step.kind = "page" /\ step.ord = receivedPageOrdinal
    BY <1>1, StepType DEF Step
  <1>3. /\ DOMAIN lane = 1..Len(lane) /\ Len(lane) \in Nat
        /\ DOMAIN lane' = 1..last
        /\ \A i \in DOMAIN lane : lane'[i] = lane[i]
        /\ lane'[last] = step
    BY <1>1, <1>2, AppendElements
  <1>4. /\ \A i \in DOMAIN lane' : i # last => i \in DOMAIN lane /\ i < last
        /\ \A i \in DOMAIN lane : i \in DOMAIN lane' /\ i # last
        /\ last \in DOMAIN lane'
    BY <1>3
  <1>5. \A i \in DOMAIN lane : lane[i].ord \in Nat
    BY <1>1, OrdinalType
  <1>6. OrdinalsInOrder'
    <2>1. \A i \in DOMAIN lane' : IsPage(i)' => lane'[i].ord < receivedPageOrdinal'
      BY <1>1, <1>2, <1>3, <1>4, <1>5 DEF AckInv, OrdinalsInOrder, IsPage
    <2>2. ASSUME NEW i \in DOMAIN lane', NEW j \in DOMAIN lane', IsPage(i)', IsPage(j)', i < j
          PROVE  lane'[i].ord < lane'[j].ord
      <3>1. i # last /\ i \in DOMAIN lane /\ IsPage(i) /\ lane'[i] = lane[i]
        BY <1>3, <1>4, <2>2 DEF IsPage
      <3>2. CASE j = last
        BY <1>2, <1>3, <3>1, <3>2 DEF AckInv, OrdinalsInOrder
      <3>3. CASE j # last
        BY <1>3, <1>4, <2>2, <3>1, <3>3 DEF AckInv, OrdinalsInOrder, IsPage
      <3> QED
        BY <3>2, <3>3
    <2> QED
      BY <2>1, <2>2 DEF OrdinalsInOrder
  <1>7. NoPageMissing'
    <2> SUFFICES ASSUME ~terminalSent, NEW n \in 0..receivedPageOrdinal
                 PROVE  n \in durable \/ \E i \in DOMAIN lane' : IsPage(i)' /\ lane'[i].ord = n
      BY <1>1 DEF NoPageMissing
    <2>1. CASE n = receivedPageOrdinal
      BY <1>2, <1>3, <1>4, <2>1 DEF IsPage
    <2>2. CASE n # receivedPageOrdinal
      <3>1. n \in 0..(receivedPageOrdinal - 1)
        BY <1>1, <2>2
      <3>2. n \in durable \/ \E i \in DOMAIN lane : IsPage(i) /\ lane[i].ord = n
        BY <3>1 DEF AckInv, NoPageMissing
      <3> QED
        BY <1>3, <1>4, <3>2 DEF IsPage
    <2> QED
      BY <2>1, <2>2
  <1>8. AckedIsDurable'
    BY DEF AckInv, AckedIsDurable
  <1> QED
    BY <1>6, <1>7, <1>8 DEF AckInv

\* The head leaves the lane: taken by the sink and acked, or lost with a terminal.
LEMMA AckPop ==
    ASSUME TypeOK, AckInv, lane # <<>>, lane' = Tail(lane),
           UNCHANGED receivedPageOrdinal,
           terminalSent => terminalSent',
           durable \subseteq durable',
           \/ terminalSent' /\ UNCHANGED highestAckedPageSeq
           \/ lane[1].kind = "page" => lane[1].ord \in durable',
           \/ UNCHANGED highestAckedPageSeq
           \/ ~terminalSent /\ lane[1].kind = "page" /\ highestAckedPageSeq' = lane[1].ord
              /\ lane[1].ord \in durable'
    PROVE  AckInv'
  <1>1. lane \in Seq(Steps) /\ receivedPageOrdinal \in Nat
    BY DEF TypeOK, LaneTypeOK, QueryTypeOK
  <1>2. /\ Len(lane) \in Nat \ {0} /\ DOMAIN lane = 1..Len(lane)
        /\ DOMAIN lane' = 1..(Len(lane) - 1)
        /\ \A i \in DOMAIN lane' : lane'[i] = lane[i + 1]
    BY <1>1, TailElements
  <1>3. /\ \A i \in DOMAIN lane' : i \in Nat /\ i + 1 \in DOMAIN lane /\ lane'[i] = lane[i + 1]
        /\ 1 \in DOMAIN lane
        /\ \A i \in DOMAIN lane : i # 1 => i - 1 \in DOMAIN lane' /\ lane'[i - 1] = lane[i] /\ 1 < i
    BY <1>2
  <1>4. OrdinalsInOrder'
    <2>1. \A i \in DOMAIN lane' : IsPage(i)' => IsPage(i + 1)
      BY <1>3 DEF IsPage
    <2> QED
      BY <1>3, <2>1 DEF AckInv, OrdinalsInOrder
  <1>5. ASSUME ~terminalSent, NEW n \in 0..(receivedPageOrdinal - 1), n \notin durable
        PROVE  \/ lane[1].kind = "page" /\ lane[1].ord = n
               \/ /\ \E i \in DOMAIN lane' : IsPage(i)' /\ lane'[i].ord = n
                  /\ lane[1].kind = "page" => lane[1].ord < n
    <2>1. PICK i \in DOMAIN lane : IsPage(i) /\ lane[i].ord = n
      BY <1>5 DEF AckInv, NoPageMissing
    <2>2. CASE i = 1
      BY <2>1, <2>2 DEF IsPage
    <2>3. CASE i # 1
      <3>1. i - 1 \in DOMAIN lane' /\ IsPage(i - 1)' /\ lane'[i - 1].ord = n
        BY <1>3, <2>1, <2>3 DEF IsPage
      <3>2. lane[1].kind = "page" => lane[1].ord < n
        BY <1>3, <2>1, <2>3 DEF AckInv, OrdinalsInOrder, IsPage
      <3> QED
        BY <3>1, <3>2
    <2> QED
      BY <2>2, <2>3
  <1>6. NoPageMissing'
    <2> SUFFICES ASSUME ~terminalSent', NEW n \in 0..(receivedPageOrdinal - 1), n \notin durable'
                 PROVE  \E i \in DOMAIN lane' : IsPage(i)' /\ lane'[i].ord = n
      BY DEF NoPageMissing
    <2>1. ~terminalSent /\ n \notin durable
      OBVIOUS
    <2> QED
      BY <1>5, <2>1
  <1>7. AckedIsDurable'
    <2>1. CASE UNCHANGED highestAckedPageSeq
      BY <2>1 DEF AckInv, AckedIsDurable
    <2>2. CASE ~terminalSent /\ lane[1].kind = "page" /\ highestAckedPageSeq' = lane[1].ord
               /\ lane[1].ord \in durable'
      <3>1. lane[1].ord \in Nat /\ lane[1].ord < receivedPageOrdinal
        BY <1>1, <1>3, <2>2, OrdinalType DEF AckInv, OrdinalsInOrder, IsPage
      <3>2. ASSUME NEW n \in 0..lane[1].ord PROVE n \in durable'
        <4>1. n \in 0..(receivedPageOrdinal - 1) /\ ~(lane[1].ord < n)
          BY <1>1, <3>1
        <4> QED
          BY <1>5, <2>2, <4>1
      <3> QED
        BY <2>2, <3>2 DEF AckedIsDurable
    <2> QED
      BY <2>1, <2>2
  <1> QED
    BY <1>4, <1>6, <1>7 DEF AckInv

\* What a step may do to the ack high-water.
AckStep ==
    /\ highestAckedPageSeq' >= highestAckedPageSeq
    /\ terminalSent => highestAckedPageSeq' = highestAckedPageSeq

\* The one terminal is queued behind the pages.
LEMMA AckTerminal ==
    ASSUME TypeOK, AckInv, NEW status, FinishTerminal(status),
           UNCHANGED <<receivedPageOrdinal, highestAckedPageSeq, durable>>
    PROVE  AckInv'
  <1>1. Step("complete", 0, 0, 0) \in Steps /\ Step("complete", 0, 0, 0).kind # "page"
    BY StepType DEF Step
  <1>2. terminalSent' /\ lane' = Append(lane, Step("complete", 0, 0, 0))
    BY DEF FinishTerminal, Enqueue
  <1> QED
    BY <1>1, <1>2, AckFrame

\* A delivery queues a page with the next ordinal, or no page.
LEMMA AckOnWire ==
    ASSUME TypeOK, AckInv, NEW m \in Messages, OnWire(m), UNCHANGED durable
    PROVE  AckInv' /\ UNCHANGED highestAckedPageSeq
  <1>1. m.set \in Nat /\ m.seq \in Nat /\ receivedPageOrdinal \in Nat
    BY DEF Messages, TypeOK, QueryTypeOK
  <1>2. UNCHANGED highestAckedPageSeq
    BY DEF OnWire
  <1>3. CASE DropAfterTerminal
    BY <1>2, <1>3, AckFrame DEF DropAfterTerminal
  <1>4. CASE OnWireResultSet(m)
    <2>1. Step("set", m.set, 0, 0) \in Steps /\ Step("set", m.set, 0, 0).kind # "page"
      BY <1>1, StepType DEF Step
    <2> QED
      BY <1>2, <1>4, <2>1, AckFrame DEF OnWireResultSet, Enqueue
  <1>5. CASE OnWireMessage(m)
    <2>1. Step("message", 0, 0, 0) \in Steps /\ Step("message", 0, 0, 0).kind # "page"
      BY StepType DEF Step
    <2> QED
      BY <1>2, <1>5, <2>1, AckFrame DEF OnWireMessage, Enqueue
  <1>6. CASE OnWireRows(m) /\ ledgers[m.set] = m.seq
    <2>1. /\ lane' = Append(lane, Step("page", m.set, m.seq, receivedPageOrdinal))
          /\ receivedPageOrdinal' = receivedPageOrdinal + 1
          /\ UNCHANGED terminalSent
      BY <1>6 DEF OnWireRows, Enqueue
    <2> QED
      BY <1>1, <1>2, <2>1, AckReceive
  <1>7. ASSUME NEW status, FinishTerminal(status), UNCHANGED receivedPageOrdinal PROVE AckInv'
    BY <1>2, <1>7, AckTerminal
  <1>8. CASE OnWireRows(m) /\ ledgers[m.set] # m.seq
    BY <1>2, <1>7, <1>8 DEF OnWireRows
  <1>9. CASE OnWireComplete(m)
    BY <1>2, <1>7, <1>9 DEF OnWireComplete
  <1> QED
    BY <1>2, <1>3, <1>4, <1>5, <1>6, <1>8, <1>9 DEF OnWire

\* A terminal from a timer, an ending of the session or a failed request.
LEMMA AckSynthesize ==
    ASSUME TypeOK, AckInv, NEW status, SynthesizeTerminal(status),
           UNCHANGED <<receivedPageOrdinal, highestAckedPageSeq, durable>>
    PROVE  AckInv'
  BY AckFrame, AckTerminal DEF SynthesizeTerminal

\* The sink settled its callback: the ack covers the page just taken.
LEMMA AckFinish ==
    ASSUME TypeOK, BusyHasHead, AckInv, FinishStep
    PROVE  AckInv' /\ AckStep
  <1>1. lane \in Seq(Steps) /\ lane # <<>> /\ Head(lane) = lane[1] /\ 1 \in DOMAIN lane
    BY DEF TypeOK, LaneTypeOK, BusyHasHead, FinishStep
  <1>2. lane' = Tail(lane) /\ UNCHANGED <<receivedPageOrdinal, terminalSent>>
    BY DEF FinishStep
  <1>3. durable \subseteq durable' /\ (lane[1].kind = "page" => lane[1].ord \in durable')
    BY <1>1 DEF FinishStep, CompletePage
  <1>4. \/ UNCHANGED highestAckedPageSeq
        \/ /\ ~terminalSent /\ lane[1].kind = "page" /\ highestAckedPageSeq' = lane[1].ord
           /\ lane[1].ord > highestAckedPageSeq
    BY <1>1 DEF FinishStep, AckPage
  <1>5. AckInv'
    BY <1>1, <1>2, <1>3, <1>4, AckPop
  <1>6. highestAckedPageSeq \in Nat \cup {-1} /\ lane[1].ord \in Nat
    BY <1>1, OrdinalType DEF TypeOK, QueryTypeOK
  <1>7. AckStep
    BY <1>4, <1>6 DEF AckStep
  <1> QED
    BY <1>5, <1>7

\* A callback failed: with it the acks end.
LEMMA AckFail ==
    ASSUME TypeOK, LaneInv, AckInv, FailStep
    PROVE  AckInv' /\ UNCHANGED highestAckedPageSeq
  <1>1. lane \in Seq(Steps) /\ lane # <<>> /\ Head(lane) = lane[1] /\ 1 \in DOMAIN lane
    BY DEF TypeOK, LaneTypeOK, LaneInv, BusyHasHead, FailStep
  <1>2. lane' = Tail(lane) /\ UNCHANGED <<receivedPageOrdinal, highestAckedPageSeq, durable>>
    BY DEF FailStep
  <1>3. terminalSent => terminalSent'
    BY DEF FailStep
  <1>4. terminalSent' \/ lane[1].kind # "page"
    BY <1>1 DEF FailStep
  <1> QED
    BY <1>1, <1>2, <1>3, <1>4, AckPop

LEMMA AckInductive == IInv /\ AckInv /\ [Next]_vars => AckInv' /\ AckStep
  <1> SUFFICES ASSUME IInv, AckInv, [Next]_vars PROVE AckInv' /\ AckStep
    OBVIOUS
  <1> USE DEF queryVars, laneVars, controlVars, routeVars, sessionVars, serviceVars, sinkVars
  <1>0. TypeOK /\ LaneInv /\ BusyHasHead
    BY DEF IInv, LaneInv
  <1>a. UNCHANGED highestAckedPageSeq => AckStep
    <2>1. highestAckedPageSeq \in Nat \cup {-1}
      BY <1>0 DEF TypeOK, QueryTypeOK
    <2> QED
      BY <2>1 DEF AckStep
  <1>b. ASSUME UNCHANGED <<lane, receivedPageOrdinal, highestAckedPageSeq, durable, terminalSent>>
        PROVE  AckInv' /\ AckStep
    BY <1>0, <1>a, <1>b, AckFrame
  <1>1. CASE ReceiveNotification
    <2>1. CASE OnWire(Head(wire))
      <3>1. Head(wire) \in Messages
        BY <1>0, <1>1, SeqType DEF ReceiveNotification, TypeOK, ServiceTypeOK
      <3> QED
        BY <1>0, <1>1, <1>a, <2>1, <3>1, AckOnWire DEF ReceiveNotification
    <2>2. CASE UNCHANGED <<queryVars, laneVars>>
      BY <1>1, <1>b, <2>2 DEF ReceiveNotification
    <2> QED
      BY <1>1, <2>1, <2>2 DEF ReceiveNotification
  <1>2. CASE draining /\ DrainOrphan
    <2>1. Head(orphans) \in Messages /\ OnWire(Head(orphans))
      BY <1>0, <1>2, SeqType DEF DrainOrphan, TypeOK, RouteTypeOK
    <2> QED
      BY <1>0, <1>2, <1>a, <2>1, AckOnWire DEF DrainOrphan
  <1>3. CASE draining /\ FinishRegister
    <2>1. Step("accepted", 0, 0, 0) \in Steps /\ Step("accepted", 0, 0, 0).kind # "page"
      BY StepType DEF Step
    <2> QED
      BY <1>0, <1>3, <1>a, <2>1, AckFrame DEF FinishRegister, Enqueue
  <1>4. CASE ReceiveRejected
    <2>1. UNCHANGED <<receivedPageOrdinal, highestAckedPageSeq, durable>>
      BY <1>4 DEF ReceiveRejected
    <2>2. CASE UNCHANGED <<terminalSent, lane>>
      BY <1>b, <2>1, <2>2
    <2>3. CASE FinishTerminal("failed")
      BY <1>0, <1>a, <2>1, <2>3, AckTerminal
    <2> QED
      BY <1>4, <2>2, <2>3 DEF ReceiveRejected
  <1>5. CASE FinishStep
    BY <1>0, <1>5, AckFinish
  <1>6. CASE FailStep
    BY <1>0, <1>6, <1>a, AckFail
  <1>7. CASE ReceiveAccepted \/ StartStep
    BY <1>7, <1>b DEF ReceiveAccepted, StartStep
  <1>8. CASE Cancel \/ ProceedCancel \/ SettleCancel \/ Dispose \/ ProceedDispose \/ DisposeAnswered
             \/ CloseSession
    BY <1>8, <1>b
    DEF Cancel, ProceedCancel, SettleCancel, Dispose, ProceedDispose, DisposeAnswered, CloseSession
  <1>9. CASE CancelDeadline \/ DisposeFailed \/ DrainDeadline \/ LoseSession \/ FinishClose
    <2>1. UNCHANGED <<receivedPageOrdinal, highestAckedPageSeq, durable>>
      BY <1>9 DEF CancelDeadline, DisposeFailed, DrainDeadline, LoseSession, FinishClose
    <2>2. \E status \in Statuses : SynthesizeTerminal(status)
      BY <1>9 DEF CancelDeadline, DisposeFailed, DrainDeadline, LoseSession, FinishClose, Statuses
    <2> QED
      BY <1>0, <1>a, <2>1, <2>2, AckSynthesize
  <1>10. CASE Service
    <2>1. clientVars' = clientVars
      BY <1>10
      DEF Service, SvcStart, SvcReject, SvcRespond, SvcResultSet, SvcRows, SvcMessage, SvcComplete,
          SvcAbort, SvcGap, SvcDuplicate
    <2> QED
      BY <1>b, <2>1 DEF clientVars
  <1>11. CASE UNCHANGED vars
    BY <1>b, <1>11 DEF vars
  <1> QED
    BY <1>1, <1>2, <1>3, <1>4, <1>5, <1>6, <1>7, <1>8, <1>9, <1>10, <1>11
    DEF Next, Register, Client, Environment, Finished

LEMMA AckInit == Init => AckInv
  <1> SUFFICES ASSUME Init PROVE AckInv
    OBVIOUS
  <1>1. DOMAIN lane = {} /\ receivedPageOrdinal = 0 /\ highestAckedPageSeq = -1
    BY DEF Init
  <1>2. 0..(receivedPageOrdinal - 1) = {} /\ 0..highestAckedPageSeq = {}
    BY <1>1
  <1> QED
    BY <1>1, <1>2 DEF AckInv, OrdinalsInOrder, NoPageMissing, AckedIsDurable

\* Never ack unseen, for every number of sets and pages, every credit window and
\* every fault: the high-water mark covers only pages the sink accepted.
THEOREM AckedIsDurableHolds == Spec => []AckedIsDurable
  <1>1. AckInv => AckedIsDurable
    BY DEF AckInv
  <1>2. IInv /\ AckInv /\ [Next]_vars => AckInv'
    BY AckInductive
  <1> QED
    BY <1>1, <1>2, AckInit, Invariance, PTL DEF Spec

\* The ack high-water never regresses and is frozen by the terminal.
AckDiscipline ==
    [][/\ highestAckedPageSeq' >= highestAckedPageSeq
       /\ terminalSent => highestAckedPageSeq' = highestAckedPageSeq]_vars

\* The ack high-water never falls and is frozen by the terminal, also while a
\* sink callback that began before it is still running.
THEOREM AckDisciplineHolds == Spec => AckDiscipline
  <1>1. IInv /\ AckInv /\ [Next]_vars => AckInv' /\ AckStep
    BY AckInductive
  <1>2. AckStep => [highestAckedPageSeq' >= highestAckedPageSeq
                    /\ (terminalSent => highestAckedPageSeq' = highestAckedPageSeq)]_vars
    BY DEF AckStep
  <1> QED
    BY <1>1, <1>2, AckInit, Invariance, PTL DEF Spec, AckDiscipline

=============================================================================
