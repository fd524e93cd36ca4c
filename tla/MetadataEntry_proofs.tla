------------------------- MODULE MetadataEntry_proofs -------------------------
(***************************************************************************)
(* Proofs about one entry of the metadata engine, for any number of        *)
(* ensureFresh calls, DDL statements, faults and steps of the retry        *)
(* ladder.                                                                 *)
(***************************************************************************)
EXTENDS MetadataEntry, TLAPS

-----------------------------------------------------------------------------
(* The lane as a set of kinds                                               *)

\* Joining the lane adds a kind to it, and its head leaves the rest.
LEMMA LaneAppend ==
    ASSUME NEW queue \in Seq(Kinds), NEW kind \in Kinds
    PROVE  /\ Append(queue, kind) \in Seq(Kinds)
           /\ Range(Append(queue, kind)) = Range(queue) \cup {kind}
  <1>1. Append(queue, kind) \in Seq(Kinds)
    OBVIOUS
  <1>2. Len(queue) \in Nat /\ DOMAIN queue = 1..Len(queue)
    OBVIOUS
  <1>3. DOMAIN Append(queue, kind) = 1..(Len(queue) + 1)
    BY <1>2
  <1>4. \A i \in 1..Len(queue) : Append(queue, kind)[i] = queue[i]
    BY <1>2
  <1>5. Append(queue, kind)[Len(queue) + 1] = kind
    BY <1>2
  <1>6. 1..(Len(queue) + 1) = 1..Len(queue) \cup {Len(queue) + 1}
    BY <1>2
  <1> QED
    BY <1>1, <1>2, <1>3, <1>4, <1>5, <1>6 DEF Range

LEMMA LaneTail ==
    ASSUME NEW queue \in Seq(Kinds), queue # <<>>
    PROVE  /\ Tail(queue) \in Seq(Kinds)
           /\ Range(queue) = Range(Tail(queue)) \cup {Head(queue)}
  <1>1. Tail(queue) \in Seq(Kinds) /\ Len(queue) \in Nat \ {0}
    OBVIOUS
  <1>2. DOMAIN queue = 1..Len(queue) /\ DOMAIN Tail(queue) = 1..(Len(queue) - 1)
    BY <1>1
  <1>3. \A i \in 1..(Len(queue) - 1) : Tail(queue)[i] = queue[i + 1]
    BY <1>1
  <1>4. \A j \in 1..Len(queue) : j = 1 \/ (j - 1) \in 1..(Len(queue) - 1)
    BY <1>1
  <1>5. \A i \in 1..(Len(queue) - 1) : i + 1 \in 1..Len(queue)
    BY <1>1
  <1>6. queue[1] = Head(queue) /\ 1 \in 1..Len(queue)
    BY <1>1
  <1>7. ASSUME NEW k \in Range(queue) PROVE k \in Range(Tail(queue)) \cup {Head(queue)}
    <2>1. PICK j \in 1..Len(queue) : k = queue[j]
      BY <1>2, <1>7 DEF Range
    <2>2. CASE j # 1
      <3>1. (j - 1) \in 1..(Len(queue) - 1) /\ Tail(queue)[j - 1] = queue[j]
        BY <1>1, <1>3, <1>4, <2>2
      <3> QED
        BY <1>2, <2>1, <3>1 DEF Range
    <2> QED
      BY <1>6, <2>1, <2>2
  <1>8. Range(Tail(queue)) \subseteq Range(queue)
    BY <1>2, <1>3, <1>5 DEF Range
  <1>9. Head(queue) \in Range(queue)
    BY <1>2, <1>6 DEF Range
  <1> QED
    BY <1>1, <1>7, <1>8, <1>9

-----------------------------------------------------------------------------
(* Types                                                                    *)

CallStates == {"none"} \cup Waits \cup Answers
ValidationStates == {"none", "slot", "lane", "joined", "pass", "queued", "followup", "resumed"}
Verdicts == {"none", "unchanged", "changed", "failed"}
Statuses == {"absent", "loading", "ready", "stale", "failed"}
Ticks == {"timer", "pass", "validation"}

LEMMA TypeInit == Init => TypeOK
  <1> SUFFICES ASSUME Init PROVE TypeOK
    OBVIOUS
  <1>1. 0 \in 0..MaxDdl /\ None \in None..MaxDdl /\ 0 \in 0..MaxFaults /\ 0 \in 0..BackoffSteps
    BY BoundsAssumption DEF None
  <1>2. <<>> \in Seq(Kinds)
    OBVIOUS
  <1> QED
    BY <1>1, <1>2 DEF Init, TypeOK

\* Settling a pass leaves calls, verdicts and the lane in their types.
LEMMA TypeSettle ==
    ASSUME TypeOK, NEW queue \in Seq(Kinds), NEW st \in Statuses, NEW has \in BOOLEAN,
           NEW drift \in BOOLEAN, NEW claim \in BOOLEAN, NEW verdict \in Verdicts,
           SettlePass(queue, st, has, drift, claim, verdict)
    PROVE  /\ op' = Idle
           /\ lane' \in Seq(Kinds)
           /\ forcedRefresh' = FALSE
           /\ call' \in [Calls -> CallStates]
           /\ validation' \in ValidationStates
           /\ validated' \in BOOLEAN
           /\ lastValidation' \in Verdicts
  <1>1. op' = Idle /\ forcedRefresh' = FALSE
    BY DEF SettlePass
  <1>2. lane' \in Seq(Kinds)
    BY LaneAppend DEF SettlePass, Kinds
  <1>3. call' \in [Calls -> CallStates]
    <2>1. \A c \in Calls : call[c] \in CallStates
      BY DEF TypeOK, CallStates
    <2> QED
      BY <2>1 DEF SettlePass, CallStates, Waits, LiveWaits, Answers
  <1>4. validation' \in ValidationStates
    BY DEF SettlePass, TypeOK, ValidationStates
  <1>5. validated' \in BOOLEAN /\ lastValidation' \in Verdicts
    BY DEF SettlePass, Verdicts
  <1> QED
    BY <1>1, <1>2, <1>3, <1>4, <1>5

LEMMA TypeHydrate ==
    ASSUME TypeOK, NEW force \in BOOLEAN, Hydrate(force)
    PROVE  lane' \in Seq(Kinds) /\ forcedRefresh' \in BOOLEAN
  BY LaneAppend DEF Hydrate, TypeOK, Kinds

LEMMA TypeRetry ==
    ASSUME TypeOK, NEW armed \in BOOLEAN, ScheduleRetry(armed)
    PROVE  retry' \in BOOLEAN /\ failedAttempts' \in 0..BackoffSteps
  BY BoundsAssumption DEF ScheduleRetry, TypeOK

LEMMA TypeVerdict ==
    ASSUME TypeOK, NEW result \in {"unchanged", "failed"}, NEW drift, NEW claim \in BOOLEAN,
           Verdict(result, drift, claim)
    PROVE  /\ validation' \in ValidationStates
           /\ lastValidation' \in Verdicts
           /\ validated' \in BOOLEAN
           /\ call' \in [Calls -> CallStates]
  BY DEF Verdict, TypeOK, ValidationStates, Verdicts, CallStates, Waits, LiveWaits, Answers, NotValidated

\* The ticks that end leave the others, and the timer they arm.
LEMMA TypeTicks ==
    ASSUME NEW over, NEW poll \in SUBSET Ticks, NEW drift, EndTicks(over, poll, drift)
    PROVE  polling' \subseteq Ticks
  BY DEF EndTicks, Ticks

LEMMA TypeSettleTicks ==
    ASSUME NEW poll \in SUBSET Ticks, NEW drift, SettleTicks(poll, drift)
    PROVE  polling' \subseteq Ticks
  <1> DEFINE over == {"pass"} \cup (IF validation \in {"joined", "pass"} THEN {"validation"} ELSE {})
             left == IF CutOff THEN poll \ {"timer"} ELSE poll
  <1>1. EndTicks(over, left, drift)
    BY DEF SettleTicks
  <1>2. left \in SUBSET Ticks
    OBVIOUS
  <1> HIDE DEF over, left
  <1> QED
    BY <1>1, <1>2, TypeTicks

\* What the lane holds is started or skipped.
LEMMA TypeStart ==
    ASSUME TypeOK, Start
    PROVE  TypeOK'
  <1> USE DEF envVars, digestVars, verdictVars, latchVars, Ticks
  <1>1. lane # <<>> => Tail(lane) \in Seq(Kinds)
    BY LaneTail DEF TypeOK
  <1>2. ASSUME Recycle PROVE session' \in Nat /\ sessionWedged' \in BOOLEAN
    <2>1. session' = session + 1 \/ session' = session
      BY <1>2 DEF Recycle
    <2>2. session' \in Nat
      BY <2>1 DEF TypeOK
    <2>3. sessionWedged' = FALSE
      BY <1>2 DEF Recycle
    <2> QED
      BY <2>2, <2>3
  <1>3. ASSUME NEW kind \in Kinds, StartOp(kind) PROVE TypeOK'
    <2>1. session' \in Nat /\ sessionWedged' \in BOOLEAN /\ lane # <<>>
      BY <1>2, <1>3 DEF StartOp, Starts, Starting
    <2>2. Captured(kind) \in Nat
      BY DEF Captured, TypeOK
    <2>3. op' \in Ops
      BY <1>3, <2>1, <2>2, BoundsAssumption DEF StartOp, Ops, None
    <2>4. status' \in Statuses
      BY <1>3 DEF StartOp, TypeOK, Statuses
    <2> QED
      BY <1>1, <1>3, <2>1, <2>3, <2>4 DEF StartOp, Starts, TypeOK, Statuses
  <1>4. CASE SkipHydrate
    <2>1. session' \in Nat /\ sessionWedged' \in BOOLEAN /\ lane # <<>>
      BY <1>2, <1>4 DEF SkipHydrate, Starts, Starting
    <2>2. /\ status \in Statuses /\ HasSnapshot \in BOOLEAN /\ identityDrift \in BOOLEAN
          /\ validated \in BOOLEAN /\ lastValidation \in Verdicts
      BY DEF TypeOK, Statuses, Verdicts, HasSnapshot
    <2>3. /\ op' = Idle
          /\ lane' \in Seq(Kinds)
          /\ forcedRefresh' = FALSE
          /\ call' \in [Calls -> CallStates]
          /\ validation' \in ValidationStates
          /\ validated' \in BOOLEAN
          /\ lastValidation' \in Verdicts
      BY <1>1, <1>4, <2>1, <2>2, TypeSettle, ZenonT(60) DEF SkipHydrate
    <2>4. polling' \subseteq Ticks
      BY <1>4, TypeSettleTicks DEF SkipHydrate, TypeOK
    <2>5. retry' \in BOOLEAN
      BY <1>4 DEF SkipHydrate
    <2> QED
      BY <1>4, <2>1, <2>3, <2>4, <2>5
         DEF SkipHydrate, Starts, TypeOK, CallStates, ValidationStates, Verdicts
  <1>5. CASE SkipDigest
    <2>1. session' \in Nat /\ sessionWedged' \in BOOLEAN /\ lane # <<>>
      BY <1>2, <1>5 DEF SkipDigest, Starts, Starting
    <2>2. validated \in BOOLEAN
      BY DEF TypeOK
    <2>3. /\ validation' \in ValidationStates
          /\ lastValidation' \in Verdicts
          /\ validated' \in BOOLEAN
          /\ call' \in [Calls -> CallStates]
      BY <1>5, <2>2, TypeVerdict DEF SkipDigest
    <2>4. polling' \subseteq Ticks
      BY <1>5, TypeTicks DEF SkipDigest, TypeOK
    <2> QED
      BY <1>1, <1>5, <2>1, <2>3, <2>4
         DEF SkipDigest, Starts, TypeOK, CallStates, ValidationStates, Verdicts
  <1>6. CASE SkipDefinition
    <2>1. session' \in Nat /\ sessionWedged' \in BOOLEAN /\ lane # <<>>
      BY <1>2, <1>6 DEF SkipDefinition, Starts, Starting
    <2> QED
      BY <1>1, <1>6, <2>1 DEF SkipDefinition, Starts, TypeOK
  <1> QED
    BY <1>3, <1>4, <1>5, <1>6 DEF Start

LEMMA TypeResume ==
    ASSUME TypeOK, Resume
    PROVE  TypeOK'
  <1> USE DEF envVars, laneVars, opVars, shownVars, digestVars, latchVars
  <1>1. call' \in [Calls -> CallStates]
    BY DEF Resume, TypeOK, CallStates, Waits, LiveWaits, Answers, NotValidated
  <1>2. /\ validation' \in ValidationStates
        /\ validated' \in BOOLEAN
        /\ lastValidation' \in Verdicts
    BY DEF Resume, TypeOK, ValidationStates, Verdicts, verdictVars
  <1>3. polling' \subseteq Ticks
    BY TypeTicks DEF Resume, TypeOK, Ticks
  <1> QED
    BY <1>1, <1>2, <1>3 DEF Resume, TypeOK, CallStates, ValidationStates, Verdicts, Ticks

\* A failed pass, and an operation that fails without an answer.
LEMMA TypeFail ==
    ASSUME TypeOK, NEW drift \in BOOLEAN, NEW claim \in BOOLEAN, NEW verdict \in Verdicts,
           FailPass(drift, claim, verdict)
    PROVE  /\ status' = "failed"
           /\ op' = Idle
           /\ lane' \in Seq(Kinds)
           /\ forcedRefresh' = FALSE
           /\ call' \in [Calls -> CallStates]
           /\ validation' \in ValidationStates
           /\ validated' \in BOOLEAN
           /\ lastValidation' \in Verdicts
  <1>1. lane \in Seq(Kinds) /\ "failed" \in Statuses /\ HasSnapshot \in BOOLEAN
    BY DEF TypeOK, Statuses, HasSnapshot
  <1>2. SettlePass(lane, "failed", HasSnapshot, drift, claim, verdict)
    BY DEF FailPass
  <1>3. status' = "failed"
    BY DEF FailPass
  <1> QED
    BY <1>1, <1>2, <1>3, TypeSettle, ZenonT(60)

LEMMA TypeOpFails ==
    ASSUME TypeOK, OpFails
    PROVE  /\ op' = Idle
           /\ status' \in Statuses
           /\ retry' \in BOOLEAN
           /\ failedAttempts' \in 0..BackoffSteps
           /\ lane' \in Seq(Kinds)
           /\ forcedRefresh' \in BOOLEAN
           /\ call' \in [Calls -> CallStates]
           /\ validation' \in ValidationStates
           /\ validated' \in BOOLEAN
           /\ lastValidation' \in Verdicts
           /\ polling' \subseteq Ticks
  <1>1. /\ status \in Statuses /\ HasSnapshot \in BOOLEAN /\ identityDrift \in BOOLEAN
        /\ validated \in BOOLEAN /\ lastValidation \in Verdicts /\ lane \in Seq(Kinds)
        /\ polling \subseteq Ticks
        /\ retry \in BOOLEAN /\ failedAttempts \in 0..BackoffSteps /\ forcedRefresh \in BOOLEAN
        /\ validation \in ValidationStates /\ call \in [Calls -> CallStates]
    BY DEF TypeOK, Statuses, Verdicts, HasSnapshot, ValidationStates, CallStates, Ticks
  <1>2. CASE op.kind = "hydrate"
    <2>1. polling' \subseteq Ticks
      BY <1>1, <1>2, TypeSettleTicks DEF OpFails
    <2>2. CASE op.captured = opEpoch
      <3>1. /\ \/ FailPass(identityDrift, validated, lastValidation)
               \/ FailPass(identityDrift, FALSE, "failed")
            /\ ScheduleRetry(retry)
        BY <1>2, <2>2 DEF OpFails
      <3>2. FALSE \in BOOLEAN /\ "failed" \in Verdicts
        BY DEF Verdicts
      <3> QED
        BY <1>1, <2>1, <3>1, <3>2, TypeFail, TypeRetry DEF Statuses
    <2>3. CASE op.captured # opEpoch
      <3>1. /\ SettlePass(lane, status, HasSnapshot, identityDrift, validated, lastValidation)
            /\ retry' = (retry /\ ~CutOff)
            /\ UNCHANGED <<status, failedAttempts>>
        BY <1>2, <2>3 DEF OpFails
      <3> QED
        BY <1>1, <2>1, <3>1, TypeSettle, ZenonT(60)
    <2> QED
      BY <2>2, <2>3
  <1>3. CASE op.kind = "digest"
    <2>1. /\ Verdict("failed", identityDrift, validated) /\ op' = Idle
          /\ EndTicks({"validation"}, polling, identityDrift)
          /\ UNCHANGED <<laneVars, status, retry, failedAttempts>>
      BY <1>3 DEF OpFails
    <2>2. polling' \subseteq Ticks
      BY <1>1, <2>1, TypeTicks
    <2> QED
      BY <1>1, <2>1, <2>2, TypeVerdict DEF laneVars
  <1>4. CASE op.kind \notin {"hydrate", "digest"}
    BY <1>1, <1>4 DEF OpFails, laneVars, verdictVars, timerVars
  <1> QED
    BY <1>2, <1>3, <1>4

\* The operation that runs is answered.
LEMMA TypeAnswered ==
    ASSUME TypeOK, OpAnswered
    PROVE  TypeOK'
  <1> USE DEF envVars, digestVars, laneVars, shownVars, Ticks
  <1>1. /\ status \in Statuses /\ HasSnapshot \in BOOLEAN /\ identityDrift \in BOOLEAN
        /\ validated \in BOOLEAN /\ lastValidation \in Verdicts /\ lane \in Seq(Kinds)
    BY DEF TypeOK, HasSnapshot, Statuses, Verdicts
  <1>2. CASE ReadCatalog
    <2>1. op \in Ops
      BY <1>2 DEF ReadCatalog, TypeOK, Idle
    <2>2. catalog \in None..MaxDdl
      BY BoundsAssumption DEF TypeOK, None
    <2>3. op' = [op EXCEPT !.read = catalog]
      BY <1>2 DEF ReadCatalog
    <2>4. op' \in Ops
      BY <2>1, <2>2, <2>3 DEF Ops
    <2> QED
      BY <1>2, <2>4 DEF ReadCatalog, TypeOK, verdictVars, timerVars, latchVars, callVars
  <1>3. CASE FindMismatch
    <2>1. identityDrift' = TRUE /\ sessionWedged' = TRUE
      BY <1>3 DEF FindMismatch, LatchMismatch
    <2>2. polling' \subseteq Ticks
      <3>1. polling \ {"timer"} \in SUBSET Ticks
        BY DEF TypeOK
      <3> QED
        BY <1>3, <3>1, TypeSettleTicks DEF FindMismatch
    <2>3. /\ op' = Idle
          /\ lane' \in Seq(Kinds)
          /\ forcedRefresh' = FALSE
          /\ call' \in [Calls -> CallStates]
          /\ validation' \in ValidationStates
          /\ validated' \in BOOLEAN
          /\ lastValidation' \in Verdicts
          /\ status' \in Statuses
          /\ retry' \in BOOLEAN
          /\ failedAttempts' \in 0..BackoffSteps
      <3>1. CASE op.captured = opEpoch
        <4>1. FailPass(TRUE, FALSE, lastValidation) /\ ScheduleRetry(FALSE)
          BY <1>3, <3>1 DEF FindMismatch
        <4> QED
          BY <1>1, <4>1, TypeFail, TypeRetry DEF Statuses
      <3>2. CASE op.captured # opEpoch
        <4>1. SettlePass(lane, status, HasSnapshot, TRUE, FALSE, lastValidation)
          BY <1>3, <3>2 DEF FindMismatch
        <4>2. retry' = FALSE /\ UNCHANGED <<status, failedAttempts>>
          BY <1>3, <3>2 DEF FindMismatch
        <4>3. retry' \in BOOLEAN /\ status' \in Statuses /\ failedAttempts' \in 0..BackoffSteps
          BY <4>2 DEF TypeOK, Statuses
        <4> QED
          BY <1>1, <4>1, <4>3, TypeSettle, ZenonT(60)
      <3> QED
        BY <3>1, <3>2
    <2> QED
      BY <1>3, <2>1, <2>2, <2>3
         DEF FindMismatch, TypeOK, CallStates, ValidationStates, Verdicts, Statuses
  <1>4. CASE Publish
    <2>1. /\ op' = Idle
          /\ lane' \in Seq(Kinds)
          /\ forcedRefresh' = FALSE
          /\ call' \in [Calls -> CallStates]
          /\ validation' \in ValidationStates
          /\ validated' \in BOOLEAN
          /\ lastValidation' \in Verdicts
      <3>1. CASE op.captured = opEpoch
        <4>1. SettlePass(lane, "ready", TRUE, FALSE, TRUE, "unchanged")
          BY <1>4, <3>1 DEF Publish
        <4>2. "ready" \in Statuses /\ "unchanged" \in Verdicts
          BY DEF Statuses, Verdicts
        <4> QED
          BY <1>1, <4>1, <4>2, TypeSettle, ZenonT(60)
      <3>2. CASE op.captured # opEpoch
        <4>1. SettlePass(lane, status, HasSnapshot, identityDrift, validated, lastValidation)
          BY <1>4, <3>2 DEF Publish
        <4> QED
          BY <1>1, <4>1, TypeSettle, ZenonT(60)
      <3> QED
        BY <3>1, <3>2
    <2>2. op \in Ops
      BY <1>4 DEF Publish, TypeOK, Idle
    <2>3. snapshot' \in [gen : Nat, version : None..MaxDdl]
      <3>1. snapshot' = snapshot \/ snapshot' = [gen |-> snapshot.gen + 1, version |-> op.read]
        BY <1>4 DEF Publish
      <3>2. op.read \in None..MaxDdl
        BY <2>2 DEF Ops
      <3> QED
        BY <3>1, <3>2 DEF TypeOK
    <2>4. /\ status' \in Statuses
          /\ definition' \in Nat \cup {None}
          /\ lastDigest' \in None..MaxDdl
          /\ manifestDigest' \in None..MaxDdl
          /\ failedAttempts' \in 0..BackoffSteps
      <3>1. None \in None..MaxDdl /\ 0 \in 0..BackoffSteps
        BY BoundsAssumption DEF None
      <3> QED
        BY <1>4, <3>1 DEF Publish, TypeOK, Statuses
    <2>5. retry' \in BOOLEAN /\ identityDrift' \in BOOLEAN
      BY <1>4 DEF Publish, TypeOK
    <2>6. polling' \subseteq Ticks
      <3>1. polling \in SUBSET Ticks /\ ResetPoll \in SUBSET Ticks
        BY DEF TypeOK, ResetPoll
      <3>2. SettleTicks(ResetPoll, FALSE) \/ SettleTicks(polling, identityDrift)
        BY <1>4 DEF Publish
      <3> QED
        BY <3>1, <3>2, TypeSettleTicks
    <2> QED
      BY <1>4, <2>1, <2>3, <2>4, <2>5, <2>6
         DEF Publish, TypeOK, CallStates, ValidationStates, Verdicts, Statuses
  <1>5. CASE AnswerDigest
    <2>1. op' = Idle /\ UNCHANGED <<envVars, late, opEpoch, session, shownVars, failedAttempts,
                                    leased, disposed, since>>
      BY <1>5 DEF AnswerDigest
    <2>2. CASE ~Sits(op)
      <3>1. /\ identityDrift' = TRUE
            /\ sessionWedged' = (sessionWedged \/ ~identityDrift)
            /\ EndTicks({"validation"}, IF identityDrift THEN polling ELSE polling \ {"timer"}, TRUE)
            /\ Verdict("failed", TRUE, validated /\ identityDrift)
            /\ UNCHANGED <<laneVars, digestVars, retry>>
        BY <1>5, <2>2 DEF AnswerDigest
      <3>2. sessionWedged' \in BOOLEAN /\ (validated /\ identityDrift) \in BOOLEAN
        BY <3>1
      <3>3. polling' \subseteq Ticks
        <4>1. (IF identityDrift THEN polling ELSE polling \ {"timer"}) \in SUBSET Ticks
          BY DEF TypeOK
        <4> QED
          BY <3>1, <4>1, TypeTicks
      <3>4. /\ validation' \in ValidationStates
            /\ lastValidation' \in Verdicts
            /\ validated' \in BOOLEAN
            /\ call' \in [Calls -> CallStates]
        BY <3>1, <3>2, TypeVerdict
      <3> QED
        BY <2>1, <3>1, <3>2, <3>3, <3>4 DEF TypeOK, CallStates, ValidationStates, Verdicts, Statuses
    <2>3. CASE Sits(op) /\ DigestChanged
      <3>1. /\ lastDigest' = catalog /\ manifestDigest' = None
            /\ UNCHANGED <<sessionWedged, identityDrift>>
        BY <1>5, <2>3 DEF AnswerDigest
      <3>2. lastDigest' \in None..MaxDdl /\ manifestDigest' \in None..MaxDdl
        BY <3>1, BoundsAssumption DEF TypeOK, None
      <3>3. /\ lane' \in Seq(Kinds)
            /\ forcedRefresh' \in BOOLEAN
            /\ validation' \in ValidationStates
            /\ UNCHANGED <<validated, lastValidation, call>>
            /\ polling' \subseteq Ticks
            /\ retry' \in BOOLEAN
        <4>1. CASE network /\ ~disposed
          BY <2>3, <4>1, TypeHydrate DEF DigestChanged, HydrateWait, TypeOK, ValidationStates
        <4>2. CASE ~(network /\ ~disposed)
          BY <2>3, <4>2 DEF DigestChanged, ClearTimers, TypeOK, ValidationStates
        <4> QED
          BY <4>1, <4>2
      <3> QED
        BY <2>1, <3>1, <3>2, <3>3 DEF TypeOK, CallStates, ValidationStates, Verdicts, Statuses
    <2>4. CASE /\ Sits(op) /\ Verdict("unchanged", FALSE, TRUE)
               /\ EndTicks({"validation"}, polling, identityDrift)
               /\ UNCHANGED <<laneVars, retry>>
      <3>1. /\ lastDigest' = catalog /\ manifestDigest' = None
            /\ UNCHANGED <<sessionWedged, identityDrift>>
        BY <1>5, <2>4 DEF AnswerDigest
      <3>2. lastDigest' \in None..MaxDdl /\ manifestDigest' \in None..MaxDdl
        BY <3>1, BoundsAssumption DEF TypeOK, None
      <3>3. /\ validation' \in ValidationStates
            /\ lastValidation' \in Verdicts
            /\ validated' \in BOOLEAN
            /\ call' \in [Calls -> CallStates]
        BY <2>4, TypeVerdict
      <3>4. polling' \subseteq Ticks
        BY <2>4, TypeTicks DEF TypeOK
      <3> QED
        BY <2>1, <2>4, <3>1, <3>2, <3>3, <3>4
           DEF TypeOK, CallStates, ValidationStates, Verdicts, Statuses
    <2> QED
      BY <1>5, <2>2, <2>3, <2>4 DEF AnswerDigest
  <1>6. CASE AnswerDefinition
    <2>1. op \in Ops
      BY <1>6 DEF AnswerDefinition, TypeOK, Idle
    <2>2. definition' \in Nat \cup {None}
      BY <1>6, <2>1 DEF AnswerDefinition, CacheDefinition, TypeOK, Ops
    <2> QED
      BY <1>6, <2>2 DEF AnswerDefinition, TypeOK, verdictVars, timerVars, latchVars, callVars
  <1> QED
    BY <1>2, <1>3, <1>4, <1>5, <1>6 DEF OpAnswered

-----------------------------------------------------------------------------
(* Types: faults                                                            *)

LEMMA TypeFault ==
    ASSUME TypeOK, NEW kind, Fault(kind)
    PROVE  faults' \in 0..MaxFaults
  BY BoundsAssumption DEF Fault, TypeOK

LEMMA TypeFaults ==
    ASSUME TypeOK, Fail \/ Watchdog \/ \E o \in late : LateAnswer(o)
    PROVE  TypeOK'
  <1> USE DEF envVars, digestVars, laneVars, callVars, Ticks
  <1>1. /\ status \in Statuses /\ HasSnapshot \in BOOLEAN /\ identityDrift \in BOOLEAN
        /\ validated \in BOOLEAN /\ lastValidation \in Verdicts /\ lane \in Seq(Kinds)
        /\ retry \in BOOLEAN /\ polling \subseteq Ticks
    BY DEF TypeOK, HasSnapshot, Statuses, Verdicts
  <1>2. CASE Fail
    <2>1. faults' \in 0..MaxFaults
      BY <1>2, TypeFault DEF Fail
    <2>2. OpFails
      BY <1>2 DEF Fail
    <2> QED
      BY <1>2, <2>1, <2>2, TypeOpFails
         DEF Fail, TypeOK, latchVars, CallStates, ValidationStates, Verdicts, Statuses
  <1>3. CASE Watchdog
    <2>1. faults' \in 0..MaxFaults
      BY <1>3, TypeFault DEF Watchdog
    <2>2. /\ op' = Idle
          /\ status' \in Statuses
          /\ retry' \in BOOLEAN
          /\ failedAttempts' \in 0..BackoffSteps
          /\ lane' \in Seq(Kinds)
          /\ forcedRefresh' \in BOOLEAN
          /\ call' \in [Calls -> CallStates]
          /\ validation' \in ValidationStates
          /\ validated' \in BOOLEAN
          /\ lastValidation' \in Verdicts
          /\ polling' \subseteq Ticks
      <3>1. CASE op.kind = "hydrate" /\ disposed
        <4>1. /\ SettlePass(lane, status, HasSnapshot, identityDrift, validated, lastValidation)
              /\ UNCHANGED <<status, retry, failedAttempts>>
          BY <1>3, <3>1 DEF Watchdog
        <4>2. status' \in Statuses /\ retry' \in BOOLEAN /\ failedAttempts' \in 0..BackoffSteps
          BY <4>1 DEF TypeOK, Statuses
        <4>3. polling' \subseteq Ticks
          BY <1>1, <1>3, <3>1, TypeSettleTicks DEF Watchdog
        <4>4. SettlePass(lane, status, HasSnapshot, identityDrift, validated, lastValidation)
          BY <4>1
        <4>5. /\ op' = Idle
              /\ lane' \in Seq(Kinds)
              /\ forcedRefresh' = FALSE
              /\ call' \in [Calls -> CallStates]
              /\ validation' \in ValidationStates
              /\ validated' \in BOOLEAN
              /\ lastValidation' \in Verdicts
          BY <1>1, <4>4, TypeSettle, ZenonT(60)
        <4> QED
          BY <4>2, <4>3, <4>5
      <3>2. CASE op.kind = "hydrate" /\ ~disposed
        <4>1. FailPass(identityDrift, validated, lastValidation) /\ ScheduleRetry(retry)
          BY <1>3, <3>2 DEF Watchdog
        <4>2. polling' \subseteq Ticks
          BY <1>1, <1>3, <3>2, TypeSettleTicks DEF Watchdog
        <4> QED
          BY <1>1, <4>1, <4>2, TypeFail, TypeRetry DEF Statuses
      <3>3. CASE op.kind # "hydrate"
        <4>1. OpFails
          BY <1>3, <3>3 DEF Watchdog
        <4> QED
          BY <4>1, TypeOpFails
      <3> QED
        BY <3>1, <3>2, <3>3
    <2>3. op \in Ops
      BY <1>3 DEF Watchdog, TypeOK
    <2>4. opEpoch' \in Nat /\ late' \subseteq Ops
      BY <1>3, <2>3 DEF Watchdog, TypeOK
    <2> QED
      BY <1>3, <2>1, <2>2, <2>4
         DEF Watchdog, TypeOK, latchVars, CallStates, ValidationStates, Verdicts, Statuses
  <1>4. ASSUME NEW o \in late, LateAnswer(o) PROVE TypeOK'
    <2>1. o \in Ops /\ late' \subseteq Ops
      BY <1>4 DEF LateAnswer, TypeOK
    <2>2. definition' \in Nat \cup {None}
      BY <1>4, <2>1 DEF LateAnswer, CacheDefinition, TypeOK, Ops
    <2>3. /\ sessionWedged' \in BOOLEAN /\ validated' \in BOOLEAN /\ polling' \subseteq Ticks
          /\ retry' \in BOOLEAN /\ identityDrift' \in BOOLEAN
      BY <1>4 DEF LateAnswer, LatchMismatch, ClearTimers, TypeOK
    <2> QED
      BY <1>4, <2>1, <2>2, <2>3 DEF LateAnswer, TypeOK
  <1> QED
    BY <1>2, <1>3, <1>4

-----------------------------------------------------------------------------
(* Types: requests, timers and calls                                        *)

LEMMA TypeRequests ==
    ASSUME TypeOK,
           \/ ReadDefinition \/ Rename \/ SetNetwork \/ Dispose
           \/ Ddl \/ ExecutedBatch \/ Acquire \/ Release \/ Refresh
    PROVE  TypeOK'
  <1> USE DEF envVars, laneVars, opVars, shownVars, digestVars, verdictVars, timerVars, latchVars,
              callVars, Ticks
  <1>1. CASE ReadDefinition
    <2>1. lane' \in Seq(Kinds)
      BY <1>1, LaneAppend DEF ReadDefinition, TypeOK, Kinds
    <2> QED
      BY <1>1, <2>1 DEF ReadDefinition, TypeOK
  <1>2. CASE Rename
    BY <1>2 DEF Rename, TypeOK
  <1>3. CASE SetNetwork
    <2>1. faults' \in 0..MaxFaults
      BY <1>3, TypeFault DEF SetNetwork, TypeOK
    <2>2. network' \in BOOLEAN
      BY <1>3 DEF SetNetwork
    <2> QED
      BY <1>3, <2>1, <2>2 DEF SetNetwork, TypeOK
  <1>4. CASE Dispose
    <2>1. opEpoch' \in Nat
      BY <1>4 DEF Dispose, TypeOK
    <2>2. /\ disposed' \in BOOLEAN /\ leased' \in BOOLEAN /\ polling' \subseteq Ticks /\ retry' \in BOOLEAN
          /\ UNCHANGED <<envVars, laneVars, op, late, sessionWedged, session, shownVars, digestVars,
                         verdictVars, failedAttempts, identityDrift, callVars>>
      BY <1>4 DEF Dispose, ClearTimers, TypeOK
    <2> QED
      BY <2>1, <2>2 DEF TypeOK
  <1>5. CASE Ddl
    <2>1. catalog' \in 0..MaxDdl
      BY <1>5, BoundsAssumption DEF Ddl, TypeOK
    <2>2. lane' \in Seq(Kinds) /\ forcedRefresh' \in BOOLEAN
      BY <1>5, TypeHydrate DEF Ddl, TypeOK
    <2>3. polling' \subseteq Ticks /\ retry' \in BOOLEAN
      BY <1>5 DEF Ddl, ResetPoll, ClearTimers, TypeOK
    <2> QED
      BY <1>5, <2>1, <2>2, <2>3 DEF Ddl, TypeOK
  <1>6. CASE Acquire
    <2>1. lane' \in Seq(Kinds) /\ forcedRefresh' \in BOOLEAN
      BY <1>6, TypeHydrate DEF Acquire, TypeOK
    <2>2. polling' \subseteq Ticks
      BY <1>6 DEF Acquire, TypeOK
    <2> QED
      BY <1>6, <2>1, <2>2 DEF Acquire, TypeOK
  <1>7. CASE Release
    <2>1. /\ leased' \in BOOLEAN /\ polling' \subseteq Ticks
          /\ UNCHANGED <<envVars, laneVars, opVars, shownVars, digestVars, verdictVars, retry,
                         failedAttempts, identityDrift, disposed, callVars>>
      BY <1>7 DEF Release, TypeOK
    <2> QED
      BY <2>1 DEF TypeOK
  <1>8. CASE Refresh
    <2>1. lane' \in Seq(Kinds) /\ forcedRefresh' \in BOOLEAN
      BY <1>8, TypeHydrate DEF Refresh, TypeOK
    <2>2. polling' \subseteq Ticks /\ retry' \in BOOLEAN
      BY <1>8 DEF Refresh, ClearTimers, TypeOK
    <2> QED
      BY <1>8, <2>1, <2>2 DEF Refresh, TypeOK
  <1>9. CASE ExecutedBatch
    <2>1. polling' \subseteq Ticks
      BY <1>9 DEF ExecutedBatch, ResetPoll, TypeOK
    <2>2. validation' \in ValidationStates
      BY <1>9 DEF ExecutedBatch, TypeOK, ValidationStates
    <2> QED
      BY <1>9, <2>1, <2>2 DEF ExecutedBatch, TypeOK, ValidationStates
  <1> QED
    BY <1>1, <1>2, <1>3, <1>4, <1>5, <1>6, <1>7, <1>8, <1>9

LEMMA TypeTimers ==
    ASSUME TypeOK,
           \/ PublishExternal \/ NoteAccessChanged \/ ExpireTtl
           \/ RetryTimer \/ PollTick \/ TakeSlot
    PROVE  TypeOK'
  <1> USE DEF envVars, laneVars, opVars, shownVars, digestVars, verdictVars, timerVars, latchVars,
              callVars, Ticks
  <1>1. CASE PublishExternal
    <2>1. PICK version \in 0..catalog, seeded \in BOOLEAN :
                /\ snapshot' = [gen |-> 1, version |-> version]
                /\ manifestDigest' = IF seeded THEN version ELSE None
      BY <1>1 DEF PublishExternal
    <2>2. version \in None..MaxDdl /\ None \in None..MaxDdl
      BY BoundsAssumption DEF TypeOK, None
    <2>3. snapshot' \in [gen : Nat, version : None..MaxDdl] /\ manifestDigest' \in None..MaxDdl
      BY <2>1, <2>2
    <2> QED
      BY <1>1, <2>3 DEF PublishExternal, TypeOK
  <1>2. CASE NoteAccessChanged
    <2>1. polling' \subseteq Ticks
      BY <1>2 DEF NoteAccessChanged, ResetPoll, TypeOK
    <2>2. /\ validated' \in BOOLEAN /\ lastValidation' \in Verdicts
          /\ UNCHANGED <<envVars, laneVars, opVars, shownVars, digestVars, validation, retry,
                         failedAttempts, latchVars, callVars>>
      BY <1>2 DEF NoteAccessChanged, Verdicts
    <2> QED
      BY <2>1, <2>2 DEF TypeOK, Verdicts
  <1>3. CASE ExpireTtl
    <2>1. /\ validated' \in BOOLEAN
          /\ UNCHANGED <<envVars, laneVars, opVars, shownVars, digestVars, validation,
                         lastValidation, timerVars, latchVars, callVars>>
      BY <1>3 DEF ExpireTtl
    <2> QED
      BY <2>1 DEF TypeOK
  <1>4. CASE RetryTimer
    <2>1. lane' \in Seq(Kinds) /\ forcedRefresh' \in BOOLEAN
      BY <1>4, TypeHydrate DEF RetryTimer, TypeOK
    <2>2. /\ retry' \in BOOLEAN
          /\ UNCHANGED <<envVars, opVars, shownVars, digestVars, verdictVars, polling,
                         failedAttempts, latchVars, callVars>>
      BY <1>4 DEF RetryTimer
    <2> QED
      BY <2>1, <2>2 DEF TypeOK
  <1>5. CASE PollTick
    <2>1. /\ lane' \in Seq(Kinds) /\ forcedRefresh' \in BOOLEAN
          /\ polling' \subseteq Ticks
      BY <1>5, TypeHydrate DEF PollTick, TypeOK
    <2>2. validation' \in ValidationStates
      BY <1>5 DEF PollTick, TypeOK, ValidationStates
    <2> QED
      BY <1>5, <2>1, <2>2 DEF PollTick, TypeOK, ValidationStates
  <1>6. CASE TakeSlot
    <2>1. lane' \in Seq(Kinds)
      BY <1>6, LaneAppend DEF TakeSlot, TypeOK, Kinds
    <2> QED
      BY <1>6, <2>1 DEF TakeSlot, TypeOK
  <1> QED
    BY <1>1, <1>2, <1>3, <1>4, <1>5, <1>6

LEMMA TypeAsk ==
    ASSUME TypeOK, NEW c \in Calls, NEW answer \in CallStates, Ask(c, answer),
           lane' \in Seq(Kinds), forcedRefresh' \in BOOLEAN, validation' \in ValidationStates,
           polling' \subseteq Ticks, retry' \in BOOLEAN
    PROVE  TypeOK'
  <1>1. since' \in [Calls -> 0..MaxDdl]
    BY DEF Ask, TypeOK
  <1>2. call' \in [Calls -> CallStates]
    BY DEF Ask, TypeOK, CallStates
  <1> QED
    BY <1>1, <1>2 DEF Ask, TypeOK, CallStates, ValidationStates, Ticks, envVars, opVars,
       shownVars, digestVars, latchVars

LEMMA TypeCalls ==
    ASSUME TypeOK, NEW c \in Calls,
           \/ AskOffline(c) \/ AllowStale(c) \/ RequireValidated(c) \/ RequireLive(c)
           \/ CallTimesOut(c)
    PROVE  TypeOK'
  <1>1. /\ lane \in Seq(Kinds) /\ forcedRefresh \in BOOLEAN /\ validation \in ValidationStates
        /\ polling \subseteq Ticks /\ retry \in BOOLEAN
    BY DEF TypeOK, ValidationStates, Ticks
  <1>2. /\ {"live", "validated", "stale", "unavailable", "joined", "validating", "pass", "queued"}
               \subseteq CallStates
        /\ {"slot", "joined"} \subseteq ValidationStates
    BY DEF CallStates, Waits, LiveWaits, Answers, ValidationStates
  <1>3. CASE AskOffline(c)
    <2>1. Ask(c, "stale") \/ Ask(c, "unavailable")
      BY <1>3 DEF AskOffline
    <2>2. /\ lane' \in Seq(Kinds) /\ forcedRefresh' \in BOOLEAN /\ validation' \in ValidationStates
          /\ polling' \subseteq Ticks /\ retry' \in BOOLEAN
      BY <1>1, <1>3 DEF AskOffline, ClearTimers, laneVars
    <2> QED
      BY <1>2, <2>1, <2>2, TypeAsk
  <1>4. CASE AllowStale(c)
    <2>1. /\ lane' \in Seq(Kinds) /\ forcedRefresh' \in BOOLEAN /\ validation' \in ValidationStates
          /\ polling' \subseteq Ticks /\ retry' \in BOOLEAN
      BY <1>1, <1>4, TypeHydrate DEF AllowStale, laneVars
    <2>2. Ask(c, "stale") \/ Ask(c, "joined")
      BY <1>4 DEF AllowStale
    <2> QED
      BY <1>2, <2>1, <2>2, TypeAsk
  <1>5. CASE RequireValidated(c)
    <2>1. /\ lane' \in Seq(Kinds) /\ forcedRefresh' \in BOOLEAN /\ validation' \in ValidationStates
      BY <1>1, <1>2, <1>5, TypeHydrate DEF RequireValidated, laneVars
    <2>2. polling' \subseteq Ticks /\ retry' \in BOOLEAN
      BY <1>1, <1>5 DEF RequireValidated
    <2>3. \/ Ask(c, "validated")
          \/ Ask(c, LatchedVerdict)
          \/ Ask(c, "validating")
      BY <1>5 DEF RequireValidated
    <2>4. LatchedVerdict \in CallStates
      BY <1>2 DEF LatchedVerdict
    <2> QED
      BY <1>2, <2>1, <2>2, <2>3, <2>4, TypeAsk
  <1>6. CASE RequireLive(c)
    <2>1. /\ lane' \in Seq(Kinds) /\ forcedRefresh' \in BOOLEAN /\ validation' \in ValidationStates
          /\ polling' \subseteq Ticks /\ retry' \in BOOLEAN
      BY <1>1, <1>6, TypeHydrate DEF RequireLive, laneVars
    <2>2. Ask(c, "unavailable") \/ Ask(c, HydrateWait(TRUE))
      BY <1>6 DEF RequireLive
    <2>3. HydrateWait(TRUE) \in CallStates
      BY <1>2 DEF HydrateWait
    <2> QED
      BY <1>2, <2>1, <2>2, <2>3, TypeAsk
  <1>7. CASE CallTimesOut(c)
    <2>1. call' \in [Calls -> CallStates]
      BY <1>7 DEF CallTimesOut, TypeOK, CallStates, Answers, NotValidated
    <2>2. UNCHANGED <<envVars, laneVars, opVars, shownVars, digestVars, verdictVars, timerVars,
                      latchVars, since>>
      BY <1>7 DEF CallTimesOut
    <2> QED
      BY <2>1, <2>2 DEF TypeOK, CallStates, envVars, laneVars, opVars, shownVars, digestVars,
         verdictVars, timerVars, latchVars
  <1> QED
    BY <1>3, <1>4, <1>5, <1>6, <1>7

LEMMA TypeNext ==
    ASSUME TypeOK, [Next]_vars
    PROVE  TypeOK'
  <1>1. CASE UNCHANGED vars
    BY <1>1 DEF vars, envVars, laneVars, opVars, shownVars, digestVars, verdictVars, timerVars,
       latchVars, callVars, TypeOK
  <1> QED
    BY <1>1, TypeStart, TypeResume, TypeAnswered, TypeFaults, TypeRequests, TypeTimers, TypeCalls
       DEF Next

\* Whatever the server answers or leaves unanswered, whoever asks and whatever
\* is renamed, disposed or taken offline, the entry is in a state the model names.
THEOREM TypeCorrect == Spec => []TypeOK
  BY TypeInit, TypeNext, PTL DEF Spec

-----------------------------------------------------------------------------
(* One query per session                                                    *)

\* The operation that runs has the current session; an abandoned one has an
\* earlier session, or the current one, which is then wedged and unused.
SessionInv ==
    /\ op # Idle => op.session = session
    /\ \A o \in late : \/ o.session < session
                       \/ o.session = session /\ sessionWedged /\ op = Idle

\* An operation that fails leaves the lane free.
LEMMA OpFailsEnds == OpFails => op' = Idle
  BY DEF OpFails, FailPass, SettlePass

\* An answer belongs to the operation that runs, and ends it unless the pass has
\* more to do.
LEMMA AnsweredRuns == OpAnswered => op # Idle
  <1>1. OpAnswered => op.kind \in Kinds
    BY DEF OpAnswered, ReadCatalog, FindMismatch, Publish, AnswerDigest, AnswerDefinition, Kinds
  <1>2. Idle.kind \notin Kinds
    BY DEF Idle, Kinds
  <1> QED
    BY <1>1, <1>2

LEMMA AnsweredEnds ==
    ASSUME OpAnswered, ~ReadCatalog
    PROVE  op' = Idle /\ UNCHANGED <<late, session>>
  <1>1. CASE FindMismatch
    BY <1>1 DEF FindMismatch, FailPass, SettlePass
  <1>2. CASE Publish
    BY <1>2 DEF Publish, SettlePass
  <1>3. CASE AnswerDigest
    BY <1>3 DEF AnswerDigest
  <1>4. CASE AnswerDefinition
    BY <1>4 DEF AnswerDefinition
  <1> QED
    BY <1>1, <1>2, <1>3, <1>4 DEF OpAnswered

\* What every request, timer and call leaves alone.
LEMMA RequestsKeepOp ==
    ASSUME \/ Resume \/ ReadDefinition \/ Rename \/ SetNetwork \/ Dispose
           \/ Ddl \/ ExecutedBatch \/ Acquire \/ Release \/ Refresh
           \/ PublishExternal \/ NoteAccessChanged \/ ExpireTtl
           \/ RetryTimer \/ PollTick \/ TakeSlot
           \/ \E c \in Calls : \/ AskOffline(c) \/ AllowStale(c) \/ RequireValidated(c)
                               \/ RequireLive(c) \/ CallTimesOut(c)
    PROVE  UNCHANGED <<op, late, session, sessionWedged>>
  BY DEF Resume, ReadDefinition, Rename, SetNetwork, Dispose, Ddl, ExecutedBatch, Acquire,
     Release, Refresh, PublishExternal, NoteAccessChanged, ExpireTtl, RetryTimer, PollTick,
     TakeSlot, AskOffline,
     AllowStale, RequireValidated, RequireLive, CallTimesOut, Ask, opVars

LEMMA SessionInvNext ==
    ASSUME TypeOK, SessionInv, [Next]_vars
    PROVE  SessionInv'
  <1>1. \A o \in late : o \in Ops
    BY DEF TypeOK
  <1>2. \A o \in late : o.session \in Nat
    BY <1>1 DEF Ops
  <1>3. session \in Nat
    BY DEF TypeOK
  <1>4. CASE Start
    <2>1. op = Idle /\ UNCHANGED late /\ Recycle
      BY <1>4 DEF Start, StartOp, SkipHydrate, SkipDigest, SkipDefinition, Starts, Starting
    <2>2. \A o \in late : o.session < session'
      <3> SUFFICES ASSUME NEW o \in late PROVE o.session < session'
        OBVIOUS
      <3>1. CASE sessionWedged \/ session = 0
        <4>1. session' = session + 1
          BY <2>1, <3>1 DEF Recycle
        <4> QED
          BY <1>2, <1>3, <4>1 DEF SessionInv
      <3>2. CASE ~(sessionWedged \/ session = 0)
        <4>1. session' = session /\ o.session < session
          BY <2>1, <3>2 DEF Recycle, SessionInv
        <4> QED
          BY <4>1
      <3> QED
        BY <3>1, <3>2
    <2>3. op' # Idle => op'.session = session'
      BY <1>4, <2>1 DEF Start, StartOp, SkipHydrate, SkipDigest, SkipDefinition, SettlePass
    <2> QED
      BY <2>1, <2>2, <2>3 DEF SessionInv
  <1>5. CASE ReadCatalog
    <2>1. op # Idle /\ UNCHANGED <<late, session, sessionWedged>>
      BY <1>5 DEF ReadCatalog, Idle
    <2>2. op \in Ops /\ op' = [op EXCEPT !.read = catalog]
      BY <1>5, <2>1 DEF ReadCatalog, TypeOK
    <2>3. op'.session = op.session
      BY <2>2 DEF Ops
    <2> QED
      BY <2>1, <2>3 DEF SessionInv
  <1>6. CASE OpAnswered /\ ~ReadCatalog
    <2>1. op' = Idle /\ UNCHANGED <<late, session>>
      BY <1>6, AnsweredEnds
    <2> QED
      BY <2>1, <1>6, AnsweredRuns DEF SessionInv
  <1>7. CASE Fail
    BY <1>7, OpFailsEnds DEF Fail, SessionInv
  <1>8. CASE Watchdog
    <2>1. op # Idle /\ op' = Idle /\ sessionWedged' = TRUE /\ late' = late \cup {op}
          /\ session' = session
      BY <1>8, OpFailsEnds DEF Watchdog, FailPass, SettlePass
    <2> QED
      BY <2>1 DEF SessionInv
  <1>9. ASSUME NEW o \in late, LateAnswer(o) PROVE SessionInv'
    <2>1. UNCHANGED <<op, session>> /\ late' \subseteq late
      BY <1>9 DEF LateAnswer
    <2>2. sessionWedged => sessionWedged'
      BY <1>9 DEF LateAnswer, LatchMismatch
    <2> QED
      BY <2>1, <2>2 DEF SessionInv
  <1>10. CASE UNCHANGED vars
    BY <1>10 DEF vars, opVars, SessionInv
  <1>11. CASE UNCHANGED <<op, late, session, sessionWedged>>
    BY <1>11 DEF SessionInv
  <1> QED
    BY <1>4, <1>5, <1>6, <1>7, <1>8, <1>9, <1>10, <1>11, RequestsKeepOp DEF Next

\* While an operation of the lane runs, no abandoned one is unanswered on its
\* session: the watchdog wedges the session, and the next start recycles it.
THEOREM OneQueryPerSessionHolds == Spec => []OneQueryPerSession
  <1>1. Init => SessionInv
    BY DEF Init, SessionInv
  <1>2. TypeOK /\ SessionInv => OneQueryPerSession
    BY DEF SessionInv, OneQueryPerSession
  <1> QED
    BY <1>1, <1>2, SessionInvNext, TypeCorrect, PTL DEF Spec

-----------------------------------------------------------------------------
(* The definition and the snapshot                                          *)

\* Who changes the snapshot or the cached definition.
LEMMA ShownBy ==
    ASSUME [Next]_vars
    PROVE  \/ Publish \/ PublishExternal \/ AnswerDefinition \/ \E o \in late : LateAnswer(o)
           \/ UNCHANGED <<snapshot, definition>>
  <1>1. CASE Start
    BY <1>1 DEF Start, StartOp, SkipHydrate, SkipDigest, SkipDefinition, Starts
  <1>2. CASE ReadCatalog \/ FindMismatch \/ AnswerDigest \/ Fail \/ Watchdog
    BY <1>2 DEF ReadCatalog, FindMismatch, AnswerDigest, Fail, Watchdog, shownVars
  <1>3. CASE Resume \/ ReadDefinition \/ Rename \/ SetNetwork \/ Dispose
             \/ Ddl \/ ExecutedBatch \/ Acquire \/ Release \/ Refresh \/ NoteAccessChanged \/ ExpireTtl
             \/ RetryTimer \/ PollTick \/ TakeSlot
    BY <1>3 DEF Resume, ReadDefinition, Rename, SetNetwork, Dispose, Ddl, ExecutedBatch, Acquire,
       Release, Refresh, NoteAccessChanged, ExpireTtl, RetryTimer, PollTick, TakeSlot, shownVars
  <1>4. CASE \E c \in Calls : \/ AskOffline(c) \/ AllowStale(c) \/ RequireValidated(c)
                              \/ RequireLive(c) \/ CallTimesOut(c)
    BY <1>4 DEF AskOffline, AllowStale, RequireValidated, RequireLive, CallTimesOut, Ask, shownVars
  <1>5. CASE UNCHANGED vars
    BY <1>5 DEF vars, shownVars
  <1> QED
    BY <1>1, <1>2, <1>3, <1>4, <1>5 DEF Next, OpAnswered

\* A definition is cached for the generation it was read in, and dropped with
\* it, also when its read was abandoned and is answered generations later.
THEOREM DefinitionIsOfGenerationHolds == Spec => []DefinitionIsOfGeneration
  <1>1. Init => DefinitionIsOfGeneration
    BY DEF Init, DefinitionIsOfGeneration
  <1>2. ASSUME TypeOK, DefinitionIsOfGeneration, [Next]_vars
        PROVE  DefinitionIsOfGeneration'
    <2>1. CASE Publish
      <3>1. \/ definition' = None
            \/ UNCHANGED <<snapshot, definition>>
        BY <2>1 DEF Publish, shownVars
      <3> QED
        BY <1>2, <3>1 DEF DefinitionIsOfGeneration
    <2>2. CASE PublishExternal
      BY <2>2 DEF PublishExternal, DefinitionIsOfGeneration
    <2>3. CASE AnswerDefinition
      BY <1>2, <2>3 DEF AnswerDefinition, CacheDefinition, DefinitionIsOfGeneration
    <2>4. ASSUME NEW o \in late, LateAnswer(o) PROVE DefinitionIsOfGeneration'
      <3>1. snapshot' = snapshot
        BY <2>4 DEF LateAnswer
      <3>2. definition' = definition \/ definition' = snapshot.gen
        BY <2>4 DEF LateAnswer, CacheDefinition
      <3> QED
        BY <1>2, <3>1, <3>2 DEF DefinitionIsOfGeneration
    <2>5. CASE UNCHANGED <<snapshot, definition>>
      BY <1>2, <2>5 DEF DefinitionIsOfGeneration
    <2> QED
      BY <1>2, <2>1, <2>2, <2>3, <2>4, <2>5, ShownBy
  <1> QED
    BY <1>1, <1>2, TypeCorrect, PTL DEF Spec

\* What is shown is no newer than the server, and what a hydration has read is
\* no older than what is shown.
ReadInv ==
    /\ snapshot.version <= catalog
    /\ snapshot.gen = 0 => snapshot.version = None
    /\ op.kind = "hydrate" => /\ op.read <= catalog
                              /\ op.read # None => snapshot.version <= op.read

\* The snapshot only ever changes for a later one of a greater generation.
SnapshotStep ==
    snapshot' # snapshot => /\ snapshot'.gen > snapshot.gen
                            /\ snapshot'.version >= snapshot.version

LEMMA SnapshotMoves ==
    ASSUME TypeOK, ReadInv, [Next]_vars
    PROVE  SnapshotStep
  <1>1. /\ snapshot \in [gen : Nat, version : None..MaxDdl]
        /\ catalog \in 0..MaxDdl
    BY DEF TypeOK
  <1>2. CASE Publish
    <2>1. CASE snapshot' = [gen |-> snapshot.gen + 1, version |-> op.read]
      <3>1. snapshot.version <= op.read
        BY <1>2 DEF Publish, ReadInv
      <3>2. op \in Ops
        BY <1>2 DEF Publish, TypeOK, Idle
      <3>3. op.read \in Int /\ snapshot.version \in Int /\ snapshot.gen \in Nat
        BY <1>1, <3>2, BoundsAssumption DEF Ops, None
      <3>4. snapshot'.gen = snapshot.gen + 1 /\ snapshot'.version = op.read
        BY <2>1
      <3> QED
        BY <3>1, <3>3, <3>4 DEF SnapshotStep
    <2>2. CASE snapshot' = snapshot
      BY <2>2 DEF SnapshotStep
    <2> QED
      BY <1>2, <2>1, <2>2 DEF Publish, shownVars
  <1>3. CASE PublishExternal
    <2>1. PICK version \in 0..catalog : snapshot' = [gen |-> 1, version |-> version]
      BY <1>3 DEF PublishExternal
    <2>2. snapshot.gen = 0 /\ snapshot.version = None
      BY <1>1, <1>3 DEF PublishExternal, HasSnapshot, ReadInv
    <2>3. snapshot'.gen = 1 /\ snapshot'.version = version /\ version \in Nat
      BY <1>1, <2>1
    <2> QED
      BY <2>2, <2>3 DEF SnapshotStep, None
  <1>4. CASE snapshot' = snapshot
    BY <1>4 DEF SnapshotStep
  <1> QED
    BY <1>2, <1>3, <1>4, ShownBy DEF AnswerDefinition, LateAnswer

\* Which steps give the lane another operation, or change the one it has.
LEMMA OpBy ==
    ASSUME [Next]_vars
    PROVE  \/ \E kind \in Kinds : StartOp(kind)
           \/ ReadCatalog
           \/ op' = Idle
           \/ op' = op
  <1>1. CASE Start
    BY <1>1 DEF Start, SkipHydrate, SkipDigest, SkipDefinition, SettlePass
  <1>2. CASE OpAnswered
    BY <1>2, AnsweredEnds
  <1>3. CASE Fail \/ Watchdog \/ \E o \in late : LateAnswer(o)
    BY <1>3, OpFailsEnds DEF Fail, Watchdog, FailPass, SettlePass, LateAnswer
  <1>4. CASE UNCHANGED vars
    BY <1>4 DEF vars, opVars
  <1> QED
    BY <1>1, <1>2, <1>3, <1>4, RequestsKeepOp DEF Next

LEMMA CatalogGrows ==
    ASSUME TypeOK, [Next]_vars
    PROVE  catalog' = catalog \/ (catalog' = catalog + 1 /\ UNCHANGED <<op, snapshot>>)
  <1>1. CASE Start
    BY <1>1 DEF Start, StartOp, SkipHydrate, SkipDigest, SkipDefinition, Starts, envVars
  <1>2. CASE OpAnswered
    BY <1>2 DEF OpAnswered, ReadCatalog, FindMismatch, Publish, AnswerDigest, AnswerDefinition,
       envVars
  <1>3. CASE Fail \/ Watchdog \/ \E o \in late : LateAnswer(o)
    BY <1>3 DEF Fail, Watchdog, LateAnswer, envVars
  <1>4. CASE Ddl
    BY <1>4 DEF Ddl, opVars, shownVars
  <1>5. CASE Resume \/ ReadDefinition \/ Rename \/ SetNetwork \/ Dispose \/ ExecutedBatch
             \/ Acquire \/ Release \/ Refresh \/ PublishExternal \/ NoteAccessChanged \/ ExpireTtl
             \/ RetryTimer \/ PollTick \/ TakeSlot
    BY <1>5 DEF Resume, ReadDefinition, Rename, SetNetwork, Dispose, ExecutedBatch, Acquire,
       Release, Refresh,
       PublishExternal, NoteAccessChanged, ExpireTtl, RetryTimer, PollTick, TakeSlot, envVars
  <1>6. CASE \E c \in Calls : \/ AskOffline(c) \/ AllowStale(c) \/ RequireValidated(c)
                              \/ RequireLive(c) \/ CallTimesOut(c)
    BY <1>6 DEF AskOffline, AllowStale, RequireValidated, RequireLive, CallTimesOut, Ask, envVars
  <1>7. CASE UNCHANGED vars
    BY <1>7 DEF vars, envVars
  <1> QED
    BY <1>1, <1>2, <1>3, <1>4, <1>5, <1>6, <1>7 DEF Next

\* The snapshot of a step, in three cases.
LEMMA SnapshotBy ==
    ASSUME [Next]_vars
    PROVE  \/ Publish /\ snapshot' = [gen |-> snapshot.gen + 1, version |-> op.read]
           \/ PublishExternal
           \/ snapshot' = snapshot
  BY ShownBy DEF Publish, shownVars, AnswerDefinition, LateAnswer

LEMMA ReadInvNext ==
    ASSUME TypeOK, ReadInv, [Next]_vars
    PROVE  ReadInv'
  <1>1. /\ snapshot \in [gen : Nat, version : None..MaxDdl]
        /\ catalog \in Nat
        /\ op # Idle => op \in Ops
    BY DEF TypeOK
  <1>2. snapshot.version \in Int /\ (op # Idle => op.read \in Int)
    BY <1>1, BoundsAssumption DEF Ops, None
  <1>3. CASE Publish /\ snapshot' = [gen |-> snapshot.gen + 1, version |-> op.read]
    <2>1. op' = Idle /\ op # Idle /\ catalog' = catalog
      <3>1. ~ReadCatalog
        BY <1>3 DEF Publish, ReadCatalog
      <3>2. op' = Idle /\ op # Idle
        BY <1>3, <3>1, AnsweredRuns, AnsweredEnds DEF OpAnswered
      <3>3. catalog' = catalog
        BY <1>3 DEF Publish, envVars
      <3> QED
        BY <3>2, <3>3
    <2>2. op.read <= catalog
      BY <1>3 DEF Publish, ReadInv
    <2>3. snapshot'.gen # 0 /\ snapshot'.version = op.read
      BY <1>1, <1>3
    <2> QED
      BY <2>1, <2>2, <2>3 DEF ReadInv, Idle
  <1>4. CASE PublishExternal
    <2>1. PICK version \in 0..catalog : snapshot' = [gen |-> 1, version |-> version]
      BY <1>4 DEF PublishExternal
    <2>2. UNCHANGED <<catalog, op>> /\ op.kind # "hydrate"
      BY <1>4 DEF PublishExternal, Hydrating, envVars, opVars
    <2> QED
      BY <1>1, <2>1, <2>2 DEF ReadInv
  <1>5. CASE snapshot' = snapshot
    <2>1. snapshot'.version <= catalog' /\ catalog <= catalog' /\ catalog' \in Nat
      BY <1>1, <1>2, <1>5, CatalogGrows DEF ReadInv
    <2>2. snapshot'.gen = 0 => snapshot'.version = None
      BY <1>5 DEF ReadInv
    <2>3. CASE \E kind \in Kinds : StartOp(kind)
      <3>1. op'.read = None
        BY <2>3 DEF StartOp
      <3>2. op'.read <= catalog'
        BY <2>1, <3>1 DEF None
      <3> QED
        BY <2>1, <2>2, <3>1, <3>2 DEF ReadInv
    <2>4. CASE ReadCatalog
      <3>1. op \in Ops /\ op' = [op EXCEPT !.read = catalog] /\ catalog' = catalog
        BY <1>1, <2>4 DEF ReadCatalog, Idle, envVars
      <3>2. op'.read = catalog
        BY <3>1 DEF Ops
      <3> QED
        BY <1>1, <1>5, <2>1, <2>2, <3>1, <3>2 DEF ReadInv
    <2>5. CASE op' = Idle
      BY <2>1, <2>2, <2>5 DEF ReadInv, Idle
    <2>6. CASE op' = op
      <3>1. op.kind = "hydrate" => op # Idle
        BY DEF Idle
      <3> QED
        BY <1>1, <1>2, <1>5, <2>1, <2>2, <2>6, <3>1 DEF ReadInv
    <2> QED
      BY <2>3, <2>4, <2>5, <2>6, OpBy
  <1> QED
    BY <1>3, <1>4, <1>5, SnapshotBy

LEMMA ReadInvInit == Init => ReadInv
  BY DEF Init, ReadInv, Idle, None

\* The catalog an entry shows is never replaced by an older one, and every
\* replacement has a greater generation.
THEOREM SnapshotNeverRegressesHolds == Spec => SnapshotNeverRegresses
  <1>1. TypeOK /\ ReadInv /\ [Next]_vars =>
            [snapshot' # snapshot => /\ snapshot'.gen > snapshot.gen
                                     /\ snapshot'.version >= snapshot.version]_vars
    BY SnapshotMoves DEF SnapshotStep
  <1> QED
    BY <1>1, ReadInvInit, ReadInvNext, TypeCorrect, PTL DEF Spec, SnapshotNeverRegresses

-----------------------------------------------------------------------------
(* Waiters                                                                  *)

\* A wait has behind it the pass, or the mark, that ends it.
Owed(wait) ==
    /\ wait \in {"pass", "joined", "followup"} => Hydrating
    /\ wait = "queued" => forcedRefresh

DigestDue == op.kind = "digest" \/ InLane("digest")

\* WaitersAreServed, with the waits of callers and of the validation apart.
WaitInv ==
    /\ forcedRefresh => Hydrating
    /\ Owed(validation)
    /\ \A c \in Calls : Owed(call[c])
    /\ validation = "lane" => DigestDue
    /\ \A c \in Calls : call[c] = "validating" => validation # "none"

LEMMA WaitInvServes == WaitInv => WaitersAreServed
  BY DEF WaitInv, WaitersAreServed, Owed, DigestDue

\* A step that takes no work away, and settles waits without adding one.
LEMMA WaitKeep ==
    ASSUME WaitInv,
           Hydrating => Hydrating',
           forcedRefresh' = forcedRefresh,
           DigestDue => DigestDue',
           validation' = validation \/ validation' = "slot" \/ validation' = "resumed",
           \A c \in Calls : call'[c] = call[c] \/ call'[c] \in Answers
    PROVE  WaitInv'
  BY DEF WaitInv, Owed, Answers

\* A lane that is as it was, or has one more operation.
LEMMA LaneGrows ==
    ASSUME TypeOK, op' = op,
           lane' = lane \/ \E kind \in Kinds : lane' = Append(lane, kind)
    PROVE  (Hydrating => Hydrating') /\ (DigestDue => DigestDue')
  BY LaneAppend DEF TypeOK, Hydrating, DigestDue, InLane

\* A trigger of a hydration leaves one in the lane.
LEMMA HydrateServes ==
    ASSUME TypeOK, NEW force \in BOOLEAN, Hydrate(force),
           op.kind = "hydrate" => op'.kind = "hydrate"
    PROVE  /\ Hydrating'
           /\ InLane("digest") => InLane("digest")'
           /\ forcedRefresh => forcedRefresh'
           /\ force /\ Hydrating => forcedRefresh'
  <1>1. lane \in Seq(Kinds) /\ "hydrate" \in Kinds
    BY DEF TypeOK, Kinds
  <1>2. CASE Hydrating
    BY <1>2 DEF Hydrate, Hydrating, InLane
  <1>3. CASE ~Hydrating
    <2>1. lane' = Append(lane, "hydrate")
      BY <1>3 DEF Hydrate
    <2>2. Range(lane') = Range(lane) \cup {"hydrate"}
      BY <1>1, <2>1, LaneAppend
    <2> QED
      BY <1>3, <2>2 DEF Hydrate, Hydrating, InLane
  <1> QED
    BY <1>2, <1>3

\* The end of a pass answers or resumes who waited for it; who waited behind it
\* has the follow-up pass, if there is one.
LEMMA WaitSettle ==
    ASSUME TypeOK, WaitInv, op.kind # "digest",
           NEW queue \in Seq(Kinds), InLane("digest") => "digest" \in Range(queue),
           NEW st, NEW has, NEW drift, NEW claim, NEW verdict,
           SettlePass(queue, st, has, drift, claim, verdict)
    PROVE  WaitInv'
  <1> DEFINE follows == forcedRefresh /\ ~disposed /\ network
  <1>1. op' = Idle /\ forcedRefresh' = FALSE
    BY DEF SettlePass
  <1>2. lane' = IF follows THEN Append(queue, "hydrate") ELSE queue
    BY DEF SettlePass
  <1>3. /\ Range(queue) \subseteq Range(lane')
        /\ follows => "hydrate" \in Range(lane')
    BY <1>2, LaneAppend DEF Kinds
  <1>4. follows => Hydrating'
    BY <1>3 DEF Hydrating, InLane
  <1>5. validation = "lane" => DigestDue'
    BY <1>3 DEF WaitInv, DigestDue, InLane
  <1>6. validation' = CASE validation \in {"joined", "pass"} -> "none"
                        [] validation \in {"queued", "followup"} ->
                               IF validation = "queued" /\ follows THEN "followup" ELSE "resumed"
                        [] OTHER -> validation
    BY DEF SettlePass
  <1>7. Owed(validation)' /\ (validation' = "lane" => validation = "lane")
    BY <1>4, <1>6 DEF Owed
  <1>8. ASSUME NEW c \in Calls
        PROVE  Owed(call[c])' /\ (call'[c] = "validating" => validation' # "none")
    <2>1. call'[c] =
               CASE call[c] = "pass" -> IF st = "ready" THEN "live" ELSE "unavailable"
                 [] call[c] = "joined" -> IF has THEN "live" ELSE "unavailable"
                 [] call[c] \in {"queued", "followup"} ->
                        IF call[c] = "queued" /\ follows THEN "followup" ELSE "resumed"
                 [] call[c] = "validating" /\ validation = "joined" ->
                        IF st = "ready" THEN "validated"
                        ELSE IF has /\ ~drift THEN "stale" ELSE "unavailable"
                 [] call[c] = "validating" /\ validation = "pass" -> "settled"
                 [] OTHER -> call[c]
      BY DEF SettlePass
    <2>2. Owed(call[c])'
      BY <1>4, <2>1 DEF Owed
    <2>3. call'[c] = "validating" => call[c] = "validating" /\ validation \notin {"joined", "pass"}
      BY <2>1
    <2>4. call[c] = "validating" => validation # "none"
      BY DEF WaitInv
    <2> QED
      BY <1>6, <2>2, <2>3, <2>4
  <1> QED
    BY <1>1, <1>5, <1>7, <1>8 DEF WaitInv

\* A verdict answers every caller of the validation.
LEMMA WaitVerdict ==
    ASSUME WaitInv, NEW result, NEW drift, NEW claim, Verdict(result, drift, claim),
           Hydrating => Hydrating', forcedRefresh' = forcedRefresh
    PROVE  WaitInv'
  <1>1. validation' = "none"
    BY DEF Verdict
  <1>2. ASSUME NEW c \in Calls
        PROVE  Owed(call[c])' /\ call'[c] # "validating"
    <2>1. \/ call'[c] = call[c] /\ call[c] # "validating"
          \/ call'[c] \in Answers
      BY DEF Verdict, NotValidated, Answers
    <2> QED
      BY <2>1 DEF WaitInv, Owed, Answers
  <1> QED
    BY <1>1, <1>2 DEF WaitInv, Owed

LEMMA WaitStart ==
    ASSUME TypeOK, WaitInv, Start
    PROVE  WaitInv'
  <1>1. /\ lane \in Seq(Kinds) /\ lane # <<>> /\ op = Idle
        /\ Tail(lane) \in Seq(Kinds)
        /\ Range(lane) = Range(Tail(lane)) \cup {Head(lane)}
    BY LaneTail
       DEF TypeOK, Start, StartOp, SkipHydrate, SkipDigest, SkipDefinition, Starts, Starting
  <1>2. ASSUME NEW kind \in Kinds, StartOp(kind) PROVE WaitInv'
    <2>1. Head(lane) = kind /\ op'.kind = kind /\ lane' = Tail(lane)
      BY <1>2 DEF StartOp, Starts
    <2>2. (Hydrating => Hydrating') /\ (DigestDue => DigestDue')
      BY <1>1, <2>1 DEF Hydrating, DigestDue, InLane, Idle
    <2> QED
      BY <1>2, <2>2, WaitKeep DEF StartOp, verdictVars
  <1>3. CASE SkipHydrate
    <2>1. Head(lane) = "hydrate"
      BY <1>3 DEF SkipHydrate, Starts
    <2>2. op.kind # "digest" /\ (InLane("digest") => "digest" \in Range(Tail(lane)))
      BY <1>1, <2>1 DEF InLane, Idle
    <2> QED
      BY <1>1, <1>3, <2>2, WaitSettle DEF SkipHydrate
  <1>4. CASE SkipDigest
    <2>1. Head(lane) = "digest" /\ lane' = Tail(lane) /\ op' = op /\ forcedRefresh' = forcedRefresh
      BY <1>4 DEF SkipDigest, Starts
    <2>2. Hydrating => Hydrating'
      BY <1>1, <2>1 DEF Hydrating, InLane
    <2> QED
      BY <1>4, <2>1, <2>2, WaitVerdict DEF SkipDigest
  <1>5. CASE SkipDefinition
    <2>1. Head(lane) = "definition" /\ lane' = Tail(lane) /\ op' = op /\ forcedRefresh' = forcedRefresh
          /\ UNCHANGED <<validation, call>>
      BY <1>5 DEF SkipDefinition, Starts, verdictVars
    <2>2. (Hydrating => Hydrating') /\ (DigestDue => DigestDue')
      BY <1>1, <2>1 DEF Hydrating, DigestDue, InLane
    <2> QED
      BY <2>1, <2>2, WaitKeep
  <1> QED
    BY <1>2, <1>3, <1>4, <1>5 DEF Start

\* The validation that resumes takes the callers that share it along.
LEMMA WaitResume ==
    ASSUME TypeOK, WaitInv, Resume
    PROVE  WaitInv'
  <1>1. UNCHANGED <<lane, forcedRefresh, op>>
    BY DEF Resume, laneVars, opVars
  <1>2. (Hydrating <=> Hydrating') /\ (DigestDue <=> DigestDue')
    BY <1>1 DEF Hydrating, DigestDue, InLane
  <1>3. validation' = IF validation = "resumed" THEN "none" ELSE validation
    BY DEF Resume, verdictVars
  <1>4. ASSUME NEW c \in Calls
        PROVE  Owed(call[c])' /\ (call'[c] = "validating" => validation' # "none")
    <2>1. \/ call'[c] \in Answers
          \/ call'[c] = call[c] /\ ~(call[c] = "validating" /\ validation = "resumed")
      BY DEF Resume, NotValidated, Answers
    <2> QED
      BY <1>1, <1>2, <1>3, <2>1 DEF WaitInv, Owed, Answers
  <1> QED
    BY <1>1, <1>2, <1>3, <1>4 DEF WaitInv, Owed

\* A trigger of a hydration with the waits it answers, in the calls or in the
\* validation; the digest that asks for one is over.
LEMMA WaitHydrate ==
    ASSUME TypeOK, WaitInv, NEW force \in BOOLEAN, Hydrate(force),
           \/ op' = op
           \/ op.kind = "digest" /\ validation' = HydrateWait(force),
           validation' \in {validation, "joined", HydrateWait(force)},
           \A c \in Calls : \/ call'[c] \in {call[c], "joined", HydrateWait(force)} \cup Answers
                            \/ call'[c] = "validating" /\ validation' # "none"
    PROVE  WaitInv'
  <1>1. op.kind = "hydrate" => op'.kind = "hydrate"
    OBVIOUS
  <1>2. /\ Hydrating'
        /\ InLane("digest") => InLane("digest")'
        /\ forcedRefresh => forcedRefresh'
        /\ force /\ Hydrating => forcedRefresh'
    BY <1>1, HydrateServes
  <1>3. /\ HydrateWait(force) \in {"pass", "queued"}
        /\ HydrateWait(force) = "queued" => force /\ Hydrating
    BY DEF HydrateWait
  <1>4. Owed(validation)'
    BY <1>2, <1>3 DEF WaitInv, Owed
  <1>5. ASSUME NEW c \in Calls
        PROVE  Owed(call[c])' /\ (call'[c] = "validating" => validation' # "none")
    BY <1>2, <1>3 DEF WaitInv, Owed, Answers
  <1>6. validation' = "lane" => DigestDue'
    BY <1>2, <1>3 DEF WaitInv, DigestDue
  <1> QED
    BY <1>2, <1>4, <1>5, <1>6 DEF WaitInv

\* The operation that runs is answered.
LEMMA WaitAnswered ==
    ASSUME TypeOK, WaitInv, OpAnswered
    PROVE  WaitInv'
  <1>1. lane \in Seq(Kinds)
    BY DEF TypeOK
  <1>2. CASE ReadCatalog
    <2>1. op # Idle
      BY <1>2, AnsweredRuns DEF OpAnswered
    <2>2. op \in Ops /\ op' = [op EXCEPT !.read = catalog] /\ UNCHANGED <<laneVars, validation, call>>
      BY <1>2, <2>1 DEF ReadCatalog, TypeOK, verdictVars, callVars
    <2>3. op'.kind = op.kind
      BY <2>2 DEF Ops
    <2>4. (Hydrating => Hydrating') /\ (DigestDue => DigestDue')
      BY <2>2, <2>3 DEF Hydrating, DigestDue, InLane, laneVars
    <2> QED
      BY <2>2, <2>4, WaitKeep DEF laneVars
  <1>3. CASE FindMismatch
    <2>1. op.kind # "digest" /\ (InLane("digest") => "digest" \in Range(lane))
      BY <1>3 DEF FindMismatch, InLane
    <2>2. CASE op.captured = opEpoch
      <3>1. FailPass(TRUE, FALSE, lastValidation)
        BY <1>3, <2>2 DEF FindMismatch
      <3> QED
        BY <1>1, <2>1, <3>1, WaitSettle DEF FailPass
    <2>3. CASE op.captured # opEpoch
      <3>1. SettlePass(lane, status, HasSnapshot, TRUE, FALSE, lastValidation)
        BY <1>3, <2>3 DEF FindMismatch
      <3> QED
        BY <1>1, <2>1, <3>1, WaitSettle
    <2> QED
      BY <2>2, <2>3
  <1>4. CASE Publish
    <2>1. op.kind # "digest" /\ (InLane("digest") => "digest" \in Range(lane))
      BY <1>4 DEF Publish, InLane
    <2>2. \/ SettlePass(lane, "ready", TRUE, FALSE, TRUE, "unchanged")
          \/ SettlePass(lane, status, HasSnapshot, identityDrift, validated, lastValidation)
      BY <1>4 DEF Publish
    <2> QED
      BY <1>1, <2>1, <2>2, WaitSettle
  <1>5. CASE AnswerDigest
    <2>1. op.kind = "digest" /\ op' = Idle
      BY <1>5 DEF AnswerDigest
    <2>2. ASSUME UNCHANGED laneVars
          PROVE  (Hydrating => Hydrating') /\ forcedRefresh' = forcedRefresh
      BY <2>1, <2>2 DEF laneVars, Hydrating, InLane
    <2>3. CASE ~Sits(op)
      <3>1. Verdict("failed", TRUE, validated /\ identityDrift) /\ UNCHANGED laneVars
        BY <1>5, <2>3 DEF AnswerDigest
      <3> QED
        BY <2>2, <3>1, WaitVerdict
    <2>4. CASE Verdict("unchanged", FALSE, TRUE) /\ UNCHANGED laneVars
      BY <2>2, <2>4, WaitVerdict
    <2>5. CASE DigestChanged
      <3>1. CASE network /\ ~disposed
        <4>1. Hydrate(TRUE) /\ validation' = HydrateWait(TRUE) /\ call' = call
          BY <2>5, <3>1 DEF DigestChanged
        <4> QED
          BY <2>1, <4>1, WaitHydrate
      <3>2. CASE ~(network /\ ~disposed)
        <4>1. UNCHANGED laneVars /\ validation' = "resumed" /\ call' = call
          BY <2>5, <3>2 DEF DigestChanged
        <4> QED
          BY <2>2, <4>1 DEF WaitInv, Owed
      <3> QED
        BY <3>1, <3>2
    <2> QED
      BY <1>5, <2>3, <2>4, <2>5 DEF AnswerDigest
  <1>6. CASE AnswerDefinition
    <2>1. op.kind = "definition" /\ op' = Idle /\ UNCHANGED <<laneVars, validation, call>>
      BY <1>6 DEF AnswerDefinition, verdictVars, callVars
    <2>2. (Hydrating => Hydrating') /\ (DigestDue => DigestDue')
      BY <2>1 DEF Hydrating, DigestDue, InLane, laneVars
    <2> QED
      BY <2>1, <2>2, WaitKeep DEF laneVars
  <1> QED
    BY <1>2, <1>3, <1>4, <1>5, <1>6 DEF OpAnswered

LEMMA WaitOpFails ==
    ASSUME TypeOK, WaitInv, OpFails
    PROVE  WaitInv'
  <1>1. lane \in Seq(Kinds)
    BY DEF TypeOK
  <1>2. CASE op.kind = "hydrate"
    <2>1. op.kind # "digest" /\ (InLane("digest") => "digest" \in Range(lane))
      BY <1>2 DEF InLane
    <2>2. \/ FailPass(identityDrift, validated, lastValidation)
          \/ FailPass(identityDrift, FALSE, "failed")
          \/ SettlePass(lane, status, HasSnapshot, identityDrift, validated, lastValidation)
      BY <1>2 DEF OpFails
    <2> QED
      BY <1>1, <2>1, <2>2, WaitSettle DEF FailPass
  <1>3. CASE op.kind = "digest"
    <2>1. Verdict("failed", identityDrift, validated) /\ op' = Idle /\ UNCHANGED laneVars
      BY <1>3 DEF OpFails
    <2>2. (Hydrating => Hydrating') /\ forcedRefresh' = forcedRefresh
      BY <1>3, <2>1 DEF laneVars, Hydrating, InLane
    <2> QED
      BY <2>1, <2>2, WaitVerdict
  <1>4. CASE op.kind \notin {"hydrate", "digest"}
    <2>1. op' = Idle /\ UNCHANGED <<laneVars, validation, call>>
      BY <1>4 DEF OpFails, verdictVars
    <2>2. (Hydrating => Hydrating') /\ (DigestDue => DigestDue')
      BY <1>4, <2>1 DEF laneVars, Hydrating, DigestDue, InLane
    <2> QED
      BY <2>1, <2>2, WaitKeep DEF laneVars
  <1> QED
    BY <1>2, <1>3, <1>4

LEMMA WaitFaults ==
    ASSUME TypeOK, WaitInv, Fail \/ Watchdog \/ \E o \in late : LateAnswer(o)
    PROVE  WaitInv'
  <1>1. CASE Fail
    BY <1>1, WaitOpFails DEF Fail
  <1>2. CASE Watchdog
    <2>1. CASE op.kind = "hydrate"
      <3>1. op.kind # "digest" /\ lane \in Seq(Kinds) /\ (InLane("digest") => "digest" \in Range(lane))
        BY <2>1 DEF InLane, TypeOK
      <3>2. \/ FailPass(identityDrift, validated, lastValidation)
            \/ SettlePass(lane, status, HasSnapshot, identityDrift, validated, lastValidation)
        BY <1>2, <2>1 DEF Watchdog
      <3> QED
        BY <3>1, <3>2, WaitSettle DEF FailPass
    <2>2. CASE op.kind # "hydrate"
      BY <1>2, <2>2, WaitOpFails DEF Watchdog
    <2> QED
      BY <2>1, <2>2
  <1>3. ASSUME NEW o \in late, LateAnswer(o) PROVE WaitInv'
    <2>1. UNCHANGED <<op, lane, forcedRefresh, validation, call>>
      BY <1>3 DEF LateAnswer, laneVars, callVars
    <2> QED
      BY <2>1 DEF WaitInv, Owed, Hydrating, DigestDue, InLane
  <1> QED
    BY <1>1, <1>2, <1>3

LEMMA WaitRequests ==
    ASSUME TypeOK, WaitInv,
           \/ ReadDefinition \/ Rename \/ SetNetwork \/ Dispose
           \/ Ddl \/ ExecutedBatch \/ Acquire \/ Release \/ Refresh
           \/ PublishExternal \/ NoteAccessChanged \/ ExpireTtl
           \/ RetryTimer \/ PollTick \/ TakeSlot
    PROVE  WaitInv'
  <1>1. op' = op
    BY RequestsKeepOp
  <1>2. call' = call
    BY DEF ReadDefinition, Rename, SetNetwork, Dispose, Ddl, ExecutedBatch, Acquire,
       Release, Refresh, PublishExternal, NoteAccessChanged, ExpireTtl, RetryTimer, PollTick,
       TakeSlot, callVars
  <1>3. CASE Rename \/ SetNetwork \/ Dispose \/ Release \/ PublishExternal \/ NoteAccessChanged
             \/ ExpireTtl
    <2>1. UNCHANGED <<lane, forcedRefresh, validation>>
      BY <1>3 DEF Rename, SetNetwork, Dispose, Release, PublishExternal, NoteAccessChanged,
         ExpireTtl, laneVars, verdictVars
    <2> QED
      BY <1>1, <1>2, <2>1 DEF WaitInv, Owed, Hydrating, DigestDue, InLane
  <1>4. CASE ReadDefinition
    <2>1. lane' = Append(lane, "definition") /\ UNCHANGED <<forcedRefresh, validation>>
      BY <1>4 DEF ReadDefinition, verdictVars
    <2> QED
      BY <1>1, <1>2, <2>1, LaneGrows, WaitKeep DEF Kinds
  <1>5. CASE TakeSlot
    <2>1. lane' = Append(lane, "digest") /\ forcedRefresh' = forcedRefresh /\ validation' = "lane"
          /\ validation = "slot" /\ lane \in Seq(Kinds) /\ "digest" \in Kinds
      BY <1>5 DEF TakeSlot, TypeOK, Kinds
    <2>2. Hydrating => Hydrating'
      BY <1>1, <2>1, LaneGrows
    <2>3. DigestDue'
      BY <2>1, LaneAppend DEF DigestDue, InLane
    <2> QED
      BY <1>2, <2>1, <2>2, <2>3 DEF WaitInv, Owed
  <1>6. CASE Ddl \/ ExecutedBatch \/ Acquire \/ Refresh \/ RetryTimer \/ PollTick
    <2>1. \/ /\ \E force \in BOOLEAN : Hydrate(force)
             /\ validation' = validation
          \/ /\ UNCHANGED <<lane, forcedRefresh>>
             /\ validation' = validation \/ validation' = "slot"
      BY <1>6 DEF Ddl, ExecutedBatch, Acquire, Refresh, RetryTimer, PollTick, laneVars, verdictVars
    <2>2. CASE UNCHANGED <<lane, forcedRefresh>> /\ (validation' = validation \/ validation' = "slot")
      <3>1. (Hydrating => Hydrating') /\ (DigestDue => DigestDue')
        BY <1>1, <2>2, LaneGrows
      <3> QED
        BY <1>2, <2>2, <3>1, WaitKeep
    <2>3. ASSUME NEW force \in BOOLEAN, Hydrate(force), validation' = validation
          PROVE  WaitInv'
      BY <1>1, <1>2, <2>3, WaitHydrate
    <2> QED
      BY <2>1, <2>2, <2>3
  <1> QED
    BY <1>3, <1>4, <1>5, <1>6

\* What a call of ensureFresh leaves for the other calls.
LEMMA AskOnly ==
    ASSUME TypeOK, NEW c \in Calls, NEW answer, Ask(c, answer)
    PROVE  /\ op' = op
           /\ \A d \in Calls : call'[d] = IF d = c THEN answer ELSE call[d]
  BY DEF Ask, TypeOK, opVars

LEMMA WaitCalls ==
    ASSUME TypeOK, WaitInv, NEW c \in Calls,
           \/ AskOffline(c) \/ AllowStale(c) \/ RequireValidated(c) \/ RequireLive(c)
           \/ CallTimesOut(c)
    PROVE  WaitInv'
  <1>1. ASSUME NEW answer \in Answers, Ask(c, answer), UNCHANGED <<lane, forcedRefresh>>,
               UNCHANGED validation
        PROVE  WaitInv'
    <2>1. (Hydrating => Hydrating') /\ (DigestDue => DigestDue')
      BY <1>1, AskOnly, LaneGrows
    <2> QED
      BY <1>1, <2>1, AskOnly, WaitKeep
  <1>2. CASE AskOffline(c)
    <2>1. Ask(c, "stale") \/ Ask(c, "unavailable")
      BY <1>2 DEF AskOffline
    <2> QED
      BY <1>1, <1>2, <2>1 DEF AskOffline, laneVars, Answers
  <1>3. CASE AllowStale(c)
    <2>1. \/ Ask(c, "stale") /\ UNCHANGED laneVars
          \/ Ask(c, "stale") /\ Hydrate(TRUE)
          \/ Ask(c, "joined") /\ Hydrate(FALSE)
      BY <1>3 DEF AllowStale
    <2>2. validation' = validation
      BY <1>3 DEF AllowStale
    <2>3. CASE Ask(c, "stale") /\ UNCHANGED laneVars
      BY <1>1, <2>2, <2>3 DEF laneVars, Answers
    <2>4. CASE Ask(c, "stale") /\ Hydrate(TRUE)
      BY <2>2, <2>4, AskOnly, WaitHydrate DEF Answers
    <2>5. CASE Ask(c, "joined") /\ Hydrate(FALSE)
      BY <2>2, <2>5, AskOnly, WaitHydrate
    <2> QED
      BY <2>1, <2>3, <2>4, <2>5
  <1>4. CASE RequireValidated(c)
    <2>1. CASE \E answer \in Answers : Ask(c, answer)
                                      /\ UNCHANGED <<laneVars, validation>>
      BY <1>1, <2>1 DEF laneVars
    <2>2. CASE /\ Ask(c, "validating")
               /\ UNCHANGED laneVars
               /\ validation' # "none"
               /\ validation' = validation \/ validation' = "slot"
      <3>1. (Hydrating => Hydrating') /\ (DigestDue => DigestDue') /\ forcedRefresh' = forcedRefresh
        BY <2>2, AskOnly, LaneGrows DEF laneVars
      <3> QED
        BY <2>2, <3>1, AskOnly DEF WaitInv, Owed
    <2>3. CASE /\ Ask(c, "validating")
               /\ validation' = "joined"
               /\ Hydrate(FALSE)
      BY <2>3, AskOnly, WaitHydrate
    <2>4. LatchedVerdict \in Answers /\ "validated" \in Answers
      BY DEF LatchedVerdict, Answers
    <2> QED
      BY <1>4, <2>1, <2>2, <2>3, <2>4 DEF RequireValidated
  <1>5. CASE RequireLive(c)
    <2>1. \/ Ask(c, "unavailable") /\ UNCHANGED laneVars
          \/ Ask(c, HydrateWait(TRUE)) /\ Hydrate(TRUE)
      BY <1>5 DEF RequireLive
    <2>2. validation' = validation
      BY <1>5 DEF RequireLive
    <2>3. CASE Ask(c, "unavailable") /\ UNCHANGED laneVars
      BY <1>1, <2>2, <2>3 DEF laneVars, Answers
    <2>4. CASE Ask(c, HydrateWait(TRUE)) /\ Hydrate(TRUE)
      BY <2>2, <2>4, AskOnly, WaitHydrate
    <2> QED
      BY <2>1, <2>3, <2>4
  <1>6. CASE CallTimesOut(c)
    <2>1. UNCHANGED <<op, lane, forcedRefresh, validation>>
      BY <1>6 DEF CallTimesOut, opVars, laneVars, verdictVars
    <2>2. \A d \in Calls : call'[d] = call[d] \/ call'[d] \in Answers
      BY <1>6 DEF CallTimesOut, TypeOK, NotValidated, Answers
    <2>3. (Hydrating => Hydrating') /\ (DigestDue => DigestDue')
      BY <2>1, LaneGrows
    <2> QED
      BY <2>1, <2>2, <2>3, WaitKeep
  <1> QED
    BY <1>2, <1>3, <1>4, <1>5, <1>6

LEMMA WaitInvNext ==
    ASSUME TypeOK, WaitInv, [Next]_vars
    PROVE  WaitInv'
  <1>1. CASE UNCHANGED vars
    BY <1>1 DEF vars, opVars, laneVars, verdictVars, callVars, WaitInv, Owed, Hydrating, DigestDue,
       InLane
  <1> QED
    BY <1>1, WaitStart, WaitResume, WaitAnswered, WaitFaults, WaitRequests, WaitCalls DEF Next

LEMMA WaitInvInit == Init => WaitInv
  BY DEF Init, WaitInv, Owed, Hydrating, DigestDue, InLane

\* Nobody is left waiting: whatever fails, hangs, is skipped or abandoned, each
\* wait has in the lane, or in the follow-up mark, the work that ends it.
THEOREM WaitersAreServedHolds == Spec => []WaitersAreServed
  BY WaitInvInit, WaitInvNext, WaitInvServes, TypeCorrect, PTL DEF Spec

-----------------------------------------------------------------------------
(* What a requireLive caller is told                                        *)

\* Callers asked in the past.
AskedBefore == \A c \in Calls : since[c] <= catalog

\* The pass a requireLive caller waits for reads the catalog after the call.
PassIsFresh ==
    \A c \in Calls :
        call[c] \in {"pass", "followup"} =>
            (op.kind = "hydrate" /\ op.read # None => op.read >= since[c])

\* So does the pass whose outcome it is about to read.
ResumedIsFresh ==
    \A c \in Calls :
        call[c] = "resumed" =>
            (network /\ ~disposed /\ status = "ready" => snapshot.version >= since[c])

\* No entry is ready while it hydrates.
HydratingIsNotReady == op.kind = "hydrate" => status # "ready"

LiveInv == AskedBefore /\ PassIsFresh /\ ResumedIsFresh /\ HydratingIsNotReady

LiveStep ==
    \A c \in Calls :
        /\ call[c] \in LiveWaits /\ call'[c] = "live"
        /\ network /\ ~disposed
        => snapshot'.version >= since[c]

LEMMA LiveInvInit == Init => LiveInv
  BY DEF Init, LiveInv, AskedBefore, PassIsFresh, ResumedIsFresh, HydratingIsNotReady, Idle

\* A step that tells nobody "live", and starts nothing.
LEMMA LiveKeep ==
    ASSUME TypeOK, LiveInv, UNCHANGED since, catalog' >= catalog, catalog' \in Nat,
           \A c \in Calls : call'[c] = call[c] \/ call'[c] \in {"validated", "stale", "unavailable"},
           op' = op \/ op' = Idle,
           status' = "ready" => status = "ready" \/ op'.kind # "hydrate",
           \/ \A c \in Calls : call[c] # "resumed"
           \/ UNCHANGED <<network, disposed, status, snapshot>>
    PROVE  LiveInv' /\ LiveStep
  <1>1. AskedBefore'
    <2>1. \A c \in Calls : since[c] \in Nat /\ catalog \in Nat
      BY DEF TypeOK
    <2> QED
      BY <2>1 DEF LiveInv, AskedBefore
  <1>2. PassIsFresh'
    BY DEF LiveInv, PassIsFresh, Idle
  <1>3. ResumedIsFresh'
    <2> SUFFICES ASSUME NEW c \in Calls, call[c] = "resumed",
                        network', ~disposed', status' = "ready"
                 PROVE  snapshot'.version >= since[c]
      BY DEF ResumedIsFresh
    <2>1. UNCHANGED <<network, disposed, status, snapshot>>
      OBVIOUS
    <2>2. network /\ ~disposed
      BY <2>1
    <2> QED
      BY <2>1, <2>2 DEF LiveInv, ResumedIsFresh
  <1>4. HydratingIsNotReady'
    BY DEF LiveInv, HydratingIsNotReady, Idle
  <1>5. LiveStep
    BY DEF LiveStep, LiveWaits
  <1> QED
    BY <1>1, <1>2, <1>3, <1>4, <1>5 DEF LiveInv

\* The end of a pass: if it leaves the entry ready, it has published what it read.
LEMMA LiveSettle ==
    ASSUME TypeOK, WaitInv, LiveInv, UNCHANGED <<since, network, disposed, catalog>>,
           NEW queue, NEW st, NEW has, NEW drift, NEW claim, NEW verdict,
           SettlePass(queue, st, has, drift, claim, verdict),
           \/ ~PassMayRun
           \/ /\ \A c \in Calls : call[c] # "resumed"
              /\ st = "ready" \/ status' = "ready" =>
                     /\ snapshot'.version = op.read
                     /\ op.kind = "hydrate" /\ op.read # None
    PROVE  LiveInv' /\ LiveStep
  <1> DEFINE follows == forcedRefresh /\ ~disposed /\ network
  <1>1. op' = Idle
    BY DEF SettlePass
  <1>2. ASSUME NEW c \in Calls
        PROVE  call'[c] =
               CASE call[c] = "pass" -> IF st = "ready" THEN "live" ELSE "unavailable"
                 [] call[c] = "joined" -> IF has THEN "live" ELSE "unavailable"
                 [] call[c] \in {"queued", "followup"} ->
                        IF call[c] = "queued" /\ follows THEN "followup" ELSE "resumed"
                 [] call[c] = "validating" /\ validation = "joined" ->
                        IF st = "ready" THEN "validated"
                        ELSE IF has /\ ~drift THEN "stale" ELSE "unavailable"
                 [] call[c] = "validating" /\ validation = "pass" -> "settled"
                 [] OTHER -> call[c]
    BY DEF SettlePass
  <1>3. AskedBefore'
    BY DEF LiveInv, AskedBefore
  <1>4. PassIsFresh' /\ HydratingIsNotReady'
    BY <1>1 DEF PassIsFresh, HydratingIsNotReady, Idle
  <1>5. ASSUME NEW c \in Calls, PassMayRun
        PROVE  /\ call'[c] = "resumed" => call[c] = "followup"
               /\ call[c] \in LiveWaits /\ call'[c] = "live" => call[c] = "pass" /\ st = "ready"
    <2>1. call[c] # "resumed"
      BY <1>5 DEF PassMayRun
    <2>2. call[c] = "queued" => follows
      BY <1>5 DEF WaitInv, Owed, PassMayRun
    <2> QED
      BY <1>2, <2>1, <2>2 DEF LiveWaits
  <1>6. ResumedIsFresh'
    <2> SUFFICES ASSUME NEW c \in Calls, call'[c] = "resumed", PassMayRun,
                        status' = "ready"
                 PROVE  snapshot'.version >= since[c]
      BY DEF ResumedIsFresh, PassMayRun
    <2>1. op.read >= since[c]
      BY <1>5 DEF LiveInv, PassIsFresh
    <2> QED
      BY <2>1
  <1>7. LiveStep
    <2> SUFFICES ASSUME NEW c \in Calls, call[c] \in LiveWaits,
                        call'[c] = "live", PassMayRun
                 PROVE  snapshot'.version >= since[c]
      BY DEF LiveStep, PassMayRun
    <2>1. op.read >= since[c]
      BY <1>5 DEF LiveInv, PassIsFresh
    <2> QED
      BY <1>5, <2>1
  <1> QED
    BY <1>3, <1>4, <1>6, <1>7 DEF LiveInv

LEMMA LiveStart ==
    ASSUME TypeOK, WaitInv, LiveInv, Start
    PROVE  LiveInv' /\ LiveStep
  <1>1. /\ UNCHANGED <<since, network, disposed, catalog, snapshot>>
        /\ op = Idle /\ catalog \in Nat
    BY DEF Start, StartOp, SkipHydrate, SkipDigest, SkipDefinition, Starts, Starting, envVars,
       latchVars, TypeOK
  <1>2. ASSUME NEW kind \in Kinds, StartOp(kind) PROVE LiveInv' /\ LiveStep
    <2>1. op'.kind = kind /\ op'.read = None /\ call' = call
      BY <1>2 DEF StartOp
    <2>2. status' = "ready" => status = "ready" /\ kind # "hydrate"
      BY <1>2 DEF StartOp
    <2> QED
      BY <1>1, <2>1, <2>2
         DEF LiveInv, AskedBefore, PassIsFresh, ResumedIsFresh, HydratingIsNotReady, LiveStep,
             LiveWaits
  <1>3. CASE SkipHydrate
    <2>1. ~PassMayRun
      BY <1>3 DEF SkipHydrate
    <2> QED
      BY <1>1, <1>3, <2>1, LiveSettle DEF SkipHydrate
  <1>4. CASE SkipDigest \/ SkipDefinition
    <2>1. op' = op /\ status' = status
      BY <1>4 DEF SkipDigest, SkipDefinition
    <2>2. \A c \in Calls : call'[c] = call[c] \/ call'[c] \in {"validated", "stale", "unavailable"}
      BY <1>4 DEF SkipDigest, SkipDefinition, Verdict, NotValidated
    <2> QED
      BY <1>1, <2>1, <2>2, LiveKeep
  <1> QED
    BY <1>2, <1>3, <1>4 DEF Start

\* Who resumes is told "live" by an entry that is ready, of a pass of its own.
LEMMA LiveResume ==
    ASSUME TypeOK, LiveInv, Resume
    PROVE  LiveInv' /\ LiveStep
  <1>1. UNCHANGED <<since, network, disposed, catalog, snapshot, status, op>>
    BY DEF Resume, envVars, opVars, shownVars, latchVars
  <1>2. ASSUME NEW c \in Calls
        PROVE  \/ call'[c] = call[c] /\ call[c] # "resumed"
               \/ call'[c] \in {"stale", "unavailable"}
               \/ call'[c] = "live" /\ call[c] = "resumed" /\ status = "ready"
               \/ call'[c] = "live" /\ call[c] \in {"validating", "settled"}
    BY DEF Resume, NotValidated
  <1>3. LiveInv'
    BY <1>1, <1>2 DEF LiveInv, AskedBefore, PassIsFresh, ResumedIsFresh, HydratingIsNotReady
  <1>4. LiveStep
    BY <1>1, <1>2 DEF LiveInv, AskedBefore, ResumedIsFresh, LiveStep, LiveWaits
  <1> QED
    BY <1>3, <1>4

LEMMA AnsweredKeeps ==
    ASSUME OpAnswered
    PROVE  UNCHANGED <<since, network, disposed, catalog>>
  <1>1. CASE ReadCatalog
    BY <1>1 DEF ReadCatalog, envVars, latchVars, callVars
  <1>2. CASE FindMismatch
    BY <1>2 DEF FindMismatch, envVars
  <1>3. CASE Publish
    BY <1>3 DEF Publish, envVars
  <1>4. CASE AnswerDigest
    BY <1>4 DEF AnswerDigest, envVars
  <1>5. CASE AnswerDefinition
    BY <1>5 DEF AnswerDefinition, envVars, latchVars, callVars
  <1> QED
    BY <1>1, <1>2, <1>3, <1>4, <1>5 DEF OpAnswered

LEMMA LiveAnswered ==
    ASSUME TypeOK, WaitInv, LiveInv, Quiet, OpAnswered
    PROVE  LiveInv' /\ LiveStep
  <1>1. /\ UNCHANGED <<since, network, disposed, catalog>>
        /\ catalog \in Nat
        /\ \A c \in Calls : call[c] # "resumed"
    <2>1. UNCHANGED <<since, network, disposed, catalog>>
      BY AnsweredKeeps
    <2> QED
      BY <2>1 DEF TypeOK, Quiet, Resuming
  <1>2. op.kind = "hydrate" => status # "ready"
    BY DEF LiveInv, HydratingIsNotReady
  <1>3. CASE ReadCatalog
    <2>1. op \in Ops /\ op' = [op EXCEPT !.read = catalog]
      BY <1>3, AnsweredRuns DEF OpAnswered, ReadCatalog, TypeOK
    <2>2. op'.kind = op.kind /\ op'.read = catalog
      BY <2>1 DEF Ops
    <2>3. UNCHANGED <<call, status, snapshot>>
      BY <1>3 DEF ReadCatalog, callVars, shownVars
    <2>4. \A c \in Calls : since[c] <= catalog /\ since[c] \in Nat
      BY DEF LiveInv, AskedBefore, TypeOK
    <2>5. PassIsFresh'
      BY <1>1, <2>2, <2>4 DEF PassIsFresh
    <2> QED
      BY <1>1, <2>2, <2>3, <2>5
         DEF LiveInv, AskedBefore, ResumedIsFresh, HydratingIsNotReady, LiveStep, LiveWaits
  <1>4. CASE FindMismatch
    <2>1. CASE op.captured = opEpoch
      <3>1. FailPass(TRUE, FALSE, lastValidation)
        BY <1>4, <2>1 DEF FindMismatch
      <3> QED
        BY <1>1, <3>1, LiveSettle DEF FailPass
    <2>2. CASE op.captured # opEpoch
      <3>1. SettlePass(lane, status, HasSnapshot, TRUE, FALSE, lastValidation) /\ status' = status
            /\ status # "ready"
        BY <1>2, <1>4, <2>2 DEF FindMismatch
      <3> QED
        BY <1>1, <3>1, LiveSettle
    <2> QED
      BY <2>1, <2>2
  <1>5. CASE Publish
    <2>1. op.kind = "hydrate" /\ op.read # None
      BY <1>5 DEF Publish
    <2>2. CASE op.captured = opEpoch
      <3>1. /\ snapshot' = [gen |-> snapshot.gen + 1, version |-> op.read]
            /\ SettlePass(lane, "ready", TRUE, FALSE, TRUE, "unchanged")
        BY <1>5, <2>2 DEF Publish
      <3>2. snapshot'.version = op.read
        BY <3>1
      <3> QED
        BY <1>1, <2>1, <3>1, <3>2, LiveSettle
    <2>3. CASE op.captured # opEpoch
      <3>1. SettlePass(lane, status, HasSnapshot, identityDrift, validated, lastValidation)
            /\ status' = status /\ status # "ready"
        BY <1>2, <1>5, <2>1, <2>3 DEF Publish, shownVars
      <3> QED
        BY <1>1, <3>1, LiveSettle
    <2> QED
      BY <2>2, <2>3
  <1>6. CASE AnswerDigest
    <2>1. op' = Idle /\ status' = status
      BY <1>6 DEF AnswerDigest, shownVars
    <2>2. \A c \in Calls : call'[c] = call[c] \/ call'[c] \in {"validated", "stale", "unavailable"}
      BY <1>6 DEF AnswerDigest, DigestChanged, Verdict, NotValidated
    <2> QED
      BY <1>1, <2>1, <2>2, LiveKeep
  <1>7. CASE AnswerDefinition
    <2>1. op' = Idle /\ status' = status /\ call' = call
      BY <1>7 DEF AnswerDefinition, callVars
    <2> QED
      BY <1>1, <2>1, LiveKeep
  <1> QED
    BY <1>3, <1>4, <1>5, <1>6, <1>7 DEF OpAnswered

LEMMA LiveOpFails ==
    ASSUME TypeOK, WaitInv, LiveInv, Quiet, OpFails,
           UNCHANGED <<since, network, disposed, catalog>>
    PROVE  LiveInv' /\ LiveStep
  <1>1. catalog \in Nat /\ \A c \in Calls : call[c] # "resumed"
    BY DEF TypeOK, Quiet, Resuming
  <1>2. CASE op.kind = "hydrate"
    <2>1. status # "ready"
      BY <1>2 DEF LiveInv, HydratingIsNotReady
    <2>2. \/ FailPass(identityDrift, validated, lastValidation)
          \/ FailPass(identityDrift, FALSE, "failed")
          \/ /\ SettlePass(lane, status, HasSnapshot, identityDrift, validated, lastValidation)
             /\ status' = status
      BY <1>2 DEF OpFails
    <2> QED
      BY <1>1, <2>1, <2>2, LiveSettle DEF FailPass
  <1>3. CASE op.kind # "hydrate"
    <2>1. op' = Idle /\ status' = status
      BY <1>3 DEF OpFails
    <2>2. \A c \in Calls : call'[c] = call[c] \/ call'[c] \in {"validated", "stale", "unavailable"}
      BY <1>3 DEF OpFails, Verdict, NotValidated
    <2> QED
      BY <1>1, <2>1, <2>2, LiveKeep
  <1> QED
    BY <1>2, <1>3

LEMMA LiveFaults ==
    ASSUME TypeOK, WaitInv, LiveInv, Quiet, Fail \/ Watchdog \/ \E o \in late : LateAnswer(o)
    PROVE  LiveInv' /\ LiveStep
  <1>1. /\ UNCHANGED <<since, network, disposed, catalog>>
        /\ catalog \in Nat
        /\ \A c \in Calls : call[c] # "resumed"
    <2>1. CASE Fail
      BY <2>1 DEF Fail, latchVars, TypeOK, Quiet, Resuming
    <2>2. CASE Watchdog
      BY <2>2 DEF Watchdog, latchVars, TypeOK, Quiet, Resuming
    <2>3. CASE \E o \in late : LateAnswer(o)
      BY <2>3 DEF LateAnswer, envVars, callVars, TypeOK, Quiet, Resuming
    <2> QED
      BY <2>1, <2>2, <2>3
  <1>2. CASE Fail
    BY <1>1, <1>2, LiveOpFails DEF Fail
  <1>3. CASE Watchdog
    <2>1. CASE op.kind = "hydrate"
      <3>1. status # "ready"
        BY <2>1 DEF LiveInv, HydratingIsNotReady
      <3>2. \/ FailPass(identityDrift, validated, lastValidation)
            \/ /\ SettlePass(lane, status, HasSnapshot, identityDrift, validated, lastValidation)
               /\ status' = status
        BY <1>3, <2>1 DEF Watchdog
      <3> QED
        BY <1>1, <3>1, <3>2, LiveSettle DEF FailPass
    <2>2. CASE op.kind # "hydrate"
      BY <1>1, <1>3, <2>2, LiveOpFails DEF Watchdog
    <2> QED
      BY <2>1, <2>2
  <1>4. ASSUME NEW o \in late, LateAnswer(o) PROVE LiveInv' /\ LiveStep
    <2>1. UNCHANGED <<op, status, call>>
      BY <1>4 DEF LateAnswer, callVars
    <2> QED
      BY <1>1, <2>1, LiveKeep
  <1> QED
    BY <1>2, <1>3, <1>4

LEMMA LiveRequests ==
    ASSUME TypeOK, LiveInv, Quiet,
           \/ ReadDefinition \/ Rename \/ SetNetwork \/ Dispose
           \/ Ddl \/ ExecutedBatch \/ Acquire \/ Release \/ Refresh
           \/ PublishExternal \/ NoteAccessChanged \/ ExpireTtl
           \/ RetryTimer \/ PollTick \/ TakeSlot,
           catalog' \in Nat, catalog' >= catalog
    PROVE  LiveInv' /\ LiveStep
  <1>1. op' = op /\ \A c \in Calls : call[c] # "resumed"
    BY RequestsKeepOp DEF Quiet, Resuming
  <1>2. UNCHANGED <<call, since>>
    BY DEF ReadDefinition, Rename, SetNetwork, Dispose, Ddl, ExecutedBatch, Acquire,
       Release, Refresh, PublishExternal, NoteAccessChanged, ExpireTtl, RetryTimer, PollTick,
       TakeSlot, callVars
  <1>3. status' = "ready" => status = "ready" \/ op'.kind # "hydrate"
    <2>1. CASE PublishExternal
      BY <1>1, <2>1 DEF PublishExternal, Hydrating
    <2>2. CASE ~PublishExternal
      BY <2>2 DEF ReadDefinition, Rename, SetNetwork, Dispose, Ddl, ExecutedBatch, Acquire,
         Release, Refresh, NoteAccessChanged, ExpireTtl, RetryTimer, PollTick, TakeSlot, shownVars
    <2> QED
      BY <2>1, <2>2
  <1> QED
    BY <1>1, <1>2, <1>3, LiveKeep

\* A requireLive call waits for a pass only if none has begun.
LEMMA LiveCalls ==
    ASSUME TypeOK, LiveInv, Quiet, NEW c \in Calls,
           \/ AskOffline(c) \/ AllowStale(c) \/ RequireValidated(c) \/ RequireLive(c)
           \/ CallTimesOut(c)
    PROVE  LiveInv' /\ LiveStep
  <1>1. UNCHANGED <<op, status, snapshot, catalog, network, disposed>>
        /\ catalog \in Nat /\ \A d \in Calls : call[d] # "resumed"
    <2>1. UNCHANGED <<status, snapshot, catalog, network, disposed>>
      BY DEF AskOffline, AllowStale, RequireValidated, RequireLive, CallTimesOut, Ask, envVars,
         shownVars, latchVars
    <2> QED
      BY <2>1, RequestsKeepOp DEF TypeOK, Quiet, Resuming
  <1>2. ASSUME NEW answer, Ask(c, answer), answer \notin {"none", "resumed", "followup"},
               answer = "pass" => op.kind # "hydrate"
        PROVE  LiveInv' /\ LiveStep
    <2>1. ASSUME NEW d \in Calls
          PROVE  /\ call'[d] = IF d = c THEN answer ELSE call[d]
                 /\ since'[d] = IF d = c /\ answer \in LiveWaits THEN catalog ELSE since[d]
      BY <1>2 DEF Ask, TypeOK
    <2>2. call[c] = "none"
      BY <1>2 DEF Ask
    <2>3. AskedBefore'
      BY <1>1, <1>2, <2>1 DEF LiveInv, AskedBefore
    <2>4. PassIsFresh'
      BY <1>1, <1>2, <2>1 DEF LiveInv, PassIsFresh, LiveWaits
    <2>5. ResumedIsFresh' /\ HydratingIsNotReady'
      BY <1>1, <1>2, <2>1 DEF LiveInv, ResumedIsFresh, HydratingIsNotReady
    <2>6. LiveStep
      BY <2>1, <2>2 DEF LiveStep, LiveWaits
    <2> QED
      BY <2>3, <2>4, <2>5, <2>6 DEF LiveInv
  <1>3. CASE AskOffline(c)
    <2>1. Ask(c, "stale") \/ Ask(c, "unavailable")
      BY <1>3 DEF AskOffline
    <2> QED
      BY <1>2, <2>1
  <1>4. CASE AllowStale(c)
    <2>1. Ask(c, "stale") \/ Ask(c, "joined")
      BY <1>4 DEF AllowStale
    <2> QED
      BY <1>2, <2>1
  <1>5. CASE RequireValidated(c)
    <2>1. \E answer \in {"validated", "live", "unavailable", "validating"} :
              Ask(c, answer)
      BY <1>5 DEF RequireValidated, LatchedVerdict
    <2> QED
      BY <1>2, <2>1
  <1>6. CASE RequireLive(c)
    <2>1. \/ Ask(c, "unavailable")
          \/ Ask(c, HydrateWait(TRUE))
      BY <1>6 DEF RequireLive
    <2>2. /\ HydrateWait(TRUE) \in {"pass", "queued"}
          /\ HydrateWait(TRUE) = "pass" => op.kind # "hydrate"
      BY DEF HydrateWait, Hydrating
    <2> QED
      BY <1>2, <2>1, <2>2
  <1>7. CASE CallTimesOut(c)
    <2>1. UNCHANGED since
      BY <1>7 DEF CallTimesOut
    <2>2. \A d \in Calls : call'[d] = call[d] \/ call'[d] \in {"validated", "stale", "unavailable"}
      BY <1>7 DEF CallTimesOut, TypeOK, NotValidated
    <2> QED
      BY <1>1, <2>1, <2>2, LiveKeep
  <1> QED
    BY <1>3, <1>4, <1>5, <1>6, <1>7

LEMMA LiveNext ==
    ASSUME TypeOK, WaitInv, LiveInv, [Next]_vars
    PROVE  LiveInv' /\ (LiveStep \/ UNCHANGED vars)
  <1>1. CASE UNCHANGED vars
    BY <1>1 DEF vars, envVars, opVars, shownVars, latchVars, callVars, LiveInv, AskedBefore,
       PassIsFresh, ResumedIsFresh, HydratingIsNotReady
  <1>2. catalog' \in Nat /\ catalog' >= catalog
    BY CatalogGrows DEF TypeOK
  <1> QED
    BY <1>1, <1>2, LiveStart, LiveResume, LiveAnswered, LiveFaults, LiveRequests, LiveCalls DEF Next

\* A requireLive caller that is told "live" gets a catalog read after it asked,
\* whether it waited for its own pass or behind another, and whatever failed,
\* hung or was renamed meanwhile.
THEOREM LiveIsForThisCallHolds == Spec => LiveIsForThisCall
  <1>1. TypeOK /\ WaitInv /\ LiveInv /\ [Next]_vars =>
            [\A c \in Calls : /\ call[c] \in LiveWaits /\ call'[c] = "live"
                              /\ network /\ ~disposed
                              => snapshot'.version >= since[c]]_vars
    BY LiveNext DEF LiveStep
  <1>2. TypeOK /\ WaitInv /\ LiveInv /\ [Next]_vars => LiveInv'
    BY LiveNext
  <1> QED
    BY <1>1, <1>2, WaitInvInit, WaitInvNext, LiveInvInit, TypeCorrect, PTL
       DEF Spec, LiveIsForThisCall
=============================================================================
