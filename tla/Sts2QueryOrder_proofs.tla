------------------------ MODULE Sts2QueryOrder_proofs ------------------------
(***************************************************************************)
(* Proofs about the order in which the sink sees a query: result sets and  *)
(* pages as the service numbered them, and the lane as an implementation   *)
(* of the contract in QueryHandle.  They relate what the sink saw to what  *)
(* is queued for it and to what is still on its way.                       *)
(***************************************************************************)
EXTENDS Sts2Query_proofs, FiniteSetTheorems

-----------------------------------------------------------------------------
(* What waits behind the log                                               *)

\* A callback of the lane that was not invoked yet: the head, once invoked, is
\* in the log and in the lane.
Queued(i) == i \in DOMAIN lane /\ (i > 1 \/ ~sinkBusy)

IsStep(step, kind, set, seq) == step.kind = kind /\ step.set = set /\ step.seq = seq

Shown(kind, set, seq) == \E j \in DOMAIN sinkLog : IsStep(sinkLog[j], kind, set, seq)

\* The sink sees such a callback before the one at place i of the lane.
Before(i, kind, set, seq) ==
    \/ Shown(kind, set, seq)
    \/ \E j \in DOMAIN lane : Queued(j) /\ j < i /\ IsStep(lane[j], kind, set, seq)

Received(kind, set, seq) == Before(Len(lane) + 1, kind, set, seq)

\* A queued page has its set's metadata and the page before it ahead of it, and
\* only smaller pages of its set.
QueueInOrder ==
    \A i \in DOMAIN lane : Queued(i) /\ lane[i].kind = "page" =>
        /\ Before(i, "set", lane[i].set, 0)
        /\ lane[i].seq > 0 => Before(i, "page", lane[i].set, lane[i].seq - 1)
        /\ \A n \in Nat : Before(i, "page", lane[i].set, n) => n < lane[i].seq

\* The ledger of a set knows its metadata and its last page.
LedgerIsNext ==
    \A s \in ResultSets :
        /\ ledgers[s] >= 0 => Received("set", s, 0)
        /\ ledgers[s] > 0 => Received("page", s, ledgers[s] - 1)
        /\ \A n \in Nat : Received("page", s, n) => n < ledgers[s]

OrderInv == PagesInOrder /\ QueueInOrder /\ LedgerIsNext

\* The service announces a set once and sends rows of announced sets: what is
\* on the pipe, or kept for a query without a lane, opens no ledger again.
FromService(s, announced, ledger) ==
    \A i \in DOMAIN s :
        /\ s[i].kind \in {"set", "rows"} => s[i].set \in ResultSets
        /\ s[i].kind = "set" =>
             /\ s[i].set <= announced
             /\ ledger[s[i].set] = -1
             /\ \A j \in DOMAIN s : s[j].kind = "set" /\ s[j].set = s[i].set => i = j

Apart(s, t) ==
    \A i \in DOMAIN s, j \in DOMAIN t :
        s[i].kind = "set" /\ t[j].kind = "set" => s[i].set # t[j].set

WireInv ==
    /\ FromService(wire, svc.set, ledgers)
    /\ FromService(orphans, svc.set, ledgers)
    /\ Apart(wire, orphans)
    /\ \A s \in ResultSets : s > svc.set => ledgers[s] = -1

\* Ordinals: what was received is shown or queued, in this order, and what the
\* sink accepted it was shown.
ShownOrd(n) == \E j \in DOMAIN sinkLog : sinkLog[j].kind = "page" /\ sinkLog[j].ord = n

QueuedOrd(n) == \E i \in DOMAIN lane : Queued(i) /\ lane[i].kind = "page" /\ lane[i].ord = n

OrdinalInv ==
    /\ \A n \in Nat : ShownOrd(n) => n < receivedPageOrdinal
    /\ \A n, m \in Nat : ShownOrd(n) /\ QueuedOrd(m) => n < m
    /\ \A n \in 0..(receivedPageOrdinal - 1) : ShownOrd(n) \/ QueuedOrd(n)
    /\ \A n \in durable : ShownOrd(n)

-----------------------------------------------------------------------------
(* How the operations of the lane move callbacks                            *)

\* A callback is appended: it stands behind everything received.
LEMMA AppendBefore ==
    ASSUME TypeOK, BusyHasHead, NEW step \in Steps, lane' = Append(lane, step),
           UNCHANGED <<sinkBusy, sinkLog>>
    PROVE  /\ Len(lane) \in Nat /\ Len(lane') = Len(lane) + 1
           /\ DOMAIN lane = 1..Len(lane) /\ DOMAIN lane' = 1..(Len(lane) + 1)
           /\ \A i \in DOMAIN lane : lane'[i] = lane[i] /\ (Queued(i)' <=> Queued(i))
           /\ lane'[Len(lane) + 1] = step /\ (\A i : i = Len(lane) + 1 => Queued(i)')
           /\ \A kind, set, seq :
                /\ \A i \in 1..(Len(lane) + 1) : Before(i, kind, set, seq)' <=> Before(i, kind, set, seq)
                /\ Received(kind, set, seq)' <=>
                     Received(kind, set, seq) \/ IsStep(step, kind, set, seq)
  <1>1. lane \in Seq(Steps)
    BY DEF TypeOK, LaneTypeOK
  <1>2. /\ Len(lane) \in Nat /\ Len(lane') = Len(lane) + 1
        /\ DOMAIN lane = 1..Len(lane) /\ DOMAIN lane' = 1..(Len(lane) + 1)
        /\ \A i \in DOMAIN lane : lane'[i] = lane[i]
        /\ lane'[Len(lane) + 1] = step
    BY <1>1, AppendElements
  <1>3. \A i \in DOMAIN lane : Queued(i)' <=> Queued(i)
    BY <1>2 DEF Queued
  <1>4. ASSUME NEW i, i = Len(lane) + 1 PROVE Queued(i)'
    <2>1. i > 1 \/ lane = <<>>
      BY <1>1, <1>2, <1>4
    <2> QED
      BY <1>2, <1>4, <2>1 DEF Queued, BusyHasHead
  <1> SUFFICES ASSUME NEW kind, NEW set, NEW seq
               PROVE  /\ \A i \in 1..(Len(lane) + 1) :
                            Before(i, kind, set, seq)' <=> Before(i, kind, set, seq)
                      /\ Received(kind, set, seq)' <=>
                            Received(kind, set, seq) \/ IsStep(step, kind, set, seq)
    BY <1>2, <1>3, <1>4
  <1>5. Shown(kind, set, seq)' <=> Shown(kind, set, seq)
    BY DEF Shown, IsStep
  <1>6. ASSUME NEW i \in 1..(Len(lane) + 1)
        PROVE  Before(i, kind, set, seq)' <=> Before(i, kind, set, seq)
    BY <1>2, <1>3, <1>5 DEF Before, IsStep
  <1>7. Received(kind, set, seq)' <=> Received(kind, set, seq) \/ IsStep(step, kind, set, seq)
    <2>1. ASSUME NEW j \in DOMAIN lane', Queued(j)', IsStep(lane'[j], kind, set, seq)
          PROVE  Received(kind, set, seq) \/ IsStep(step, kind, set, seq)
      BY <1>2, <1>3, <2>1 DEF Received, Before
    <2>2. ASSUME NEW j \in DOMAIN lane, Queued(j), IsStep(lane[j], kind, set, seq)
          PROVE  Received(kind, set, seq)'
      <3>1. j \in DOMAIN lane' /\ Queued(j)' /\ j < Len(lane) + 2 /\ IsStep(lane'[j], kind, set, seq)
        BY <1>2, <1>3, <2>2
      <3>2. Len(lane') + 1 = Len(lane) + 2
        BY <1>2
      <3> QED
        BY <3>1, <3>2 DEF Received, Before, IsStep
    <2>3. ASSUME IsStep(step, kind, set, seq) PROVE Received(kind, set, seq)'
      <3>1. /\ Len(lane) + 1 \in DOMAIN lane' /\ Len(lane) + 1 < Len(lane') + 1
            /\ IsStep(lane'[Len(lane) + 1], kind, set, seq)
        BY <1>2, <2>3
      <3> QED
        BY <1>4, <3>1 DEF Received, Before, IsStep
    <2> QED
      BY <1>5, <2>1, <2>2, <2>3 DEF Received, Before, IsStep
  <1> QED
    BY <1>6, <1>7

\* The head is invoked: it goes from the queue into the log, as its last entry.
LEMMA StartBefore ==
    ASSUME TypeOK, StartStep
    PROVE  /\ sinkLog' = Append(sinkLog, lane[1]) /\ lane[1] \in Steps
           /\ 1 \in DOMAIN lane /\ Queued(1) /\ ~Queued(1)' /\ UNCHANGED lane
           /\ Len(lane) \in Nat /\ DOMAIN lane = 1..Len(lane)
           /\ \A i \in DOMAIN lane : i > 1 => Queued(i) /\ Queued(i)'
           /\ \A kind, set, seq :
                /\ \A i \in 2..(Len(lane) + 1) : Before(i, kind, set, seq)' <=> Before(i, kind, set, seq)
                /\ Before(1, kind, set, seq) <=> Shown(kind, set, seq)
                /\ Shown(kind, set, seq)' <=> Shown(kind, set, seq) \/ IsStep(lane[1], kind, set, seq)
  <1>1. /\ lane \in Seq(Steps) /\ sinkLog \in Seq(Steps) /\ lane # <<>> /\ ~sinkBusy /\ sinkBusy'
        /\ sinkLog' = Append(sinkLog, Head(lane)) /\ UNCHANGED lane
    BY DEF StartStep, TypeOK, LaneTypeOK, SinkTypeOK
  <1>2. /\ Head(lane) = lane[1] /\ lane[1] \in Steps /\ Len(lane) \in Nat \ {0}
        /\ DOMAIN lane = 1..Len(lane)
    BY <1>1, TailElements, SeqType
  <1>3. /\ Queued(1) /\ ~Queued(1)' /\ 1 \in DOMAIN lane
        /\ \A i \in DOMAIN lane : i > 1 => Queued(i) /\ Queued(i)'
    BY <1>1, <1>2 DEF Queued
  <1> SUFFICES ASSUME NEW kind, NEW set, NEW seq
               PROVE  /\ \A i \in 2..(Len(lane) + 1) :
                            Before(i, kind, set, seq)' <=> Before(i, kind, set, seq)
                      /\ Before(1, kind, set, seq) <=> Shown(kind, set, seq)
                      /\ Shown(kind, set, seq)' <=>
                            Shown(kind, set, seq) \/ IsStep(lane[1], kind, set, seq)
    BY <1>1, <1>2, <1>3
  <1>4. Shown(kind, set, seq)' <=> Shown(kind, set, seq) \/ IsStep(lane[1], kind, set, seq)
    <2>1. /\ DOMAIN sinkLog' = 1..(Len(sinkLog) + 1) /\ DOMAIN sinkLog = 1..Len(sinkLog)
          /\ Len(sinkLog) \in Nat
          /\ \A i \in 1..Len(sinkLog) : sinkLog'[i] = sinkLog[i]
          /\ sinkLog'[Len(sinkLog) + 1] = lane[1]
      BY <1>1, <1>2, AppendElements
    <2> QED
      BY <2>1 DEF Shown, IsStep
  <1>5. Before(1, kind, set, seq) <=> Shown(kind, set, seq)
    BY <1>2 DEF Before
  <1>6. ASSUME NEW i \in 2..(Len(lane) + 1)
        PROVE  Before(i, kind, set, seq)' <=> Before(i, kind, set, seq)
    <2>1. ASSUME NEW j \in DOMAIN lane, Queued(j)', j < i, IsStep(lane[j], kind, set, seq)
          PROVE  Before(i, kind, set, seq)
      BY <1>2, <1>3, <2>1 DEF Before
    <2>2. ASSUME NEW j \in DOMAIN lane, j > 1, j < i, IsStep(lane[j], kind, set, seq)
          PROVE  Before(i, kind, set, seq)'
      BY <1>1, <1>3, <2>2 DEF Before, IsStep
    <2>3. IsStep(lane[1], kind, set, seq) => Before(i, kind, set, seq)
      BY <1>3 DEF Before
    <2>4. ASSUME NEW j \in DOMAIN lane, j < i, IsStep(lane[j], kind, set, seq)
          PROVE  Before(i, kind, set, seq)'
      <3>1. j = 1 \/ j > 1
        BY <1>2
      <3> QED
        BY <1>4, <2>2, <2>4, <3>1 DEF Before
    <2> QED
      BY <1>1, <1>4, <2>1, <2>3, <2>4 DEF Before, IsStep
  <1> QED
    BY <1>4, <1>5, <1>6

\* The head leaves the lane: it was in the log, the others move up.
LEMMA PopBefore ==
    ASSUME TypeOK, BusyHasHead, sinkBusy, sinkBusy' = FALSE, lane' = Tail(lane), UNCHANGED sinkLog
    PROVE  /\ Len(lane') \in Nat /\ Len(lane) = Len(lane') + 1
           /\ DOMAIN lane = 1..Len(lane) /\ DOMAIN lane' = 1..Len(lane')
           /\ ~Queued(1)
           /\ \A i \in DOMAIN lane' : lane'[i] = lane[i + 1] /\ Queued(i)' /\ Queued(i + 1)
           /\ \A i \in DOMAIN lane : Queued(i) => i - 1 \in DOMAIN lane' /\ lane'[i - 1] = lane[i]
           /\ \A kind, set, seq : \A i \in 1..Len(lane) :
                Before(i, kind, set, seq)' <=> Before(i + 1, kind, set, seq)
  <1>1. lane \in Seq(Steps) /\ lane # <<>>
    BY DEF TypeOK, LaneTypeOK, BusyHasHead
  <1>2. /\ Len(lane) \in Nat \ {0} /\ Len(lane') = Len(lane) - 1 /\ DOMAIN lane = 1..Len(lane)
        /\ DOMAIN lane' = 1..(Len(lane) - 1)
        /\ \A i \in 1..(Len(lane) - 1) : lane'[i] = lane[i + 1]
    BY <1>1, TailElements
  <1>3. /\ Len(lane') \in Nat /\ Len(lane) = Len(lane') + 1
        /\ ~Queued(1)
        /\ \A i \in DOMAIN lane' : lane'[i] = lane[i + 1] /\ Queued(i)' /\ Queued(i + 1)
        /\ \A i \in DOMAIN lane : Queued(i) => i - 1 \in DOMAIN lane' /\ lane'[i - 1] = lane[i]
    BY <1>2 DEF Queued
  <1> SUFFICES ASSUME NEW kind, NEW set, NEW seq, NEW i \in 1..Len(lane)
               PROVE  Before(i, kind, set, seq)' <=> Before(i + 1, kind, set, seq)
    BY <1>2, <1>3
  <1>4. ASSUME NEW j \in DOMAIN lane', j < i, IsStep(lane'[j], kind, set, seq)
        PROVE  Before(i + 1, kind, set, seq)
    <2>1. j + 1 \in DOMAIN lane /\ j + 1 < i + 1 /\ Queued(j + 1) /\ IsStep(lane[j + 1], kind, set, seq)
      BY <1>2, <1>3, <1>4
    <2> QED
      BY <2>1 DEF Before
  <1>5. ASSUME NEW j \in DOMAIN lane, Queued(j), j < i + 1, IsStep(lane[j], kind, set, seq)
        PROVE  Before(i, kind, set, seq)'
    <2>1. j - 1 \in DOMAIN lane' /\ j - 1 < i /\ IsStep(lane'[j - 1], kind, set, seq)
      BY <1>2, <1>3, <1>5
    <2> QED
      BY <1>3, <2>1 DEF Before, IsStep
  <1>6. Shown(kind, set, seq)' <=> Shown(kind, set, seq)
    BY DEF Shown, IsStep
  <1> QED
    BY <1>4, <1>5, <1>6 DEF Before, IsStep

-----------------------------------------------------------------------------
(* Pages are shown in the order the service numbered them                   *)

\* Steps that leave queue, log and ledgers alone.
LEMMA OrderFrame == OrderInv /\ UNCHANGED <<lane, sinkBusy, sinkLog, ledgers>> => OrderInv'
  BY DEF OrderInv, PagesInOrder, QueueInOrder, LedgerIsNext, Seen, Received, Before, Shown, Queued,
         IsStep

\* What a queued page needs is not disturbed by a callback behind it.
LEMMA OrderAppendQueue ==
    ASSUME TypeOK, BusyHasHead, OrderInv, NEW step \in Steps, lane' = Append(lane, step),
           UNCHANGED <<sinkBusy, sinkLog>>,
           step.kind = "page" =>
               /\ Received("set", step.set, 0)
               /\ step.seq > 0 => Received("page", step.set, step.seq - 1)
               /\ \A n \in Nat : Received("page", step.set, n) => n < step.seq
    PROVE  PagesInOrder' /\ QueueInOrder'
  <1>1. PagesInOrder'
    BY DEF OrderInv, PagesInOrder, Seen
  <1>2. /\ Len(lane) \in Nat /\ DOMAIN lane = 1..Len(lane) /\ DOMAIN lane' = 1..(Len(lane) + 1)
        /\ \A i \in DOMAIN lane : lane'[i] = lane[i] /\ (Queued(i)' <=> Queued(i))
        /\ lane'[Len(lane) + 1] = step
        /\ \A kind, set, seq : \A i \in 1..(Len(lane) + 1) :
              Before(i, kind, set, seq)' <=> Before(i, kind, set, seq)
    BY AppendBefore
  <1>3. ASSUME NEW i \in DOMAIN lane', Queued(i)', lane'[i].kind = "page"
        PROVE  /\ Before(i, "set", lane[i].set, 0)'
               /\ lane'[i].seq > 0 => Before(i, "page", lane[i].set, lane[i].seq - 1)'
               /\ \A n \in Nat : Before(i, "page", lane[i].set, n)' => n < lane'[i].seq
    <2>1. CASE i \in DOMAIN lane
      <3>1. Queued(i) /\ lane[i].kind = "page" /\ lane'[i] = lane[i] /\ i \in 1..(Len(lane) + 1)
        BY <1>2, <1>3, <2>1
      <3>2. /\ Before(i, "set", lane[i].set, 0)
            /\ lane[i].seq > 0 => Before(i, "page", lane[i].set, lane[i].seq - 1)
            /\ \A n \in Nat : Before(i, "page", lane[i].set, n) => n < lane[i].seq
        BY <2>1, <3>1 DEF OrderInv, QueueInOrder
      <3> QED
        BY <1>2, <3>1, <3>2
    <2>2. CASE i = Len(lane) + 1
      BY <1>2, <1>3, <2>2 DEF Received
    <2> QED
      BY <1>2, <2>1, <2>2
  <1>4. QueueInOrder'
    BY <1>3 DEF QueueInOrder
  <1> QED
    BY <1>1, <1>4

\* A callback other than a page: a message, an acceptance, a terminal.
LEMMA OrderOther ==
    ASSUME TypeOK, BusyHasHead, OrderInv, NEW step \in Steps, step.kind # "page",
           lane' = Append(lane, step), UNCHANGED <<sinkBusy, sinkLog, ledgers>>
    PROVE  OrderInv'
  <1>1. \A kind, set, seq : Received(kind, set, seq)' <=>
            Received(kind, set, seq) \/ IsStep(step, kind, set, seq)
    BY AppendBefore
  <1>2. LedgerIsNext'
    BY <1>1 DEF OrderInv, LedgerIsNext, IsStep
  <1>3. PagesInOrder' /\ QueueInOrder'
    BY OrderAppendQueue
  <1> QED
    BY <1>2, <1>3 DEF OrderInv

\* The metadata of a set that has no ledger yet.
LEMMA OrderSet ==
    ASSUME TypeOK, BusyHasHead, OrderInv, NEW s \in ResultSets, ledgers[s] = -1,
           lane' = Append(lane, Step("set", s, 0, 0)), ledgers' = [ledgers EXCEPT ![s] = 0],
           UNCHANGED <<sinkBusy, sinkLog>>
    PROVE  OrderInv'
  <1> DEFINE step == Step("set", s, 0, 0)
  <1>1. step \in Steps /\ step.kind = "set" /\ IsStep(step, "set", s, 0)
    BY StepType, BoundsAssumption DEF Step, IsStep, ResultSets
  <1>2. \A kind, set, seq : Received(kind, set, seq)' <=>
            Received(kind, set, seq) \/ IsStep(step, kind, set, seq)
    BY <1>1, AppendBefore
  <1>3. \A t \in ResultSets : ledgers'[t] = IF t = s THEN 0 ELSE ledgers[t]
    BY DEF TypeOK, QueryTypeOK
  <1>4. \A t, n : Received("page", t, n)' <=> Received("page", t, n)
    BY <1>1, <1>2 DEF IsStep
  <1>5. ASSUME NEW n \in Nat, Received("page", s, n) PROVE FALSE
    BY <1>5 DEF OrderInv, LedgerIsNext
  <1>6. LedgerIsNext'
    BY <1>1, <1>2, <1>3, <1>4, <1>5 DEF OrderInv, LedgerIsNext
  <1>7. PagesInOrder' /\ QueueInOrder'
    BY <1>1, OrderAppendQueue
  <1> QED
    BY <1>6, <1>7 DEF OrderInv

\* A page the ledger of its set expects.
LEMMA OrderPage ==
    ASSUME TypeOK, BusyHasHead, OrderInv, NEW s \in ResultSets, NEW q \in Nat, NEW ord \in Nat,
           ledgers[s] = q, lane' = Append(lane, Step("page", s, q, ord)),
           ledgers' = [ledgers EXCEPT ![s] = q + 1], UNCHANGED <<sinkBusy, sinkLog>>
    PROVE  OrderInv'
  <1> DEFINE step == Step("page", s, q, ord)
  <1>1. /\ step \in Steps /\ step.kind = "page" /\ step.set = s /\ step.seq = q
        /\ \A k, t, n : IsStep(step, k, t, n) <=> k = "page" /\ t = s /\ n = q
    BY StepType, BoundsAssumption DEF Step, IsStep, ResultSets
  <1>2. \A kind, set, seq : Received(kind, set, seq)' <=>
            Received(kind, set, seq) \/ IsStep(step, kind, set, seq)
    BY <1>1, AppendBefore
  <1>3. \A t \in ResultSets : ledgers'[t] = IF t = s THEN q + 1 ELSE ledgers[t]
    BY DEF TypeOK, QueryTypeOK
  <1>4. /\ Received("set", s, 0)
        /\ q > 0 => Received("page", s, q - 1)
        /\ \A n \in Nat : Received("page", s, n) => n < q
    BY DEF OrderInv, LedgerIsNext
  <1>5. LedgerIsNext'
    <2> SUFFICES ASSUME NEW t \in ResultSets
                 PROVE  /\ ledgers'[t] >= 0 => Received("set", t, 0)'
                        /\ ledgers'[t] > 0 => Received("page", t, ledgers[t] - 1)'
                        /\ \A n \in Nat : Received("page", t, n)' => n < ledgers'[t]
      BY DEF LedgerIsNext
    <2>1. CASE t = s
      <3>1. ledgers'[t] = q + 1 /\ ledgers'[t] - 1 = q
        BY <1>3, <2>1
      <3> QED
        BY <1>1, <1>2, <1>4, <2>1, <3>1
    <2>2. CASE t # s
      BY <1>1, <1>2, <1>3, <2>2 DEF OrderInv, LedgerIsNext
    <2> QED
      BY <2>1, <2>2
  <1>6. PagesInOrder' /\ QueueInOrder'
    BY <1>1, <1>4, OrderAppendQueue
  <1> QED
    BY <1>5, <1>6 DEF OrderInv

\* The head is invoked: what it needs was shown.
LEMMA OrderStart ==
    ASSUME TypeOK, OrderInv, StartStep
    PROVE  OrderInv'
  <1>1. /\ sinkLog' = Append(sinkLog, lane[1]) /\ lane[1] \in Steps
        /\ 1 \in DOMAIN lane /\ Queued(1) /\ ~Queued(1)' /\ UNCHANGED lane
        /\ Len(lane) \in Nat /\ DOMAIN lane = 1..Len(lane)
        /\ \A i \in DOMAIN lane : i > 1 => Queued(i) /\ Queued(i)'
        /\ \A kind, set, seq :
             /\ \A i \in 2..(Len(lane) + 1) : Before(i, kind, set, seq)' <=> Before(i, kind, set, seq)
             /\ Before(1, kind, set, seq) <=> Shown(kind, set, seq)
    BY StartBefore
  <1>2. UNCHANGED ledgers
    BY DEF StartStep, queryVars
  <1>3. QueueInOrder'
    <2> SUFFICES ASSUME NEW i \in DOMAIN lane, Queued(i)', lane[i].kind = "page"
                 PROVE  /\ Before(i, "set", lane[i].set, 0)'
                        /\ lane[i].seq > 0 => Before(i, "page", lane[i].set, lane[i].seq - 1)'
                        /\ \A n \in Nat : Before(i, "page", lane[i].set, n)' => n < lane[i].seq
      BY <1>1 DEF QueueInOrder
    <2>1. i \in 2..(Len(lane) + 1) /\ Queued(i)
      BY <1>1
    <2>2. /\ Before(i, "set", lane[i].set, 0)
          /\ lane[i].seq > 0 => Before(i, "page", lane[i].set, lane[i].seq - 1)
          /\ \A n \in Nat : Before(i, "page", lane[i].set, n) => n < lane[i].seq
      BY <2>1 DEF OrderInv, QueueInOrder
    <2> QED
      BY <1>1, <2>1, <2>2
  <1>4. LedgerIsNext'
    <2>1. \A kind, set, seq : Received(kind, set, seq)' <=> Received(kind, set, seq)
      <3>1. CASE Len(lane) + 1 \in 2..(Len(lane) + 1)
        BY <1>1, <3>1 DEF Received
      <3> QED
        BY <1>1, <3>1
    <2> QED
      BY <1>2, <2>1 DEF OrderInv, LedgerIsNext
  <1>5. PagesInOrder'
    <2> DEFINE last == Len(sinkLog) + 1
    <2>1. /\ DOMAIN sinkLog' = 1..last /\ DOMAIN sinkLog = 1..Len(sinkLog)
          /\ Len(sinkLog) \in Nat
          /\ \A i \in DOMAIN sinkLog : sinkLog'[i] = sinkLog[i] /\ i < last
          /\ sinkLog'[last] = lane[1]
      BY <1>1, AppendElements DEF TypeOK, SinkTypeOK
    <2>2. ASSUME NEW kind, NEW set, NEW seq, Shown(kind, set, seq)
          PROVE  \E j \in Seen(kind)' : j < last /\ sinkLog'[j].set = set /\ sinkLog'[j].seq = seq
      BY <2>1, <2>2 DEF Shown, IsStep, Seen
    <2>3. ASSUME NEW i \in Seen("page")'
          PROVE  /\ \E j \in Seen("set")' : j < i /\ sinkLog'[j].set = sinkLog'[i].set
                                                  /\ sinkLog'[j].seq = 0
                 /\ sinkLog'[i].seq > 0 =>
                      \E j \in Seen("page")' : j < i /\ sinkLog'[j].set = sinkLog'[i].set
                                                     /\ sinkLog'[j].seq = sinkLog'[i].seq - 1
                 /\ \A j \in Seen("page")' :
                      j < i => sinkLog'[j].set # sinkLog'[i].set \/ sinkLog'[j].seq < sinkLog'[i].seq
      <3>1. CASE i = last
        <4>1. sinkLog'[i] = lane[1] /\ lane[1].kind = "page"
          BY <2>1, <2>3, <3>1 DEF Seen
        <4>2. /\ Shown("set", lane[1].set, 0)
              /\ lane[1].seq > 0 => Shown("page", lane[1].set, lane[1].seq - 1)
              /\ \A n \in Nat : Shown("page", lane[1].set, n) => n < lane[1].seq
          BY <1>1, <4>1 DEF OrderInv, QueueInOrder
        <4>3. ASSUME NEW j \in Seen("page")', j < i, sinkLog'[j].set = lane[1].set
              PROVE  sinkLog'[j].seq < lane[1].seq
          <5>1. j \in DOMAIN sinkLog /\ sinkLog'[j] = sinkLog[j] /\ sinkLog[j].kind = "page"
            BY <2>1, <3>1, <4>3 DEF Seen
          <5>2. sinkLog[j].seq \in Nat
            <6>1. sinkLog[j] \in Steps
              BY <5>1 DEF TypeOK, SinkTypeOK
            <6> QED
              BY <6>1 DEF Steps
          <5>3. Shown("page", lane[1].set, sinkLog[j].seq)
            BY <4>3, <5>1 DEF Shown, IsStep
          <5> QED
            BY <4>2, <5>1, <5>2, <5>3
        <4> QED
          BY <2>2, <3>1, <4>1, <4>2, <4>3
      <3>2. CASE i # last
        <4>1. i \in Seen("page") /\ sinkLog'[i] = sinkLog[i] /\ i \in DOMAIN sinkLog
          BY <2>1, <2>3, <3>2 DEF Seen
        <4>2. \A kind : \A j \in Seen(kind) : j \in Seen(kind)' /\ sinkLog'[j] = sinkLog[j]
          BY <2>1 DEF Seen
        <4>3. \A j \in Seen("page")' : j < i => j \in Seen("page") /\ sinkLog'[j] = sinkLog[j]
          BY <2>1, <4>1 DEF Seen
        <4>4. /\ \E j \in Seen("set") : j < i /\ sinkLog[j].set = sinkLog[i].set
                                              /\ sinkLog[j].seq = 0
              /\ sinkLog[i].seq > 0 =>
                   \E j \in Seen("page") : j < i /\ sinkLog[j].set = sinkLog[i].set
                                                 /\ sinkLog[j].seq = sinkLog[i].seq - 1
              /\ \A j \in Seen("page") :
                   j < i => sinkLog[j].set # sinkLog[i].set \/ sinkLog[j].seq < sinkLog[i].seq
          BY <4>1 DEF OrderInv, PagesInOrder
        <4> QED
          BY <4>1, <4>2, <4>3, <4>4
      <3> QED
        BY <3>1, <3>2
    <2> QED
      BY <2>3 DEF PagesInOrder
  <1> QED
    BY <1>3, <1>4, <1>5 DEF OrderInv

\* The head, already in the log, leaves the lane.
LEMMA OrderPop ==
    ASSUME TypeOK, BusyHasHead, OrderInv, sinkBusy, sinkBusy' = FALSE, lane' = Tail(lane),
           UNCHANGED <<sinkLog, ledgers>>
    PROVE  OrderInv'
  <1>1. /\ Len(lane') \in Nat /\ Len(lane) = Len(lane') + 1
        /\ DOMAIN lane = 1..Len(lane) /\ DOMAIN lane' = 1..Len(lane')
        /\ \A i \in DOMAIN lane' : lane'[i] = lane[i + 1] /\ Queued(i + 1)
        /\ \A kind, set, seq : \A i \in 1..Len(lane) :
             Before(i, kind, set, seq)' <=> Before(i + 1, kind, set, seq)
    BY PopBefore
  <1>2. PagesInOrder'
    BY DEF OrderInv, PagesInOrder, Seen
  <1>3. QueueInOrder'
    <2> SUFFICES ASSUME NEW i \in DOMAIN lane', lane'[i].kind = "page"
                 PROVE  /\ Before(i, "set", lane[i].set, 0)'
                        /\ lane'[i].seq > 0 => Before(i, "page", lane[i].set, lane[i].seq - 1)'
                        /\ \A n \in Nat : Before(i, "page", lane[i].set, n)' => n < lane'[i].seq
      BY DEF QueueInOrder
    <2>1. i + 1 \in DOMAIN lane /\ i \in 1..Len(lane) /\ lane'[i] = lane[i + 1] /\ Queued(i + 1)
      BY <1>1
    <2>2. /\ Before(i + 1, "set", lane[i + 1].set, 0)
          /\ lane[i + 1].seq > 0 => Before(i + 1, "page", lane[i + 1].set, lane[i + 1].seq - 1)
          /\ \A n \in Nat : Before(i + 1, "page", lane[i + 1].set, n) => n < lane[i + 1].seq
      BY <2>1 DEF OrderInv, QueueInOrder
    <2> QED
      BY <1>1, <2>1, <2>2
  <1>4. LedgerIsNext'
    <2>1. \A kind, set, seq : Received(kind, set, seq)' <=> Received(kind, set, seq)
      <3>1. Len(lane') + 1 \in 1..Len(lane)
        BY <1>1
      <3> QED
        BY <1>1, <3>1 DEF Received
    <2> QED
      BY <2>1 DEF OrderInv, LedgerIsNext
  <1> QED
    BY <1>2, <1>3, <1>4 DEF OrderInv

-----------------------------------------------------------------------------
(* Every set is announced once                                              *)

\* Taking the first message away.
LEMMA TakeFrom ==
    ASSUME NEW s \in Seq(Messages), s # <<>>, NEW announced, NEW ledger,
           FromService(s, announced, ledger)
    PROVE  /\ FromService(Tail(s), announced, ledger)
           /\ Head(s).kind \in {"set", "rows"} => Head(s).set \in ResultSets
           /\ Head(s).kind = "set" =>
                /\ Head(s).set <= announced
                /\ ledger[Head(s).set] = -1
                /\ \A i \in DOMAIN Tail(s) : Tail(s)[i].kind = "set" => Tail(s)[i].set # Head(s).set
           /\ \A t : Apart(s, t) =>
                /\ Apart(Tail(s), t)
                /\ Head(s).kind = "set" =>
                     \A j \in DOMAIN t : t[j].kind = "set" => t[j].set # Head(s).set
  <1>1. /\ Len(s) \in Nat \ {0} /\ DOMAIN s = 1..Len(s) /\ DOMAIN Tail(s) = 1..(Len(s) - 1)
        /\ \A i \in 1..(Len(s) - 1) : Tail(s)[i] = s[i + 1]
        /\ Head(s) = s[1]
    BY TailElements
  <1>2. /\ 1 \in DOMAIN s
        /\ \A i \in DOMAIN Tail(s) : i + 1 \in DOMAIN s /\ i + 1 # 1 /\ Tail(s)[i] = s[i + 1]
        /\ \A i, j \in DOMAIN Tail(s) : i + 1 = j + 1 => i = j
    BY <1>1
  <1>3. FromService(Tail(s), announced, ledger)
    BY <1>2 DEF FromService
  <1>4. /\ Head(s).kind \in {"set", "rows"} => Head(s).set \in ResultSets
        /\ Head(s).kind = "set" =>
             /\ Head(s).set <= announced
             /\ ledger[Head(s).set] = -1
             /\ \A i \in DOMAIN Tail(s) : Tail(s)[i].kind = "set" => Tail(s)[i].set # Head(s).set
    BY <1>1, <1>2 DEF FromService
  <1>5. ASSUME NEW t, Apart(s, t)
        PROVE  /\ Apart(Tail(s), t)
               /\ Head(s).kind = "set" =>
                    \A j \in DOMAIN t : t[j].kind = "set" => t[j].set # Head(s).set
    BY <1>1, <1>2, <1>5 DEF Apart
  <1> QED
    BY <1>3, <1>4, <1>5

\* Adding a message behind the others.
LEMMA AddTo ==
    ASSUME NEW s \in Seq(Messages), NEW m \in Messages, NEW announced, NEW ledger,
           FromService(s, announced, ledger),
           m.kind \in {"set", "rows"} => m.set \in ResultSets,
           m.kind = "set" =>
               /\ m.set <= announced
               /\ ledger[m.set] = -1
               /\ \A i \in DOMAIN s : s[i].kind = "set" => s[i].set # m.set
    PROVE  /\ FromService(Append(s, m), announced, ledger)
           /\ \A t : /\ Apart(s, t)
                     /\ m.kind = "set" => \A j \in DOMAIN t : t[j].kind = "set" => t[j].set # m.set
                     => Apart(Append(s, m), t)
  <1>1. /\ DOMAIN Append(s, m) = 1..(Len(s) + 1) /\ DOMAIN s = 1..Len(s) /\ Len(s) \in Nat
        /\ \A i \in 1..Len(s) : Append(s, m)[i] = s[i]
        /\ Append(s, m)[Len(s) + 1] = m
    BY AppendElements
  <1>2. FromService(Append(s, m), announced, ledger)
    BY <1>1 DEF FromService
  <1>3. ASSUME NEW t, Apart(s, t),
               m.kind = "set" => \A j \in DOMAIN t : t[j].kind = "set" => t[j].set # m.set
        PROVE  Apart(Append(s, m), t)
    BY <1>1, <1>3 DEF Apart
  <1> QED
    BY <1>2, <1>3

\* Apart is symmetric.
LEMMA ApartBoth == \A s, t : Apart(s, t) => Apart(t, s)
  BY DEF Apart

\* The service counts in natural numbers.
LEMMA SvcNumbers ==
    TypeOK => svc \in SvcType /\ svc.set \in Nat /\ svc.set <= MaxSets /\ svc.page \in Nat
              /\ svc.sent \in Nat /\ MaxSets \in Nat
  BY BoundsAssumption DEF TypeOK, ServiceTypeOK, SvcType

\* A notification reaches the lane: it opens the ledger of its set, or advances
\* one that is open, and what waits behind it is of other sets.
LEMMA DeliverFrom ==
    ASSUME TypeOK, NEW s \in Seq(Messages), NEW t \in Seq(Messages), s # <<>>,
           FromService(s, svc.set, ledgers), FromService(t, svc.set, ledgers), Apart(s, t),
           \A r \in ResultSets : r > svc.set => ledgers[r] = -1,
           OnWire(Head(s))
    PROVE  /\ FromService(Tail(s), svc.set, ledgers') /\ FromService(t, svc.set, ledgers')
           /\ Apart(Tail(s), t)
           /\ \A r \in ResultSets : r > svc.set => ledgers'[r] = -1
  <1> DEFINE m == Head(s)
  <1>1. /\ m \in Messages /\ m.set \in Nat /\ m.seq \in Nat
        /\ svc.set \in Nat /\ ledgers \in [ResultSets -> Nat \cup {-1}]
    <2>1. m \in Messages
      BY SeqType
    <2> QED
      BY <2>1, SvcNumbers DEF Messages, TypeOK, QueryTypeOK
  <1>2. /\ FromService(Tail(s), svc.set, ledgers)
        /\ Apart(Tail(s), t)
        /\ m.kind \in {"set", "rows"} => m.set \in ResultSets
        /\ m.kind = "set" =>
             /\ m.set <= svc.set
             /\ \A i \in DOMAIN Tail(s) : Tail(s)[i].kind = "set" => Tail(s)[i].set # m.set
             /\ \A i \in DOMAIN t : t[i].kind = "set" => t[i].set # m.set
    BY TakeFrom
  <1>3. CASE UNCHANGED ledgers
    BY <1>2, <1>3
  <1>4. CASE \/ m.kind = "set" /\ ledgers' = [ledgers EXCEPT ![m.set] = 0]
             \/ m.kind = "rows" /\ ledgers[m.set] = m.seq
                /\ ledgers' = [ledgers EXCEPT ![m.set] = m.seq + 1]
    <2>1. \A r \in ResultSets : r # m.set => ledgers'[r] = ledgers[r]
      BY <1>1, <1>4
    <2>2. m.set \in ResultSets /\ (m.kind = "rows" => ledgers[m.set] # -1)
      BY <1>1, <1>2, <1>4
    <2>3. /\ \A i \in DOMAIN Tail(s) : Tail(s)[i].kind = "set" => Tail(s)[i].set # m.set
          /\ \A i \in DOMAIN t : t[i].kind = "set" => t[i].set # m.set
      BY <1>2, <1>4, <2>2 DEF FromService
    <2>4. m.set <= svc.set
      BY <1>1, <1>2, <1>4, <2>2 DEF ResultSets
    <2>5. FromService(Tail(s), svc.set, ledgers') /\ FromService(t, svc.set, ledgers')
      BY <1>2, <2>1, <2>3 DEF FromService
    <2>6. \A r \in ResultSets : r > svc.set => ledgers'[r] = -1
      BY <1>1, <2>1, <2>4 DEF ResultSets
    <2> QED
      BY <1>2, <2>5, <2>6
  <1>5. \/ UNCHANGED ledgers
        \/ m.kind = "set" /\ ledgers' = [ledgers EXCEPT ![m.set] = 0]
        \/ m.kind = "rows" /\ ledgers[m.set] = m.seq
           /\ ledgers' = [ledgers EXCEPT ![m.set] = m.seq + 1]
    BY DEF OnWire, DropAfterTerminal, OnWireResultSet, OnWireRows, OnWireMessage, OnWireComplete
  <1> QED
    BY <1>3, <1>4, <1>5

\* What the service sends next.
LEMMA ServiceSends ==
    ASSUME TypeOK, WireInv, Service
    PROVE  WireInv'
  <1>0. /\ svc \in SvcType /\ svc.set \in Nat /\ svc.set <= MaxSets /\ MaxSets \in Nat
        /\ wire \in Seq(Messages) /\ orphans \in Seq(Messages)
    BY SvcNumbers DEF TypeOK, ServiceTypeOK, RouteTypeOK
  <1>1. UNCHANGED <<orphans, ledgers>>
    BY DEF Service, SvcStart, SvcReject, SvcRespond, SvcResultSet, SvcRows, SvcMessage, SvcComplete,
           SvcAbort, SvcGap, SvcDuplicate, clientVars, routeVars, queryVars
  <1>2. CASE SvcStart
    <2>1. UNCHANGED wire /\ svc'.set = svc.set
      BY <1>0, <1>2 DEF SvcStart, SvcType
    <2> QED
      BY <1>1, <2>1 DEF WireInv
  <1>3. ASSUME NEW m \in Messages, m.kind \notin {"set", "rows"}, wire' = Append(wire, m),
               svc'.set = svc.set
        PROVE  WireInv'
    BY <1>0, <1>1, <1>3, AddTo DEF WireInv
  <1>4. CASE SvcReject \/ SvcRespond \/ SvcComplete \/ SvcAbort \/ SvcDuplicate \/ SvcMessage
    <2>1. svc'.set = svc.set
      BY <1>0, <1>4
      DEF SvcType, SvcReject, SvcRespond, SvcComplete, SvcAbort, SvcDuplicate, SvcMessage
    <2>2. \E kind \in {"response", "complete", "message"}, tag \in Tags :
             wire' = Append(wire, Message(kind, 0, 0, tag))
      BY <1>4
      DEF Send, Tags, SvcReject, SvcRespond, SvcComplete, SvcAbort, SvcDuplicate, SvcMessage
    <2>3. \A kind \in {"response", "complete", "message"}, tag \in Tags :
             Message(kind, 0, 0, tag) \in Messages /\ Message(kind, 0, 0, tag).kind = kind
      BY MessageType DEF Message
    <2> QED
      BY <1>3, <2>1, <2>2, <2>3
  <1>5. CASE SvcResultSet
    <2> DEFINE m == Message("set", svc.set + 1, 0, "ok")
    <2>1. /\ svc'.set = svc.set + 1 /\ svc.set + 1 \in ResultSets /\ svc.set + 1 \in Nat
          /\ wire' = Append(wire, m)
      BY <1>0, <1>5 DEF SvcResultSet, SvcType, Send, ResultSets
    <2>2. m \in Messages /\ m.kind = "set" /\ m.set = svc.set + 1
      BY <2>1, MessageType DEF Message, Tags
    <2>3. ASSUME NEW s \in Seq(Messages), FromService(s, svc.set, ledgers)
          PROVE  /\ FromService(s, svc.set + 1, ledgers)
                 /\ \A i \in DOMAIN s : s[i].kind = "set" => s[i].set # svc.set + 1
      BY <1>0, <2>3 DEF FromService, ResultSets
    <2>4. ledgers[svc.set + 1] = -1
      BY <1>0, <2>1 DEF WireInv
    <2>5. FromService(wire', svc.set + 1, ledgers) /\ Apart(wire', orphans)
      BY <1>0, <2>1, <2>2, <2>3, <2>4, AddTo DEF WireInv
    <2>6. \A r \in ResultSets : r > svc.set + 1 => ledgers[r] = -1
      BY <1>0 DEF WireInv, ResultSets
    <2> QED
      BY <1>0, <1>1, <2>1, <2>3, <2>5, <2>6 DEF WireInv
  <1>6. CASE SvcRows \/ SvcGap
    <2>1. svc'.set = svc.set /\ svc.set \in ResultSets
      <3>1. svc' = [svc EXCEPT !.page = @ + 1, !.sent = @ + 1] /\ svc.set > 0
        BY <1>6 DEF SvcRows, SvcGap
      <3>2. svc'.set = svc.set
        BY <1>0, <3>1 DEF SvcType
      <3> QED
        BY <1>0, <3>1, <3>2 DEF ResultSets
    <2>2. PICK s \in ResultSets, q \in Nat : wire' = Append(wire, Message("rows", s, q, "ok"))
      <3>1. svc.page \in Nat /\ svc.page + 1 \in Nat /\ 0 \in Nat
        BY SvcNumbers
      <3>2. svc.set < MaxSets => svc.set + 1 \in ResultSets
        BY <1>0 DEF ResultSets
      <3> QED
        BY <1>6, <2>1, <3>1, <3>2 DEF SvcRows, SvcGap, Send
    <2>3. /\ Message("rows", s, q, "ok") \in Messages
          /\ Message("rows", s, q, "ok").kind = "rows" /\ Message("rows", s, q, "ok").set = s
      <3>1. s \in Nat /\ "ok" \in Tags
        BY <1>0 DEF ResultSets, Tags
      <3> QED
        BY <3>1, MessageType DEF Message
    <2>4. FromService(wire', svc.set, ledgers) /\ Apart(wire', orphans)
      BY <1>0, <2>2, <2>3, AddTo DEF WireInv
    <2> QED
      BY <1>1, <2>1, <2>4 DEF WireInv
  <1> QED
    BY <1>2, <1>4, <1>5, <1>6 DEF Service

\* Only deliveries and the routing of a query touch what WireInv speaks of.
LEMMA WireStep == TypeOK /\ WireInv /\ [Next]_vars => WireInv'
  <1> SUFFICES ASSUME TypeOK, WireInv, [Next]_vars PROVE WireInv'
    OBVIOUS
  <1> USE DEF queryVars, laneVars, controlVars, routeVars, sessionVars, serviceVars, sinkVars
  <1>0. wire \in Seq(Messages) /\ orphans \in Seq(Messages)
    BY DEF TypeOK, ServiceTypeOK, RouteTypeOK
  <1>a. UNCHANGED <<wire, orphans, ledgers, svc>> => WireInv'
    BY DEF WireInv
  <1>b. ASSUME wire # <<>>, wire' = Tail(wire), UNCHANGED <<orphans, ledgers, svc>> PROVE WireInv'
    BY <1>0, <1>b, TakeFrom DEF WireInv
  <1>c. ASSUME orphans' = <<>>, UNCHANGED <<wire, ledgers, svc>> PROVE WireInv'
    <2>1. DOMAIN orphans' = {}
      BY <1>c
    <2> QED
      BY <1>c, <2>1 DEF WireInv, FromService, Apart
  <1>1. CASE ReceiveNotification
    <2>1. wire # <<>> /\ wire' = Tail(wire) /\ UNCHANGED svc
      BY <1>1 DEF ReceiveNotification
    <2>2. CASE OnWire(Head(wire)) /\ UNCHANGED orphans
      BY <1>0, <2>1, <2>2, DeliverFrom DEF WireInv
    <2>3. CASE UNCHANGED <<queryVars, orphans>>
      BY <1>b, <2>1, <2>3
    <2>4. CASE UNCHANGED queryVars /\ orphans' = Append(orphans, Head(wire))
      <3>1. Head(wire) \in Messages
        BY <1>0, <2>1, SeqType
      <3>2. /\ FromService(Tail(wire), svc.set, ledgers)
            /\ Apart(Tail(wire), orphans)
            /\ Head(wire).kind \in {"set", "rows"} => Head(wire).set \in ResultSets
            /\ Head(wire).kind = "set" =>
                 /\ Head(wire).set <= svc.set
                 /\ ledgers[Head(wire).set] = -1
                 /\ \A i \in DOMAIN Tail(wire) :
                       Tail(wire)[i].kind = "set" => Tail(wire)[i].set # Head(wire).set
                 /\ \A j \in DOMAIN orphans :
                       orphans[j].kind = "set" => orphans[j].set # Head(wire).set
        BY <1>0, <2>1, TakeFrom DEF WireInv
      <3>3. FromService(orphans', svc.set, ledgers) /\ Apart(orphans', Tail(wire))
        BY <1>0, <2>4, <3>1, <3>2, AddTo, ApartBoth DEF WireInv
      <3> QED
        BY <2>1, <2>4, <3>2, <3>3, ApartBoth DEF WireInv
    <2> QED
      BY <1>1, <2>2, <2>3, <2>4 DEF ReceiveNotification
  <1>2. CASE draining /\ DrainOrphan
    <2>1. OnWire(Head(orphans)) /\ orphans # <<>> /\ orphans' = Tail(orphans) /\ UNCHANGED <<wire, svc>>
      BY <1>2 DEF DrainOrphan
    <2> QED
      BY <1>0, <2>1, DeliverFrom, ApartBoth DEF WireInv
  <1>3. CASE draining /\ FinishRegister
    BY <1>3, <1>a DEF FinishRegister
  <1>4. CASE ReceiveAccepted \/ ReceiveRejected
    BY <1>4, <1>b DEF ReceiveAccepted, ReceiveRejected
  <1>5. CASE StartStep
    BY <1>5, <1>a DEF StartStep
  <1>6. CASE FinishStep \/ FailStep
    <2>1. UNCHANGED <<wire, ledgers, svc>> /\ (UNCHANGED orphans \/ orphans' = <<>>)
      BY <1>6 DEF FinishStep, FailStep, UnregisterQuery
    <2> QED
      BY <1>a, <1>c, <2>1
  <1>7. CASE Cancel \/ ProceedCancel \/ SettleCancel \/ Dispose \/ ProceedDispose \/ DisposeAnswered
             \/ CloseSession
    BY <1>7, <1>a
    DEF Cancel, ProceedCancel, SettleCancel, Dispose, ProceedDispose, DisposeAnswered, CloseSession
  <1>8. CASE CancelDeadline \/ DisposeFailed \/ DrainDeadline \/ LoseSession \/ FinishClose
    BY <1>8, <1>a DEF CancelDeadline, DisposeFailed, DrainDeadline, LoseSession, FinishClose
  <1>9. CASE Service
    BY <1>9, ServiceSends
  <1>10. CASE UNCHANGED vars
    BY <1>10, <1>a DEF vars
  <1> QED
    BY <1>1, <1>2, <1>3, <1>4, <1>5, <1>6, <1>7, <1>8, <1>9, <1>10
    DEF Next, Register, Client, Environment, Finished

-----------------------------------------------------------------------------
(* The order is kept by every step                                          *)

\* A terminal, or none, is appended.
LEMMA OrderTerminal ==
    ASSUME TypeOK, BusyHasHead, OrderInv, NEW status, FinishTerminal(status),
           UNCHANGED <<sinkBusy, sinkLog, ledgers>>
    PROVE  OrderInv'
  <1>1. Step("complete", 0, 0, 0) \in Steps /\ Step("complete", 0, 0, 0).kind # "page"
    BY StepType DEF Step
  <1> QED
    BY <1>1, OrderOther DEF FinishTerminal, Enqueue

\* A notification of a service that announces each set once.
LEMMA OrderOnWire ==
    ASSUME TypeOK, BusyHasHead, OrderInv, NEW m \in Messages, OnWire(m), UNCHANGED sinkLog,
           m.kind \in {"set", "rows"} => m.set \in ResultSets,
           m.kind = "set" => ledgers[m.set] = -1
    PROVE  OrderInv'
  <1>1. m.set \in Nat /\ m.seq \in Nat /\ receivedPageOrdinal \in Nat /\ UNCHANGED sinkBusy
    BY DEF Messages, TypeOK, QueryTypeOK, OnWire
  <1>2. CASE DropAfterTerminal
    BY <1>1, <1>2, OrderFrame DEF DropAfterTerminal
  <1>3. CASE OnWireResultSet(m)
    BY <1>1, <1>3, OrderSet DEF OnWireResultSet, Enqueue
  <1>4. CASE OnWireRows(m) /\ ledgers[m.set] = m.seq
    <2>1. /\ m.set \in ResultSets
          /\ ledgers' = [ledgers EXCEPT ![m.set] = m.seq + 1]
          /\ lane' = Append(lane, Step("page", m.set, m.seq, receivedPageOrdinal))
      BY <1>4 DEF OnWireRows, Enqueue
    <2> QED
      BY <1>1, <1>4, <2>1, OrderPage
  <1>5. CASE OnWireRows(m) /\ ledgers[m.set] # m.seq
    BY <1>1, <1>5, OrderTerminal DEF OnWireRows
  <1>6. CASE OnWireMessage(m)
    <2>1. Step("message", 0, 0, 0) \in Steps /\ Step("message", 0, 0, 0).kind # "page"
      BY StepType DEF Step
    <2> QED
      BY <1>1, <1>6, <2>1, OrderOther DEF OnWireMessage, Enqueue
  <1>7. CASE OnWireComplete(m)
    BY <1>1, <1>7, OrderTerminal DEF OnWireComplete
  <1> QED
    BY <1>2, <1>3, <1>4, <1>5, <1>6, <1>7 DEF OnWire

LEMMA OrderStep == IInv /\ WireInv /\ OrderInv /\ [Next]_vars => OrderInv'
  <1> SUFFICES ASSUME IInv, WireInv, OrderInv, [Next]_vars PROVE OrderInv'
    OBVIOUS
  <1> USE DEF queryVars, laneVars, controlVars, routeVars, sessionVars, serviceVars, sinkVars
  <1>0. TypeOK /\ LaneInv /\ BusyHasHead /\ wire \in Seq(Messages) /\ orphans \in Seq(Messages)
    BY DEF IInv, LaneInv, TypeOK, ServiceTypeOK, RouteTypeOK
  <1>a. UNCHANGED <<lane, sinkBusy, sinkLog, ledgers>> => OrderInv'
    BY OrderFrame
  <1>b. ASSUME NEW s \in Seq(Messages), s # <<>>, FromService(s, svc.set, ledgers),
               OnWire(Head(s)), UNCHANGED sinkLog
        PROVE  OrderInv'
    <2>1. Head(s) \in Messages
      BY <1>b, SeqType
    <2>2. /\ Head(s).kind \in {"set", "rows"} => Head(s).set \in ResultSets
          /\ Head(s).kind = "set" => ledgers[Head(s).set] = -1
      BY <1>b, TakeFrom
    <2> QED
      BY <1>0, <1>b, <2>1, <2>2, OrderOnWire
  <1>1. CASE ReceiveNotification
    <2>1. CASE OnWire(Head(wire))
      BY <1>0, <1>1, <1>b, <2>1 DEF ReceiveNotification, WireInv
    <2>2. CASE UNCHANGED <<queryVars, laneVars>>
      BY <1>1, <1>a, <2>2 DEF ReceiveNotification
    <2> QED
      BY <1>1, <2>1, <2>2 DEF ReceiveNotification
  <1>2. CASE draining /\ DrainOrphan
    BY <1>0, <1>2, <1>b DEF DrainOrphan, WireInv
  <1>3. CASE draining /\ FinishRegister
    <2>1. Step("accepted", 0, 0, 0) \in Steps /\ Step("accepted", 0, 0, 0).kind # "page"
      BY StepType DEF Step
    <2> QED
      BY <1>0, <1>3, <2>1, OrderOther DEF FinishRegister, Enqueue
  <1>4. CASE ReceiveRejected
    BY <1>0, <1>4, <1>a, OrderTerminal DEF ReceiveRejected
  <1>5. CASE FinishStep \/ FailStep
    <2>1. /\ sinkBusy /\ sinkBusy' = FALSE /\ lane' = Tail(lane)
          /\ UNCHANGED <<sinkLog, ledgers>>
      BY <1>5 DEF FinishStep, FailStep
    <2> QED
      BY <1>0, <2>1, OrderPop
  <1>6. CASE StartStep
    BY <1>0, <1>6, OrderStart
  <1>7. CASE Cancel \/ ProceedCancel \/ SettleCancel \/ Dispose \/ ProceedDispose \/ DisposeAnswered
             \/ CloseSession \/ ReceiveAccepted
    BY <1>7, <1>a
    DEF Cancel, ProceedCancel, SettleCancel, Dispose, ProceedDispose, DisposeAnswered, CloseSession,
        ReceiveAccepted
  <1>8. CASE CancelDeadline \/ DisposeFailed \/ DrainDeadline \/ LoseSession \/ FinishClose
    <2>1. UNCHANGED <<sinkBusy, sinkLog, ledgers>>
      BY <1>8 DEF CancelDeadline, DisposeFailed, DrainDeadline, LoseSession, FinishClose
    <2>2. \E status \in Statuses : SynthesizeTerminal(status)
      BY <1>8 DEF CancelDeadline, DisposeFailed, DrainDeadline, LoseSession, FinishClose, Statuses
    <2> QED
      BY <1>0, <1>a, <2>1, <2>2, OrderTerminal DEF SynthesizeTerminal
  <1>9. CASE Service
    <2>1. clientVars' = clientVars
      BY <1>9
      DEF Service, SvcStart, SvcReject, SvcRespond, SvcResultSet, SvcRows, SvcMessage, SvcComplete,
          SvcAbort, SvcGap, SvcDuplicate
    <2> QED
      BY <1>a, <2>1 DEF clientVars
  <1>10. CASE UNCHANGED vars
    BY <1>a, <1>10 DEF vars
  <1> QED
    BY <1>1, <1>2, <1>3, <1>4, <1>5, <1>6, <1>7, <1>8, <1>9, <1>10
    DEF Next, Register, Client, Environment, Finished

LEMMA OrderInit == Init => WireInv /\ OrderInv
  <1> SUFFICES ASSUME Init PROVE WireInv /\ OrderInv
    OBVIOUS
  <1>1. /\ DOMAIN lane = {} /\ DOMAIN sinkLog = {} /\ DOMAIN wire = {} /\ DOMAIN orphans = {}
        /\ \A s \in ResultSets : ledgers[s] = -1
    BY DEF Init
  <1>2. WireInv
    BY <1>1 DEF WireInv, FromService, Apart
  <1>3. \A kind, set, seq : ~Received(kind, set, seq)
    BY <1>1 DEF Received, Before, Shown
  <1>4. OrderInv
    BY <1>1, <1>3 DEF OrderInv, PagesInOrder, QueueInOrder, LedgerIsNext, Seen
  <1> QED
    BY <1>2, <1>4

\* Metadata before rows and gapless pages, for every number of result sets and
\* pages, every credit window and buffer cap and every fault: what was buffered
\* before the execute response and what a failing sink skips included.
THEOREM PagesInOrderHolds == Spec => []PagesInOrder
  <1>1. IInv /\ WireInv /\ OrderInv /\ [Next]_vars => WireInv' /\ OrderInv'
    BY WireStep, OrderStep DEF IInv
  <1>2. OrderInv => PagesInOrder
    BY DEF OrderInv
  <1> QED
    BY <1>1, <1>2, OrderInit, Invariance, PTL DEF Spec

-----------------------------------------------------------------------------
(* Ordinals: the numbering of pages over the query                          *)

\* Callbacks other than pages count for nothing here.
LEMMA OrdinalFrame ==
    ASSUME TypeOK, BusyHasHead, OrdinalInv,
           UNCHANGED <<sinkBusy, sinkLog, receivedPageOrdinal, durable>>,
           \/ lane' = lane
           \/ \E step \in Steps : step.kind # "page" /\ lane' = Append(lane, step)
    PROVE  OrdinalInv'
  <1>1. CASE lane' = lane
    BY <1>1 DEF OrdinalInv, ShownOrd, QueuedOrd, Queued
  <1>2. ASSUME NEW step \in Steps, step.kind # "page", lane' = Append(lane, step)
        PROVE  OrdinalInv'
    <2>1. /\ Len(lane) \in Nat
          /\ DOMAIN lane = 1..Len(lane) /\ DOMAIN lane' = 1..(Len(lane) + 1)
          /\ \A i \in DOMAIN lane : lane'[i] = lane[i] /\ (Queued(i)' <=> Queued(i))
          /\ lane'[Len(lane) + 1] = step
      BY <1>2, AppendBefore
    <2>a. step.kind # "page"
      BY <1>2
    <2>b. /\ \A i \in DOMAIN lane : i \in DOMAIN lane'
          /\ \A i \in DOMAIN lane' : i \in DOMAIN lane \/ lane'[i].kind # "page"
      BY <2>1, <2>a
    <2>2. \A n : QueuedOrd(n)' <=> QueuedOrd(n)
      BY <2>1, <2>b DEF QueuedOrd
    <2>3. \A n : ShownOrd(n)' <=> ShownOrd(n)
      BY DEF ShownOrd
    <2> QED
      BY <2>2, <2>3 DEF OrdinalInv
  <1> QED
    BY <1>1, <1>2

\* A page takes the next ordinal and waits behind the others.
LEMMA OrdinalPage ==
    ASSUME TypeOK, BusyHasHead, OrdinalInv, NEW set \in Nat, NEW seq \in Nat,
           lane' = Append(lane, Step("page", set, seq, receivedPageOrdinal)),
           receivedPageOrdinal' = receivedPageOrdinal + 1,
           UNCHANGED <<sinkBusy, sinkLog, durable>>
    PROVE  OrdinalInv'
  <1> DEFINE step == Step("page", set, seq, receivedPageOrdinal)
  <1>1. receivedPageOrdinal \in Nat
    BY DEF TypeOK, QueryTypeOK
  <1>2. step \in Steps /\ step.kind = "page" /\ step.ord = receivedPageOrdinal
    BY <1>1, StepType DEF Step
  <1>3. /\ Len(lane) \in Nat
        /\ DOMAIN lane = 1..Len(lane) /\ DOMAIN lane' = 1..(Len(lane) + 1)
        /\ \A i \in DOMAIN lane : lane'[i] = lane[i] /\ (Queued(i)' <=> Queued(i))
        /\ lane'[Len(lane) + 1] = step
        /\ \A i : i = Len(lane) + 1 => Queued(i)'
    BY <1>2, AppendBefore
  <1>4. \A n : QueuedOrd(n)' <=> QueuedOrd(n) \/ n = receivedPageOrdinal
    BY <1>2, <1>3 DEF QueuedOrd
  <1>5. \A n : ShownOrd(n)' <=> ShownOrd(n)
    BY DEF ShownOrd
  <1>6. \A n \in 0..(receivedPageOrdinal' - 1) :
            n \in 0..(receivedPageOrdinal - 1) \/ n = receivedPageOrdinal
    BY <1>1
  <1>7. \A n \in Nat : ShownOrd(n) => n < receivedPageOrdinal'
    BY <1>1 DEF OrdinalInv
  <1>8. \A n, m \in Nat : ShownOrd(n)' /\ QueuedOrd(m)' => n < m
    BY <1>4, <1>5 DEF OrdinalInv
  <1>9. \A n \in 0..(receivedPageOrdinal' - 1) : ShownOrd(n)' \/ QueuedOrd(n)'
    BY <1>4, <1>5, <1>6 DEF OrdinalInv
  <1>10. \A n \in durable' : ShownOrd(n)'
    BY <1>5 DEF OrdinalInv
  <1> QED
    BY <1>5, <1>7, <1>8, <1>9, <1>10 DEF OrdinalInv

\* A page that is invoked has the least ordinal of those queued.
LEMMA OrdinalStart ==
    ASSUME TypeOK, AckInv, OrdinalInv, StartStep
    PROVE  /\ OrdinalInv'
           /\ lane[1].ord \in Nat
           /\ \A n : ShownOrd(n)' <=> ShownOrd(n) \/ (lane[1].kind = "page" /\ n = lane[1].ord)
           /\ lane[1].kind = "page" =>
                \A n \in Nat : ShownOrd(n) <=> n < lane[1].ord
  <1>1. /\ sinkLog' = Append(sinkLog, lane[1]) /\ lane[1] \in Steps
        /\ 1 \in DOMAIN lane /\ Queued(1) /\ ~Queued(1)' /\ UNCHANGED lane
        /\ Len(lane) \in Nat /\ DOMAIN lane = 1..Len(lane)
        /\ \A i \in DOMAIN lane : i > 1 => Queued(i) /\ Queued(i)'
    BY StartBefore
  <1>2. UNCHANGED <<receivedPageOrdinal, durable>>
    BY DEF StartStep, queryVars
  <1>3. \A i \in DOMAIN lane : lane[i].ord \in Nat
    BY OrdinalType DEF TypeOK, LaneTypeOK
  <1>4. receivedPageOrdinal \in Nat
    BY DEF TypeOK, QueryTypeOK
  <1>5. \A n : ShownOrd(n)' <=> ShownOrd(n) \/ (lane[1].kind = "page" /\ n = lane[1].ord)
    <2>1. /\ DOMAIN sinkLog' = 1..(Len(sinkLog) + 1) /\ DOMAIN sinkLog = 1..Len(sinkLog)
          /\ Len(sinkLog) \in Nat
          /\ \A i \in 1..Len(sinkLog) : sinkLog'[i] = sinkLog[i]
          /\ sinkLog'[Len(sinkLog) + 1] = lane[1]
      BY <1>1, AppendElements DEF TypeOK, SinkTypeOK
    <2> QED
      BY <2>1 DEF ShownOrd
  <1>6. \A n : QueuedOrd(n) <=> QueuedOrd(n)' \/ (lane[1].kind = "page" /\ n = lane[1].ord)
    <2>1. \A i \in DOMAIN lane : i = 1 \/ i > 1
      BY <1>1
    <2> QED
      BY <1>1, <2>1 DEF QueuedOrd
  <1>7. lane[1].kind = "page" => \A m : QueuedOrd(m)' => lane[1].ord < m
    <2>1. \A i \in DOMAIN lane : i = 1 \/ 1 < i
      BY <1>1
    <2> QED
      BY <1>1, <2>1 DEF QueuedOrd, AckInv, OrdinalsInOrder, IsPage
  <1>8. lane[1].kind = "page" => lane[1].ord < receivedPageOrdinal
    BY <1>1 DEF AckInv, OrdinalsInOrder, IsPage
  <1>9. lane[1].kind = "page" => \A n \in Nat : ShownOrd(n) <=> n < lane[1].ord
    <2> SUFFICES ASSUME lane[1].kind = "page", NEW n \in Nat
                 PROVE  ShownOrd(n) <=> n < lane[1].ord
      OBVIOUS
    <2>1. lane[1].ord \in Nat /\ QueuedOrd(lane[1].ord)
      BY <1>1, <1>3 DEF QueuedOrd
    <2>2. ShownOrd(n) => n < lane[1].ord
      BY <2>1 DEF OrdinalInv
    <2>3. ASSUME n < lane[1].ord PROVE ShownOrd(n)
      <3>1. n \in 0..(receivedPageOrdinal - 1)
        BY <1>4, <1>8, <2>1, <2>3
      <3>2. ~QueuedOrd(n)
        <4>1. ~(lane[1].ord < n) /\ n # lane[1].ord
          BY <2>1, <2>3
        <4> QED
          BY <1>6, <1>7, <4>1
      <3> QED
        BY <3>1, <3>2 DEF OrdinalInv
    <2> QED
      BY <2>2, <2>3
  <1>10. \A n \in Nat : ShownOrd(n)' => n < receivedPageOrdinal'
    BY <1>2, <1>5, <1>8 DEF OrdinalInv
  <1>11. \A n, m \in Nat : ShownOrd(n)' /\ QueuedOrd(m)' => n < m
    BY <1>5, <1>6, <1>7 DEF OrdinalInv
  <1>12. \A n \in 0..(receivedPageOrdinal - 1) : ShownOrd(n)' \/ QueuedOrd(n)'
    BY <1>5, <1>6 DEF OrdinalInv
  <1>13. \A n \in durable : ShownOrd(n)'
    BY <1>5 DEF OrdinalInv
  <1>14. OrdinalInv'
    BY <1>2, <1>10, <1>11, <1>12, <1>13 DEF OrdinalInv
  <1> QED
    BY <1>1, <1>3, <1>5, <1>9, <1>14

\* The page that leaves the lane is in the log.
LEMMA OrdinalPop ==
    ASSUME TypeOK, BusyHasHead, HeadLogged, OrdinalInv, sinkBusy, sinkBusy' = FALSE,
           lane' = Tail(lane), UNCHANGED <<sinkLog, receivedPageOrdinal>>,
           \A n \in durable' : n \in durable \/ (lane[1].kind = "page" /\ n = lane[1].ord)
    PROVE  OrdinalInv'
  <1>1. /\ Len(lane') \in Nat /\ Len(lane) = Len(lane') + 1
        /\ DOMAIN lane = 1..Len(lane) /\ DOMAIN lane' = 1..Len(lane')
        /\ \A i \in DOMAIN lane' : lane'[i] = lane[i + 1] /\ Queued(i)' /\ Queued(i + 1)
        /\ \A i \in DOMAIN lane : Queued(i) => i - 1 \in DOMAIN lane' /\ lane'[i - 1] = lane[i]
    BY PopBefore
  <1>2. \A n : ShownOrd(n)' <=> ShownOrd(n)
    BY DEF ShownOrd
  <1>3. \A n : QueuedOrd(n)' <=> QueuedOrd(n)
    <2>1. \A i \in DOMAIN lane' : i + 1 \in DOMAIN lane
      BY <1>1
    <2> QED
      BY <1>1, <2>1 DEF QueuedOrd
  <1>4. lane[1].kind = "page" => ShownOrd(lane[1].ord)
    <2>1. sinkLog # <<>> /\ sinkLog[Len(sinkLog)] = lane[1] /\ sinkLog \in Seq(Steps)
      BY DEF HeadLogged, TypeOK, SinkTypeOK
    <2>2. Len(sinkLog) \in DOMAIN sinkLog
      BY <2>1
    <2> QED
      BY <2>1, <2>2 DEF ShownOrd
  <1> QED
    BY <1>2, <1>3, <1>4 DEF OrdinalInv

LEMMA OrdinalStep == IInv /\ AckInv /\ OrdinalInv /\ [Next]_vars => OrdinalInv'
  <1> SUFFICES ASSUME IInv, AckInv, OrdinalInv, [Next]_vars PROVE OrdinalInv'
    OBVIOUS
  <1> USE DEF queryVars, laneVars, controlVars, routeVars, sessionVars, serviceVars, sinkVars
  <1>0. TypeOK /\ BusyHasHead /\ HeadLogged
    BY DEF IInv, LaneInv
  <1>a. UNCHANGED <<lane, sinkBusy, sinkLog, receivedPageOrdinal, durable>> => OrdinalInv'
    BY <1>0, OrdinalFrame
  <1>b. \A kind \in {"accepted", "message", "complete"} :
            Step(kind, 0, 0, 0) \in Steps /\ Step(kind, 0, 0, 0).kind # "page"
    BY StepType DEF Step
  <1>c. ASSUME NEW status, FinishTerminal(status),
               UNCHANGED <<sinkBusy, sinkLog, receivedPageOrdinal, durable>>
        PROVE  OrdinalInv'
    BY <1>0, <1>b, <1>c, OrdinalFrame DEF FinishTerminal, Enqueue
  <1>d. ASSUME NEW m \in Messages, OnWire(m), UNCHANGED <<sinkLog, durable>> PROVE OrdinalInv'
    <2>1. m.set \in Nat /\ m.seq \in Nat /\ UNCHANGED sinkBusy
      BY <1>d DEF Messages, OnWire
    <2>2. CASE DropAfterTerminal
      BY <1>a, <1>d, <2>1, <2>2 DEF DropAfterTerminal
    <2>3. CASE OnWireResultSet(m)
      <3>1. Step("set", m.set, 0, 0) \in Steps /\ Step("set", m.set, 0, 0).kind # "page"
        BY <2>1, StepType DEF Step
      <3> QED
        BY <1>0, <1>d, <2>1, <2>3, <3>1, OrdinalFrame DEF OnWireResultSet, Enqueue
    <2>4. CASE OnWireRows(m) /\ ledgers[m.set] = m.seq
      <3>1. /\ lane' = Append(lane, Step("page", m.set, m.seq, receivedPageOrdinal))
            /\ receivedPageOrdinal' = receivedPageOrdinal + 1
        BY <2>4 DEF OnWireRows, Enqueue
      <3> QED
        BY <1>0, <1>d, <2>1, <3>1, OrdinalPage
    <2>5. CASE OnWireRows(m) /\ ledgers[m.set] # m.seq
      BY <1>c, <1>d, <2>1, <2>5 DEF OnWireRows
    <2>6. CASE OnWireMessage(m)
      BY <1>0, <1>b, <1>d, <2>1, <2>6, OrdinalFrame DEF OnWireMessage, Enqueue
    <2>7. CASE OnWireComplete(m)
      BY <1>c, <1>d, <2>1, <2>7 DEF OnWireComplete
    <2> QED
      BY <1>d, <2>2, <2>3, <2>4, <2>5, <2>6, <2>7 DEF OnWire
  <1>1. CASE ReceiveNotification
    <2>1. CASE OnWire(Head(wire))
      <3>1. Head(wire) \in Messages
        BY <1>0, <1>1, SeqType DEF ReceiveNotification, TypeOK, ServiceTypeOK
      <3> QED
        BY <1>1, <1>d, <2>1, <3>1 DEF ReceiveNotification
    <2>2. CASE UNCHANGED <<queryVars, laneVars>>
      BY <1>1, <1>a, <2>2 DEF ReceiveNotification
    <2> QED
      BY <1>1, <2>1, <2>2 DEF ReceiveNotification
  <1>2. CASE draining /\ DrainOrphan
    <2>1. Head(orphans) \in Messages /\ OnWire(Head(orphans))
      BY <1>0, <1>2, SeqType DEF DrainOrphan, TypeOK, RouteTypeOK
    <2> QED
      BY <1>2, <1>d, <2>1 DEF DrainOrphan
  <1>3. CASE draining /\ FinishRegister
    BY <1>0, <1>3, <1>b, OrdinalFrame DEF FinishRegister, Enqueue
  <1>4. CASE ReceiveRejected
    BY <1>4, <1>a, <1>c DEF ReceiveRejected
  <1>5. CASE FinishStep \/ FailStep
    <2>1. lane \in Seq(Steps) /\ lane # <<>> /\ Head(lane) = lane[1]
      BY <1>0, <1>5 DEF FinishStep, FailStep, TypeOK, LaneTypeOK, BusyHasHead
    <2>2. /\ sinkBusy /\ sinkBusy' = FALSE /\ lane' = Tail(lane)
          /\ UNCHANGED <<sinkLog, receivedPageOrdinal>>
          /\ \A n \in durable' : n \in durable \/ (lane[1].kind = "page" /\ n = lane[1].ord)
      BY <1>5, <2>1 DEF FinishStep, FailStep, CompletePage
    <2> QED
      BY <1>0, <2>2, OrdinalPop
  <1>6. CASE StartStep
    BY <1>0, <1>6, OrdinalStart
  <1>7. CASE Cancel \/ ProceedCancel \/ SettleCancel \/ Dispose \/ ProceedDispose \/ DisposeAnswered
             \/ CloseSession \/ ReceiveAccepted
    BY <1>7, <1>a
    DEF Cancel, ProceedCancel, SettleCancel, Dispose, ProceedDispose, DisposeAnswered, CloseSession,
        ReceiveAccepted
  <1>8. CASE CancelDeadline \/ DisposeFailed \/ DrainDeadline \/ LoseSession \/ FinishClose
    <2>1. UNCHANGED <<sinkBusy, sinkLog, receivedPageOrdinal, durable>>
      BY <1>8 DEF CancelDeadline, DisposeFailed, DrainDeadline, LoseSession, FinishClose
    <2>2. \E status \in Statuses : SynthesizeTerminal(status)
      BY <1>8 DEF CancelDeadline, DisposeFailed, DrainDeadline, LoseSession, FinishClose, Statuses
    <2> QED
      BY <1>a, <1>c, <2>1, <2>2 DEF SynthesizeTerminal
  <1>9. CASE Service
    <2>1. clientVars' = clientVars
      BY <1>9
      DEF Service, SvcStart, SvcReject, SvcRespond, SvcResultSet, SvcRows, SvcMessage, SvcComplete,
          SvcAbort, SvcGap, SvcDuplicate
    <2> QED
      BY <1>a, <2>1 DEF clientVars
  <1>10. CASE UNCHANGED vars
    BY <1>a, <1>10 DEF vars
  <1> QED
    BY <1>1, <1>2, <1>3, <1>4, <1>5, <1>6, <1>7, <1>8, <1>9, <1>10
    DEF Next, Register, Client, Environment, Finished

LEMMA OrdinalInit == Init => OrdinalInv
  <1> SUFFICES ASSUME Init PROVE OrdinalInv
    OBVIOUS
  <1>1. /\ DOMAIN lane = {} /\ DOMAIN sinkLog = {} /\ durable = {}
        /\ 0..(receivedPageOrdinal - 1) = {}
    BY DEF Init
  <1> QED
    BY <1>1 DEF OrdinalInv, ShownOrd, QueuedOrd

-----------------------------------------------------------------------------
(* The lane implements the contract of a query                              *)

\* What QueryHandle calls told and shown.
Told == IF Seen("complete") = {} THEN "none" ELSE summary

ShownPages == {sinkLog[i].ord : i \in Seen("page")}

LEMMA ToldOnce == IInv => (~terminalSent => Told = "none") /\ (Seen("complete") # {} => summary # "none")
  BY DEF IInv, LaneInv, LogClosed, Seen, Told

LEMMA ShownPagesAre == \A n : n \in ShownPages <=> ShownOrd(n)
  BY DEF ShownPages, ShownOrd, Seen

\* Steps that call no callback of the sink and settle at most the acceptance.
LEMMA HandleQuiet ==
    ASSUME IInv, IInv', UNCHANGED <<completion, sinkLog, highestAckedPageSeq>>,
           UNCHANGED summary \/ ~terminalSent,
           UNCHANGED accepted \/ accepted = "pending"
    PROVE  [Handle!Next]_Handle!vars
  <1>1. Told' = Told /\ ShownPages' = ShownPages
    <2>1. Seen("complete")' = Seen("complete") /\ Seen("page")' = Seen("page")
      BY DEF Seen
    <2>2. ~terminalSent => Seen("complete") = {}
      BY DEF IInv, LaneInv, LogClosed, Seen
    <2> QED
      BY <2>1, <2>2 DEF Told, ShownPages
  <1>2. CASE UNCHANGED accepted
    BY <1>1, <1>2 DEF Handle!vars, Told, ShownPages
  <1>3. CASE accepted = "pending" /\ accepted' # "pending"
    <2>1. accepted' \in {"accepted", "rejected", "aborted"}
      BY <1>3 DEF IInv, TypeOK, QueryTypeOK, Acceptance
    <2> QED
      BY <1>1, <1>3, <2>1 DEF Handle!Next, Handle!SettleAccepted, Told, ShownPages
  <1> QED
    BY <1>2, <1>3

\* A callback is invoked: the next page, the one terminal, or something the
\* contract does not speak of.
LEMMA HandleStart ==
    ASSUME IInv, AckInv, OrdinalInv, StartStep
    PROVE  [Handle!Next]_Handle!vars
  <1>0. TypeOK
    BY DEF IInv
  <1>1. /\ sinkLog' = Append(sinkLog, lane[1]) /\ lane[1] \in Steps /\ 1 \in DOMAIN lane
        /\ UNCHANGED <<lane, accepted, completion, summary, highestAckedPageSeq>> /\ ~sinkBusy
    BY <1>0, StartBefore DEF StartStep, queryVars
  <1>2. /\ DOMAIN sinkLog' = 1..(Len(sinkLog) + 1) /\ DOMAIN sinkLog = 1..Len(sinkLog)
        /\ Len(sinkLog) \in Nat
        /\ \A i \in 1..Len(sinkLog) : sinkLog'[i] = sinkLog[i]
        /\ sinkLog'[Len(sinkLog) + 1] = lane[1]
    BY <1>0, <1>1, AppendElements DEF TypeOK, SinkTypeOK
  <1>3. accepted # "pending"
    <2>1. lane # <<>>
      BY DEF StartStep
    <2> QED
      BY <2>1 DEF IInv, LaneInv, PendingIsIdle
  <1>4. lane[1].kind # "accepted" => Seen("complete") = {}
    BY <1>1 DEF IInv, LaneInv, LogClosed, Seen
  <1>5. lane[1].kind # "complete" => Told' = Told
    <2>1. lane[1].kind # "complete" => Seen("complete")' = Seen("complete")
      BY <1>2 DEF Seen
    <2> QED
      BY <1>1, <2>1 DEF Told
  <1>6. \A n : n \in ShownPages' <=> n \in ShownPages \/ (lane[1].kind = "page" /\ n = lane[1].ord)
    <2>1. \A n : ShownOrd(n)' <=> ShownOrd(n) \/ (lane[1].kind = "page" /\ n = lane[1].ord)
      BY <1>0, OrdinalStart
    <2>2. \A n : n \in ShownPages' <=> ShownOrd(n)'
      BY DEF ShownPages, ShownOrd, Seen
    <2> QED
      BY <2>1, <2>2, ShownPagesAre
  <1>7. CASE lane[1].kind = "page"
    <2>1. accepted = "accepted"
      BY <1>0, <1>1, <1>3, <1>7
      DEF IInv, LaneInv, UnacceptedIsQuiet, DataKinds, TypeOK, QueryTypeOK, Acceptance
    <2>2. Told = "none" /\ Told' = "none"
      BY <1>4, <1>5, <1>7 DEF Told
    <2>3. lane[1].ord \in Nat /\ \A n \in Nat : ShownOrd(n) <=> n < lane[1].ord
      BY <1>0, <1>7, OrdinalStart
    <2>4. 0..(lane[1].ord - 1) = ShownPages
      <3>1. \A n \in ShownPages : n \in Nat
        <4>1. \A i \in DOMAIN sinkLog : sinkLog[i].ord \in Nat
          BY <1>0, OrdinalType DEF TypeOK, SinkTypeOK
        <4> QED
          BY <4>1 DEF ShownPages, Seen
      <3>2. \A n : n \in 0..(lane[1].ord - 1) <=> n \in Nat /\ n < lane[1].ord
        BY <2>3
      <3> QED
        BY <2>3, <3>1, <3>2, ShownPagesAre
    <2>5. lane[1].ord \in ShownPages' \ ShownPages
      <3>1. lane[1].ord \notin ShownPages
        BY <2>3, ShownPagesAre
      <3> QED
        BY <1>6, <1>7, <3>1
    <2>6. ShownPages' = ShownPages \cup {lane[1].ord}
      BY <1>6, <1>7
    <2>7. \E n \in ShownPages' \ ShownPages :
             n \in Nat /\ 0..(n - 1) = ShownPages /\ ShownPages' = ShownPages \cup {n}
      BY <2>3, <2>4, <2>5, <2>6
    <2>8. Handle!ShowPage
      BY <1>1, <2>1, <2>2, <2>7 DEF Handle!ShowPage, Told, ShownPages
    <2> QED
      BY <2>8 DEF Handle!Next
  <1>8. CASE lane[1].kind = "complete"
    <2>1. Told = "none"
      BY <1>4, <1>8 DEF Told
    <2>2. summary # "none"
      BY <1>1, <1>8 DEF IInv, LaneInv, CompleteHasSummary
    <2>3. completion = "pending"
      BY <1>4, <1>8, <2>2 DEF IInv, LaneInv, SettledWell, Seen
    <2>4. Told' = summary
      <3>1. Len(sinkLog) + 1 \in Seen("complete")'
        BY <1>2, <1>8 DEF Seen
      <3> QED
        BY <1>1, <3>1 DEF Told
    <2>5. ShownPages' = ShownPages
      BY <1>6, <1>8
    <2>6. Handle!TellComplete
      BY <1>1, <1>3, <2>1, <2>2, <2>3, <2>4, <2>5 DEF Handle!TellComplete, Told, ShownPages
    <2> QED
      BY <2>6 DEF Handle!Next
  <1>9. CASE lane[1].kind \notin {"page", "complete"}
    <2>1. ShownPages' = ShownPages /\ Told' = Told
      BY <1>5, <1>6, <1>9
    <2> QED
      BY <1>1, <2>1 DEF Handle!vars, Told, ShownPages
  <1> QED
    BY <1>7, <1>8, <1>9

\* A callback settled: pages it covers are acked, or the handle agrees with what
\* the sink was told, or with its failure.
LEMMA HandleSettle ==
    ASSUME IInv, AckInv, AckInv', OrdinalInv', FinishStep \/ FailStep
    PROVE  [Handle!Next]_Handle!vars
  <1>0. TypeOK /\ lane \in Seq(Steps) /\ lane # <<>> /\ Head(lane) = lane[1] /\ sinkBusy
    BY DEF IInv, LaneInv, BusyHasHead, TypeOK, LaneTypeOK, FinishStep, FailStep
  <1>1. UNCHANGED <<accepted, summary, sinkLog>> /\ accepted # "pending"
    BY <1>0 DEF FinishStep, FailStep, IInv, LaneInv, PendingIsIdle
  <1>2. Told' = Told /\ ShownPages' = ShownPages
    BY <1>1 DEF Told, ShownPages, Seen
  <1>3. ~terminalSent => completion = "pending" /\ Told = "none"
    BY ToldOnce DEF IInv, LaneInv, SettledWell
  <1>4. CASE UNCHANGED <<completion, highestAckedPageSeq>>
    BY <1>1, <1>2, <1>4 DEF Handle!vars, Told, ShownPages
  <1>5. CASE UNCHANGED completion /\ highestAckedPageSeq' # highestAckedPageSeq
    <2>1. /\ ~terminalSent /\ highestAckedPageSeq' > highestAckedPageSeq
          /\ highestAckedPageSeq' \in Nat /\ highestAckedPageSeq \in Nat \cup {-1}
      <3>1. lane[1].ord \in Nat /\ highestAckedPageSeq \in Nat \cup {-1}
        <4>1. 1 \in DOMAIN lane
          BY <1>0
        <4> QED
          BY <1>0, <4>1, OrdinalType DEF TypeOK, QueryTypeOK
      <3>2. ~terminalSent /\ lane[1].ord > highestAckedPageSeq /\ highestAckedPageSeq' = lane[1].ord
        BY <1>0, <1>5 DEF FinishStep, FailStep, AckPage
      <3> QED
        BY <3>1, <3>2
    <2>2. \A n \in 0..highestAckedPageSeq' : n \in ShownPages
      <3>1. \A n \in 0..highestAckedPageSeq' : n \in durable'
        BY DEF AckInv, AckedIsDurable
      <3>2. \A n \in durable' : ShownOrd(n)'
        BY DEF OrdinalInv
      <3>3. \A n : ShownOrd(n)' <=> ShownOrd(n)
        BY <1>1 DEF ShownOrd
      <3> QED
        BY <3>1, <3>2, <3>3, ShownPagesAre
    <2>a. ASSUME NEW low \in Nat \cup {-1}, NEW high \in Nat, high > low
          PROVE  /\ high + 1 > low + 1
                 /\ \A n \in (low + 1)..((high + 1) - 1) : n \in 0..high
      BY <2>a
    <2>3. \A n \in (highestAckedPageSeq + 1)..((highestAckedPageSeq' + 1) - 1) : n \in ShownPages
      BY <2>1, <2>2, <2>a
    <2>4. highestAckedPageSeq' + 1 > highestAckedPageSeq + 1
      BY <2>1, <2>a
    <2>5. Handle!AckPages
      BY <1>1, <1>2, <1>3, <1>5, <2>1, <2>3, <2>4 DEF Handle!AckPages, Told, ShownPages
    <2> QED
      BY <2>5 DEF Handle!Next
  <1>6. CASE completion' # completion
    <2>1. UNCHANGED highestAckedPageSeq
      BY <1>0, <1>6 DEF FinishStep, FailStep, AckPage
    <2>2. completion = "pending"
      BY <1>6 DEF FinishStep, FailStep, ResolveCompletion
    <2>3. completion' = IF Told = "none" THEN "sinkError" ELSE Told
      <3>1. CASE lane[1].kind = "complete"
        <4>1. completion' = summary
          BY <1>0, <1>6, <3>1 DEF FinishStep, FailStep, ResolveCompletion
        <4>2. Seen("complete") # {}
          <5>1. sinkLog # <<>> /\ sinkLog[Len(sinkLog)] = lane[1] /\ sinkLog \in Seq(Steps)
            BY <1>0 DEF IInv, LaneInv, HeadLogged, TypeOK, SinkTypeOK
          <5>2. Len(sinkLog) \in DOMAIN sinkLog
            BY <5>1
          <5> QED
            BY <3>1, <5>1, <5>2 DEF Seen
        <4> QED
          BY <4>1, <4>2, ToldOnce DEF Told
      <3>2. CASE lane[1].kind # "complete"
        <4>1. ~terminalSent /\ completion' = "sinkError"
          BY <1>0, <1>6, <3>2 DEF FinishStep, FailStep, ResolveCompletion
        <4> QED
          BY <1>3, <4>1
      <3> QED
        BY <3>1, <3>2
    <2>4. Handle!SettleCompletion
      BY <1>1, <1>2, <2>1, <2>2, <2>3 DEF Handle!SettleCompletion, Told, ShownPages
    <2> QED
      BY <2>4 DEF Handle!Next
  <1> QED
    BY <1>4, <1>5, <1>6

LEMMA HandleStep ==
    IInv /\ IInv' /\ AckInv /\ AckInv' /\ OrdinalInv /\ OrdinalInv' /\ [Next]_vars
        => [Handle!Next]_Handle!vars
  <1> SUFFICES ASSUME IInv, IInv', AckInv, AckInv', OrdinalInv, OrdinalInv', [Next]_vars
               PROVE  [Handle!Next]_Handle!vars
    OBVIOUS
  <1> USE DEF queryVars, laneVars, controlVars, routeVars, sessionVars, serviceVars, sinkVars
  <1>1. CASE StartStep
    BY <1>1, HandleStart
  <1>2. CASE FinishStep \/ FailStep
    BY <1>2, HandleSettle
  <1>3. ASSUME UNCHANGED <<completion, sinkLog, highestAckedPageSeq>>,
               UNCHANGED summary \/ ~terminalSent, UNCHANGED accepted \/ accepted = "pending"
        PROVE  [Handle!Next]_Handle!vars
    BY <1>3, HandleQuiet
  <1>4. ASSUME NEW m, OnWire(m), UNCHANGED sinkLog PROVE [Handle!Next]_Handle!vars
    <2>1. UNCHANGED <<completion, highestAckedPageSeq, accepted>>
      BY <1>4 DEF OnWire
    <2>2. UNCHANGED summary \/ ~terminalSent
      BY <1>4
      DEF OnWire, DropAfterTerminal, OnWireResultSet, OnWireRows, OnWireMessage, OnWireComplete,
          FinishTerminal
    <2> QED
      BY <1>3, <1>4, <2>1, <2>2
  <1>5. CASE ReceiveNotification
    <2>1. CASE OnWire(Head(wire))
      BY <1>4, <1>5, <2>1 DEF ReceiveNotification
    <2>2. CASE UNCHANGED queryVars
      BY <1>3, <1>5, <2>2 DEF ReceiveNotification
    <2> QED
      BY <1>5, <2>1, <2>2 DEF ReceiveNotification
  <1>6. CASE draining /\ Register
    BY <1>3, <1>4, <1>6 DEF Register, DrainOrphan, FinishRegister
  <1>7. CASE ReceiveAccepted \/ ReceiveRejected
    <2>1. UNCHANGED <<completion, sinkLog, highestAckedPageSeq>>
      BY <1>7 DEF ReceiveAccepted, ReceiveRejected
    <2>2. UNCHANGED summary \/ ~terminalSent
      BY <1>7 DEF ReceiveAccepted, ReceiveRejected, FinishTerminal
    <2>3. UNCHANGED accepted \/ accepted = "pending"
      BY <1>7 DEF ReceiveAccepted, ReceiveRejected, SettleAccepted
    <2> QED
      BY <1>3, <2>1, <2>2, <2>3
  <1>8. CASE Cancel \/ ProceedCancel \/ SettleCancel \/ Dispose \/ ProceedDispose \/ DisposeAnswered
             \/ CloseSession
    BY <1>3, <1>8
    DEF Cancel, ProceedCancel, SettleCancel, Dispose, ProceedDispose, DisposeAnswered, CloseSession
  <1>9. CASE CancelDeadline \/ DisposeFailed \/ DrainDeadline \/ LoseSession \/ FinishClose
    <2>1. UNCHANGED <<completion, sinkLog, highestAckedPageSeq>>
      BY <1>9 DEF CancelDeadline, DisposeFailed, DrainDeadline, LoseSession, FinishClose
    <2>2. \E status \in Statuses : SynthesizeTerminal(status)
      BY <1>9 DEF CancelDeadline, DisposeFailed, DrainDeadline, LoseSession, FinishClose, Statuses
    <2>3. /\ UNCHANGED summary \/ ~terminalSent
          /\ UNCHANGED accepted \/ accepted = "pending"
      BY <2>2 DEF SynthesizeTerminal, FinishTerminal, SettleAccepted
    <2> QED
      BY <1>3, <2>1, <2>3
  <1>10. CASE Service
    <2>1. clientVars' = clientVars
      BY <1>10
      DEF Service, SvcStart, SvcReject, SvcRespond, SvcResultSet, SvcRows, SvcMessage, SvcComplete,
          SvcAbort, SvcGap, SvcDuplicate
    <2> QED
      BY <1>3, <2>1 DEF clientVars
  <1>11. CASE UNCHANGED vars
    BY <1>3, <1>11 DEF vars
  <1> QED
    BY <1>1, <1>2, <1>5, <1>6, <1>7, <1>8, <1>9, <1>10, <1>11
    DEF Next, Client, Environment, Finished

LEMMA HandleInit == Init => Handle!Init
  <1> SUFFICES ASSUME Init PROVE Handle!Init
    OBVIOUS
  <1>1. /\ accepted = "pending" /\ completion = "pending" /\ DOMAIN sinkLog = {}
        /\ highestAckedPageSeq + 1 = 0
    BY DEF Init
  <1>2. Seen("complete") = {} /\ {sinkLog[i].ord : i \in Seen("page")} = {}
    BY <1>1 DEF Seen
  <1> QED
    BY <1>1, <1>2 DEF Handle!Init

\* The lane implements the contract of api.ts whatever the service, the network
\* and the feature do: acceptance and completion settle once, pages are shown in
\* sequence, acked only after they were, and the handle agrees with the sink.
THEOREM ImplementsHandleHolds == Spec => ImplementsHandle
  <1>1. IInv /\ AckInv /\ OrdinalInv /\ [Next]_vars => OrdinalInv'
    BY OrdinalStep
  <1>2. IInv /\ AckInv /\ [Next]_vars => AckInv'
    BY AckInductive
  <1>3. IInv /\ IInv' /\ AckInv /\ AckInv' /\ OrdinalInv /\ OrdinalInv' /\ [Next]_vars
            => [Handle!Next]_Handle!vars
    BY HandleStep
  <1> QED
    BY <1>1, <1>2, <1>3, AckInit, OrdinalInit, HandleInit, Invariance, PTL
    DEF Spec, ImplementsHandle, Handle!Spec

-----------------------------------------------------------------------------
(* A success is the whole result                                            *)

\* A page is dropped because the orphan buffer is full (the run
\* Sts2QueryTruncated shows what becomes of a success then).
DropsPage ==
    /\ wire # <<>>
    /\ Head(wire).kind = "rows"
    /\ wire' = Tail(wire)
    /\ route = "unknown"
    /\ orphans' = orphans

\* Pages among messages.
RowsOf(s) == {i \in DOMAIN s : s[i].kind = "rows"}

Rows(s) == Cardinality(RowsOf(s))

\* The completion is the last the service streams.
EndIsLast(s, status) ==
    \A i \in DOMAIN s : s[i].kind = "complete" =>
        /\ status = "ended"
        /\ \A j \in RowsOf(s) : j < i

StreamEnds ==
    /\ EndIsLast(wire, svc.status)
    /\ EndIsLast(orphans, svc.status)
    /\ (\E i \in DOMAIN orphans : orphans[i].kind = "complete") => RowsOf(wire) = {}
    /\ \A i \in DOMAIN wire : wire[i].kind = "response" /\ wire[i].tag = "error" => svc.status = "rejected"

\* The lane is gone only when the query is terminal, and hears nothing from the
\* pipe before it has heard what was buffered.
RouteInv ==
    /\ route = "retired" => terminalSent
    /\ route = "active" /\ ~draining => orphans = <<>>

\* Until the terminal each page sent was received or is on its way.
AllCounted == ~terminalSent => svc.sent = receivedPageOrdinal + Rows(orphans) + Rows(wire)

SuccessIsWhole ==
    summary = "succeeded" =>
        svc.status = "ended" /\ svc.sent = receivedPageOrdinal /\ ~errorSeen

\* Shown pages stand in the log in the order of their ordinals.
LogOrdinals ==
    \A i, j \in Seen("page") : i < j => sinkLog[i].ord < sinkLog[j].ord

WholeInv == StreamEnds /\ RouteInv /\ AllCounted /\ SuccessIsWhole /\ LogOrdinals

\* Messages are counted one by one.
LEMMA RowsFinite ==
    ASSUME NEW s \in Seq(Messages)
    PROVE  /\ IsFiniteSet(RowsOf(s)) /\ Rows(s) \in Nat
           /\ RowsOf(s) = {} => Rows(s) = 0
  <1>1. DOMAIN s = 1..Len(s) /\ Len(s) \in Nat
    OBVIOUS
  <1>2. IsFiniteSet(1..Len(s))
    BY <1>1, FS_Interval
  <1>3. IsFiniteSet(RowsOf(s))
    BY <1>1, <1>2, FS_Subset DEF RowsOf
  <1> QED
    BY <1>3, FS_CardinalityType, FS_EmptySet DEF Rows

LEMMA RowsAppend ==
    ASSUME NEW s \in Seq(Messages), NEW m \in Messages
    PROVE  Rows(Append(s, m)) = IF m.kind = "rows" THEN Rows(s) + 1 ELSE Rows(s)
  <1>1. /\ DOMAIN Append(s, m) = 1..(Len(s) + 1) /\ DOMAIN s = 1..Len(s) /\ Len(s) \in Nat
        /\ \A i \in 1..Len(s) : Append(s, m)[i] = s[i]
        /\ Append(s, m)[Len(s) + 1] = m
    BY AppendElements
  <1>2. IsFiniteSet(RowsOf(s)) /\ Len(s) + 1 \notin RowsOf(s)
    <2>1. Len(s) + 1 \notin RowsOf(s)
      BY <1>1 DEF RowsOf
    <2> QED
      BY <2>1, RowsFinite
  <1>3. CASE m.kind = "rows"
    <2>1. RowsOf(Append(s, m)) = RowsOf(s) \cup {Len(s) + 1}
      BY <1>1, <1>3 DEF RowsOf
    <2> QED
      BY <1>2, <1>3, <2>1, FS_AddElement DEF Rows
  <1>4. CASE m.kind # "rows"
    <2>1. RowsOf(Append(s, m)) = RowsOf(s)
      BY <1>1, <1>4 DEF RowsOf
    <2> QED
      BY <1>4, <2>1 DEF Rows
  <1> QED
    BY <1>3, <1>4

LEMMA RowsTail ==
    ASSUME NEW s \in Seq(Messages), s # <<>>
    PROVE  /\ Rows(s) = IF Head(s).kind = "rows" THEN Rows(Tail(s)) + 1 ELSE Rows(Tail(s))
           /\ Rows(Tail(s)) \in Nat
           /\ RowsOf(s) = {} => RowsOf(Tail(s)) = {}
  <1>1. /\ Len(s) \in Nat \ {0} /\ DOMAIN s = 1..Len(s) /\ DOMAIN Tail(s) = 1..(Len(s) - 1)
        /\ \A i \in 1..(Len(s) - 1) : Tail(s)[i] = s[i + 1]
        /\ Head(s) = s[1] /\ Tail(s) \in Seq(Messages)
    BY TailElements, SeqType
  <1>2. IsFiniteSet(RowsOf(s)) /\ IsFiniteSet(RowsOf(Tail(s))) /\ Rows(s) \in Nat /\ Rows(Tail(s)) \in Nat
    BY <1>1, RowsFinite
  <1> DEFINE rest == RowsOf(s) \ {1}
             shift == [i \in RowsOf(Tail(s)) |-> i + 1]
  <1>3. /\ \A i \in RowsOf(Tail(s)) : i \in Nat /\ i + 1 \in rest
        /\ \A k \in rest : k - 1 \in RowsOf(Tail(s)) /\ k = (k - 1) + 1
    BY <1>1 DEF RowsOf
  <1>4. Cardinality(rest) = Rows(Tail(s))
    <2>1. shift \in Injection(RowsOf(Tail(s)), rest)
      <3>1. shift \in [RowsOf(Tail(s)) -> rest]
        BY <1>3
      <3>2. \A i, j \in RowsOf(Tail(s)) : shift[i] = shift[j] => i = j
        BY <1>3
      <3> QED
        BY <3>1, <3>2 DEF Injection, IsInjective
    <2>2. shift \in Surjection(RowsOf(Tail(s)), rest)
      <3>1. \A k \in rest : \E i \in RowsOf(Tail(s)) : shift[i] = k
        BY <1>3
      <3>2. shift \in [RowsOf(Tail(s)) -> rest]
        BY <1>3
      <3> QED
        BY <3>1, <3>2 DEF Surjection
    <2>3. IsFiniteSet(rest)
      BY <1>2, FS_RemoveElement
    <2> QED
      BY <2>1, <2>2, <2>3, FS_Injection DEF Rows
  <1>5. CASE Head(s).kind = "rows"
    <2>1. 1 \in RowsOf(s)
      BY <1>1, <1>5 DEF RowsOf
    <2>2. Cardinality(rest) = Rows(s) - 1
      BY <1>2, <2>1, FS_RemoveElement DEF Rows
    <2> QED
      BY <1>2, <1>3, <1>4, <1>5, <2>1, <2>2
  <1>6. CASE Head(s).kind # "rows"
    <2>1. rest = RowsOf(s)
      BY <1>1, <1>6 DEF RowsOf
    <2> QED
      BY <1>2, <1>3, <1>4, <1>6, <2>1 DEF Rows
  <1> QED
    BY <1>5, <1>6

\* Nothing of the stream stands behind the completion.
LEMMA EndTake ==
    ASSUME NEW s \in Seq(Messages), s # <<>>, NEW status, EndIsLast(s, status)
    PROVE  /\ EndIsLast(Tail(s), status)
           /\ Head(s).kind = "complete" => status = "ended" /\ RowsOf(s) = {}
           /\ \A i \in DOMAIN Tail(s) : \E k \in DOMAIN s : Tail(s)[i] = s[k]
  <1>1. /\ Len(s) \in Nat \ {0} /\ DOMAIN s = 1..Len(s) /\ DOMAIN Tail(s) = 1..(Len(s) - 1)
        /\ \A i \in 1..(Len(s) - 1) : Tail(s)[i] = s[i + 1]
        /\ Head(s) = s[1]
    BY TailElements
  <1>2. ASSUME NEW i \in DOMAIN Tail(s), Tail(s)[i].kind = "complete"
        PROVE  status = "ended" /\ \A j \in RowsOf(Tail(s)) : j < i
    <2>1. i + 1 \in DOMAIN s /\ s[i + 1].kind = "complete"
      BY <1>1, <1>2
    <2>2. status = "ended" /\ \A j \in RowsOf(s) : j < i + 1
      BY <2>1 DEF EndIsLast
    <2>3. \A j \in RowsOf(Tail(s)) : j + 1 \in RowsOf(s) /\ j \in Nat
      BY <1>1 DEF RowsOf
    <2>4. i \in Nat
      BY <1>1
    <2> QED
      BY <2>2, <2>3, <2>4
  <1>3. ASSUME Head(s).kind = "complete" PROVE status = "ended" /\ RowsOf(s) = {}
    <2>1. 1 \in DOMAIN s /\ s[1].kind = "complete"
      BY <1>1, <1>3
    <2>2. status = "ended" /\ \A j \in RowsOf(s) : j < 1
      BY <2>1 DEF EndIsLast
    <2>3. \A j \in RowsOf(s) : j >= 1
      BY <1>1 DEF RowsOf
    <2>4. \A j \in RowsOf(s) : j \in Nat
      BY <1>1 DEF RowsOf
    <2> QED
      BY <2>2, <2>3, <2>4
  <1>4. \A i \in DOMAIN Tail(s) : \E k \in DOMAIN s : Tail(s)[i] = s[k]
    <2>1. \A i \in DOMAIN Tail(s) : i + 1 \in DOMAIN s /\ Tail(s)[i] = s[i + 1]
      BY <1>1
    <2> QED
      BY <2>1
  <1> QED
    BY <1>2, <1>3, <1>4 DEF EndIsLast

LEMMA EndAdd ==
    ASSUME NEW s \in Seq(Messages), NEW m \in Messages, NEW status, EndIsLast(s, status),
           m.kind = "rows" => \A i \in DOMAIN s : s[i].kind # "complete",
           m.kind = "complete" => status = "ended"
    PROVE  EndIsLast(Append(s, m), status)
  <1>1. /\ DOMAIN Append(s, m) = 1..(Len(s) + 1) /\ DOMAIN s = 1..Len(s) /\ Len(s) \in Nat
        /\ \A i \in 1..Len(s) : Append(s, m)[i] = s[i]
        /\ Append(s, m)[Len(s) + 1] = m
    BY AppendElements
  <1> SUFFICES ASSUME NEW i \in DOMAIN Append(s, m), Append(s, m)[i].kind = "complete"
               PROVE  status = "ended" /\ \A j \in RowsOf(Append(s, m)) : j < i
    BY DEF EndIsLast
  <1>2. CASE i \in DOMAIN s
    <2>1. s[i].kind = "complete" /\ m.kind # "rows"
      BY <1>1, <1>2
    <2>2. RowsOf(Append(s, m)) = RowsOf(s)
      BY <1>1, <2>1 DEF RowsOf
    <2> QED
      BY <1>2, <2>1, <2>2 DEF EndIsLast
  <1>3. CASE i = Len(s) + 1
    <2>1. m.kind = "complete"
      BY <1>1, <1>3
    <2>2. \A j \in RowsOf(Append(s, m)) : j < i
      BY <1>1, <1>3, <2>1 DEF RowsOf
    <2> QED
      BY <2>1, <2>2
  <1> QED
    BY <1>1, <1>2, <1>3

\* What a delivery does to the counts, by what becomes of the query.
LEMMA OnWireCounts ==
    ASSUME TypeOK, NEW m \in Messages, OnWire(m)
    PROVE  \/ terminalSent /\ UNCHANGED <<terminalSent, summary, errorSeen, receivedPageOrdinal>>
           \/ /\ ~terminalSent /\ ~terminalSent' /\ UNCHANGED summary
              /\ receivedPageOrdinal' = IF m.kind = "rows" THEN receivedPageOrdinal + 1
                                                           ELSE receivedPageOrdinal
           \/ /\ ~terminalSent /\ terminalSent' /\ UNCHANGED <<errorSeen, receivedPageOrdinal>>
              /\ summary' = "succeeded" => m.kind = "complete" /\ ~errorSeen
  <1>1. CASE DropAfterTerminal
    BY <1>1 DEF DropAfterTerminal
  <1>2. CASE OnWireResultSet(m) \/ OnWireMessage(m)
    BY <1>2 DEF OnWireResultSet, OnWireMessage
  <1>3. CASE OnWireRows(m)
    BY <1>3 DEF OnWireRows, FinishTerminal
  <1>4. CASE OnWireComplete(m)
    BY <1>4 DEF OnWireComplete, FinishTerminal, CompletionOf
  <1> QED
    BY <1>1, <1>2, <1>3, <1>4 DEF OnWire

\* A delivery from s, the pipe or the buffer, while t waits behind it.
LEMMA WholeOnWire ==
    ASSUME IInv, SuccessIsWhole, NEW s \in Seq(Messages), NEW t \in Seq(Messages), s # <<>>,
           OnWire(Head(s)), UNCHANGED svc,
           ~terminalSent => svc.sent = receivedPageOrdinal + Rows(s) + Rows(t),
           EndIsLast(s, svc.status), Head(s).kind = "complete" => RowsOf(t) = {}
    PROVE  /\ ~terminalSent' => svc.sent = receivedPageOrdinal' + Rows(Tail(s)) + Rows(t)
           /\ SuccessIsWhole'
           /\ terminalSent => terminalSent'
  <1> DEFINE m == Head(s)
  <1>1. m \in Messages
    BY SeqType
  <1>2. /\ Rows(s) = IF m.kind = "rows" THEN Rows(Tail(s)) + 1 ELSE Rows(Tail(s))
        /\ Rows(s) \in Nat /\ Rows(Tail(s)) \in Nat /\ Rows(t) \in Nat
    BY RowsTail, RowsFinite
  <1>3. receivedPageOrdinal \in Nat /\ (~terminalSent => summary = "none")
    BY DEF IInv, TypeOK, QueryTypeOK, LaneInv, SettledWell
  <1>4. CASE terminalSent /\ UNCHANGED <<terminalSent, summary, errorSeen, receivedPageOrdinal>>
    BY <1>4 DEF SuccessIsWhole
  <1>5. CASE /\ ~terminalSent /\ ~terminalSent' /\ UNCHANGED summary
             /\ receivedPageOrdinal' = IF m.kind = "rows" THEN receivedPageOrdinal + 1
                                                          ELSE receivedPageOrdinal
    <2>1. svc.sent = receivedPageOrdinal' + Rows(Tail(s)) + Rows(t)
      BY <1>2, <1>3, <1>5
    <2> QED
      BY <1>3, <1>5, <2>1 DEF SuccessIsWhole
  <1>6. CASE /\ ~terminalSent /\ terminalSent' /\ UNCHANGED <<errorSeen, receivedPageOrdinal>>
             /\ summary' = "succeeded" => m.kind = "complete" /\ ~errorSeen
    <2>1. ASSUME summary' = "succeeded"
          PROVE  svc.status = "ended" /\ svc.sent = receivedPageOrdinal /\ ~errorSeen
      <3>1. m.kind = "complete" /\ ~errorSeen
        BY <1>6, <2>1
      <3>2. svc.status = "ended" /\ RowsOf(s) = {} /\ RowsOf(t) = {}
        BY <3>1, EndTake
      <3>3. Rows(s) = 0 /\ Rows(t) = 0
        BY <3>2, RowsFinite
      <3> QED
        BY <1>3, <1>6, <3>1, <3>2, <3>3
    <2> QED
      BY <1>6, <2>1 DEF SuccessIsWhole
  <1>7. \/ terminalSent /\ UNCHANGED <<terminalSent, summary, errorSeen, receivedPageOrdinal>>
        \/ /\ ~terminalSent /\ ~terminalSent' /\ UNCHANGED summary
           /\ receivedPageOrdinal' = IF m.kind = "rows" THEN receivedPageOrdinal + 1
                                                        ELSE receivedPageOrdinal
        \/ /\ ~terminalSent /\ terminalSent' /\ UNCHANGED <<errorSeen, receivedPageOrdinal>>
           /\ summary' = "succeeded" => m.kind = "complete" /\ ~errorSeen
    BY <1>1, OnWireCounts DEF IInv
  <1> QED
    BY <1>4, <1>5, <1>6, <1>7

\* The service's status goes to its end and stays there.
LEMMA EndStatus ==
    ASSUME NEW s, NEW status, NEW next, EndIsLast(s, status), status = "ended" => next = "ended"
    PROVE  EndIsLast(s, next)
  BY DEF EndIsLast

\* A message that is no page joins the pipe.
LEMMA WholeSends ==
    ASSUME TypeOK, StreamEnds, AllCounted, SuccessIsWhole, NEW m \in Messages,
           wire' = Append(wire, m), UNCHANGED clientVars, m.kind # "rows", svc'.sent = svc.sent,
           svc.status = "ended" => svc'.status = "ended",
           svc.status = "rejected" => svc'.status = "rejected",
           m.kind = "complete" => svc'.status = "ended",
           m.kind = "response" /\ m.tag = "error" => svc'.status = "rejected"
    PROVE  StreamEnds' /\ AllCounted' /\ SuccessIsWhole'
  <1> USE DEF clientVars, queryVars, routeVars
  <1>1. /\ wire \in Seq(Messages) /\ orphans \in Seq(Messages) /\ UNCHANGED orphans
        /\ UNCHANGED <<terminalSent, summary, errorSeen, receivedPageOrdinal>>
    BY DEF TypeOK, ServiceTypeOK, RouteTypeOK
  <1>2. /\ DOMAIN wire' = 1..(Len(wire) + 1) /\ DOMAIN wire = 1..Len(wire) /\ Len(wire) \in Nat
        /\ \A i \in 1..Len(wire) : wire'[i] = wire[i]
        /\ wire'[Len(wire) + 1] = m
    BY <1>1, AppendElements
  <1>3. EndIsLast(wire, svc'.status) /\ EndIsLast(orphans, svc'.status)
    BY EndStatus DEF StreamEnds
  <1>4. EndIsLast(wire', svc'.status)
    BY <1>1, <1>3, EndAdd
  <1>5. RowsOf(wire') = RowsOf(wire) /\ Rows(wire') = Rows(wire)
    <2>1. RowsOf(wire') = RowsOf(wire)
      BY <1>2 DEF RowsOf
    <2> QED
      BY <2>1 DEF Rows
  <1>6. \A i \in DOMAIN wire' : wire'[i].kind = "response" /\ wire'[i].tag = "error"
            => svc'.status = "rejected"
    <2>1. \A i \in DOMAIN wire' : i \in DOMAIN wire \/ wire'[i] = m
      BY <1>2
    <2> QED
      BY <1>2, <2>1 DEF StreamEnds
  <1>7. StreamEnds'
    BY <1>1, <1>3, <1>4, <1>5, <1>6 DEF StreamEnds
  <1>8. AllCounted'
    <2>1. Rows(wire)' = Rows(wire') /\ Rows(orphans)' = Rows(orphans)
      BY <1>1 DEF Rows, RowsOf
    <2> QED
      BY <1>1, <1>5, <2>1 DEF AllCounted
  <1>9. SuccessIsWhole'
    BY <1>1 DEF SuccessIsWhole
  <1> QED
    BY <1>7, <1>8, <1>9

\* A page joins the pipe, and is counted as sent.
LEMMA WholeSendsRows ==
    ASSUME TypeOK, StreamEnds, AllCounted, SuccessIsWhole, NEW m \in Messages,
           wire' = Append(wire, m), UNCHANGED clientVars, m.kind = "rows",
           svc.status = "running", svc'.status = "running", svc'.sent = svc.sent + 1
    PROVE  StreamEnds' /\ AllCounted' /\ SuccessIsWhole'
  <1> USE DEF clientVars, queryVars, routeVars
  <1>1. /\ wire \in Seq(Messages) /\ orphans \in Seq(Messages) /\ UNCHANGED orphans
        /\ UNCHANGED <<terminalSent, summary, errorSeen, receivedPageOrdinal>>
        /\ receivedPageOrdinal \in Nat
    BY DEF TypeOK, ServiceTypeOK, RouteTypeOK, QueryTypeOK
  <1>2. /\ DOMAIN wire' = 1..(Len(wire) + 1) /\ DOMAIN wire = 1..Len(wire) /\ Len(wire) \in Nat
        /\ \A i \in 1..Len(wire) : wire'[i] = wire[i]
        /\ wire'[Len(wire) + 1] = m
    BY <1>1, AppendElements
  <1>3. /\ \A i \in DOMAIN wire : wire[i].kind # "complete"
        /\ \A i \in DOMAIN orphans : orphans[i].kind # "complete"
    BY DEF StreamEnds, EndIsLast
  <1>4. EndIsLast(wire', svc'.status)
    BY <1>1, <1>3, EndAdd DEF StreamEnds
  <1>5. Rows(wire') = Rows(wire) + 1 /\ Rows(wire) \in Nat /\ Rows(orphans) \in Nat
    BY <1>1, RowsAppend, RowsFinite
  <1>6. \A i \in DOMAIN wire' : wire'[i].kind = "response" /\ wire'[i].tag = "error"
            => svc'.status = "rejected"
    <2>1. \A i \in DOMAIN wire' : i \in DOMAIN wire \/ wire'[i] = m
      BY <1>2
    <2> QED
      BY <1>2, <2>1 DEF StreamEnds
  <1>7. StreamEnds'
    BY <1>1, <1>3, <1>4, <1>6 DEF StreamEnds
  <1>8. AllCounted'
    <2>1. Rows(wire)' = Rows(wire') /\ Rows(orphans)' = Rows(orphans)
      BY <1>1 DEF Rows, RowsOf
    <2> QED
      BY <1>1, <1>5, <2>1 DEF AllCounted
  <1>9. SuccessIsWhole'
    BY <1>1 DEF SuccessIsWhole
  <1> QED
    BY <1>7, <1>8, <1>9

LEMMA WholeService ==
    ASSUME TypeOK, StreamEnds, AllCounted, SuccessIsWhole, Service
    PROVE  StreamEnds' /\ AllCounted' /\ SuccessIsWhole'
  <1>0. svc \in SvcType
    BY DEF TypeOK, ServiceTypeOK, SvcType
  <1>1. UNCHANGED clientVars
    BY DEF Service, SvcStart, SvcReject, SvcRespond, SvcResultSet, SvcRows, SvcMessage, SvcComplete,
           SvcAbort, SvcGap, SvcDuplicate
  <1>2. CASE SvcStart
    <2>1. /\ UNCHANGED wire /\ svc'.sent = svc.sent
          /\ svc.status = "idle" /\ svc'.status = "running"
      BY <1>0, <1>2 DEF SvcStart, SvcType
    <2>2. UNCHANGED <<orphans, terminalSent, summary, errorSeen, receivedPageOrdinal>>
      BY <1>1 DEF clientVars, queryVars, routeVars
    <2>3. EndIsLast(wire, svc'.status) /\ EndIsLast(orphans, svc'.status)
      BY <2>1, EndStatus DEF StreamEnds
    <2>4. StreamEnds'
      BY <2>1, <2>2, <2>3 DEF StreamEnds
    <2>5. AllCounted' /\ SuccessIsWhole'
      BY <2>1, <2>2 DEF AllCounted, SuccessIsWhole
    <2> QED
      BY <2>4, <2>5
  <1>3. CASE SvcReject
    <2> DEFINE m == Message("response", 0, 0, "error")
    <2>1. m \in Messages /\ m.kind = "response"
      BY MessageType DEF Message, Tags
    <2>2. /\ wire' = Append(wire, m) /\ svc.status = "idle" /\ svc'.status = "rejected"
          /\ svc'.sent = svc.sent
      BY <1>0, <1>3 DEF SvcReject, Send, SvcType
    <2> QED
      BY <1>1, <2>1, <2>2, WholeSends
  <1>4. CASE SvcRespond \/ SvcResultSet \/ SvcMessage
    <2>1. \E m \in Messages : /\ wire' = Append(wire, m) /\ m.kind \notin {"rows", "complete"}
                              /\ ~(m.kind = "response" /\ m.tag = "error")
      <3>1. 0 \in Nat /\ svc.set + 1 \in Nat
        BY SvcNumbers
      <3>2. /\ Message("response", 0, 0, "ok") \in Messages
            /\ Message("response", 0, 0, "ok").tag = "ok"
            /\ Message("set", svc.set + 1, 0, "ok") \in Messages
            /\ Message("set", svc.set + 1, 0, "ok").kind = "set"
            /\ Message("response", 0, 0, "ok").kind = "response"
            /\ \A class \in {"info", "error"} :
                  /\ Message("message", 0, 0, class) \in Messages
                  /\ Message("message", 0, 0, class).kind = "message"
        BY <3>1, MessageType DEF Message, Tags
      <3> QED
        BY <1>4, <3>2 DEF SvcRespond, SvcResultSet, SvcMessage, Send
    <2>2. svc'.sent = svc.sent /\ svc'.status = svc.status
      BY <1>0, <1>4 DEF SvcRespond, SvcResultSet, SvcMessage, SvcType
    <2> QED
      BY <1>1, <2>1, <2>2, WholeSends
  <1>5. CASE SvcComplete \/ SvcAbort \/ SvcDuplicate
    <2>1. \E m \in Messages : wire' = Append(wire, m) /\ m.kind = "complete"
      <3>1. \A tag \in Tags : /\ Message("complete", 0, 0, tag) \in Messages
                              /\ Message("complete", 0, 0, tag).kind = "complete"
        BY MessageType DEF Message
      <3> QED
        BY <1>5, <3>1 DEF SvcComplete, SvcAbort, SvcDuplicate, Send, Tags
    <2>2. /\ svc'.sent = svc.sent /\ svc'.status = "ended"
          /\ svc.status \in {"running", "ended"}
      BY <1>0, <1>5 DEF SvcComplete, SvcAbort, SvcDuplicate, SvcType
    <2> QED
      BY <1>1, <2>1, <2>2, WholeSends
  <1>6. CASE SvcRows \/ SvcGap
    <2>1. \E m \in Messages : wire' = Append(wire, m) /\ m.kind = "rows"
      <3>1. /\ svc.page \in Nat /\ svc.page + 1 \in Nat /\ 0 \in Nat
            /\ svc.set \in Nat /\ svc.set + 1 \in Nat
        BY SvcNumbers
      <3>2. \A s, q \in Nat : /\ Message("rows", s, q, "ok") \in Messages
                              /\ Message("rows", s, q, "ok").kind = "rows"
        BY MessageType DEF Message, Tags
      <3> QED
        BY <1>6, <3>1, <3>2 DEF SvcRows, SvcGap, Send
    <2>2. /\ svc'.sent = svc.sent + 1 /\ svc'.status = "running" /\ svc.status = "running"
      BY <1>0, <1>6 DEF SvcRows, SvcGap, SvcType
    <2> QED
      BY <1>1, <2>1, <2>2, WholeSendsRows
  <1> QED
    BY <1>2, <1>3, <1>4, <1>5, <1>6 DEF Service

\* A message leaves the pipe.
LEMMA StreamTake ==
    ASSUME TypeOK, StreamEnds, wire # <<>>, wire' = Tail(wire), UNCHANGED <<svc, orphans>>
    PROVE  StreamEnds'
  <1>1. wire \in Seq(Messages)
    BY DEF TypeOK, ServiceTypeOK
  <1>2. EndIsLast(wire', svc.status) /\ \A i \in DOMAIN wire' : \E k \in DOMAIN wire : wire'[i] = wire[k]
    BY <1>1, EndTake DEF StreamEnds
  <1>3. RowsOf(wire) = {} => RowsOf(wire') = {}
    BY <1>1, RowsTail
  <1> QED
    BY <1>2, <1>3 DEF StreamEnds

\* Callbacks are shown in the order they were queued in, so pages are in the
\* order of their ordinals.
LEMMA LogStart ==
    ASSUME TypeOK, AckInv, OrdinalInv, LogOrdinals, StartStep
    PROVE  LogOrdinals'
  <1>1. /\ sinkLog' = Append(sinkLog, lane[1]) /\ lane[1] \in Steps
    BY StartBefore
  <1>2. lane[1].kind = "page" => \A n \in Nat : ShownOrd(n) <=> n < lane[1].ord
    BY OrdinalStart
  <1>3. /\ DOMAIN sinkLog' = 1..(Len(sinkLog) + 1) /\ DOMAIN sinkLog = 1..Len(sinkLog)
        /\ Len(sinkLog) \in Nat
        /\ \A i \in 1..Len(sinkLog) : sinkLog'[i] = sinkLog[i]
        /\ sinkLog'[Len(sinkLog) + 1] = lane[1]
    BY <1>1, AppendElements DEF TypeOK, SinkTypeOK
  <1>4. \A i \in DOMAIN sinkLog : sinkLog[i].ord \in Nat
    BY OrdinalType DEF TypeOK, SinkTypeOK
  <1> SUFFICES ASSUME NEW i \in Seen("page")', NEW j \in Seen("page")', i < j
               PROVE  sinkLog'[i].ord < sinkLog'[j].ord
    BY DEF LogOrdinals
  <1>5. i \in 1..(Len(sinkLog) + 1) /\ j \in 1..(Len(sinkLog) + 1) /\ i \in 1..Len(sinkLog)
    BY <1>3 DEF Seen
  <1>6. i \in Seen("page") /\ sinkLog'[i] = sinkLog[i]
    BY <1>3, <1>5 DEF Seen
  <1>7. CASE j \in 1..Len(sinkLog)
    BY <1>3, <1>6, <1>7 DEF LogOrdinals, Seen
  <1>8. CASE j = Len(sinkLog) + 1
    <2>1. lane[1].kind = "page" /\ ShownOrd(sinkLog[i].ord)
      BY <1>3, <1>6, <1>8 DEF Seen, ShownOrd
    <2> QED
      BY <1>2, <1>3, <1>4, <1>5, <1>6, <1>8, <2>1
  <1> QED
    BY <1>3, <1>5, <1>7, <1>8

LEMMA WholeStep ==
    IInv /\ AckInv /\ OrdinalInv /\ WholeInv /\ [Next]_vars /\ [~DropsPage]_vars => WholeInv'
  <1> SUFFICES ASSUME IInv, AckInv, OrdinalInv, WholeInv, [Next]_vars, [~DropsPage]_vars PROVE WholeInv'
    OBVIOUS
  <1> USE DEF queryVars, laneVars, controlVars, routeVars, sessionVars, serviceVars, sinkVars
  <1>0. /\ TypeOK /\ StreamEnds /\ RouteInv /\ AllCounted /\ SuccessIsWhole /\ LogOrdinals
        /\ CompleteHasSummary /\ BusyHasHead
        /\ wire \in Seq(Messages) /\ orphans \in Seq(Messages)
    BY DEF IInv, LaneInv, WholeInv, TypeOK, ServiceTypeOK, RouteTypeOK
  <1>a. UNCHANGED sinkLog => LogOrdinals'
    BY <1>0 DEF LogOrdinals, Seen
  <1>b. UNCHANGED <<wire, svc, orphans>> => StreamEnds'
    BY <1>0 DEF StreamEnds
  <1>c. ASSUME UNCHANGED <<wire, svc, orphans, route, draining, terminalSent, summary, errorSeen,
                           receivedPageOrdinal, sinkLog>>
        PROVE  WholeInv'
    BY <1>0, <1>a, <1>b, <1>c DEF WholeInv, RouteInv, AllCounted, SuccessIsWhole
  <1>d. ASSUME NEW status, status # "succeeded", FinishTerminal(status),
               UNCHANGED <<wire, svc, orphans, route, draining, sinkLog>>
        PROVE  WholeInv'
    BY <1>0, <1>a, <1>b, <1>d DEF WholeInv, RouteInv, AllCounted, SuccessIsWhole, FinishTerminal
  <1>1. CASE ReceiveNotification /\ ~draining
    <2>0. /\ wire # <<>> /\ wire' = Tail(wire) /\ UNCHANGED <<route, draining, svc, sinkLog>>
          /\ Head(wire) \in Messages /\ Head(wire) = wire[1] /\ Head(wire).kind # "response"
      BY <1>0, <1>1, SeqType DEF ReceiveNotification
    <2>1. CASE route = "active" /\ OnWire(Head(wire)) /\ UNCHANGED orphans
      <3>1. orphans = <<>> /\ Rows(orphans) = 0 /\ RowsOf(orphans) = {}
        <4>1. orphans = <<>>
          BY <1>0, <1>1, <2>1 DEF RouteInv
        <4>2. RowsOf(orphans) = {}
          BY <4>1 DEF RowsOf
        <4> QED
          BY <1>0, <4>1, <4>2, RowsFinite
      <3>2. ~terminalSent => svc.sent = receivedPageOrdinal + Rows(wire) + Rows(orphans)
        <4>1. Rows(wire) \in Nat /\ receivedPageOrdinal \in Nat
          BY <1>0, RowsFinite DEF TypeOK, QueryTypeOK
        <4> QED
          BY <1>0, <3>1, <4>1 DEF AllCounted
      <3>3. /\ ~terminalSent' => svc.sent = receivedPageOrdinal' + Rows(Tail(wire)) + Rows(orphans)
            /\ SuccessIsWhole'
            /\ terminalSent => terminalSent'
        BY <1>0, <2>0, <2>1, <3>1, <3>2, WholeOnWire DEF StreamEnds
      <3>4. AllCounted'
        <4>1. Rows(wire)' = Rows(Tail(wire)) /\ Rows(orphans)' = Rows(orphans)
          BY <2>0, <2>1 DEF Rows, RowsOf
        <4>2. Rows(Tail(wire)) \in Nat /\ receivedPageOrdinal' \in Nat
          BY <1>0, <2>0, RowsTail, TypeStep DEF IInv, LaneInv, TypeInv, TypeOK, QueryTypeOK
        <4> QED
          BY <2>0, <3>1, <3>3, <4>1, <4>2 DEF AllCounted
      <3>5. StreamEnds'
        BY <1>0, <2>0, <2>1, StreamTake
      <3> QED
        BY <1>0, <1>a, <2>0, <2>1, <3>3, <3>4, <3>5 DEF WholeInv, RouteInv
    <2>2. CASE route = "retired" /\ UNCHANGED <<queryVars, laneVars, controlVars, orphans>>
      <3>1. terminalSent
        BY <1>0, <2>2 DEF RouteInv
      <3>2. StreamEnds'
        BY <1>0, <2>0, <2>2, StreamTake
      <3> QED
        BY <1>0, <1>a, <2>0, <2>2, <3>1, <3>2 DEF WholeInv, RouteInv, AllCounted, SuccessIsWhole
    <2>3. CASE /\ route = "unknown"
               /\ orphans' = IF Len(orphans) < OrphanCap THEN Append(orphans, Head(wire))
                                                         ELSE orphans
               /\ UNCHANGED <<queryVars, laneVars, controlVars>>
      <3>0. /\ UNCHANGED <<terminalSent, summary, errorSeen, receivedPageOrdinal>>
            /\ receivedPageOrdinal \in Nat
        BY <1>0, <2>3 DEF TypeOK, QueryTypeOK
      <3>1. CASE orphans' = Append(orphans, Head(wire))
        <4>1. /\ EndIsLast(Tail(wire), svc.status)
              /\ Head(wire).kind = "complete" => svc.status = "ended" /\ RowsOf(wire) = {}
              /\ \A i \in DOMAIN Tail(wire) : \E k \in DOMAIN wire : Tail(wire)[i] = wire[k]
          BY <1>0, <2>0, EndTake DEF StreamEnds
        <4>2. RowsOf(wire) = {} => RowsOf(Tail(wire)) = {}
          BY <1>0, <2>0, RowsTail
        <4>3. Head(wire).kind = "rows" => RowsOf(wire) # {}
          <5>1. 1 \in DOMAIN wire
            BY <1>0, <2>0
          <5> QED
            BY <2>0, <5>1 DEF RowsOf
        <4>4. /\ DOMAIN orphans' = 1..(Len(orphans) + 1) /\ DOMAIN orphans = 1..Len(orphans)
              /\ Len(orphans) \in Nat
              /\ \A i \in 1..Len(orphans) : orphans'[i] = orphans[i]
              /\ orphans'[Len(orphans) + 1] = Head(wire)
          BY <1>0, <2>0, <3>1, AppendElements
        <4>5. EndIsLast(orphans', svc.status)
          BY <1>0, <2>0, <3>1, <4>1, <4>3, EndAdd DEF StreamEnds
        <4>6. (\E i \in DOMAIN orphans' : orphans'[i].kind = "complete") => RowsOf(wire') = {}
          <5>1. \A i \in DOMAIN orphans' : i \in DOMAIN orphans \/ orphans'[i] = Head(wire)
            BY <4>4
          <5> QED
            BY <1>0, <2>0, <4>1, <4>2, <4>4, <5>1 DEF StreamEnds
        <4>7. StreamEnds'
          BY <1>0, <2>0, <4>1, <4>5, <4>6 DEF StreamEnds
        <4>8. AllCounted'
          <5>1. /\ Rows(wire)' = Rows(Tail(wire))
                /\ Rows(orphans)' = Rows(Append(orphans, Head(wire)))
            BY <2>0, <3>1 DEF Rows, RowsOf
          <5>2. /\ Rows(wire) = IF Head(wire).kind = "rows" THEN Rows(Tail(wire)) + 1
                                                            ELSE Rows(Tail(wire))
                /\ Rows(Tail(wire)) \in Nat /\ Rows(orphans) \in Nat
                /\ Rows(Append(orphans, Head(wire))) =
                      IF Head(wire).kind = "rows" THEN Rows(orphans) + 1 ELSE Rows(orphans)
            BY <1>0, <2>0, RowsTail, RowsAppend, RowsFinite
          <5> QED
            BY <1>0, <2>0, <3>0, <5>1, <5>2 DEF AllCounted
        <4> QED
          BY <1>0, <1>a, <2>0, <2>3, <4>7, <4>8 DEF WholeInv, RouteInv, SuccessIsWhole
      <3>2. CASE UNCHANGED orphans /\ Head(wire).kind # "rows"
        <4>1. StreamEnds'
          BY <1>0, <2>0, <3>2, StreamTake
        <4>2. AllCounted'
          <5>1. Rows(wire)' = Rows(Tail(wire)) /\ Rows(orphans)' = Rows(orphans)
            BY <2>0, <3>2 DEF Rows, RowsOf
          <5>2. Rows(Tail(wire)) = Rows(wire)
            BY <1>0, <2>0, <3>2, RowsTail
          <5> QED
            BY <1>0, <2>0, <3>0, <5>1, <5>2 DEF AllCounted
        <4> QED
          BY <1>0, <1>a, <2>0, <2>3, <3>0, <4>1, <4>2 DEF WholeInv, RouteInv, SuccessIsWhole
      <3>3. orphans' = orphans => Head(wire).kind # "rows"
        <4>1. wire' # wire
          BY <1>0, <2>0
        <4>2. ~DropsPage
          BY <4>1 DEF vars
        <4> QED
          BY <2>0, <2>3, <4>2 DEF DropsPage
      <3> QED
        BY <2>3, <3>1, <3>2, <3>3
    <2> QED
      BY <1>1, <2>1, <2>2, <2>3 DEF ReceiveNotification
  <1>2. CASE draining /\ DrainOrphan
    <2>0. /\ orphans # <<>> /\ OnWire(Head(orphans)) /\ orphans' = Tail(orphans)
          /\ UNCHANGED <<route, draining, wire, svc, sinkLog>>
      BY <1>2 DEF DrainOrphan
    <2>1. /\ EndIsLast(Tail(orphans), svc.status)
          /\ \A i \in DOMAIN Tail(orphans) : \E k \in DOMAIN orphans : Tail(orphans)[i] = orphans[k]
          /\ Head(orphans).kind = "complete" => RowsOf(wire) = {}
      <3>1. 1 \in DOMAIN orphans /\ Head(orphans) = orphans[1]
        BY <1>0, <2>0
      <3> QED
        BY <1>0, <2>0, <3>1, EndTake DEF StreamEnds
    <2>2. /\ ~terminalSent' => svc.sent = receivedPageOrdinal' + Rows(Tail(orphans)) + Rows(wire)
          /\ SuccessIsWhole'
          /\ terminalSent => terminalSent'
      BY <1>0, <2>0, <2>1, WholeOnWire DEF StreamEnds, AllCounted
    <2>3. StreamEnds'
      BY <1>0, <2>0, <2>1 DEF StreamEnds
    <2>4. AllCounted'
      <3>1. Rows(wire)' = Rows(wire) /\ Rows(orphans)' = Rows(Tail(orphans))
        BY <2>0 DEF Rows, RowsOf
      <3> QED
        BY <2>0, <2>2, <3>1 DEF AllCounted
    <2> QED
      BY <1>0, <1>2, <1>a, <2>0, <2>2, <2>3, <2>4 DEF WholeInv, RouteInv
  <1>3. CASE draining /\ FinishRegister
    <2>1. /\ orphans = <<>>
          /\ UNCHANGED <<wire, svc, orphans, route, terminalSent, summary, errorSeen,
                         receivedPageOrdinal, sinkLog>>
      BY <1>3 DEF FinishRegister
    <2> QED
      BY <1>0, <1>a, <1>b, <2>1 DEF WholeInv, RouteInv, AllCounted, SuccessIsWhole
  <1>4. CASE ReceiveAccepted
    <2>1. /\ wire # <<>> /\ Head(wire).kind = "response" /\ wire' = Tail(wire)
          /\ route' = "active" /\ draining' = TRUE
          /\ UNCHANGED <<svc, orphans, terminalSent, summary, errorSeen, receivedPageOrdinal, sinkLog>>
      BY <1>4 DEF ReceiveAccepted
    <2>2. StreamEnds'
      BY <1>0, <2>1, StreamTake
    <2>3. AllCounted'
      <3>1. Rows(wire)' = Rows(Tail(wire)) /\ Rows(orphans)' = Rows(orphans)
        BY <2>1 DEF Rows, RowsOf
      <3>2. Rows(Tail(wire)) = Rows(wire)
        BY <1>0, <2>1, RowsTail
      <3> QED
        BY <1>0, <2>1, <3>1, <3>2 DEF AllCounted
    <2> QED
      BY <1>0, <1>a, <2>1, <2>2, <2>3 DEF WholeInv, RouteInv, SuccessIsWhole
  <1>5. CASE ReceiveRejected
    <2>1. /\ wire # <<>> /\ Head(wire).kind = "response" /\ Head(wire).tag = "error"
          /\ wire' = Tail(wire) /\ UNCHANGED <<svc, orphans, route, draining, sinkLog>>
          /\ \/ terminalSent /\ UNCHANGED <<terminalSent, summary>>
             \/ terminalSent' /\ summary' = "failed"
      BY <1>5 DEF ReceiveRejected, FinishTerminal
    <2>2. StreamEnds'
      BY <1>0, <2>1, StreamTake
    <2>3. svc.status = "rejected"
      <3>1. 1 \in DOMAIN wire /\ Head(wire) = wire[1]
        BY <1>0, <2>1
      <3> QED
        BY <1>0, <2>1, <3>1 DEF StreamEnds
    <2>4. SuccessIsWhole' /\ terminalSent'
      BY <1>0, <2>1, <2>3 DEF SuccessIsWhole
    <2> QED
      BY <1>0, <1>a, <2>1, <2>2, <2>4 DEF WholeInv, RouteInv, AllCounted
  <1>6. CASE StartStep
    <2>1. UNCHANGED <<wire, svc, orphans, route, draining, terminalSent, summary, errorSeen,
                      receivedPageOrdinal>>
      BY <1>6 DEF StartStep
    <2>2. LogOrdinals'
      BY <1>0, <1>6, LogStart
    <2> QED
      BY <1>0, <1>b, <2>1, <2>2 DEF WholeInv, RouteInv, AllCounted, SuccessIsWhole
  <1>7. CASE FinishStep \/ FailStep
    <2>0. UNCHANGED <<wire, svc, draining, summary, errorSeen, receivedPageOrdinal, sinkLog>>
      BY <1>7 DEF FinishStep, FailStep
    <2>1. \/ UNCHANGED <<route, orphans, terminalSent>>
          \/ UnregisterQuery /\ terminalSent'
      <3>1. lane \in Seq(Steps) /\ lane # <<>> /\ Head(lane) = lane[1] /\ 1 \in DOMAIN lane
        BY <1>0, <1>7 DEF FinishStep, FailStep, TypeOK, LaneTypeOK, BusyHasHead
      <3>2. Head(lane).kind = "complete" => terminalSent
        BY <1>0, <3>1 DEF CompleteHasSummary
      <3> QED
        BY <1>7, <3>2 DEF FinishStep, FailStep
    <2>2. CASE UNCHANGED <<route, orphans, terminalSent>>
      BY <1>c, <2>0, <2>2
    <2>3. CASE UnregisterQuery /\ terminalSent'
      <3>1. orphans' = orphans \/ orphans' = <<>>
        BY <2>3 DEF UnregisterQuery
      <3>2. EndIsLast(<<>>, svc.status) /\ ~(\E i \in DOMAIN <<>> : <<>>[i].kind = "complete")
        BY DEF EndIsLast
      <3>3. StreamEnds'
        BY <1>0, <2>0, <3>1, <3>2 DEF StreamEnds
      <3>4. RouteInv'
        BY <1>0, <2>0, <2>3, <3>1 DEF RouteInv, UnregisterQuery
      <3> QED
        BY <1>0, <1>a, <2>0, <2>3, <3>3, <3>4 DEF WholeInv, AllCounted, SuccessIsWhole
    <2> QED
      BY <2>1, <2>2, <2>3
  <1>8. CASE Cancel \/ ProceedCancel \/ SettleCancel \/ Dispose \/ ProceedDispose \/ DisposeAnswered
             \/ CloseSession
    BY <1>8, <1>c
    DEF Cancel, ProceedCancel, SettleCancel, Dispose, ProceedDispose, DisposeAnswered, CloseSession
  <1>9. CASE CancelDeadline \/ DisposeFailed \/ DrainDeadline \/ LoseSession \/ FinishClose
    <2>1. UNCHANGED <<wire, svc, orphans, route, draining, errorSeen, receivedPageOrdinal, sinkLog>>
      BY <1>9 DEF CancelDeadline, DisposeFailed, DrainDeadline, LoseSession, FinishClose
    <2>2. \E status \in {"canceled", "disposed", "connectionLost"} : SynthesizeTerminal(status)
      BY <1>9 DEF CancelDeadline, DisposeFailed, DrainDeadline, LoseSession, FinishClose
    <2> QED
      BY <1>c, <1>d, <2>1, <2>2 DEF SynthesizeTerminal
  <1>10. CASE Service
    <2>1. clientVars' = clientVars
      BY <1>10
      DEF Service, SvcStart, SvcReject, SvcRespond, SvcResultSet, SvcRows, SvcMessage, SvcComplete,
          SvcAbort, SvcGap, SvcDuplicate
    <2>2. StreamEnds' /\ AllCounted' /\ SuccessIsWhole'
      BY <1>0, <1>10, WholeService
    <2> QED
      BY <1>0, <1>a, <2>1, <2>2 DEF WholeInv, RouteInv, clientVars
  <1>11. CASE UNCHANGED vars
    BY <1>c, <1>11 DEF vars
  <1> QED
    BY <1>1, <1>2, <1>3, <1>4, <1>5, <1>6, <1>7, <1>8, <1>9, <1>10, <1>11
    DEF Next, Register, Client, Environment, Finished

LEMMA WholeInit == Init => WholeInv
  <1> SUFFICES ASSUME Init PROVE WholeInv
    OBVIOUS
  <1>1. /\ wire = <<>> /\ orphans = <<>> /\ sinkLog = <<>> /\ receivedPageOrdinal = 0
        /\ route = "unknown" /\ summary = "none" /\ svc.sent = 0
    BY DEF Init
  <1>2. RowsOf(<<>>) = {} /\ Rows(<<>>) = 0
    <2>1. RowsOf(<<>>) = {}
      BY DEF RowsOf
    <2> QED
      BY <2>1, RowsFinite, EmptySequence
  <1> QED
    BY <1>1, <1>2
    DEF WholeInv, StreamEnds, EndIsLast, RouteInv, AllCounted, SuccessIsWhole, LogOrdinals, Seen

\* After a success every ordinal received is that of one callback of the log.
LEMMA SuccessShowsAll == IInv /\ OrdinalInv /\ WholeInv => SucceededIsWhole
  <1> SUFFICES ASSUME IInv, OrdinalInv, WholeInv, completion = "succeeded"
               PROVE  Cardinality(Seen("page")) = svc.sent /\ ~errorSeen
    BY DEF SucceededIsWhole
  <1>0. /\ TypeOK /\ LogClosed /\ SettledWell /\ SuccessIsWhole /\ LogOrdinals
        /\ sinkLog \in Seq(Steps) /\ receivedPageOrdinal \in Nat
    BY DEF IInv, LaneInv, WholeInv, TypeOK, SinkTypeOK, QueryTypeOK
  <1>1. summary = "succeeded" /\ \E i \in DOMAIN sinkLog : sinkLog[i].kind = "complete"
    BY <1>0 DEF SettledWell
  <1>2. svc.sent = receivedPageOrdinal /\ ~errorSeen
    BY <1>0, <1>1 DEF SuccessIsWhole
  <1>3. \A n : ~QueuedOrd(n)
    <2>1. \A k \in DOMAIN lane : lane[k].kind = "accepted" \/ (k = 1 /\ sinkBusy)
      BY <1>0, <1>1 DEF LogClosed
    <2> QED
      BY <2>1 DEF QueuedOrd, Queued
  <1> DEFINE Ordinals == 0..(receivedPageOrdinal - 1)
             ordOf == [i \in Seen("page") |-> sinkLog[i].ord]
  <1>4. \A n \in Ordinals : ShownOrd(n)
    BY <1>3 DEF OrdinalInv
  <1>5. \A i \in Seen("page") : sinkLog[i].ord \in Ordinals
    <2> TAKE i \in Seen("page")
    <2>1. sinkLog[i].ord \in Nat /\ ShownOrd(sinkLog[i].ord)
      BY <1>0, OrdinalType DEF Seen, ShownOrd
    <2> QED
      BY <1>0, <2>1 DEF OrdinalInv
  <1>6. ordOf \in Injection(Seen("page"), Ordinals)
    <2>1. \A i, j \in Seen("page") : sinkLog[i].ord = sinkLog[j].ord => i = j
      <3>1. \A i \in Seen("page") : i \in Nat /\ sinkLog[i].ord \in Nat
        BY <1>0, <1>5 DEF Seen
      <3> QED
        BY <1>0, <3>1 DEF LogOrdinals
    <2>2. ordOf \in [Seen("page") -> Ordinals]
      BY <1>5
    <2> QED
      BY <2>1, <2>2 DEF Injection, IsInjective
  <1>7. ordOf \in Surjection(Seen("page"), Ordinals)
    <2>1. \A n \in Ordinals : \E i \in Seen("page") : ordOf[i] = n
      BY <1>4 DEF ShownOrd, Seen
    <2>2. ordOf \in [Seen("page") -> Ordinals]
      BY <1>5
    <2> QED
      BY <2>1, <2>2 DEF Surjection
  <1>8. IsFiniteSet(Ordinals) /\ Cardinality(Ordinals) = receivedPageOrdinal
    BY <1>0, FS_Interval
  <1>9. Cardinality(Seen("page")) = Cardinality(Ordinals)
    BY <1>6, <1>7, <1>8, FS_Injection
  <1> QED
    BY <1>2, <1>8, <1>9

\* As long as no page is dropped from a full orphan buffer, a success means that
\* the sink saw every page the service sent, and no error message.  (A page that
\* is dropped may be the last of its set: the run Sts2QueryTruncated.)
THEOREM SucceededIsWholeHolds == Spec /\ [][~DropsPage]_vars => []SucceededIsWhole
  <1>1. IInv /\ AckInv /\ OrdinalInv /\ [Next]_vars => OrdinalInv'
    BY OrdinalStep
  <1>2. IInv /\ AckInv /\ [Next]_vars => AckInv'
    BY AckInductive
  <1>3. IInv /\ AckInv /\ OrdinalInv /\ WholeInv /\ [Next]_vars /\ [~DropsPage]_vars => WholeInv'
    BY WholeStep
  <1>4. IInv /\ OrdinalInv /\ WholeInv => SucceededIsWhole
    BY SuccessShowsAll
  <1> QED
    BY <1>1, <1>2, <1>3, <1>4, AckInit, OrdinalInit, WholeInit, Invariance, PTL DEF Spec

-----------------------------------------------------------------------------
(* A buffer as large as the stream                                          *)

\* All the service can send: sets, their pages, messages, the response, and two
\* completions.
Roomy == OrphanCap >= MaxSets * MaxPages + MaxSets + MaxMessages + 3

\* The service fills one set after the other.
PagesOfSets ==
    /\ svc.set = 0 => svc.sent = 0
    /\ svc.set > 0 => svc.sent + MaxPages <= svc.set * MaxPages + svc.page

\* Messages sent, completions and the response among them.
Sent ==
    svc.set + svc.sent + svc.messages + (IF svc.responded THEN 1 ELSE 0)
        + (IF svc.status = "ended" THEN 1 ELSE 0) + (IF svc.duplicated THEN 1 ELSE 0)

\* What is on the pipe or buffered was sent.
RoomInv ==
    /\ PagesOfSets
    /\ svc.status \in {"idle", "running"} => ~svc.duplicated
    /\ svc.status = "idle" => ~svc.responded
    /\ Len(wire) + Len(orphans) <= Sent

\* A set more is MaxPages pages more.
LEMMA SetsOfPages ==
    ASSUME NEW n \in Nat, NEW m \in Nat, n <= m
    PROVE  /\ n * MaxPages \in Nat /\ m * MaxPages \in Nat
           /\ (n + 1) * MaxPages = n * MaxPages + MaxPages
           /\ n * MaxPages <= m * MaxPages
  <1>1. MaxPages \in Nat
    BY BoundsAssumption
  <1>2. n * MaxPages \in Nat /\ m * MaxPages \in Nat /\ (m - n) * MaxPages \in Nat
    BY <1>1
  <1>3. (n + 1) * MaxPages = n * MaxPages + MaxPages
    BY <1>1
  <1>4. m * MaxPages = n * MaxPages + (m - n) * MaxPages
    BY <1>1
  <1> QED
    BY <1>2, <1>3, <1>4

LEMMA RoomSvc ==
    TypeOK => /\ svc \in SvcType
              /\ svc.set \in 0..MaxSets /\ svc.page \in 0..MaxPages /\ svc.messages \in 0..MaxMessages
              /\ svc.sent \in Nat /\ svc.responded \in BOOLEAN /\ svc.duplicated \in BOOLEAN
              /\ MaxSets \in Nat /\ MaxPages \in Nat /\ MaxMessages \in Nat
              /\ svc.status \in {"idle", "running", "ended", "rejected"}
  BY BoundsAssumption DEF TypeOK, ServiceTypeOK, SvcType

\* While something is on the pipe the buffer has room for it.
LEMMA RoomLeft == TypeOK /\ RoomInv /\ Roomy /\ wire # <<>> => Len(orphans) < OrphanCap
  <1> SUFFICES ASSUME TypeOK, RoomInv, Roomy, wire # <<>> PROVE Len(orphans) < OrphanCap
    OBVIOUS
  <1>1. /\ svc.set \in Nat /\ svc.set <= MaxSets /\ MaxSets \in Nat /\ svc.page <= MaxPages
        /\ svc.page \in Nat /\ MaxPages \in Nat /\ svc.sent \in Nat
        /\ svc.messages \in Nat /\ svc.messages <= MaxMessages /\ MaxMessages \in Nat
    BY RoomSvc
  <1>2. svc.sent <= svc.set * MaxPages
    <2>1. svc.set * MaxPages \in Nat
      BY <1>1, SetsOfPages
    <2> QED
      BY <1>1, <2>1 DEF RoomInv, PagesOfSets
  <1>3. svc.sent <= MaxSets * MaxPages
    BY <1>1, <1>2, SetsOfPages
  <1>4. MaxSets * MaxPages \in Nat
    BY <1>1, SetsOfPages
  <1>5. Len(wire) \in Nat \ {0} /\ Len(orphans) \in Nat
    BY DEF TypeOK, ServiceTypeOK, RouteTypeOK
  <1>6. Sent <= MaxSets + MaxSets * MaxPages + MaxMessages + 3
    BY <1>1, <1>3, <1>4 DEF Sent
  <1>7. OrphanCap \in Nat
    BY BoundsAssumption
  <1>8. Sent \in Nat
    <2>1. svc.set \in Nat /\ svc.sent \in Nat /\ svc.messages \in Nat
      BY <1>1
    <2> QED
      BY <2>1 DEF Sent
  <1> QED
    BY <1>1, <1>4, <1>5, <1>6, <1>7, <1>8 DEF RoomInv, Roomy

\* The service sends one message at a time.
LEMMA SendsOne ==
    TypeOK /\ Service => wire' = wire \/ \E m \in Messages : wire' = Append(wire, m)
  <1> SUFFICES ASSUME TypeOK, Service
               PROVE  wire' = wire \/ \E m \in Messages : wire' = Append(wire, m)
    OBVIOUS
  <1>1. /\ svc.set \in Nat /\ svc.set + 1 \in Nat
        /\ svc.page \in Nat /\ svc.page + 1 \in Nat
    BY RoomSvc
  <1>2. ASSUME NEW kind \in {"response", "set", "rows", "message", "complete"},
               NEW set \in Nat, NEW seq \in Nat, NEW tag \in Tags,
               Send(Message(kind, set, seq, tag))
        PROVE  \E m \in Messages : wire' = Append(wire, m)
    BY <1>2, MessageType DEF Send
  <1>3. CASE SvcReject \/ SvcRespond \/ SvcMessage \/ SvcComplete \/ SvcAbort \/ SvcDuplicate
    BY <1>2, <1>3 DEF SvcReject, SvcRespond, SvcMessage, SvcComplete, SvcAbort, SvcDuplicate, Tags
  <1>4. CASE SvcResultSet \/ SvcRows \/ SvcGap
    BY <1>1, <1>2, <1>4 DEF SvcResultSet, SvcRows, SvcGap, Tags
  <1>5. CASE SvcStart
    BY <1>5 DEF SvcStart
  <1> QED
    BY <1>3, <1>4, <1>5 DEF Service

LEMMA RoomStep == TypeOK /\ RoomInv /\ [Next]_vars => RoomInv'
  <1> SUFFICES ASSUME TypeOK, RoomInv, [Next]_vars PROVE RoomInv'
    OBVIOUS
  <1> USE DEF queryVars, laneVars, controlVars, routeVars, sessionVars, serviceVars, sinkVars
  <1>0. wire \in Seq(Messages) /\ orphans \in Seq(Messages) /\ Sent \in Nat
    <2>1. /\ svc.set \in Nat /\ svc.sent \in Nat /\ svc.messages \in Nat
      BY RoomSvc
    <2> QED
      BY <2>1 DEF TypeOK, ServiceTypeOK, RouteTypeOK, Sent
  <1>a. ASSUME UNCHANGED svc, Len(wire') + Len(orphans') <= Len(wire) + Len(orphans),
               wire' \in Seq(Messages), orphans' \in Seq(Messages)
        PROVE  RoomInv'
    <2>1. /\ Len(wire) \in Nat /\ Len(orphans) \in Nat
          /\ Len(wire') \in Nat /\ Len(orphans') \in Nat /\ Sent' = Sent
      BY <1>0, <1>a DEF Sent
    <2> QED
      BY <1>0, <1>a, <2>1 DEF RoomInv, PagesOfSets
  <1>b. UNCHANGED <<svc, wire, orphans>> => RoomInv'
    BY <1>0 DEF RoomInv, PagesOfSets, Sent
  <1>c. ASSUME UNCHANGED svc, wire # <<>>, wire' = Tail(wire),
               orphans' \in {orphans, Append(orphans, Head(wire))}
        PROVE  RoomInv'
    <2>1. wire' \in Seq(Messages) /\ Head(wire) \in Messages /\ Len(wire') = Len(wire) - 1
      BY <1>0, <1>c, SeqType
    <2>2. orphans' \in Seq(Messages) /\ Len(orphans') <= Len(orphans) + 1 /\ Len(orphans) \in Nat
      <3>1. CASE orphans' = orphans
        BY <1>0, <3>1
      <3>2. CASE orphans' = Append(orphans, Head(wire))
        <4>1. Append(orphans, Head(wire)) \in Seq(Messages)
          BY <1>0, <2>1, SeqType
        <4>2. Len(Append(orphans, Head(wire))) = Len(orphans) + 1
          BY <1>0, <2>1, AppendElements
        <4>3. Len(orphans) \in Nat
          BY <1>0
        <4> QED
          BY <3>2, <4>1, <4>2, <4>3
      <3> QED
        BY <1>c, <3>1, <3>2
    <2>3. Len(wire) \in Nat /\ Len(wire') \in Nat /\ Len(orphans) \in Nat /\ Len(orphans') \in Nat
      BY <1>0, <2>1, <2>2
    <2> QED
      BY <1>a, <1>c, <2>1, <2>2, <2>3
  <1>1. CASE ReceiveNotification
    BY <1>1, <1>c DEF ReceiveNotification
  <1>2. CASE draining /\ DrainOrphan
    <2>1. /\ UNCHANGED <<svc, wire>> /\ orphans' \in Seq(Messages)
          /\ Len(orphans') = Len(orphans) - 1 /\ Len(wire) \in Nat /\ Len(orphans) \in Nat
      BY <1>0, <1>2, SeqType DEF DrainOrphan
    <2> QED
      BY <1>0, <1>a, <2>1
  <1>3. CASE ReceiveAccepted \/ ReceiveRejected
    BY <1>3, <1>c DEF ReceiveAccepted, ReceiveRejected
  <1>4. CASE FinishStep \/ FailStep
    <2>1. UNCHANGED <<svc, wire>> /\ (orphans' = orphans \/ orphans' = <<>>)
      BY <1>4 DEF FinishStep, FailStep, UnregisterQuery
    <2>2. CASE orphans' = <<>>
      <3>1. /\ Len(<<>>) = 0 /\ <<>> \in Seq(Messages)
            /\ Len(wire) \in Nat /\ Len(orphans) \in Nat
        BY <1>0, EmptySequence
      <3> QED
        BY <1>0, <1>a, <2>1, <2>2, <3>1
    <2> QED
      BY <1>b, <2>1, <2>2
  <1>5. CASE \/ draining /\ FinishRegister
             \/ StartStep \/ Cancel \/ ProceedCancel \/ SettleCancel \/ Dispose \/ ProceedDispose
             \/ DisposeAnswered \/ CloseSession \/ CancelDeadline \/ DisposeFailed \/ DrainDeadline
             \/ LoseSession \/ FinishClose
    BY <1>5, <1>b
    DEF FinishRegister, StartStep, Cancel, ProceedCancel, SettleCancel, Dispose, ProceedDispose,
        DisposeAnswered, CloseSession, CancelDeadline, DisposeFailed, DrainDeadline, LoseSession,
        FinishClose
  <1>6. CASE Service
    <2>0. /\ svc \in SvcType /\ svc.set \in 0..MaxSets /\ svc.page \in 0..MaxPages
          /\ svc.messages \in Nat /\ svc.sent \in Nat
          /\ svc.responded \in BOOLEAN /\ svc.duplicated \in BOOLEAN
          /\ MaxSets \in Nat /\ MaxPages \in Nat
      BY RoomSvc
    <2>1. UNCHANGED orphans /\ Len(orphans) \in Nat /\ Len(wire) \in Nat
      BY <1>0, <1>6
      DEF Service, SvcStart, SvcReject, SvcRespond, SvcResultSet, SvcRows, SvcMessage, SvcComplete,
          SvcAbort, SvcGap, SvcDuplicate, clientVars
    <2>2. \A m \in Messages : Len(Append(wire, m)) = Len(wire) + 1
      BY <1>0
    <2>a. ASSUME PagesOfSets', svc'.status \in {"idle", "running"} => ~svc'.duplicated,
                 svc'.status = "idle" => ~svc'.responded, Sent' \in Nat,
                 Sent' = Sent + 1 \/ (UNCHANGED wire /\ Sent' = Sent)
          PROVE  RoomInv'
      BY <1>0, <1>6, <2>1, <2>2, <2>a, SendsOne DEF RoomInv
    <2>3. CASE SvcStart
      BY <1>0, <2>0, <2>3, <2>a DEF SvcStart, SvcType, RoomInv, PagesOfSets, Sent
    <2>4. CASE SvcReject \/ SvcRespond
      <3>1. /\ ~svc.responded /\ svc'.responded = TRUE /\ svc'.sent = svc.sent /\ svc'.set = svc.set
            /\ svc'.page = svc.page /\ svc'.messages = svc.messages
            /\ svc'.duplicated = svc.duplicated
            /\ \/ svc'.status = svc.status
               \/ svc.status = "idle" /\ svc'.status = "rejected"
            /\ svc'.status # "idle"
        BY <2>0, <2>4 DEF SvcReject, SvcRespond, SvcType, RoomInv
      <3>2. Sent' = Sent + 1
        BY <2>0, <3>1 DEF Sent
      <3> QED
        BY <1>0, <2>a, <3>1, <3>2 DEF RoomInv, PagesOfSets
    <2>5. CASE SvcResultSet
      <3>1. /\ svc'.set = svc.set + 1 /\ svc'.page = 0 /\ svc'.sent = svc.sent
            /\ svc'.messages = svc.messages /\ svc'.responded = svc.responded
            /\ svc'.duplicated = svc.duplicated /\ svc'.status = svc.status
        BY <2>0, <2>5 DEF SvcResultSet, SvcType
      <3>2. Sent' = Sent + 1
        BY <2>0, <3>1 DEF Sent
      <3>3. PagesOfSets'
        <4> DEFINE pages == svc.set * MaxPages
                   more == (svc.set + 1) * MaxPages
        <4>1. svc.set \in Nat /\ pages \in Nat /\ more = pages + MaxPages
          BY <2>0, SetsOfPages
        <4>2. /\ svc.set = 0 => svc.sent = 0
              /\ svc.set > 0 => svc.sent + MaxPages <= pages + svc.page
              /\ svc.set = 0 \/ svc.page = MaxPages
          BY <2>5 DEF SvcResultSet, RoomInv, PagesOfSets
        <4>3. svc.sent + MaxPages <= more + 0 => PagesOfSets'
          BY <3>1, <4>1 DEF PagesOfSets
        <4> HIDE DEF pages, more
        <4> QED
          BY <2>0, <4>1, <4>2, <4>3
      <3> QED
        BY <1>0, <2>a, <3>1, <3>2, <3>3 DEF RoomInv
    <2>6. CASE SvcRows \/ SvcGap
      <3>1. /\ svc.set > 0 /\ svc'.set = svc.set /\ svc'.page = svc.page + 1
            /\ svc'.sent = svc.sent + 1
            /\ svc'.messages = svc.messages /\ svc'.responded = svc.responded
            /\ svc'.duplicated = svc.duplicated /\ svc'.status = svc.status
        BY <2>0, <2>6 DEF SvcRows, SvcGap, SvcType
      <3>2. Sent' = Sent + 1
        BY <2>0, <3>1 DEF Sent
      <3>3. PagesOfSets'
        <4> DEFINE pages == svc.set * MaxPages
        <4>1. svc.set \in Nat /\ pages \in Nat
          BY <2>0, SetsOfPages
        <4>2. svc.sent + MaxPages <= pages + svc.page
          BY <3>1 DEF RoomInv, PagesOfSets
        <4>3. PagesOfSets' <=> svc.sent + 1 + MaxPages <= pages + (svc.page + 1)
          BY <3>1, <4>1 DEF PagesOfSets
        <4> HIDE DEF pages
        <4> QED
          BY <2>0, <4>1, <4>2, <4>3
      <3> QED
        BY <1>0, <2>a, <3>1, <3>2, <3>3 DEF RoomInv
    <2>7. CASE SvcMessage
      <3>1. /\ svc'.set = svc.set /\ svc'.page = svc.page /\ svc'.sent = svc.sent
            /\ svc'.messages = svc.messages + 1 /\ svc'.responded = svc.responded
            /\ svc'.duplicated = svc.duplicated /\ svc'.status = svc.status
        BY <2>0, <2>7 DEF SvcMessage, SvcType
      <3>2. Sent' = Sent + 1
        BY <2>0, <3>1 DEF Sent
      <3> QED
        BY <1>0, <2>a, <3>1, <3>2 DEF RoomInv, PagesOfSets
    <2>8. CASE SvcComplete \/ SvcAbort \/ SvcDuplicate
      <3>1. /\ svc'.set = svc.set /\ svc'.page = svc.page /\ svc'.sent = svc.sent
            /\ svc'.messages = svc.messages /\ svc'.responded = svc.responded
            /\ svc'.status = "ended"
            /\ \/ svc.status = "running" /\ svc'.duplicated = svc.duplicated
               \/ svc.status = "ended" /\ ~svc.duplicated /\ svc'.duplicated = TRUE
        BY <2>0, <2>8 DEF SvcComplete, SvcAbort, SvcDuplicate, SvcType
      <3>2. Sent' = Sent + 1
        BY <2>0, <3>1 DEF Sent
      <3> QED
        BY <1>0, <2>a, <3>1, <3>2 DEF RoomInv, PagesOfSets
    <2> QED
      BY <1>6, <2>3, <2>4, <2>5, <2>6, <2>7, <2>8 DEF Service
  <1>7. CASE UNCHANGED vars
    BY <1>7, <1>b DEF vars
  <1> QED
    BY <1>1, <1>2, <1>3, <1>4, <1>5, <1>6, <1>7 DEF Next, Register, Client, Environment, Finished

LEMMA RoomInit == Init => RoomInv
  <1> SUFFICES ASSUME Init PROVE RoomInv
    OBVIOUS
  <1>1. /\ svc.status = "idle" /\ svc.responded = FALSE /\ svc.set = 0 /\ svc.sent = 0
        /\ svc.messages = 0 /\ svc.duplicated = FALSE
        /\ Len(wire) = 0 /\ Len(orphans) = 0
    BY DEF Init
  <1> QED
    BY <1>1 DEF RoomInv, PagesOfSets, Sent

\* With a buffer as large as the stream no page is ever dropped, and a success is
\* the whole result without further premise.
THEOREM RoomySuccessIsWhole ==
    ASSUME Roomy
    PROVE  Spec => []SucceededIsWhole
  <1>1. TypeOK /\ RoomInv /\ [Next]_vars => RoomInv'
    BY RoomStep
  <1>2. TypeOK /\ RoomInv /\ [Next]_vars => [~DropsPage]_vars
    <2> SUFFICES ASSUME TypeOK, RoomInv, [Next]_vars, DropsPage PROVE vars' = vars
      OBVIOUS
    <2>1. /\ wire \in Seq(Messages) /\ wire # <<>> /\ wire' = Tail(wire)
          /\ Head(wire).kind = "rows" /\ route = "unknown" /\ orphans' = orphans
      BY DEF DropsPage, TypeOK, ServiceTypeOK
    <2>2. Len(orphans) < OrphanCap
      BY <2>1, RoomLeft
    <2>3. Len(wire') < Len(wire) /\ Len(wire) \in Nat
      BY <2>1
    <2>4. ~ReceiveNotification
      <3>1. orphans \in Seq(Messages) /\ Head(wire) \in Messages
        BY <2>1, SeqType DEF TypeOK, RouteTypeOK
      <3>2. Append(orphans, Head(wire)) # orphans
        BY <3>1, AppendElements
      <3> QED
        BY <2>1, <2>2, <3>2 DEF ReceiveNotification
    <2>5. CASE ReceiveAccepted \/ ReceiveRejected
      BY <2>1, <2>5 DEF ReceiveAccepted, ReceiveRejected
    <2>6. CASE Service
      <3>1. wire' = wire \/ \E m \in Messages : wire' = Append(wire, m)
        BY <2>6, SendsOne
      <3> QED
        BY <2>1, <2>3, <3>1
    <2>7. CASE \/ draining /\ Register
               \/ StartStep \/ FinishStep \/ FailStep \/ Cancel \/ ProceedCancel \/ SettleCancel
               \/ Dispose \/ ProceedDispose \/ DisposeAnswered \/ CloseSession \/ CancelDeadline
               \/ DisposeFailed \/ DrainDeadline \/ LoseSession \/ FinishClose
      <3>1. UNCHANGED wire
        BY <2>7
        DEF Register, DrainOrphan, FinishRegister, StartStep, FinishStep, FailStep, Cancel,
            ProceedCancel, SettleCancel, Dispose, ProceedDispose, DisposeAnswered, CloseSession,
            CancelDeadline, DisposeFailed, DrainDeadline, LoseSession, FinishClose, serviceVars
      <3> QED
        BY <2>3, <3>1
    <2> QED
      BY <2>4, <2>5, <2>6, <2>7 DEF Next, Client, Environment, Finished
  <1> QED
    BY <1>1, <1>2, RoomInit, SucceededIsWholeHolds, TypeCorrect, PTL DEF Spec

==============================================================================
