-------------------------- MODULE QueryEditor_proofs --------------------------
(***************************************************************************)
(* Proofs about the classic query path, for any editors, runs, cancels,    *)
(* closings and renames.                                                   *)
(***************************************************************************)
EXTENDS QueryEditor, TLAPS

-----------------------------------------------------------------------------
(* Calls, runners and messages                                              *)

\* Which calls are in which step, and that these have a runner.
StepsHaveRunner ==
    /\ \A c \in Calls : pc[c] \in {"reset", "panel", "reading", "submitted"} => c \in Runs
    /\ \A c \in Calls : pc[c] = "canceling" => c \in Cancels
    /\ \A c \in Calls : pc[c] \in {"closing", "disposing", "closed", "saved"} => c \in Changes
    /\ \A c \in Calls :
          pc[c] \in {"reset", "panel", "reading", "submitted", "canceling", "closing", "disposing"}
              => runner[c] # 0

\* Nothing refers to a runner that is not made, and those are as new.
RunnersAreMade ==
    /\ \A u \in Uris : resultsMap[u] <= created /\ routes[u] <= created
    /\ \A c \in Calls : runner[c] <= created
    /\ \A n \in Runners : n > created => ~runners[n].executing /\ runners[n].listeners = {}

\* A listener is one of a run that was set up on that runner.
ListenersAreSetUp ==
    \A n \in Runners : \A r \in runners[n].listeners :
        runner[r] = n /\ pc[r] \notin {"idle", "reset", "panel"}

CancelTypes == {"cancel", "found", "none"}

\* What is on its way was sent by a call of the right kind.
Sent(m) ==
    /\ m.type \in CancelTypes => pc[m.who] # "idle"
    /\ m.type \in {"execute", "refused"} =>
          m.who \in Runs /\ pc[m.who] # "idle" /\ runner[m.who] # 0

MessagesAreSent ==
    /\ \A i \in DOMAIN requests : Sent(requests[i])
    /\ \A i \in DOMAIN replies : Sent(replies[i])

-----------------------------------------------------------------------------
(* Slots and runners                                                        *)

\* An editor has a runner of its own.
RunnerOfOneEditor ==
    \A u, v \in Uris : resultsMap[u] # 0 /\ resultsMap[u] = resultsMap[v] => u = v

\* The slot of a run is under the URI its runner is under, if that has one.
SlotWithRunner ==
    \A u, v \in Uris, r \in Runs :
        slots[v] = r /\ resultsMap[u] # 0 /\ resultsMap[u] = runner[r] => u = v

\* A run that has a slot has begun, and has a runner.
HoldersHaveBegun == \A r \in Runs : HoldsSlot(r) => pc[r] # "idle" /\ runner[r] # 0

\* A runner serves one slot.
OneSlotPerRunner ==
    \A r, s \in Runs : HoldsSlot(r) /\ HoldsSlot(s) /\ runner[r] = runner[s] => r = s

-----------------------------------------------------------------------------
(* The order of cancels                                                     *)

IsCancelOf(m, c) == m.type \in CancelTypes /\ m.who = c

CancelOnItsWay(r) ==
    \/ \E i \in DOMAIN replies : IsCancelOf(replies[i], r)
    \/ \E i \in DOMAIN requests : IsCancelOf(requests[i], r)

\* The cancel a reset waits for is on its way.
ResetIsAsked == \A r \in Runs : pc[r] = "reset" => CancelOnItsWay(r)

\* The cancel of r comes before the cancel of s.
Ahead(r, s) ==
    /\ \A j \in DOMAIN replies : IsCancelOf(replies[j], s) =>
           \E i \in DOMAIN replies : i < j /\ IsCancelOf(replies[i], r)
    /\ \A j \in DOMAIN requests : IsCancelOf(requests[j], s) =>
           \/ \E i \in DOMAIN replies : IsCancelOf(replies[i], r)
           \/ \E i \in DOMAIN requests : i < j /\ IsCancelOf(requests[i], r)

\* A run that lost its slot while it resets a runner learns it before the run
\* that has the slot of this runner now is set up.
LoserIsAhead ==
    \A r, s \in Runs :
        pc[r] = "reset" /\ ~HoldsSlot(r) /\ HoldsSlot(s) /\ runner[r] = runner[s] =>
            pc[s] = "reset" /\ Ahead(r, s)

\* Until something is closed, every runner is found under its own URI, and one
\* that executes has its editor's slot.
KnownRunners ==
    NothingClosed => \A n \in Runners :
        /\ n <= created => resultsMap[runners[n].uri] = n
        /\ runners[n].executing => slots[runners[n].uri] # None

-----------------------------------------------------------------------------
(* What the operators return                                                *)

LEMMA RunnerFields ==
    ASSUME NEW x \in Runner
    PROVE  /\ x.uri \in Uris /\ x.executing \in BOOLEAN /\ x.registered \in SUBSET Uris
           /\ x.recovery \in BOOLEAN /\ x.promises \in [Uris -> Runs \cup {None}]
           /\ x.listeners \in SUBSET Runs
BY DEF Runner

\* A new runner is idle.
LEMMA NewRunnerFields ==
    ASSUME NEW u \in Uris
    PROVE  /\ NewRunner(u) \in Runner
           /\ NewRunner(u).uri = u
           /\ NewRunner(u).executing = FALSE
           /\ NewRunner(u).listeners = {}
BY DEF NewRunner, Runner

\* The end of a query leaves the runner its URI, and no listener.
LEMMA EndedFields ==
    ASSUME NEW x \in Runner, NEW u \in Uris
    PROVE  /\ Ended(x, u) \in Runner
           /\ Ended(x, u).uri = x.uri
           /\ Ended(x, u).executing = FALSE
           /\ Ended(x, u).listeners = {}
BY DEF Ended, Runner

\* A runner set up for a run executes and will tell it.
LEMMA SetUpFields ==
    ASSUME NEW x \in Runner, NEW r \in Runs
    PROVE  /\ SetUp(x, r) \in Runner
           /\ SetUp(x, r).uri = x.uri
           /\ SetUp(x, r).executing = TRUE
           /\ SetUp(x, r).listeners = x.listeners \cup {r}
BY DEF SetUp, Runner

Answers == {"failed", "found", "none"}

\* An answer to a cancel leaves the query running, a failure does not.
LEMMA AfterCancelFields ==
    ASSUME NEW x \in Runner, NEW answer \in Answers
    PROVE  /\ AfterCancel(x, answer) \in Runner
           /\ AfterCancel(x, answer).uri = x.uri
           /\ answer = "failed" => /\ AfterCancel(x, answer).executing = FALSE
                                  /\ AfterCancel(x, answer).listeners = {}
           /\ answer # "failed" => /\ AfterCancel(x, answer).executing = x.executing
                                  /\ AfterCancel(x, answer).listeners = x.listeners
<1>1. CASE answer = "failed"
  BY <1>1, EndedFields, RunnerFields DEF AfterCancel
<1>2. CASE answer = "none"
  BY <1>2 DEF AfterCancel, Runner
<1>3. CASE answer = "found"
  BY <1>3 DEF AfterCancel
<1>. QED BY <1>1, <1>2, <1>3 DEF Answers

\* Save As changes the URI of a runner, not what it does.
LEMMA RenamedFields ==
    ASSUME NEW x \in Runner, NEW u \in Uris, NEW v \in Uris
    PROVE  /\ Renamed(x, u, v) \in Runner
           /\ Renamed(x, u, v).uri = v
           /\ Renamed(x, u, v).executing = x.executing
           /\ Renamed(x, u, v).listeners = x.listeners
<1>. DEFINE kept == IF x.promises[u] = None THEN x.promises
                   ELSE [x.promises EXCEPT ![v] = x.promises[u], ![u] = None]
            names == IF x.executing THEN x.registered \cup {v}
                     ELSE IF u \in x.registered THEN (x.registered \ {u}) \cup {v}
                     ELSE x.registered
<1>1. kept \in [Uris -> Runs \cup {None}]
  BY DEF Runner
<1>2. names \in SUBSET Uris
  BY DEF Runner
<1>3. Renamed(x, u, v) = [x EXCEPT !.uri = v, !.promises = kept, !.registered = names]
  BY DEF Renamed
<1>. QED BY <1>1, <1>2, <1>3 DEF Runner

\* Slots, routes and promises after a query's end.
LEMMA EndTypes ==
    ASSUME TypeOK, NEW released, NEW uris, NEW runs, NEW result \in {"resolved", "rejected"}
    PROVE  /\ Without(released) \in [Uris -> Runs \cup {None}]
           /\ Unrouted(uris) \in [Uris -> 0..MaxRunners]
           /\ Settled(runs, result) \in [Runs -> {"none", "pending", "resolved", "rejected"}]
<1>1. Without(released) \in [Uris -> Runs \cup {None}]
  BY DEF TypeOK, Without
<1>2. 0 \in 0..MaxRunners
  BY EditorAssumption
<1>3. Unrouted(uris) \in [Uris -> 0..MaxRunners]
  BY <1>2 DEF TypeOK, Unrouted
<1>4. Settled(runs, result) \in [Runs -> {"none", "pending", "resolved", "rejected"}]
  BY DEF TypeOK, Settled
<1>. QED BY <1>1, <1>3, <1>4

-----------------------------------------------------------------------------
(* Types                                                                    *)

LEMMA InitTyped == Init => TypeOK
<1>. SUFFICES ASSUME Init PROVE TypeOK
  OBVIOUS
<1>. DEFINE u == CHOOSE v \in Uris : TRUE
<1>1. u \in Uris
  BY EditorAssumption
<1>2. 0 \in 0..MaxRunners
  BY EditorAssumption
<1>3. runners \in [Runners -> Runner]
  BY <1>1, NewRunnerFields DEF Init
<1>4. requests \in Seq(Request) /\ replies \in Seq(Reply)
  BY DEF Init
<1>5. /\ slots \in [Uris -> Runs \cup {None}] /\ queries \in [Uris -> Runs \cup {None}]
      /\ promise \in [Runs -> {"none", "pending", "resolved", "rejected"}]
  BY DEF Init
<1>6. /\ resultsMap \in [Uris -> 0..MaxRunners] /\ routes \in [Uris -> 0..MaxRunners]
      /\ created \in 0..MaxRunners /\ runner \in [Calls -> 0..MaxRunners]
  BY <1>2 DEF Init
<1>7. pc \in [Calls -> Steps] /\ at \in [Calls -> Uris]
  BY <1>1 DEF Init, Steps
<1>. QED BY <1>3, <1>4, <1>5, <1>6, <1>7 DEF TypeOK

\* A call with a runner has one that exists.
LEMMA IsRunner ==
    ASSUME TypeOK
    PROVE  /\ \A c \in Calls : runner[c] # 0 => runner[c] \in Runners
           /\ \A u \in Uris : resultsMap[u] # 0 => resultsMap[u] \in Runners
           /\ \A u \in Uris : routes[u] # 0 => routes[u] \in Runners
           /\ \A n \in Runners : runners[n] \in Runner
BY EditorAssumption DEF TypeOK, Runners

LEMMA StepTyped ==
    ASSUME TypeOK, NEW c \in Calls, NEW step \in Steps, Goto(c, step)
    PROVE  pc' \in [Calls -> Steps]
BY DEF TypeOK, Goto

\* What a call asks for is a request.
LEMMA AskTyped ==
    ASSUME TypeOK, NEW c \in Calls, NEW u \in Uris,
           NEW type \in {"execute", "cancel", "dispose"}, Ask(type, c, u)
    PROVE  requests' \in Seq(Request)
<1>1. [type |-> type, who |-> c, uri |-> u] \in Request
  BY DEF Request
<1>. QED BY <1>1 DEF TypeOK, Ask

\* Runs, cancels and changes are calls.
LEMMA AreCalls == Runs \subseteq Calls /\ Cancels \subseteq Calls /\ Changes \subseteq Calls
BY DEF Calls

LEMMA RunTyped ==
    ASSUME TypeOK, NEW r \in Runs, Run(r)
    PROVE  TypeOK'
<1>. r \in Calls
  BY AreCalls
<1>0. PICK u \in Uris : Blocked(r, u) \/ Reuse(r, u) \/ Create(r, u)
  BY DEF Run
<1>1. replies' \in Seq(Reply) /\ queries' \in [Uris -> Runs \cup {None}]
  BY DEF Run, TypeOK
<1>2. CASE Blocked(r, u)
  <2>1. pc' \in [Calls -> Steps]
    BY <1>2, StepTyped DEF Blocked, Steps
  <2>2. promise' \in [Runs -> {"none", "pending", "resolved", "rejected"}]
    BY <1>2 DEF Blocked, TypeOK
  <2>3. UNCHANGED <<slots, resultsMap, routes, created, runners, runner, at, requests>>
    BY <1>2 DEF Blocked, editorVars, runnerVars
  <2>. QED BY <1>1, <2>1, <2>2, <2>3 DEF TypeOK
<1>3. CASE Reuse(r, u)
  <2>0. resultsMap[u] \in Runners /\ resultsMap[u] \in 0..MaxRunners
    BY <1>3, IsRunner DEF Reuse, TypeOK
  <2>1. pc' \in [Calls -> Steps]
    BY <1>3, StepTyped DEF Reuse, Steps
  <2>2. promise' \in [Runs -> {"none", "pending", "resolved", "rejected"}]
    BY <1>3 DEF Reuse, TypeOK
  <2>3. UNCHANGED <<resultsMap, routes, created, runners>>
    BY <1>3 DEF Reuse, runnerVars
  <2>4. requests' \in Seq(Request)
    <3>1. runners[resultsMap[u]].uri \in Uris
      BY <2>0, IsRunner, RunnerFields
    <3>. QED BY <1>3, <3>1, AskTyped DEF Reuse
  <2>5. /\ slots' \in [Uris -> Runs \cup {None}] /\ runner' \in [Calls -> 0..MaxRunners]
        /\ at' \in [Calls -> Uris]
    BY <1>3, <2>0 DEF Reuse, TypeOK
  <2>. QED BY <1>1, <2>1, <2>2, <2>3, <2>4, <2>5 DEF TypeOK
<1>4. CASE Create(r, u)
  <2>. DEFINE n == created + 1
  <2>0. n \in Runners /\ n \in 0..MaxRunners
    BY <1>4 DEF Create, Runners
  <2>1. pc' \in [Calls -> Steps]
    BY <1>4, StepTyped DEF Create, Steps
  <2>2. promise' \in [Runs -> {"none", "pending", "resolved", "rejected"}]
    BY <1>4 DEF Create, TypeOK
  <2>3. runners' \in [Runners -> Runner]
    <3>1. NewRunner(u) \in Runner
      BY NewRunnerFields
    <3>. QED BY <1>4, <3>1 DEF Create, TypeOK
  <2>4. UNCHANGED <<routes, requests>> /\ created' = n
    BY <1>4 DEF Create
  <2>5. /\ slots' \in [Uris -> Runs \cup {None}] /\ runner' \in [Calls -> 0..MaxRunners]
        /\ at' \in [Calls -> Uris] /\ resultsMap' \in [Uris -> 0..MaxRunners]
    BY <1>4, <2>0 DEF Create, TypeOK
  <2>. HIDE DEF n
  <2>. QED BY <1>1, <2>0, <2>1, <2>2, <2>3, <2>4, <2>5 DEF TypeOK
<1>. QED BY <1>0, <1>2, <1>3, <1>4

LEMMA SubmitTyped ==
    ASSUME TypeOK, NEW r \in Runs, Submit(r)
    PROVE  TypeOK'
<1>. r \in Calls
  BY AreCalls
<1>1. pc' \in [Calls -> Steps]
  BY StepTyped DEF Submit, Steps
<1>2. requests' \in Seq(Request)
  <2>1. at[r] \in Uris
    BY DEF TypeOK
  <2>. QED BY <2>1, AskTyped DEF Submit
<1>3. UNCHANGED <<slots, resultsMap, routes, created, runners, runner, at, promise, replies, queries>>
  BY DEF Submit, editorVars, runnerVars
<1>. QED BY <1>1, <1>2, <1>3 DEF TypeOK

\* The end of a query, for whatever reason, keeps the types.
LEMMA EndTyped ==
    ASSUME TypeOK, NEW n \in Runners, NEW u \in Uris, NEW released, NEW uris, NEW runs,
           NEW result \in {"resolved", "rejected"},
           runners' = [runners EXCEPT ![n] = Ended(runners[n], u)],
           slots' = Without(released), routes' = Unrouted(uris),
           promise' = Settled(runs, result)
    PROVE  /\ runners' \in [Runners -> Runner]
           /\ slots' \in [Uris -> Runs \cup {None}]
           /\ routes' \in [Uris -> 0..MaxRunners]
           /\ promise' \in [Runs -> {"none", "pending", "resolved", "rejected"}]
<1>1. runners[n] \in Runner
  BY IsRunner
<1>2. Ended(runners[n], u) \in Runner
  BY <1>1, EndedFields
<1>3. runners' \in [Runners -> Runner]
  BY <1>2 DEF TypeOK
<1>. QED BY <1>3, EndTypes

LEMMA CleanupTyped ==
    ASSUME TypeOK, NEW n \in Runners, NEW result \in {"resolved", "rejected"}, Cleanup(n, result)
    PROVE  /\ runners' \in [Runners -> Runner]
           /\ slots' \in [Uris -> Runs \cup {None}]
           /\ routes' \in [Uris -> 0..MaxRunners]
           /\ promise' \in [Runs -> {"none", "pending", "resolved", "rejected"}]
<1>1. runners[n].uri \in Uris
  BY IsRunner, RunnerFields
<1>. QED BY <1>1, EndTyped DEF Cleanup

\* The wire and the rest of the calls are typed if nothing but the end changes.
LEMMA RunFailsTyped ==
    ASSUME TypeOK, NEW r \in Runs, runner[r] # 0, RunFails(r),
           requests' \in Seq(Request), replies' \in Seq(Reply), UNCHANGED queries
    PROVE  TypeOK'
<1>. r \in Calls
  BY AreCalls
<1>0. runner[r] \in Runners
  BY IsRunner
<1>1. runners[runner[r]].uri \in Uris
  BY <1>0, IsRunner, RunnerFields
<1>2. /\ runners' \in [Runners -> Runner]
      /\ slots' \in [Uris -> Runs \cup {None}]
      /\ routes' \in [Uris -> 0..MaxRunners]
      /\ promise' \in [Runs -> {"none", "pending", "resolved", "rejected"}]
  BY <1>0, <1>1, EndTyped DEF RunFails
<1>3. pc' \in [Calls -> Steps]
  BY StepTyped DEF RunFails, Steps
<1>4. UNCHANGED <<resultsMap, created, runner, at>>
  BY DEF RunFails
<1>. QED BY <1>2, <1>3, <1>4 DEF TypeOK

LEMMA RecoverTyped ==
    ASSUME TypeOK, NEW n \in Runners, Recover(n)
    PROVE  TypeOK'
<1>1. /\ runners' \in [Runners -> Runner]
      /\ slots' \in [Uris -> Runs \cup {None}]
      /\ routes' \in [Uris -> 0..MaxRunners]
      /\ promise' \in [Runs -> {"none", "pending", "resolved", "rejected"}]
  BY CleanupTyped DEF Recover
<1>2. UNCHANGED <<resultsMap, created, pc, runner, at, requests, replies, queries>>
  BY DEF Recover, callVars, wireVars
<1>. QED BY <1>1, <1>2 DEF TypeOK

LEMMA DisposeEndsTyped ==
    ASSUME TypeOK, NEW c \in Calls, runner[c] # 0, DisposeEnds(c),
           requests' \in Seq(Request), replies' \in Seq(Reply), UNCHANGED queries
    PROVE  TypeOK'
<1>0. runner[c] \in Runners
  BY IsRunner
<1>1. /\ runners' \in [Runners -> Runner]
      /\ slots' \in [Uris -> Runs \cup {None}]
      /\ routes' \in [Uris -> 0..MaxRunners]
      /\ promise' \in [Runs -> {"none", "pending", "resolved", "rejected"}]
  BY <1>0, CleanupTyped DEF DisposeEnds
<1>2. pc' \in [Calls -> Steps]
  BY StepTyped DEF DisposeEnds, Steps
<1>3. UNCHANGED <<resultsMap, created, runner, at>>
  BY DEF DisposeEnds
<1>. QED BY <1>1, <1>2, <1>3 DEF TypeOK

LEMMA ResetEndsTyped ==
    ASSUME TypeOK, NEW r \in Runs, runner[r] # 0, NEW answer \in Answers, ResetEnds(r, answer),
           requests' \in Seq(Request), replies' \in Seq(Reply), UNCHANGED queries
    PROVE  TypeOK'
<1>. r \in Calls
  BY AreCalls
<1>. DEFINE n == runner[r]
            x == runners[n]
            left == AfterCancel(x, answer)
            clean == [left EXCEPT !.executing = FALSE, !.promises[x.uri] = None]
            dropped == IF answer = "failed" THEN x.registered ELSE {}
<1>0. n \in Runners
  BY IsRunner
<1>1. x \in Runner /\ x.uri \in Uris
  BY <1>0, IsRunner, RunnerFields
<1>2. left \in Runner
  BY <1>1, AfterCancelFields
<1>3. clean \in Runner
  BY <1>1, <1>2 DEF Runner
<1>4. runners' \in [Runners -> Runner]
  <2>1. runners' = [runners EXCEPT ![n] = clean]
    BY DEF ResetEnds
  <2>. HIDE DEF clean, n
  <2>. QED BY <1>3, <2>1 DEF TypeOK
<1>5. slots' \in [Uris -> Runs \cup {None}]
  <2>1. slots' = IF answer = "failed" THEN Without(x.listeners) ELSE slots
    BY DEF ResetEnds
  <2>. QED BY <2>1, EndTypes DEF TypeOK
<1>6. routes' \in [Uris -> 0..MaxRunners]
  <2>1. routes' = Unrouted(dropped)
    BY DEF ResetEnds
  <2>. QED BY <2>1, EndTypes
<1>7. promise' \in [Runs -> {"none", "pending", "resolved", "rejected"}]
  <2>1. promise' = Settled({x.promises[x.uri]}, "rejected")
    BY DEF ResetEnds
  <2>. QED BY <2>1, EndTypes
<1>8. pc' \in [Calls -> Steps]
  BY StepTyped DEF ResetEnds, Steps
<1>9. UNCHANGED <<resultsMap, created, runner, at>>
  BY DEF ResetEnds
<1>. QED BY <1>4, <1>5, <1>6, <1>7, <1>8, <1>9 DEF TypeOK

\* What a run finds once its panel is there: it still has its slot ...
PreparedWins(r) ==
    LET n == runner[r]
        x == runners[n]
    IN  /\ HoldsSlot(r)
        /\ Goto(r, "reading")
        /\ runners' = [runners EXCEPT ![n] = SetUp(x, r)]
        /\ routes' = IF x.uri \in x.registered THEN routes ELSE [routes EXCEPT ![x.uri] = n]
        /\ at' = [at EXCEPT ![r] = x.uri]
        /\ UNCHANGED promise

\* ... or lost it.
PreparedLoses(r) ==
    /\ ~HoldsSlot(r)
    /\ Goto(r, "over")
    /\ promise' = Settled({r}, "rejected")
    /\ UNCHANGED <<routes, runners, at>>

LEMMA PreparedIs ==
    ASSUME NEW r, Prepared(r)
    PROVE  /\ pc[r] = "panel"
           /\ PreparedWins(r) \/ PreparedLoses(r)
           /\ UNCHANGED <<slots, resultsMap, created, runner, requests, replies, queries>>
BY DEF Prepared, PreparedWins, PreparedLoses, wireVars

LEMMA PreparedTyped ==
    ASSUME TypeOK, StepsHaveRunner, NEW r \in Runs, Prepared(r)
    PROVE  TypeOK'
<1>. r \in Calls
  BY AreCalls
<1>. DEFINE n == runner[r]
            x == runners[n]
<1>0. pc[r] = "panel" /\ UNCHANGED <<slots, resultsMap, created, runner, requests, replies, queries>>
  BY PreparedIs
<1>1. n \in Runners /\ n \in 0..MaxRunners
  BY <1>0, IsRunner DEF StepsHaveRunner, TypeOK
<1>2. x \in Runner /\ x.uri \in Uris
  BY <1>1, IsRunner, RunnerFields
<1>3. CASE PreparedWins(r)
  <2>1. SetUp(x, r) \in Runner
    BY <1>2, SetUpFields
  <2>2. pc' \in [Calls -> Steps]
    BY <1>3, StepTyped DEF PreparedWins, Steps
  <2>3. /\ runners' = [runners EXCEPT ![n] = SetUp(x, r)]
        /\ routes' = routes \/ routes' = [routes EXCEPT ![x.uri] = n]
        /\ at' = [at EXCEPT ![r] = x.uri]
        /\ UNCHANGED promise
    BY <1>3 DEF PreparedWins
  <2>. HIDE DEF n, x
  <2>4. /\ runners' \in [Runners -> Runner] /\ routes' \in [Uris -> 0..MaxRunners]
        /\ at' \in [Calls -> Uris]
    BY <1>1, <1>2, <2>1, <2>3 DEF TypeOK
  <2>. QED BY <1>0, <2>2, <2>3, <2>4 DEF TypeOK
<1>4. CASE PreparedLoses(r)
  <2>1. pc' \in [Calls -> Steps]
    BY <1>4, StepTyped DEF PreparedLoses, Steps
  <2>2. promise' \in [Runs -> {"none", "pending", "resolved", "rejected"}]
    BY <1>4, EndTypes DEF PreparedLoses
  <2>3. UNCHANGED <<routes, runners, at>>
    BY <1>4 DEF PreparedLoses
  <2>. QED BY <1>0, <2>1, <2>2, <2>3 DEF TypeOK
<1>. QED BY <1>3, <1>4, PreparedIs

LEMMA CancelEndsTyped ==
    ASSUME TypeOK, NEW c \in Calls, runner[c] # 0, NEW answer \in Answers, CancelEnds(c, answer),
           requests' \in Seq(Request), replies' \in Seq(Reply), UNCHANGED queries
    PROVE  TypeOK'
<1>. DEFINE n == runner[c]
<1>0. n \in Runners
  BY IsRunner
<1>1. /\ runners' \in [Runners -> Runner]
      /\ slots' \in [Uris -> Runs \cup {None}]
      /\ routes' \in [Uris -> 0..MaxRunners]
      /\ promise' \in [Runs -> {"none", "pending", "resolved", "rejected"}]
  <2>1. CASE answer = "failed"
    <3>1. Cleanup(n, "rejected")
      BY <2>1 DEF CancelEnds
    <3>. QED BY <1>0, <3>1, CleanupTyped
  <2>2. CASE answer # "failed"
    <3>1. AfterCancel(runners[n], answer) \in Runner
      BY <1>0, IsRunner, AfterCancelFields
    <3>2. runners' = [runners EXCEPT ![n] = AfterCancel(runners[n], answer)]
      BY <2>2 DEF CancelEnds
    <3>3. UNCHANGED <<slots, routes, promise>>
      BY <2>2 DEF CancelEnds
    <3>. HIDE DEF n
    <3>. QED BY <3>1, <3>2, <3>3 DEF TypeOK
  <2>. QED BY <2>1, <2>2
<1>2. pc' \in [Calls -> Steps]
  <2>1. Goto(c, IF pc[c] = "closing" THEN "closed" ELSE "over")
    BY DEF CancelEnds
  <2>. QED BY <2>1, StepTyped DEF Steps
<1>3. resultsMap' \in [Uris -> 0..MaxRunners]
  <2>1. 0 \in 0..MaxRunners
    BY EditorAssumption
  <2>2. resultsMap' = resultsMap \/ resultsMap' = [resultsMap EXCEPT ![at[c]] = 0]
    BY DEF CancelEnds
  <2>. QED BY <2>1, <2>2 DEF TypeOK
<1>4. UNCHANGED <<created, runner, at>>
  BY DEF CancelEnds
<1>. QED BY <1>1, <1>2, <1>3, <1>4 DEF TypeOK

LEMMA CancelTyped ==
    ASSUME TypeOK, NEW c \in Cancels, Cancel(c)
    PROVE  TypeOK'
<1>. c \in Calls
  BY AreCalls
<1>1. PICK u \in Uris :
          LET n == resultsMap[u] IN
          IF n # 0 /\ runners[n].executing
          THEN /\ Goto(c, "canceling")
               /\ runner' = [runner EXCEPT ![c] = n]
               /\ Ask("cancel", c, runners[n].uri)
               /\ UNCHANGED slots
          ELSE /\ slots[u] # None
               /\ slots' = [slots EXCEPT ![u] = None]
               /\ Goto(c, "over")
               /\ UNCHANGED <<runner, requests>>
  BY DEF Cancel
<1>2. UNCHANGED <<resultsMap, routes, created, runners, at, promise, replies, queries>>
  BY DEF Cancel, runnerVars
<1>. DEFINE n == resultsMap[u]
<1>3. CASE n # 0 /\ runners[n].executing
  <2>0. n \in Runners /\ n \in 0..MaxRunners
    BY <1>3, IsRunner DEF TypeOK
  <2>1. runners[n].uri \in Uris
    BY <2>0, IsRunner, RunnerFields
  <2>2. requests' \in Seq(Request)
    BY <1>1, <1>3, <2>1, AskTyped
  <2>3. pc' \in [Calls -> Steps]
    BY <1>1, <1>3, StepTyped DEF Steps
  <2>4. runner' \in [Calls -> 0..MaxRunners] /\ UNCHANGED slots
    BY <1>1, <1>3, <2>0 DEF TypeOK
  <2>. QED BY <1>2, <2>2, <2>3, <2>4 DEF TypeOK
<1>4. CASE ~(n # 0 /\ runners[n].executing)
  <2>1. pc' \in [Calls -> Steps]
    BY <1>1, <1>4, StepTyped DEF Steps
  <2>2. slots' \in [Uris -> Runs \cup {None}] /\ UNCHANGED <<runner, requests>>
    BY <1>1, <1>4 DEF TypeOK
  <2>. QED BY <1>2, <2>1, <2>2 DEF TypeOK
<1>. QED BY <1>3, <1>4

LEMMA CloseTyped ==
    ASSUME TypeOK, NEW c \in Changes, Close(c)
    PROVE  TypeOK'
<1>. c \in Calls
  BY AreCalls
<1>1. PICK u \in Uris :
          LET n == resultsMap[u] IN
          /\ n # 0
          /\ runner' = [runner EXCEPT ![c] = n]
          /\ at' = [at EXCEPT ![c] = u]
          /\ IF runners[n].executing
             THEN /\ Goto(c, "closing")
                  /\ Ask("cancel", c, runners[n].uri)
                  /\ UNCHANGED resultsMap
             ELSE /\ Goto(c, "disposing")
                  /\ Ask("dispose", c, runners[n].uri)
                  /\ resultsMap' = [resultsMap EXCEPT ![u] = 0]
  BY DEF Close
<1>2. UNCHANGED <<slots, routes, created, runners, promise, replies, queries>>
  BY DEF Close, runnerVars
<1>. DEFINE n == resultsMap[u]
<1>3. n \in Runners /\ n \in 0..MaxRunners
  BY <1>1, IsRunner DEF TypeOK
<1>4. runners[n].uri \in Uris
  BY <1>3, IsRunner, RunnerFields
<1>5. requests' \in Seq(Request)
  BY <1>1, <1>4, AskTyped
<1>6. pc' \in [Calls -> Steps]
  BY <1>1, StepTyped DEF Steps
<1>7. runner' \in [Calls -> 0..MaxRunners] /\ at' \in [Calls -> Uris]
  BY <1>1, <1>3 DEF TypeOK
<1>8. resultsMap' \in [Uris -> 0..MaxRunners]
  <2>1. 0 \in 0..MaxRunners
    BY EditorAssumption
  <2>. QED BY <1>1, <2>1 DEF TypeOK
<1>. QED BY <1>2, <1>5, <1>6, <1>7, <1>8 DEF TypeOK

LEMMA SaveAsTyped ==
    ASSUME TypeOK, NEW c \in Changes, NEW u \in Uris, NEW v \in Uris, SaveAs(c, u, v)
    PROVE  TypeOK'
<1>. c \in Calls
  BY AreCalls
<1>. DEFINE n == resultsMap[u]
<1>1. pc' \in [Calls -> Steps]
  BY StepTyped DEF SaveAs, Steps
<1>2. slots' \in [Uris -> Runs \cup {None}]
  <2>1. \/ slots' = slots
        \/ slots' = [slots EXCEPT ![v] = slots[u], ![u] = None]
    BY DEF SaveAs
  <2>. QED BY <2>1 DEF TypeOK
<1>3. UNCHANGED <<created, runner, at, promise, replies, queries>>
  BY DEF SaveAs
<1>4. CASE n = 0
  <2>1. UNCHANGED <<resultsMap, routes, runners, requests>>
    BY <1>4 DEF SaveAs
  <2>. QED BY <1>1, <1>2, <1>3, <2>1 DEF TypeOK
<1>5. CASE n # 0
  <2>0. n \in Runners /\ n \in 0..MaxRunners /\ 0 \in 0..MaxRunners
    BY <1>5, IsRunner, EditorAssumption DEF TypeOK
  <2>1. Renamed(runners[n], u, v) \in Runner
    BY <2>0, IsRunner, RenamedFields
  <2>2. /\ runners' = [runners EXCEPT ![n] = Renamed(runners[n], u, v)]
        /\ routes' = [routes EXCEPT ![v] = n] \/ routes' = routes
        /\ resultsMap' = [resultsMap EXCEPT ![v] = n, ![u] = 0]
        /\ requests' = Append(requests, [type |-> "rename", from |-> u, to |-> v])
    BY <1>5 DEF SaveAs
  <2>3. [type |-> "rename", from |-> u, to |-> v] \in Request
    BY DEF Request
  <2>4. requests' \in Seq(Request)
    BY <2>2, <2>3 DEF TypeOK
  <2>. HIDE DEF n
  <2>5. runners' \in [Runners -> Runner]
    BY <2>1, <2>2 DEF TypeOK
  <2>6. routes' \in [Uris -> 0..MaxRunners]
    BY <2>0, <2>2 DEF TypeOK
  <2>7. resultsMap' \in [Uris -> 0..MaxRunners]
    BY <2>0, <2>2 DEF TypeOK
  <2>. QED BY <1>1, <1>2, <1>3, <2>4, <2>5, <2>6, <2>7 DEF TypeOK
<1>. QED BY <1>4, <1>5

\* Requests that are not renames say who asks.
LEMMA RequestFields ==
    ASSUME NEW m \in Request
    PROVE  /\ m.type \in {"execute", "cancel", "dispose"} => m.who \in Calls /\ m.uri \in Uris
           /\ m.type = "rename" => m.from \in Uris /\ m.to \in Uris
BY DEF Request

LEMMA ReplyFields ==
    ASSUME NEW m \in Reply
    PROVE  m.who \in Calls /\ m.uri \in Uris
BY DEF Reply

\* What the service may do with a request: the query it ends or begins, and
\* the answer it gives.
LEMMA SvcHandleEffect ==
    ASSUME TypeOK, MessagesAreSent, SvcHandle
    PROVE  LET m == Head(requests) IN
           /\ requests # <<>>
           /\ m \in Request
           /\ requests' = Tail(requests)
           /\ queries' \in [Uris -> Runs \cup {None}]
           /\ \/ replies' = replies /\ m.type \notin CancelTypes
              \/ \E type \in {"refused", "found", "none", "disposed"} :
                    /\ m.who \in Calls /\ m.uri \in Uris
                    /\ replies' = Append(replies, [type |-> type, who |-> m.who, uri |-> m.uri])
                    /\ type = "refused" <=> m.type = "execute"
                    /\ type \in CancelTypes <=> m.type \in CancelTypes
<1>. DEFINE m == Head(requests)
<1>0. requests # <<>> /\ m \in Request /\ requests' = Tail(requests)
  BY DEF SvcHandle, TypeOK
<1>1. 1 \in DOMAIN requests /\ m = requests[1]
  BY <1>0 DEF TypeOK
<1>2. Sent(m)
  BY <1>1 DEF MessagesAreSent
<1>. HIDE DEF m
<1>3. CASE m.type = "execute" /\ SvcExecute(m)
  <2>1. m.who \in Runs /\ m.who \in Calls /\ m.uri \in Uris
    BY <1>0, <1>2, <1>3, RequestFields DEF Sent
  <2>2. queries' \in [Uris -> Runs \cup {None}]
    BY <1>3, <2>1 DEF SvcExecute, TypeOK
  <2>. QED BY <1>0, <1>3, <2>1, <2>2 DEF SvcExecute, Answer, CancelTypes, m
<1>4. CASE m.type = "cancel" /\ SvcCancel(m)
  <2>1. m.who \in Calls /\ m.uri \in Uris
    BY <1>0, <1>4, RequestFields
  <2>2. queries' \in [Uris -> Runs \cup {None}]
    BY <1>4 DEF SvcCancel, TypeOK
  <2>. QED BY <1>0, <1>4, <2>1, <2>2 DEF SvcCancel, Answer, CancelTypes, m
<1>5. CASE m.type = "dispose" /\ SvcDispose(m)
  <2>1. m.who \in Calls /\ m.uri \in Uris
    BY <1>0, <1>5, RequestFields
  <2>2. queries' \in [Uris -> Runs \cup {None}]
    BY <1>5 DEF SvcDispose, TypeOK
  <2>. QED BY <1>0, <1>5, <2>1, <2>2 DEF SvcDispose, Answer, CancelTypes, m
<1>6. CASE m.type = "rename" /\ SvcRename(m)
  <2>1. m.from \in Uris /\ m.to \in Uris
    BY <1>0, <1>6, RequestFields
  <2>2. queries' \in [Uris -> Runs \cup {None}]
    BY <1>6, <2>1 DEF SvcRename, TypeOK
  <2>3. replies' = replies
    BY <1>6 DEF SvcRename
  <2>4. m.type \notin CancelTypes
    BY <1>6 DEF CancelTypes
  <2>. QED BY <1>0, <2>2, <2>3, <2>4 DEF m
<1>. QED BY <1>3, <1>4, <1>5, <1>6 DEF SvcHandle, m

LEMMA SvcHandleTyped ==
    ASSUME TypeOK, MessagesAreSent, SvcHandle
    PROVE  TypeOK'
<1>1. requests' \in Seq(Request) /\ queries' \in [Uris -> Runs \cup {None}]
  <2>1. requests # <<>> /\ requests' = Tail(requests) /\ requests \in Seq(Request)
    BY SvcHandleEffect DEF TypeOK
  <2>2. queries' \in [Uris -> Runs \cup {None}]
    BY SvcHandleEffect
  <2>. QED BY <2>1, <2>2
<1>2. replies' \in Seq(Reply)
  <2>1. CASE replies' = replies
    BY <2>1 DEF TypeOK
  <2>2. CASE replies' # replies
    <3>1. PICK type \in {"refused", "found", "none", "disposed"} :
              /\ Head(requests).who \in Calls /\ Head(requests).uri \in Uris
              /\ replies' = Append(replies, [type |-> type, who |-> Head(requests).who,
                                             uri |-> Head(requests).uri])
      BY <2>2, SvcHandleEffect
    <3>2. [type |-> type, who |-> Head(requests).who, uri |-> Head(requests).uri] \in Reply
      BY <3>1 DEF Reply
    <3>. QED BY <3>1, <3>2 DEF TypeOK
  <2>. QED BY <2>1, <2>2
<1>3. UNCHANGED <<slots, resultsMap, routes, created, runners, pc, runner, at, promise>>
  BY DEF SvcHandle, editorVars, runnerVars, callVars
<1>. QED BY <1>1, <1>2, <1>3 DEF TypeOK

LEMMA SvcCompleteTyped ==
    ASSUME TypeOK, SvcComplete
    PROVE  TypeOK'
<1>1. PICK u \in Uris :
          /\ queries[u] # None
          /\ queries' = [queries EXCEPT ![u] = None]
          /\ replies' = Append(replies, [type |-> "complete", who |-> queries[u], uri |-> u])
  BY DEF SvcComplete
<1>2. queries[u] \in Calls
  BY <1>1, AreCalls DEF TypeOK
<1>3. [type |-> "complete", who |-> queries[u], uri |-> u] \in Reply
  BY <1>2 DEF Reply
<1>4. replies' \in Seq(Reply) /\ queries' \in [Uris -> Runs \cup {None}]
  BY <1>1, <1>3 DEF TypeOK
<1>5. UNCHANGED <<slots, resultsMap, routes, created, runners, pc, runner, at, promise, requests>>
  BY DEF SvcComplete, editorVars, runnerVars, callVars
<1>. QED BY <1>4, <1>5 DEF TypeOK

LEMMA QueryCompleteTyped ==
    ASSUME TypeOK, NEW m \in Reply, QueryComplete(m),
           requests' \in Seq(Request), replies' \in Seq(Reply), UNCHANGED queries
    PROVE  TypeOK'
<1>. DEFINE n == routes[m.uri]
<1>0. m.uri \in Uris
  BY ReplyFields
<1>1. CASE n = 0
  <2>1. UNCHANGED <<slots, resultsMap, routes, created, runners, pc, runner, at, promise>>
    BY <1>1 DEF QueryComplete, editorVars, runnerVars, callVars
  <2>. QED BY <2>1 DEF TypeOK
<1>2. CASE n # 0
  <2>0. n \in Runners
    BY <1>0, <1>2, IsRunner
  <2>1. /\ runners' = [runners EXCEPT ![n] = Ended(runners[n], m.uri)]
        /\ slots' = Without(runners[n].listeners)
        /\ routes' = Unrouted(runners[n].registered \cup {m.uri})
        /\ promise' = Settled({runners[n].promises[m.uri]}, "resolved")
        /\ UNCHANGED <<resultsMap, created, pc, runner, at>>
    BY <1>2 DEF QueryComplete, callVars
  <2>. HIDE DEF n
  <2>2. /\ runners' \in [Runners -> Runner]
        /\ slots' \in [Uris -> Runs \cup {None}]
        /\ routes' \in [Uris -> 0..MaxRunners]
        /\ promise' \in [Runs -> {"none", "pending", "resolved", "rejected"}]
    BY <1>0, <2>0, <2>1, EndTyped
  <2>. QED BY <2>1, <2>2 DEF TypeOK
<1>. QED BY <1>1, <1>2

\* What is at the head of the replies.
LEMMA Received ==
    ASSUME TypeOK, MessagesAreSent, Receive
    PROVE  LET m == Head(replies) IN
           /\ replies # <<>> /\ replies' = Tail(replies) /\ replies' \in Seq(Reply)
           /\ m \in Reply /\ Sent(m)
           /\ requests' \in Seq(Request) /\ UNCHANGED <<requests, queries>>
<1>1. 1 \in DOMAIN replies /\ Head(replies) = replies[1] /\ replies # <<>> /\ Head(replies) \in Reply
  BY DEF Receive, TypeOK
<1>2. Sent(Head(replies))
  BY <1>1 DEF MessagesAreSent
<1>. QED BY <1>1, <1>2 DEF Receive, TypeOK

LEMMA ReceiveTyped ==
    ASSUME TypeOK, StepsHaveRunner, MessagesAreSent, Receive
    PROVE  TypeOK'
<1>. DEFINE m == Head(replies)
<1>0. /\ m \in Reply /\ m.who \in Calls /\ Sent(m)
      /\ requests' \in Seq(Request) /\ replies' \in Seq(Reply) /\ UNCHANGED queries
  BY Received, ReplyFields
<1>. HIDE DEF m
<1>1. CASE m.type = "complete" /\ QueryComplete(m)
  BY <1>0, <1>1, QueryCompleteTyped
<1>2. CASE m.type = "refused" /\ RunFails(m.who)
  BY <1>0, <1>2, RunFailsTyped DEF Sent
<1>3. CASE m.type \in {"found", "none"} /\ CancelAnswered(m)
  <2>0. m.type \in Answers
    BY <1>3 DEF Answers
  <2>1. CASE ResetEnds(m.who, m.type)
    <3>1. m.who \in Runs /\ runner[m.who] # 0
      BY <1>0, <2>1 DEF ResetEnds, StepsHaveRunner
    <3>. QED BY <1>0, <2>0, <2>1, <3>1, ResetEndsTyped
  <2>2. CASE CancelEnds(m.who, m.type)
    <3>1. runner[m.who] # 0
      BY <1>0, <2>2 DEF CancelEnds, StepsHaveRunner
    <3>. QED BY <1>0, <2>0, <2>2, <3>1, CancelEndsTyped
  <2>3. CASE UNCHANGED <<editorVars, runnerVars, callVars, promise>>
    BY <1>0, <2>3 DEF TypeOK, editorVars, runnerVars, callVars
  <2>. QED BY <1>3, <2>1, <2>2, <2>3 DEF CancelAnswered
<1>4. CASE m.type = "disposed" /\ DisposeEnds(m.who)
  <2>1. runner[m.who] # 0
    BY <1>0, <1>4 DEF DisposeEnds, StepsHaveRunner
  <2>. QED BY <1>0, <1>4, <2>1, DisposeEndsTyped
<1>. QED BY <1>1, <1>2, <1>3, <1>4 DEF Receive, m

\* What is unheard is a request or a reply.
LEMMA UnheardIs ==
    ASSUME TypeOK, NEW i \in DOMAIN Unheard
    PROVE  /\ Unheard \in Seq(Request \cup Reply)
           /\ \/ i \in DOMAIN replies /\ Unheard[i] = replies[i]
              \/ /\ i > Len(replies) /\ i - Len(replies) \in DOMAIN requests
                 /\ Unheard[i] = requests[i - Len(replies)]
<1>1. replies \in Seq(Request \cup Reply) /\ requests \in Seq(Request \cup Reply)
  BY DEF TypeOK
<1>. QED BY <1>1 DEF Unheard

\* What may be waited for is a cancel of a known call.
LEMMA WaitedFor ==
    ASSUME TypeOK, NEW i \in DOMAIN Unheard, Waits(Unheard[i])
    PROVE  Unheard[i].who \in Calls /\ Unheard[i].type \in CancelTypes
<1>1. Unheard[i].type \in CancelTypes
  BY DEF Waits, CancelTypes
<1>2. CASE i \in DOMAIN replies /\ Unheard[i] = replies[i]
  BY <1>1, <1>2, ReplyFields DEF TypeOK
<1>3. CASE i - Len(replies) \in DOMAIN requests /\ Unheard[i] = requests[i - Len(replies)]
  <2>1. Unheard[i] \in Request
    BY <1>3 DEF TypeOK
  <2>2. Unheard[i].type \in {"execute", "cancel", "dispose"}
    BY <1>1, <2>1 DEF Request, CancelTypes
  <2>. QED BY <1>1, <2>1, <2>2, RequestFields
<1>. QED BY <1>2, <1>3, UnheardIs

LEMMA TimeOutTyped ==
    ASSUME TypeOK, StepsHaveRunner, TimeOut
    PROVE  TypeOK'
<1>1. PICK i \in DOMAIN Unheard :
          /\ Waits(Unheard[i])
          /\ LET c == Unheard[i].who IN ResetEnds(c, "failed") \/ CancelEnds(c, "failed")
  BY DEF TimeOut
<1>. DEFINE c == Unheard[i].who
<1>2. c \in Calls
  BY <1>1, WaitedFor
<1>3. "failed" \in Answers
  BY DEF Answers
<1>4. requests' \in Seq(Request) /\ replies' \in Seq(Reply) /\ UNCHANGED queries
  BY DEF TimeOut, wireVars, TypeOK
<1>. HIDE DEF c
<1>5. CASE ResetEnds(c, "failed")
  <2>1. c \in Runs /\ runner[c] # 0
    BY <1>2, <1>5 DEF ResetEnds, StepsHaveRunner
  <2>. QED BY <1>3, <1>4, <1>5, <2>1, ResetEndsTyped
<1>6. CASE CancelEnds(c, "failed")
  <2>1. runner[c] # 0
    BY <1>2, <1>6 DEF CancelEnds, StepsHaveRunner
  <2>. QED BY <1>2, <1>3, <1>4, <1>6, <2>1, CancelEndsTyped
<1>. QED BY <1>1, <1>5, <1>6 DEF c

-----------------------------------------------------------------------------
(* What the actions do to calls                                             *)

\* A call that has begun keeps its runner and is never set up again.
CallsGoOn ==
    \A c \in Calls :
        /\ pc[c] # "idle" => pc'[c] # "idle" /\ runner'[c] = runner[c]
        /\ pc[c] \notin {"idle", "reset", "panel"} => pc'[c] \notin {"idle", "reset", "panel"}
        /\ runner[c] # 0 => runner'[c] # 0
        /\ pc'[c] \in {"idle", "saved"} => pc[c] \in {"idle", "saved"}

LEMMA CallsStay ==
    ASSUME TypeOK, StepsHaveRunner, UNCHANGED <<pc, runner>>
    PROVE  CallsGoOn /\ StepsHaveRunner'
BY DEF CallsGoOn, StepsHaveRunner

LEMMA CallMoves ==
    ASSUME TypeOK, StepsHaveRunner, NEW c \in Calls, NEW step \in Steps, Goto(c, step),
           step # "idle",
           step \in {"reset", "saved"} => pc[c] = "idle",
           step = "panel" => pc[c] \in {"idle", "reset"},
           \A d \in Calls \ {c} : runner'[d] = runner[d],
           pc[c] # "idle" => runner'[c] = runner[c],
           runner[c] # 0 => runner'[c] # 0,
           step \in {"reset", "panel", "reading", "submitted"} => c \in Runs,
           step = "canceling" => c \in Cancels,
           step \in {"closing", "disposing", "closed", "saved"} => c \in Changes,
           step \in {"reset", "panel", "reading", "submitted", "canceling", "closing", "disposing"}
               => runner'[c] # 0
    PROVE  CallsGoOn /\ StepsHaveRunner'
<1>1. pc' = [pc EXCEPT ![c] = step] /\ pc \in [Calls -> Steps]
  BY DEF Goto, TypeOK
<1>2. CallsGoOn
  BY <1>1 DEF CallsGoOn
<1>3. StepsHaveRunner'
  BY <1>1 DEF StepsHaveRunner
<1>. QED BY <1>2, <1>3

\* What changes no slot and ends no query.
Quiet ==
    /\ UNCHANGED <<slots, created>>
    /\ \A n \in Runners : /\ runners'[n].uri = runners[n].uri
                          /\ runners'[n].executing = runners[n].executing
                          /\ runners'[n].listeners = runners[n].listeners
    /\ \A c \in Calls : runner'[c] = runner[c] \/ (c \notin Runs /\ runner'[c] <= created)
    /\ \A r \in Runs : \/ pc'[r] = pc[r]
                       \/ /\ pc[r] # "reset"
                          /\ pc[r] = "panel" => ~HoldsSlot(r)
                          /\ pc'[r] \notin {"idle", "reset", "panel"}
    /\ \A u \in Uris : resultsMap'[u] = resultsMap[u] \/ (resultsMap'[u] = 0 /\ ~NothingClosed')
    /\ \A u \in Uris : routes'[u] = routes[u] \/ routes'[u] = 0

\* The query of a runner ends, and these runs lose their slot.
Ends(n, released) ==
    /\ n <= created
    /\ created' = created
    /\ runner' = runner
    /\ runners' = [runners EXCEPT ![n] = runners'[n]]
    /\ runners'[n].uri = runners[n].uri
    /\ ~runners'[n].executing
    /\ runners'[n].listeners = {}
    /\ runners[n].listeners \subseteq released
    /\ \A r \in released : runner[r] = n
    /\ slots' = Without(released)
    /\ \A r \in Runs : pc'[r] = pc[r] \/ (r \in released /\ pc'[r] \notin {"idle", "reset", "panel"})
    /\ \A r \in released : pc'[r] # "reset"
    /\ \A u \in Uris : resultsMap'[u] = resultsMap[u] \/ (resultsMap'[u] = 0 /\ ~NothingClosed')
    /\ \A u \in Uris : routes'[u] = routes[u] \/ routes'[u] = 0

AnEnd == \E n \in Runners, released \in SUBSET Runs : Ends(n, released)

TInv == TypeOK /\ StepsHaveRunner /\ RunnersAreMade /\ ListenersAreSetUp /\ MessagesAreSent

LEMMA BlockedEffect ==
    ASSUME TInv, NEW r \in Runs, NEW u \in Uris, pc[r] = "idle", Blocked(r, u)
    PROVE  CallsGoOn /\ StepsHaveRunner' /\ Quiet
<1>. USE AreCalls DEF TInv
<1>1. Goto(r, "over") /\ UNCHANGED <<slots, resultsMap, routes, created, runners, runner>>
  BY DEF Blocked, editorVars, runnerVars
<1>2. CallsGoOn /\ StepsHaveRunner'
  BY <1>1, CallMoves DEF Steps
<1>3. /\ \A s \in Runs : s # r => pc'[s] = pc[s]
      /\ pc'[r] = "over"
  BY <1>1 DEF Goto, TypeOK
<1>. QED BY <1>1, <1>2, <1>3 DEF Quiet

LEMMA SubmitEffect ==
    ASSUME TInv, NEW r \in Runs, Submit(r)
    PROVE  CallsGoOn /\ StepsHaveRunner' /\ Quiet
<1>. USE AreCalls DEF TInv
<1>1. /\ Goto(r, "submitted") /\ pc[r] = "reading"
      /\ UNCHANGED <<slots, resultsMap, routes, created, runners, runner>>
  BY DEF Submit, editorVars, runnerVars
<1>2. runner[r] # 0
  BY <1>1 DEF StepsHaveRunner
<1>3. CallsGoOn /\ StepsHaveRunner'
  BY <1>1, <1>2, CallMoves DEF Steps
<1>4. /\ \A s \in Runs : s # r => pc'[s] = pc[s]
      /\ pc'[r] = "submitted"
  BY <1>1 DEF Goto, TypeOK
<1>. QED BY <1>1, <1>3, <1>4 DEF Quiet

\* A call that is no run moves on: no run notices.
LEMMA OthersMove ==
    ASSUME TypeOK, NEW c \in Cancels \cup Changes, NEW step, Goto(c, step)
    PROVE  c \notin Runs /\ \A r \in Runs : pc'[r] = pc[r]
BY EditorAssumption, AreCalls DEF TypeOK, Goto

\* cancelQuery asks the service to cancel the runner's query ...
CancelAsks(c, u) ==
    LET n == resultsMap[u] IN
        /\ n # 0
        /\ runners[n].executing
        /\ Goto(c, "canceling")
        /\ runner' = [runner EXCEPT ![c] = n]
        /\ Ask("cancel", c, runners[n].uri)
        /\ UNCHANGED slots

\* ... or takes the slot away from a run that is being set up.
CancelTakes(c, u) ==
    /\ ~(resultsMap[u] # 0 /\ runners[resultsMap[u]].executing)
    /\ slots[u] # None
    /\ slots' = [slots EXCEPT ![u] = None]
    /\ Goto(c, "over")
    /\ UNCHANGED <<runner, requests>>

LEMMA CancelIs ==
    ASSUME NEW c, Cancel(c)
    PROVE  /\ pc[c] = "idle"
           /\ \E u \in Uris : CancelAsks(c, u) \/ CancelTakes(c, u)
           /\ UNCHANGED <<resultsMap, routes, created, runners, at, promise, replies, queries>>
BY DEF Cancel, CancelAsks, CancelTakes, runnerVars

LEMMA CancelAsksEffect ==
    ASSUME TInv, NEW c \in Cancels, NEW u \in Uris, pc[c] = "idle", CancelAsks(c, u),
           UNCHANGED <<resultsMap, routes, created, runners>>
    PROVE  CallsGoOn /\ StepsHaveRunner' /\ Quiet
<1>. USE AreCalls DEF TInv
<1>1. Goto(c, "canceling") /\ runner' = [runner EXCEPT ![c] = resultsMap[u]] /\ resultsMap[u] # 0
  BY DEF CancelAsks
<1>2. CallsGoOn /\ StepsHaveRunner'
  <2>1. runner'[c] # 0 /\ \A d \in Calls \ {c} : runner'[d] = runner[d]
    BY <1>1 DEF TypeOK
  <2>. QED BY <1>1, <2>1, CallMoves DEF Steps
<1>3. c \notin Runs /\ \A r \in Runs : pc'[r] = pc[r]
  BY <1>1, OthersMove
<1>4. \A d \in Calls : runner'[d] = runner[d] \/ (d \notin Runs /\ runner'[d] <= created)
  BY <1>1, <1>3 DEF TypeOK, RunnersAreMade
<1>. QED BY <1>2, <1>3, <1>4 DEF Quiet, CancelAsks

LEMMA CancelTakesEffect ==
    ASSUME TInv, NEW c \in Cancels, NEW u \in Uris, pc[c] = "idle", CancelTakes(c, u)
    PROVE  CallsGoOn /\ StepsHaveRunner'
<1>1. Goto(c, "over") /\ UNCHANGED runner
  BY DEF CancelTakes
<1>. QED BY <1>1, CallMoves, AreCalls DEF Steps, TInv

LEMMA CloseEffect ==
    ASSUME TInv, NEW c \in Changes, Close(c)
    PROVE  CallsGoOn /\ StepsHaveRunner' /\ Quiet
<1>. USE AreCalls DEF TInv
<1>1. PICK u \in Uris :
          LET n == resultsMap[u] IN
          /\ n # 0
          /\ runner' = [runner EXCEPT ![c] = n]
          /\ IF runners[n].executing
             THEN Goto(c, "closing") /\ UNCHANGED resultsMap
             ELSE Goto(c, "disposing") /\ resultsMap' = [resultsMap EXCEPT ![u] = 0]
  BY DEF Close
<1>2. pc[c] = "idle" /\ UNCHANGED <<slots, routes, created, runners>>
  BY DEF Close, runnerVars
<1>3. PICK step \in {"closing", "disposing"} : Goto(c, step)
  BY <1>1
<1>4. CallsGoOn /\ StepsHaveRunner'
  <2>1. runner'[c] # 0 /\ \A d \in Calls \ {c} : runner'[d] = runner[d]
    BY <1>1 DEF TypeOK
  <2>2. step \in Steps
    BY <1>3 DEF Steps
  <2>. QED BY <1>2, <1>3, <2>1, <2>2, CallMoves
<1>5. c \notin Runs /\ \A r \in Runs : pc'[r] = pc[r]
  BY <1>3, OthersMove
<1>6. \A d \in Calls : runner'[d] = runner[d] \/ (d \notin Runs /\ runner'[d] <= created)
  BY <1>1, <1>5 DEF TypeOK, RunnersAreMade
<1>7. ~NothingClosed'
  <2>1. pc'[c] = step
    BY <1>3 DEF TypeOK, Goto
  <2>. QED BY <1>3, <2>1 DEF NothingClosed
<1>8. \A v \in Uris : resultsMap'[v] = resultsMap[v] \/ (resultsMap'[v] = 0 /\ ~NothingClosed')
  BY <1>1, <1>7 DEF TypeOK
<1>. QED BY <1>2, <1>4, <1>5, <1>6, <1>8 DEF Quiet

\* Neither calls nor editors notice.
LEMMA StutterEffect ==
    ASSUME TInv, UNCHANGED <<editorVars, runnerVars, callVars>>
    PROVE  CallsGoOn /\ StepsHaveRunner' /\ Quiet
<1>1. UNCHANGED <<slots, resultsMap, routes, created, runners, pc, runner>>
  BY DEF editorVars, runnerVars, callVars
<1>2. CallsGoOn /\ StepsHaveRunner'
  BY <1>1, CallsStay DEF TInv
<1>. QED BY <1>1, <1>2 DEF Quiet

LEMMA SvcHandleEditor ==
    ASSUME TInv, SvcHandle
    PROVE  CallsGoOn /\ StepsHaveRunner' /\ Quiet
BY StutterEffect DEF SvcHandle

LEMMA SvcCompleteEditor ==
    ASSUME TInv, SvcComplete
    PROVE  CallsGoOn /\ StepsHaveRunner' /\ Quiet
BY StutterEffect DEF SvcComplete

\* What the end of a query does to its runner.
LEMMA RunnerEnds ==
    ASSUME TypeOK, NEW n \in Runners, NEW u \in Uris,
           runners' = [runners EXCEPT ![n] = Ended(runners[n], u)]
    PROVE  /\ runners' = [runners EXCEPT ![n] = runners'[n]]
           /\ runners'[n].uri = runners[n].uri
           /\ ~runners'[n].executing
           /\ runners'[n].listeners = {}
<1>1. runners'[n] = Ended(runners[n], u)
  BY DEF TypeOK
<1>2. runners[n] \in Runner
  BY IsRunner
<1>3. runners' = [runners EXCEPT ![n] = runners'[n]]
  BY <1>1
<1>4. /\ Ended(runners[n], u).uri = runners[n].uri
      /\ Ended(runners[n], u).executing = FALSE
      /\ Ended(runners[n], u).listeners = {}
  BY <1>2, EndedFields
<1>. QED BY <1>1, <1>3, <1>4

\* The listeners of a runner are runs of its own that have been set up.
LEMMA ListenersOf ==
    ASSUME TInv, NEW n \in Runners
    PROVE  /\ runners[n].listeners \in SUBSET Runs
           /\ \A r \in runners[n].listeners : runner[r] = n /\ pc[r] \notin {"idle", "reset", "panel"}
BY IsRunner, RunnerFields DEF TInv, ListenersAreSetUp

LEMMA UnroutedShrinks ==
    ASSUME NEW uris, routes' = Unrouted(uris)
    PROVE  \A u \in Uris : routes'[u] = routes[u] \/ routes'[u] = 0
BY DEF Unrouted

LEMMA RunFailsEffect ==
    ASSUME TInv, NEW r \in Runs, runner[r] # 0, RunFails(r), pc[r] # "idle"
    PROVE  CallsGoOn /\ StepsHaveRunner' /\ AnEnd
<1>. USE AreCalls DEF TInv
<1>. DEFINE n == runner[r]
            released == runners[n].listeners \cup {r}
<1>0. n \in Runners /\ n <= created
  BY IsRunner DEF RunnersAreMade
<1>1. runners[n].uri \in Uris
  BY <1>0, IsRunner, RunnerFields
<1>2. /\ Goto(r, "over")
      /\ runners' = [runners EXCEPT ![n] = Ended(runners[n], runners[n].uri)]
      /\ slots' = Without(released)
      /\ routes' = Unrouted(runners[n].registered)
      /\ UNCHANGED <<resultsMap, created, runner, at>>
  BY DEF RunFails
<1>3. CallsGoOn /\ StepsHaveRunner'
  BY <1>2, CallMoves DEF Steps
<1>4. /\ runners[n].listeners \in SUBSET Runs
      /\ \A s \in runners[n].listeners : runner[s] = n /\ pc[s] \notin {"idle", "reset", "panel"}
  BY <1>0, ListenersOf
<1>. HIDE DEF n
<1>5. \A s \in released : runner[s] = n
  BY <1>4 DEF n
<1>6. /\ \A s \in Runs : pc'[s] = pc[s] \/ (s \in released /\ pc'[s] \notin {"idle", "reset", "panel"})
      /\ \A s \in released : pc'[s] # "reset"
  BY <1>2, <1>4 DEF Goto, TypeOK
<1>7. \A u \in Uris : routes'[u] = routes[u] \/ routes'[u] = 0
  BY <1>2, UnroutedShrinks
<1>8. /\ runners' = [runners EXCEPT ![n] = runners'[n]]
      /\ runners'[n].uri = runners[n].uri
      /\ ~runners'[n].executing
      /\ runners'[n].listeners = {}
  BY <1>0, <1>1, <1>2, RunnerEnds
<1>9. runners[n].listeners \subseteq released /\ released \in SUBSET Runs
  BY <1>4
<1>. HIDE DEF released
<1>10. Ends(n, released)
  BY <1>0, <1>2, <1>5, <1>6, <1>7, <1>8, <1>9 DEF Ends
<1>. QED BY <1>0, <1>3, <1>9, <1>10 DEF AnEnd

\* The end of a query no run of the moment speaks for.
LEMMA QuietEnd ==
    ASSUME TInv, NEW n \in Runners, n <= created, NEW u \in Uris, NEW uris,
           runners' = [runners EXCEPT ![n] = Ended(runners[n], u)],
           slots' = Without(runners[n].listeners), routes' = Unrouted(uris),
           UNCHANGED <<created, runner>>,
           \A r \in Runs : pc'[r] = pc[r],
           \A v \in Uris : resultsMap'[v] = resultsMap[v] \/ (resultsMap'[v] = 0 /\ ~NothingClosed')
    PROVE  AnEnd
<1>. USE DEF TInv
<1>. DEFINE released == runners[n].listeners
<1>1. released \in SUBSET Runs /\ \A r \in released : runner[r] = n /\ pc[r] \notin {"idle", "reset", "panel"}
  BY ListenersOf
<1>2. /\ runners' = [runners EXCEPT ![n] = runners'[n]]
      /\ runners'[n].uri = runners[n].uri
      /\ ~runners'[n].executing
      /\ runners'[n].listeners = {}
  BY RunnerEnds
<1>3. \A v \in Uris : routes'[v] = routes[v] \/ routes'[v] = 0
  BY UnroutedShrinks
<1>4. \A r \in released : pc'[r] # "reset"
  BY <1>1
<1>5. slots' = Without(released) /\ runners[n].listeners \subseteq released
  OBVIOUS
<1>. HIDE DEF released
<1>6. Ends(n, released)
  BY <1>1, <1>2, <1>3, <1>4, <1>5 DEF Ends
<1>. QED BY <1>1, <1>6 DEF AnEnd

LEMMA RecoverEffect ==
    ASSUME TInv, NEW n \in Runners, Recover(n)
    PROVE  CallsGoOn /\ StepsHaveRunner' /\ AnEnd
<1>1. /\ runners[n].executing
      /\ runners' = [runners EXCEPT ![n] = Ended(runners[n], runners[n].uri)]
      /\ slots' = Without(runners[n].listeners)
      /\ routes' = Unrouted(runners[n].registered)
      /\ UNCHANGED <<resultsMap, created, pc, runner, at>>
  BY DEF Recover, Cleanup, callVars
<1>2. n <= created
  BY <1>1 DEF TInv, RunnersAreMade, Runners, TypeOK
<1>3. runners[n].uri \in Uris
  BY IsRunner, RunnerFields DEF TInv
<1>4. CallsGoOn /\ StepsHaveRunner'
  BY <1>1, CallsStay DEF TInv
<1>5. AnEnd
  BY <1>1, <1>2, <1>3, QuietEnd
<1>. QED BY <1>4, <1>5

\* dispose() and a failed cancel() end the query of a change or a cancel.
LEMMA CleanupEffect ==
    ASSUME TInv, NEW c \in Cancels \cup Changes, NEW step, Goto(c, step), runner[c] # 0,
           NEW result, Cleanup(runner[c], result), UNCHANGED <<created, runner>>,
           \A v \in Uris : resultsMap'[v] = resultsMap[v] \/ (resultsMap'[v] = 0 /\ ~NothingClosed')
    PROVE  AnEnd
<1>. DEFINE n == runner[c]
<1>1. n \in Runners /\ n <= created
  BY IsRunner, AreCalls DEF TInv, RunnersAreMade
<1>2. runners[n].uri \in Uris
  BY <1>1, IsRunner, RunnerFields DEF TInv
<1>3. \A r \in Runs : pc'[r] = pc[r]
  BY OthersMove DEF TInv
<1>4. /\ runners' = [runners EXCEPT ![n] = Ended(runners[n], runners[n].uri)]
      /\ slots' = Without(runners[n].listeners)
      /\ routes' = Unrouted(runners[n].registered)
  BY DEF Cleanup
<1>. HIDE DEF n
<1>. QED BY <1>1, <1>2, <1>3, <1>4, QuietEnd

LEMMA DisposeEndsEffect ==
    ASSUME TInv, NEW c \in Calls, DisposeEnds(c)
    PROVE  CallsGoOn /\ StepsHaveRunner' /\ AnEnd
<1>. USE AreCalls DEF TInv
<1>1. /\ pc[c] = "disposing" /\ Goto(c, "closed") /\ Cleanup(runner[c], "resolved")
      /\ UNCHANGED <<resultsMap, created, runner, at>>
  BY DEF DisposeEnds
<1>2. c \in Changes /\ runner[c] # 0
  BY <1>1 DEF StepsHaveRunner
<1>3. CallsGoOn /\ StepsHaveRunner'
  BY <1>1, <1>2, CallMoves DEF Steps
<1>4. AnEnd
  BY <1>1, <1>2, CleanupEffect
<1>. QED BY <1>3, <1>4

LEMMA CancelEndsEffect ==
    ASSUME TInv, NEW c \in Calls, NEW answer \in Answers, CancelEnds(c, answer)
    PROVE  CallsGoOn /\ StepsHaveRunner' /\ (Quiet \/ AnEnd)
<1>. USE AreCalls DEF TInv
<1>. DEFINE n == runner[c]
            step == IF pc[c] = "closing" THEN "closed" ELSE "over"
<1>1. pc[c] \in {"canceling", "closing"} /\ Goto(c, step) /\ UNCHANGED <<created, runner, at>>
  BY DEF CancelEnds
<1>2. /\ c \in Cancels \cup Changes /\ runner[c] # 0
      /\ pc[c] = "closing" => c \in Changes
  BY <1>1 DEF StepsHaveRunner
<1>3. CallsGoOn /\ StepsHaveRunner'
  <2>1. step \in Steps /\ (step = "closed" => c \in Changes) /\ step \in {"closed", "over"}
    BY <1>1, <1>2 DEF Steps
  <2>. HIDE DEF step
  <2>. QED BY <1>1, <1>2, <2>1, CallMoves
<1>4. \A v \in Uris : resultsMap'[v] = resultsMap[v] \/ (resultsMap'[v] = 0 /\ ~NothingClosed')
  <2>1. CASE pc[c] = "closing"
    <3>1. pc'[c] = "closed"
      BY <1>1, <2>1 DEF Goto, TypeOK
    <3>2. ~NothingClosed'
      BY <1>2, <2>1, <3>1 DEF NothingClosed
    <3>3. resultsMap' = [resultsMap EXCEPT ![at[c]] = 0]
      BY <2>1 DEF CancelEnds
    <3>. QED BY <3>2, <3>3 DEF TypeOK
  <2>2. CASE pc[c] # "closing"
    BY <2>2 DEF CancelEnds
  <2>. QED BY <2>1, <2>2
<1>5. c \notin Runs /\ \A r \in Runs : pc'[r] = pc[r]
  BY <1>1, <1>2, OthersMove
<1>6. CASE answer = "failed"
  <2>1. Cleanup(runner[c], "rejected")
    BY <1>6 DEF CancelEnds
  <2>. QED BY <1>1, <1>2, <1>3, <1>4, <2>1, CleanupEffect
<1>7. CASE answer # "failed"
  <2>0. n \in Runners
    BY <1>2, IsRunner
  <2>1. runners' = [runners EXCEPT ![n] = AfterCancel(runners[n], answer)]
    BY <1>7 DEF CancelEnds
  <2>2. UNCHANGED <<slots, routes>>
    BY <1>7 DEF CancelEnds
  <2>3. /\ AfterCancel(runners[n], answer).uri = runners[n].uri
        /\ AfterCancel(runners[n], answer).executing = runners[n].executing
        /\ AfterCancel(runners[n], answer).listeners = runners[n].listeners
    BY <1>7, <2>0, IsRunner, AfterCancelFields
  <2>. HIDE DEF n
  <2>4. \A k \in Runners : /\ runners'[k].uri = runners[k].uri
                           /\ runners'[k].executing = runners[k].executing
                           /\ runners'[k].listeners = runners[k].listeners
    <3>. TAKE k \in Runners
    <3>1. CASE k = n
      <4>1. runners'[k] = AfterCancel(runners[k], answer)
        BY <2>1, <3>1 DEF TypeOK
      <4>. QED BY <2>3, <3>1, <4>1
    <3>2. CASE k # n
      <4>1. runners'[k] = runners[k]
        BY <2>1, <3>2 DEF TypeOK
      <4>. QED BY <4>1
    <3>. QED BY <3>1, <3>2
  <2>5. Quiet
    BY <1>1, <1>4, <1>5, <2>2, <2>4 DEF Quiet
  <2>. QED BY <1>3, <2>5
<1>. QED BY <1>6, <1>7

LEMMA QueryCompleteEffect ==
    ASSUME TInv, NEW m \in Reply, QueryComplete(m)
    PROVE  CallsGoOn /\ StepsHaveRunner' /\ (Quiet \/ AnEnd)
<1>. DEFINE n == routes[m.uri]
<1>0. m.uri \in Uris
  BY ReplyFields
<1>1. CASE n = 0
  BY <1>1, StutterEffect DEF QueryComplete
<1>2. CASE n # 0
  <2>0. n \in Runners /\ n <= created
    BY <1>0, <1>2, IsRunner DEF TInv, RunnersAreMade
  <2>1. /\ runners' = [runners EXCEPT ![n] = Ended(runners[n], m.uri)]
        /\ slots' = Without(runners[n].listeners)
        /\ routes' = Unrouted(runners[n].registered \cup {m.uri})
        /\ UNCHANGED <<resultsMap, created, pc, runner, at>>
    BY <1>2 DEF QueryComplete, callVars
  <2>2. CallsGoOn /\ StepsHaveRunner'
    BY <2>1, CallsStay DEF TInv
  <2>. HIDE DEF n
  <2>3. AnEnd
    BY <1>0, <2>0, <2>1, QuietEnd
  <2>. QED BY <2>2, <2>3
<1>. QED BY <1>1, <1>2

LEMMA ReuseCalls ==
    ASSUME TInv, NEW r \in Runs, NEW u \in Uris, pc[r] = "idle", Reuse(r, u)
    PROVE  CallsGoOn /\ StepsHaveRunner'
<1>1. Goto(r, "reset") /\ runner' = [runner EXCEPT ![r] = resultsMap[u]] /\ resultsMap[u] # 0
  BY DEF Reuse
<1>2. runner'[r] # 0 /\ \A d \in Calls \ {r} : runner'[d] = runner[d]
  BY <1>1, AreCalls DEF TypeOK, TInv
<1>. QED BY <1>1, <1>2, CallMoves, AreCalls DEF TInv, Steps

LEMMA CreateCalls ==
    ASSUME TInv, NEW r \in Runs, NEW u \in Uris, pc[r] = "idle", Create(r, u)
    PROVE  CallsGoOn /\ StepsHaveRunner'
<1>1. Goto(r, "panel") /\ runner' = [runner EXCEPT ![r] = created + 1] /\ created + 1 # 0
  BY DEF Create, TypeOK, TInv
<1>2. runner'[r] # 0 /\ \A d \in Calls \ {r} : runner'[d] = runner[d]
  BY <1>1, AreCalls DEF TypeOK, TInv
<1>. QED BY <1>1, <1>2, CallMoves, AreCalls DEF TInv, Steps

LEMMA SaveAsCalls ==
    ASSUME TInv, NEW c \in Changes, NEW u \in Uris, NEW v \in Uris, SaveAs(c, u, v)
    PROVE  CallsGoOn /\ StepsHaveRunner'
<1>1. Goto(c, "saved") /\ UNCHANGED runner /\ pc[c] = "idle"
  BY DEF SaveAs
<1>. QED BY <1>1, CallMoves, AreCalls DEF TInv, Steps

LEMMA ResetEndsCalls ==
    ASSUME TInv, NEW r \in Calls, NEW answer, ResetEnds(r, answer)
    PROVE  r \in Runs /\ runner[r] # 0 /\ CallsGoOn /\ StepsHaveRunner'
<1>1. pc[r] = "reset" /\ UNCHANGED runner
  BY DEF ResetEnds
<1>2. r \in Runs /\ runner[r] # 0
  BY <1>1 DEF TInv, StepsHaveRunner
<1>3. Goto(r, "panel")
  BY DEF ResetEnds
<1>. QED BY <1>1, <1>2, <1>3, CallMoves DEF TInv, Steps

\* What a reset does to its runner, and to the slots.
ResetEffect(r, answer) ==
    LET n == runner[r] IN
        /\ pc[r] = "reset"
        /\ UNCHANGED <<resultsMap, created, runner>>
        /\ runners' = [runners EXCEPT ![n] = runners'[n]]
        /\ runners'[n].uri = runners[n].uri
        /\ ~runners'[n].executing
        /\ runners'[n].listeners = IF answer = "failed" THEN {} ELSE runners[n].listeners
        /\ slots' = IF answer = "failed" THEN Without(runners[n].listeners) ELSE slots
        /\ \A c \in Calls \ {r} : pc'[c] = pc[c]
        /\ pc'[r] = "panel"
        /\ \A u \in Uris : routes'[u] = routes[u] \/ routes'[u] = 0

LEMMA ResetEndsEffect ==
    ASSUME TInv, NEW r \in Calls, NEW answer \in Answers, ResetEnds(r, answer)
    PROVE  ResetEffect(r, answer)
<1>. USE DEF TInv
<1>. DEFINE n == runner[r]
            x == runners[n]
            left == AfterCancel(x, answer)
            clean == [left EXCEPT !.executing = FALSE, !.promises[x.uri] = None]
            kept == IF answer = "failed" THEN {} ELSE x.listeners
            dropped == IF answer = "failed" THEN x.registered ELSE {}
<1>0. r \in Runs /\ n \in Runners
  BY ResetEndsCalls, IsRunner
<1>1. x \in Runner /\ x.uri \in Uris
  BY <1>0, IsRunner, RunnerFields
<1>2. left \in Runner /\ left.uri = x.uri /\ left.listeners = kept
  BY <1>1, AfterCancelFields
<1>3. clean.uri = x.uri /\ clean.executing = FALSE /\ clean.listeners = kept
  <2>. HIDE DEF left, kept
  <2>. QED BY <1>1, <1>2 DEF Runner
<1>4. /\ pc[r] = "reset" /\ UNCHANGED <<resultsMap, created, runner>>
      /\ runners' = [runners EXCEPT ![n] = clean]
      /\ slots' = IF answer = "failed" THEN Without(x.listeners) ELSE slots
      /\ routes' = Unrouted(dropped)
      /\ Goto(r, "panel")
  BY DEF ResetEnds
<1>. HIDE DEF clean
<1>5. runners'[n] = clean
  <2>. HIDE DEF n
  <2>. QED BY <1>0, <1>4 DEF TypeOK
<1>6. runners' = [runners EXCEPT ![n] = runners'[n]]
  <2>. HIDE DEF n
  <2>. QED BY <1>4, <1>5
<1>7. pc'[r] = "panel" /\ \A c \in Calls \ {r} : pc'[c] = pc[c]
  BY <1>4 DEF Goto, TypeOK
<1>8. \A u \in Uris : routes'[u] = routes[u] \/ routes'[u] = 0
  BY <1>4, UnroutedShrinks
<1>. QED BY <1>3, <1>4, <1>5, <1>6, <1>7, <1>8 DEF ResetEffect

LEMMA PreparedCalls ==
    ASSUME TInv, NEW r \in Runs, Prepared(r)
    PROVE  runner[r] # 0 /\ CallsGoOn /\ StepsHaveRunner'
<1>1. pc[r] = "panel" /\ UNCHANGED runner
  BY PreparedIs
<1>2. runner[r] # 0
  BY <1>1, AreCalls DEF TInv, StepsHaveRunner
<1>3. PICK step \in {"reading", "over"} : Goto(r, step)
  BY PreparedIs DEF PreparedWins, PreparedLoses
<1>4. step \in Steps
  BY <1>3 DEF Steps
<1>. QED BY <1>1, <1>2, <1>3, <1>4, CallMoves, AreCalls DEF TInv

\* A run that lost its slot leaves the editors alone.
LEMMA PreparedLosesEffect ==
    ASSUME TInv, NEW r \in Runs, Prepared(r), PreparedLoses(r)
    PROVE  Quiet
<1>1. pc[r] = "panel" /\ UNCHANGED <<slots, resultsMap, created, runner>>
  BY PreparedIs
<1>2. ~HoldsSlot(r) /\ Goto(r, "over") /\ UNCHANGED <<routes, runners>>
  BY DEF PreparedLoses
<1>3. \A s \in Runs : s # r => pc'[s] = pc[s]
  BY <1>2, AreCalls DEF TInv, TypeOK, Goto
<1>4. pc'[r] = "over"
  BY <1>2, AreCalls DEF TInv, TypeOK, Goto
<1>. QED BY <1>1, <1>2, <1>3, <1>4 DEF Quiet

\* What setting a run up does to its runner.
SetUpEffect(r) ==
    LET n == runner[r] IN
        /\ HoldsSlot(r)
        /\ pc[r] = "panel"
        /\ UNCHANGED <<slots, resultsMap, created, runner>>
        /\ runners' = [runners EXCEPT ![n] = runners'[n]]
        /\ runners'[n].uri = runners[n].uri
        /\ runners'[n].executing
        /\ runners'[n].listeners = runners[n].listeners \cup {r}
        /\ \A c \in Calls \ {r} : pc'[c] = pc[c]
        /\ pc'[r] = "reading"
        /\ \A u \in Uris : routes'[u] \in {routes[u], n}

LEMMA PreparedWinsEffect ==
    ASSUME TInv, NEW r \in Runs, Prepared(r), PreparedWins(r)
    PROVE  SetUpEffect(r)
<1>. USE AreCalls DEF TInv
<1>. DEFINE n == runner[r]
            x == runners[n]
<1>0. n \in Runners
  BY PreparedCalls, IsRunner
<1>1. x \in Runner
  BY <1>0, IsRunner
<1>2. /\ SetUp(x, r).uri = x.uri /\ SetUp(x, r).executing = TRUE
      /\ SetUp(x, r).listeners = x.listeners \cup {r}
  BY <1>1, SetUpFields
<1>3. pc[r] = "panel" /\ UNCHANGED <<slots, resultsMap, created, runner>>
  BY PreparedIs
<1>4. /\ HoldsSlot(r) /\ Goto(r, "reading")
      /\ runners' = [runners EXCEPT ![n] = SetUp(x, r)]
      /\ routes' = routes \/ routes' = [routes EXCEPT ![x.uri] = n]
  BY DEF PreparedWins
<1>5. runners'[n] = SetUp(x, r)
  <2>. HIDE DEF n
  <2>. QED BY <1>0, <1>4 DEF TypeOK
<1>6. runners' = [runners EXCEPT ![n] = runners'[n]]
  <2>. HIDE DEF n
  <2>. QED BY <1>4, <1>5
<1>7. pc'[r] = "reading" /\ \A c \in Calls \ {r} : pc'[c] = pc[c]
  BY <1>4 DEF Goto, TypeOK
<1>8. \A u \in Uris : routes'[u] \in {routes[u], n}
  <2>. HIDE DEF n, x
  <2>. QED BY <1>4 DEF TypeOK
<1>. QED BY <1>2, <1>3, <1>4, <1>5, <1>6, <1>7, <1>8 DEF SetUpEffect

\* What Save As does to the editors' runners and slots.
SaveAsEffect(u, v) ==
    LET n == resultsMap[u] IN
        /\ u # v
        /\ resultsMap[v] = 0
        /\ slots[v] = None
        /\ UNCHANGED <<created, runner>>
        /\ slots' = IF slots[u] = None THEN slots
                    ELSE [slots EXCEPT ![v] = slots[u], ![u] = None]
        /\ resultsMap' = IF n = 0 THEN resultsMap ELSE [resultsMap EXCEPT ![v] = n, ![u] = 0]
        /\ \A k \in Runners :
              /\ runners'[k].uri = IF k = n THEN v ELSE runners[k].uri
              /\ runners'[k].executing = runners[k].executing
              /\ runners'[k].listeners = runners[k].listeners
        /\ \A r \in Runs : pc'[r] = pc[r]
        /\ \A w \in Uris : routes'[w] \in {routes[w], n}

LEMMA SaveAsHasEffect ==
    ASSUME TInv, NEW c \in Changes, NEW u \in Uris, NEW v \in Uris, SaveAs(c, u, v)
    PROVE  SaveAsEffect(u, v)
<1>. USE DEF TInv
<1>. DEFINE n == resultsMap[u]
<1>1. /\ u # v /\ resultsMap[v] = 0 /\ slots[v] = None
      /\ UNCHANGED <<created, runner>>
      /\ slots' = IF slots[u] = None THEN slots
                  ELSE [slots EXCEPT ![v] = slots[u], ![u] = None]
      /\ Goto(c, "saved")
  BY DEF SaveAs
<1>2. \A r \in Runs : pc'[r] = pc[r]
  BY <1>1, OthersMove
<1>3. CASE n = 0
  <2>1. UNCHANGED <<resultsMap, routes, runners>>
    BY <1>3 DEF SaveAs
  <2>2. \A k \in Runners : k # n
    BY <1>3 DEF Runners
  <2>. QED BY <1>1, <1>2, <1>3, <2>1, <2>2 DEF SaveAsEffect
<1>4. CASE n # 0
  <2>0. n \in Runners
    BY <1>4, IsRunner
  <2>1. /\ runners' = [runners EXCEPT ![n] = Renamed(runners[n], u, v)]
        /\ routes' = [routes EXCEPT ![v] = n] \/ routes' = routes
        /\ resultsMap' = [resultsMap EXCEPT ![v] = n, ![u] = 0]
    BY <1>4 DEF SaveAs
  <2>2. /\ Renamed(runners[n], u, v).uri = v
        /\ Renamed(runners[n], u, v).executing = runners[n].executing
        /\ Renamed(runners[n], u, v).listeners = runners[n].listeners
    BY <2>0, IsRunner, RenamedFields
  <2>. HIDE DEF n
  <2>3. \A k \in Runners :
              /\ runners'[k].uri = IF k = n THEN v ELSE runners[k].uri
              /\ runners'[k].executing = runners[k].executing
              /\ runners'[k].listeners = runners[k].listeners
    <3>. TAKE k \in Runners
    <3>1. CASE k = n
      <4>1. runners'[k] = Renamed(runners[k], u, v)
        BY <2>1, <3>1 DEF TypeOK
      <4>. QED BY <2>2, <3>1, <4>1
    <3>2. CASE k # n
      <4>1. runners'[k] = runners[k]
        BY <2>1, <3>2 DEF TypeOK
      <4>. QED BY <3>2, <4>1
    <3>. QED BY <3>1, <3>2
  <2>4. \A w \in Uris : routes'[w] \in {routes[w], n}
    BY <2>1 DEF TypeOK
  <2>. QED BY <1>1, <1>2, <1>4, <2>1, <2>3, <2>4 DEF SaveAsEffect, n
<1>. QED BY <1>3, <1>4

\* What the first query of an editor does.
CreateEffect(r, u) ==
    LET n == created + 1 IN
        /\ pc[r] = "idle"
        /\ slots[u] = None
        /\ resultsMap[u] = 0
        /\ n \in Runners
        /\ created' = n
        /\ slots' = [slots EXCEPT ![u] = r]
        /\ resultsMap' = [resultsMap EXCEPT ![u] = n]
        /\ routes' = routes
        /\ runner' = [runner EXCEPT ![r] = n]
        /\ pc' = [pc EXCEPT ![r] = "panel"]
        /\ runners' = [runners EXCEPT ![n] = runners'[n]]
        /\ runners'[n].uri = u
        /\ ~runners'[n].executing
        /\ runners'[n].listeners = {}

LEMMA CreateHasEffect ==
    ASSUME TInv, NEW r \in Runs, NEW u \in Uris, pc[r] = "idle", Create(r, u)
    PROVE  CreateEffect(r, u)
<1>. DEFINE n == created + 1
            x == NewRunner(u)
<1>1. /\ slots[u] = None /\ resultsMap[u] = 0 /\ n \in Runners /\ created' = n
      /\ slots' = [slots EXCEPT ![u] = r]
      /\ resultsMap' = [resultsMap EXCEPT ![u] = n]
      /\ routes' = routes
      /\ runner' = [runner EXCEPT ![r] = n]
      /\ pc' = [pc EXCEPT ![r] = "panel"]
      /\ runners' = [runners EXCEPT ![n] = x]
  BY DEF Create, Goto, IsBusy
<1>2. x.uri = u /\ x.executing = FALSE /\ x.listeners = {}
  BY NewRunnerFields
<1>. HIDE DEF x
<1>3. runners'[n] = x
  BY <1>1 DEF TInv, TypeOK
<1>4. runners' = [runners EXCEPT ![n] = runners'[n]]
  BY <1>1, <1>3
<1>5. ~runners'[n].executing /\ runners'[n].uri = u /\ runners'[n].listeners = {}
  BY <1>2, <1>3
<1>. HIDE DEF n
<1>. QED BY <1>1, <1>4, <1>5 DEF CreateEffect, n

-----------------------------------------------------------------------------
(* Runners are made, listeners are set up                                   *)

LEMMA QuietMade ==
    ASSUME TInv, TypeOK', CallsGoOn, Quiet
    PROVE  RunnersAreMade' /\ ListenersAreSetUp'
<1>. USE DEF TInv
<1>0. created' = created /\ created \in Nat
  BY DEF Quiet, TypeOK
<1>1. \A u \in Uris : resultsMap'[u] <= created' /\ routes'[u] <= created'
  BY <1>0 DEF Quiet, RunnersAreMade
<1>2. \A c \in Calls : runner'[c] <= created'
  BY <1>0 DEF Quiet, RunnersAreMade
<1>3. \A n \in Runners : n > created' => ~runners'[n].executing /\ runners'[n].listeners = {}
  BY <1>0 DEF Quiet, RunnersAreMade
<1>4. ListenersAreSetUp'
  <2>. SUFFICES ASSUME NEW n \in Runners, NEW r \in runners'[n].listeners
                PROVE  runner'[r] = n /\ pc'[r] \notin {"idle", "reset", "panel"}
    BY DEF ListenersAreSetUp
  <2>1. r \in Runs /\ r \in Calls /\ runner[r] = n /\ pc[r] \notin {"idle", "reset", "panel"}
    BY ListenersOf, AreCalls DEF Quiet
  <2>. QED BY <2>1 DEF CallsGoOn
<1>. QED BY <1>1, <1>2, <1>3, <1>4 DEF RunnersAreMade

LEMMA EndMade ==
    ASSUME TInv, TypeOK', CallsGoOn, AnEnd
    PROVE  RunnersAreMade' /\ ListenersAreSetUp'
<1>. USE DEF TInv
<1>. PICK n \in Runners, released \in SUBSET Runs : Ends(n, released)
  BY DEF AnEnd
<1>0. created' = created /\ created \in Nat
  BY DEF Ends, TypeOK
<1>1. \A u \in Uris : resultsMap'[u] <= created' /\ routes'[u] <= created'
  BY <1>0 DEF Ends, RunnersAreMade
<1>2. \A c \in Calls : runner'[c] <= created'
  BY <1>0 DEF Ends, RunnersAreMade
<1>3. \A m \in Runners \ {n} : runners'[m] = runners[m]
  BY DEF Ends, TypeOK
<1>4. \A m \in Runners : m > created' => ~runners'[m].executing /\ runners'[m].listeners = {}
  BY <1>0, <1>3 DEF Ends, RunnersAreMade
<1>5. ListenersAreSetUp'
  <2>. SUFFICES ASSUME NEW m \in Runners, NEW r \in runners'[m].listeners
                PROVE  runner'[r] = m /\ pc'[r] \notin {"idle", "reset", "panel"}
    BY DEF ListenersAreSetUp
  <2>1. m # n
    BY DEF Ends
  <2>2. r \in Runs /\ r \in Calls /\ runner[r] = m /\ pc[r] \notin {"idle", "reset", "panel"}
    BY <1>3, <2>1, ListenersOf, AreCalls
  <2>. QED BY <2>2 DEF CallsGoOn
<1>. QED BY <1>1, <1>2, <1>4, <1>5 DEF RunnersAreMade

\* The runners stay as they are.
LEMMA SameRunnersMade ==
    ASSUME TInv, TypeOK', CallsGoOn, UNCHANGED <<resultsMap, routes, created, runners>>,
           \A c \in Calls : runner'[c] <= created
    PROVE  RunnersAreMade' /\ ListenersAreSetUp'
<1>1. RunnersAreMade'
  BY DEF RunnersAreMade, TInv
<1>2. ListenersAreSetUp'
  <2>. SUFFICES ASSUME NEW n \in Runners, NEW r \in runners[n].listeners
                PROVE  runner'[r] = n /\ pc'[r] \notin {"idle", "reset", "panel"}
    BY DEF ListenersAreSetUp
  <2>1. r \in Calls /\ runner[r] = n /\ pc[r] \notin {"idle", "reset", "panel"}
    BY ListenersOf, AreCalls
  <2>. QED BY <2>1 DEF CallsGoOn
<1>. QED BY <1>1, <1>2

LEMMA CancelTakesMade ==
    ASSUME TInv, TypeOK', CallsGoOn, NEW c, NEW u, CancelTakes(c, u),
           UNCHANGED <<resultsMap, routes, created, runners>>
    PROVE  RunnersAreMade' /\ ListenersAreSetUp'
<1>1. \A d \in Calls : runner'[d] <= created
  BY DEF CancelTakes, TInv, RunnersAreMade
<1>. QED BY <1>1, SameRunnersMade

LEMMA ReuseMade ==
    ASSUME TInv, TypeOK', CallsGoOn, NEW r \in Runs, NEW u \in Uris, Reuse(r, u)
    PROVE  RunnersAreMade' /\ ListenersAreSetUp'
<1>1. \A d \in Calls : runner'[d] <= created
  BY DEF Reuse, TInv, RunnersAreMade, TypeOK
<1>2. UNCHANGED <<resultsMap, routes, created, runners>>
  BY DEF Reuse, runnerVars
<1>. QED BY <1>1, <1>2, SameRunnersMade

LEMMA CreateMade ==
    ASSUME TInv, TypeOK', CallsGoOn, NEW r \in Runs, NEW u \in Uris, CreateEffect(r, u)
    PROVE  RunnersAreMade' /\ ListenersAreSetUp'
<1>. USE AreCalls DEF TInv
<1>. DEFINE n == created + 1
<1>0. created \in Nat /\ created' = n /\ n \in Runners
  BY DEF CreateEffect, TypeOK
<1>1. \A v \in Uris : resultsMap'[v] <= n /\ routes'[v] <= n
  <2>1. \A v \in Uris : /\ resultsMap[v] <= created /\ resultsMap[v] \in Int
                        /\ routes[v] <= created /\ routes[v] \in Int
    BY DEF TypeOK, RunnersAreMade
  <2>2. \A v \in Uris : resultsMap'[v] \in {resultsMap[v], n} /\ routes'[v] \in {routes[v], n}
    BY DEF CreateEffect, TypeOK
  <2>. QED BY <1>0, <2>1, <2>2
<1>2. \A c \in Calls : runner'[c] <= n
  <2>1. \A c \in Calls : runner[c] <= created /\ runner[c] \in Int
    BY DEF TypeOK, RunnersAreMade
  <2>2. \A c \in Calls : runner'[c] \in {runner[c], n}
    BY DEF CreateEffect, TypeOK
  <2>. QED BY <1>0, <2>1, <2>2
<1>3. \A m \in Runners \ {n} : runners'[m] = runners[m]
  BY DEF CreateEffect, TypeOK
<1>4. \A m \in Runners : m > n => ~runners'[m].executing /\ runners'[m].listeners = {}
  <2>. SUFFICES ASSUME NEW m \in Runners, m > n
                PROVE  ~runners'[m].executing /\ runners'[m].listeners = {}
    OBVIOUS
  <2>1. m # n /\ m > created
    BY <1>0 DEF Runners
  <2>. QED BY <1>3, <2>1 DEF RunnersAreMade
<1>5. ListenersAreSetUp'
  <2>. SUFFICES ASSUME NEW m \in Runners, NEW s \in runners'[m].listeners
                PROVE  runner'[s] = m /\ pc'[s] \notin {"idle", "reset", "panel"}
    BY DEF ListenersAreSetUp
  <2>1. m # n
    BY DEF CreateEffect
  <2>2. s \in Calls /\ runner[s] = m /\ pc[s] \notin {"idle", "reset", "panel"}
    BY <1>3, <2>1, ListenersOf
  <2>. QED BY <2>2 DEF CallsGoOn
<1>. HIDE DEF n
<1>. QED BY <1>0, <1>1, <1>2, <1>4, <1>5 DEF RunnersAreMade

LEMMA ResetMade ==
    ASSUME TInv, TypeOK', CallsGoOn, NEW r \in Runs, runner[r] # 0, NEW answer, ResetEffect(r, answer)
    PROVE  RunnersAreMade' /\ ListenersAreSetUp'
<1>. USE AreCalls DEF TInv
<1>. DEFINE n == runner[r]
<1>0. created \in Nat /\ created' = created /\ n \in Runners /\ n <= created
  BY IsRunner DEF ResetEffect, TypeOK, RunnersAreMade
<1>1. \A v \in Uris : resultsMap'[v] <= created /\ routes'[v] <= created
  BY <1>0 DEF ResetEffect, RunnersAreMade
<1>2. \A c \in Calls : runner'[c] <= created
  BY DEF ResetEffect, RunnersAreMade
<1>3. \A m \in Runners \ {n} : runners'[m] = runners[m]
  BY DEF ResetEffect, TypeOK
<1>4. \A m \in Runners : m > created => ~runners'[m].executing /\ runners'[m].listeners = {}
  BY <1>0, <1>3 DEF RunnersAreMade, Runners
<1>5. ListenersAreSetUp'
  <2>. SUFFICES ASSUME NEW m \in Runners, NEW s \in runners'[m].listeners
                PROVE  runner'[s] = m /\ pc'[s] \notin {"idle", "reset", "panel"}
    BY DEF ListenersAreSetUp
  <2>1. s \in runners[m].listeners
    BY <1>3 DEF ResetEffect
  <2>2. s \in Calls /\ runner[s] = m /\ pc[s] \notin {"idle", "reset", "panel"}
    BY <2>1, ListenersOf
  <2>. QED BY <2>2 DEF CallsGoOn
<1>. QED BY <1>0, <1>1, <1>2, <1>4, <1>5 DEF RunnersAreMade

LEMMA SetUpMade ==
    ASSUME TInv, TypeOK', CallsGoOn, NEW r \in Runs, runner[r] # 0, SetUpEffect(r)
    PROVE  RunnersAreMade' /\ ListenersAreSetUp'
<1>. USE AreCalls DEF TInv
<1>. DEFINE n == runner[r]
<1>0. created \in Nat /\ created' = created /\ n \in Runners /\ n <= created
  BY IsRunner DEF SetUpEffect, TypeOK, RunnersAreMade
<1>1. \A v \in Uris : resultsMap'[v] <= created /\ routes'[v] <= created
  BY <1>0 DEF SetUpEffect, RunnersAreMade
<1>2. \A c \in Calls : runner'[c] <= created
  BY DEF SetUpEffect, RunnersAreMade
<1>3. \A m \in Runners \ {n} : runners'[m] = runners[m]
  BY DEF SetUpEffect, TypeOK
<1>4. \A m \in Runners : m > created => ~runners'[m].executing /\ runners'[m].listeners = {}
  BY <1>0, <1>3 DEF RunnersAreMade, Runners
<1>5. ListenersAreSetUp'
  <2>. SUFFICES ASSUME NEW m \in Runners, NEW s \in runners'[m].listeners
                PROVE  runner'[s] = m /\ pc'[s] \notin {"idle", "reset", "panel"}
    BY DEF ListenersAreSetUp
  <2>1. CASE m = n /\ s = r
    BY <2>1 DEF SetUpEffect
  <2>2. CASE ~(m = n /\ s = r)
    <3>1. s \in runners[m].listeners
      BY <1>3, <2>2 DEF SetUpEffect
    <3>2. s \in Calls /\ runner[s] = m /\ pc[s] \notin {"idle", "reset", "panel"}
      BY <3>1, ListenersOf
    <3>. QED BY <3>2 DEF CallsGoOn
  <2>. QED BY <2>1, <2>2
<1>. QED BY <1>0, <1>1, <1>2, <1>4, <1>5 DEF RunnersAreMade

LEMMA SaveAsMade ==
    ASSUME TInv, TypeOK', CallsGoOn, NEW u \in Uris, NEW v \in Uris, SaveAsEffect(u, v)
    PROVE  RunnersAreMade' /\ ListenersAreSetUp'
<1>. USE DEF TInv
<1>. DEFINE n == resultsMap[u]
<1>0. created \in Nat /\ created' = created /\ n <= created /\ 0 <= created
  BY DEF SaveAsEffect, TypeOK, RunnersAreMade
<1>1. \A w \in Uris : resultsMap'[w] <= created /\ routes'[w] <= created
  <2>1. \A w \in Uris : resultsMap'[w] \in {resultsMap[w], n, 0} /\ routes'[w] \in {routes[w], n}
    BY DEF SaveAsEffect, TypeOK
  <2>. QED BY <1>0, <2>1 DEF RunnersAreMade
<1>2. \A c \in Calls : runner'[c] <= created
  BY DEF SaveAsEffect, RunnersAreMade
<1>3. \A m \in Runners : m > created => ~runners'[m].executing /\ runners'[m].listeners = {}
  BY DEF SaveAsEffect, RunnersAreMade
<1>4. ListenersAreSetUp'
  <2>. SUFFICES ASSUME NEW m \in Runners, NEW s \in runners'[m].listeners
                PROVE  runner'[s] = m /\ pc'[s] \notin {"idle", "reset", "panel"}
    BY DEF ListenersAreSetUp
  <2>1. s \in Calls /\ runner[s] = m /\ pc[s] \notin {"idle", "reset", "panel"}
    BY ListenersOf, AreCalls DEF SaveAsEffect
  <2>. QED BY <2>1 DEF CallsGoOn
<1>. QED BY <1>0, <1>1, <1>2, <1>3, <1>4 DEF RunnersAreMade

-----------------------------------------------------------------------------
(* What is on its way                                                       *)

\* Sent(m)', for a message of this state.
SentNext(m) ==
    /\ m.type \in CancelTypes => pc'[m.who] # "idle"
    /\ m.type \in {"execute", "refused"} =>
          m.who \in Runs /\ pc'[m.who] # "idle" /\ runner'[m.who] # 0

LEMMA SentStays ==
    ASSUME TInv, CallsGoOn
    PROVE  /\ \A i \in DOMAIN requests : SentNext(requests[i])
           /\ \A i \in DOMAIN replies : SentNext(replies[i])
<1>1. ASSUME NEW m \in Request \cup Reply, Sent(m)
      PROVE  SentNext(m)
  <2>1. m.type \in CancelTypes => m.who \in Calls
    BY <1>1 DEF Request, Reply, CancelTypes
  <2>. QED BY <1>1, <2>1, AreCalls DEF Sent, SentNext, CallsGoOn
<1>. QED BY <1>1 DEF TInv, TypeOK, MessagesAreSent

LEMMA SentIfNext ==
    ASSUME \A i \in DOMAIN requests' : SentNext(requests'[i]),
           \A i \in DOMAIN replies' : SentNext(replies'[i])
    PROVE  MessagesAreSent'
BY DEF MessagesAreSent, Sent, SentNext

\* A run in reset still has its cancel on its way, before that of whoever it
\* was before.
WireKeeps ==
    \A r \in Runs : pc[r] = "reset" /\ pc'[r] = "reset" =>
        /\ CancelOnItsWay(r) => CancelOnItsWay(r)'
        /\ \A s \in Runs : Ahead(r, s) => Ahead(r, s)'

\* Nothing is sent or received.
LEMMA WireSame ==
    ASSUME TInv, CallsGoOn, UNCHANGED <<requests, replies>>
    PROVE  MessagesAreSent' /\ WireKeeps
<1>1. MessagesAreSent'
  BY SentStays, SentIfNext
<1>2. WireKeeps
  BY DEF WireKeeps, CancelOnItsWay, Ahead
<1>. QED BY <1>1, <1>2

LEMMA AppendedSent ==
    ASSUME TInv, CallsGoOn, NEW m, SentNext(m)
    PROVE  /\ \A i \in DOMAIN Append(requests, m) : SentNext(Append(requests, m)[i])
           /\ \A i \in DOMAIN Append(replies, m) : SentNext(Append(replies, m)[i])
<1>1. requests \in Seq(Request) /\ replies \in Seq(Reply)
  BY DEF TInv, TypeOK
<1>2. ASSUME NEW i \in DOMAIN Append(requests, m)
      PROVE  SentNext(Append(requests, m)[i])
  <2>1. CASE i \in DOMAIN requests
    BY <1>1, <2>1, SentStays
  <2>2. CASE i \notin DOMAIN requests
    <3>1. Append(requests, m)[i] = m
      BY <1>1, <1>2, <2>2
    <3>. QED BY <3>1
  <2>. QED BY <2>1, <2>2
<1>3. ASSUME NEW i \in DOMAIN Append(replies, m)
      PROVE  SentNext(Append(replies, m)[i])
  <2>1. CASE i \in DOMAIN replies
    BY <1>1, <2>1, SentStays
  <2>2. CASE i \notin DOMAIN replies
    <3>1. Append(replies, m)[i] = m
      BY <1>1, <1>3, <2>2
    <3>. QED BY <3>1
  <2>. QED BY <2>1, <2>2
<1>. QED BY <1>2, <1>3

\* A request is sent.
LEMMA RequestSent ==
    ASSUME TInv, CallsGoOn, NEW m, SentNext(m),
           requests' = Append(requests, m), UNCHANGED replies
    PROVE  /\ MessagesAreSent'
           /\ (\A s \in Runs : ~IsCancelOf(m, s)) => WireKeeps
<1>1. MessagesAreSent'
  BY SentStays, AppendedSent, SentIfNext
<1>2. requests \in Seq(Request) /\ replies \in Seq(Reply)
  BY DEF TInv, TypeOK
<1>3. ASSUME \A s \in Runs : ~IsCancelOf(m, s) PROVE WireKeeps
  <2>. SUFFICES ASSUME NEW r \in Runs
                PROVE  /\ CancelOnItsWay(r) => CancelOnItsWay(r)'
                       /\ \A s \in Runs : Ahead(r, s) => Ahead(r, s)'
    BY DEF WireKeeps
  <2>1. \A i \in DOMAIN requests : i \in DOMAIN requests' /\ requests'[i] = requests[i]
    BY <1>2
  <2>2. CancelOnItsWay(r) => CancelOnItsWay(r)'
    BY <2>1 DEF CancelOnItsWay, IsCancelOf
  <2>3. ASSUME NEW s \in Runs, Ahead(r, s) PROVE Ahead(r, s)'
    <3>1. \A j \in DOMAIN replies' : IsCancelOf(replies'[j], s) =>
             \E i \in DOMAIN replies' : i < j /\ IsCancelOf(replies'[i], r)
      BY <2>3 DEF Ahead
    <3>2. ASSUME NEW j \in DOMAIN requests', IsCancelOf(requests'[j], s)
          PROVE  \/ \E i \in DOMAIN replies' : IsCancelOf(replies'[i], r)
                 \/ \E i \in DOMAIN requests' : i < j /\ IsCancelOf(requests'[i], r)
      <4>1. j \in DOMAIN requests
        <5>1. CASE j \notin DOMAIN requests
          <6>1. requests'[j] = m
            BY <1>2, <3>2, <5>1
          <6>. QED BY <1>3, <3>2, <6>1
        <5>. QED BY <5>1
      <4>. QED BY <2>1, <2>3, <3>2, <4>1 DEF Ahead
    <3>. QED BY <3>1, <3>2 DEF Ahead, IsCancelOf
  <2>. QED BY <2>2, <2>3
<1>. QED BY <1>1, <1>3

\* A run asks for a cancel: it is behind every cancel that is on its way.
LEMMA CancelSent ==
    ASSUME TInv, CallsGoOn, NEW q \in Runs, pc[q] = "idle", NEW m, SentNext(m), IsCancelOf(m, q),
           requests' = Append(requests, m), UNCHANGED replies
    PROVE  /\ CancelOnItsWay(q)'
           /\ \A r \in Runs : CancelOnItsWay(r) => CancelOnItsWay(r)' /\ Ahead(r, q)'
           /\ \A r \in Runs, s \in Runs \ {q} : Ahead(r, s) => Ahead(r, s)'
<1>1. requests \in Seq(Request) /\ replies \in Seq(Reply)
  BY DEF TInv, TypeOK
<1>. DEFINE k == Len(requests) + 1
<1>2. /\ k \in DOMAIN requests' /\ requests'[k] = m
      /\ \A i \in DOMAIN requests : i \in DOMAIN requests' /\ i < k /\ requests'[i] = requests[i]
      /\ \A i \in DOMAIN requests' : i \in DOMAIN requests \/ i = k
  BY <1>1
<1>. HIDE DEF k
<1>3. CancelOnItsWay(q)'
  BY <1>2 DEF CancelOnItsWay, IsCancelOf
<1>4. /\ \A i \in DOMAIN requests : ~IsCancelOf(requests[i], q)
      /\ \A i \in DOMAIN replies : ~IsCancelOf(replies[i], q)
  BY DEF TInv, MessagesAreSent, Sent, IsCancelOf
<1>5. ASSUME NEW r \in Runs, CancelOnItsWay(r) PROVE CancelOnItsWay(r)' /\ Ahead(r, q)'
  <2>1. CancelOnItsWay(r)'
    BY <1>2, <1>5 DEF CancelOnItsWay, IsCancelOf
  <2>2. \A j \in DOMAIN replies' : ~IsCancelOf(replies'[j], q)
    BY <1>4
  <2>3. ASSUME NEW j \in DOMAIN requests', IsCancelOf(requests'[j], q)
        PROVE  \/ \E i \in DOMAIN replies' : IsCancelOf(replies'[i], r)
               \/ \E i \in DOMAIN requests' : i < j /\ IsCancelOf(requests'[i], r)
    <3>1. j = k
      <4>1. CASE j \in DOMAIN requests
        <5>1. IsCancelOf(requests[j], q)
          BY <1>2, <2>3, <4>1
        <5>. QED BY <1>4, <4>1, <5>1
      <4>. QED BY <1>2, <4>1
    <3>2. CASE \E i \in DOMAIN replies : IsCancelOf(replies[i], r)
      BY <3>2
    <3>3. CASE \E i \in DOMAIN requests : IsCancelOf(requests[i], r)
      BY <1>2, <3>1, <3>3
    <3>. QED BY <1>5, <3>2, <3>3 DEF CancelOnItsWay
  <2>4. Ahead(r, q)'
    BY <2>2, <2>3 DEF Ahead, IsCancelOf
  <2>. QED BY <2>1, <2>4
<1>6. ASSUME NEW r \in Runs, NEW s \in Runs \ {q}, Ahead(r, s) PROVE Ahead(r, s)'
  <2>1. \A j \in DOMAIN replies' : IsCancelOf(replies'[j], s) =>
           \E i \in DOMAIN replies' : i < j /\ IsCancelOf(replies'[i], r)
    BY <1>6 DEF Ahead
  <2>2. ASSUME NEW j \in DOMAIN requests', IsCancelOf(requests'[j], s)
        PROVE  \/ \E i \in DOMAIN replies' : IsCancelOf(replies'[i], r)
               \/ \E i \in DOMAIN requests' : i < j /\ IsCancelOf(requests'[i], r)
    <3>1. j # k
      BY <1>2, <2>2 DEF IsCancelOf
    <3>2. j \in DOMAIN requests /\ IsCancelOf(requests[j], s)
      BY <1>2, <2>2, <3>1
    <3>. QED BY <1>2, <1>6, <3>2 DEF Ahead
  <2>. QED BY <2>1, <2>2 DEF Ahead, IsCancelOf
<1>. QED BY <1>3, <1>5, <1>6

\* The service reports the end of a query.
LEMMA CompleteSent ==
    ASSUME TInv, CallsGoOn, NEW m, SentNext(m), m.type \notin CancelTypes,
           replies' = Append(replies, m), UNCHANGED requests
    PROVE  MessagesAreSent' /\ WireKeeps
<1>1. MessagesAreSent'
  BY SentStays, AppendedSent, SentIfNext
<1>2. requests \in Seq(Request) /\ replies \in Seq(Reply)
  BY DEF TInv, TypeOK
<1>. DEFINE k == Len(replies) + 1
<1>3. /\ replies'[k] = m
      /\ \A i \in DOMAIN replies : i \in DOMAIN replies' /\ replies'[i] = replies[i]
      /\ \A i \in DOMAIN replies' : i \in DOMAIN replies \/ i = k
  BY <1>2
<1>. HIDE DEF k
<1>4. WireKeeps
  <2>. SUFFICES ASSUME NEW r \in Runs
                PROVE  /\ CancelOnItsWay(r) => CancelOnItsWay(r)'
                       /\ \A s \in Runs : Ahead(r, s) => Ahead(r, s)'
    BY DEF WireKeeps
  <2>1. CancelOnItsWay(r) => CancelOnItsWay(r)'
    BY <1>3 DEF CancelOnItsWay, IsCancelOf
  <2>2. ASSUME NEW s \in Runs, Ahead(r, s) PROVE Ahead(r, s)'
    <3>1. ASSUME NEW j \in DOMAIN replies', IsCancelOf(replies'[j], s)
          PROVE  \E i \in DOMAIN replies' : i < j /\ IsCancelOf(replies'[i], r)
      <4>1. j # k
        BY <1>3, <3>1 DEF IsCancelOf
      <4>2. j \in DOMAIN replies /\ IsCancelOf(replies[j], s)
        BY <1>3, <3>1, <4>1
      <4>. QED BY <1>3, <2>2, <4>2 DEF Ahead
    <3>2. \A j \in DOMAIN requests' : IsCancelOf(requests'[j], s) =>
             \/ \E i \in DOMAIN replies' : IsCancelOf(replies'[i], r)
             \/ \E i \in DOMAIN requests' : i < j /\ IsCancelOf(requests'[i], r)
      BY <1>3, <2>2 DEF Ahead
    <3>. QED BY <3>1, <3>2 DEF Ahead, IsCancelOf
  <2>. QED BY <2>1, <2>2
<1>. QED BY <1>1, <1>4

\* The tail of a sequence of messages, index by index.
LEMMA TailIs ==
    ASSUME NEW S, NEW q \in Seq(S), q # <<>>
    PROVE  /\ Head(q) = q[1] /\ 1 \in DOMAIN q
           /\ \A i \in DOMAIN Tail(q) : i + 1 \in DOMAIN q /\ Tail(q)[i] = q[i + 1]
           /\ \A i \in DOMAIN q : i # 1 => i - 1 \in DOMAIN Tail(q) /\ Tail(q)[i - 1] = q[i]
           /\ \A i \in DOMAIN q : i \in Int /\ i >= 1
           /\ \A i \in DOMAIN Tail(q) : i \in Int /\ i >= 1
OBVIOUS

LEMMA TailSent ==
    ASSUME NEW S, NEW q \in Seq(S), q # <<>>, \A i \in DOMAIN q : SentNext(q[i])
    PROVE  \A i \in DOMAIN Tail(q) : SentNext(Tail(q)[i])
BY TailIs

\* The service takes a request, and may answer it: the answer to a cancel is a
\* cancel of the same run.
LEMMA SvcHandleWire ==
    ASSUME TInv, CallsGoOn, SvcHandle
    PROVE  MessagesAreSent' /\ WireKeeps
<1>. DEFINE m == Head(requests)
            k == Len(replies) + 1
<1>1. requests \in Seq(Request) /\ replies \in Seq(Reply) /\ requests # <<>> /\ requests' = Tail(requests)
  BY SvcHandleEffect DEF TInv, TypeOK
<1>2. /\ m = requests[1] /\ 1 \in DOMAIN requests
      /\ \A i \in DOMAIN requests' : i + 1 \in DOMAIN requests /\ requests'[i] = requests[i + 1]
      /\ \A i \in DOMAIN requests : i # 1 => i - 1 \in DOMAIN requests' /\ requests'[i - 1] = requests[i]
      /\ \A i \in DOMAIN requests : i \in Int /\ i >= 1
      /\ \A i \in DOMAIN requests' : i \in Int /\ i >= 1
  BY <1>1, TailIs
<1>3. SentNext(m)
  BY <1>2, SentStays
<1>4. \A i \in DOMAIN requests' : SentNext(requests'[i])
  BY <1>1, SentStays, TailSent
<1>. HIDE DEF m
<1>5. CASE replies' = replies /\ m.type \notin CancelTypes
  <2>1. MessagesAreSent'
    BY <1>4, <1>5, SentStays, SentIfNext
  <2>2. WireKeeps
    <3>. SUFFICES ASSUME NEW r \in Runs
                  PROVE  /\ CancelOnItsWay(r) => CancelOnItsWay(r)'
                         /\ \A s \in Runs : Ahead(r, s) => Ahead(r, s)'
      BY DEF WireKeeps
    <3>0. \A s \in Runs : ~IsCancelOf(requests[1], s)
      BY <1>2, <1>5 DEF IsCancelOf
    <3>1. CancelOnItsWay(r) => CancelOnItsWay(r)'
      <4>1. CASE \E i \in DOMAIN replies : IsCancelOf(replies[i], r)
        BY <1>5, <4>1 DEF CancelOnItsWay, IsCancelOf
      <4>2. ASSUME NEW i \in DOMAIN requests, IsCancelOf(requests[i], r)
            PROVE  CancelOnItsWay(r)'
        <5>1. i # 1
          BY <3>0, <4>2
        <5>2. i - 1 \in DOMAIN requests' /\ IsCancelOf(requests'[i - 1], r)
          BY <1>2, <4>2, <5>1
        <5>. QED BY <5>2 DEF CancelOnItsWay, IsCancelOf
      <4>. QED BY <4>1, <4>2 DEF CancelOnItsWay
    <3>2. ASSUME NEW s \in Runs, Ahead(r, s) PROVE Ahead(r, s)'
      <4>1. \A j \in DOMAIN replies' : IsCancelOf(replies'[j], s) =>
               \E i \in DOMAIN replies' : i < j /\ IsCancelOf(replies'[i], r)
        BY <1>5, <3>2 DEF Ahead
      <4>2. ASSUME NEW j \in DOMAIN requests', IsCancelOf(requests'[j], s)
            PROVE  \/ \E i \in DOMAIN replies' : IsCancelOf(replies'[i], r)
                   \/ \E i \in DOMAIN requests' : i < j /\ IsCancelOf(requests'[i], r)
        <5>1. j + 1 \in DOMAIN requests /\ IsCancelOf(requests[j + 1], s)
          BY <1>2, <4>2
        <5>2. CASE \E i \in DOMAIN replies : IsCancelOf(replies[i], r)
          BY <1>5, <5>2
        <5>3. ASSUME NEW i \in DOMAIN requests, i < j + 1, IsCancelOf(requests[i], r)
              PROVE  \E h \in DOMAIN requests' : h < j /\ IsCancelOf(requests'[h], r)
          <6>1. i # 1
            BY <3>0, <5>3
          <6>2. i - 1 \in DOMAIN requests' /\ i - 1 < j /\ IsCancelOf(requests'[i - 1], r)
            BY <1>2, <4>2, <5>3, <6>1
          <6>. QED BY <6>2
        <5>. QED BY <3>2, <5>1, <5>2, <5>3 DEF Ahead
      <4>. QED BY <4>1, <4>2 DEF Ahead, IsCancelOf
    <3>. QED BY <3>1, <3>2
  <2>. QED BY <2>1, <2>2
<1>6. ASSUME NEW type \in {"refused", "found", "none", "disposed"},
             replies' = Append(replies, [type |-> type, who |-> m.who, uri |-> m.uri]),
             type = "refused" <=> m.type = "execute",
             type \in CancelTypes <=> m.type \in CancelTypes
      PROVE  MessagesAreSent' /\ WireKeeps
  <2>. DEFINE a == [type |-> type, who |-> m.who, uri |-> m.uri]
  <2>1. SentNext(a)
    <3>1. type # "execute"
      BY <1>6
    <3>. QED BY <1>3, <1>6, <3>1 DEF SentNext
  <2>2. \A s \in Runs : IsCancelOf(a, s) <=> IsCancelOf(requests[1], s)
    BY <1>2, <1>6 DEF IsCancelOf
  <2>. HIDE DEF a
  <2>3. replies' = Append(replies, a)
    BY <1>6 DEF a
  <2>4. MessagesAreSent'
    BY <1>4, <2>1, <2>3, AppendedSent, SentIfNext
  <2>5. /\ k \in DOMAIN replies' /\ replies'[k] = a
        /\ \A i \in DOMAIN replies : i \in DOMAIN replies' /\ i < k /\ replies'[i] = replies[i]
        /\ \A i \in DOMAIN replies' : i \in DOMAIN replies \/ i = k
    BY <1>1, <2>3
  <2>. HIDE DEF k
  <2>6. WireKeeps
    <3>. SUFFICES ASSUME NEW r \in Runs
                  PROVE  /\ CancelOnItsWay(r) => CancelOnItsWay(r)'
                         /\ \A s \in Runs : Ahead(r, s) => Ahead(r, s)'
      BY DEF WireKeeps
    <3>0. /\ (\E i \in DOMAIN replies : IsCancelOf(replies[i], r))
                 => \E i \in DOMAIN replies' : i < k /\ IsCancelOf(replies'[i], r)
          /\ IsCancelOf(requests[1], r) => IsCancelOf(replies'[k], r)
      BY <2>2, <2>5
    <3>1. CancelOnItsWay(r) => CancelOnItsWay(r)'
      <4>1. CASE \E i \in DOMAIN replies : IsCancelOf(replies[i], r)
        BY <3>0, <4>1 DEF CancelOnItsWay, IsCancelOf
      <4>2. ASSUME NEW i \in DOMAIN requests, IsCancelOf(requests[i], r)
            PROVE  CancelOnItsWay(r)'
        <5>1. CASE i = 1
          BY <2>5, <3>0, <4>2, <5>1 DEF CancelOnItsWay, IsCancelOf
        <5>2. CASE i # 1
          <6>1. i - 1 \in DOMAIN requests' /\ IsCancelOf(requests'[i - 1], r)
            BY <1>2, <4>2, <5>2
          <6>. QED BY <6>1 DEF CancelOnItsWay, IsCancelOf
        <5>. QED BY <5>1, <5>2
      <4>. QED BY <4>1, <4>2 DEF CancelOnItsWay
    <3>2. ASSUME NEW s \in Runs, Ahead(r, s) PROVE Ahead(r, s)'
      <4>1. ASSUME NEW j \in DOMAIN replies', IsCancelOf(replies'[j], s)
            PROVE  \E i \in DOMAIN replies' : i < j /\ IsCancelOf(replies'[i], r)
        <5>1. CASE j \in DOMAIN replies
          <6>1. IsCancelOf(replies[j], s)
            BY <2>5, <4>1, <5>1
          <6>. QED BY <2>5, <3>2, <5>1, <6>1 DEF Ahead
        <5>2. CASE j = k
          <6>1. IsCancelOf(requests[1], s)
            BY <2>2, <2>5, <4>1, <5>2
          <6>2. ~ \E i \in DOMAIN requests : i < 1
            BY <1>2
          <6>3. \E i \in DOMAIN replies : IsCancelOf(replies[i], r)
            BY <1>2, <3>2, <6>1, <6>2 DEF Ahead
          <6>. QED BY <3>0, <5>2, <6>3
        <5>. QED BY <2>5, <5>1, <5>2
      <4>2. ASSUME NEW j \in DOMAIN requests', IsCancelOf(requests'[j], s)
            PROVE  \/ \E i \in DOMAIN replies' : IsCancelOf(replies'[i], r)
                   \/ \E i \in DOMAIN requests' : i < j /\ IsCancelOf(requests'[i], r)
        <5>1. j + 1 \in DOMAIN requests /\ IsCancelOf(requests[j + 1], s)
          BY <1>2, <4>2
        <5>2. CASE \E i \in DOMAIN replies : IsCancelOf(replies[i], r)
          BY <3>0, <5>2
        <5>3. ASSUME NEW i \in DOMAIN requests, i < j + 1, IsCancelOf(requests[i], r)
              PROVE  \/ \E h \in DOMAIN replies' : IsCancelOf(replies'[h], r)
                     \/ \E h \in DOMAIN requests' : h < j /\ IsCancelOf(requests'[h], r)
          <6>1. CASE i = 1
            BY <2>5, <3>0, <5>3, <6>1
          <6>2. CASE i # 1
            <7>1. i - 1 \in DOMAIN requests' /\ i - 1 < j /\ IsCancelOf(requests'[i - 1], r)
              BY <1>2, <4>2, <5>3, <6>2
            <7>. QED BY <7>1
          <6>. QED BY <6>1, <6>2
        <5>. QED BY <3>2, <5>1, <5>2, <5>3 DEF Ahead
      <4>. QED BY <4>1, <4>2 DEF Ahead, IsCancelOf
    <3>. QED BY <3>1, <3>2
  <2>. QED BY <2>4, <2>6
<1>. QED BY <1>5, <1>6, SvcHandleEffect DEF m, TInv

\* A reply is received: no run that still resets was waiting for it.
LEMMA ReceiveWire ==
    ASSUME TInv, CallsGoOn, Receive,
           \A r \in Runs : IsCancelOf(Head(replies), r) => pc'[r] # "reset"
    PROVE  MessagesAreSent' /\ WireKeeps
<1>1. /\ requests \in Seq(Request) /\ replies \in Seq(Reply)
      /\ replies # <<>> /\ replies' = Tail(replies) /\ UNCHANGED requests
  BY Received DEF TInv, TypeOK
<1>2. /\ Head(replies) = replies[1]
      /\ \A i \in DOMAIN replies' : i + 1 \in DOMAIN replies /\ replies'[i] = replies[i + 1]
      /\ \A i \in DOMAIN replies : i # 1 => i - 1 \in DOMAIN replies' /\ replies'[i - 1] = replies[i]
      /\ \A i \in DOMAIN replies : i \in Int /\ i >= 1
      /\ \A i \in DOMAIN replies' : i \in Int /\ i >= 1
  BY <1>1, TailIs
<1>3. MessagesAreSent'
  BY <1>1, SentStays, TailSent, SentIfNext
<1>4. WireKeeps
  <2>. SUFFICES ASSUME NEW r \in Runs, pc'[r] = "reset"
                PROVE  /\ CancelOnItsWay(r) => CancelOnItsWay(r)'
                       /\ \A s \in Runs : Ahead(r, s) => Ahead(r, s)'
    BY DEF WireKeeps
  <2>0. ~IsCancelOf(replies[1], r)
    BY <1>2
  <2>1. CancelOnItsWay(r) => CancelOnItsWay(r)'
    <3>1. ASSUME NEW i \in DOMAIN replies, IsCancelOf(replies[i], r)
          PROVE  CancelOnItsWay(r)'
      <4>1. i # 1
        BY <2>0, <3>1
      <4>2. i - 1 \in DOMAIN replies' /\ IsCancelOf(replies'[i - 1], r)
        BY <1>2, <3>1, <4>1
      <4>. QED BY <4>2 DEF CancelOnItsWay, IsCancelOf
    <3>2. CASE \E i \in DOMAIN requests : IsCancelOf(requests[i], r)
      BY <1>1, <3>2 DEF CancelOnItsWay, IsCancelOf
    <3>. QED BY <3>1, <3>2 DEF CancelOnItsWay
  <2>2. ASSUME NEW s \in Runs, Ahead(r, s) PROVE Ahead(r, s)'
    <3>0. ASSUME NEW i \in DOMAIN replies, IsCancelOf(replies[i], r)
          PROVE  i - 1 \in DOMAIN replies' /\ IsCancelOf(replies'[i - 1], r)
      <4>1. i # 1
        BY <2>0, <3>0
      <4>. QED BY <1>2, <3>0, <4>1
    <3>1. ASSUME NEW j \in DOMAIN replies', IsCancelOf(replies'[j], s)
          PROVE  \E i \in DOMAIN replies' : i < j /\ IsCancelOf(replies'[i], r)
      <4>1. j + 1 \in DOMAIN replies /\ IsCancelOf(replies[j + 1], s)
        BY <1>2, <3>1
      <4>2. PICK i \in DOMAIN replies : i < j + 1 /\ IsCancelOf(replies[i], r)
        BY <2>2, <4>1 DEF Ahead
      <4>3. i - 1 < j
        BY <1>2, <4>2
      <4>. QED BY <3>0, <4>2, <4>3
    <3>2. \A j \in DOMAIN requests' : IsCancelOf(requests'[j], s) =>
             \/ \E i \in DOMAIN replies' : IsCancelOf(replies'[i], r)
             \/ \E i \in DOMAIN requests' : i < j /\ IsCancelOf(requests'[i], r)
      BY <1>1, <2>2, <3>0 DEF Ahead
    <3>. QED BY <3>1, <3>2 DEF Ahead, IsCancelOf
  <2>. QED BY <2>1, <2>2
<1>. QED BY <1>3, <1>4

-----------------------------------------------------------------------------
(* Slots, runners and their order                                           *)

EditorInv ==
    /\ RunnerOfOneEditor
    /\ SlotWithRunner
    /\ HoldersHaveBegun
    /\ OneSlotPerRunner
    /\ SlotIsOwned
    /\ KnownRunners

OrderInv == ResetIsAsked /\ LoserIsAhead

IInv == TInv /\ EditorInv /\ OrderInv

LEMMA ClosedStays ==
    ASSUME CallsGoOn, NothingClosed'
    PROVE  NothingClosed
BY AreCalls DEF CallsGoOn, NothingClosed

\* Nobody's name is no run's.
LEMMA NoneIsNoRun == None \notin Runs
BY EditorAssumption, AreCalls

\* A run that waited for a reset and does so still did not get the slot of a
\* runner from another.
LosersStay ==
    \A r, s \in Runs :
        pc'[r] = "reset" /\ ~HoldsSlot(r)' /\ HoldsSlot(s)' /\ runner'[r] = runner'[s] =>
            /\ pc[r] = "reset" /\ ~HoldsSlot(r) /\ HoldsSlot(s) /\ runner[r] = runner[s]
            /\ pc[s] = "reset" /\ Ahead(r, s) => pc'[s] = "reset"

LEMMA LosersAhead ==
    ASSUME LoserIsAhead, WireKeeps, LosersStay
    PROVE  LoserIsAhead'
<1>. SUFFICES ASSUME NEW r \in Runs, NEW s \in Runs, pc'[r] = "reset", ~HoldsSlot(r)',
                     HoldsSlot(s)', runner'[r] = runner'[s]
              PROVE  pc'[s] = "reset" /\ Ahead(r, s)'
  BY DEF LoserIsAhead
<1>1. /\ pc[r] = "reset" /\ ~HoldsSlot(r) /\ HoldsSlot(s) /\ runner[r] = runner[s]
      /\ pc[s] = "reset" /\ Ahead(r, s) => pc'[s] = "reset"
  BY DEF LosersStay
<1>2. pc[s] = "reset" /\ Ahead(r, s)
  BY <1>1 DEF LoserIsAhead
<1>. QED BY <1>1, <1>2 DEF WireKeeps

LEMMA AskedStays ==
    ASSUME ResetIsAsked, WireKeeps, \A r \in Runs : pc'[r] = "reset" => pc[r] = "reset"
    PROVE  ResetIsAsked'
BY DEF ResetIsAsked, WireKeeps

LEMMA QuietKeeps ==
    ASSUME IInv, CallsGoOn, Quiet
    PROVE  EditorInv' /\ (WireKeeps => OrderInv')
<1>. USE AreCalls DEF IInv, EditorInv, OrderInv
<1>1. \A r \in Runs : runner'[r] = runner[r] /\ (HoldsSlot(r)' <=> HoldsSlot(r))
  BY DEF Quiet, HoldsSlot
<1>2. \A u \in Uris : resultsMap'[u] # 0 => resultsMap'[u] = resultsMap[u]
  BY DEF Quiet
<1>3. RunnerOfOneEditor'
  BY <1>2 DEF RunnerOfOneEditor
<1>4. SlotWithRunner'
  BY <1>1, <1>2 DEF SlotWithRunner, Quiet
<1>5. HoldersHaveBegun'
  BY <1>1 DEF HoldersHaveBegun, Quiet
<1>6. OneSlotPerRunner'
  BY <1>1 DEF OneSlotPerRunner
<1>7. SlotIsOwned'
  <2>. SUFFICES ASSUME NEW r \in Runs, HoldsSlot(r)
                PROVE  \/ pc'[r] \in {"reset", "panel"}
                       \/ r \in runners'[runner'[r]].listeners /\ runners'[runner'[r]].executing
    BY <1>1 DEF SlotIsOwned
  <2>1. CASE pc[r] \in {"reset", "panel"}
    BY <2>1 DEF Quiet
  <2>2. CASE pc[r] \notin {"reset", "panel"}
    <3>1. r \in runners[runner[r]].listeners /\ runners[runner[r]].executing
      BY <2>2 DEF SlotIsOwned
    <3>2. runner[r] \in Runners
      <4>1. runner[r] # 0
        BY DEF HoldersHaveBegun
      <4>. QED BY <4>1, IsRunner DEF TInv
    <3>. QED BY <1>1, <3>1, <3>2 DEF Quiet
  <2>. QED BY <2>1, <2>2
<1>8. KnownRunners'
  <2>. SUFFICES ASSUME NothingClosed', NEW n \in Runners
                PROVE  /\ n <= created => resultsMap'[runners'[n].uri] = n
                       /\ runners'[n].executing => slots'[runners'[n].uri] # None
    BY DEF KnownRunners, Quiet
  <2>1. runners[n].uri \in Uris
    BY IsRunner, RunnerFields DEF TInv
  <2>. QED BY <2>1, ClosedStays DEF KnownRunners, Quiet
<1>9. ASSUME WireKeeps PROVE OrderInv'
  <2>1. LosersStay
    BY <1>1 DEF LosersStay, Quiet
  <2>2. \A r \in Runs : pc'[r] = "reset" => pc[r] = "reset"
    BY DEF Quiet
  <2>. QED BY <1>9, <2>1, <2>2, LosersAhead, AskedStays
<1>. QED BY <1>3, <1>4, <1>5, <1>6, <1>7, <1>8, <1>9

\* Who holds which slot once some are released.
LEMMA Releases ==
    ASSUME NEW released \in SUBSET Runs, slots' = Without(released)
    PROVE  /\ \A u \in Uris, r \in Runs : slots'[u] = r <=> slots[u] = r /\ r \notin released
           /\ \A u \in Uris : slots[u] \notin released => slots'[u] = slots[u]
           /\ \A r \in Runs : HoldsSlot(r)' <=> HoldsSlot(r) /\ r \notin released
<1>1. \A u \in Uris, r \in Runs : slots'[u] = r <=> slots[u] = r /\ r \notin released
  BY NoneIsNoRun DEF Without
<1>2. \A u \in Uris : slots[u] \notin released => slots'[u] = slots[u]
  BY DEF Without
<1>3. \A r \in Runs : HoldsSlot(r)' <=> HoldsSlot(r) /\ r \notin released
  BY <1>1 DEF HoldsSlot
<1>. QED BY <1>1, <1>2, <1>3

\* Until something is closed, a slot released with the end of a runner's query
\* is of no other runner that executes.
LEMMA ReleasesOwn ==
    ASSUME IInv, NothingClosed, NEW n \in Runners, n <= created,
           NEW m \in Runners, m # n, runners[m].executing,
           NEW released \in SUBSET Runs, \A r \in released : runner[r] = n
    PROVE  slots[runners[m].uri] # None /\ slots[runners[m].uri] \notin released
<1>. USE DEF IInv, TInv, EditorInv
<1>1. runners[m].uri \in Uris /\ runners[n].uri \in Uris
  BY IsRunner, RunnerFields
<1>2. m <= created
  BY DEF RunnersAreMade, TypeOK, Runners
<1>3. resultsMap[runners[m].uri] = m /\ resultsMap[runners[n].uri] = n
  BY <1>2 DEF KnownRunners
<1>4. slots[runners[m].uri] # None
  BY DEF KnownRunners
<1>5. slots[runners[m].uri] \notin released
  <2>1. SUFFICES ASSUME slots[runners[m].uri] \in released PROVE FALSE
    OBVIOUS
  <2>2. runner[slots[runners[m].uri]] = n /\ n # 0
    BY <2>1 DEF Runners
  <2>3. runners[n].uri = runners[m].uri
    BY <1>1, <1>3, <2>1, <2>2 DEF SlotWithRunner
  <2>. QED BY <1>3, <2>3
<1>. QED BY <1>4, <1>5

LEMMA EndKeeps ==
    ASSUME IInv, CallsGoOn, AnEnd
    PROVE  EditorInv' /\ (WireKeeps => OrderInv')
<1>. USE AreCalls DEF IInv, EditorInv, OrderInv
<1>. PICK n \in Runners, released \in SUBSET Runs : Ends(n, released)
  BY DEF AnEnd
<1>1. /\ \A u \in Uris, r \in Runs : slots'[u] = r <=> slots[u] = r /\ r \notin released
      /\ \A u \in Uris : slots[u] \notin released => slots'[u] = slots[u]
      /\ \A r \in Runs : HoldsSlot(r)' <=> HoldsSlot(r) /\ r \notin released
  BY Releases DEF Ends
<1>2. runner' = runner /\ created' = created
  BY DEF Ends
<1>3. \A u \in Uris : resultsMap'[u] # 0 => resultsMap'[u] = resultsMap[u]
  BY DEF Ends
<1>4. RunnerOfOneEditor'
  BY <1>3 DEF RunnerOfOneEditor
<1>5. SlotWithRunner'
  BY <1>1, <1>2, <1>3 DEF SlotWithRunner
<1>6. HoldersHaveBegun'
  BY <1>1, <1>2 DEF HoldersHaveBegun, Ends
<1>7. OneSlotPerRunner'
  BY <1>1, <1>2 DEF OneSlotPerRunner
<1>8. \A m \in Runners \ {n} : runners'[m] = runners[m]
  BY DEF Ends, TInv, TypeOK
<1>9. SlotIsOwned'
  <2>. SUFFICES ASSUME NEW r \in Runs, HoldsSlot(r), r \notin released
                PROVE  \/ pc'[r] \in {"reset", "panel"}
                       \/ r \in runners'[runner[r]].listeners /\ runners'[runner[r]].executing
    BY <1>1, <1>2 DEF SlotIsOwned
  <2>1. CASE pc[r] \in {"reset", "panel"}
    BY <2>1 DEF Ends
  <2>2. CASE pc[r] \notin {"reset", "panel"}
    <3>1. r \in runners[runner[r]].listeners /\ runners[runner[r]].executing
      BY <2>2 DEF SlotIsOwned
    <3>2. runner[r] \in Runners
      BY IsRunner DEF TInv, HoldersHaveBegun
    <3>3. runner[r] # n
      BY <3>1 DEF Ends
    <3>. QED BY <1>8, <3>1, <3>2, <3>3
  <2>. QED BY <2>1, <2>2
<1>10. KnownRunners'
  <2>. SUFFICES ASSUME NothingClosed', NEW m \in Runners
                PROVE  /\ m <= created => resultsMap'[runners'[m].uri] = m
                       /\ runners'[m].executing => slots'[runners'[m].uri] # None
    BY <1>2 DEF KnownRunners
  <2>1. runners[m].uri \in Uris /\ runners'[m].uri = runners[m].uri
    BY <1>8, IsRunner, RunnerFields DEF TInv, Ends
  <2>2. NothingClosed
    BY ClosedStays
  <2>3. m <= created => resultsMap'[runners'[m].uri] = m
    BY <2>1, <2>2 DEF KnownRunners, Ends
  <2>4. runners'[m].executing => slots'[runners'[m].uri] # None
    <3>1. SUFFICES ASSUME runners'[m].executing PROVE slots'[runners'[m].uri] # None
      OBVIOUS
    <3>2. m # n
      BY <3>1 DEF Ends
    <3>3. runners[m].executing
      BY <1>8, <3>1, <3>2
    <3>4. slots[runners[m].uri] # None /\ slots[runners[m].uri] \notin released
      BY <2>2, <3>2, <3>3, ReleasesOwn DEF Ends
    <3>. QED BY <1>1, <2>1, <3>4
  <2>. QED BY <2>3, <2>4
<1>11. ASSUME WireKeeps PROVE OrderInv'
  <2>1. LosersStay
    BY <1>1, <1>2 DEF LosersStay, Ends
  <2>2. \A r \in Runs : pc'[r] = "reset" => pc[r] = "reset"
    BY DEF Ends
  <2>. QED BY <1>11, <2>1, <2>2, LosersAhead, AskedStays
<1>. QED BY <1>4, <1>5, <1>6, <1>7, <1>9, <1>10, <1>11

LEMMA CancelTakesKeeps ==
    ASSUME IInv, CallsGoOn, NEW c \in Cancels, NEW u \in Uris, CancelTakes(c, u),
           UNCHANGED <<resultsMap, created, runners>>
    PROVE  EditorInv' /\ (WireKeeps => OrderInv')
<1>. USE AreCalls DEF IInv, EditorInv, OrderInv
<1>0. \A r \in Runs : pc'[r] = pc[r]
  BY OthersMove DEF CancelTakes, TInv
<1>1. runner' = runner /\ slots' = [slots EXCEPT ![u] = None]
  BY DEF CancelTakes
<1>2. \A v \in Uris, r \in Runs : slots'[v] = r <=> slots[v] = r /\ v # u
  BY <1>1, NoneIsNoRun DEF TInv, TypeOK
<1>3. \A r \in Runs : HoldsSlot(r)' => HoldsSlot(r)
  BY <1>2 DEF HoldsSlot
<1>4. RunnerOfOneEditor'
  BY DEF RunnerOfOneEditor
<1>5. SlotWithRunner'
  BY <1>1, <1>2 DEF SlotWithRunner
<1>6. HoldersHaveBegun'
  BY <1>0, <1>1, <1>3 DEF HoldersHaveBegun
<1>7. OneSlotPerRunner'
  BY <1>1, <1>3 DEF OneSlotPerRunner
<1>8. SlotIsOwned'
  BY <1>0, <1>1, <1>3 DEF SlotIsOwned
<1>9. KnownRunners'
  <2>. SUFFICES ASSUME NothingClosed', NEW m \in Runners
                PROVE  /\ m <= created => resultsMap[runners[m].uri] = m
                       /\ runners[m].executing => slots'[runners[m].uri] # None
    BY DEF KnownRunners
  <2>1. runners[m].uri \in Uris
    BY IsRunner, RunnerFields DEF TInv
  <2>2. NothingClosed
    BY ClosedStays
  <2>3. m <= created => resultsMap[runners[m].uri] = m
    BY <2>2 DEF KnownRunners
  <2>4. runners[m].executing => slots'[runners[m].uri] # None
    <3>1. SUFFICES ASSUME runners[m].executing PROVE slots'[runners[m].uri] # None
      OBVIOUS
    <3>2. m <= created
      BY <3>1 DEF TInv, RunnersAreMade, TypeOK, Runners
    <3>3. resultsMap[runners[m].uri] = m /\ m # 0
      BY <2>3, <3>2 DEF Runners
    <3>4. runners[m].uri # u
      BY <3>1, <3>3 DEF CancelTakes
    <3>. QED BY <1>1, <2>1, <2>2, <3>1, <3>4 DEF KnownRunners, TInv, TypeOK
  <2>. QED BY <2>3, <2>4
<1>10. ASSUME WireKeeps PROVE OrderInv'
  <2>1. LosersStay
    <3>. SUFFICES ASSUME NEW r \in Runs, NEW s \in Runs, pc'[r] = "reset", ~HoldsSlot(r)',
                         HoldsSlot(s)', runner'[r] = runner'[s]
                  PROVE  ~HoldsSlot(r)
      BY <1>0, <1>1, <1>3 DEF LosersStay
    <3>1. HoldsSlot(s) /\ runner[r] = runner[s] /\ r # s
      BY <1>1, <1>3
    <3>. QED BY <3>1 DEF OneSlotPerRunner
  <2>. QED BY <1>0, <1>10, <2>1, LosersAhead, AskedStays
<1>. QED BY <1>4, <1>5, <1>6, <1>7, <1>8, <1>9, <1>10

LEMMA ReuseKeeps ==
    ASSUME IInv, CallsGoOn, NEW q \in Runs, NEW w \in Uris, pc[q] = "idle", Reuse(q, w),
           UNCHANGED replies
    PROVE  EditorInv' /\ OrderInv' /\ MessagesAreSent'
<1>. USE AreCalls DEF IInv, EditorInv, OrderInv
<1>. DEFINE n == resultsMap[w]
            m == [type |-> "cancel", who |-> q, uri |-> runners[n].uri]
<1>1. /\ slots[w] = None /\ n # 0
      /\ slots' = [slots EXCEPT ![w] = q]
      /\ pc' = [pc EXCEPT ![q] = "reset"]
      /\ runner' = [runner EXCEPT ![q] = n]
      /\ requests' = Append(requests, m)
      /\ UNCHANGED <<resultsMap, routes, created, runners>>
  BY DEF Reuse, Goto, IsBusy, Ask, runnerVars
<1>2. n \in Runners
  BY <1>1, IsRunner DEF TInv
<1>3. ~HoldsSlot(q)
  BY DEF HoldersHaveBegun
<1>4. \A u \in Uris, r \in Runs : slots'[u] = r <=> slots[u] = r \/ (u = w /\ r = q)
  BY <1>1, NoneIsNoRun DEF TInv, TypeOK
<1>5. \A u \in Uris : slots[u] # q
  BY <1>3 DEF HoldsSlot
<1>6. /\ HoldsSlot(q)'
      /\ \A r \in Runs \ {q} : HoldsSlot(r)' <=> HoldsSlot(r)
  BY <1>4 DEF HoldsSlot
<1>7. /\ runner'[q] = n /\ pc'[q] = "reset"
      /\ \A r \in Runs \ {q} : runner'[r] = runner[r] /\ pc'[r] = pc[r]
  BY <1>1 DEF TInv, TypeOK
<1>. HIDE DEF n
<1>8. RunnerOfOneEditor'
  BY <1>1 DEF RunnerOfOneEditor
<1>9. SlotWithRunner'
  <2>. SUFFICES ASSUME NEW u \in Uris, NEW v \in Uris, NEW r \in Runs, slots'[v] = r,
                       resultsMap[u] # 0, resultsMap[u] = runner'[r]
                PROVE  u = v
    BY <1>1 DEF SlotWithRunner
  <2>1. CASE r = q
    <3>1. v = w
      BY <1>4, <1>5, <2>1
    <3>. QED BY <1>7, <2>1, <3>1 DEF RunnerOfOneEditor, n
  <2>2. CASE r # q
    BY <1>4, <1>7, <2>2 DEF SlotWithRunner
  <2>. QED BY <2>1, <2>2
<1>10. HoldersHaveBegun'
  BY <1>1, <1>6, <1>7 DEF HoldersHaveBegun
<1>11. \A r \in Runs \ {q} : HoldsSlot(r) => runner[r] # n
  <2>. SUFFICES ASSUME NEW r \in Runs \ {q}, HoldsSlot(r), runner[r] = n PROVE FALSE
    OBVIOUS
  <2>1. PICK u \in Uris : slots[u] = r
    BY DEF HoldsSlot
  <2>2. u = w
    BY <1>1, <2>1 DEF SlotWithRunner, n
  <2>. QED BY <1>1, <2>1, <2>2, NoneIsNoRun
<1>12. OneSlotPerRunner'
  BY <1>6, <1>7, <1>11 DEF OneSlotPerRunner
<1>13. SlotIsOwned'
  BY <1>1, <1>6, <1>7 DEF SlotIsOwned
<1>14. KnownRunners'
  <2>. SUFFICES ASSUME NothingClosed', NEW k \in Runners
                PROVE  /\ k <= created => resultsMap[runners[k].uri] = k
                       /\ runners[k].executing => slots'[runners[k].uri] # None
    BY <1>1 DEF KnownRunners
  <2>1. runners[k].uri \in Uris
    BY IsRunner, RunnerFields DEF TInv
  <2>2. \A u \in Uris : slots[u] # None => slots'[u] # None
    BY <1>1, NoneIsNoRun DEF TInv, TypeOK
  <2>. QED BY <2>1, <2>2, ClosedStays DEF KnownRunners
<1>15. SentNext(m) /\ IsCancelOf(m, q)
  BY <1>7 DEF SentNext, IsCancelOf, CancelTypes
<1>. HIDE DEF m
<1>16. MessagesAreSent'
  BY <1>1, <1>15, RequestSent
<1>17. /\ CancelOnItsWay(q)'
       /\ \A r \in Runs : CancelOnItsWay(r) => CancelOnItsWay(r)' /\ Ahead(r, q)'
       /\ \A r \in Runs, s \in Runs \ {q} : Ahead(r, s) => Ahead(r, s)'
  BY <1>1, <1>15, CancelSent
<1>18. ResetIsAsked'
  BY <1>7, <1>17 DEF ResetIsAsked
<1>19. LoserIsAhead'
  <2>. SUFFICES ASSUME NEW r \in Runs, NEW s \in Runs, pc'[r] = "reset", ~HoldsSlot(r)',
                       HoldsSlot(s)', runner'[r] = runner'[s]
                PROVE  pc'[s] = "reset" /\ Ahead(r, s)'
    BY DEF LoserIsAhead
  <2>1. r # q /\ pc[r] = "reset" /\ ~HoldsSlot(r)
    BY <1>6, <1>7
  <2>2. CASE s = q
    BY <1>7, <1>17, <2>1, <2>2 DEF ResetIsAsked
  <2>3. CASE s # q
    <3>1. HoldsSlot(s) /\ runner[r] = runner[s]
      BY <1>6, <1>7, <2>1, <2>3
    <3>2. pc[s] = "reset" /\ Ahead(r, s)
      BY <2>1, <3>1 DEF LoserIsAhead
    <3>. QED BY <1>7, <1>17, <2>3, <3>2
  <2>. QED BY <2>2, <2>3
<1>. QED BY <1>8, <1>9, <1>10, <1>12, <1>13, <1>14, <1>16, <1>18, <1>19

LEMMA CreateKeeps ==
    ASSUME IInv, CallsGoOn, NEW q \in Runs, NEW w \in Uris, CreateEffect(q, w)
    PROVE  EditorInv' /\ (WireKeeps => OrderInv')
<1>. USE AreCalls DEF IInv, EditorInv, OrderInv
<1>. DEFINE n == created + 1
<1>1. /\ pc[q] = "idle" /\ slots[w] = None /\ resultsMap[w] = 0
      /\ n \in Runners /\ n # 0 /\ created' = n /\ created \in Nat
      /\ slots' = [slots EXCEPT ![w] = q]
      /\ resultsMap' = [resultsMap EXCEPT ![w] = n]
  BY DEF CreateEffect, TInv, TypeOK
<1>2. /\ \A u \in Uris : resultsMap[u] # n
      /\ \A c \in Calls : runner[c] # n
  BY <1>1 DEF TInv, RunnersAreMade
<1>3. \A u \in Uris : slots[u] # q
  BY <1>1 DEF HoldersHaveBegun, HoldsSlot
<1>4. \A u \in Uris, r \in Runs : slots'[u] = r <=> slots[u] = r \/ (u = w /\ r = q)
  BY <1>1, NoneIsNoRun DEF TInv, TypeOK
<1>5. /\ HoldsSlot(q)'
      /\ \A r \in Runs \ {q} : HoldsSlot(r)' <=> HoldsSlot(r)
  BY <1>4 DEF HoldsSlot
<1>6. /\ runner'[q] = n /\ pc'[q] = "panel"
      /\ \A r \in Runs \ {q} : runner'[r] = runner[r] /\ pc'[r] = pc[r]
  BY DEF CreateEffect, TInv, TypeOK
<1>7. resultsMap'[w] = n /\ \A u \in Uris \ {w} : resultsMap'[u] = resultsMap[u]
  BY <1>1 DEF TInv, TypeOK
<1>8. /\ runners'[n].uri = w /\ ~runners'[n].executing
      /\ \A k \in Runners \ {n} : runners'[k] = runners[k]
  BY DEF CreateEffect, TInv, TypeOK
<1>9. \A k \in Runners : k <= n /\ k # n => k <= created
  BY <1>1 DEF Runners
<1>. HIDE DEF n
<1>10. RunnerOfOneEditor'
  BY <1>2, <1>7 DEF RunnerOfOneEditor
<1>11. SlotWithRunner'
  <2>. SUFFICES ASSUME NEW u \in Uris, NEW v \in Uris, NEW r \in Runs, slots'[v] = r,
                       resultsMap'[u] # 0, resultsMap'[u] = runner'[r]
                PROVE  u = v
    BY DEF SlotWithRunner
  <2>1. CASE r = q
    BY <1>2, <1>3, <1>4, <1>6, <1>7, <2>1
  <2>2. CASE r # q
    <3>1. slots[v] = r /\ runner'[r] = runner[r] /\ runner[r] # n
      BY <1>2, <1>4, <1>6, <2>2
    <3>2. u # w
      BY <1>7, <3>1
    <3>. QED BY <1>7, <3>1, <3>2 DEF SlotWithRunner
  <2>. QED BY <2>1, <2>2
<1>12. HoldersHaveBegun'
  BY <1>1, <1>5, <1>6 DEF HoldersHaveBegun
<1>13. OneSlotPerRunner'
  BY <1>2, <1>5, <1>6 DEF OneSlotPerRunner
<1>14. SlotIsOwned'
  <2>. SUFFICES ASSUME NEW r \in Runs, HoldsSlot(r)'
                PROVE  \/ pc'[r] \in {"reset", "panel"}
                       \/ r \in runners'[runner'[r]].listeners /\ runners'[runner'[r]].executing
    BY DEF SlotIsOwned
  <2>1. CASE r = q
    BY <1>6, <2>1
  <2>2. CASE r # q
    <3>1. HoldsSlot(r) /\ runner'[r] = runner[r] /\ pc'[r] = pc[r] /\ runner[r] # n
      BY <1>2, <1>5, <1>6, <2>2
    <3>2. runner[r] \in Runners
      BY <3>1, IsRunner DEF TInv, HoldersHaveBegun
    <3>3. runners'[runner[r]] = runners[runner[r]]
      BY <1>8, <3>1, <3>2
    <3>. QED BY <3>1, <3>3 DEF SlotIsOwned
  <2>. QED BY <2>1, <2>2
<1>15. KnownRunners'
  <2>. SUFFICES ASSUME NothingClosed', NEW k \in Runners
                PROVE  /\ k <= created' => resultsMap'[runners'[k].uri] = k
                       /\ runners'[k].executing => slots'[runners'[k].uri] # None
    BY DEF KnownRunners
  <2>1. CASE k = n
    BY <1>7, <1>8, <2>1
  <2>2. CASE k # n
    <3>0. runners[k].uri \in Uris /\ runners'[k] = runners[k]
      BY <1>8, <2>2, IsRunner, RunnerFields DEF TInv
    <3>1. NothingClosed
      BY ClosedStays
    <3>2. k <= created => resultsMap[runners[k].uri] = k /\ k # 0
      BY <3>1 DEF KnownRunners, Runners
    <3>3. k <= created => runners[k].uri # w
      BY <1>1, <3>2
    <3>4. k <= created' => resultsMap'[runners'[k].uri] = k
      BY <1>1, <1>7, <1>9, <2>2, <3>0, <3>2, <3>3
    <3>5. runners'[k].executing => slots'[runners'[k].uri] # None
      <4>1. SUFFICES ASSUME runners[k].executing PROVE slots'[runners[k].uri] # None
        BY <3>0
      <4>2. \A u \in Uris : slots[u] # None => slots'[u] # None
        BY <1>1, NoneIsNoRun DEF TInv, TypeOK
      <4>. QED BY <3>0, <3>1, <4>1, <4>2 DEF KnownRunners
    <3>. QED BY <3>4, <3>5
  <2>. QED BY <2>1, <2>2
<1>16. ASSUME WireKeeps PROVE OrderInv'
  <2>1. LosersStay
    <3>. SUFFICES ASSUME NEW r \in Runs, NEW s \in Runs, pc'[r] = "reset", ~HoldsSlot(r)',
                         HoldsSlot(s)', runner'[r] = runner'[s]
                  PROVE  /\ pc[r] = "reset" /\ ~HoldsSlot(r) /\ HoldsSlot(s) /\ runner[r] = runner[s]
                         /\ pc[s] = "reset" /\ Ahead(r, s) => pc'[s] = "reset"
      BY DEF LosersStay
    <3>1. r # q
      BY <1>6
    <3>2. s # q
      BY <1>2, <1>6, <3>1
    <3>. QED BY <1>5, <1>6, <3>1, <3>2
  <2>2. \A r \in Runs : pc'[r] = "reset" => pc[r] = "reset"
    BY <1>6
  <2>. QED BY <1>16, <2>1, <2>2, LosersAhead, AskedStays
<1>. QED BY <1>10, <1>11, <1>12, <1>13, <1>14, <1>15, <1>16

\* No other run that waits for its reset asked before this one.
NobodyAhead(q) == \A r \in Runs \ {q} : pc[r] = "reset" => ~Ahead(r, q)

LEMMA ResetKeeps ==
    ASSUME IInv, CallsGoOn, NEW q \in Runs, NEW answer, ResetEffect(q, answer), NobodyAhead(q)
    PROVE  EditorInv' /\ (WireKeeps => OrderInv')
<1>. USE AreCalls DEF IInv, EditorInv, OrderInv
<1>. DEFINE n == runner[q]
            released == IF answer = "failed" THEN runners[n].listeners ELSE {}
<1>0. pc[q] = "reset" /\ runner' = runner /\ resultsMap' = resultsMap /\ created' = created
  BY DEF ResetEffect
<1>1. n # 0
  BY <1>0 DEF TInv, StepsHaveRunner
<1>2. n \in Runners /\ n <= created
  BY <1>1, IsRunner DEF TInv, RunnersAreMade
<1>3. /\ released \in SUBSET Runs
      /\ \A r \in released : runner[r] = n /\ pc[r] # "reset"
  BY <1>2, ListenersOf
<1>4. /\ \A u \in Uris, r \in Runs : slots'[u] = r <=> slots[u] = r /\ r \notin released
      /\ \A u \in Uris : slots[u] \notin released => slots'[u] = slots[u]
      /\ \A r \in Runs : HoldsSlot(r)' <=> HoldsSlot(r) /\ r \notin released
  <2>1. CASE answer = "failed"
    <3>1. slots' = Without(released)
      BY <2>1 DEF ResetEffect
    <3>. HIDE DEF released
    <3>. QED BY <1>3, <3>1, Releases
  <2>2. CASE answer # "failed"
    <3>1. slots' = slots /\ released = {}
      BY <2>2 DEF ResetEffect
    <3>. QED BY <3>1 DEF HoldsSlot
  <2>. QED BY <2>1, <2>2
<1>5. q \notin released
  BY <1>0, <1>3
<1>6. /\ pc'[q] = "panel"
      /\ \A r \in Runs \ {q} : pc'[r] = pc[r]
  BY DEF ResetEffect
<1>7. /\ \A k \in Runners \ {n} : runners'[k] = runners[k]
      /\ runners'[n].uri = runners[n].uri
      /\ ~runners'[n].executing
  BY DEF ResetEffect, TInv, TypeOK
<1>. HIDE DEF n, released
<1>8. RunnerOfOneEditor'
  BY <1>0 DEF RunnerOfOneEditor
<1>9. SlotWithRunner'
  BY <1>0, <1>4 DEF SlotWithRunner
<1>10. HoldersHaveBegun'
  <2>1. \A r \in Runs : pc[r] # "idle" => pc'[r] # "idle"
    BY DEF CallsGoOn
  <2>. QED BY <1>0, <1>4, <2>1 DEF HoldersHaveBegun
<1>11. OneSlotPerRunner'
  BY <1>0, <1>4 DEF OneSlotPerRunner
<1>12. ASSUME NEW s \in Runs \ {q}, HoldsSlot(s), runner[s] = n
       PROVE  pc'[s] = "reset"
  <2>1. ~HoldsSlot(q)
    BY <1>12 DEF OneSlotPerRunner, n
  <2>. QED BY <1>0, <1>6, <1>12, <2>1 DEF LoserIsAhead, n
<1>13. SlotIsOwned'
  <2>. SUFFICES ASSUME NEW r \in Runs, HoldsSlot(r), r \notin released
                PROVE  \/ pc'[r] \in {"reset", "panel"}
                       \/ r \in runners'[runner[r]].listeners /\ runners'[runner[r]].executing
    BY <1>0, <1>4 DEF SlotIsOwned
  <2>1. CASE r = q
    BY <1>6, <2>1
  <2>2. CASE r # q /\ runner[r] = n
    BY <1>12, <2>2
  <2>3. CASE r # q /\ runner[r] # n
    <3>1. runner[r] \in Runners
      BY IsRunner DEF TInv, HoldersHaveBegun
    <3>2. runners'[runner[r]] = runners[runner[r]] /\ pc'[r] = pc[r]
      BY <1>6, <1>7, <2>3, <3>1
    <3>. QED BY <3>2 DEF SlotIsOwned
  <2>. QED BY <2>1, <2>2, <2>3
<1>14. KnownRunners'
  <2>. SUFFICES ASSUME NothingClosed', NEW m \in Runners
                PROVE  /\ m <= created => resultsMap[runners'[m].uri] = m
                       /\ runners'[m].executing => slots'[runners'[m].uri] # None
    BY <1>0 DEF KnownRunners
  <2>1. runners[m].uri \in Uris /\ runners'[m].uri = runners[m].uri
    BY <1>7, IsRunner, RunnerFields DEF TInv
  <2>2. NothingClosed
    BY ClosedStays
  <2>3. m <= created => resultsMap[runners'[m].uri] = m
    BY <2>1, <2>2 DEF KnownRunners
  <2>4. runners'[m].executing => slots'[runners'[m].uri] # None
    <3>1. SUFFICES ASSUME runners'[m].executing PROVE slots'[runners[m].uri] # None
      BY <2>1
    <3>2. m # n
      BY <1>7, <3>1
    <3>3. runners[m].executing
      BY <1>7, <3>1, <3>2
    <3>4. \A r \in released : runner[r] = n
      BY <1>3
    <3>5. slots[runners[m].uri] # None /\ slots[runners[m].uri] \notin released
      BY <1>2, <1>3, <2>2, <3>2, <3>3, <3>4, ReleasesOwn
    <3>. QED BY <1>4, <2>1, <3>5
  <2>. QED BY <2>3, <2>4
<1>15. ASSUME WireKeeps PROVE OrderInv'
  <2>1. LosersStay
    <3>. SUFFICES ASSUME NEW r \in Runs, NEW s \in Runs, pc'[r] = "reset", ~HoldsSlot(r)',
                         HoldsSlot(s)', runner'[r] = runner'[s]
                  PROVE  /\ pc[r] = "reset" /\ ~HoldsSlot(r) /\ HoldsSlot(s) /\ runner[r] = runner[s]
                         /\ pc[s] = "reset" /\ Ahead(r, s) => pc'[s] = "reset"
      BY DEF LosersStay
    <3>1. r # q /\ pc[r] = "reset"
      BY <1>6
    <3>2. r \notin released
      BY <1>3, <3>1
    <3>3. ~HoldsSlot(r) /\ HoldsSlot(s) /\ runner[r] = runner[s]
      BY <1>0, <1>4, <3>2
    <3>4. pc[s] = "reset" /\ Ahead(r, s) => pc'[s] = "reset"
      BY <1>6, <3>1 DEF NobodyAhead
    <3>. QED BY <3>1, <3>3, <3>4
  <2>2. \A r \in Runs : pc'[r] = "reset" => pc[r] = "reset"
    BY <1>0, <1>6
  <2>. QED BY <1>15, <2>1, <2>2, LosersAhead, AskedStays
<1>. QED BY <1>8, <1>9, <1>10, <1>11, <1>13, <1>14, <1>15

LEMMA SetUpKeeps ==
    ASSUME IInv, CallsGoOn, NEW q \in Runs, SetUpEffect(q)
    PROVE  EditorInv' /\ (WireKeeps => OrderInv')
<1>. USE AreCalls DEF IInv, EditorInv, OrderInv
<1>. DEFINE n == runner[q]
<1>0. /\ pc[q] = "panel" /\ HoldsSlot(q)
      /\ UNCHANGED <<slots, resultsMap, created, runner>>
  BY DEF SetUpEffect
<1>1. n # 0
  BY <1>0 DEF TInv, StepsHaveRunner
<1>2. n \in Runners /\ n <= created
  BY <1>1, IsRunner DEF TInv, RunnersAreMade
<1>3. \A r \in Runs : HoldsSlot(r)' <=> HoldsSlot(r)
  BY <1>0 DEF HoldsSlot
<1>4. /\ pc'[q] = "reading"
      /\ \A r \in Runs \ {q} : pc'[r] = pc[r]
  BY DEF SetUpEffect
<1>5. /\ \A k \in Runners \ {n} : runners'[k] = runners[k]
      /\ runners'[n].uri = runners[n].uri
      /\ runners'[n].executing /\ q \in runners'[n].listeners
  BY DEF SetUpEffect, TInv, TypeOK
<1>. HIDE DEF n
<1>6. RunnerOfOneEditor' /\ SlotWithRunner'
  BY <1>0 DEF RunnerOfOneEditor, SlotWithRunner
<1>7. HoldersHaveBegun'
  <2>1. \A r \in Runs : pc[r] # "idle" => pc'[r] # "idle"
    BY DEF CallsGoOn
  <2>. QED BY <1>0, <1>3, <2>1 DEF HoldersHaveBegun
<1>8. OneSlotPerRunner'
  BY <1>0, <1>3 DEF OneSlotPerRunner
<1>9. SlotIsOwned'
  <2>. SUFFICES ASSUME NEW r \in Runs, HoldsSlot(r)
                PROVE  \/ pc'[r] \in {"reset", "panel"}
                       \/ r \in runners'[runner[r]].listeners /\ runners'[runner[r]].executing
    BY <1>0, <1>3 DEF SlotIsOwned
  <2>1. CASE r = q
    BY <1>5, <2>1 DEF n
  <2>2. CASE r # q
    <3>1. runner[r] # n
      BY <1>0, <2>2 DEF OneSlotPerRunner, n
    <3>2. runner[r] \in Runners
      BY IsRunner DEF TInv, HoldersHaveBegun
    <3>3. runners'[runner[r]] = runners[runner[r]] /\ pc'[r] = pc[r]
      BY <1>4, <1>5, <2>2, <3>1, <3>2
    <3>. QED BY <3>3 DEF SlotIsOwned
  <2>. QED BY <2>1, <2>2
<1>10. KnownRunners'
  <2>. SUFFICES ASSUME NothingClosed', NEW m \in Runners
                PROVE  /\ m <= created => resultsMap[runners'[m].uri] = m
                       /\ runners'[m].executing => slots[runners'[m].uri] # None
    BY <1>0 DEF KnownRunners
  <2>1. runners[m].uri \in Uris /\ runners'[m].uri = runners[m].uri
    BY <1>5, IsRunner, RunnerFields DEF TInv
  <2>2. NothingClosed
    BY ClosedStays
  <2>3. m <= created => resultsMap[runners'[m].uri] = m
    BY <2>1, <2>2 DEF KnownRunners
  <2>4. CASE m = n
    <3>1. PICK v \in Uris : slots[v] = q
      BY <1>0 DEF HoldsSlot
    <3>2. resultsMap[runners[m].uri] = runner[q] /\ runner[q] # 0
      BY <1>1, <1>2, <2>1, <2>3, <2>4 DEF n
    <3>3. v = runners[m].uri
      BY <2>1, <3>1, <3>2 DEF SlotWithRunner
    <3>. QED BY <2>1, <2>3, <3>1, <3>3, NoneIsNoRun
  <2>5. CASE m # n
    BY <1>5, <2>2, <2>3, <2>5 DEF KnownRunners
  <2>. QED BY <2>4, <2>5
<1>11. ASSUME WireKeeps PROVE OrderInv'
  <2>1. \A r \in Runs : pc'[r] = "reset" <=> pc[r] = "reset"
    BY <1>0, <1>4
  <2>2. LosersStay
    BY <1>0, <1>3, <2>1 DEF LosersStay
  <2>. QED BY <1>11, <2>1, <2>2, LosersAhead, AskedStays
<1>. QED BY <1>6, <1>7, <1>8, <1>9, <1>10, <1>11

LEMMA SaveAsKeeps ==
    ASSUME IInv, CallsGoOn, NEW u \in Uris, NEW v \in Uris, SaveAsEffect(u, v)
    PROVE  EditorInv' /\ (WireKeeps => OrderInv')
<1>. USE AreCalls DEF IInv, EditorInv, OrderInv
<1>. DEFINE n == resultsMap[u]
<1>1. /\ u # v /\ resultsMap[v] = 0 /\ slots[v] = None
      /\ runner' = runner /\ created' = created
      /\ \A r \in Runs : pc'[r] = pc[r]
  BY DEF SaveAsEffect
<1>2. /\ n = 0 => resultsMap' = resultsMap
      /\ n # 0 => resultsMap' = [resultsMap EXCEPT ![v] = n, ![u] = 0]
  BY DEF SaveAsEffect
<1>3. /\ resultsMap'[v] = n /\ resultsMap'[u] = 0
      /\ \A w \in Uris \ {u, v} : resultsMap'[w] = resultsMap[w]
  BY <1>1, <1>2 DEF TInv, TypeOK
<1>4. /\ slots'[v] = slots[u] /\ slots'[u] = None
      /\ \A w \in Uris \ {u, v} : slots'[w] = slots[w]
  BY <1>1 DEF SaveAsEffect, TInv, TypeOK
<1>5. \A k \in Runners :
          /\ runners'[k].uri = IF k = n THEN v ELSE runners[k].uri
          /\ runners'[k].executing = runners[k].executing
          /\ runners'[k].listeners = runners[k].listeners
  BY DEF SaveAsEffect
<1>. DEFINE old(w) == IF w = v THEN u ELSE w
<1>6. /\ \A w \in Uris : resultsMap'[w] # 0 => resultsMap[old(w)] = resultsMap'[w] /\ w # u
      /\ \A w \in Uris, r \in Runs : slots'[w] = r => slots[old(w)] = r /\ w # u
      /\ \A w \in Uris : old(w) \in Uris
      /\ \A w, x \in Uris : w # u /\ x # u /\ old(w) = old(x) => w = x
  BY <1>1, <1>3, <1>4, NoneIsNoRun
<1>. HIDE DEF n
<1>7. RunnerOfOneEditor'
  <2>. SUFFICES ASSUME NEW w \in Uris, NEW x \in Uris, resultsMap'[w] # 0,
                       resultsMap'[w] = resultsMap'[x]
                PROVE  w = x
    BY DEF RunnerOfOneEditor
  <2>1. resultsMap[old(w)] # 0 /\ resultsMap[old(w)] = resultsMap[old(x)] /\ w # u /\ x # u
    BY <1>6
  <2>. HIDE DEF old
  <2>2. old(w) = old(x)
    BY <1>6, <2>1 DEF RunnerOfOneEditor
  <2>. QED BY <1>6, <2>1, <2>2
<1>8. SlotWithRunner'
  <2>. SUFFICES ASSUME NEW w \in Uris, NEW x \in Uris, NEW r \in Runs, slots'[x] = r,
                       resultsMap'[w] # 0, resultsMap'[w] = runner[r]
                PROVE  w = x
    BY <1>1 DEF SlotWithRunner
  <2>1. /\ resultsMap[old(w)] # 0 /\ resultsMap[old(w)] = runner[r] /\ w # u
        /\ slots[old(x)] = r /\ x # u
    BY <1>6
  <2>. HIDE DEF old
  <2>2. old(w) = old(x)
    BY <1>6, <2>1 DEF SlotWithRunner
  <2>. QED BY <1>6, <2>1, <2>2
<1>9. \A r \in Runs : HoldsSlot(r)' <=> HoldsSlot(r)
  <2>. SUFFICES ASSUME NEW r \in Runs PROVE HoldsSlot(r)' <=> HoldsSlot(r)
    OBVIOUS
  <2>1. ASSUME HoldsSlot(r) PROVE HoldsSlot(r)'
    <3>1. PICK w \in Uris : slots[w] = r
      BY <2>1 DEF HoldsSlot
    <3>2. w # v
      BY <1>1, <3>1, NoneIsNoRun
    <3>3. slots'[IF w = u THEN v ELSE w] = r
      BY <1>4, <3>1, <3>2
    <3>. QED BY <3>3 DEF HoldsSlot
  <2>2. ASSUME HoldsSlot(r)' PROVE HoldsSlot(r)
    BY <1>6, <2>2 DEF HoldsSlot
  <2>. QED BY <2>1, <2>2
<1>. HIDE DEF old
<1>10. HoldersHaveBegun'
  BY <1>1, <1>9 DEF HoldersHaveBegun
<1>11. OneSlotPerRunner'
  BY <1>1, <1>9 DEF OneSlotPerRunner
<1>12. SlotIsOwned'
  <2>. SUFFICES ASSUME NEW r \in Runs, HoldsSlot(r)
                PROVE  \/ pc[r] \in {"reset", "panel"}
                       \/ r \in runners'[runner[r]].listeners /\ runners'[runner[r]].executing
    BY <1>1, <1>9 DEF SlotIsOwned
  <2>1. runner[r] \in Runners
    BY IsRunner DEF TInv, HoldersHaveBegun
  <2>. QED BY <1>5, <2>1 DEF SlotIsOwned
<1>13. KnownRunners'
  <2>. SUFFICES ASSUME NothingClosed', NEW m \in Runners
                PROVE  /\ m <= created => resultsMap'[runners'[m].uri] = m
                       /\ runners[m].executing => slots'[runners'[m].uri] # None
    BY <1>1, <1>5 DEF KnownRunners
  <2>1. runners[m].uri \in Uris /\ m # 0
    BY IsRunner, RunnerFields DEF TInv, Runners
  <2>2. NothingClosed
    BY ClosedStays
  <2>3. runners[m].executing => m <= created
    BY DEF TInv, RunnersAreMade, TypeOK, Runners
  <2>4. m <= created => resultsMap[runners[m].uri] = m
    BY <2>2 DEF KnownRunners
  <2>5. runners[m].executing => slots[runners[m].uri] # None
    BY <2>2 DEF KnownRunners
  <2>6. CASE m = n
    <3>1. runners'[m].uri = v /\ m <= created
      BY <1>5, <2>6 DEF n, TInv, RunnersAreMade
    <3>2. runners[m].uri = u
      BY <2>1, <2>4, <2>6, <3>1 DEF RunnerOfOneEditor, n
    <3>. QED BY <1>3, <1>4, <2>5, <2>6, <3>1, <3>2
  <2>7. CASE m # n
    <3>1. runners'[m].uri = runners[m].uri
      BY <1>5, <2>7
    <3>2. m <= created => runners[m].uri \notin {u, v}
      BY <1>1, <2>1, <2>4, <2>7 DEF n
    <3>3. m <= created => resultsMap'[runners[m].uri] = m
      BY <1>3, <2>1, <2>4, <3>2
    <3>4. runners[m].executing => slots'[runners[m].uri] # None
      BY <1>4, <2>1, <2>3, <2>5, <3>2
    <3>. QED BY <3>1, <3>3, <3>4
  <2>. QED BY <2>6, <2>7
<1>14. ASSUME WireKeeps PROVE OrderInv'
  <2>1. LosersStay
    BY <1>1, <1>9 DEF LosersStay
  <2>. QED BY <1>1, <1>14, <2>1, LosersAhead, AskedStays
<1>. QED BY <1>7, <1>8, <1>10, <1>11, <1>12, <1>13, <1>14

-----------------------------------------------------------------------------
(* Every action keeps the invariant                                         *)

LEMMA InitKeeps == Init => IInv
<1>. SUFFICES ASSUME Init PROVE IInv
  OBVIOUS
<1>. DEFINE u == CHOOSE v \in Uris : TRUE
<1>0. u \in Uris
  BY EditorAssumption
<1>1. TypeOK
  BY InitTyped
<1>2. StepsHaveRunner
  BY DEF Init, StepsHaveRunner
<1>3. \A n \in Runners : runners[n].executing = FALSE /\ runners[n].listeners = {} /\ runners[n].uri = u
  BY <1>0, NewRunnerFields DEF Init
<1>4. RunnersAreMade /\ ListenersAreSetUp
  BY <1>3, EditorAssumption DEF Init, RunnersAreMade, ListenersAreSetUp
<1>5. MessagesAreSent
  BY DEF Init, MessagesAreSent
<1>6. \A r \in Runs : ~HoldsSlot(r)
  BY NoneIsNoRun DEF Init, HoldsSlot
<1>7. RunnerOfOneEditor /\ SlotWithRunner
  BY DEF Init, RunnerOfOneEditor, SlotWithRunner
<1>8. HoldersHaveBegun /\ OneSlotPerRunner /\ SlotIsOwned
  BY <1>6 DEF HoldersHaveBegun, OneSlotPerRunner, SlotIsOwned
<1>9. KnownRunners
  <2>1. \A n \in Runners : ~(n <= created)
    BY DEF Init, Runners
  <2>. QED BY <1>3, <2>1 DEF KnownRunners
<1>10. ResetIsAsked /\ LoserIsAhead
  BY AreCalls DEF Init, ResetIsAsked, LoserIsAhead
<1>. QED BY <1>1, <1>2, <1>4, <1>5, <1>7, <1>8, <1>9, <1>10 DEF IInv, TInv, EditorInv, OrderInv

LEMMA RunKeeps ==
    ASSUME IInv, NEW r \in Runs, Run(r)
    PROVE  IInv'
<1>. USE DEF IInv
<1>0. TypeOK' /\ pc[r] = "idle" /\ UNCHANGED <<replies, queries>>
  BY RunTyped DEF TInv, Run
<1>1. ASSUME NEW u \in Uris, Blocked(r, u) PROVE IInv'
  <2>1. CallsGoOn /\ StepsHaveRunner' /\ Quiet
    BY <1>0, <1>1, BlockedEffect
  <2>2. UNCHANGED <<requests, replies>>
    BY <1>0, <1>1 DEF Blocked
  <2>3. MessagesAreSent' /\ WireKeeps
    BY <2>1, <2>2, WireSame
  <2>4. RunnersAreMade' /\ ListenersAreSetUp'
    BY <1>0, <2>1, QuietMade
  <2>5. EditorInv' /\ OrderInv'
    BY <2>1, <2>3, QuietKeeps
  <2>. QED BY <1>0, <2>1, <2>3, <2>4, <2>5 DEF TInv
<1>2. ASSUME NEW u \in Uris, Reuse(r, u) PROVE IInv'
  <2>1. CallsGoOn /\ StepsHaveRunner'
    BY <1>0, <1>2, ReuseCalls
  <2>2. RunnersAreMade' /\ ListenersAreSetUp'
    BY <1>0, <1>2, <2>1, ReuseMade
  <2>3. EditorInv' /\ OrderInv' /\ MessagesAreSent'
    BY <1>0, <1>2, <2>1, ReuseKeeps
  <2>. QED BY <1>0, <2>1, <2>2, <2>3 DEF TInv
<1>3. ASSUME NEW u \in Uris, Create(r, u) PROVE IInv'
  <2>1. CallsGoOn /\ StepsHaveRunner' /\ CreateEffect(r, u)
    BY <1>0, <1>3, CreateCalls, CreateHasEffect
  <2>2. UNCHANGED <<requests, replies>>
    BY <1>0, <1>3 DEF Create
  <2>3. MessagesAreSent' /\ WireKeeps
    BY <2>1, <2>2, WireSame
  <2>4. RunnersAreMade' /\ ListenersAreSetUp'
    BY <1>0, <2>1, CreateMade
  <2>5. EditorInv' /\ OrderInv'
    BY <2>1, <2>3, CreateKeeps
  <2>. QED BY <1>0, <2>1, <2>3, <2>4, <2>5 DEF TInv
<1>. QED BY <1>1, <1>2, <1>3 DEF Run

\* The rest of a step that changes no slot and ends no query, or ends one.
LEMMA EffectKeeps ==
    ASSUME IInv, TypeOK', CallsGoOn, StepsHaveRunner', MessagesAreSent', WireKeeps, Quiet \/ AnEnd
    PROVE  IInv'
<1>1. RunnersAreMade' /\ ListenersAreSetUp'
  BY QuietMade, EndMade DEF IInv
<1>2. EditorInv' /\ OrderInv'
  BY QuietKeeps, EndKeeps
<1>. QED BY <1>1, <1>2 DEF IInv, TInv

\* The rest of the end of a reset.
LEMMA ResetEffectKeeps ==
    ASSUME IInv, TypeOK', MessagesAreSent', WireKeeps, NEW r \in Calls, NEW answer \in Answers,
           ResetEnds(r, answer), NobodyAhead(r)
    PROVE  IInv'
<1>0. r \in Runs /\ runner[r] # 0 /\ CallsGoOn /\ StepsHaveRunner' /\ ResetEffect(r, answer)
  BY ResetEndsCalls, ResetEndsEffect DEF IInv
<1>1. RunnersAreMade' /\ ListenersAreSetUp'
  BY <1>0, ResetMade DEF IInv
<1>2. EditorInv' /\ OrderInv'
  BY <1>0, ResetKeeps
<1>. QED BY <1>0, <1>1, <1>2 DEF IInv, TInv

LEMMA PreparedKeeps ==
    ASSUME IInv, NEW r \in Runs, Prepared(r)
    PROVE  IInv'
<1>. USE DEF IInv
<1>1. TypeOK' /\ runner[r] # 0 /\ CallsGoOn /\ StepsHaveRunner'
  BY PreparedTyped, PreparedCalls DEF TInv
<1>2. UNCHANGED <<requests, replies>>
  BY PreparedIs
<1>3. MessagesAreSent' /\ WireKeeps
  BY <1>1, <1>2, WireSame
<1>4. CASE PreparedWins(r)
  <2>1. SetUpEffect(r)
    BY <1>4, PreparedWinsEffect
  <2>2. RunnersAreMade' /\ ListenersAreSetUp'
    BY <1>1, <2>1, SetUpMade
  <2>3. EditorInv' /\ OrderInv'
    BY <1>1, <1>3, <2>1, SetUpKeeps
  <2>. QED BY <1>1, <1>3, <2>2, <2>3 DEF TInv
<1>5. CASE PreparedLoses(r)
  BY <1>1, <1>3, <1>5, PreparedLosesEffect, EffectKeeps
<1>. QED BY <1>4, <1>5, PreparedIs

LEMMA SubmitKeeps ==
    ASSUME IInv, NEW r \in Runs, Submit(r)
    PROVE  IInv'
<1>. DEFINE m == [type |-> "execute", who |-> r, uri |-> at[r]]
<1>1. CallsGoOn /\ StepsHaveRunner' /\ Quiet /\ TypeOK'
  BY SubmitEffect, SubmitTyped DEF IInv, TInv
<1>2. pc[r] = "reading" /\ runner' = runner /\ requests' = Append(requests, m) /\ UNCHANGED replies
  BY DEF Submit, Ask
<1>3. SentNext(m)
  <2>1. runner[r] # 0 /\ pc'[r] # "idle"
    BY <1>1, <1>2, AreCalls DEF IInv, TInv, StepsHaveRunner, CallsGoOn
  <2>. QED BY <1>2, <2>1 DEF SentNext, CancelTypes
<1>4. \A s \in Runs : ~IsCancelOf(m, s)
  BY DEF IsCancelOf, CancelTypes
<1>. HIDE DEF m
<1>5. MessagesAreSent' /\ WireKeeps
  BY <1>1, <1>2, <1>3, <1>4, RequestSent DEF IInv
<1>. QED BY <1>1, <1>5, EffectKeeps

LEMMA ReadFailsKeeps ==
    ASSUME IInv, NEW r \in Runs, ReadFails(r)
    PROVE  IInv'
<1>0. pc[r] = "reading" /\ RunFails(r) /\ UNCHANGED <<requests, replies, queries>>
  BY DEF ReadFails, wireVars
<1>1. runner[r] # 0
  BY <1>0, AreCalls DEF IInv, TInv, StepsHaveRunner
<1>2. TypeOK'
  <2>1. requests' \in Seq(Request) /\ replies' \in Seq(Reply) /\ UNCHANGED queries
    BY <1>0 DEF IInv, TInv, TypeOK
  <2>. QED BY <1>0, <1>1, <2>1, RunFailsTyped DEF IInv, TInv
<1>3. CallsGoOn /\ StepsHaveRunner' /\ AnEnd
  BY <1>0, <1>1, RunFailsEffect DEF IInv
<1>4. MessagesAreSent' /\ WireKeeps
  BY <1>0, <1>3, WireSame DEF IInv
<1>. QED BY <1>2, <1>3, <1>4, EffectKeeps

\* A cancel or a change asks: no run's reset does.
LEMMA OtherAsks ==
    ASSUME IInv, CallsGoOn, NEW c \in Cancels \cup Changes, NEW type \in {"cancel", "dispose"},
           NEW u, NEW step, Goto(c, step), step # "idle", Ask(type, c, u), UNCHANGED replies
    PROVE  MessagesAreSent' /\ WireKeeps
<1>. DEFINE m == [type |-> type, who |-> c, uri |-> u]
<1>1. requests' = Append(requests, m)
  BY DEF Ask
<1>2. SentNext(m)
  <2>1. pc'[c] = step
    BY AreCalls DEF Goto, IInv, TInv, TypeOK
  <2>. QED BY <2>1 DEF SentNext
<1>3. \A s \in Runs : ~IsCancelOf(m, s)
  BY EditorAssumption DEF IsCancelOf
<1>. HIDE DEF m
<1>. QED BY <1>1, <1>2, <1>3, RequestSent DEF IInv

LEMMA CancelKeeps ==
    ASSUME IInv, NEW c \in Cancels, Cancel(c)
    PROVE  IInv'
<1>0. /\ TypeOK' /\ pc[c] = "idle"
      /\ UNCHANGED <<resultsMap, routes, created, runners, at, promise, replies, queries>>
  BY CancelTyped, CancelIs DEF IInv, TInv
<1>1. PICK u \in Uris : CancelAsks(c, u) \/ CancelTakes(c, u)
  BY CancelIs
<1>2. CASE CancelAsks(c, u)
  <2>1. CallsGoOn /\ StepsHaveRunner' /\ Quiet
    BY <1>0, <1>2, CancelAsksEffect DEF IInv
  <2>2. MessagesAreSent' /\ WireKeeps
    <3>1. Goto(c, "canceling") /\ Ask("cancel", c, runners[resultsMap[u]].uri)
      BY <1>2 DEF CancelAsks
    <3>. QED BY <1>0, <2>1, <3>1, OtherAsks
  <2>. QED BY <1>0, <2>1, <2>2, EffectKeeps
<1>3. CASE CancelTakes(c, u)
  <2>1. CallsGoOn /\ StepsHaveRunner'
    BY <1>0, <1>3, CancelTakesEffect DEF IInv
  <2>2. UNCHANGED <<requests, replies>>
    BY <1>0, <1>3 DEF CancelTakes
  <2>3. MessagesAreSent' /\ WireKeeps
    BY <2>1, <2>2, WireSame DEF IInv
  <2>4. RunnersAreMade' /\ ListenersAreSetUp'
    BY <1>0, <1>3, <2>1, CancelTakesMade DEF IInv
  <2>5. EditorInv' /\ OrderInv'
    BY <1>0, <1>3, <2>1, <2>3, CancelTakesKeeps
  <2>. QED BY <1>0, <2>1, <2>3, <2>4, <2>5 DEF IInv, TInv
<1>. QED BY <1>1, <1>2, <1>3

LEMMA CloseKeeps ==
    ASSUME IInv, NEW c \in Changes, Close(c)
    PROVE  IInv'
<1>1. CallsGoOn /\ StepsHaveRunner' /\ Quiet /\ TypeOK' /\ UNCHANGED replies
  BY CloseEffect, CloseTyped DEF IInv, TInv, Close
<1>2. \E u \in Uris :
          \/ Goto(c, "closing") /\ Ask("cancel", c, runners[resultsMap[u]].uri)
          \/ Goto(c, "disposing") /\ Ask("dispose", c, runners[resultsMap[u]].uri)
  BY DEF Close
<1>3. MessagesAreSent' /\ WireKeeps
  BY <1>1, <1>2, OtherAsks
<1>. QED BY <1>1, <1>3, EffectKeeps

LEMMA SaveAsKeepsAll ==
    ASSUME IInv, NEW c \in Changes, NEW u \in Uris, NEW v \in Uris, SaveAs(c, u, v)
    PROVE  IInv'
<1>1. CallsGoOn /\ StepsHaveRunner' /\ SaveAsEffect(u, v) /\ TypeOK'
  BY SaveAsCalls, SaveAsHasEffect, SaveAsTyped DEF IInv, TInv
<1>2. UNCHANGED replies
  BY DEF SaveAs
<1>3. MessagesAreSent' /\ WireKeeps
  <2>1. CASE UNCHANGED requests
    BY <1>1, <1>2, <2>1, WireSame DEF IInv
  <2>2. CASE requests' = Append(requests, [type |-> "rename", from |-> u, to |-> v])
    <3>. DEFINE m == [type |-> "rename", from |-> u, to |-> v]
    <3>1. SentNext(m) /\ \A s \in Runs : ~IsCancelOf(m, s)
      BY DEF SentNext, IsCancelOf, CancelTypes
    <3>. HIDE DEF m
    <3>2. requests' = Append(requests, m)
      BY <2>2 DEF m
    <3>. QED BY <1>1, <1>2, <3>1, <3>2, RequestSent DEF IInv
  <2>. QED BY <2>1, <2>2 DEF SaveAs
<1>4. RunnersAreMade' /\ ListenersAreSetUp'
  BY <1>1, SaveAsMade DEF IInv
<1>5. EditorInv' /\ OrderInv'
  BY <1>1, <1>3, SaveAsKeeps
<1>. QED BY <1>1, <1>3, <1>4, <1>5 DEF IInv, TInv

LEMMA RecoverKeeps ==
    ASSUME IInv, NEW n \in Runners, Recover(n)
    PROVE  IInv'
<1>1. CallsGoOn /\ StepsHaveRunner' /\ AnEnd /\ TypeOK'
  BY RecoverEffect, RecoverTyped DEF IInv, TInv
<1>2. UNCHANGED <<requests, replies>>
  BY DEF Recover, wireVars
<1>3. MessagesAreSent' /\ WireKeeps
  BY <1>1, <1>2, WireSame DEF IInv
<1>. QED BY <1>1, <1>3, EffectKeeps

LEMMA SvcHandleKeeps ==
    ASSUME IInv, SvcHandle
    PROVE  IInv'
<1>1. CallsGoOn /\ StepsHaveRunner' /\ Quiet /\ TypeOK'
  BY SvcHandleEditor, SvcHandleTyped DEF IInv, TInv
<1>2. MessagesAreSent' /\ WireKeeps
  BY <1>1, SvcHandleWire DEF IInv
<1>. QED BY <1>1, <1>2, EffectKeeps

LEMMA SvcCompleteKeeps ==
    ASSUME IInv, SvcComplete
    PROVE  IInv'
<1>1. CallsGoOn /\ StepsHaveRunner' /\ Quiet /\ TypeOK'
  BY SvcCompleteEditor, SvcCompleteTyped DEF IInv, TInv
<1>2. PICK u \in Uris : replies' = Append(replies, [type |-> "complete", who |-> queries[u], uri |-> u])
  BY DEF SvcComplete
<1>. DEFINE m == [type |-> "complete", who |-> queries[u], uri |-> u]
<1>3. SentNext(m) /\ m.type \notin CancelTypes
  BY DEF SentNext, CancelTypes
<1>4. UNCHANGED requests
  BY DEF SvcComplete
<1>. HIDE DEF m
<1>5. MessagesAreSent' /\ WireKeeps
  BY <1>1, <1>2, <1>3, <1>4, CompleteSent DEF IInv, m
<1>. QED BY <1>1, <1>5, EffectKeeps

\* The cancel at the head of the replies is ahead of all.
LEMMA NobodyAheadOfHead ==
    ASSUME IInv, NEW q \in Runs, replies # <<>>, IsCancelOf(Head(replies), q)
    PROVE  NobodyAhead(q)
<1>1. replies \in Seq(Reply)
  BY DEF IInv, TInv, TypeOK
<1>2. Head(replies) = replies[1] /\ 1 \in DOMAIN replies /\ ~ \E i \in DOMAIN replies : i < 1
  BY <1>1, TailIs
<1>. QED BY <1>2 DEF NobodyAhead, Ahead

LEMMA ReceiveKeeps ==
    ASSUME IInv, Receive
    PROVE  IInv'
<1>. DEFINE m == Head(replies)
<1>0. /\ m \in Reply /\ m.who \in Calls /\ Sent(m) /\ replies # <<>>
      /\ TypeOK'
  BY Received, ReplyFields, ReceiveTyped DEF IInv, TInv
<1>. HIDE DEF m
<1>1. CASE m.type = "complete" /\ QueryComplete(m)
  <2>1. CallsGoOn /\ StepsHaveRunner' /\ (Quiet \/ AnEnd)
    BY <1>0, <1>1, QueryCompleteEffect DEF IInv
  <2>2. MessagesAreSent' /\ WireKeeps
    BY <1>1, <2>1, ReceiveWire DEF IInv, IsCancelOf, CancelTypes, m
  <2>. QED BY <1>0, <2>1, <2>2, EffectKeeps
<1>2. CASE m.type = "refused" /\ RunFails(m.who)
  <2>0. m.who \in Runs /\ pc[m.who] # "idle" /\ runner[m.who] # 0
    BY <1>0, <1>2 DEF Sent
  <2>1. CallsGoOn /\ StepsHaveRunner' /\ AnEnd
    BY <1>2, <2>0, RunFailsEffect DEF IInv
  <2>2. MessagesAreSent' /\ WireKeeps
    BY <1>2, <2>1, ReceiveWire DEF IInv, IsCancelOf, CancelTypes, m
  <2>. QED BY <1>0, <2>1, <2>2, EffectKeeps
<1>3. CASE m.type \in {"found", "none"} /\ CancelAnswered(m)
  <2>0. m.type \in Answers
    BY <1>3 DEF Answers
  <2>1. CASE ResetEnds(m.who, m.type)
    <3>1. m.who \in Runs /\ CallsGoOn /\ ResetEffect(m.who, m.type)
      BY <1>0, <2>0, <2>1, ResetEndsCalls, ResetEndsEffect DEF IInv
    <3>2. pc'[m.who] # "reset"
      BY <3>1 DEF ResetEffect
    <3>3. MessagesAreSent' /\ WireKeeps
      BY <3>1, <3>2, ReceiveWire DEF IInv, IsCancelOf, m
    <3>4. NobodyAhead(m.who)
      <4>1. IsCancelOf(m, m.who)
        BY <1>3 DEF IsCancelOf, CancelTypes
      <4>. QED BY <1>0, <3>1, <4>1, NobodyAheadOfHead DEF m
    <3>. QED BY <1>0, <2>0, <2>1, <3>3, <3>4, ResetEffectKeeps
  <2>2. CASE CancelEnds(m.who, m.type)
    <3>1. CallsGoOn /\ StepsHaveRunner' /\ (Quiet \/ AnEnd)
      BY <1>0, <2>0, <2>2, CancelEndsEffect DEF IInv
    <3>2. pc'[m.who] # "reset"
      BY <1>0, <2>2, <3>1 DEF CancelEnds, CallsGoOn
    <3>3. MessagesAreSent' /\ WireKeeps
      BY <3>1, <3>2, ReceiveWire DEF IInv, IsCancelOf, m
    <3>. QED BY <1>0, <3>1, <3>3, EffectKeeps
  <2>3. CASE /\ pc[m.who] \notin {"reset", "canceling", "closing"}
             /\ UNCHANGED <<editorVars, runnerVars, callVars, promise>>
    <3>1. CallsGoOn /\ StepsHaveRunner' /\ Quiet
      BY <2>3, StutterEffect DEF IInv
    <3>2. pc'[m.who] # "reset"
      BY <2>3 DEF callVars
    <3>3. MessagesAreSent' /\ WireKeeps
      BY <3>1, <3>2, ReceiveWire DEF IInv, IsCancelOf, m
    <3>. QED BY <1>0, <3>1, <3>3, EffectKeeps
  <2>. QED BY <1>3, <2>1, <2>2, <2>3 DEF CancelAnswered
<1>4. CASE m.type = "disposed" /\ DisposeEnds(m.who)
  <2>1. CallsGoOn /\ StepsHaveRunner' /\ AnEnd
    BY <1>0, <1>4, DisposeEndsEffect DEF IInv
  <2>2. MessagesAreSent' /\ WireKeeps
    BY <1>4, <2>1, ReceiveWire DEF IInv, IsCancelOf, CancelTypes, m
  <2>. QED BY <1>0, <2>1, <2>2, EffectKeeps
<1>. QED BY <1>1, <1>2, <1>3, <1>4 DEF Receive, m

\* What runs out first is the cancel that is ahead of all.
LEMMA NobodyAheadOfFirst ==
    ASSUME IInv, NEW i \in DOMAIN Unheard, Waits(Unheard[i]), Unheard[i].who \in Runs,
           \A j \in 1..(i - 1) : ~Waits(Unheard[j])
    PROVE  NobodyAhead(Unheard[i].who)
<1>. DEFINE q == Unheard[i].who
<1>0. replies \in Seq(Reply) /\ requests \in Seq(Request)
  BY DEF IInv, TInv, TypeOK
<1>. SUFFICES ASSUME NEW r \in Runs \ {q}, pc[r] = "reset", Ahead(r, q) PROVE FALSE
  BY DEF NobodyAhead
<1>1. IsCancelOf(Unheard[i], q)
  BY WaitedFor DEF IsCancelOf, IInv, TInv
<1>2. /\ \A j \in DOMAIN replies : j \in DOMAIN Unheard /\ j \in Int /\ j >= 1 /\ Unheard[j] = replies[j]
      /\ \A j \in DOMAIN requests : /\ j + Len(replies) \in DOMAIN Unheard /\ j \in Int /\ j >= 1
                                    /\ Unheard[j + Len(replies)] = requests[j]
      /\ \A j \in DOMAIN replies : j <= Len(replies)
      /\ i \in Int /\ Len(replies) \in Nat
  <2>1. replies \in Seq(Request \cup Reply) /\ requests \in Seq(Request \cup Reply)
    BY <1>0
  <2>. QED BY <2>1 DEF Unheard
<1>3. ASSUME NEW j \in DOMAIN Unheard, j \in Int, j >= 1, j < i, IsCancelOf(Unheard[j], r)
      PROVE  FALSE
  <2>1. Waits(Unheard[j])
    BY <1>3 DEF Waits, IsCancelOf, CancelTypes
  <2>. QED BY <1>2, <1>3, <2>1
<1>4. CASE i \in DOMAIN replies /\ Unheard[i] = replies[i]
  <2>1. PICK j \in DOMAIN replies : j < i /\ IsCancelOf(replies[j], r)
    BY <1>1, <1>4 DEF Ahead
  <2>. QED BY <1>2, <1>3, <2>1
<1>5. CASE /\ i > Len(replies) /\ i - Len(replies) \in DOMAIN requests
           /\ Unheard[i] = requests[i - Len(replies)]
  <2>1. CASE \E j \in DOMAIN replies : IsCancelOf(replies[j], r)
    <3>1. PICK j \in DOMAIN replies : IsCancelOf(replies[j], r)
      BY <2>1
    <3>. QED BY <1>2, <1>3, <1>5, <3>1
  <2>2. ASSUME NEW j \in DOMAIN requests, j < i - Len(replies), IsCancelOf(requests[j], r)
        PROVE  FALSE
    <3>1. /\ j + Len(replies) \in DOMAIN Unheard /\ j + Len(replies) \in Int
          /\ j + Len(replies) >= 1 /\ j + Len(replies) < i
          /\ IsCancelOf(Unheard[j + Len(replies)], r)
      BY <1>2, <2>2
    <3>. QED BY <1>3, <3>1
  <2>. QED BY <1>1, <1>5, <2>1, <2>2 DEF Ahead
<1>. QED BY <1>4, <1>5, UnheardIs DEF IInv, TInv

LEMMA TimeOutKeeps ==
    ASSUME IInv, TimeOut
    PROVE  IInv'
<1>0. PICK i \in DOMAIN Unheard :
          /\ Waits(Unheard[i])
          /\ \A j \in 1..(i - 1) : ~Waits(Unheard[j])
          /\ LET c == Unheard[i].who IN ResetEnds(c, "failed") \/ CancelEnds(c, "failed")
  BY DEF TimeOut
<1>1. Unheard[i].who \in Calls
  BY <1>0, WaitedFor DEF IInv, TInv
<1>2. TypeOK' /\ UNCHANGED <<requests, replies>> /\ "failed" \in Answers
  BY TimeOutTyped DEF IInv, TInv, TimeOut, wireVars, Answers
<1>3. CASE ResetEnds(Unheard[i].who, "failed")
  <2>1. Unheard[i].who \in Runs /\ CallsGoOn
    BY <1>1, <1>3, ResetEndsCalls DEF IInv
  <2>2. NobodyAhead(Unheard[i].who)
    BY <1>0, <2>1, NobodyAheadOfFirst
  <2>3. MessagesAreSent' /\ WireKeeps
    BY <1>2, <2>1, WireSame DEF IInv
  <2>. QED BY <1>1, <1>2, <1>3, <2>2, <2>3, ResetEffectKeeps
<1>4. CASE CancelEnds(Unheard[i].who, "failed")
  <2>1. CallsGoOn /\ StepsHaveRunner' /\ (Quiet \/ AnEnd)
    BY <1>1, <1>2, <1>4, CancelEndsEffect DEF IInv
  <2>2. MessagesAreSent' /\ WireKeeps
    BY <1>2, <2>1, WireSame DEF IInv
  <2>. QED BY <1>2, <2>1, <2>2, EffectKeeps
<1>. QED BY <1>0, <1>3, <1>4

LEMMA StutterKeeps ==
    ASSUME IInv, UNCHANGED vars
    PROVE  IInv'
<1>1. UNCHANGED <<slots, resultsMap, routes, created, runners, pc, runner, at, promise,
                  requests, replies, queries>>
  BY DEF vars, editorVars, runnerVars, callVars, wireVars
<1>2. TypeOK'
  BY <1>1 DEF IInv, TInv, TypeOK
<1>3. CallsGoOn /\ StepsHaveRunner' /\ Quiet
  BY <1>1, StutterEffect DEF IInv, editorVars, runnerVars, callVars
<1>4. MessagesAreSent' /\ WireKeeps
  BY <1>1, <1>3, WireSame DEF IInv
<1>. QED BY <1>2, <1>3, <1>4, EffectKeeps

LEMMA NextKeeps == IInv /\ [Next]_vars => IInv'
<1>. SUFFICES ASSUME IInv, [Next]_vars PROVE IInv'
  OBVIOUS
<1>1. ASSUME NEW r \in Runs, Run(r) \/ Prepared(r) \/ Submit(r) \/ ReadFails(r) PROVE IInv'
  BY <1>1, RunKeeps, PreparedKeeps, SubmitKeeps, ReadFailsKeeps
<1>2. ASSUME NEW c \in Cancels, Cancel(c) PROVE IInv'
  BY <1>2, CancelKeeps
<1>3. ASSUME NEW c \in Changes, Close(c) PROVE IInv'
  BY <1>3, CloseKeeps
<1>4. ASSUME NEW c \in Changes, NEW u \in Uris, NEW v \in Uris, SaveAs(c, u, v) PROVE IInv'
  BY <1>4, SaveAsKeepsAll
<1>5. ASSUME NEW n \in Runners, Recover(n) PROVE IInv'
  BY <1>5, RecoverKeeps
<1>6. ASSUME SvcHandle \/ SvcComplete \/ Receive \/ TimeOut PROVE IInv'
  BY <1>6, SvcHandleKeeps, SvcCompleteKeeps, ReceiveKeeps, TimeOutKeeps
<1>7. CASE UNCHANGED vars
  BY <1>7, StutterKeeps
<1>. QED BY <1>1, <1>2, <1>3, <1>4, <1>5, <1>6, <1>7 DEF Next

THEOREM Invariance == Spec => []IInv
<1>. QED BY InitKeeps, NextKeeps, PTL DEF Spec

-----------------------------------------------------------------------------
(* The theorems                                                             *)

\* Every state has its type: in particular a call that is answered or times out
\* has a runner, and a request or an answer is of a call.
THEOREM TypeCorrect == Spec => []TypeOK
<1>1. IInv => TypeOK
  BY DEF IInv, TInv
<1>. QED BY <1>1, Invariance, PTL

\* No editor is blocked for nothing (releaseExecutionSlotOnComplete,
\* _handleQueryCleanup, the catch of runQuery): however runs, cancels, closings,
\* renames and timeouts interleave, the holder of a slot is being set up, or its
\* runner executes and will release the slot.
THEOREM SlotIsOwnedHolds == Spec => []SlotIsOwned
<1>1. IInv => SlotIsOwned
  BY DEF IInv, EditorInv
<1>. QED BY <1>1, Invariance, PTL

LEMMA KnownIsKnown == IInv => ExecutingIsKnown
<1>. SUFFICES ASSUME IInv, NothingClosed, NEW n \in Runners, runners[n].executing
              PROVE  resultsMap[runners[n].uri] = n /\ slots[runners[n].uri] # None
  BY DEF ExecutingIsKnown
<1>1. n <= created
  BY DEF IInv, TInv, RunnersAreMade, TypeOK, Runners
<1>. QED BY <1>1 DEF IInv, EditorInv, KnownRunners

\* Until an editor is closed, a runner that executes is the one its editor would
\* cancel, and its editor is blocked for other runs ("Keep the execution slot
\* with the editor").
THEOREM ExecutingIsKnownHolds == Spec => []ExecutingIsKnown
BY KnownIsKnown, Invariance, PTL

\* A run that lost its slot while it resets a runner hears of it before the run
\* that has the slot now: two resets of one runner are answered, or given up, in
\* the order they were asked (resetQueryRunner, cancelQuery).
THEOREM LoserIsAheadHolds == Spec => []LoserIsAhead
<1>1. IInv => LoserIsAhead
  BY DEF IInv, OrderInv
<1>. QED BY <1>1, Invariance, PTL
=============================================================================
