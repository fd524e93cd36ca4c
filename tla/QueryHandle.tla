----------------------------- MODULE QueryHandle -----------------------------
(***************************************************************************)
(* What sqlDataPlane/api.ts promises of one query, whatever the backend:   *)
(* QueryHandle (accepted and completion, each settling once) and           *)
(* IQueryEventSink (pages in order, each acked only after the sink took    *)
(* it, then one onComplete).                                               *)
(***************************************************************************)
EXTENDS Integers

VARIABLES
    accepted,       \* handle.accepted
    completion,     \* handle.completion
    told,           \* status onComplete was called with, or "none"
    shown,          \* pages handed to onRowsPage, numbered over the query
    acked           \* pages 0..acked-1 were acknowledged to the server

vars == <<accepted, completion, told, shown, acked>>

Init ==
    /\ accepted = "pending"
    /\ completion = "pending"
    /\ told = "none"
    /\ shown = {}
    /\ acked = 0

\* ALWAYS settles, exactly once: accepted, rejected or aborted.
SettleAccepted ==
    /\ accepted = "pending"
    /\ accepted' \in {"accepted", "rejected", "aborted"}
    /\ UNCHANGED <<completion, told, shown, acked>>

\* The next page; a rejected or aborted query has no stream events.
ShowPage ==
    /\ accepted = "accepted"
    /\ told = "none"
    /\ \E n \in shown' \ shown : n \in Nat /\ 0..(n - 1) = shown /\ shown' = shown \cup {n}
    /\ UNCHANGED <<accepted, completion, told, acked>>

\* Resolution of onRowsPage is durable acceptance; backends are acked only after.
AckPages ==
    /\ completion = "pending"
    /\ told = "none"
    /\ acked' > acked
    /\ \A n \in acked..(acked' - 1) : n \in shown
    /\ UNCHANGED <<accepted, completion, told, shown>>

TellComplete ==
    /\ accepted # "pending"
    /\ completion = "pending"
    /\ told = "none"
    /\ told' # "none"
    /\ UNCHANGED <<accepted, completion, shown, acked>>

\* With the status the sink was told, or failed by the sink itself.
SettleCompletion ==
    /\ completion = "pending"
    /\ accepted # "pending"
    /\ completion' = IF told = "none" THEN "sinkError" ELSE told
    /\ UNCHANGED <<accepted, told, shown, acked>>

Next ==
    \/ SettleAccepted
    \/ ShowPage
    \/ AckPages
    \/ TellComplete
    \/ SettleCompletion

Spec == Init /\ [][Next]_vars

=============================================================================
