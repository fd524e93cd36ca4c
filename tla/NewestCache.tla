------------------------------ MODULE NewestCache ------------------------------
(***************************************************************************)
(* What the disk cache of catalogs promises the windows that share it      *)
(* (services/metadata/cache): one usable entry per database, which changes *)
(* only to a capture that may replace it, or to none.  A cache may forget; *)
(* it may not go back.                                                     *)
(***************************************************************************)
EXTENDS Integers

CONSTANTS
    Contents,       \* catalogs, as content hashes
    Instants,       \* capture instants
    Ahead           \* instants no clock of the machine can have reached

VARIABLE entry      \* the usable entry, or NoEntry

NoEntry == [content |-> 0, captured |-> 0]

Entries == [content : Contents, captured : Instants]

\* A capture replaces another of different content when it is later; content
\* hashes decide between captures of one instant.  A capture from the future pins
\* nothing: any other replaces it.
Replaces(new, old) ==
    \/ new.content = old.content
    \/ old.captured \in Ahead
    \/ new.captured > old.captured
    \/ new.captured = old.captured /\ new.content > old.content

CacheInit == entry = NoEntry

Publish ==
    \E new \in Entries :
        /\ entry = NoEntry \/ Replaces(new, entry)
        /\ entry' = new

Forget == entry' = NoEntry

CacheSpec == CacheInit /\ [][Publish \/ Forget]_entry
=============================================================================
