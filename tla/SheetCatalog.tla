----------------------------- MODULE SheetCatalog -----------------------------
(***************************************************************************)
(* What the sheet-music library promises its users, without attempts,      *)
(* leases, files or time: a change sent under a key takes effect at most   *)
(* once and in one piece, all its rows or none, and only if every row it   *)
(* names is still the one the user saw; its outcome never changes; and the *)
(* list has a number that grows with every change of it.                   *)
(***************************************************************************)
EXTENDS Integers

CONSTANTS Keys, Rows, Bodies

VARIABLES
    asked,     \* the change that was first sent under each key
    outcome,   \* "unknown", "open", "succeeded" or "rejected"
    list,      \* the rows: in the list, with a revision that never returns
    version    \* the number of the list

vars == <<asked, outcome, list, version>>

\* Rows older than the operations are in the list from the start.
Init ==
    /\ asked \in [Keys -> Bodies]
    /\ outcome = [k \in Keys |-> "unknown"]
    /\ \E old \in SUBSET Rows :
         list = [i \in Rows |-> [listed   |-> i \in old,
                                 revision |-> IF i \in old THEN 1 ELSE 0]]
    /\ version = 0

Named(k) == {i \in Rows : asked[k].items[i] > 0}

\* The user saw every named row as it is.
Seen(k) ==
    \A i \in Named(k) : list[i].listed /\ list[i].revision = asked[k].items[i]

Ask(k) ==
    /\ outcome[k] = "unknown"
    /\ outcome' = [outcome EXCEPT ![k] = "open"]
    /\ asked' \in [Keys -> Bodies]
    /\ \A other \in Keys \ {k} : asked'[other] = asked[other]
    /\ UNCHANGED <<list, version>>

Succeed(k) ==
    /\ outcome[k] = "open"
    /\ outcome' = [outcome EXCEPT ![k] = "succeeded"]
    /\ version' = version + 1
    /\ UNCHANGED asked

Add(k) ==
    /\ asked[k].kind = "upload"
    /\ \E i \in Rows :
         /\ list[i].revision = 0
         /\ list' = [list EXCEPT ![i] = [listed |-> TRUE, revision |-> 1]]
    /\ Succeed(k)

Revise(k) ==
    /\ asked[k].kind = "parts" /\ Seen(k)
    /\ list' = [i \in Rows |-> IF i \in Named(k)
                               THEN [list[i] EXCEPT !.revision = @ + 1]
                               ELSE list[i]]
    /\ Succeed(k)

Remove(k) ==
    /\ asked[k].kind = "delete" /\ Seen(k)
    /\ list' = [i \in Rows |-> IF i \in Named(k)
                               THEN [list[i] EXCEPT !.listed = FALSE]
                               ELSE list[i]]
    /\ Succeed(k)

\* A change is refused when a row changed meanwhile; an upload, when its
\* concert is unknown.
Reject(k) ==
    /\ outcome[k] = "open"
    /\ asked[k].kind = "upload" \/ ~ Seen(k)
    /\ outcome' = [outcome EXCEPT ![k] = "rejected"]
    /\ UNCHANGED <<asked, list, version>>

Next == \E k \in Keys : Ask(k) \/ Add(k) \/ Revise(k) \/ Remove(k) \/ Reject(k)

Spec == Init /\ [][Next]_vars
=============================================================================
