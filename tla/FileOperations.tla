----------------------------- MODULE FileOperations -----------------------------
(***************************************************************************)
(* Saving a form with a file under an operation ID that survives a reload: *)
(* utils/portal_file_operations.js, in several tabs that share its record  *)
(* in localStorage.                                                        *)
(*                                                                         *)
(* A slot is an account, a method and a URL; a content stands for its      *)
(* hash.  A task is one call of portalFileRequest.                         *)
(***************************************************************************)
EXTENDS Naturals, Sequences

CONSTANTS
    None,
    Tasks,
    Tabs,
    Slots,
    Contents,
    MaxIds,      \* bound: operation IDs
    MaxSwitches  \* bound: changes of identity()

VARIABLES records, tasks, server, identity, told, ids, unsure, mixed

vars == <<records, tasks, server, identity, told, ids, unsure, mixed>>

Free == [at |-> "free", tab |-> None, slot |-> None, content |-> None, owner |-> 0, id |-> 0, seen |-> None]

Init ==
    /\ records = [s \in Slots |-> None]   \* localStorage: ID and content by slot
    /\ tasks = [k \in Tasks |-> Free]
    /\ server = <<>>                      \* by ID: "new", "working", "done", "refused"
    /\ identity = 0
    /\ told = {}                          \* IDs whose end a page was told
    /\ ids = <<>>                         \* by ID: its slot
    /\ unsure = {}                        \* IDs made while the end of another of the slot was not known
    /\ mixed = {}                         \* slots whose record was replaced, or removed with its end not known

Ends == {"done", "refused"}
Task(k) == tasks[k]
Running(t, s) == {k \in Tasks : Task(k).tab = t /\ Task(k).slot = s /\ Task(k).at \in {"query", "send"}}
End(k) == tasks' = [tasks EXCEPT ![k] = Free]
Mine(k) == Task(k).owner = identity

-----------------------------------------------------------------------------
(* perform *)

\* The record is written before anything is sent; the other slots are written
\* as they were when they were read.
Allocate(k, read) ==
    LET s == Task(k).slot  n == Len(ids) + 1
        written == [read EXCEPT ![s] = [id |-> n, content |-> Task(k).content]]
    IN  /\ Len(ids) < MaxIds
        /\ records' = written
        /\ mixed' = mixed \cup {z \in Slots : z # s /\ written[z] # records[z]}
                          \cup {z \in {s} : records[z] # read[z]}
        /\ ids' = Append(ids, s)
        /\ server' = Append(server, "new")
        /\ unsure' = IF \E i \in DOMAIN ids : ids[i] = s /\ i \notin told' THEN unsure \cup {n} ELSE unsure
        /\ tasks' = [tasks EXCEPT ![k].at = "send", ![k].id = n, ![k].seen = None]

Keep == UNCHANGED <<records, server, ids, unsure, mixed>>

\* The end is told: the record of the slot goes, whichever it is by now.
Tell(k, state) ==
    LET s == Task(k).slot
    IN  /\ records' = [records EXCEPT ![s] = None]
        /\ told' = told \cup {i \in {Task(k).id} : state \in Ends}
        /\ mixed' = IF records[s] # None /\ records[s].id # Task(k).id THEN mixed \cup {s} ELSE mixed
        /\ End(k) /\ UNCHANGED <<server, ids, unsure>>

\* Mutant of Unresolved: an answer that is not 2xx is an end.
UnresolvedNever(state) == FALSE
Unresolved(state) == state \in {"working", "unknown"}

\* The answer of the server, or the content of a 5xx.
Settle(k, state) ==
    IF Unresolved(state) THEN End(k) /\ Keep /\ UNCHANGED told ELSE Tell(k, state)

-----------------------------------------------------------------------------
(* The steps *)

\* portalFileRequest asks for the account first.
Request(k, t, s, c) ==
    /\ Task(k) = Free
    /\ tasks' = [tasks EXCEPT ![k] =
         [Free EXCEPT !.at = "scope", !.tab = t, !.slot = s, !.content = c, !.owner = identity]]
    /\ Keep /\ UNCHANGED <<identity, told>>

\* A second press shares the request under way, other contents are refused.  Then
\* perform, up to the question what became of the operation of the slot.
Perform(k) ==
    /\ Task(k).at = "scope" /\ UNCHANGED <<identity, told>>
    /\ LET record == records[Task(k).slot]
       IN  IF ~ Mine(k) \/ Running(Task(k).tab, Task(k).slot) # {} THEN End(k) /\ Keep
           ELSE IF record = None THEN Allocate(k, records)
           ELSE /\ tasks' = [tasks EXCEPT ![k].at = "query", ![k].id = record.id, ![k].seen = records]
                /\ Keep

\* Other contents are sent under a new ID when the end of the old is known; the
\* same contents are sent again, or their end is taken.
Queried(k) ==
    LET state == server[Task(k).id]
        same == Task(k).seen[Task(k).slot].content = Task(k).content
    IN  /\ Task(k).at = "query" /\ Mine(k) /\ UNCHANGED identity
        /\ IF ~ same
           THEN IF state = "new" \/ Unresolved(state) THEN End(k) /\ Keep /\ UNCHANGED told
                ELSE told' = told \cup {i \in {Task(k).id} : state \in Ends} /\ Allocate(k, Task(k).seen)
           ELSE IF state \in {"new", "working"}
                THEN tasks' = [tasks EXCEPT ![k].at = "send", ![k].seen = None] /\ Keep /\ UNCHANGED told
                ELSE Settle(k, state)

Answered(k) ==
    /\ Task(k).at = "send" /\ Mine(k) /\ server[Task(k).id] # "new" /\ UNCHANGED identity
    /\ \/ Settle(k, server[Task(k).id])
       \/ Settle(k, "unknown")

\* The POST is refused before it reaches the operation (401, 403, 413, 429): for the
\* page an end, whatever became of the operation when it was sent before.
Refused(k) ==
    LET s == Task(k).slot
        new == server[Task(k).id] = "new" /\ \A j \in Tasks \ {k} : Task(j).id # Task(k).id
    IN  /\ Task(k).at = "send" /\ Mine(k) /\ UNCHANGED identity
        /\ \/ new /\ Tell(k, "refused")
           \/ /\ ~ new
              /\ records' = [records EXCEPT ![s] = None] /\ mixed' = mixed \cup {s}
              /\ End(k) /\ UNCHANGED <<told, server, ids, unsure>>

\* No answer, or the identity changed meanwhile.
Lost(k) ==
    /\ Task(k).at \in {"query", "send"} /\ End(k)
    /\ Keep /\ UNCHANGED <<identity, told>>

-----------------------------------------------------------------------------
(* The rest of the world *)

\* The server takes an operation up and ends it, once for each ID.
Serve(i) ==
    /\ \/ /\ server[i] = "new" /\ \E k \in Tasks : Task(k).at = "send" /\ Task(k).id = i
          /\ server' = [server EXCEPT ![i] = "working"]
       \/ server[i] = "working" /\ \E end \in Ends : server' = [server EXCEPT ![i] = end]
    /\ UNCHANGED <<records, tasks, identity, told, ids, unsure, mixed>>

Reload(t) ==
    /\ \E k \in Tasks : Task(k).tab = t
    /\ tasks' = [k \in Tasks |-> IF Task(k).tab = t THEN Free ELSE Task(k)]
    /\ Keep /\ UNCHANGED <<identity, told>>

\* Signing out and in again as the same member.
Switch ==
    /\ identity < MaxSwitches /\ identity' = identity + 1
    /\ Keep /\ UNCHANGED <<tasks, told>>

Next ==
    \/ \E k \in Tasks :
         \/ \E t \in Tabs, s \in Slots, c \in Contents : Request(k, t, s, c)
         \/ Perform(k) \/ Queried(k) \/ Answered(k) \/ Refused(k) \/ Lost(k)
    \/ \E i \in DOMAIN server : Serve(i)
    \/ \E t \in Tabs : Reload(t)
    \/ Switch

Spec == Init /\ [][Next]_vars

-----------------------------------------------------------------------------
(* Properties *)

\* While it is not known what became of a save, the same form is not saved under
\* another ID, which the server would take as a second save; a slot is excluded
\* whose record a save of another slot, or of another tab, replaced or removed, or
\* a resend that was refused before it reached the operation.
KnownBeforeNext == \A i \in unsure : ids[i] \in mixed
=============================================================================
