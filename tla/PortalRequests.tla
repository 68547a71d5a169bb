---------------------------- MODULE PortalRequests ----------------------------
(***************************************************************************)
(* What one page of the portal asks of the server, for one list that is    *)
(* kept in the response cache: request() with its shared GETs, stored      *)
(* answers and saves (common_helpers/api_runtime.js), the cache itself     *)
(* (utils/cache.js), and the sign-in of the page (auth_feature.js), whose  *)
(* session checks other requests start and share.                          *)
(*                                                                         *)
(* A call is one chain of promises; a step of it is the code between two   *)
(* awaits.  Transactions of the cache happen where the call creates them   *)
(* and are reported later.  The other tabs of the device share the cache   *)
(* and the flag of the sign-in, not the variables of the page.             *)
(*                                                                         *)
(* Of the data only the number of the version is kept.  Re-sends of a      *)
(* single GET are in transport_retry.js and are left out here.             *)
(***************************************************************************)
EXTENDS Naturals

CONSTANTS
    None,
    Members,
    Calls,
    MaxVersion,     \* bound: changes of the list
    MaxGeneration   \* bound: sign-ins of the device

Requests == {"get", "save", "verify", "login", "logout"}

ASSUME NoneAssumption == None \notin Members \cup Calls \cup Nat \cup Requests
ASSUME BoundsAssumption == MaxVersion \in Nat /\ MaxGeneration \in Nat \ {0}

VARIABLES
    server,    \* the version of the list; whose session the device has, and since when
    signed,    \* PORTAL_AUTH_KEY in localStorage
    store,     \* bootstrap_cache: the entry of each identity
    page,      \* appState, portalResponseEpoch and what is on the screen
    blocked,   \* invalidatedKeys: for each identity a token, the save that deleted the key
    sharing,   \* portalAuthCheckInFlight
    calls,
    \* history variables of the properties
    saved,     \* the newest version that this page saved, by the identity that was told
    mixed,     \* identities whose entry another tab has written since then
    behind,    \* a call was given an older list than its page had saved
    out,       \* the user signed out on this page, and has not begun to sign in again
    crossed    \* a session check began while a sign-in or sign-out was under way, or
               \* for a request that was refused before the last sign-in

vars == <<server, signed, store, page, blocked, sharing, calls,
          saved, mixed, behind, out, crossed>>
ghosts == <<saved, mixed, behind, out, crossed>>

Versions == 0 .. MaxVersion
Generations == 0 .. MaxGeneration
People == Members \cup {None}
Identities == [member : People, generation : Generations]
NoEntry == [version |-> None, fresh |-> FALSE]
Entries == {NoEntry} \cup [version : Versions, fresh : BOOLEAN]

Kinds == Requests \cup {None}
Stages == {"idle", "read", "joined", "sent", "answered", "recover", "put", "leaving", "done"}
Replies == {None, "ok", "unknown", "network"}

\* context: identity and epoch when request() began; cached: the version of
\* the cache entry; found: the one of the answer; token: that of the key when
\* the cache was last used; spent: the recovery from a 401; of: the call whose
\* session check it waits for.
NoContext == [member |-> None, generation |-> 0, epoch |-> 0]
NoCheck == [state |-> "none", generation |-> 0, transition |-> 0, member |-> None, since |-> 0]
Idle == [kind |-> None, at |-> "idle", context |-> NoContext, force |-> FALSE, cached |-> None,
         reply |-> None, found |-> None, leader |-> None, token |-> None, spent |-> FALSE,
         member |-> None, of |-> None, check |-> NoCheck]
Over == [Idle EXCEPT !.at = "done"]

\* portalCacheIdentity, and the context that requireCurrentContext compares.
Identity == [member |-> page.member, generation |-> page.generation]
Context == [member |-> page.member, generation |-> page.generation, epoch |-> page.epoch]
Current(c) == calls[c].context = Context
At(c, kind, stage) == calls[c].kind = kind /\ calls[c].at = stage
UnderWay(kind) == {c \in Calls : calls[c].kind = kind}

Init ==
    \E m \in Members, e \in {NoEntry} \cup [version : {0}, fresh : BOOLEAN] :
      /\ server = [version |-> 0, holder |-> m, generation |-> 1]
      /\ signed = TRUE
      /\ page = [member |-> m, generation |-> 1, transition |-> 0, epoch |-> 0, login |-> FALSE]
      /\ store = [i \in Identities |-> IF i = Identity THEN e ELSE NoEntry]
      /\ blocked = [i \in Identities |-> None] /\ sharing = None
      /\ calls = [c \in Calls |-> Idle]
      /\ saved = [i \in Identities |-> 0] /\ mixed = {} /\ behind = FALSE
      /\ out = FALSE /\ crossed = FALSE

-----------------------------------------------------------------------------
(* A load: request() with GET *)

\* A GET joins the one under way in the same context, or begins with the
\* cache, where a deleted key has nothing.
BeginGet(c, force) ==
    /\ calls[c].at = "idle" /\ page.member # None
    /\ LET same == {d \in UnderWay("get") : Current(d) /\ calls[d].force = force /\ calls[d].at # "joined"}
           begun == [Idle EXCEPT !.kind = "get", !.context = Context, !.force = force]
       IN  calls' = [calls EXCEPT ![c] =
             IF same = {} THEN [begun EXCEPT !.at = "read", !.token = blocked[Identity]]
             ELSE [begun EXCEPT !.at = "joined", !.leader = CHOOSE d \in same : TRUE]]
    /\ UNCHANGED <<server, signed, store, page, blocked, sharing, ghosts>>

\* The caller, and those who joined the call, get the list of this version, or
\* an error.
Return(c, version) ==
    /\ calls' = [d \in Calls |-> IF d = c \/ (calls[d].at = "joined" /\ calls[d].leader = c)
                                 THEN Over ELSE calls[d]]
    /\ behind' = \/ behind
                 \/ /\ version # None /\ version < saved[Identity]
                    /\ Identity \notin mixed
    /\ UNCHANGED <<saved, mixed, out, crossed>>

\* showPortalLogin.
ShowLogin(p) == [p EXCEPT !.login = TRUE]

\* What getEntry gives: nothing for a key deleted before or during the read.
Entry(c) == IF calls[c].token = None /\ blocked[Identity] = None THEN store[Identity] ELSE NoEntry

\* hasFreshCacheEntry.
Usable(c) == Entry(c).fresh /\ ~ calls[c].force

\* A usable entry is the answer.
ReadCache(c) ==
    /\ At(c, "get", "read")
    /\ \/ ~ Current(c) /\ Return(c, None)
       \/ Current(c) /\ Usable(c) /\ Return(c, Entry(c).version)
       \/ /\ Current(c) /\ ~ Usable(c)
          /\ calls' = [calls EXCEPT ![c].at = "sent", ![c].cached = Entry(c).version, ![c].token = None]
          /\ UNCHANGED ghosts
    /\ UNCHANGED <<server, signed, store, page, blocked, sharing>>

\* The server answers a request of the device: 401 without a session, else the
\* list, or 304 when the cache entry names it.
ServeGet(c) ==
    /\ At(c, "get", "sent")
    /\ calls' = [calls EXCEPT ![c].at = "answered", ![c].cached = None,
                              ![c].found = IF server.holder = None THEN None ELSE server.version,
                              ![c].reply = IF server.holder = None THEN "unknown" ELSE "ok"]
    /\ UNCHANGED <<server, signed, store, page, blocked, sharing, ghosts>>

\* fetchWithTimeout fails: the answer does not come, or not in time; that the
\* server has acted makes a difference only for the others than a load.
Lose(c) ==
    /\ At(c, "get", "sent") \/ At(c, "save", "answered") \/ At(c, "login", "answered")
    /\ calls[c].reply # "network"
    /\ calls' = [calls EXCEPT ![c].at = "answered", ![c].reply = "network", ![c].found = None]
    /\ UNCHANGED <<server, signed, store, page, blocked, sharing, ghosts>>

\* dbCache.set: the token is read where the transaction is created; if the
\* transaction fails the call fails.
Put(c) ==
    \/ /\ store' = [store EXCEPT ![Identity] = [version |-> calls[c].found, fresh |-> TRUE]]
       /\ calls' = [calls EXCEPT ![c].at = "put", ![c].token = blocked[Identity]]
       /\ UNCHANGED ghosts
    \/ Return(c, None) /\ UNCHANGED store

\* The answer of a GET whose recovery is not still to be tried.  Without an
\* answer the cache entry is shown, whatever its age.
AnswerGet(c) ==
    /\ At(c, "get", "answered") /\ (calls[c].reply = "unknown" => calls[c].spent)
    /\ \/ ~ Current(c) /\ Return(c, None) /\ UNCHANGED <<store, page>>
       \/ /\ Current(c) /\ calls[c].reply = "network"
          /\ Return(c, calls[c].cached) /\ UNCHANGED <<store, page>>
       \/ /\ Current(c) /\ calls[c].reply = "unknown"
          /\ Return(c, None) /\ page' = ShowLogin(page) /\ UNCHANGED store
       \/ Current(c) /\ calls[c].reply = "ok" /\ Put(c) /\ UNCHANGED page
    /\ UNCHANGED <<server, signed, blocked, sharing>>

\* The token of a key after a write that began with `token`: usable again
\* unless it was deleted meanwhile.
\* Mutant of Unblocked: any finished write makes the key usable.
UnblockedAlways(now, token) == None
Unblocked(now, token) == IF now = token THEN None ELSE now

\* oncomplete of the write, and the last look at the context.
PutDone(c) ==
    /\ At(c, "get", "put")
    /\ LET own == [member |-> calls[c].context.member, generation |-> calls[c].context.generation]
       IN  blocked' = [blocked EXCEPT ![own] = Unblocked(@, calls[c].token)]
    /\ Return(c, IF Current(c) THEN calls[c].found ELSE None)
    /\ UNCHANGED <<server, signed, store, page, sharing>>

-----------------------------------------------------------------------------
(* A save: request() with another method *)

BeginSave(c) ==
    /\ calls[c].at = "idle" /\ page.member # None /\ ~ page.login
    /\ calls' = [calls EXCEPT ![c].kind = "save", ![c].at = "sent"]
    /\ UNCHANGED <<server, signed, store, page, blocked, sharing, ghosts>>

ServeSave(c) ==
    /\ At(c, "save", "sent")
    /\ \/ /\ server.holder # None /\ server.version < MaxVersion
          /\ server' = [server EXCEPT !.version = @ + 1]
          /\ calls' = [calls EXCEPT ![c].at = "answered", ![c].reply = "ok", ![c].found = server.version + 1]
       \/ /\ server.holder = None
          /\ calls' = [calls EXCEPT ![c].at = "answered", ![c].reply = "unknown"]
          /\ UNCHANGED server
    /\ UNCHANGED <<signed, store, page, blocked, sharing, ghosts>>

\* delete of the cache: the key is blocked at once, by a new token; its record
\* may stay if the disk fails.  A save deletes the key once, and so is the token.
DeleteKey(c) ==
    /\ blocked' = [blocked EXCEPT ![Identity] = c]
    /\ store' \in {store, [store EXCEPT ![Identity] = NoEntry]}

\* invalidateCacheForMutation: the loads under way are in vain.
Invalidate(c) == page' = [page EXCEPT !.epoch = @ + 1] /\ DeleteKey(c)

AnswerSave(c) ==
    /\ At(c, "save", "answered") /\ (calls[c].reply = "unknown" => calls[c].spent)
    /\ calls' = [calls EXCEPT ![c] = Over]
    /\ \/ /\ calls[c].reply = "ok" /\ Invalidate(c)
          /\ saved' = [saved EXCEPT ![Identity] = IF @ < calls[c].found THEN calls[c].found ELSE @]
          /\ mixed' = mixed \ {Identity}
       \/ /\ calls[c].reply = "unknown" /\ page' = ShowLogin(page)
          /\ UNCHANGED <<store, blocked, saved, mixed>>
       \/ calls[c].reply = "network" /\ UNCHANGED <<store, page, blocked, saved, mixed>>
    /\ UNCHANGED <<server, signed, sharing, behind, out, crossed>>

-----------------------------------------------------------------------------
(* The session check *)

\* fetchPortalSessionCheck: a check of the same sign-in state is shared.
SharedCheck == /\ sharing # None
               /\ calls[sharing].check.generation = page.generation
               /\ calls[sharing].check.transition = page.transition

Check(c, call) ==
    /\ calls' = [calls EXCEPT ![c] =
         IF SharedCheck THEN [call EXCEPT !.at = "recover", !.of = sharing]
         ELSE [call EXCEPT !.at = "recover", !.of = c,
                           !.check = [NoCheck EXCEPT !.state = "sent", !.generation = page.generation,
                                                     !.transition = page.transition]]]
    /\ sharing' = IF SharedCheck THEN sharing ELSE c
    /\ UNCHANGED <<server, signed, store, page, blocked, saved, mixed, behind, out>>

Crossing == UnderWay("login") \cup UnderWay("logout") # {}

\* A 401 is worth one look at the session, also if the user signed in and out since;
\* then the server has one.
Recover(c) ==
    /\ calls[c].kind \in {"get", "save"} /\ calls[c].at = "answered"
    /\ calls[c].reply = "unknown" /\ ~ calls[c].spent
    /\ Check(c, [calls[c] EXCEPT !.spent = TRUE])
    /\ crossed' = (crossed \/ Crossing \/ (out /\ server.holder # None))

\* syncPortalSessionOnResume, when the last check is old; one at a time.
BeginVerify(c) ==
    /\ calls[c].at = "idle" /\ signed /\ UnderWay("verify") = {}
    /\ Check(c, [calls[c] EXCEPT !.kind = "verify"])
    /\ crossed' = (crossed \/ Crossing)

ServeCheck(c) ==
    /\ calls[c].check.state = "sent"
    /\ \/ calls' = [calls EXCEPT ![c].check.state = "answered", ![c].check.member = server.holder,
                                 ![c].check.since = server.generation]
       \/ calls' = [calls EXCEPT ![c].check.state = "lost"]
    /\ UNCHANGED <<server, signed, store, page, blocked, sharing, ghosts>>

\* advancePortalAuthTransition, applyPortalAuthDevice and clearPortalAuthState.
Advanced == [page EXCEPT !.transition = @ + 1]
Applied(check) == [page EXCEPT !.member = check.member, !.generation = check.since]
Cleared == [Advanced EXCEPT !.member = None, !.generation = 0, !.epoch = @ + 1]

\* portalAuthCheckIsCurrent.
\* Mutant of CheckIsCurrent: only the generation is compared.
CheckIsCurrentGeneration(check) == check.generation = page.generation
CheckIsCurrent(check) == check.generation = page.generation /\ check.transition = page.transition

\* tryRecoverPortalSession: with a session the request is sent again.
Resumed(d, found) ==
    IF found THEN [calls[d] EXCEPT !.of = None, !.check = NoCheck, !.at = "sent", !.reply = None]
    ELSE [calls[d] EXCEPT !.of = None, !.check = NoCheck, !.at = "answered"]

\* Those who wait for the check of call c go on in one task.  A session is
\* applied, a missing one ends the sign-in of the page; an answer for another
\* sign-in state does neither.  isPortalAuthenticated has the login shown when
\* there is no session, or none is wanted in this browser any more.
CheckDone(c) ==
    LET check == calls[c].check
        waiting == {d \in Calls : calls[d].at = "recover" /\ calls[d].of = c}
        told == CheckIsCurrent(check) /\ check.state = "answered"
        found == told /\ check.member # None
        lost == told /\ check.member = None
        next == IF found THEN Applied(check) ELSE IF lost THEN Cleared ELSE page
        shown == lost \/ (~ CheckIsCurrent(check) /\ check.state = "answered" /\ ~ signed)
    IN  /\ check.state \in {"answered", "lost"}
        /\ calls' = [d \in Calls |-> IF d \notin waiting THEN calls[d]
                                     ELSE IF calls[d].kind = "verify" THEN Over ELSE Resumed(d, found)]
        /\ sharing' = IF lost \/ sharing = c THEN None ELSE sharing
        /\ signed' = (found \/ (signed /\ ~ lost))
        /\ page' = IF shown /\ waiting \cap UnderWay("verify") # {} THEN ShowLogin(next) ELSE next
        /\ UNCHANGED <<server, store, blocked, ghosts>>

-----------------------------------------------------------------------------
(* Sign-out and sign-in *)

\* logoutPortal: the sign-in state changes at once; the rest waits for the
\* notifications of the device to be stopped, if it has any.
BeginLogout(c) ==
    /\ calls[c].at = "idle" /\ page.member # None /\ ~ page.login
    /\ page' = Advanced /\ sharing' = None
    /\ calls' = [calls EXCEPT ![c].kind = "logout", ![c].at = "leaving"]
    /\ UNCHANGED <<server, signed, store, blocked, ghosts>>

\* The server keeps the session of the device.
EndLogout(c) ==
    /\ At(c, "logout", "leaving")
    /\ signed' = FALSE
    /\ page' = ShowLogin([page EXCEPT !.member = None])
    /\ calls' = [calls EXCEPT ![c] = Over]
    /\ out' = (UnderWay("login") = {})
    /\ UNCHANGED <<server, store, blocked, sharing, saved, mixed, behind, crossed>>

\* handlePortalLogin.
BeginLogin(c, m) ==
    /\ calls[c].at = "idle" /\ page.login /\ UnderWay("login") = {}
    /\ page' = Advanced /\ sharing' = None
    /\ calls' = [calls EXCEPT ![c].kind = "login", ![c].at = "sent", ![c].member = m]
    /\ out' = FALSE
    /\ UNCHANGED <<server, signed, store, blocked, saved, mixed, behind, crossed>>

ServeLogin(c) ==
    /\ At(c, "login", "sent")
    /\ \/ /\ server.generation < MaxGeneration
          /\ server' = [server EXCEPT !.holder = calls[c].member, !.generation = @ + 1]
          /\ calls' = [calls EXCEPT ![c].at = "answered", ![c].reply = "ok"]
       \/ calls' = [calls EXCEPT ![c].at = "answered", ![c].reply = "unknown"] /\ UNCHANGED server
    /\ UNCHANGED <<signed, store, page, blocked, sharing, ghosts>>

\* The page takes the member of the answer; the generation comes with the next
\* session check.
AnswerLogin(c) ==
    /\ At(c, "login", "answered")
    /\ IF calls[c].reply = "ok"
       THEN signed' = TRUE /\ page' = [page EXCEPT !.member = calls[c].member, !.login = FALSE]
       ELSE UNCHANGED <<signed, page>>
    /\ calls' = [calls EXCEPT ![c] = Over]
    /\ UNCHANGED <<server, store, blocked, sharing, ghosts>>

-----------------------------------------------------------------------------
(* Time, the cleanup of the cache, the other tabs and devices *)

\* The entry is older than FRESH_CACHE_TTL_MS.
Age(i) ==
    /\ store[i].fresh
    /\ store' = [store EXCEPT ![i].fresh = FALSE]
    /\ UNCHANGED <<server, signed, page, blocked, sharing, calls, ghosts>>

\* cleanup deletes records that are in excess, old or of another identity, and
\* that nobody has replaced since it read them.
Clean(i) ==
    /\ store[i] # NoEntry
    /\ store' = [store EXCEPT ![i] = NoEntry]
    /\ UNCHANGED <<server, signed, page, blocked, sharing, calls, ghosts>>

\* Another tab of the same sign-in writes an answer that it may have got long ago.
OtherPut(v) ==
    /\ page.member # None /\ v <= server.version /\ Identity \notin mixed
    /\ store' = [store EXCEPT ![Identity] = [version |-> v, fresh |-> TRUE]]
    /\ mixed' = mixed \cup {Identity}
    /\ UNCHANGED <<server, signed, page, blocked, sharing, calls, saved, behind, out, crossed>>

\* The storage event of another tab's sign-out.
OtherSignOut ==
    /\ signed
    /\ signed' = FALSE /\ page' = Advanced /\ sharing' = None
    /\ UNCHANGED <<server, store, blocked, calls, ghosts>>

\* Another device changes the list; the administrator removes the device.
OtherChange ==
    /\ server.version < MaxVersion
    /\ server' = [server EXCEPT !.version = @ + 1]
    /\ UNCHANGED <<signed, store, page, blocked, sharing, calls, ghosts>>

Revoke ==
    /\ server.holder # None
    /\ server' = [server EXCEPT !.holder = None]
    /\ UNCHANGED <<signed, store, page, blocked, sharing, calls, ghosts>>

Next ==
    \/ \E c \in Calls : \/ \E force \in BOOLEAN : BeginGet(c, force)
                        \/ ReadCache(c) \/ ServeGet(c) \/ Lose(c) \/ AnswerGet(c) \/ PutDone(c)
                        \/ BeginSave(c) \/ ServeSave(c) \/ AnswerSave(c)
                        \/ Recover(c) \/ BeginVerify(c) \/ ServeCheck(c) \/ CheckDone(c)
                        \/ BeginLogout(c) \/ EndLogout(c)
                        \/ \E m \in Members : BeginLogin(c, m)
                        \/ ServeLogin(c) \/ AnswerLogin(c)
    \/ \E i \in Identities : Age(i) \/ Clean(i)
    \/ \E v \in Versions : OtherPut(v)
    \/ OtherSignOut \/ OtherChange \/ Revoke

Spec == Init /\ [][Next]_vars

-----------------------------------------------------------------------------
(* Properties *)

\* A caller that is given the list after this page was told that its save is
\* done gets it with that save (or a later one), whatever was under way, in the
\* cache or failing on the disk, unless another tab has written the entry.
SavesAreSeen == ~ behind

\* A session check does not undo a sign-out of this page; the exceptions are a
\* check that began while the sign-out (or a sign-in) was under way, and one
\* for a request that was refused before the last sign-in.
SignOutStays == out /\ ~ crossed => page.member = None

\* A comment of notePortalAuthCheckCleared: "External logout/login/storage
\* transitions still invalidate it."
SignOutAlwaysStays == out => page.member = None
=============================================================================
