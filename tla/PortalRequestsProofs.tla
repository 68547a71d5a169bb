------------------------- MODULE PortalRequestsProofs -------------------------
(***************************************************************************)
(* Two promises of the requests of a page, for any number of calls,        *)
(* sign-ins and changes of the list: a save that the page was told of is   *)
(* in every list it is given afterwards, and a sign-out is not undone by a *)
(* session check that began earlier.                                       *)
(*                                                                         *)
(* CacheInv: a load of the present epoch has, and would fall back on, no   *)
(* older list than what was saved; a key is usable only with such an       *)
(* entry, and becomes so only by a write that began after the last save    *)
(* was told, which its token shows.  SignInv: each sign-out and sign-in    *)
(* advances the transition, so that the checks under way are of an earlier *)
(* sign-in state, and one that began since has found no session.           *)
(***************************************************************************)
EXTENDS PortalRequests, TLAPS

-----------------------------------------------------------------------------
(* Types *)

Contexts == [member : People, generation : Generations, epoch : Nat]
Checks == [state : {"none", "sent", "answered", "lost"}, generation : Generations,
           transition : Nat, member : People, since : Generations]
CallRecords == [kind : Kinds, at : Stages, context : Contexts, force : BOOLEAN,
                cached : Versions \cup {None}, reply : Replies, found : Versions \cup {None},
                leader : Calls \cup {None}, token : Calls \cup {None}, spent : BOOLEAN,
                member : People, of : Calls \cup {None}, check : Checks]
Servers == [version : Versions, holder : People, generation : Generations]
Pages == [member : People, generation : Generations, transition : Nat, epoch : Nat,
          login : BOOLEAN]

Typed ==
    /\ server \in Servers /\ page \in Pages /\ store \in [Identities -> Entries]
    /\ blocked \in [Identities -> Calls \cup {None}] /\ sharing \in Calls \cup {None}
    /\ calls \in [Calls -> CallRecords]
    /\ saved \in [Identities -> Nat] /\ mixed \subseteq Identities
    /\ {signed, behind, out, crossed} \subseteq BOOLEAN

-----------------------------------------------------------------------------
(* The cache *)

\* The identity a call asks for, and an entry that is no older than what was saved.
Own(k) == [member |-> k.context.member, generation |-> k.context.generation]
Fine(st, sv, i) == st[i].version # None => sv[i] <= st[i].version

\* A load that has its answer.
Given(k) == k.kind = "get" /\ (k.at = "put" \/ (k.at = "answered" /\ k.reply = "ok"))

\* A load of this epoch has, or may fall back on, no older list than the page saved.
Loaded(k, p, sv, mx) ==
    /\ k.context.epoch <= p.epoch
    /\ Given(k) => /\ k.found # None
                   /\ k.context.epoch = p.epoch => \A i \in Identities : sv[i] <= k.found
    /\ k.cached # None /\ k.context.epoch = p.epoch /\ Own(k) \notin mx => sv[Own(k)] <= k.cached

\* What becomes usable when the write of this call ends.
Written(k, st, bl, sv, mx) ==
    k.kind = "get" /\ k.at = "put" /\ bl[Own(k)] = k.token /\ Own(k) \notin mx => Fine(st, sv, Own(k))

\* What a save was told; and only a refused request looks at the session.
Confirmed(k, s) ==
    /\ k.kind = "save" /\ k.at = "answered" /\ k.reply = "ok" => k.found # None /\ k.found <= s.version
    /\ k.at = "recover" /\ k.kind # "verify" => k.reply = "unknown"

\* Tokens are of saves that are over.
Marks(n, cs) == n # None => cs[n].at = "done"

CacheInv ==
    /\ ~ behind
    /\ \A i \in Identities :
         /\ saved[i] <= server.version
         /\ Marks(blocked[i], calls)
         /\ blocked[i] = None /\ i \notin mixed => Fine(store, saved, i)
    /\ \A c \in Calls :
         /\ Loaded(calls[c], page, saved, mixed)
         /\ Written(calls[c], store, blocked, saved, mixed)
         /\ Confirmed(calls[c], server)
         /\ Marks(calls[c].token, calls)

-----------------------------------------------------------------------------
(* The sign-out *)

\* A check that began in an earlier sign-in state is not current any more.
SignInv ==
    /\ \A c \in Calls : calls[c].check.state # "none" => calls[c].check.transition <= page.transition
    /\ UnderWay("logout") # {} /\ ~ crossed =>
         \A c \in Calls : calls[c].check.state # "none" => calls[c].check.transition < page.transition
    /\ out => UnderWay("login") = {}
    /\ out /\ ~ crossed =>
         /\ page.member = None /\ ~ signed
         /\ \A c \in Calls : calls[c].check.transition = page.transition =>
              /\ calls[c].check.state = "sent" => server.holder = None
              /\ calls[c].check.state = "answered" => calls[c].check.member = None

RequestsInv == Typed /\ CacheInv /\ SignInv

-----------------------------------------------------------------------------
(* Facts about the types *)

LEMMA Bounds ==
    /\ Versions \subseteq Nat /\ Generations \subseteq Nat /\ 0 \in Generations /\ 1 \in Generations
    /\ 0 \in Versions /\ None \notin Versions /\ None \notin Calls /\ None \notin Members
    /\ None \notin Requests
  BY NoneAssumption, BoundsAssumption DEF Versions, Generations

LEMMA IdleFields ==
    /\ Idle \in CallRecords /\ Idle.kind = None /\ Idle.at = "idle" /\ Idle.context = NoContext
    /\ Idle.cached = None /\ Idle.reply = None /\ Idle.found = None /\ Idle.token = None
    /\ Idle.check = NoCheck /\ NoContext.epoch = 0 /\ NoCheck.state = "none"
    /\ NoCheck.transition = 0 /\ NoCheck \in Checks
  <1>1. NoContext \in Contexts
    BY Bounds DEF NoContext, Contexts, People
  <1>2. NoCheck \in Checks
    BY Bounds DEF NoCheck, Checks, People
  <1>3. None \in Kinds /\ "idle" \in Stages /\ None \in Replies
    BY DEF Kinds, Stages, Replies
  <1>4. Idle \in CallRecords
    BY <1>1, <1>2, <1>3 DEF Idle, CallRecords, People
  <1> QED BY <1>2, <1>4 DEF Idle, NoContext, NoCheck

LEMMA OverFields ==
    /\ Over \in CallRecords /\ Over.kind = None /\ Over.at = "done" /\ Over.context = NoContext
    /\ Over.cached = None /\ Over.reply = None /\ Over.found = None /\ Over.token = None
    /\ Over.check = NoCheck
  <1>1. "done" \in Stages
    BY DEF Stages
  <1> QED BY <1>1, IdleFields DEF Over, CallRecords

LEMMA CallFields ==
    ASSUME NEW k \in CallRecords
    PROVE  /\ k.kind \in Kinds /\ k.at \in Stages /\ k.context \in Contexts
           /\ k.cached \in Versions \cup {None} /\ k.found \in Versions \cup {None}
           /\ k.token \in Calls \cup {None} /\ k.check \in Checks
           /\ k.context.epoch \in Nat /\ Own(k) \in Identities
           /\ k.check.transition \in Nat /\ k.check.generation \in Generations
           /\ k.check.state \in {"none", "sent", "answered", "lost"}
           /\ k.check.member \in People /\ k.check.since \in Generations
           /\ k.leader \in Calls \cup {None} /\ k.of \in Calls \cup {None}
           /\ k.member \in People
  BY DEF CallRecords, Contexts, Checks, Own, Identities

LEMMA PageFields ==
    ASSUME page \in Pages
    PROVE  /\ Identity \in Identities /\ page.epoch \in Nat /\ page.transition \in Nat
           /\ page.member \in People /\ page.generation \in Generations
           /\ Context \in Contexts /\ Context.epoch = page.epoch
           /\ Context.member = page.member /\ Context.generation = page.generation
  BY DEF Pages, Identity, Identities, Context, Contexts

\* A call in the context of the page asks for what the page shows.
LEMMA CurrentFields ==
    ASSUME NEW c \in Calls, Current(c), page \in Pages
    PROVE  calls[c].context.epoch = page.epoch /\ Own(calls[c]) = Identity
  BY PageFields DEF Current, Own, Identity

LEMMA EntryFields ==
    /\ NoEntry \in Entries /\ NoEntry.version = None
    /\ \A e \in Entries : e.version \in Versions \cup {None}
    /\ \A v \in Versions : [version |-> v, fresh |-> TRUE] \in Entries
  BY DEF Entries, NoEntry

LEMMA AgedFields ==
    ASSUME NEW e \in Entries, e.fresh, NEW x, x = [e EXCEPT !.fresh = FALSE]
    PROVE  x \in Entries /\ x.version = e.version
  <1>1. ~ NoEntry.fresh
    BY DEF NoEntry
  <1>2. e \in [version : Versions, fresh : BOOLEAN]
    BY <1>1 DEF Entries
  <1> QED BY <1>2 DEF Entries

\* A call that is over has nothing to say.
LEMMA OverSound ==
    ASSUME NEW p \in Pages, NEW sv, NEW mx, NEW st, NEW bl, NEW s, NEW cs
    PROVE  /\ Loaded(Over, p, sv, mx) /\ Written(Over, st, bl, sv, mx) /\ Confirmed(Over, s)
           /\ Marks(Over.token, cs)
  <1>1. p.epoch \in Nat
    BY DEF Pages
  <1> QED BY <1>1, OverFields, IdleFields, Bounds DEF Loaded, Given, Written, Confirmed, Marks, Requests

-----------------------------------------------------------------------------
(* Steps of the cache *)

\* What a step may do besides the calls: nothing is undone, no save is confirmed, and
\* an entry that is written is no older than what was saved.
Moves ==
    /\ server' \in Servers /\ server.version <= server'.version
    /\ page' \in Pages /\ page.epoch <= page'.epoch
    /\ saved' = saved /\ mixed \subseteq mixed' /\ mixed' \subseteq Identities
    /\ sharing' \in Calls \cup {None} /\ {signed', out', crossed'} \subseteq BOOLEAN
    /\ store' \in [Identities -> Entries]
    /\ \A i \in Identities : \/ store'[i].version \in {None, store[i].version}
                             \/ i \in mixed'
                             \/ store'[i].version \in Versions /\ saved[i] <= store'[i].version

\* A call after such a step.
Sound(k) ==
    /\ k \in CallRecords
    /\ Loaded(k, page', saved, mixed') /\ Written(k, store', blocked', saved, mixed')
    /\ Confirmed(k, server') /\ Marks(k.token, calls)

LEMMA FineKept ==
    ASSUME Typed, Moves, NEW i \in Identities, i \notin mixed', Fine(store, saved, i)
    PROVE  Fine(store', saved, i)
  <1>1. store'[i].version \in {None, store[i].version}
        \/ (store'[i].version \in Versions /\ saved[i] <= store'[i].version)
    BY DEF Moves
  <1> QED BY <1>1 DEF Fine

\* A call that takes no part in the step.
LEMMA AsideSound ==
    ASSUME Typed, CacheInv, Moves, NEW d \in Calls,
           \/ blocked'[Own(calls[d])] = blocked[Own(calls[d])]
           \/ Own(calls[d]) \notin mixed' => Fine(store', saved, Own(calls[d]))
    PROVE  Sound(calls[d])
  <1>k. PICK k : k = calls[d]
    OBVIOUS
  <1>1. k \in CallRecords /\ Own(k) \in Identities /\ k.context.epoch \in Nat /\ k.found \in Versions \cup {None}
    BY <1>k, CallFields DEF Typed
  <1>2. /\ Loaded(k, page, saved, mixed) /\ Written(k, store, blocked, saved, mixed)
        /\ Confirmed(k, server) /\ Marks(k.token, calls)
    BY <1>k DEF CacheInv
  <1>3. page.epoch \in Nat /\ page'.epoch \in Nat /\ page.epoch <= page'.epoch /\ mixed \subseteq mixed'
    BY DEF Typed, Moves, Pages
  <1>4. k.context.epoch <= page'.epoch /\ (k.context.epoch = page'.epoch => k.context.epoch = page.epoch)
    BY <1>1, <1>2, <1>3 DEF Loaded
  <1>5. Loaded(k, page', saved, mixed')
    BY <1>2, <1>3, <1>4 DEF Loaded
  <1>6. Written(k, store', blocked', saved, mixed')
    <2>1. SUFFICES ASSUME k.kind = "get", k.at = "put", blocked'[Own(k)] = k.token, Own(k) \notin mixed'
                   PROVE  Fine(store', saved, Own(k))
      BY DEF Written
    <2>2. CASE blocked'[Own(k)] = blocked[Own(k)]
      <3>1. Fine(store, saved, Own(k))
        BY <1>2, <1>3, <2>1, <2>2 DEF Written
      <3> QED BY <1>1, <2>1, <3>1, FineKept
    <2> QED BY <1>k, <2>1, <2>2
  <1>7. Confirmed(k, server')
    <2>1. server.version \in Nat /\ server'.version \in Nat /\ server.version <= server'.version
      BY Bounds DEF Typed, Moves, Servers
    <2>2. ASSUME k.kind = "save", k.at = "answered", k.reply = "ok"
          PROVE  k.found # None /\ k.found <= server'.version
      <3>1. k.found # None /\ k.found <= server.version
        BY <1>2, <2>2 DEF Confirmed
      <3>2. k.found \in Nat
        BY <1>1, <3>1, Bounds
      <3> QED BY <2>1, <3>1, <3>2
    <2> QED BY <1>2, <2>2 DEF Confirmed
  <1> QED BY <1>k, <1>1, <1>2, <1>5, <1>6, <1>7 DEF Sound

\* What is left to show of a step.
LEMMA CacheMoves ==
    ASSUME Typed, CacheInv, Moves, behind' = FALSE,
           NEW f, calls' = [d \in Calls |-> f[d]], \A d \in Calls : Sound(f[d]),
           \A d \in Calls : calls[d].at = "done" => f[d].at = "done",
           blocked' \in [Identities -> Calls \cup {None}],
           \A i \in Identities :
             \/ blocked'[i] = blocked[i]
             \/ blocked'[i] = None /\ (i \notin mixed' => Fine(store', saved, i))
    PROVE  Typed' /\ CacheInv'
  <1>1. Typed'
    BY DEF Typed, Moves, Sound
  <1>2. ASSUME NEW n \in Calls \cup {None}, Marks(n, calls)
        PROVE  Marks(n, calls')
    BY <1>2 DEF Marks
  <1>3. ASSUME NEW i \in Identities
        PROVE  /\ saved'[i] <= server'.version
               /\ Marks(blocked'[i], calls')
               /\ blocked'[i] = None /\ i \notin mixed' => Fine(store', saved', i)
    <2>1. saved'[i] <= server'.version
      <3>1. saved[i] <= server.version
        BY <1>3 DEF CacheInv
      <3>2. /\ saved[i] \in Nat /\ server.version \in Nat /\ server'.version \in Nat
            /\ server.version <= server'.version
        BY <1>3, Bounds DEF Typed, Moves, Servers
      <3> QED BY <3>1, <3>2 DEF Moves
    <2>2. Marks(blocked'[i], calls')
      <3>1. CASE blocked'[i] = blocked[i]
        <4>1. Marks(blocked[i], calls) /\ blocked[i] \in Calls \cup {None}
          BY <1>3 DEF CacheInv, Typed
        <4> QED BY <1>2, <3>1, <4>1
      <3>2. CASE blocked'[i] = None
        BY <3>2 DEF Marks
      <3> QED BY <1>3, <3>1, <3>2
    <2>3. ASSUME blocked'[i] = None, i \notin mixed'
          PROVE  Fine(store', saved', i)
      <3>1. CASE blocked'[i] = blocked[i]
        <4>1. i \notin mixed
          BY <2>3 DEF Moves
        <4>2. Fine(store, saved, i)
          BY <1>3, <2>3, <3>1, <4>1 DEF CacheInv
        <4> QED BY <1>3, <2>3, <4>2, FineKept DEF Moves
      <3>2. CASE i \notin mixed' => Fine(store', saved, i)
        BY <2>3, <3>2 DEF Moves
      <3> QED BY <1>3, <3>1, <3>2
    <2> QED BY <2>1, <2>2, <2>3
  <1>4. ASSUME NEW d \in Calls
        PROVE  /\ Loaded(calls'[d], page', saved', mixed')
               /\ Written(calls'[d], store', blocked', saved', mixed')
               /\ Confirmed(calls'[d], server')
               /\ Marks(calls'[d].token, calls')
    <2>1. calls'[d] = f[d] /\ Sound(f[d])
      BY <1>4
    <2>2. f[d].token \in Calls \cup {None}
      BY <2>1, CallFields DEF Sound
    <2> QED BY <1>2, <2>1, <2>2 DEF Sound, Moves
  <1> QED BY <1>1, <1>3, <1>4 DEF CacheInv

\* A step of one call.
LEMMA OneCallMoves ==
    ASSUME Typed, CacheInv, Moves, behind' = behind, blocked' = blocked,
           NEW c \in Calls, calls[c].at # "done", NEW y, Sound(y), calls' = [calls EXCEPT ![c] = y]
    PROVE  Typed' /\ CacheInv'
  <1> DEFINE f == [d \in Calls |-> IF d = c THEN y ELSE calls[d]]
  <1>1. calls' = [d \in Calls |-> f[d]]
    BY DEF Typed
  <1>2. ASSUME NEW d \in Calls
        PROVE  Sound(f[d]) /\ (calls[d].at = "done" => f[d].at = "done")
    <2>1. CASE d = c
      BY <2>1
    <2>2. CASE d # c
      <3>1. f[d] = calls[d]
        BY <1>2, <2>2
      <3>2. Sound(calls[d])
        BY <1>2, AsideSound
      <3> QED BY <3>1, <3>2
    <2> QED BY <2>1, <2>2
  <1>3. behind' = FALSE /\ blocked' \in [Identities -> Calls \cup {None}]
    BY DEF Typed, CacheInv
  <1> HIDE DEF f
  <1> QED BY <1>1, <1>2, <1>3, CacheMoves

\* A step of no call.
LEMMA NoCallMoves ==
    ASSUME Typed, CacheInv, Moves, behind' = behind, blocked' = blocked, calls' = calls
    PROVE  Typed' /\ CacheInv'
  <1>1. calls' = [d \in Calls |-> calls[d]]
    BY DEF Typed
  <1>2. \A d \in Calls : Sound(calls[d])
    BY AsideSound
  <1>3. behind' = FALSE /\ blocked' \in [Identities -> Calls \cup {None}]
    BY DEF Typed, CacheInv
  <1> QED BY <1>1, <1>2, <1>3, CacheMoves

\* Calls that return, with a list that is as new as it must be.
LEMMA ReturnMoves ==
    ASSUME Typed, CacheInv, Moves, page' \in Pages, NEW c \in Calls, NEW v,
           Return(c, v), v = None \/ Identity \in mixed \/ saved[Identity] <= v,
           v \in Versions \cup {None},
           blocked' \in [Identities -> Calls \cup {None}],
           \A i \in Identities :
             \/ blocked'[i] = blocked[i]
             \/ blocked'[i] = None /\ (i \notin mixed' => Fine(store', saved, i))
    PROVE  Typed' /\ CacheInv'
  <1> DEFINE f == [d \in Calls |-> IF d = c \/ (calls[d].at = "joined" /\ calls[d].leader = c)
                                   THEN Over ELSE calls[d]]
  <1>1. calls' = [d \in Calls |-> f[d]]
    BY DEF Return
  <1>2. ASSUME NEW d \in Calls
        PROVE  Sound(f[d]) /\ (calls[d].at = "done" => f[d].at = "done")
    <2>1. CASE f[d] = Over
      <3>1. page' \in Pages
        BY DEF Moves
      <3>2. Sound(Over)
        BY <3>1, OverSound, OverFields DEF Sound
      <3> QED BY <2>1, <3>2, OverFields
    <2>2. CASE f[d] # Over
      <3>1. f[d] = calls[d] /\ calls'[d] = calls[d]
        BY <1>1, <1>2, <2>2
      <3>2. Own(calls[d]) \in Identities
        BY <1>2, CallFields DEF Typed
      <3>3. Sound(calls[d])
        BY <1>2, <3>2, AsideSound
      <3> QED BY <3>1, <3>3
    <2> QED BY <2>1, <2>2
  <1>3. behind' = FALSE
    <2>1. ~ (v # None /\ v < saved[Identity] /\ Identity \notin mixed)
      <3>1. Identity \in Identities
        BY PageFields DEF Typed
      <3>2. saved[Identity] \in Nat
        BY <3>1 DEF Typed
      <3> QED BY <3>2, Bounds
    <2> QED BY <2>1 DEF Return, CacheInv
  <1> HIDE DEF f
  <1> QED BY <1>1, <1>2, <1>3, CacheMoves

-----------------------------------------------------------------------------
(* The loads *)

LEMMA MovesNot ==
    ASSUME Typed, UNCHANGED <<server, signed, store, page, sharing, out, crossed, saved, mixed>>
    PROVE  Moves
  <1>1. server.version \in Nat /\ page.epoch \in Nat
    BY Bounds DEF Typed, Servers, Pages
  <1> QED BY <1>1 DEF Typed, Moves

LEMMA BeginGetKeeps ==
    ASSUME Typed, CacheInv, NEW c \in Calls, NEW force \in BOOLEAN, BeginGet(c, force)
    PROVE  Typed' /\ CacheInv'
  <1>1. /\ Moves /\ behind' = behind /\ blocked' = blocked /\ page' = page
    BY MovesNot DEF BeginGet, ghosts
  <1> DEFINE same == {d \in UnderWay("get") : Current(d) /\ calls[d].force = force /\ calls[d].at # "joined"}
             begun == [Idle EXCEPT !.kind = "get", !.context = Context, !.force = force]
  <1>2. PICK b : b = begun
    OBVIOUS
  <1>3. /\ b \in CallRecords /\ b.kind = "get" /\ b.at = "idle" /\ b.context = Context
        /\ b.cached = None /\ b.token = None
    <2>1. Context \in Contexts /\ "get" \in Kinds
      BY PageFields DEF Typed, Kinds, Requests
    <2>2. b \in CallRecords
      BY <1>2, <2>1, IdleFields DEF CallRecords
    <2> QED BY <1>2, <2>2, IdleFields DEF CallRecords
  <1>4. PICK y : /\ calls' = [calls EXCEPT ![c] = y]
                 /\ y \in CallRecords /\ y.kind = "get" /\ y.at \in {"read", "joined"}
                 /\ y.context = Context /\ y.cached = None /\ y.token \in {None, blocked[Identity]}
    <2>1. CASE same = {}
      <3>1. PICK y : y = [b EXCEPT !.at = "read", !.token = blocked[Identity]]
        OBVIOUS
      <3>2. blocked[Identity] \in Calls \cup {None} /\ "read" \in Stages
        BY PageFields DEF Typed, Stages
      <3>3. y \in CallRecords
        BY <1>3, <3>1, <3>2 DEF CallRecords
      <3>4. y.kind = "get" /\ y.at = "read" /\ y.context = Context /\ y.cached = None
            /\ y.token = blocked[Identity]
        BY <1>3, <3>1, <3>3 DEF CallRecords
      <3>5. calls' = [calls EXCEPT ![c] = y]
        BY <1>2, <2>1, <3>1 DEF BeginGet
      <3> QED BY <3>3, <3>4, <3>5
    <2>2. CASE same # {}
      <3>1. PICK l : l = CHOOSE d \in same : TRUE
        OBVIOUS
      <3>2. l \in Calls /\ "joined" \in Stages
        BY <2>2, <3>1 DEF UnderWay, Stages
      <3>3. PICK y : y = [b EXCEPT !.at = "joined", !.leader = l]
        OBVIOUS
      <3>4. y \in CallRecords
        BY <1>3, <3>2, <3>3 DEF CallRecords
      <3>5. y.kind = "get" /\ y.at = "joined" /\ y.context = Context /\ y.cached = None
            /\ y.token = None
        BY <1>3, <3>3, <3>4 DEF CallRecords
      <3>6. calls' = [calls EXCEPT ![c] = y]
        BY <1>2, <2>2, <3>1, <3>3 DEF BeginGet
      <3> QED BY <3>4, <3>5, <3>6
    <2> QED BY <2>1, <2>2
  <1>5. Sound(y)
    <2>1. Marks(y.token, calls)
      <3>1. Marks(blocked[Identity], calls)
        BY PageFields DEF Typed, CacheInv
      <3> QED BY <1>4, <3>1 DEF Marks
    <2>2. y.context.epoch <= page'.epoch
      BY <1>1, <1>4, PageFields DEF Typed
    <2> QED BY <1>4, <2>1, <2>2 DEF Sound, Loaded, Given, Written, Confirmed
  <1>6. calls[c].at # "done"
    BY DEF BeginGet
  <1> QED BY <1>1, <1>4, <1>5, <1>6, OneCallMoves

LEMMA ReadCacheKeeps ==
    ASSUME Typed, CacheInv, NEW c \in Calls, ReadCache(c)
    PROVE  Typed' /\ CacheInv'
  <1>1. UNCHANGED <<server, signed, store, page, blocked, sharing>> /\ At(c, "get", "read")
    BY DEF ReadCache
  <1>2. /\ calls[c] \in CallRecords /\ Identity \in Identities /\ calls[c].at = "read" /\ calls[c].kind = "get"
    BY <1>1, PageFields DEF Typed, At
  <1>3. ASSUME NEW v \in Versions \cup {None}, Return(c, v),
               v = None \/ Identity \in mixed \/ saved[Identity] <= v
        PROVE  Typed' /\ CacheInv'
    <2>1. Moves /\ page' \in Pages
      BY <1>1, <1>3, MovesNot DEF Return, Typed
    <2>2. blocked' \in [Identities -> Calls \cup {None}] /\ blocked' = blocked
      BY <1>1 DEF Typed
    <2> QED BY <1>3, <2>1, <2>2, ReturnMoves
  <1>4. Entry(c).version \in Versions \cup {None}
        /\ (Entry(c).version # None /\ Identity \notin mixed => saved[Identity] <= Entry(c).version)
    <2>1. CASE Entry(c) = NoEntry
      BY <2>1, EntryFields
    <2>2. CASE Entry(c) = store[Identity] /\ blocked[Identity] = None
      <3>1. Identity \notin mixed => Fine(store, saved, Identity)
        BY <1>2, <2>2 DEF CacheInv
      <3>2. store[Identity] \in Entries
        BY <1>2 DEF Typed
      <3> QED BY <2>2, <3>1, <3>2, EntryFields DEF Fine
    <2> QED BY <2>1, <2>2 DEF Entry
  <1>5. CASE ~ Current(c) /\ Return(c, None)
    BY <1>3, <1>5
  <1>6. CASE Return(c, Entry(c).version)
    BY <1>3, <1>4, <1>6
  <1>7. CASE /\ Current(c)
             /\ calls' = [calls EXCEPT ![c].at = "sent", ![c].cached = Entry(c).version, ![c].token = None]
             /\ UNCHANGED ghosts
    <2>1. PICK v : v = Entry(c).version
      OBVIOUS
    <2>2. PICK y : y = [calls[c] EXCEPT !.at = "sent", !.cached = v, !.token = None]
      OBVIOUS
    <2>3. calls' = [calls EXCEPT ![c] = y]
      BY <1>7, <2>1, <2>2 DEF Typed
    <2>4. y \in CallRecords
      <3>1. "sent" \in Stages
        BY DEF Stages
      <3> QED BY <1>2, <1>4, <2>1, <2>2, <3>1 DEF CallRecords
    <2>5. y.at = "sent" /\ y.cached = v /\ y.token = None /\ y.context = calls[c].context
          /\ y.kind = "get"
      BY <1>2, <2>2, <2>4 DEF CallRecords
    <2>6. Own(y) = Identity /\ y.context.epoch = page.epoch
      BY <2>5, CurrentFields, <1>7 DEF Own, Typed
    <2>7. Moves /\ page' = page /\ behind' = behind /\ blocked' = blocked /\ mixed' = mixed
      BY <1>1, <1>7, MovesNot DEF ghosts
    <2>8. Sound(y)
      <3>1. page.epoch \in Nat
        BY DEF Typed, Pages
      <3> QED BY <1>4, <2>1, <2>4, <2>5, <2>6, <2>7, <3>1
            DEF Sound, Loaded, Given, Written, Confirmed, Marks
    <2> QED BY <1>2, <2>3, <2>7, <2>8, OneCallMoves
  <1> QED BY <1>5, <1>6, <1>7 DEF ReadCache

\* A call that has no answer to use.
LEMMA QuietSound ==
    ASSUME Typed, CacheInv, Moves, NEW c \in Calls, NEW y \in CallRecords,
           y.context = calls[c].context \/ y.context = NoContext,
           (y.cached = calls[c].cached /\ y.context = calls[c].context) \/ y.cached = None,
           y.token \in {None, calls[c].token}, y.at # "put", y.at = "answered" => y.reply # "ok" \/ y.kind = "login",
           y.at = "recover" => y.kind = "verify" \/ y.reply = "unknown"
    PROVE  Sound(y)
  <1>1. Loaded(calls[c], page, saved, mixed) /\ Marks(calls[c].token, calls)
    BY DEF CacheInv
  <1>2. page.epoch \in Nat /\ page'.epoch \in Nat /\ page.epoch <= page'.epoch /\ mixed \subseteq mixed'
    BY DEF Typed, Moves, Pages
  <1>3. calls[c].context.epoch \in Nat /\ y.context.epoch \in Nat
    BY CallFields DEF Typed
  <1>4. y.context.epoch <= page'.epoch /\ (y.context = calls[c].context /\ y.context.epoch = page'.epoch
                                             => y.context.epoch = page.epoch)
    BY <1>1, <1>2, <1>3, IdleFields DEF Loaded
  <1>5. ~ Given(y)
    BY DEF Given
  <1>6. y.cached # None /\ y.context.epoch = page'.epoch /\ Own(y) \notin mixed' => saved[Own(y)] <= y.cached
    <2>1. SUFFICES ASSUME y.cached # None, y.context.epoch = page'.epoch, Own(y) \notin mixed'
                   PROVE  saved[Own(y)] <= y.cached
      OBVIOUS
    <2>2. y.context = calls[c].context /\ y.cached = calls[c].cached
      BY <2>1
    <2>3. Own(y) = Own(calls[c])
      BY <2>2 DEF Own
    <2>4. calls[c].context.epoch = page.epoch /\ Own(calls[c]) \notin mixed
      BY <1>2, <1>4, <2>1, <2>2, <2>3
    <2> QED BY <1>1, <2>1, <2>2, <2>3, <2>4 DEF Loaded
  <1>7. Marks(y.token, calls)
    BY <1>1 DEF Marks
  <1> QED BY <1>4, <1>5, <1>6, <1>7 DEF Sound, Loaded, Written, Confirmed

LEMMA ServeGetKeeps ==
    ASSUME Typed, CacheInv, NEW c \in Calls, ServeGet(c)
    PROVE  Typed' /\ CacheInv'
  <1>1. /\ Moves /\ behind' = behind /\ blocked' = blocked /\ page' = page /\ mixed' = mixed
    BY MovesNot DEF ServeGet, ghosts
  <1>2. calls[c] \in CallRecords /\ calls[c].kind = "get" /\ calls[c].at = "sent"
    BY DEF Typed, ServeGet, At
  <1>3. PICK v : v = IF server.holder = None THEN None ELSE server.version
    OBVIOUS
  <1>4. PICK o : o = IF server.holder = None THEN "unknown" ELSE "ok"
    OBVIOUS
  <1>5. PICK y : y = [calls[c] EXCEPT !.at = "answered", !.cached = None, !.found = v, !.reply = o]
    OBVIOUS
  <1>6. calls' = [calls EXCEPT ![c] = y]
    BY <1>3, <1>4, <1>5 DEF Typed, ServeGet
  <1>7. y \in CallRecords
    <2>1. "answered" \in Stages /\ o \in Replies
      BY <1>4 DEF Stages, Replies
    <2>2. v \in Versions \cup {None}
      BY <1>3 DEF Typed, Servers
    <2> QED BY <1>2, <1>5, <2>1, <2>2 DEF CallRecords
  <1>8. /\ y.kind = "get" /\ y.at = "answered" /\ y.cached = None /\ y.found = v /\ y.reply = o
        /\ y.context = calls[c].context /\ y.token = calls[c].token
    BY <1>2, <1>5, <1>7 DEF CallRecords
  <1>9. Sound(y)
    <2>1. CASE o # "ok"
      BY <1>1, <1>7, <1>8, <2>1, QuietSound
    <2>2. CASE o = "ok"
      <3>1. v = server.version /\ v \in Versions
        BY <1>3, <1>4, <2>2 DEF Typed, Servers
      <3>2. \A i \in Identities : saved[i] <= v
        BY <3>1 DEF CacheInv
      <3>3. Loaded(calls[c], page, saved, mixed) /\ Marks(calls[c].token, calls)
        BY DEF CacheInv
      <3> QED BY <1>1, <1>7, <1>8, <3>1, <3>2, <3>3, Bounds
            DEF Sound, Loaded, Given, Written, Confirmed
    <2> QED BY <2>1, <2>2
  <1> QED BY <1>1, <1>2, <1>6, <1>9, OneCallMoves

LEMMA LoseKeeps ==
    ASSUME Typed, CacheInv, NEW c \in Calls, Lose(c)
    PROVE  Typed' /\ CacheInv'
  <1>1. /\ Moves /\ behind' = behind /\ blocked' = blocked
    BY MovesNot DEF Lose, ghosts
  <1>2. calls[c] \in CallRecords /\ calls[c].at # "done"
    BY DEF Typed, Lose, At
  <1>3. PICK y : y = [calls[c] EXCEPT !.at = "answered", !.reply = "network", !.found = None]
    OBVIOUS
  <1>4. calls' = [calls EXCEPT ![c] = y]
    BY <1>3 DEF Typed, Lose
  <1>5. y \in CallRecords
    <2>1. "answered" \in Stages /\ "network" \in Replies
      BY DEF Stages, Replies
    <2> QED BY <1>2, <1>3, <2>1 DEF CallRecords
  <1>6. /\ y.at = "answered" /\ y.reply = "network" /\ y.cached = calls[c].cached
        /\ y.context = calls[c].context /\ y.token = calls[c].token
    BY <1>2, <1>3, <1>5 DEF CallRecords
  <1>7. Sound(y)
    BY <1>1, <1>5, <1>6, QuietSound
  <1> QED BY <1>1, <1>2, <1>4, <1>7, OneCallMoves

LEMMA LoginFields ==
    ASSUME NEW q \in Pages, NEW p, p = ShowLogin(q)
    PROVE  p \in Pages /\ p.epoch = q.epoch /\ p.transition = q.transition /\ p.member = q.member
           /\ p.generation = q.generation
  BY DEF ShowLogin, Pages

LEMMA AnswerGetKeeps ==
    ASSUME Typed, CacheInv, NEW c \in Calls, AnswerGet(c)
    PROVE  Typed' /\ CacheInv'
  <1>1. UNCHANGED <<server, signed, blocked, sharing>> /\ At(c, "get", "answered")
    BY DEF AnswerGet
  <1>2. /\ calls[c] \in CallRecords /\ Identity \in Identities /\ calls[c].at = "answered"
        /\ calls[c].kind = "get" /\ Loaded(calls[c], page, saved, mixed)
    BY <1>1, PageFields DEF Typed, At, CacheInv
  <1>3. ASSUME NEW v \in Versions \cup {None}, Return(c, v), UNCHANGED store,
               page' \in {page, ShowLogin(page)},
               v = None \/ Identity \in mixed \/ saved[Identity] <= v
        PROVE  Typed' /\ CacheInv'
    <2>1. page' \in Pages /\ page'.epoch = page.epoch
      BY <1>3, LoginFields DEF Typed
    <2>2. Moves
      <3>1. page.epoch \in Nat /\ server.version \in Nat
        BY Bounds DEF Typed, Pages, Servers
      <3> QED BY <1>1, <1>3, <2>1, <3>1 DEF Moves, Typed, Return
    <2>3. blocked' \in [Identities -> Calls \cup {None}] /\ blocked' = blocked
      BY <1>1 DEF Typed
    <2> QED BY <1>3, <2>1, <2>2, <2>3, ReturnMoves
  <1>4. CASE ~ Current(c) /\ Return(c, None) /\ UNCHANGED <<store, page>>
    BY <1>3, <1>4
  <1>5. CASE Current(c) /\ Return(c, calls[c].cached) /\ UNCHANGED <<store, page>>
    <2>1. calls[c].context.epoch = page.epoch /\ Own(calls[c]) = Identity
      BY <1>5, CurrentFields DEF Typed
    <2>2. calls[c].cached \in Versions \cup {None}
      BY <1>2, CallFields
    <2>3. calls[c].cached = None \/ Identity \in mixed \/ saved[Identity] <= calls[c].cached
      BY <1>2, <2>1 DEF Loaded
    <2> QED BY <1>3, <1>5, <2>2, <2>3
  <1>6. CASE Return(c, None) /\ page' = ShowLogin(page) /\ UNCHANGED store
    BY <1>3, <1>6
  <1>7. CASE Current(c) /\ calls[c].reply = "ok" /\ Put(c) /\ UNCHANGED page
    <2>1. calls[c].context.epoch = page.epoch /\ Own(calls[c]) = Identity
      BY <1>7, CurrentFields DEF Typed
    <2>2. /\ calls[c].found \in Versions /\ \A i \in Identities : saved[i] <= calls[c].found
      <3>1. calls[c].found \in Versions \cup {None}
        BY <1>2, CallFields
      <3> QED BY <1>2, <1>7, <2>1, <3>1 DEF Loaded, Given
    <2>3. CASE Return(c, None) /\ UNCHANGED store
      BY <1>3, <1>7, <2>3
    <2>4. CASE /\ store' = [store EXCEPT ![Identity] = [version |-> calls[c].found, fresh |-> TRUE]]
               /\ calls' = [calls EXCEPT ![c].at = "put", ![c].token = blocked[Identity]]
               /\ UNCHANGED ghosts
      <3>1. PICK e : e = [version |-> calls[c].found, fresh |-> TRUE]
        OBVIOUS
      <3>2. e \in Entries /\ e.version = calls[c].found
        BY <2>2, <3>1, EntryFields
      <3>3. store' = [store EXCEPT ![Identity] = e] /\ store' \in [Identities -> Entries]
        BY <2>4, <3>1, <3>2 DEF Typed
      <3>4. Moves /\ mixed' = mixed /\ page' = page /\ blocked' = blocked /\ behind' = behind
        <4>1. page.epoch \in Nat /\ server.version \in Nat
          BY Bounds DEF Typed, Pages, Servers
        <4>2. \A i \in Identities : \/ store'[i].version = store[i].version
                                    \/ store'[i].version \in Versions /\ saved[i] <= store'[i].version
          BY <2>2, <3>2, <3>3 DEF Typed
        <4>3. Moves
          BY <1>1, <1>7, <2>4, <3>3, <4>1, <4>2 DEF Moves, Typed, ghosts
        <4> QED BY <1>1, <1>7, <2>4, <4>3 DEF ghosts
      <3>5. PICK n : n = blocked[Identity]
        OBVIOUS
      <3>6. n \in Calls \cup {None} /\ Marks(n, calls)
        BY <1>2, <3>5 DEF Typed, CacheInv
      <3>7. PICK y : y = [calls[c] EXCEPT !.at = "put", !.token = n]
        OBVIOUS
      <3>8. calls' = [calls EXCEPT ![c] = y]
        BY <2>4, <3>5, <3>7 DEF Typed
      <3>9. y \in CallRecords
        <4>1. "put" \in Stages
          BY DEF Stages
        <4> QED BY <1>2, <3>6, <3>7, <4>1 DEF CallRecords
      <3>10. /\ y.kind = "get" /\ y.at = "put" /\ y.token = n /\ y.context = calls[c].context
             /\ y.cached = calls[c].cached /\ y.found = calls[c].found
        BY <1>2, <3>7, <3>9 DEF CallRecords
      <3>11. Own(y) = Identity
        BY <2>1, <3>10 DEF Own
      <3>12. Loaded(y, page', saved, mixed')
        <4>1. page.epoch \in Nat
          BY DEF Typed, Pages
        <4>2. y.found # None
          BY <2>2, <3>10, Bounds
        <4> QED BY <1>2, <2>1, <2>2, <3>4, <3>10, <3>11, <4>1, <4>2 DEF Loaded
      <3>13. Written(y, store', blocked', saved, mixed')
        <4>1. store'[Identity] = e
          BY <1>2, <3>3 DEF Typed
        <4>2. Fine(store', saved, Identity)
          BY <1>2, <2>2, <3>2, <4>1 DEF Fine
        <4> QED BY <3>11, <4>2 DEF Written
      <3>14. Confirmed(y, server')
        BY <3>10 DEF Confirmed
      <3>15. Sound(y)
        BY <3>6, <3>9, <3>10, <3>12, <3>13, <3>14 DEF Sound
      <3> QED BY <1>2, <3>4, <3>8, <3>15, OneCallMoves
    <2> QED BY <1>7, <2>3, <2>4 DEF Put
  <1> QED BY <1>4, <1>5, <1>6, <1>7 DEF AnswerGet

LEMMA PutDoneKeeps ==
    ASSUME Typed, CacheInv, NEW c \in Calls, PutDone(c)
    PROVE  Typed' /\ CacheInv'
  <1>k. PICK k : k = calls[c]
    OBVIOUS
  <1>1. /\ k \in CallRecords /\ Identity \in Identities /\ k.at = "put" /\ k.kind = "get"
        /\ Loaded(k, page, saved, mixed) /\ Written(k, store, blocked, saved, mixed)
        /\ Own(k) \in Identities
    BY <1>k, PageFields, CallFields DEF Typed, PutDone, At, CacheInv
  <1>2. PICK v : v = IF Current(c) THEN k.found ELSE None
    OBVIOUS
  <1>3. /\ UNCHANGED <<server, signed, store, page, sharing>> /\ Return(c, v)
        /\ blocked' = [blocked EXCEPT ![Own(k)] = Unblocked(blocked[Own(k)], k.token)]
    BY <1>k, <1>2 DEF PutDone, Own
  <1>4. Moves /\ page' \in Pages /\ store' = store /\ mixed' = mixed
    BY <1>3, MovesNot DEF Return, Typed
  <1>5. v \in Versions \cup {None} /\ (v = None \/ saved[Identity] <= v)
    <2>1. CASE Current(c)
      <3>1. k.context.epoch = page.epoch
        BY <1>k, <2>1, CurrentFields DEF Typed
      <3> QED BY <1>1, <1>2, <2>1, <3>1, CallFields DEF Loaded, Given
    <2>2. CASE ~ Current(c)
      BY <1>2, <2>2
    <2> QED BY <2>1, <2>2
  <1>6. /\ blocked' \in [Identities -> Calls \cup {None}]
        /\ \A i \in Identities \ {Own(k)} : blocked'[i] = blocked[i]
        /\ \/ blocked'[Own(k)] = blocked[Own(k)]
           \/ blocked'[Own(k)] = None /\ blocked[Own(k)] = k.token
    <2>1. Unblocked(blocked[Own(k)], k.token) \in Calls \cup {None}
      BY <1>1 DEF Unblocked, Typed
    <2> QED BY <1>1, <1>3, <2>1 DEF Unblocked, Typed
  <1>7. ASSUME NEW i \in Identities
        PROVE  \/ blocked'[i] = blocked[i]
               \/ blocked'[i] = None /\ (i \notin mixed' => Fine(store', saved, i))
    BY <1>1, <1>4, <1>6 DEF Written
  <1> QED BY <1>3, <1>4, <1>5, <1>6, <1>7, ReturnMoves

-----------------------------------------------------------------------------
(* The saves *)

LEMMA BeginSaveKeeps ==
    ASSUME Typed, CacheInv, NEW c \in Calls, BeginSave(c)
    PROVE  Typed' /\ CacheInv'
  <1>1. Moves /\ behind' = behind /\ blocked' = blocked
    BY MovesNot DEF BeginSave, ghosts
  <1>2. calls[c] \in CallRecords /\ calls[c].at # "done"
    BY DEF Typed, BeginSave
  <1>3. PICK y : y = [calls[c] EXCEPT !.kind = "save", !.at = "sent"]
    OBVIOUS
  <1>4. calls' = [calls EXCEPT ![c] = y]
    BY <1>3 DEF Typed, BeginSave
  <1>5. y \in CallRecords
    <2>1. "sent" \in Stages /\ "save" \in Kinds
      BY DEF Stages, Kinds, Requests
    <2> QED BY <1>2, <1>3, <2>1 DEF CallRecords
  <1>6. /\ y.at = "sent" /\ y.cached = calls[c].cached
        /\ y.context = calls[c].context /\ y.token = calls[c].token
    BY <1>2, <1>3, <1>5 DEF CallRecords
  <1>7. Sound(y)
    BY <1>1, <1>5, <1>6, QuietSound
  <1> QED BY <1>1, <1>2, <1>4, <1>7, OneCallMoves

LEMMA ServeSaveKeeps ==
    ASSUME Typed, CacheInv, NEW c \in Calls, ServeSave(c)
    PROVE  Typed' /\ CacheInv'
  <1>1. /\ UNCHANGED <<signed, store, page, blocked, sharing, saved, mixed, behind, out, crossed>>
        /\ calls[c] \in CallRecords /\ calls[c].kind = "save" /\ calls[c].at = "sent"
        /\ server \in Servers /\ server.version \in Nat
    BY Bounds DEF ServeSave, ghosts, Typed, At, Servers
  <1>2. "answered" \in Stages /\ "ok" \in Replies /\ "unknown" \in Replies
    BY DEF Stages, Replies
  <1>3. CASE /\ server.version < MaxVersion
             /\ server' = [server EXCEPT !.version = @ + 1]
             /\ calls' = [calls EXCEPT ![c].at = "answered", ![c].reply = "ok", ![c].found = server.version + 1]
    <2>1. server.version + 1 \in Versions
      BY <1>1, <1>3, BoundsAssumption DEF Versions
    <2>2. server' \in Servers /\ server'.version = server.version + 1
      BY <1>1, <1>3, <2>1 DEF Servers
    <2>3. Moves
      <3>1. page.epoch \in Nat
        BY DEF Typed, Pages
      <3> QED BY <1>1, <2>2, <3>1 DEF Moves, Typed
    <2>4. PICK v : v = server.version + 1
      OBVIOUS
    <2>5. PICK y : y = [calls[c] EXCEPT !.at = "answered", !.reply = "ok", !.found = v]
      OBVIOUS
    <2>6. calls' = [calls EXCEPT ![c] = y]
      BY <1>3, <2>4, <2>5 DEF Typed
    <2>7. y \in CallRecords
      BY <1>1, <1>2, <2>1, <2>4, <2>5 DEF CallRecords
    <2>8. /\ y.kind = "save" /\ y.at = "answered" /\ y.cached = calls[c].cached /\ y.found = v
          /\ y.context = calls[c].context /\ y.token = calls[c].token
      BY <1>1, <2>5, <2>7 DEF CallRecords
    <2>9. /\ Loaded(calls[c], page, saved, mixed) /\ Marks(calls[c].token, calls)
          /\ page' = page /\ mixed' = mixed
      BY <1>1 DEF CacheInv
    <2>10. Loaded(y, page', saved, mixed') /\ Written(y, store', blocked', saved, mixed')
      BY <2>8, <2>9 DEF Loaded, Given, Written, Own
    <2>11. Confirmed(y, server')
      BY <1>1, <2>1, <2>2, <2>4, <2>8, Bounds DEF Confirmed
    <2>12. Sound(y)
      BY <2>7, <2>8, <2>9, <2>10, <2>11 DEF Sound
    <2> QED BY <1>1, <2>3, <2>6, <2>12, OneCallMoves
  <1>4. CASE server' = server /\ calls' = [calls EXCEPT ![c].at = "answered", ![c].reply = "unknown"]
    <2>1. Moves
      BY <1>1, <1>4, MovesNot
    <2>2. PICK y : y = [calls[c] EXCEPT !.at = "answered", !.reply = "unknown"]
      OBVIOUS
    <2>3. calls' = [calls EXCEPT ![c] = y]
      BY <1>4, <2>2 DEF Typed
    <2>4. y \in CallRecords
      BY <1>1, <1>2, <2>2 DEF CallRecords
    <2>5. /\ y.reply = "unknown" /\ y.at = "answered" /\ y.cached = calls[c].cached
          /\ y.context = calls[c].context /\ y.token = calls[c].token
      BY <1>1, <2>2, <2>4 DEF CallRecords
    <2>6. Sound(y)
      BY <2>1, <2>4, <2>5, QuietSound
    <2> QED BY <1>1, <2>1, <2>3, <2>6, OneCallMoves
  <1> QED BY <1>3, <1>4 DEF ServeSave

\* The save is over, the loads under way are in vain, and the key is blocked by a token
\* that no call has.
LEMMA ConfirmKeeps ==
    ASSUME Typed, CacheInv, NEW c \in Calls, calls[c].kind = "save", calls[c].at = "answered",
           calls[c].reply = "ok", Invalidate(c), calls' = [calls EXCEPT ![c] = Over],
           saved' = [saved EXCEPT ![Identity] = IF @ < calls[c].found THEN calls[c].found ELSE @],
           mixed' = mixed \ {Identity}, UNCHANGED <<server, signed, sharing, behind, out, crossed>>
    PROVE  Typed' /\ CacheInv'
  <1>1. /\ Identity \in Identities /\ page.epoch \in Nat /\ calls[c] \in CallRecords
        /\ server.version \in Nat /\ saved[Identity] \in Nat
    BY PageFields, Bounds DEF Typed, Servers
  <1>2. page' = [page EXCEPT !.epoch = @ + 1] /\ blocked' = [blocked EXCEPT ![Identity] = c]
        /\ store' \in {store, [store EXCEPT ![Identity] = NoEntry]}
    BY DEF Invalidate, DeleteKey
  <1>3. page' \in Pages /\ page'.epoch = page.epoch + 1
    BY <1>1, <1>2 DEF Typed, Pages
  <1>4. PICK v : v = IF saved[Identity] < calls[c].found THEN calls[c].found ELSE saved[Identity]
    OBVIOUS
  <1>5. v \in Nat /\ v <= server.version
    <2>1. Confirmed(calls[c], server) /\ saved[Identity] <= server.version
      BY <1>1 DEF CacheInv
    <2>2. calls[c].found # None /\ calls[c].found <= server.version
      BY <2>1 DEF Confirmed
    <2>3. calls[c].found \in Nat
      BY <1>1, <2>2, CallFields, Bounds
    <2> QED BY <1>1, <1>4, <2>1, <2>2, <2>3
  <1>6. /\ saved' \in [Identities -> Nat] /\ saved'[Identity] = v
        /\ \A i \in Identities : i # Identity => saved'[i] = saved[i]
    BY <1>1, <1>4, <1>5 DEF Typed
  <1>7. /\ blocked' \in [Identities -> Calls \cup {None}] /\ blocked'[Identity] = c
        /\ \A i \in Identities : i # Identity => blocked'[i] = blocked[i]
    BY <1>1, <1>2 DEF Typed
  <1>8. /\ store' \in [Identities -> Entries]
        /\ \A i \in Identities : i # Identity => store'[i] = store[i]
    BY <1>1, <1>2, EntryFields DEF Typed
  <1>9. /\ calls' \in [Calls -> CallRecords] /\ calls'[c] = Over
        /\ \A d \in Calls : d # c => calls'[d] = calls[d]
        /\ \A d \in Calls : calls[d].at = "done" => calls'[d].at = "done"
    BY OverFields DEF Typed
  <1>10. Typed'
    BY <1>3, <1>6, <1>7, <1>8, <1>9 DEF Typed
  <1>11. ASSUME NEW n \in Calls \cup {None}, Marks(n, calls)
         PROVE  Marks(n, calls') /\ n # c
    BY <1>9, <1>11, Bounds DEF Marks
  <1>12. ASSUME NEW i \in Identities
         PROVE  /\ saved'[i] <= server'.version
                /\ Marks(blocked'[i], calls')
                /\ blocked'[i] = None /\ i \notin mixed' => Fine(store', saved', i)
    <2>1. CASE i = Identity
      <3>1. Marks(c, calls')
        BY <1>9, OverFields DEF Marks
      <3> QED BY <1>5, <1>6, <1>7, <2>1, <3>1, Bounds
    <2>2. CASE i # Identity
      <3>1. blocked[i] \in Calls \cup {None} /\ Marks(blocked[i], calls)
            /\ saved[i] <= server.version /\ (blocked[i] = None /\ i \notin mixed => Fine(store, saved, i))
        BY <1>12 DEF Typed, CacheInv
      <3>2. Fine(store, saved, i) => Fine(store', saved', i)
        BY <1>6, <1>8, <1>12, <2>2 DEF Fine
      <3> QED BY <1>6, <1>7, <1>11, <1>12, <2>2, <3>1, <3>2
    <2> QED BY <2>1, <2>2
  <1>13. ASSUME NEW d \in Calls
         PROVE  /\ Loaded(calls'[d], page', saved', mixed')
                /\ Written(calls'[d], store', blocked', saved', mixed')
                /\ Confirmed(calls'[d], server')
                /\ Marks(calls'[d].token, calls')
    <2>1. CASE d = c
      BY <1>3, <1>9, <2>1, OverSound
    <2>2. CASE d # c
      <3>k. PICK k : k = calls[d]
        OBVIOUS
      <3>1. /\ k \in CallRecords /\ k.context.epoch \in Nat /\ Own(k) \in Identities
            /\ k.token \in Calls \cup {None} /\ calls'[d] = k
        BY <1>9, <1>13, <2>2, <3>k, CallFields DEF Typed
      <3>2. /\ Loaded(k, page, saved, mixed) /\ Written(k, store, blocked, saved, mixed)
            /\ Confirmed(k, server) /\ Marks(k.token, calls)
        BY <3>k DEF CacheInv
      <3>3. k.context.epoch <= page'.epoch /\ k.context.epoch # page'.epoch
        BY <1>1, <1>3, <3>1, <3>2 DEF Loaded
      <3>4. Loaded(k, page', saved', mixed')
        BY <3>2, <3>3 DEF Loaded
      <3>5. Marks(k.token, calls') /\ k.token # c
        BY <1>11, <3>1, <3>2
      <3>6. Written(k, store', blocked', saved', mixed')
        <4>1. CASE Own(k) = Identity
          BY <1>7, <3>5, <4>1 DEF Written
        <4>2. CASE Own(k) # Identity
          BY <1>6, <1>7, <1>8, <3>1, <3>2, <4>2 DEF Written, Fine
        <4> QED BY <4>1, <4>2
      <3> QED BY <3>1, <3>2, <3>4, <3>5, <3>6
    <2> QED BY <2>1, <2>2
  <1> QED BY <1>10, <1>12, <1>13 DEF CacheInv

LEMMA AnswerSaveKeeps ==
    ASSUME Typed, CacheInv, NEW c \in Calls, AnswerSave(c)
    PROVE  Typed' /\ CacheInv'
  <1>1. /\ UNCHANGED <<server, signed, sharing, behind, out, crossed>> /\ At(c, "save", "answered")
        /\ calls' = [calls EXCEPT ![c] = Over]
    BY DEF AnswerSave
  <1>2. calls[c] \in CallRecords /\ calls[c].kind = "save" /\ calls[c].at = "answered"
    BY <1>1 DEF Typed, At
  <1>3. CASE UNCHANGED <<store, blocked, saved, mixed>> /\ page' \in {page, ShowLogin(page)}
    <2>1. page' \in Pages /\ page'.epoch = page.epoch
      BY <1>3, LoginFields DEF Typed
    <2>2. Moves
      <3>1. page.epoch \in Nat /\ server.version \in Nat
        BY Bounds DEF Typed, Pages, Servers
      <3> QED BY <1>1, <1>3, <2>1, <3>1 DEF Moves, Typed
    <2>3. Sound(Over)
      BY <2>1, OverSound, OverFields DEF Sound
    <2> QED BY <1>1, <1>2, <1>3, <2>2, <2>3, OneCallMoves
  <1>4. CASE /\ calls[c].reply = "ok" /\ Invalidate(c)
             /\ saved' = [saved EXCEPT ![Identity] = IF @ < calls[c].found THEN calls[c].found ELSE @]
             /\ mixed' = mixed \ {Identity}
    BY <1>1, <1>2, <1>4, ConfirmKeeps
  <1> QED BY <1>3, <1>4 DEF AnswerSave

-----------------------------------------------------------------------------
(* The session checks *)

\* A call that goes to look at the session, with its own check or that of another.
Looking(k, d, h) == [k EXCEPT !.at = "recover", !.of = d, !.check = h]

LEMMA LookFields ==
    ASSUME NEW k \in CallRecords, NEW d \in Calls, NEW h \in Checks, NEW y, y = Looking(k, d, h)
    PROVE  /\ y \in CallRecords /\ y.kind = k.kind /\ y.at = "recover" /\ y.context = k.context
           /\ y.cached = k.cached /\ y.token = k.token /\ y.reply = k.reply /\ y.check = h
  <1>1. "recover" \in Stages
    BY DEF Stages
  <1>2. y \in CallRecords
    BY <1>1 DEF Looking, CallRecords
  <1> QED BY <1>2 DEF Looking, CallRecords

NewCheck == [NoCheck EXCEPT !.state = "sent", !.generation = page.generation, !.transition = page.transition]

LEMMA NewCheckFields ==
    ASSUME page \in Pages
    PROVE  /\ NewCheck \in Checks /\ NewCheck.state = "sent" /\ NewCheck.transition = page.transition
           /\ NewCheck.member = None
  BY Bounds, PageFields DEF NewCheck, NoCheck, Checks, People

\* A call begins to look at the session, or joins the one that does.
LEMMA Checking ==
    ASSUME Typed, NEW c \in Calls, NEW k \in CallRecords, Check(c, k)
    PROVE  \E y : /\ calls' = [calls EXCEPT ![c] = y]
                  /\ y \in CallRecords /\ y.kind = k.kind /\ y.at = "recover" /\ y.context = k.context
                  /\ y.cached = k.cached /\ y.token = k.token /\ y.reply = k.reply
                  /\ (y.check = k.check /\ SharedCheck) \/ y.check = NewCheck
                  /\ sharing' \in Calls \cup {None}
                  /\ UNCHANGED <<server, signed, store, page, blocked, saved, mixed, behind, out>>
  <1>1. UNCHANGED <<server, signed, store, page, blocked, saved, mixed, behind, out>>
        /\ sharing' \in Calls \cup {None}
    BY DEF Check, Typed
  <1>2. CASE SharedCheck
    <2>1. sharing \in Calls
      BY <1>2 DEF SharedCheck, Typed
    <2>2. PICK y : y = Looking(k, sharing, k.check)
      OBVIOUS
    <2>3. calls' = [calls EXCEPT ![c] = y]
      <3>1. y = [k EXCEPT !.at = "recover", !.of = sharing]
        BY <2>2 DEF Looking, CallRecords
      <3> QED BY <1>2, <3>1 DEF Check
    <2>4. k.check \in Checks
      BY CallFields
    <2>5. /\ y \in CallRecords /\ y.kind = k.kind /\ y.at = "recover" /\ y.context = k.context
          /\ y.cached = k.cached /\ y.token = k.token /\ y.reply = k.reply /\ y.check = k.check
      BY <2>1, <2>2, <2>4, LookFields
    <2> QED BY <1>1, <1>2, <2>3, <2>5
  <1>3. CASE ~ SharedCheck
    <2>1. NewCheck \in Checks
      BY NewCheckFields DEF Typed
    <2>n. PICK h : h = NewCheck
      OBVIOUS
    <2>2. PICK y : y = Looking(k, c, h)
      OBVIOUS
    <2>3. calls' = [calls EXCEPT ![c] = y]
      BY <1>3, <2>n, <2>2 DEF Check, NewCheck, Looking
    <2>4. /\ y \in CallRecords /\ y.kind = k.kind /\ y.at = "recover" /\ y.context = k.context
          /\ y.cached = k.cached /\ y.token = k.token /\ y.reply = k.reply /\ y.check = h
      BY <2>1, <2>n, <2>2, LookFields
    <2> QED BY <1>1, <2>n, <2>3, <2>4
  <1> QED BY <1>2, <1>3

\* The two calls that look at the session.
SpentCall(k) == [k EXCEPT !.spent = TRUE]
VerifyCall(k) == [k EXCEPT !.kind = "verify"]

LEMMA LookingFields ==
    ASSUME NEW k \in CallRecords
    PROVE  /\ SpentCall(k) \in CallRecords /\ SpentCall(k).kind = k.kind
           /\ SpentCall(k).context = k.context /\ SpentCall(k).cached = k.cached
           /\ SpentCall(k).token = k.token /\ SpentCall(k).check = k.check /\ SpentCall(k).reply = k.reply
           /\ VerifyCall(k) \in CallRecords /\ VerifyCall(k).kind = "verify"
           /\ VerifyCall(k).context = k.context /\ VerifyCall(k).cached = k.cached
           /\ VerifyCall(k).token = k.token /\ VerifyCall(k).check = k.check
  <1>1. "verify" \in Kinds
    BY DEF Kinds, Requests
  <1>2. PICK x : x = SpentCall(k)
    OBVIOUS
  <1>3. PICK y : y = VerifyCall(k)
    OBVIOUS
  <1>4. x \in CallRecords /\ y \in CallRecords
    BY <1>1, <1>2, <1>3 DEF SpentCall, VerifyCall, CallRecords
  <1>5. x.kind = k.kind /\ x.context = k.context /\ x.cached = k.cached /\ x.token = k.token /\ x.check = k.check
        /\ x.reply = k.reply
    BY <1>2, <1>4 DEF SpentCall, CallRecords
  <1>6. y.kind = "verify" /\ y.context = k.context /\ y.cached = k.cached /\ y.token = k.token /\ y.check = k.check
    BY <1>3, <1>4 DEF VerifyCall, CallRecords
  <1> QED BY <1>2, <1>3, <1>4, <1>5, <1>6

LEMMA CheckKeeps ==
    ASSUME Typed, CacheInv, NEW c \in Calls, calls[c].at # "done",
           NEW k, (k = SpentCall(calls[c]) /\ calls[c].reply = "unknown") \/ k = VerifyCall(calls[c]),
           Check(c, k), crossed' \in BOOLEAN
    PROVE  Typed' /\ CacheInv'
  <1>1. /\ k \in CallRecords /\ k.context = calls[c].context /\ k.cached = calls[c].cached
        /\ k.token = calls[c].token /\ (k.kind = "verify" \/ k.reply = "unknown")
    BY LookingFields DEF Typed
  <1>2. PICK y : /\ calls' = [calls EXCEPT ![c] = y]
                 /\ y \in CallRecords /\ y.kind = k.kind /\ y.at = "recover" /\ y.context = k.context
                 /\ y.cached = k.cached /\ y.token = k.token /\ y.reply = k.reply
                 /\ sharing' \in Calls \cup {None}
                 /\ UNCHANGED <<server, signed, store, page, blocked, saved, mixed, behind, out>>
    BY <1>1, Checking
  <1>3. Moves
    <2>1. page.epoch \in Nat /\ server.version \in Nat
      BY Bounds DEF Typed, Pages, Servers
    <2> QED BY <1>2, <2>1 DEF Moves, Typed
  <1>4. Sound(y)
    BY <1>1, <1>2, <1>3, QuietSound
  <1> QED BY <1>2, <1>3, <1>4, OneCallMoves

LEMMA RecoverKeeps ==
    ASSUME Typed, CacheInv, NEW c \in Calls, Recover(c)
    PROVE  Typed' /\ CacheInv'
  <1>1. calls[c].at # "done" /\ calls[c].reply = "unknown" /\ Check(c, SpentCall(calls[c]))
        /\ crossed' \in BOOLEAN
    BY DEF Recover, SpentCall, Typed
  <1> QED BY <1>1, CheckKeeps

LEMMA BeginVerifyKeeps ==
    ASSUME Typed, CacheInv, NEW c \in Calls, BeginVerify(c)
    PROVE  Typed' /\ CacheInv'
  <1>1. calls[c].at # "done" /\ Check(c, VerifyCall(calls[c])) /\ crossed' \in BOOLEAN
    BY DEF BeginVerify, VerifyCall, Typed
  <1> QED BY <1>1, CheckKeeps

\* The answer to a check.
CheckAnswered(h) ==
    [h EXCEPT !.state = "answered", !.member = server.holder, !.since = server.generation]
CheckLost(h) == [h EXCEPT !.state = "lost"]

LEMMA CheckServed ==
    ASSUME Typed, NEW h \in Checks
    PROVE  /\ CheckAnswered(h) \in Checks /\ CheckAnswered(h).state = "answered"
           /\ CheckAnswered(h).member = server.holder /\ CheckAnswered(h).transition = h.transition
           /\ CheckLost(h) \in Checks /\ CheckLost(h).state = "lost" /\ CheckLost(h).transition = h.transition
  <1>1. server.holder \in People /\ server.generation \in Generations
    BY DEF Typed, Servers
  <1>2. PICK x : x = CheckAnswered(h)
    OBVIOUS
  <1>3. PICK y : y = CheckLost(h)
    OBVIOUS
  <1>4. x \in Checks /\ y \in Checks
    BY <1>1, <1>2, <1>3 DEF CheckAnswered, CheckLost, Checks
  <1>5. x.state = "answered" /\ x.member = server.holder /\ x.transition = h.transition
    BY <1>2, <1>4 DEF CheckAnswered, Checks
  <1>6. y.state = "lost" /\ y.transition = h.transition
    BY <1>3, <1>4 DEF CheckLost, Checks
  <1> QED BY <1>2, <1>3, <1>4, <1>5, <1>6

LEMMA Checked ==
    ASSUME NEW k \in CallRecords, NEW h \in Checks, NEW y, y = [k EXCEPT !.check = h]
    PROVE  /\ y \in CallRecords /\ y.kind = k.kind /\ y.at = k.at /\ y.context = k.context
           /\ y.cached = k.cached /\ y.token = k.token /\ y.found = k.found /\ y.reply = k.reply /\ y.check = h
  <1>1. y \in CallRecords
    BY DEF CallRecords
  <1> QED BY <1>1 DEF CallRecords

\* What ServeCheck does to the call.
LEMMA Serving ==
    ASSUME Typed, NEW c \in Calls, ServeCheck(c)
    PROVE  \E h \in Checks, y \in CallRecords :
             /\ h \in {CheckAnswered(calls[c].check), CheckLost(calls[c].check)}
             /\ calls' = [calls EXCEPT ![c] = y] /\ y.kind = calls[c].kind /\ y.at = calls[c].at
             /\ y.context = calls[c].context /\ y.cached = calls[c].cached /\ y.token = calls[c].token
             /\ y.found = calls[c].found /\ y.reply = calls[c].reply /\ y.check = h
  <1>k. PICK k : k = calls[c]
    OBVIOUS
  <1>1. k \in CallRecords /\ k.check \in Checks
    BY <1>k, CallFields DEF Typed
  <1>2. PICK h \in {CheckAnswered(k.check), CheckLost(k.check)} : calls' = [calls EXCEPT ![c] = [k EXCEPT !.check = h]]
    <2>1. CASE calls' = [calls EXCEPT ![c].check.state = "answered", ![c].check.member = server.holder,
                                      ![c].check.since = server.generation]
      <3>1. calls' = [calls EXCEPT ![c] = [k EXCEPT !.check = CheckAnswered(k.check)]]
        BY <1>k, <1>1, <2>1 DEF CheckAnswered, Typed, CallRecords
      <3> QED BY <3>1
    <2>2. CASE calls' = [calls EXCEPT ![c].check.state = "lost"]
      <3>1. calls' = [calls EXCEPT ![c] = [k EXCEPT !.check = CheckLost(k.check)]]
        BY <1>k, <1>1, <2>2 DEF CheckLost, Typed, CallRecords
      <3> QED BY <3>1
    <2> QED BY <2>1, <2>2 DEF ServeCheck
  <1>3. h \in Checks
    BY <1>1, <1>2, CheckServed
  <1>4. PICK y : y = [k EXCEPT !.check = h]
    OBVIOUS
  <1>5. /\ y \in CallRecords /\ y.kind = k.kind /\ y.at = k.at /\ y.context = k.context
        /\ y.cached = k.cached /\ y.token = k.token /\ y.found = k.found /\ y.reply = k.reply /\ y.check = h
    BY <1>1, <1>3, <1>4, Checked
  <1> QED BY <1>k, <1>2, <1>3, <1>4, <1>5

\* A call that differs in nothing the cache depends on is as sound.
LEMMA LikeSound ==
    ASSUME Typed, CacheInv, Moves, blocked' = blocked, NEW c \in Calls, NEW y \in CallRecords,
           y.kind = calls[c].kind, y.at = calls[c].at, y.context = calls[c].context, y.cached = calls[c].cached,
           y.token = calls[c].token, y.found = calls[c].found, y.reply = calls[c].reply
    PROVE  Sound(y)
  <1>1. Sound(calls[c])
    BY AsideSound
  <1>2. Own(y) = Own(calls[c]) /\ Given(y) = Given(calls[c])
    BY DEF Own, Given
  <1> QED BY <1>1, <1>2 DEF Sound, Loaded, Written, Confirmed

LEMMA ServeCheckKeeps ==
    ASSUME Typed, CacheInv, NEW c \in Calls, ServeCheck(c)
    PROVE  Typed' /\ CacheInv'
  <1>1. Moves /\ behind' = behind /\ blocked' = blocked
    BY MovesNot DEF ServeCheck, ghosts
  <1>2. PICK y \in CallRecords :
             /\ calls' = [calls EXCEPT ![c] = y] /\ y.kind = calls[c].kind /\ y.at = calls[c].at
             /\ y.context = calls[c].context /\ y.cached = calls[c].cached /\ y.token = calls[c].token
             /\ y.found = calls[c].found /\ y.reply = calls[c].reply
    BY Serving
  <1>3. Sound(y)
    BY <1>1, <1>2, LikeSound
  <1>4. ASSUME NEW d \in Calls
        PROVE  Sound(calls'[d]) /\ (calls[d].at = "done" => calls'[d].at = "done")
    <2>1. CASE d = c
      BY <1>2, <1>3, <2>1 DEF Typed
    <2>2. CASE d # c
      BY <1>1, <1>2, <1>4, <2>2, AsideSound DEF Typed
    <2> QED BY <2>1, <2>2
  <1>5. calls' = [d \in Calls |-> calls'[d]]
    BY <1>2 DEF Typed
  <1>6. behind' = FALSE /\ blocked' \in [Identities -> Calls \cup {None}]
    BY <1>1 DEF Typed, CacheInv
  <1> QED BY <1>1, <1>4, <1>5, <1>6, CacheMoves

\* The page after a check, a sign-in and a sign-out.
LEMMA PageMoves ==
    ASSUME page \in Pages, NEW h \in Checks
    PROVE  /\ Applied(h) \in Pages /\ Applied(h).epoch = page.epoch
           /\ Applied(h).transition = page.transition /\ Applied(h).member = h.member
           /\ Advanced \in Pages /\ Advanced.epoch = page.epoch
           /\ Advanced.transition = page.transition + 1 /\ Advanced.member = page.member
           /\ Cleared \in Pages /\ Cleared.epoch = page.epoch + 1
           /\ Cleared.transition = page.transition + 1 /\ Cleared.member = None
  <1>1. h.member \in People /\ h.since \in Generations /\ page.transition \in Nat /\ page.epoch \in Nat
        /\ 0 \in Generations /\ None \in People
    BY Bounds DEF Checks, Pages, People
  <1>2. PICK x : x = Applied(h)
    OBVIOUS
  <1>3. PICK y : y = Advanced
    OBVIOUS
  <1>4. PICK z : z = Cleared
    OBVIOUS
  <1>5. x \in Pages /\ x.epoch = page.epoch /\ x.transition = page.transition /\ x.member = h.member
    BY <1>1, <1>2 DEF Applied, Pages
  <1>6. y \in Pages /\ y.epoch = page.epoch /\ y.transition = page.transition + 1 /\ y.member = page.member
    BY <1>1, <1>3 DEF Advanced, Pages
  <1>7. z \in Pages /\ z.epoch = page.epoch + 1 /\ z.transition = page.transition + 1 /\ z.member = None
    <2>1. PICK n \in Nat : n = page.epoch + 1
      BY <1>1
    <2>2. z = [y EXCEPT !.member = None, !.generation = 0, !.epoch = n]
      BY <1>3, <1>4, <1>6, <2>1 DEF Cleared
    <2>3. z \in Pages
      BY <1>1, <1>6, <2>2 DEF Pages
    <2>4. z.epoch = n /\ z.transition = y.transition /\ z.member = None
      BY <1>6, <2>2 DEF Pages
    <2> QED BY <1>6, <2>1, <2>3, <2>4
  <1> QED BY <1>2, <1>3, <1>4, <1>5, <1>6, <1>7

\* A call that goes on after a check.
LEMMA ResumedFields ==
    ASSUME Typed, NEW d \in Calls, NEW found \in BOOLEAN
    PROVE  /\ Resumed(d, found) \in CallRecords /\ Resumed(d, found).kind = calls[d].kind
           /\ Resumed(d, found).context = calls[d].context /\ Resumed(d, found).cached = calls[d].cached
           /\ Resumed(d, found).token = calls[d].token /\ Resumed(d, found).check = NoCheck
           /\ Resumed(d, found).at \in {"sent", "answered"}
           /\ Resumed(d, found).at = "answered" => Resumed(d, found).reply = calls[d].reply
  <1>k. PICK k : k = calls[d]
    OBVIOUS
  <1>1. /\ k \in CallRecords /\ NoCheck \in Checks /\ "sent" \in Stages /\ "answered" \in Stages
        /\ None \in Replies
    BY <1>k, IdleFields DEF Typed, Stages, Replies
  <1>h. PICK h : h = NoCheck
    OBVIOUS
  <1>2. PICK y : y = Resumed(d, found)
    OBVIOUS
  <1>3. CASE found
    <2>1. y = [k EXCEPT !.of = None, !.check = h, !.at = "sent", !.reply = None]
      BY <1>k, <1>h, <1>2, <1>3 DEF Resumed
    <2>2. y \in CallRecords
      BY <1>1, <1>h, <2>1 DEF CallRecords
    <2>3. /\ y.kind = k.kind /\ y.context = k.context /\ y.cached = k.cached /\ y.token = k.token
          /\ y.check = h /\ y.at = "sent" /\ y.reply = None
      BY <1>1, <2>1, <2>2 DEF CallRecords
    <2> QED BY <1>k, <1>h, <1>2, <2>2, <2>3
  <1>4. CASE ~ found
    <2>1. y = [k EXCEPT !.of = None, !.check = h, !.at = "answered"]
      BY <1>k, <1>h, <1>2, <1>4 DEF Resumed
    <2>2. y \in CallRecords
      BY <1>1, <1>h, <2>1 DEF CallRecords
    <2>3. /\ y.kind = k.kind /\ y.context = k.context /\ y.cached = k.cached /\ y.token = k.token
          /\ y.check = h /\ y.at = "answered" /\ y.reply = k.reply
      BY <1>1, <2>1, <2>2 DEF CallRecords
    <2> QED BY <1>k, <1>h, <1>2, <2>2, <2>3
  <1> QED BY <1>3, <1>4

\* What the end of a check does to the page and to the calls that wait for it.
LEMMA Finishing ==
    ASSUME Typed, NEW c \in Calls, CheckDone(c)
    PROVE  \E found, lost \in BOOLEAN :
             /\ found \/ lost => CheckIsCurrent(calls[c].check) /\ calls[c].check.state = "answered"
             /\ found => calls[c].check.member # None /\ ~ lost
             /\ page' \in Pages /\ page.epoch <= page'.epoch /\ page.transition <= page'.transition
             /\ ~ found => page'.member \in {None, page.member}
             /\ signed' = (found \/ (signed /\ ~ lost))
             /\ sharing' \in Calls \cup {None} /\ UNCHANGED <<server, store, blocked, ghosts>>
             /\ calls' = [d \in Calls |-> calls'[d]]
             /\ \A d \in Calls :
                  \/ calls'[d] = calls[d]
                  \/ calls[d].at = "recover" /\ calls'[d] = Over
                  \/ calls[d].at = "recover" /\ calls[d].kind # "verify" /\ calls'[d] = Resumed(d, found)
  <1> DEFINE told == CheckIsCurrent(calls[c].check) /\ calls[c].check.state = "answered"
             found == told /\ calls[c].check.member # None
             lost == told /\ calls[c].check.member = None
             next == IF found THEN Applied(calls[c].check) ELSE IF lost THEN Cleared ELSE page
  <1>h. PICK h : h = calls[c].check
    OBVIOUS
  <1>1. h \in Checks /\ page \in Pages /\ page.epoch \in Nat /\ page.transition \in Nat
    BY <1>h, CallFields, PageFields DEF Typed
  <1>2. /\ Applied(h) \in Pages /\ Applied(h).epoch = page.epoch
        /\ Applied(h).transition = page.transition
        /\ Cleared \in Pages /\ Cleared.epoch = page.epoch + 1
        /\ Cleared.transition = page.transition + 1 /\ Cleared.member = None
    BY <1>1, PageMoves
  <1>3. /\ next \in Pages /\ page.epoch <= next.epoch /\ page.transition <= next.transition
        /\ ~ found => next.member \in {None, page.member}
    BY <1>h, <1>1, <1>2
  <1>4. page' \in {next, ShowLogin(next)}
    BY DEF CheckDone
  <1>5. /\ page' \in Pages /\ page.epoch <= page'.epoch /\ page.transition <= page'.transition
        /\ ~ found => page'.member \in {None, page.member}
    <2> HIDE DEF next, found
    <2> QED BY <1>3, <1>4, LoginFields
  <1>6. /\ signed' = (found \/ (signed /\ ~ lost)) /\ UNCHANGED <<server, store, blocked, ghosts>>
        /\ sharing' \in Calls \cup {None}
    BY DEF CheckDone, Typed
  <1>7. /\ calls' = [d \in Calls |-> calls'[d]]
        /\ \A d \in Calls :
             \/ calls'[d] = calls[d]
             \/ calls[d].at = "recover" /\ calls'[d] = Over
             \/ calls[d].at = "recover" /\ calls[d].kind # "verify" /\ calls'[d] = Resumed(d, found)
    <2> DEFINE waiting == {d \in Calls : calls[d].at = "recover" /\ calls[d].of = c}
    <2>1. calls' = [d \in Calls |-> IF d \notin waiting THEN calls[d]
                                     ELSE IF calls[d].kind = "verify" THEN Over ELSE Resumed(d, found)]
      BY DEF CheckDone
    <2> HIDE DEF found
    <2> QED BY <2>1
  <1>8. found \in BOOLEAN /\ lost \in BOOLEAN
    OBVIOUS
  <1>9. /\ found \/ lost => CheckIsCurrent(calls[c].check) /\ calls[c].check.state = "answered"
        /\ found => calls[c].check.member # None /\ ~ lost
    OBVIOUS
  <1> HIDE DEF found, lost
  <1> QED BY <1>5, <1>6, <1>7, <1>8, <1>9

LEMMA CheckDoneKeeps ==
    ASSUME Typed, CacheInv, NEW c \in Calls, CheckDone(c)
    PROVE  Typed' /\ CacheInv'
  <1>1. PICK found, lost \in BOOLEAN :
             /\ page' \in Pages /\ page.epoch <= page'.epoch
             /\ signed' = (found \/ (signed /\ ~ lost))
             /\ sharing' \in Calls \cup {None} /\ UNCHANGED <<server, store, blocked, ghosts>>
             /\ calls' = [d \in Calls |-> calls'[d]]
             /\ \A d \in Calls :
                  \/ calls'[d] = calls[d]
                  \/ calls[d].at = "recover" /\ calls'[d] = Over
                  \/ calls[d].at = "recover" /\ calls[d].kind # "verify" /\ calls'[d] = Resumed(d, found)
    BY Finishing
  <1>2. Moves /\ blocked' = blocked /\ behind' = FALSE
    <2>1. server.version \in Nat
      BY Bounds DEF Typed, Servers
    <2> QED BY <1>1, <2>1 DEF Moves, Typed, ghosts, CacheInv
  <1>3. ASSUME NEW d \in Calls
        PROVE  Sound(calls'[d]) /\ (calls[d].at = "done" => calls'[d].at = "done")
    <2>1. CASE calls'[d] = calls[d]
      BY <1>2, <1>3, <2>1, AsideSound
    <2>2. CASE calls[d].at = "recover" /\ calls'[d] = Over
      <3>1. Sound(Over)
        BY <1>1, OverSound, OverFields DEF Sound
      <3> QED BY <2>2, <3>1, OverFields
    <2>3. CASE calls[d].at = "recover" /\ calls[d].kind # "verify" /\ calls'[d] = Resumed(d, found)
      <3>1. calls[d].reply = "unknown"
        BY <2>3 DEF CacheInv, Confirmed
      <3>2. PICK y : y = Resumed(d, found)
        OBVIOUS
      <3>3. /\ y \in CallRecords /\ y.context = calls[d].context /\ y.cached = calls[d].cached
            /\ y.token = calls[d].token /\ y.at \in {"sent", "answered"}
            /\ y.at = "answered" => y.reply = "unknown"
        BY <3>1, <3>2, ResumedFields
      <3>4. Sound(y)
        BY <1>2, <3>3, QuietSound
      <3> QED BY <2>3, <3>2, <3>4
    <2> QED BY <1>1, <1>3, <2>1, <2>2, <2>3
  <1>4. blocked' \in [Identities -> Calls \cup {None}]
    BY <1>2 DEF Typed
  <1> QED BY <1>1, <1>2, <1>3, <1>4, CacheMoves

-----------------------------------------------------------------------------
(* Sign-out, sign-in and the rest *)

\* A call of the sign-in or sign-out, which has no list.
LEMMA SignCallMoves ==
    ASSUME Typed, CacheInv, Moves, UNCHANGED <<blocked, behind>>, NEW c \in Calls, calls[c].at # "done",
           NEW y \in CallRecords, calls' = [calls EXCEPT ![c] = y],
           y.context = calls[c].context, y.cached = calls[c].cached, y.token = calls[c].token,
           y.at \in {"leaving", "sent"} \/ (y.at = "answered" /\ y.kind = "login")
    PROVE  Typed' /\ CacheInv'
  <1>1. Sound(y)
    BY QuietSound
  <1> QED BY <1>1, OneCallMoves

LEMMA BeginLogoutKeeps ==
    ASSUME Typed, CacheInv, NEW c \in Calls, BeginLogout(c)
    PROVE  Typed' /\ CacheInv'
  <1>1. /\ Advanced \in Pages /\ Advanced.epoch = page.epoch /\ page.epoch \in Nat /\ server.version \in Nat
    BY PageMoves, IdleFields, PageFields, Bounds DEF Typed, Servers
  <1>2. Moves /\ UNCHANGED <<blocked, behind>>
    BY <1>1 DEF BeginLogout, Moves, Typed, ghosts
  <1>3. calls[c] \in CallRecords /\ "logout" \in Kinds /\ "leaving" \in Stages
    BY DEF Typed, Kinds, Requests, Stages
  <1>4. PICK y : y = [calls[c] EXCEPT !.kind = "logout", !.at = "leaving"]
    OBVIOUS
  <1>5. y \in CallRecords /\ calls' = [calls EXCEPT ![c] = y]
    BY <1>3, <1>4 DEF BeginLogout, CallRecords, Typed
  <1>6. y.context = calls[c].context /\ y.cached = calls[c].cached /\ y.token = calls[c].token /\ y.at = "leaving"
    BY <1>3, <1>4, <1>5 DEF CallRecords
  <1>7. calls[c].at # "done"
    BY DEF BeginLogout
  <1> QED BY <1>2, <1>5, <1>6, <1>7, SignCallMoves

LEMMA EndLogoutKeeps ==
    ASSUME Typed, CacheInv, NEW c \in Calls, EndLogout(c)
    PROVE  Typed' /\ CacheInv'
  <1>1. PICK q : q = [page EXCEPT !.member = None]
    OBVIOUS
  <1>2. q \in Pages /\ q.epoch = page.epoch /\ page.epoch \in Nat /\ server.version \in Nat
    BY <1>1, Bounds DEF Typed, Pages, Servers, People
  <1>3. page' \in Pages /\ page'.epoch = page.epoch
    BY <1>1, <1>2, LoginFields DEF EndLogout
  <1>4. Moves /\ UNCHANGED <<blocked, behind>>
    <2>1. out' \in BOOLEAN /\ crossed' \in BOOLEAN /\ signed' \in BOOLEAN
      BY DEF EndLogout, Typed
    <2>2. UNCHANGED <<server, store, blocked, sharing, saved, mixed, behind>>
      BY DEF EndLogout
    <2> QED BY <1>2, <1>3, <2>1, <2>2 DEF Moves, Typed
  <1>5. Sound(Over)
    BY <1>3, OverSound, OverFields DEF Sound
  <1>6. calls[c].at # "done" /\ calls' = [calls EXCEPT ![c] = Over]
    BY DEF EndLogout, At
  <1> QED BY <1>4, <1>5, <1>6, OneCallMoves

LEMMA BeginLoginKeeps ==
    ASSUME Typed, CacheInv, NEW c \in Calls, NEW m \in Members, BeginLogin(c, m)
    PROVE  Typed' /\ CacheInv'
  <1>1. /\ Advanced \in Pages /\ Advanced.epoch = page.epoch /\ page.epoch \in Nat /\ server.version \in Nat
    BY PageMoves, IdleFields, PageFields, Bounds DEF Typed, Servers
  <1>2. Moves /\ UNCHANGED <<blocked, behind>>
    <2>1. out' \in BOOLEAN /\ crossed' \in BOOLEAN /\ signed' \in BOOLEAN
      BY DEF BeginLogin, Typed
    <2>2. UNCHANGED <<server, store, blocked, saved, mixed, behind>> /\ sharing' = None /\ page' = Advanced
      BY DEF BeginLogin
    <2> QED BY <1>1, <2>1, <2>2 DEF Moves, Typed
  <1>3. calls[c] \in CallRecords /\ "login" \in Kinds /\ "sent" \in Stages /\ m \in People
    BY DEF Typed, Kinds, Requests, Stages, People
  <1>4. PICK y : y = [calls[c] EXCEPT !.kind = "login", !.at = "sent", !.member = m]
    OBVIOUS
  <1>5. y \in CallRecords /\ calls' = [calls EXCEPT ![c] = y]
    BY <1>3, <1>4 DEF BeginLogin, CallRecords, Typed
  <1>6. y.context = calls[c].context /\ y.cached = calls[c].cached /\ y.token = calls[c].token /\ y.at = "sent"
    BY <1>3, <1>4, <1>5 DEF CallRecords
  <1>7. calls[c].at # "done"
    BY DEF BeginLogin
  <1> QED BY <1>2, <1>5, <1>6, <1>7, SignCallMoves

LEMMA ServeLoginKeeps ==
    ASSUME Typed, CacheInv, NEW c \in Calls, ServeLogin(c)
    PROVE  Typed' /\ CacheInv'
  <1>1. /\ calls[c] \in CallRecords /\ calls[c].kind = "login" /\ calls[c].at # "done"
        /\ "answered" \in Stages /\ {"ok", "unknown"} \subseteq Replies
    BY DEF Typed, ServeLogin, At, Stages, Replies
  <1>2. server' \in Servers /\ server.version <= server'.version
    <2>1. /\ server \in Servers /\ server.version \in Nat /\ calls[c].member \in People
      BY <1>1, CallFields, Bounds DEF Typed, Servers
    <2>2. CASE server' = server
      BY <2>1, <2>2
    <2>3. CASE server' # server
      <3>1. /\ server.generation < MaxGeneration
            /\ server' = [server EXCEPT !.holder = calls[c].member, !.generation = server.generation + 1]
        BY <2>3 DEF ServeLogin
      <3>2. PICK g \in Generations : g = server.generation + 1
        BY <2>1, <3>1, BoundsAssumption DEF Generations, Servers
      <3>3. PICK m \in People : m = calls[c].member
        BY <2>1
      <3>4. server' = [server EXCEPT !.holder = m, !.generation = g]
        BY <3>1, <3>2, <3>3
      <3>5. server' \in Servers
        BY <2>1, <3>4 DEF Servers
      <3>6. server'.version = server.version
        BY <2>1, <3>4 DEF Servers
      <3> QED BY <2>1, <3>5, <3>6
    <2> QED BY <2>2, <2>3
  <1>3. Moves /\ UNCHANGED <<blocked, behind>>
    <2>1. page.epoch \in Nat
      BY DEF Typed, Pages
    <2> QED BY <1>2, <2>1 DEF ServeLogin, Moves, Typed, ghosts
  <1>4. PICK o \in {"ok", "unknown"} : calls' = [calls EXCEPT ![c].at = "answered", ![c].reply = o]
    BY DEF ServeLogin
  <1>5. PICK y : y = [calls[c] EXCEPT !.at = "answered", !.reply = o]
    OBVIOUS
  <1>6. y \in CallRecords /\ calls' = [calls EXCEPT ![c] = y]
    BY <1>1, <1>4, <1>5 DEF CallRecords, Typed
  <1>7. y.context = calls[c].context /\ y.cached = calls[c].cached /\ y.token = calls[c].token
        /\ y.at = "answered" /\ y.kind = "login"
    BY <1>1, <1>5, <1>6 DEF CallRecords
  <1> QED BY <1>1, <1>3, <1>6, <1>7, SignCallMoves

LEMMA AnswerLoginKeeps ==
    ASSUME Typed, CacheInv, NEW c \in Calls, AnswerLogin(c)
    PROVE  Typed' /\ CacheInv'
  <1>1. calls[c] \in CallRecords /\ calls[c].at # "done" /\ calls[c].member \in People
    BY CallFields DEF Typed, AnswerLogin, At
  <1>2. page' \in Pages /\ page'.epoch = page.epoch /\ page.epoch \in Nat /\ server.version \in Nat
    BY <1>1, Bounds DEF AnswerLogin, Typed, Pages, Servers
  <1>3. Moves /\ UNCHANGED <<blocked, behind>> /\ calls' = [calls EXCEPT ![c] = Over]
    <2>1. out' \in BOOLEAN /\ crossed' \in BOOLEAN /\ signed' \in BOOLEAN
      BY DEF AnswerLogin, Typed, ghosts
    <2>2. /\ UNCHANGED <<server, store, blocked, sharing, saved, mixed, behind>>
          /\ calls' = [calls EXCEPT ![c] = Over]
      BY DEF AnswerLogin, ghosts
    <2> QED BY <1>2, <2>1, <2>2 DEF Moves, Typed
  <1>4. Sound(Over)
    BY <1>2, OverSound, OverFields DEF Sound
  <1> QED BY <1>1, <1>3, <1>4, OneCallMoves

\* Entries that age, are cleaned, or come from another tab.
LEMMA StoreKeeps ==
    ASSUME Typed, CacheInv,
           \/ \E i \in Identities : Age(i) \/ Clean(i)
           \/ \E v \in Versions : OtherPut(v)
    PROVE  Typed' /\ CacheInv'
  <1>1. /\ UNCHANGED <<server, signed, page, blocked, sharing, calls, saved, behind, out, crossed>>
        /\ page.epoch \in Nat /\ server.version \in Nat
    BY Bounds DEF Age, Clean, OtherPut, Typed, Servers, Pages, ghosts
  <1> DEFINE S == /\ mixed \subseteq mixed' /\ mixed' \subseteq Identities
                  /\ store' \in [Identities -> Entries]
                  /\ \A j \in Identities : store'[j].version \in {None, store[j].version} \/ j \in mixed'
  <1>2. S
    <2>1. ASSUME NEW i \in Identities, Age(i)
          PROVE  S
      <3>1. store[i] \in Entries /\ store[i].fresh
        BY <2>1 DEF Age, Typed
      <3>2. PICK e : e = [store[i] EXCEPT !.fresh = FALSE]
        OBVIOUS
      <3>3. e \in Entries /\ e.version = store[i].version
        BY <3>1, <3>2, AgedFields
      <3>4. store' = [store EXCEPT ![i] = e] /\ mixed' = mixed
        BY <2>1, <3>2 DEF Age, ghosts, Typed
      <3> QED BY <3>3, <3>4 DEF Typed
    <2>2. ASSUME NEW i \in Identities, Clean(i)
          PROVE  S
      BY <2>2, EntryFields DEF Clean, ghosts, Typed
    <2>3. ASSUME NEW v \in Versions, OtherPut(v)
          PROVE  S
      <3>1. PICK i \in Identities : i = Identity
        BY PageFields DEF Typed
      <3>2. PICK e \in Entries : e = [version |-> v, fresh |-> TRUE]
        BY EntryFields
      <3>3. store' = [store EXCEPT ![i] = e] /\ mixed' = mixed \cup {i}
        BY <2>3, <3>1, <3>2 DEF OtherPut
      <3> QED BY <3>3 DEF Typed
    <2> QED BY <2>1, <2>2, <2>3
  <1>3. Moves
    BY <1>1, <1>2 DEF Moves, Typed
  <1> QED BY <1>1, <1>3, NoCallMoves

LEMMA OthersKeep ==
    ASSUME Typed, CacheInv, OtherSignOut \/ OtherChange \/ Revoke
    PROVE  Typed' /\ CacheInv'
  <1>1. UNCHANGED <<store, blocked, calls, ghosts>>
    BY DEF OtherSignOut, OtherChange, Revoke
  <1>2. /\ page.epoch \in Nat /\ server.version \in Nat /\ server.version \in Versions
        /\ Advanced \in Pages /\ Advanced.epoch = page.epoch
    BY PageMoves, IdleFields, Bounds DEF Typed, Servers, Pages
  <1>3. server' \in Servers /\ server.version <= server'.version
    <2>1. CASE server' = server
      BY <1>2, <2>1 DEF Typed
    <2>2. CASE OtherChange
      <3>1. server.version + 1 \in Versions
        BY <1>2, <2>2, BoundsAssumption DEF OtherChange, Versions
      <3> QED BY <1>2, <2>2, <3>1 DEF OtherChange, Typed, Servers
    <2>3. CASE Revoke
      BY <1>2, <2>3 DEF Revoke, Typed, Servers, People
    <2> QED BY <2>1, <2>2, <2>3 DEF OtherSignOut
  <1>4. Moves
    <2>1. out' \in BOOLEAN /\ crossed' \in BOOLEAN /\ signed' \in BOOLEAN
      BY <1>1 DEF OtherSignOut, OtherChange, Revoke, Typed, ghosts
    <2>2. sharing' \in Calls \cup {None} /\ page' \in {page, Advanced}
      BY DEF OtherSignOut, OtherChange, Revoke, Typed
    <2> QED BY <1>1, <1>2, <1>3, <2>1, <2>2 DEF Moves, Typed, ghosts
  <1> QED BY <1>1, <1>4, NoCallMoves DEF ghosts

LEMMA CacheInit == Init => Typed /\ CacheInv
  <1> SUFFICES ASSUME Init PROVE Typed /\ CacheInv
    OBVIOUS
  <1>1. PICK m \in Members, e \in {NoEntry} \cup [version : {0}, fresh : BOOLEAN] :
          /\ server = [version |-> 0, holder |-> m, generation |-> 1]
          /\ page = [member |-> m, generation |-> 1, transition |-> 0, epoch |-> 0, login |-> FALSE]
          /\ store = [i \in Identities |-> IF i = Identity THEN e ELSE NoEntry]
    BY DEF Init
  <1>2. /\ signed = TRUE /\ blocked = [i \in Identities |-> None] /\ sharing = None
        /\ calls = [c \in Calls |-> Idle] /\ saved = [i \in Identities |-> 0] /\ mixed = {}
        /\ behind = FALSE /\ out = FALSE /\ crossed = FALSE
    BY DEF Init
  <1>3. m \in People /\ server \in Servers /\ page \in Pages /\ page.epoch = 0 /\ server.version = 0
    BY <1>1, Bounds DEF People, Servers, Pages
  <1>4. e \in Entries /\ e.version \in {None, 0}
    BY EntryFields, Bounds DEF Entries
  <1>5. store \in [Identities -> Entries] /\ \A i \in Identities : store[i].version \in {None, 0}
    BY <1>1, <1>4, EntryFields
  <1>6. Typed
    BY <1>2, <1>3, <1>5, IdleFields DEF Typed
  <1>7. ASSUME NEW i \in Identities
        PROVE  /\ saved[i] <= server.version /\ Marks(blocked[i], calls)
               /\ blocked[i] = None /\ i \notin mixed => Fine(store, saved, i)
    BY <1>2, <1>3, <1>5 DEF Marks, Fine
  <1>8. ASSUME NEW c \in Calls
        PROVE  /\ Loaded(calls[c], page, saved, mixed) /\ Written(calls[c], store, blocked, saved, mixed)
               /\ Confirmed(calls[c], server) /\ Marks(calls[c].token, calls)
    <2>1. calls[c] = Idle
      BY <1>2
    <2> QED BY <1>3, <2>1, IdleFields DEF Loaded, Given, Written, Confirmed, Marks
  <1> QED BY <1>2, <1>6, <1>7, <1>8 DEF CacheInv

LEMMA CacheNext == Typed /\ CacheInv /\ [Next]_vars => Typed' /\ CacheInv'
  <1> SUFFICES ASSUME Typed, CacheInv, [Next]_vars
               PROVE  Typed' /\ CacheInv'
    OBVIOUS
  <1>1. CASE UNCHANGED vars
    BY <1>1 DEF vars, Typed, CacheInv, Loaded, Given, Written, Fine, Confirmed, Marks, Own
  <1>2. ASSUME NEW c \in Calls, NEW force \in BOOLEAN, BeginGet(c, force)
        PROVE  Typed' /\ CacheInv'
    BY <1>2, BeginGetKeeps
  <1>3. ASSUME NEW c \in Calls,
               \/ ReadCache(c) \/ ServeGet(c) \/ Lose(c) \/ AnswerGet(c) \/ PutDone(c)
               \/ BeginSave(c) \/ ServeSave(c) \/ AnswerSave(c)
        PROVE  Typed' /\ CacheInv'
    BY <1>3, ReadCacheKeeps, ServeGetKeeps, LoseKeeps, AnswerGetKeeps, PutDoneKeeps, BeginSaveKeeps,
       ServeSaveKeeps, AnswerSaveKeeps
  <1>4. ASSUME NEW c \in Calls, Recover(c) \/ BeginVerify(c) \/ ServeCheck(c) \/ CheckDone(c)
        PROVE  Typed' /\ CacheInv'
    BY <1>4, RecoverKeeps, BeginVerifyKeeps, ServeCheckKeeps, CheckDoneKeeps
  <1>5. ASSUME NEW c \in Calls, BeginLogout(c) \/ EndLogout(c) \/ ServeLogin(c) \/ AnswerLogin(c)
        PROVE  Typed' /\ CacheInv'
    BY <1>5, BeginLogoutKeeps, EndLogoutKeeps, ServeLoginKeeps, AnswerLoginKeeps
  <1>6. ASSUME NEW c \in Calls, NEW m \in Members, BeginLogin(c, m)
        PROVE  Typed' /\ CacheInv'
    BY <1>6, BeginLoginKeeps
  <1>7. CASE \/ \E i \in Identities : Age(i) \/ Clean(i)
             \/ \E v \in Versions : OtherPut(v)
    BY <1>7, StoreKeeps
  <1>8. CASE OtherSignOut \/ OtherChange \/ Revoke
    BY <1>8, OthersKeep
  <1> QED BY <1>1, <1>2, <1>3, <1>4, <1>5, <1>6, <1>7, <1>8 DEF Next

-----------------------------------------------------------------------------
(* Steps of the sign-in *)

\* What a step does to the checks, and which calls sign in or out.
Steady ==
    \A d \in Calls :
      /\ calls'[d].check = calls[d].check \/ calls'[d].check.state = "none"
      /\ calls'[d].kind \in {"login", "logout"} => calls'[d].kind = calls[d].kind

\* A step that begins no check keeps the page signed out.
LEMMA SignMoves ==
    ASSUME Typed, Typed', SignInv, Steady,
           page.transition <= page'.transition, crossed => crossed', out' => out,
           out /\ ~ crossed => /\ page'.member = None /\ ~ signed'
                               /\ server.holder = None => server'.holder = None
    PROVE  SignInv'
  <1>1. page.transition \in Nat /\ page'.transition \in Nat
    BY DEF Typed, Pages
  <1>2. ASSUME NEW d \in Calls
        PROVE  calls[d].check.transition \in Nat
    BY <1>2, CallFields DEF Typed
  <1>3. /\ UnderWay("login") = {} => UnderWay("login")' = {}
        /\ UnderWay("logout")' # {} => UnderWay("logout") # {}
    BY DEF Steady, UnderWay
  <1>4. ASSUME NEW d \in Calls, calls'[d].check.state # "none"
        PROVE  /\ calls'[d].check = calls[d].check
               /\ calls[d].check.transition <= page.transition
    BY <1>4 DEF Steady, SignInv
  <1>5. \A d \in Calls : calls'[d].check.state # "none" => calls'[d].check.transition <= page'.transition
    BY <1>1, <1>2, <1>4
  <1>6. ASSUME UnderWay("logout")' # {}, ~ crossed', NEW d \in Calls, calls'[d].check.state # "none"
        PROVE  calls'[d].check.transition < page'.transition
    <2>1. calls[d].check.transition < page.transition
      BY <1>3, <1>4, <1>6 DEF SignInv
    <2> QED BY <1>1, <1>2, <1>4, <1>6, <2>1
  <1>7. out' => UnderWay("login")' = {}
    BY <1>3 DEF SignInv
  <1>8. ASSUME out', ~ crossed'
        PROVE  /\ page'.member = None /\ ~ signed'
               /\ \A d \in Calls : calls'[d].check.transition = page'.transition =>
                    /\ calls'[d].check.state = "sent" => server'.holder = None
                    /\ calls'[d].check.state = "answered" => calls'[d].check.member = None
    <2>1. out /\ ~ crossed
      BY <1>8
    <2>2. ASSUME NEW d \in Calls, calls'[d].check.transition = page'.transition,
                 calls'[d].check.state # "none"
          PROVE  /\ calls'[d].check.state = "sent" => server'.holder = None
                 /\ calls'[d].check.state = "answered" => calls'[d].check.member = None
      <3>1. calls'[d].check = calls[d].check /\ calls[d].check.transition = page.transition
        BY <1>1, <1>2, <1>4, <2>2
      <3> QED BY <2>1, <3>1 DEF SignInv
    <2> QED BY <2>1, <2>2
  <1> QED BY <1>5, <1>6, <1>7, <1>8 DEF SignInv

\* A step of one call, on its check.
LEMMA OneCheckSigns ==
    ASSUME Typed, Typed', SignInv, UNCHANGED <<server, page, signed, out>>, crossed => crossed',
           NEW c \in Calls, NEW y, calls' = [calls EXCEPT ![c] = y],
           y.kind \in {"login", "logout"} => y.kind = calls[c].kind,
           y.check.state # "none" => y.check.transition <= page.transition,
           UnderWay("logout") # {} /\ ~ crossed' /\ y.check.state # "none" =>
             y.check.transition < page.transition,
           out /\ ~ crossed' /\ y.check.transition = page.transition =>
             /\ y.check.state = "sent" => server.holder = None
             /\ y.check.state = "answered" => y.check.member = None
    PROVE  SignInv'
  <1>1. calls'[c] = y /\ \A d \in Calls : d # c => calls'[d] = calls[d]
    BY DEF Typed
  <1>2. /\ UnderWay("login") = {} => UnderWay("login")' = {}
        /\ UnderWay("logout")' # {} => UnderWay("logout") # {}
    BY <1>1 DEF UnderWay
  <1>3. \A d \in Calls : calls'[d].check.state # "none" => calls'[d].check.transition <= page'.transition
    BY <1>1 DEF SignInv
  <1>4. UnderWay("logout")' # {} /\ ~ crossed' =>
          \A d \in Calls : calls'[d].check.state # "none" => calls'[d].check.transition < page'.transition
    BY <1>1, <1>2 DEF SignInv
  <1>5. out' => UnderWay("login")' = {}
    BY <1>2 DEF SignInv
  <1>6. out' /\ ~ crossed' =>
          /\ page'.member = None /\ ~ signed'
          /\ \A d \in Calls : calls'[d].check.transition = page'.transition =>
               /\ calls'[d].check.state = "sent" => server'.holder = None
               /\ calls'[d].check.state = "answered" => calls'[d].check.member = None
    BY <1>1 DEF SignInv
  <1> QED BY <1>3, <1>4, <1>5, <1>6 DEF SignInv

\* A step that changes neither the page's nor the server's sign-in, except for the login shown.
LEMMA StillSigns ==
    ASSUME Typed, Typed', SignInv, Steady, UNCHANGED <<signed, out, crossed>>,
           page'.member = page.member, page'.transition = page.transition,
           server'.holder = server.holder
    PROVE  SignInv'
  <1>1. page.transition \in Nat
    BY DEF Typed, Pages
  <1>2. out /\ ~ crossed => page.member = None /\ ~ signed
    BY DEF SignInv
  <1> QED BY <1>1, <1>2, SignMoves

\* A call that changes in neither respect.
LEMMA CallSteady ==
    ASSUME Typed, NEW c \in Calls, NEW y, calls' = [calls EXCEPT ![c] = y],
           y.check = calls[c].check \/ y.check.state = "none",
           y.kind \in {"login", "logout"} => y.kind = calls[c].kind
    PROVE  Steady
  BY DEF Typed, Steady

LEMMA OverSteady ==
    ASSUME Typed, \A d \in Calls : calls'[d] = calls[d] \/ calls'[d] = Over
    PROVE  Steady
  <1>1. Over.check.state = "none" /\ Over.kind \notin {"login", "logout"}
    BY OverFields, IdleFields, Bounds DEF Requests
  <1> QED BY <1>1 DEF Steady

LEMMA ReturnSteady ==
    ASSUME Typed, NEW c \in Calls, NEW v, Return(c, v)
    PROVE  Steady /\ UNCHANGED <<out, crossed>>
  <1>1. \A d \in Calls : calls'[d] = calls[d] \/ calls'[d] = Over
    BY DEF Return
  <1> QED BY <1>1, OverSteady DEF Return

LEMMA BeginGetSigns ==
    ASSUME Typed, Typed', SignInv, NEW c \in Calls, NEW force \in BOOLEAN, BeginGet(c, force)
    PROVE  SignInv'
  <1>1. UNCHANGED <<server, signed, page, out, crossed>>
    BY DEF BeginGet, ghosts
  <1>2. PICK b : b = [Idle EXCEPT !.kind = "get", !.context = Context, !.force = force]
    OBVIOUS
  <1>3. Context \in Contexts /\ "get" \in Kinds /\ "read" \in Stages /\ "joined" \in Stages
    BY PageFields DEF Typed, Kinds, Requests, Stages
  <1>4. b \in CallRecords
    BY <1>2, <1>3, IdleFields DEF CallRecords
  <1>5. b.kind = "get" /\ b.check = NoCheck
    BY <1>2, <1>3, IdleFields DEF CallRecords
  <1>6. \/ \E n : calls' = [calls EXCEPT ![c] = [b EXCEPT !.at = "read", !.token = n]]
        \/ \E l : calls' = [calls EXCEPT ![c] = [b EXCEPT !.at = "joined", !.leader = l]]
    BY <1>2 DEF BeginGet
  <1>7. PICK y : calls' = [calls EXCEPT ![c] = y] /\ y.kind = "get" /\ y.check = NoCheck
    <2>1. ASSUME NEW n PROVE LET y == [b EXCEPT !.at = "read", !.token = n]
                             IN  y.kind = "get" /\ y.check = NoCheck
      BY <1>4, <1>5 DEF CallRecords
    <2>2. ASSUME NEW l PROVE LET y == [b EXCEPT !.at = "joined", !.leader = l]
                             IN  y.kind = "get" /\ y.check = NoCheck
      BY <1>4, <1>5 DEF CallRecords
    <2> QED BY <1>6, <2>1, <2>2
  <1>8. Steady
    BY <1>7, CallSteady, IdleFields
  <1> QED BY <1>1, <1>8, StillSigns

LEMMA ReadCacheSigns ==
    ASSUME Typed, Typed', SignInv, NEW c \in Calls, ReadCache(c)
    PROVE  SignInv'
  <1>1. UNCHANGED <<server, signed, page>>
    BY DEF ReadCache
  <1>2. Steady /\ UNCHANGED <<out, crossed>>
    <2>1. ASSUME NEW v, Return(c, v) PROVE Steady /\ UNCHANGED <<out, crossed>>
      BY <2>1, ReturnSteady
    <2>2. CASE /\ calls' = [calls EXCEPT ![c].at = "sent", ![c].cached = Entry(c).version, ![c].token = None]
               /\ UNCHANGED ghosts
      <3>1. PICK v : v = Entry(c).version
        OBVIOUS
      <3>2. PICK y : y = [calls[c] EXCEPT !.at = "sent", !.cached = v, !.token = None]
        OBVIOUS
      <3>3. calls' = [calls EXCEPT ![c] = y]
        BY <2>2, <3>1, <3>2 DEF Typed
      <3>4. y.kind = calls[c].kind /\ y.check = calls[c].check
        BY <3>2 DEF Typed, CallRecords
      <3> QED BY <2>2, <3>3, <3>4, CallSteady DEF ghosts
    <2> QED BY <2>1, <2>2 DEF ReadCache
  <1> QED BY <1>1, <1>2, StillSigns

LEMMA ServeGetSigns ==
    ASSUME Typed, Typed', SignInv, NEW c \in Calls, ServeGet(c) \/ Lose(c)
    PROVE  SignInv'
  <1>1. UNCHANGED <<server, signed, page, out, crossed>>
    BY DEF ServeGet, Lose, ghosts
  <1>2. \E n, v, o : calls' = [calls EXCEPT ![c].at = "answered", ![c].cached = n, ![c].found = v, ![c].reply = o]
    <2>1. CASE ServeGet(c)
      BY <2>1 DEF ServeGet
    <2>2. CASE Lose(c)
      <3>1. calls' = [calls EXCEPT ![c].at = "answered", ![c].cached = calls[c].cached, ![c].found = None,
                                   ![c].reply = "network"]
        BY <2>2 DEF Lose, Typed, CallRecords
      <3> QED BY <3>1
    <2> QED BY <2>1, <2>2
  <1>3. PICK n, v, o : calls' = [calls EXCEPT ![c].at = "answered", ![c].cached = n, ![c].found = v, ![c].reply = o]
    BY <1>2
  <1>4. PICK y : y = [calls[c] EXCEPT !.at = "answered", !.cached = n, !.found = v, !.reply = o]
    OBVIOUS
  <1>5. calls' = [calls EXCEPT ![c] = y]
    BY <1>3, <1>4 DEF Typed
  <1>6. y.kind = calls[c].kind /\ y.check = calls[c].check
    BY <1>4 DEF Typed, CallRecords
  <1>7. Steady
    BY <1>5, <1>6, CallSteady
  <1> QED BY <1>1, <1>7, StillSigns

LEMMA AnswerGetSigns ==
    ASSUME Typed, Typed', SignInv, NEW c \in Calls, AnswerGet(c)
    PROVE  SignInv'
  <1>1. UNCHANGED <<server, signed>> /\ page' \in {page, ShowLogin(page)}
    BY DEF AnswerGet
  <1>2. page'.member = page.member /\ page'.transition = page.transition
    BY <1>1, LoginFields DEF Typed
  <1>3. Steady /\ UNCHANGED <<out, crossed>>
    <2>1. ASSUME NEW v, Return(c, v) PROVE Steady /\ UNCHANGED <<out, crossed>>
      BY <2>1, ReturnSteady
    <2>2. CASE calls' = [calls EXCEPT ![c].at = "put", ![c].token = blocked[Identity]] /\ UNCHANGED ghosts
      <3>1. PICK n : n = blocked[Identity]
        OBVIOUS
      <3>2. PICK y : y = [calls[c] EXCEPT !.at = "put", !.token = n]
        OBVIOUS
      <3>3. calls' = [calls EXCEPT ![c] = y]
        BY <2>2, <3>1, <3>2 DEF Typed
      <3>4. y.kind = calls[c].kind /\ y.check = calls[c].check
        BY <3>2 DEF Typed, CallRecords
      <3> QED BY <2>2, <3>3, <3>4, CallSteady DEF ghosts
    <2> QED BY <2>1, <2>2 DEF AnswerGet, Put
  <1> QED BY <1>1, <1>2, <1>3, StillSigns

LEMMA PutDoneSigns ==
    ASSUME Typed, Typed', SignInv, NEW c \in Calls, PutDone(c)
    PROVE  SignInv'
  <1>1. UNCHANGED <<server, signed, page>> /\ Steady /\ UNCHANGED <<out, crossed>>
    BY ReturnSteady DEF PutDone
  <1> QED BY <1>1, StillSigns

LEMMA SaveSigns ==
    ASSUME Typed, Typed', SignInv, NEW c \in Calls, BeginSave(c) \/ ServeSave(c)
    PROVE  SignInv'
  <1>1. UNCHANGED <<signed, page, out, crossed>>
    BY DEF BeginSave, ServeSave, ghosts
  <1>2. server'.holder = server.holder
    BY DEF BeginSave, ServeSave, Typed, Servers
  <1>3. CASE BeginSave(c)
    <2>1. PICK y : y = [calls[c] EXCEPT !.kind = "save", !.at = "sent"]
      OBVIOUS
    <2>2. calls' = [calls EXCEPT ![c] = y]
      BY <1>3, <2>1 DEF BeginSave, Typed
    <2>3. y.kind = "save" /\ y.check = calls[c].check
      BY <2>1 DEF Typed, CallRecords
    <2>4. Steady
      BY <2>2, <2>3, CallSteady
    <2> QED BY <1>1, <1>2, <2>4, StillSigns
  <1>4. CASE ServeSave(c)
    <2>1. \E v, o : calls' = [calls EXCEPT ![c].at = "answered", ![c].reply = o, ![c].found = v]
      <3>1. CASE calls' = [calls EXCEPT ![c].at = "answered", ![c].reply = "unknown"]
        <4>1. calls' = [calls EXCEPT ![c].at = "answered", ![c].reply = "unknown", ![c].found = calls[c].found]
          BY <3>1 DEF Typed, CallRecords
        <4> QED BY <4>1
      <3>2. CASE calls' = [calls EXCEPT ![c].at = "answered", ![c].reply = "ok", ![c].found = server.version + 1]
        BY <3>2
      <3> QED BY <1>4, <3>1, <3>2 DEF ServeSave
    <2>2. PICK v, o : calls' = [calls EXCEPT ![c].at = "answered", ![c].reply = o, ![c].found = v]
      BY <2>1
    <2>3. PICK y : y = [calls[c] EXCEPT !.at = "answered", !.reply = o, !.found = v]
      OBVIOUS
    <2>4. calls' = [calls EXCEPT ![c] = y]
      BY <2>2, <2>3 DEF Typed
    <2>5. y.kind = calls[c].kind /\ y.check = calls[c].check
      BY <2>3 DEF Typed, CallRecords
    <2>6. Steady
      BY <2>4, <2>5, CallSteady
    <2> QED BY <1>1, <1>2, <2>6, StillSigns
  <1> QED BY <1>3, <1>4

LEMMA AnswerSaveSigns ==
    ASSUME Typed, Typed', SignInv, NEW c \in Calls, AnswerSave(c)
    PROVE  SignInv'
  <1>1. UNCHANGED <<server, signed, out, crossed>> /\ calls' = [calls EXCEPT ![c] = Over]
    BY DEF AnswerSave
  <1>2. page' \in {page, ShowLogin(page), [page EXCEPT !.epoch = @ + 1]}
    BY DEF AnswerSave, Invalidate
  <1>3. page'.member = page.member /\ page'.transition = page.transition
    <2>1. [page EXCEPT !.epoch = @ + 1].member = page.member
          /\ [page EXCEPT !.epoch = @ + 1].transition = page.transition
      BY DEF Typed, Pages
    <2> QED BY <1>2, <2>1, LoginFields DEF Typed
  <1>4. Steady
    BY <1>1, OverSteady DEF Typed
  <1> QED BY <1>1, <1>3, <1>4, StillSigns

\* The entries of the cache and the list are no matter of the sign-in.
LEMMA StoreSigns ==
    ASSUME Typed, Typed', SignInv,
           \/ \E i \in Identities : Age(i) \/ Clean(i)
           \/ \E v \in Versions : OtherPut(v)
           \/ OtherChange
    PROVE  SignInv'
  <1>1. UNCHANGED <<signed, page, calls, out, crossed>>
    BY DEF Age, Clean, OtherPut, OtherChange, ghosts
  <1>2. server'.holder = server.holder
    BY DEF Age, Clean, OtherPut, OtherChange, Typed, Servers
  <1>3. Steady
    BY <1>1 DEF Steady
  <1> QED BY <1>1, <1>2, <1>3, StillSigns

\* A check that begins, or is shared, is either an old one or of the present sign-in state.
LEMMA CheckSigns ==
    ASSUME Typed, Typed', SignInv, NEW c \in Calls, NEW k \in CallRecords, Check(c, k),
           k.check = calls[c].check, k.kind \in {"login", "logout"} => k.kind = calls[c].kind,
           crossed => crossed', Crossing => crossed',
           out /\ ~ crossed' => server.holder = None
    PROVE  SignInv'
  <1>1. PICK y : /\ calls' = [calls EXCEPT ![c] = y] /\ y.kind = k.kind
                 /\ y.check = k.check \/ y.check = NewCheck
                 /\ UNCHANGED <<server, signed, store, page, blocked, saved, mixed, behind, out>>
    BY Checking
  <1>2. /\ NewCheck.state = "sent" /\ NewCheck.transition = page.transition
        /\ page.transition \in Nat
    BY NewCheckFields, PageFields DEF Typed
  <1>3. CASE y.check = calls[c].check
    <2>1. y.check.state # "none" => y.check.transition <= page.transition
      BY <1>3 DEF SignInv
    <2>2. UnderWay("logout") # {} /\ ~ crossed' /\ y.check.state # "none" =>
            y.check.transition < page.transition
      BY <1>3 DEF SignInv
    <2>3. out /\ ~ crossed' /\ y.check.transition = page.transition =>
            /\ y.check.state = "sent" => server.holder = None
            /\ y.check.state = "answered" => y.check.member = None
      BY <1>3 DEF SignInv
    <2> QED BY <1>1, <2>1, <2>2, <2>3, OneCheckSigns
  <1>4. CASE y.check = NewCheck
    <2>1. y.check.state # "none" => y.check.transition <= page.transition
      BY <1>2, <1>4
    <2>2. UnderWay("logout") # {} /\ ~ crossed' /\ y.check.state # "none" =>
            y.check.transition < page.transition
      BY DEF Crossing
    <2>3. out /\ ~ crossed' /\ y.check.transition = page.transition =>
            /\ y.check.state = "sent" => server.holder = None
            /\ y.check.state = "answered" => y.check.member = None
      BY <1>2, <1>4
    <2> QED BY <1>1, <2>1, <2>2, <2>3, OneCheckSigns
  <1> QED BY <1>1, <1>3, <1>4

LEMMA RecoverSigns ==
    ASSUME Typed, Typed', SignInv, NEW c \in Calls, Recover(c)
    PROVE  SignInv'
  <1>1. Check(c, SpentCall(calls[c])) /\ crossed' = (crossed \/ Crossing \/ (out /\ server.holder # None))
    BY DEF Recover, SpentCall
  <1>2. PICK k : k = SpentCall(calls[c])
    OBVIOUS
  <1>3. k \in CallRecords /\ k.check = calls[c].check /\ k.kind = calls[c].kind
    BY <1>2, LookingFields DEF Typed
  <1>4. (crossed => crossed') /\ (Crossing => crossed') /\ (out /\ ~ crossed' => server.holder = None)
    BY <1>1
  <1> QED BY <1>1, <1>2, <1>3, <1>4, CheckSigns

\* A page that is signed out has no reason for another check.
LEMMA BeginVerifySigns ==
    ASSUME Typed, Typed', SignInv, NEW c \in Calls, BeginVerify(c)
    PROVE  SignInv'
  <1>1. Check(c, VerifyCall(calls[c])) /\ crossed' = (crossed \/ Crossing) /\ signed
    BY DEF BeginVerify, VerifyCall
  <1>2. PICK k : k = VerifyCall(calls[c])
    OBVIOUS
  <1>3. k \in CallRecords /\ k.check = calls[c].check /\ k.kind = "verify"
    BY <1>2, LookingFields DEF Typed
  <1>4. (crossed => crossed') /\ (Crossing => crossed')
    BY <1>1
  <1>5. ~ (out /\ ~ crossed')
    BY <1>1 DEF SignInv
  <1> QED BY <1>1, <1>2, <1>3, <1>4, <1>5, CheckSigns

\* The server answers for the device as it is now.
LEMMA ServeCheckSigns ==
    ASSUME Typed, Typed', SignInv, NEW c \in Calls, ServeCheck(c)
    PROVE  SignInv'
  <1>1. UNCHANGED <<server, page, signed, out>> /\ crossed' = crossed /\ calls[c].check.state = "sent"
    BY DEF ServeCheck, ghosts
  <1>2. PICK h \in Checks, y \in CallRecords :
             /\ h \in {CheckAnswered(calls[c].check), CheckLost(calls[c].check)}
             /\ calls' = [calls EXCEPT ![c] = y] /\ y.kind = calls[c].kind /\ y.check = h
    BY Serving
  <1>k. PICK k : k = calls[c].check
    OBVIOUS
  <1>3. k \in Checks
    BY <1>k, CallFields DEF Typed
  <1>4. h.transition = k.transition /\ h.state \in {"answered", "lost"}
        /\ (h.state = "answered" => h.member = server.holder)
    BY <1>k, <1>2, <1>3, CheckServed
  <1>5. y.check.transition <= page.transition
    BY <1>k, <1>1, <1>2, <1>4 DEF SignInv
  <1>6. UnderWay("logout") # {} /\ ~ crossed' => y.check.transition < page.transition
    BY <1>k, <1>1, <1>2, <1>4 DEF SignInv
  <1>7. out /\ ~ crossed' /\ y.check.transition = page.transition =>
          /\ y.check.state = "sent" => server.holder = None
          /\ y.check.state = "answered" => y.check.member = None
    BY <1>k, <1>1, <1>2, <1>4 DEF SignInv
  <1> QED BY <1>1, <1>2, <1>5, <1>6, <1>7, OneCheckSigns

\* While the page is signed out, no current check finds a session.
LEMMA CheckDoneSigns ==
    ASSUME Typed, Typed', SignInv, NEW c \in Calls, CheckDone(c)
    PROVE  SignInv'
  <1>1. PICK found, lost \in BOOLEAN :
             /\ found \/ lost => CheckIsCurrent(calls[c].check) /\ calls[c].check.state = "answered"
             /\ found => calls[c].check.member # None /\ ~ lost
             /\ page.transition <= page'.transition
             /\ ~ found => page'.member \in {None, page.member}
             /\ signed' = (found \/ (signed /\ ~ lost))
             /\ UNCHANGED <<server, store, blocked, ghosts>>
             /\ \A d \in Calls :
                  \/ calls'[d] = calls[d]
                  \/ calls[d].at = "recover" /\ calls'[d] = Over
                  \/ calls[d].at = "recover" /\ calls[d].kind # "verify" /\ calls'[d] = Resumed(d, found)
    BY Finishing
  <1>2. Steady
    <2>1. Over.check.state = "none" /\ Over.kind \notin {"login", "logout"}
      BY OverFields, IdleFields, Bounds DEF Requests
    <2>2. ASSUME NEW d \in Calls
          PROVE  Resumed(d, found).check.state = "none" /\ Resumed(d, found).kind = calls[d].kind
      BY <2>2, ResumedFields, IdleFields
    <2> QED BY <1>1, <2>1, <2>2 DEF Steady
  <1>3. out /\ ~ crossed => page'.member = None /\ ~ signed' /\ server'.holder = server.holder
    <2>1. SUFFICES ASSUME out, ~ crossed
                   PROVE  page'.member = None /\ ~ signed' /\ server'.holder = server.holder
      OBVIOUS
    <2>2. page.member = None /\ ~ signed
      BY <2>1 DEF SignInv
    <2>3. ~ found
      <3>1. CheckIsCurrent(calls[c].check) => calls[c].check.transition = page.transition
        BY DEF CheckIsCurrent
      <3> QED BY <1>1, <2>1, <3>1 DEF SignInv
    <2> QED BY <1>1, <2>2, <2>3
  <1>4. UNCHANGED <<out, crossed>>
    BY <1>1 DEF ghosts
  <1>5. out /\ ~ crossed => /\ page'.member = None /\ ~ signed'
                            /\ server.holder = None => server'.holder = None
    BY <1>3
  <1>6. (crossed => crossed') /\ (out' => out)
    BY <1>4
  <1> QED BY <1>1, <1>2, <1>5, <1>6, SignMoves

\* With the sign-out the checks that are under way are of an earlier sign-in state.
LEMMA BeginLogoutSigns ==
    ASSUME Typed, Typed', SignInv, NEW c \in Calls, BeginLogout(c)
    PROVE  SignInv'
  <1>1. UNCHANGED <<server, signed, out, crossed>> /\ page' = Advanced
    BY DEF BeginLogout, ghosts
  <1>2. /\ page.transition \in Nat /\ page'.transition = page.transition + 1 /\ page'.member = page.member
    BY <1>1, PageMoves, IdleFields, PageFields DEF Typed
  <1>3. PICK y : y = [calls[c] EXCEPT !.kind = "logout", !.at = "leaving"]
    OBVIOUS
  <1>4. calls' = [calls EXCEPT ![c] = y] /\ y.check = calls[c].check /\ y.kind = "logout"
    BY <1>3 DEF BeginLogout, Typed, CallRecords
  <1>5. /\ \A d \in Calls : calls'[d].check = calls[d].check
        /\ \A d \in Calls : calls'[d].kind = "login" => calls[d].kind = "login"
    BY <1>4 DEF Typed
  <1>6. ASSUME NEW d \in Calls, calls'[d].check.state # "none"
        PROVE  calls'[d].check.transition < page'.transition
    <2>1. calls[d].check.transition <= page.transition /\ calls[d].check.transition \in Nat
      BY <1>5, <1>6, CallFields DEF Typed, SignInv
    <2> QED BY <1>2, <1>5, <1>6, <2>1
  <1>7. \A d \in Calls : calls'[d].check.transition \in Nat /\ page'.transition \in Nat
    BY <1>2, CallFields DEF Typed
  <1>8. out' => UnderWay("login")' = {}
    BY <1>1, <1>5 DEF SignInv, UnderWay
  <1>9. ASSUME out', ~ crossed'
        PROVE  page'.member = None /\ ~ signed'
    BY <1>1, <1>2, <1>9 DEF SignInv
  <1>10. \A d \in Calls : calls'[d].check.transition = page'.transition => calls'[d].check.state = "none"
    BY <1>6, <1>7
  <1>11. \A d \in Calls : calls'[d].check.state # "none" => calls'[d].check.transition <= page'.transition
    BY <1>6, <1>7
  <1> QED BY <1>6, <1>8, <1>9, <1>10, <1>11 DEF SignInv

LEMMA EndLogoutSigns ==
    ASSUME Typed, Typed', SignInv, NEW c \in Calls, EndLogout(c)
    PROVE  SignInv'
  <1>1. /\ UNCHANGED <<server, crossed>> /\ ~ signed' /\ calls' = [calls EXCEPT ![c] = Over]
        /\ out' = (UnderWay("login") = {}) /\ c \in UnderWay("logout")
        /\ page' = ShowLogin([page EXCEPT !.member = None])
    BY DEF EndLogout, At, UnderWay
  <1>2. page'.member = None /\ page'.transition = page.transition
    <2>1. PICK q : q = [page EXCEPT !.member = None]
      OBVIOUS
    <2>2. q \in Pages /\ q.member = None /\ q.transition = page.transition
      BY <2>1 DEF Typed, Pages, People
    <2> QED BY <1>1, <2>1, <2>2, LoginFields
  <1>3. Steady
    BY <1>1, OverSteady DEF Typed
  <1>4. ASSUME NEW d \in Calls, calls'[d].check.state # "none"
        PROVE  /\ calls'[d].check = calls[d].check /\ calls[d].check.transition <= page.transition
               /\ ~ crossed' => calls[d].check.transition < page.transition
    BY <1>1, <1>3, <1>4 DEF Steady, SignInv
  <1>5. UnderWay("login") = {} => UnderWay("login")' = {}
    BY <1>3 DEF Steady, UnderWay
  <1>6. \A d \in Calls : calls'[d].check.state # "none" => calls'[d].check.transition <= page'.transition
    BY <1>2, <1>4
  <1>7. ~ crossed' => \A d \in Calls : calls'[d].check.state # "none" =>
                                        calls'[d].check.transition < page'.transition
    BY <1>2, <1>4
  <1>8. ~ crossed' => \A d \in Calls : calls'[d].check.transition = page'.transition =>
                                        calls'[d].check.state = "none"
    <2>1. page'.transition \in Nat
      BY <1>2, PageFields DEF Typed
    <2>2. \A d \in Calls : calls'[d].check.transition \in Nat
      BY CallFields DEF Typed
    <2> QED BY <1>7, <2>1, <2>2
  <1> QED BY <1>1, <1>2, <1>5, <1>6, <1>7, <1>8 DEF SignInv

LEMMA BeginLoginSigns ==
    ASSUME Typed, Typed', SignInv, NEW c \in Calls, NEW m \in Members, BeginLogin(c, m)
    PROVE  SignInv'
  <1>1. UNCHANGED crossed /\ ~ out' /\ page' = Advanced
    BY DEF BeginLogin
  <1>2. page.transition \in Nat /\ page'.transition = page.transition + 1
    BY <1>1, PageMoves, IdleFields, PageFields DEF Typed
  <1>3. PICK y : y = [calls[c] EXCEPT !.kind = "login", !.at = "sent", !.member = m]
    OBVIOUS
  <1>4. calls' = [calls EXCEPT ![c] = y] /\ y.check = calls[c].check
    BY <1>3 DEF BeginLogin, Typed, CallRecords
  <1>5. \A d \in Calls : calls'[d].check = calls[d].check
    BY <1>4 DEF Typed
  <1>6. ASSUME NEW d \in Calls, calls'[d].check.state # "none"
        PROVE  calls'[d].check.transition < page'.transition /\ calls'[d].check.transition <= page'.transition
    <2>1. calls[d].check.transition <= page.transition /\ calls[d].check.transition \in Nat
      BY <1>5, <1>6, CallFields DEF Typed, SignInv
    <2> QED BY <1>2, <1>5, <1>6, <2>1
  <1> QED BY <1>1, <1>6 DEF SignInv

\* A sign-in under way means that the user has not just signed out.
LEMMA LoginSigns ==
    ASSUME Typed, Typed', SignInv, NEW c \in Calls, ServeLogin(c) \/ AnswerLogin(c)
    PROVE  SignInv'
  <1>1. c \in UnderWay("login") /\ UNCHANGED <<out, crossed>>
    BY DEF ServeLogin, AnswerLogin, At, UnderWay, ghosts
  <1>2. ~ out
    BY <1>1 DEF SignInv
  <1>3. page'.transition = page.transition /\ page.transition \in Nat
    BY DEF ServeLogin, AnswerLogin, Typed, Pages
  <1>4. Steady
    <2>1. CASE AnswerLogin(c)
      BY <2>1, OverSteady DEF AnswerLogin, Typed
    <2>2. CASE ServeLogin(c)
      <3>1. PICK o : calls' = [calls EXCEPT ![c].at = "answered", ![c].reply = o]
        BY <2>2 DEF ServeLogin
      <3>2. PICK y : y = [calls[c] EXCEPT !.at = "answered", !.reply = o]
        OBVIOUS
      <3>3. calls' = [calls EXCEPT ![c] = y]
        BY <3>1, <3>2 DEF Typed
      <3>4. y.kind = calls[c].kind /\ y.check = calls[c].check
        BY <3>2 DEF Typed, CallRecords
      <3> QED BY <3>3, <3>4, CallSteady
    <2> QED BY <2>1, <2>2
  <1>5. (crossed => crossed') /\ (out' => out) /\ page.transition <= page'.transition
    BY <1>1, <1>3
  <1> QED BY <1>2, <1>4, <1>5, SignMoves

\* The other tab's sign-out, and the administrator's.
LEMMA OthersSign ==
    ASSUME Typed, Typed', SignInv, OtherSignOut \/ Revoke
    PROVE  SignInv'
  <1>1. UNCHANGED <<calls, out, crossed>>
    BY DEF OtherSignOut, Revoke, ghosts
  <1>2. page' \in {page, Advanced} /\ (signed' => signed)
    BY DEF OtherSignOut, Revoke
  <1>3. page'.member = page.member /\ page.transition <= page'.transition
    <2>1. page.transition \in Nat
      BY PageFields DEF Typed
    <2> QED BY <1>2, <2>1, PageMoves, IdleFields DEF Typed
  <1>4. server.holder = None => server'.holder = None
    BY DEF OtherSignOut, Revoke, Typed, Servers
  <1>5. Steady
    BY <1>1 DEF Steady
  <1>6. out /\ ~ crossed => /\ page'.member = None /\ ~ signed'
                            /\ server.holder = None => server'.holder = None
    BY <1>2, <1>3, <1>4 DEF SignInv
  <1>7. (crossed => crossed') /\ (out' => out)
    BY <1>1
  <1> QED BY <1>3, <1>5, <1>6, <1>7, SignMoves

LEMMA SignInit == Init => SignInv
  <1> SUFFICES ASSUME Init PROVE SignInv
    OBVIOUS
  <1>1. out = FALSE /\ \A c \in Calls : calls[c] = Idle
    BY DEF Init
  <1>2. Idle.check.state = "none" /\ Idle.kind = None /\ None # "login"
    BY IdleFields, Bounds DEF Requests
  <1>3. \A c \in Calls : calls[c].check.state = "none"
    BY <1>1, <1>2
  <1>4. UnderWay("login") = {}
    BY <1>1, <1>2 DEF UnderWay
  <1> QED BY <1>1, <1>3, <1>4 DEF SignInv

LEMMA SignNext == Typed /\ Typed' /\ SignInv /\ [Next]_vars => SignInv'
  <1> SUFFICES ASSUME Typed, Typed', SignInv, [Next]_vars
               PROVE  SignInv'
    OBVIOUS
  <1>1. CASE UNCHANGED vars
    BY <1>1 DEF vars, SignInv, UnderWay
  <1>2. ASSUME NEW c \in Calls, NEW force \in BOOLEAN, BeginGet(c, force)
        PROVE  SignInv'
    BY <1>2, BeginGetSigns
  <1>3. ASSUME NEW c \in Calls,
               \/ ReadCache(c) \/ ServeGet(c) \/ Lose(c) \/ AnswerGet(c) \/ PutDone(c)
               \/ BeginSave(c) \/ ServeSave(c) \/ AnswerSave(c)
        PROVE  SignInv'
    BY <1>3, ReadCacheSigns, ServeGetSigns, AnswerGetSigns, PutDoneSigns, SaveSigns, AnswerSaveSigns
  <1>4. ASSUME NEW c \in Calls, Recover(c) \/ BeginVerify(c) \/ ServeCheck(c) \/ CheckDone(c)
        PROVE  SignInv'
    BY <1>4, RecoverSigns, BeginVerifySigns, ServeCheckSigns, CheckDoneSigns
  <1>5. ASSUME NEW c \in Calls, BeginLogout(c) \/ EndLogout(c) \/ ServeLogin(c) \/ AnswerLogin(c)
        PROVE  SignInv'
    BY <1>5, BeginLogoutSigns, EndLogoutSigns, LoginSigns
  <1>6. ASSUME NEW c \in Calls, NEW m \in Members, BeginLogin(c, m)
        PROVE  SignInv'
    BY <1>6, BeginLoginSigns
  <1>7. CASE \/ \E i \in Identities : Age(i) \/ Clean(i)
             \/ \E v \in Versions : OtherPut(v)
             \/ OtherChange
    BY <1>7, StoreSigns
  <1>8. CASE OtherSignOut \/ Revoke
    BY <1>8, OthersSign
  <1> QED BY <1>1, <1>2, <1>3, <1>4, <1>5, <1>6, <1>7, <1>8 DEF Next

-----------------------------------------------------------------------------
(* Theorems *)

\* The state has its types, the lists in the cache are as new as they need to be, and so
\* are the checks: for any number of calls, sign-ins and changes of the list.
THEOREM RequestsInvariant == Spec => []RequestsInv
  <1>1. Init => RequestsInv
    BY CacheInit, SignInit DEF RequestsInv
  <1>2. RequestsInv /\ [Next]_vars => RequestsInv'
    BY CacheNext, SignNext DEF RequestsInv
  <1> QED BY <1>1, <1>2, PTL DEF Spec

\* request() after a save that the page was told of never gives the list without it, neither
\* from a shared load, nor from the cache, nor when the network fails.
THEOREM SavedIsSeen == Spec => []SavesAreSeen
  <1>1. RequestsInv => SavesAreSeen
    BY DEF RequestsInv, CacheInv, SavesAreSeen
  <1> QED BY <1>1, RequestsInvariant, PTL

\* No session check of an earlier sign-in state signs the page in after logoutPortal.
THEOREM SignedOutStays == Spec => []SignOutStays
  <1>1. RequestsInv => SignOutStays
    BY DEF RequestsInv, SignInv, SignOutStays
  <1> QED BY <1>1, RequestsInvariant, PTL
=============================================================================
