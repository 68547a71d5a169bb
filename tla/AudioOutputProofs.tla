--------------------------- MODULE AudioOutputProofs ---------------------------
(***************************************************************************)
(* Proofs about the shared audio output: for every number of tabs and      *)
(* claims and every length of the permits.                                 *)
(*                                                                         *)
(* With Web Locks whoever sounds has a lease, and a lease needs the lock.   *)
(* With the claim record the argument is one about time.  A permit, the    *)
(* answer that brings one and the clicks that were handed on are never     *)
(* longer than what is left of PERMIT_MS since the record was last written, *)
(* so that a record which is old enough to be taken over has no permit      *)
(* left, in any tab.  And a tab that holds the claim, or believes so, has   *)
(* either the record or nothing it could sound with.                       *)
(* A claim that changes hands is an argument about generations: what a tab  *)
(* stopped is of an earlier generation than the one it has or asks for, and *)
(* two tabs never have the same.                                           *)
(***************************************************************************)
EXTENDS AudioOutput, TLAPS

Renewals == [ok : BOOLEAN, left : 0 .. Permit, late : BOOLEAN]
Asks == [generation : 0 .. MaxGeneration, previous : Previous \cup {None}, withdrawn : BOOLEAN]
Reports == [what : {"lost", "ready"}, generation : 0 .. MaxGeneration, behind : BOOLEAN]

States == {"none", "held", "pending-owner"}
Observations == {"no", "same", "changed"}

Views == [tab : Tabs, me : Pages, lock : Tabs \cup {None}, claim : Claims \cup {None},
          counter : 0 .. MaxGeneration]

Typed ==
    /\ kind \in {"locks", "indexeddb"}
    /\ lock \in Tabs \cup {None} /\ claim \in Claims \cup {None}
    /\ counter \in 0 .. MaxGeneration /\ acks \in [Tabs -> 0 .. MaxGeneration]
    /\ tabs \in [Tabs -> Pages]

\* Nothing of a page sounds for longer than n.
Within(p, n) ==
    /\ p.click <= n
    /\ p.permit # None => p.permit <= n
    /\ p.renewal # None /\ p.renewal.ok => p.renewal.left <= n

\* What is left of a permit that was given when the record was written.
Rest(c) == IF c.age >= Permit THEN 0 ELSE Permit - c.age

Owns(t, c) == c # None /\ c.owner = t

\* The metronome clicks, or will when its permit comes.
Going(p) == p.stage = "playing" \/ (p.stage \in {"preparing", "renewing", "resuming"} /\ p.wanted)

\* Clicks need a context that runs, and a consumer its screen.
Tidy(p) ==
    /\ p.click > 0 => p.stage = "playing" /\ p.context = "running" /\ ~ p.silencing
    /\ p.silencing => ~ p.wanted /\ p.stage \notin {"playing", "resuming"}
    /\ p.tone => "tuner" \in p.retained
    /\ p.stage # "off" => "metronome" \in p.retained

\* With Web Locks: a lease needs the lock.
Locked(t, p, c, l) ==
    /\ c = None /\ p.told = None /\ p.observed = "no"
    /\ p.state = "held" => l = t
    /\ HasLease(p) => p.state = "held"

\* With the claim record c, when n is the greatest generation.
Claiming(t, p, c, n) ==
    /\ c # None => c.generation <= n /\ Within(p, Rest(c))
    /\ p.generation <= n
    /\ p.state # "none" \/ p.told # None => 1 <= p.generation
    /\ p.told # None /\ p.told.what = "lost" => 1 <= p.told.generation
    /\ p.ask # None => p.generation < p.ask.generation /\ p.ask.generation <= n
    /\ p.ask # None /\ Owns(t, c) => c.generation = p.ask.generation
    /\ p.ask # None /\ p.state # "none" => p.previous = None
    /\ p.ask # None /\ p.state = "held" => Within(p, 0)
    /\ p.ask # None /\ ~ p.ask.withdrawn => Owns(t, c) \/ Within(p, 0)
    /\ p.state = "held" => p.previous = None
    /\ p.state = "held" => Owns(t, c) \/ Within(p, 0)
    /\ Going(p) => p.state = "held" \/ Within(p, 0)
    /\ p.told # None /\ p.told.what = "ready" => ~ p.told.behind /\ p.state # "held" /\ Within(p, 0)
    /\ Owns(t, c) /\ c.state = "pending-owner" => Within(p, 0)

\* With the claim record: the generations tell who wrote it last.  a is the acknowledgement of the
\* tab; what it stopped, or is stopping, was of an earlier generation than the one it has, or asks for.
Numbered(t, p, c, n, a) ==
    /\ c # None => c.generation = n
    /\ p.tone => p.state # "none"
    /\ \A g \in p.stopping \cup {a} :
         /\ g <= n
         /\ p.state # "none" \/ (p.told # None /\ p.told.what = "ready") => g < p.generation
         /\ p.ask # None => g < p.ask.generation
    /\ p.told # None => p.told.generation <= p.generation
    /\ c # None /\ p.generation = c.generation => c.owner = t
    /\ p.ask # None /\ c # None /\ p.ask.generation = c.generation => c.owner = t
    /\ p.previous # None => p.generation = p.previous.generation + 1 /\ p.previous.owner # t
    /\ p.ask # None /\ p.ask.previous # None =>
         p.ask.generation = p.ask.previous.generation + 1 /\ p.ask.previous.owner # t

\* A stale record that was shown, and is still there, is another tab's.
Watched(t, p, c) == p.observed = "same" => c # None /\ c.owner # t

NumberInv ==
    kind # "locks" => \A t \in Tabs : /\ Numbered(t, tabs[t], claim, counter, acks[t])
                                     /\ Watched(t, tabs[t], claim)

OutputInv ==
    /\ Typed /\ NumberInv
    /\ \A t \in Tabs : Tidy(tabs[t])
    /\ kind = "locks" => \A t \in Tabs : Locked(t, tabs[t], claim, lock)
    /\ kind # "locks" => \A t \in Tabs : Claiming(t, tabs[t], claim, counter)

\* The page of a tab, in a view of one of them.
Of(v, t) == IF t = v.tab THEN v.me ELSE tabs[t]

\* The owner of the record is the pending one of a takeover, and the old tab is silent.
Ready ==
    LET p == tabs[claim.owner] IN
    /\ claim.state = "pending-owner" /\ p.generation = claim.generation
    /\ p.previous # None /\ Silent(p.previous)

\* What a step may make of the record: nothing, the same one, the one that runs, or a new one.
Succeeds(d) ==
    \/ d = None
    \/ /\ d # None /\ claim # None /\ d.owner = claim.owner /\ d.generation = claim.generation
       /\ d.state = claim.state \/ Ready
    \/ d # None /\ d.generation > counter

\* The generations in a view, when the step began with the state.
Course(v) ==
    kind # "locks" =>
        /\ counter <= v.counter /\ Succeeds(v.claim) /\ Watched(v.tab, v.me, v.claim)
        /\ \A t \in Tabs : /\ Numbered(t, Of(v, t), v.claim, v.counter, acks[t])
                           /\ Watched(t, tabs[t], claim)

\* A view that would keep the invariant.
Good(v) ==
    /\ Typed /\ (\A t \in Tabs : Tidy(tabs[t]))
    /\ v \in Views /\ Tidy(v.me) /\ Course(v)
    /\ kind = "locks" => \A t \in Tabs : Locked(t, Of(v, t), v.claim, v.lock)
    /\ kind # "locks" => \A t \in Tabs : Claiming(t, Of(v, t), v.claim, v.counter)

\* The fields of a page that coordination is about.
Asked(p) == <<p.state, p.generation, p.previous, p.ask, p.told, p.observed, p.stopping>>

-----------------------------------------------------------------------------
(* Views *)

LEMMA Times ==
    /\ 0 \in 0 .. Permit /\ Permit \in 0 .. Permit /\ Permit \in Nat /\ Stale \in Nat
    /\ Permit <= Stale /\ 1 <= Permit /\ MaxGeneration \in Nat /\ None \notin Tabs /\ None \notin Claims
    /\ None \notin Nat
    BY TimesAssumption, TabsAssumption

\* The types of the fields of a page.
LEMMA PageFields ==
    ASSUME NEW p \in Pages
    PROVE  /\ p.click \in 0 .. Permit /\ p.permit \in 0 .. Permit \cup {None}
           /\ p.renewal \in Renewals \cup {None} /\ p.ask \in Asks \cup {None}
           /\ p.told \in Reports \cup {None} /\ p.generation \in 0 .. MaxGeneration
           /\ p.previous \in Previous \cup {None} /\ p.stage \in Stages
           /\ p.state \in {"none", "held", "pending-owner"} /\ p.wanted \in BOOLEAN
           /\ p.silencing \in BOOLEAN /\ p.tone \in BOOLEAN /\ p.retained \subseteq Consumers
           /\ p.stopping \subseteq 1 .. MaxGeneration /\ p.observed \in {"no", "same", "changed"}
    BY DEF Pages, Renewals, Asks, Reports

LEMMA ViewFields ==
    ASSUME NEW v \in Views
    PROVE  /\ v.tab \in Tabs /\ v.me \in Pages /\ v.lock \in Tabs \cup {None}
           /\ v.claim \in Claims \cup {None} /\ v.counter \in 0 .. MaxGeneration
    BY DEF Views

\* A view whose page changes.
WithMe(v, q) == [v EXCEPT !.me = q]

LEMMA WithMeFields ==
    ASSUME NEW v \in Views, NEW q \in Pages, NEW w, w = WithMe(v, q)
    PROVE  /\ w \in Views /\ w.tab = v.tab /\ w.me = q /\ w.lock = v.lock /\ w.claim = v.claim
           /\ w.counter = v.counter
    BY DEF Views, WithMe

\* When only the page changes, only the page has to be looked at.
LEMMA MeStep ==
    ASSUME NEW v, Good(v), NEW q \in Pages, NEW w, w = WithMe(v, q), Tidy(q),
           kind = "locks" => Locked(v.tab, q, v.claim, v.lock),
           kind # "locks" => Claiming(v.tab, q, v.claim, v.counter),
           kind # "locks" => Numbered(v.tab, q, v.claim, v.counter, acks[v.tab]) /\ Watched(v.tab, q, v.claim)
    PROVE  Good(w)
  <1>1. /\ w \in Views /\ w.tab = v.tab /\ w.me = q /\ w.lock = v.lock /\ w.claim = v.claim
        /\ w.counter = v.counter
      BY WithMeFields DEF Good
  <1>2. \A t \in Tabs : Of(w, t) = IF t = v.tab THEN q ELSE Of(v, t)
      BY <1>1 DEF Of
  <1>3. kind = "locks" => \A t \in Tabs : Locked(t, Of(w, t), w.claim, w.lock)
      BY <1>1, <1>2 DEF Good
  <1>4. kind # "locks" => \A t \in Tabs : Claiming(t, Of(w, t), w.claim, w.counter)
      BY <1>1, <1>2 DEF Good
  <1>5. Course(w)
      BY <1>1, <1>2 DEF Good, Course
  <1> QED BY <1>1, <1>3, <1>4, <1>5 DEF Good

\* What the invariant says of the page of the view.
LEMMA GoodMe ==
    ASSUME NEW v, Good(v)
    PROVE  /\ v \in Views /\ Tidy(v.me) /\ v.me \in Pages /\ v.tab \in Tabs
           /\ kind = "locks" => Locked(v.tab, v.me, v.claim, v.lock)
           /\ kind # "locks" => Claiming(v.tab, v.me, v.claim, v.counter)
           /\ kind # "locks" => /\ Numbered(v.tab, v.me, v.claim, v.counter, acks[v.tab])
                               /\ Watched(v.tab, v.me, v.claim)
  <1>1. v \in Views /\ v.tab \in Tabs /\ v.me \in Pages
      BY ViewFields DEF Good
  <1>2. Of(v, v.tab) = v.me
      BY DEF Of
  <1>3. kind # "locks" => /\ Numbered(v.tab, v.me, v.claim, v.counter, acks[v.tab])
                          /\ Watched(v.tab, v.me, v.claim)
      BY <1>1, <1>2 DEF Good, Course
  <1> QED BY <1>1, <1>2, <1>3 DEF Good

\* Nothing lasts longer in q than in p.
Softer(p, q) == \A n \in Nat : Within(p, n) => Within(q, n)

\* A page that asks and believes the same, and is not louder.
LEMMA ClaimingStays ==
    ASSUME NEW p \in Pages, NEW q \in Pages, NEW t, NEW c \in Claims \cup {None}, NEW n,
           Claiming(t, p, c, n), Asked(q) = Asked(p), Softer(p, q),
           Going(q) => Going(p) \/ p.state = "held"
    PROVE  Claiming(t, q, c, n)
  <1>1. /\ q.state = p.state /\ q.generation = p.generation /\ q.previous = p.previous
        /\ q.ask = p.ask /\ q.told = p.told
      BY DEF Asked
  <1>2. 0 \in Nat /\ (c # None => Rest(c) \in Nat)
      BY Times DEF Rest, Claims
  <1>3. (Within(p, 0) => Within(q, 0)) /\ (c # None => (Within(p, Rest(c)) => Within(q, Rest(c))))
      BY <1>2 DEF Softer
  <1> QED BY <1>1, <1>3 DEF Claiming

LEMMA LockedStays ==
    ASSUME NEW p, NEW q, NEW t, NEW c, NEW l, Locked(t, p, c, l), Asked(q) = Asked(p),
           HasLease(q) => HasLease(p) \/ p.state = "held"
    PROVE  Locked(t, q, c, l)
    BY DEF Locked, Asked

\* Nor do the generations mind, unless a tone begins without the claim.
LEMMA NumberedStays ==
    ASSUME NEW p, NEW q, NEW t, NEW c, NEW n, NEW a, Numbered(t, p, c, n, a), Asked(q) = Asked(p),
           q.tone => p.tone \/ p.state = "held"
    PROVE  Numbered(t, q, c, n, a) /\ (Watched(t, p, c) => Watched(t, q, c))
  <1>1. /\ q.state = p.state /\ q.generation = p.generation /\ q.previous = p.previous
        /\ q.ask = p.ask /\ q.told = p.told /\ q.observed = p.observed /\ q.stopping = p.stopping
      BY DEF Asked
  <1>2. q.tone => q.state # "none"
      BY <1>1 DEF Numbered
  <1> QED BY <1>1, <1>2 DEF Numbered, Watched

\* All at once.
LEMMA QuietMe ==
    ASSUME NEW v, Good(v), NEW q \in Pages, NEW w, w = WithMe(v, q), Tidy(q),
           Asked(q) = Asked(v.me), Softer(v.me, q),
           Going(q) => Going(v.me) \/ v.me.state = "held",
           HasLease(q) => HasLease(v.me) \/ v.me.state = "held",
           q.tone => v.me.tone \/ v.me.state = "held"
    PROVE  Good(w)
  <1>1. /\ v \in Views /\ v.me \in Pages
        /\ kind = "locks" => Locked(v.tab, v.me, v.claim, v.lock)
        /\ kind # "locks" => Claiming(v.tab, v.me, v.claim, v.counter)
        /\ kind # "locks" => /\ Numbered(v.tab, v.me, v.claim, v.counter, acks[v.tab])
                            /\ Watched(v.tab, v.me, v.claim)
      BY GoodMe
  <1>2. kind = "locks" => Locked(v.tab, q, v.claim, v.lock)
      BY <1>1, LockedStays
  <1>3. kind # "locks" => Claiming(v.tab, q, v.claim, v.counter)
      BY <1>1, ViewFields, ClaimingStays
  <1>4. kind # "locks" => /\ Numbered(v.tab, q, v.claim, v.counter, acks[v.tab])
                          /\ Watched(v.tab, q, v.claim)
      BY <1>1, NumberedStays
  <1> QED BY <1>2, <1>3, <1>4, MeStep

-----------------------------------------------------------------------------
(* The operators that leave the claim alone *)

\* The stages, and what a lease is.
LEMMA StageFacts ==
    /\ \A s \in {"off", "claiming", "preparing", "renewing", "playing", "held", "resuming"} : s \in Stages
    /\ \A s \in Stages : s \in {"off", "claiming", "preparing", "renewing", "playing", "held", "resuming"}
    /\ "off" \notin Leased /\ "claiming" \notin Leased
    /\ \A s \in {"preparing", "renewing", "playing", "held", "resuming"} : s \in Leased
    BY DEF Stages, Leased

LEMMA EndedGood ==
    ASSUME NEW v, Good(v), NEW w, w = Ended(v)
    PROVE  Good(w)
  <1> PICK q : q = [v.me EXCEPT !.permit = None]
      OBVIOUS
  <1>1. v \in Views /\ v.me \in Pages /\ Tidy(v.me)
      BY GoodMe
  <1>2. CASE HasLease(v.me)
      BY <1>2 DEF Ended
  <1>3. CASE ~ HasLease(v.me)
    <2>1. w = WithMe(v, q)
        BY <1>1, <1>3 DEF Ended, WithMe, Views
    <2>2. q \in Pages
        BY <1>1 DEF Pages
    <2>3. /\ Asked(q) = Asked(v.me) /\ q.stage = v.me.stage /\ q.tone = v.me.tone /\ q.wanted = v.me.wanted
          /\ q.click = v.me.click /\ q.context = v.me.context /\ q.silencing = v.me.silencing
          /\ q.retained = v.me.retained /\ q.permit = None /\ q.renewal = v.me.renewal
        BY <1>1 DEF Pages, Asked
    <2>4. Tidy(q) /\ (Going(q) => Going(v.me)) /\ (HasLease(q) => HasLease(v.me))
        BY <1>1, <2>3 DEF Tidy, Going, HasLease
    <2>5. Softer(v.me, q)
        BY <2>3 DEF Softer, Within
    <2> QED BY <2>1, <2>2, <2>3, <2>4, <2>5, QuietMe
  <1> QED BY <1>2, <1>3

LEMMA NoMetronomeGood ==
    ASSUME NEW v, Good(v), NEW w, w = NoMetronome(v)
    PROVE  Good(w)
  <1> PICK q : q = [v.me EXCEPT !.stage = "off", !.wanted = FALSE, !.click = 0]
      OBVIOUS
  <1> PICK x : x = WithMe(v, q)
      OBVIOUS
  <1>1. v \in Views /\ v.me \in Pages /\ Tidy(v.me)
      BY GoodMe
  <1>2. w = Ended(x)
      BY <1>1 DEF NoMetronome, WithMe, Views
  <1>3. q \in Pages
      BY ZenonT(60), <1>1, Times, StageFacts DEF Pages
  <1>4. /\ Asked(q) = Asked(v.me) /\ q.stage = "off" /\ q.tone = v.me.tone /\ ~ q.wanted
        /\ q.click = 0 /\ q.silencing = v.me.silencing
        /\ q.retained = v.me.retained /\ q.permit = v.me.permit /\ q.renewal = v.me.renewal
      BY <1>1 DEF Pages, Asked
  <1>5. Tidy(q) /\ ~ Going(q) /\ (HasLease(q) => HasLease(v.me))
      BY <1>1, <1>4, StageFacts DEF Tidy, Going, HasLease
  <1>6. Softer(v.me, q)
      BY <1>4 DEF Softer, Within
  <1>7. Good(x)
      BY <1>3, <1>4, <1>5, <1>6, QuietMe
  <1> QED BY <1>2, <1>7, EndedGood

\* The context of a page that may sound.
Contexted(p, x) == [p EXCEPT !.context = x, !.silencing = FALSE]

LEMMA ContextFields ==
    ASSUME NEW p \in Pages, NEW x \in {"none", "starting", "running", "suspended"},
           NEW q, q = Contexted(p, x)
    PROVE  /\ q \in Pages /\ Asked(q) = Asked(p) /\ q.stage = p.stage /\ q.tone = p.tone /\ q.wanted = p.wanted
           /\ q.click = p.click /\ q.context = x /\ ~ q.silencing
           /\ q.retained = p.retained /\ q.permit = p.permit /\ q.renewal = p.renewal
  <1>1. q \in Pages
      BY ZenonT(60) DEF Pages, Contexted
  <1> QED BY <1>1 DEF Pages, Asked, Contexted

LEMMA UnlockGood ==
    ASSUME NEW v, Good(v), NEW w, w = Unlock(v)
    PROVE  Good(w) /\ w.tab = v.tab /\ w.claim = v.claim /\ w.counter = v.counter /\ w.lock = v.lock
           /\ Asked(w.me) = Asked(v.me) /\ ~ w.me.silencing /\ w.me.tone = v.me.tone
           /\ w.me.stage = v.me.stage /\ w.me.retained = v.me.retained /\ w.me.wanted = v.me.wanted
  <1> PICK x : x = IF v.me.context = "running" THEN v.me.context ELSE "starting"
      OBVIOUS
  <1> PICK q : q = Contexted(v.me, x)
      OBVIOUS
  <1>1. v \in Views /\ v.me \in Pages /\ Tidy(v.me)
      BY GoodMe
  <1>2. w = WithMe(v, q)
      BY <1>1 DEF Unlock, WithMe, Views, Contexted
  <1>3. x \in {"running", "starting"} /\ (v.me.context = "running" => x = "running")
    <2>1. CASE v.me.context = "running"
        BY <2>1
    <2>2. CASE v.me.context # "running"
        BY <2>2
    <2> QED BY <2>1, <2>2
  <1>5. /\ q \in Pages /\ Asked(q) = Asked(v.me) /\ q.stage = v.me.stage /\ q.tone = v.me.tone
        /\ q.wanted = v.me.wanted /\ q.click = v.me.click /\ q.context = x /\ ~ q.silencing
        /\ q.retained = v.me.retained /\ q.permit = v.me.permit /\ q.renewal = v.me.renewal
    <2>1. x \in {"none", "starting", "running", "suspended"}
        BY <1>3
    <2> QED BY <1>1, <2>1, ContextFields
  <1>6. Tidy(q) /\ (Going(q) => Going(v.me)) /\ (HasLease(q) => HasLease(v.me))
      BY <1>1, <1>3, <1>5 DEF Tidy, Going, HasLease
  <1>7. Softer(v.me, q)
      BY <1>5 DEF Softer, Within
  <1>8. Good(w)
      BY <1>2, <1>5, <1>6, <1>7, QuietMe
  <1>9. /\ w.tab = v.tab /\ w.me = q /\ w.lock = v.lock /\ w.claim = v.claim
        /\ w.counter = v.counter
      BY <1>1, <1>2, <1>5, WithMeFields
  <1> QED BY <1>5, <1>8, <1>9


\* Everything is stopped; an answer that is still to come may come too late.
Revoked(p, s, r) == [p EXCEPT !.permit = None, !.issued = FALSE, !.click = 0, !.tone = FALSE,
                              !.renewal = r, !.stage = s]

LEMMA RevokedFields ==
    ASSUME NEW p \in Pages, NEW s \in Stages, NEW r \in Renewals \cup {None},
           NEW q, q = Revoked(p, s, r)
    PROVE  /\ q \in Pages /\ Asked(q) = Asked(p) /\ q.stage = s /\ ~ q.tone /\ q.wanted = p.wanted
           /\ q.click = 0 /\ q.context = p.context /\ q.silencing = p.silencing
           /\ q.retained = p.retained /\ q.permit = None /\ q.renewal = r
  <1>1. q \in Pages
      BY ZenonT(60), Times DEF Pages, Renewals, Revoked
  <1> QED BY <1>1 DEF Pages, Asked, Revoked

LEMMA EndedFields ==
    ASSUME NEW v \in Views, NEW w, w = Ended(v)
    PROVE  /\ w.tab = v.tab /\ w.claim = v.claim /\ w.lock = v.lock /\ w.counter = v.counter
           /\ Asked(w.me) = Asked(v.me) /\ w.me.stage = v.me.stage /\ w.me.context = v.me.context
           /\ w.me.retained = v.me.retained /\ w.me.click = v.me.click /\ w.me.tone = v.me.tone
           /\ w.me.wanted = v.me.wanted /\ w.me.silencing = v.me.silencing
  <1>1. CASE HasLease(v.me)
      BY <1>1 DEF Ended
  <1>2. CASE ~ HasLease(v.me)
      BY <1>2 DEF Ended, Views, Pages, Asked
  <1> QED BY <1>1, <1>2

LEMMA RevokeAllGood ==
    ASSUME NEW v, Good(v), NEW w, w = RevokeAll(v)
    PROVE  /\ Good(w) /\ w.me.stage \notin {"playing", "resuming"} /\ w.me.click = 0 /\ ~ w.me.tone
           /\ Asked(w.me) = Asked(v.me) /\ w.me.context = v.me.context /\ w.me.retained = v.me.retained
           /\ w.tab = v.tab /\ w.claim = v.claim /\ w.lock = v.lock /\ w.counter = v.counter
  <1>s. PICK s : s = IF v.me.stage \in {"playing", "resuming"} THEN "held" ELSE v.me.stage
      OBVIOUS
  <1>r. PICK r : r = IF v.me.issued /\ v.me.renewal # None THEN [v.me.renewal EXCEPT !.late = TRUE] ELSE v.me.renewal
      OBVIOUS
  <1>q. PICK q : q = Revoked(v.me, s, r)
      OBVIOUS
  <1>x. PICK x : x = WithMe(v, q)
      OBVIOUS
  <1>1. v \in Views /\ v.me \in Pages /\ Tidy(v.me)
      BY GoodMe
  <1>2. w = Ended(x)
    <2>1. RevokeAll(v) = Ended([v EXCEPT !.me.permit = None, !.me.issued = FALSE, !.me.click = 0, !.me.tone = FALSE,
                                         !.me.renewal = r, !.me.stage = s])
        BY <1>s, <1>r DEF RevokeAll
    <2>2. x = [v EXCEPT !.me.permit = None, !.me.issued = FALSE, !.me.click = 0, !.me.tone = FALSE,
                        !.me.renewal = r, !.me.stage = s]
        BY <1>1, <1>q, <1>x DEF WithMe, Views, Revoked
    <2> QED BY <2>1, <2>2
  <1>3. s \in Stages /\ s \notin {"playing", "resuming"} /\ (s # v.me.stage => s = "held" /\ v.me.stage \in Leased)
    <2>1. v.me.stage \in Stages
        BY <1>1, PageFields
    <2>2. CASE v.me.stage \in {"playing", "resuming"}
        BY <1>s, <2>2, StageFacts
    <2>3. CASE v.me.stage \notin {"playing", "resuming"}
        BY <1>s, <2>1, <2>3
    <2> QED BY <2>2, <2>3
  <1>4. r \in Renewals \cup {None}
        /\ (r # None => v.me.renewal # None /\ r.ok = v.me.renewal.ok /\ r.left = v.me.renewal.left)
    <2>1. v.me.renewal \in Renewals \cup {None}
        BY <1>1, PageFields
    <2>2. CASE v.me.issued /\ v.me.renewal # None
      <3>1. r = [v.me.renewal EXCEPT !.late = TRUE] /\ v.me.renewal \in Renewals
          BY <1>r, <2>1, <2>2
      <3>2. r \in Renewals /\ r.ok = v.me.renewal.ok /\ r.left = v.me.renewal.left
          BY <3>1 DEF Renewals
      <3> QED BY <3>2, <2>2
    <2>3. CASE ~ (v.me.issued /\ v.me.renewal # None)
        BY <1>r, <2>1, <2>3
    <2> QED BY <2>2, <2>3
  <1>5. /\ q \in Pages /\ Asked(q) = Asked(v.me) /\ q.stage = s /\ ~ q.tone /\ q.wanted = v.me.wanted
        /\ q.click = 0 /\ q.context = v.me.context /\ q.silencing = v.me.silencing
        /\ q.retained = v.me.retained /\ q.permit = None /\ q.renewal = r
      BY <1>q, <1>1, <1>3, <1>4, RevokedFields
  <1>6. Tidy(q) /\ (Going(q) => Going(v.me)) /\ (HasLease(q) => HasLease(v.me))
      BY <1>1, <1>3, <1>5, StageFacts DEF Tidy, Going, HasLease
  <1>7. Softer(v.me, q)
      BY <1>1, <1>4, <1>5, PageFields DEF Softer, Within
  <1>8. Good(x)
      BY <1>x, <1>5, <1>6, <1>7, QuietMe
  <1>9. x \in Views /\ x.tab = v.tab /\ x.me = q /\ x.lock = v.lock /\ x.claim = v.claim
        /\ x.counter = v.counter
      BY <1>x, <1>1, <1>5, WithMeFields
  <1>10. Good(w)
      BY <1>2, <1>8, EndedGood
  <1> QED BY <1>2, <1>3, <1>5, <1>9, <1>10, EndedFields

-----------------------------------------------------------------------------
(* A claim that changes *)

Rewritten(v, d, n, l, q) == [v EXCEPT !.lock = l, !.claim = d, !.counter = n, !.me = q]

LEMMA RewrittenFields ==
    ASSUME NEW v \in Views, NEW q \in Pages, NEW d \in Claims \cup {None}, NEW n \in 0 .. MaxGeneration,
           NEW l \in Tabs \cup {None}, NEW w, w = Rewritten(v, d, n, l, q)
    PROVE  /\ w \in Views /\ w.tab = v.tab /\ w.me = q /\ w.lock = l /\ w.claim = d
           /\ w.counter = n
    BY DEF Views, Rewritten

\* What tab u may do to a claim c: nothing, remove its own, or write its own anew when
\* there was none, or its own, or one that is stale.
Handed(u, c, d) ==
    \/ d = c
    \/ d = None /\ Owns(u, c)
    \/ d.age = 0 /\ Owns(u, d) /\ (c = None \/ Owns(u, c) \/ c.age > Stale)

LEMMA RestFacts ==
    ASSUME NEW c \in Claims
    PROVE  /\ Rest(c) \in 0 .. Permit
           /\ c.age > Stale => Rest(c) = 0
           /\ c.age = 0 => Rest(c) = Permit
    BY Times DEF Rest, Claims

LEMMA WithinFacts ==
    ASSUME NEW p \in Pages, NEW m \in 0 .. Permit, NEW n \in 0 .. Permit, m <= n
    PROVE  /\ Within(p, m) => Within(p, n)
           /\ Within(p, Permit)
  <1>1. /\ p.click \in 0 .. Permit /\ p.permit \in 0 .. Permit \cup {None}
        /\ p.renewal \in Renewals \cup {None}
      BY PageFields
  <1>2. p.renewal # None => p.renewal.left \in 0 .. Permit
      BY <1>1 DEF Renewals
  <1> QED BY <1>1, <1>2, Times DEF Within

LEMMA WithinPermit ==
    ASSUME NEW p \in Pages
    PROVE  Within(p, Permit)
    BY WithinFacts, Times

\* The other tabs do not mind.
LEMMA HandedStays ==
    ASSUME NEW u \in Tabs, NEW t \in Tabs, t # u, NEW p \in Pages, NEW c \in Claims \cup {None},
           NEW d \in Claims \cup {None}, NEW m \in Nat, NEW n \in Nat, m <= n, Handed(u, c, d),
           Claiming(t, p, c, m), d # None => d.generation <= n
    PROVE  Claiming(t, p, d, n)
  <1>1. /\ p.generation \in 0 .. MaxGeneration /\ p.ask \in Asks \cup {None}
      BY PageFields
  <1>2. p.ask # None => p.ask.generation \in Nat
      BY <1>1, Times DEF Asks
  <1>3. p.generation <= n /\ (p.ask # None => p.ask.generation <= n)
      BY <1>1, <1>2, Times DEF Claiming
  <1>4. CASE d = c
      BY <1>3, <1>4 DEF Claiming
  <1>5. CASE d = None /\ Owns(u, c)
    <2>1. ~ Owns(t, c) /\ ~ Owns(t, d)
        BY <1>5 DEF Owns
    <2> QED BY <1>3, <1>5, <2>1 DEF Claiming
  <1>6. CASE d.age = 0 /\ Owns(u, d) /\ (c = None \/ Owns(u, c) \/ c.age > Stale)
    <2>1. d \in Claims /\ ~ Owns(t, d) /\ Rest(d) = Permit
        BY <1>6, RestFacts DEF Owns
    <2>2. Within(p, Rest(d))
        BY <2>1, Times, WithinFacts
    <2>3. CASE c = None \/ Owns(u, c)
      <3>1. ~ Owns(t, c)
          BY <2>3 DEF Owns
      <3> QED BY <1>3, <2>1, <2>2, <3>1 DEF Claiming
    <2>4. CASE c # None /\ c.age > Stale
      <3>1. c \in Claims /\ Rest(c) = 0
          BY <2>4, RestFacts
      <3>2. Within(p, 0)
          BY <2>4, <3>1 DEF Claiming
      <3> QED BY <1>3, <2>1, <2>2, <3>2 DEF Claiming
    <2> QED BY <1>6, <2>3, <2>4
  <1> QED BY <1>4, <1>5, <1>6 DEF Handed

\* What becomes of the record in a view: it goes, stays in the same generation, or has a new one.
Follows(c, d, m, n) ==
    \/ d = None
    \/ d # None /\ c # None /\ d.owner = c.owner /\ d.generation = c.generation /\ n = m
    \/ d # None /\ d.generation = n /\ m < n

\* A record of a new generation tells the other tabs nothing.
LEMMA NumberedOthers ==
    ASSUME NEW t, NEW p \in Pages, NEW c \in Claims \cup {None}, NEW d \in Claims \cup {None},
           NEW m \in Nat, NEW n \in Nat, NEW a \in 0 .. MaxGeneration, m <= n, Follows(c, d, m, n),
           Claiming(t, p, c, m), Numbered(t, p, c, m, a)
    PROVE  Numbered(t, p, d, n, a)
  <1>1. /\ p.generation \in Nat /\ p.ask \in Asks \cup {None} /\ p.stopping \subseteq Nat
        /\ p.ask # None => p.ask.generation \in Nat
      BY PageFields, Times DEF Asks
  <1>2. p.generation <= m /\ (p.ask # None => p.ask.generation <= m)
      BY DEF Claiming
  <1>3. \A g \in p.stopping \cup {a} : g <= n
    <2>1. ASSUME NEW g \in p.stopping \cup {a}
          PROVE  g <= n
      <3>1. g <= m
          BY <2>1 DEF Numbered
      <3> QED BY <1>1, <2>1, <3>1, Times
    <2> QED BY <2>1
  <1>4. d # None => d.generation = n
      BY DEF Follows, Numbered
  <1>5. /\ d # None /\ p.generation = d.generation => d.owner = t
        /\ p.ask # None /\ d # None /\ p.ask.generation = d.generation => d.owner = t
    <2>1. CASE d # None /\ c # None /\ d.owner = c.owner /\ d.generation = c.generation
        BY <2>1 DEF Numbered
    <2>2. CASE d # None /\ d.generation = n /\ m < n
        BY <1>1, <1>2, <2>2
    <2> QED BY <2>1, <2>2 DEF Follows
  <1> QED BY <1>3, <1>4, <1>5 DEF Numbered

LEMMA ClaimStep ==
    ASSUME NEW v, Good(v), NEW q \in Pages, NEW d \in Claims \cup {None}, NEW n \in 0 .. MaxGeneration,
           NEW l \in Tabs \cup {None}, NEW w, w = Rewritten(v, d, n, l, q), Tidy(q), v.counter <= n,
           kind = "locks" => Locked(v.tab, q, d, l) /\ (l = v.lock \/ v.lock \in {None, v.tab}),
           kind # "locks" => Claiming(v.tab, q, d, n) /\ Handed(v.tab, v.claim, d),
           kind # "locks" => /\ Numbered(v.tab, q, d, n, acks[v.tab]) /\ Watched(v.tab, q, d)
                             /\ Follows(v.claim, d, v.counter, n) /\ Succeeds(d)
    PROVE  Good(w)
  <1>1. v \in Views /\ v.tab \in Tabs /\ v.counter \in 0 .. MaxGeneration /\ v.claim \in Claims \cup {None}
      BY GoodMe, ViewFields
  <1>2. /\ w \in Views /\ w.tab = v.tab /\ w.me = q /\ w.lock = l /\ w.claim = d /\ w.counter = n
      BY <1>1 DEF Views, Rewritten
  <1>3. Of(w, v.tab) = q /\ \A t \in Tabs : t # v.tab => Of(w, t) = Of(v, t) /\ Of(v, t) = tabs[t]
      BY <1>2 DEF Of
  <1>4. ASSUME kind = "locks", NEW t \in Tabs
        PROVE  Locked(t, Of(w, t), w.claim, w.lock)
    <2>1. CASE t = v.tab
        BY <1>2, <1>3, <1>4, <2>1
    <2>2. CASE t # v.tab
      <3>1. Locked(t, Of(v, t), v.claim, v.lock) /\ Of(w, t) = Of(v, t) /\ d = None
          BY <1>3, <1>4, <2>2 DEF Good, Locked
      <3>2. Of(v, t).state = "held" => v.lock = t /\ l = t
          BY <3>1, <2>2, <1>4, Times DEF Locked
      <3> QED BY <1>2, <3>1, <3>2 DEF Locked
    <2> QED BY <2>1, <2>2
  <1>5. ASSUME kind # "locks", NEW t \in Tabs
        PROVE  Claiming(t, Of(w, t), w.claim, w.counter)
    <2>1. CASE t = v.tab
        BY <1>2, <1>3, <1>5, <2>1
    <2>2. CASE t # v.tab
      <3>1. Claiming(t, Of(v, t), v.claim, v.counter) /\ Of(w, t) = Of(v, t) /\ Of(v, t) = tabs[t]
          BY <1>3, <1>5, <2>2 DEF Good
      <3>2. d # None => d.generation <= n
          BY <1>5 DEF Claiming
      <3>3. tabs[t] \in Pages
          BY DEF Good, Typed
      <3>4. v.counter \in Nat /\ n \in Nat /\ v.tab # t
          BY <1>1, <2>2, Times
      <3>5. /\ v.tab \in Tabs /\ v.claim \in Claims \cup {None} /\ v.counter <= n
            /\ Handed(v.tab, v.claim, d) /\ Claiming(t, tabs[t], v.claim, v.counter)
          BY <1>1, <1>5, <3>1
      <3>6. Claiming(t, tabs[t], d, n)
          BY <3>2, <3>3, <3>4, <3>5, HandedStays
      <3> QED BY <1>2, <3>1, <3>6
    <2> QED BY <2>1, <2>2
  <1>6. ASSUME kind # "locks", NEW t \in Tabs
        PROVE  Numbered(t, Of(w, t), w.claim, w.counter, acks[t])
    <2>1. CASE t = v.tab
        BY <1>2, <1>3, <1>6, <2>1
    <2>2. CASE t # v.tab
      <3>1. /\ Claiming(t, Of(v, t), v.claim, v.counter) /\ Of(w, t) = Of(v, t) /\ Of(v, t) = tabs[t]
            /\ Numbered(t, Of(v, t), v.claim, v.counter, acks[t])
          BY <1>3, <1>6, <2>2 DEF Good, Course
      <3>2. tabs[t] \in Pages /\ acks[t] \in 0 .. MaxGeneration
          BY DEF Good, Typed
      <3>3. v.counter \in Nat /\ n \in Nat /\ v.counter <= n
          BY <1>1, Times
      <3>4. Numbered(t, tabs[t], d, n, acks[t])
          BY <1>1, <1>6, <3>1, <3>2, <3>3, NumberedOthers
      <3> QED BY <1>2, <3>1, <3>4
    <2> QED BY <2>1, <2>2
  <1>7. Course(w)
    <2>1. kind # "locks" => counter <= w.counter
      <3>1. kind # "locks" => counter <= v.counter
          BY DEF Good, Course
      <3>2. counter \in Nat /\ v.counter \in Nat /\ n \in Nat
          BY <1>1, Times DEF Good, Typed
      <3> QED BY <1>2, <3>1, <3>2
    <2>2. kind # "locks" => \A t \in Tabs : Watched(t, tabs[t], claim)
        BY DEF Good, Course
    <2> QED BY <1>2, <1>6, <2>1, <2>2 DEF Course
  <1> QED BY <1>2, <1>4, <1>5, <1>7 DEF Good

\* What a view may make of its record, when it is the same generation or none.
LEMMA SucceedsOn ==
    ASSUME NEW c, Succeeds(c), NEW d,
           d = None \/ (d # None /\ c # None /\ d.owner = c.owner /\ d.generation = c.generation /\ d.state = c.state)
    PROVE  Succeeds(d)
    BY DEF Succeeds

LEMMA CourseFacts ==
    ASSUME NEW v, Good(v), kind # "locks"
    PROVE  counter <= v.counter /\ Succeeds(v.claim) /\ counter \in Nat
    BY Times DEF Good, Course, Typed

\* An answer that is to come.
Renewing(p, r) == [p EXCEPT !.renewal = r]

LEMMA RenewalFields ==
    ASSUME NEW p \in Pages, NEW r \in Renewals \cup {None}, NEW q, q = Renewing(p, r)
    PROVE  /\ q \in Pages /\ Asked(q) = Asked(p) /\ q.stage = p.stage /\ q.tone = p.tone /\ q.wanted = p.wanted
           /\ q.click = p.click /\ q.context = p.context /\ q.silencing = p.silencing
           /\ q.retained = p.retained /\ q.permit = p.permit /\ q.renewal = r
  <1>1. q \in Pages
      BY DEF Pages, Renewals, Renewing
  <1> QED BY <1>1 DEF Pages, Asked, Renewing

\* A record that is written again by its owner.
Refreshed(c, g) == [c EXCEPT !.permit = Permit, !.age = 0, !.guard = g]

LEMMA RefreshedFields ==
    ASSUME NEW c \in Claims, NEW g \in {"verified", "unverified"}, NEW d, d = Refreshed(c, g)
    PROVE  d \in Claims /\ d.age = 0 /\ d.owner = c.owner /\ d.state = c.state /\ d.generation = c.generation
  <1>1. 0 \in 0 .. Stale + 1 /\ Permit \in 0 .. Permit
      BY Times
  <1>2. d \in Claims
      BY <1>1 DEF Claims, Refreshed
  <1> QED BY <1>1, <1>2 DEF Claims, Refreshed

LEMMA RenewGood ==
    ASSUME NEW v, Good(v), NEW w, w = Renew(v)
    PROVE  Good(w)
  <1>1. v \in Views /\ v.me \in Pages /\ Tidy(v.me) /\ v.tab \in Tabs /\ v.claim \in Claims \cup {None}
        /\ v.counter \in 0 .. MaxGeneration /\ v.lock \in Tabs \cup {None}
      BY GoodMe, ViewFields
  <1>2. CASE ~ HasLease(v.me) \/ v.me.context # "running" \/ v.me.renewal # None
      BY <1>2 DEF Renew
  <1>3. CASE ~ (~ HasLease(v.me) \/ v.me.context # "running" \/ v.me.renewal # None)
    <2>h. PICK h \in BOOLEAN : h = Holds(v)
        BY DEF Holds
    <2>d. PICK d : d = IF h /\ v.claim # None
                       THEN Refreshed(v.claim, Guard(v.me)) ELSE v.claim
        OBVIOUS
    <2>r. PICK r : r = [ok |-> h, left |-> Permit, late |-> FALSE]
        OBVIOUS
    <2>q. PICK q : q = Renewing(v.me, r)
        OBVIOUS
    <2>1. w = Rewritten(v, d, v.counter, v.lock, q)
      <3>1. w = [v EXCEPT !.claim = d, !.me.renewal = r]
          BY <1>3, <2>h, <2>d, <2>r DEF Renew, Refreshed
      <3> QED BY <1>1, <2>q, <3>1 DEF Rewritten, Renewing, Views
    <2>2. r \in Renewals /\ r.ok = h /\ r.left = Permit
        BY <2>r, Times DEF Renewals
    <2>3. /\ q \in Pages /\ Asked(q) = Asked(v.me) /\ q.stage = v.me.stage /\ q.tone = v.me.tone
          /\ q.wanted = v.me.wanted /\ q.click = v.me.click /\ q.context = v.me.context
          /\ q.silencing = v.me.silencing /\ q.retained = v.me.retained /\ q.permit = v.me.permit
          /\ q.renewal = r
        BY <1>1, <2>q, <2>2, RenewalFields
    <2>4. Tidy(q) /\ (Going(q) => Going(v.me)) /\ (HasLease(q) => HasLease(v.me))
        BY <1>1, <2>3 DEF Tidy, Going, HasLease
    <2>5. d \in Claims \cup {None} /\ (~ h \/ v.claim = None => d = v.claim)
          /\ (h /\ v.claim # None => d \in Claims /\ d.age = 0 /\ d.owner = v.claim.owner /\ d.state = v.claim.state
                                     /\ d.generation = v.claim.generation)
      <3>1. CASE h /\ v.claim # None
        <4>1. Guard(v.me) \in {"verified", "unverified"}
            BY DEF Guard
        <4>2. v.claim \in Claims
            BY <1>1, <3>1
        <4>3. d = Refreshed(v.claim, Guard(v.me))
            BY <2>d, <3>1
        <4> QED BY <3>1, <4>1, <4>2, <4>3, RefreshedFields
      <3>2. CASE ~ (h /\ v.claim # None)
          BY <1>1, <2>d, <3>2
      <3> QED BY <3>1, <3>2
    <2>6. ASSUME kind = "locks"
          PROVE  Locked(v.tab, q, d, v.lock)
      <3>1. Locked(v.tab, v.me, v.claim, v.lock)
          BY <2>6, GoodMe
      <3>2. Locked(v.tab, q, v.claim, v.lock) /\ v.claim = None
          BY <2>3, <2>4, <3>1 DEF Locked, Asked
      <3> QED BY <2>5, <3>2
    <2>7. ASSUME kind # "locks"
          PROVE  Claiming(v.tab, q, d, v.counter) /\ Handed(v.tab, v.claim, d)
      <3>1. Claiming(v.tab, v.me, v.claim, v.counter)
          BY <2>7, GoodMe
      <3>2. CASE h
        <4>1. v.claim # None /\ Owns(v.tab, v.claim) /\ v.me.state = "held" /\ v.claim.state = "running"
              /\ v.claim.generation = v.me.generation
            BY <2>7, <2>h, <3>2 DEF Holds, Mine, Owns
        <4>2. d \in Claims /\ Owns(v.tab, d) /\ d.age = 0 /\ d.state = "running" /\ d.generation = v.claim.generation
            BY <2>5, <3>2, <4>1, Times DEF Owns
        <4>3. v.me.ask = None
            BY <1>1, <3>1, <4>1, PageFields DEF Claiming, Asks
        <4>4. Within(q, Rest(d)) /\ d # None
            BY <2>3, <4>2, RestFacts, WithinPermit, Times
        <4>5. v.me.told # None => v.me.told.what # "ready"
            BY <3>1, <4>1 DEF Claiming
        <4>6. Claiming(v.tab, q, d, v.counter)
            BY <2>3, <3>1, <4>1, <4>2, <4>3, <4>4, <4>5 DEF Claiming, Asked
        <4> QED BY <4>1, <4>2, <4>6 DEF Handed
      <3>3. CASE ~ h
        <4>1. Softer(v.me, q)
            BY <2>2, <2>3, <3>3 DEF Softer, Within
        <4> QED BY <1>1, <2>3, <2>4, <2>5, <3>1, <3>3, <4>1, ClaimingStays DEF Handed
      <3> QED BY <3>2, <3>3
    <2>8. ASSUME kind # "locks"
          PROVE  /\ Numbered(v.tab, q, d, v.counter, acks[v.tab]) /\ Watched(v.tab, q, d)
                 /\ Follows(v.claim, d, v.counter, v.counter) /\ Succeeds(d)
      <3>1. /\ Numbered(v.tab, q, v.claim, v.counter, acks[v.tab]) /\ Watched(v.tab, q, v.claim)
          BY <2>3, <2>8, GoodMe, NumberedStays
      <3>2. d = None \/ (d # None /\ v.claim # None /\ d.owner = v.claim.owner
                         /\ d.generation = v.claim.generation /\ d.state = v.claim.state)
          BY <1>1, <2>5, Times
      <3>3. d = None => v.claim = None
          BY <2>5, Times
      <3>4. Succeeds(d)
          BY <2>8, <3>2, CourseFacts, SucceedsOn
      <3> QED BY <3>1, <3>2, <3>3, <3>4 DEF Numbered, Watched, Follows
    <2> QED BY <1>1, <2>1, <2>3, <2>4, <2>5, <2>6, <2>7, <2>8, Times, ClaimStep
  <1> QED BY <1>2, <1>3

\* What sounds, or will.
Sound(p) == <<p.stage, p.wanted, p.click, p.permit, p.renewal, p.tone, p.context, p.silencing, p.retained>>

\* What the invariant asks of the sound of a page depends on it alone.
LEMMA SoundFacts ==
    ASSUME NEW p, NEW q, Sound(q) = Sound(p)
    PROVE  /\ Tidy(p) => Tidy(q)
           /\ Going(p) <=> Going(q)
           /\ HasLease(p) <=> HasLease(q)
           /\ \A n : Within(p, n) <=> Within(q, n)
  <1>1. /\ q.stage = p.stage /\ q.wanted = p.wanted /\ q.click = p.click /\ q.permit = p.permit
        /\ q.renewal = p.renewal /\ q.tone = p.tone /\ q.context = p.context
        /\ q.silencing = p.silencing /\ q.retained = p.retained
      BY DEF Sound
  <1> QED BY <1>1 DEF Tidy, Going, HasLease, Within

Asking(p, a) == [p EXCEPT !.ask = a]

LEMMA AskingFields ==
    ASSUME NEW p \in Pages, NEW a \in Asks \cup {None}, NEW q, q = Asking(p, a)
    PROVE  /\ q \in Pages /\ Sound(q) = Sound(p) /\ q.ask = a /\ q.state = p.state
           /\ q.generation = p.generation /\ q.previous = p.previous /\ q.told = p.told
           /\ q.observed = p.observed /\ q.stopping = p.stopping /\ q.tone = p.tone
  <1>1. q \in Pages
      BY DEF Pages, Asks, Asking
  <1> QED BY <1>1 DEF Pages, Sound, Asking

LEMMA Generations ==
    ASSUME NEW v, Good(v), kind # "locks"
    PROVE  NextGeneration(v) = v.counter + 1
  <1>1. v.claim \in Claims \cup {None} /\ v.counter \in 0 .. MaxGeneration /\ Claiming(v.tab, v.me, v.claim, v.counter)
      BY GoodMe, ViewFields
  <1>2. v.claim # None => v.claim.generation <= v.counter /\ v.claim.generation \in 1 .. MaxGeneration
      BY <1>1 DEF Claiming, Claims
  <1> QED BY <1>1, <1>2, Times DEF NextGeneration

LEMMA ClaimedGood ==
    ASSUME NEW v, Good(v), kind # "locks", v.counter < MaxGeneration, v.me.state = "none", v.me.ask = None,
           v.me.observed # "same",
           NEW s, NEW r, \/ s = "running" /\ r = None
                         \/ /\ s = "pending-owner" /\ r \in Previous /\ Within(v.me, 0)
                            /\ r.generation = v.counter /\ r.owner # v.tab,
           v.claim = None \/ Owns(v.tab, v.claim) \/ v.claim.age > Stale,
           NEW w, w = Claimed(v, s, r)
    PROVE  Good(w)
  <1>1. v \in Views /\ v.me \in Pages /\ Tidy(v.me) /\ v.tab \in Tabs /\ v.claim \in Claims \cup {None}
        /\ v.counter \in 0 .. MaxGeneration /\ v.lock \in Tabs \cup {None}
        /\ Claiming(v.tab, v.me, v.claim, v.counter)
      BY GoodMe, ViewFields
  <1>g. PICK g : g = v.counter + 1
      OBVIOUS
  <1>2. g \in 1 .. MaxGeneration /\ v.counter < g /\ NextGeneration(v) = g /\ g \in 0 .. MaxGeneration
      BY <1>g, <1>1, Times, Generations
  <1>d. PICK d : d = [owner |-> v.tab, generation |-> g, state |-> s, age |-> 0, permit |-> 0, guard |-> Guard(v.me)]
      OBVIOUS
  <1>a. PICK a : a = [generation |-> g, previous |-> r, withdrawn |-> FALSE]
      OBVIOUS
  <1>q. PICK q : q = Asking(v.me, a)
      OBVIOUS
  <1>3. a \in Asks /\ a.generation = g /\ ~ a.withdrawn /\ a.previous = r
      BY <1>a, <1>2 DEF Asks
  <1>4. d \in Claims /\ d # None /\ Owns(v.tab, d) /\ d.age = 0 /\ d.generation = g /\ d.state = s
    <2>1. Guard(v.me) \in {"verified", "unverified"} /\ s \in {"running", "pending-owner"}
        BY DEF Guard
    <2>2. 0 \in 0 .. Stale + 1 /\ 0 \in 0 .. Permit
        BY Times
    <2>3. d \in Claims
        BY <1>d, <1>1, <1>2, <2>1, <2>2 DEF Claims
    <2> QED BY <1>d, <2>3, Times DEF Owns
  <1>5. w = Rewritten(v, d, g, v.lock, q)
    <2>1. w = [v EXCEPT !.counter = g, !.claim = d, !.me.ask = a]
        BY <1>2, <1>d, <1>a DEF Claimed
    <2> QED BY <1>1, <1>q, <2>1 DEF Rewritten, Asking, Views
  <1>6. /\ q \in Pages /\ Sound(q) = Sound(v.me) /\ q.ask = a /\ q.state = v.me.state
        /\ q.generation = v.me.generation /\ q.previous = v.me.previous /\ q.told = v.me.told
        /\ q.observed = v.me.observed /\ q.stopping = v.me.stopping /\ q.tone = v.me.tone
      BY <1>q, <1>1, <1>3, AskingFields
  <1>7. Tidy(q) /\ (Going(v.me) <=> Going(q)) /\ \A n : Within(v.me, n) <=> Within(q, n)
      BY <1>1, <1>6, SoundFacts
  <1>8. Handed(v.tab, v.claim, d)
      BY <1>4 DEF Handed
  <1>9. Claiming(v.tab, q, d, g)
    <2>1. Within(q, Rest(d))
        BY <1>4, <1>6, RestFacts, WithinPermit
    <2>2. v.me.generation \in 0 .. MaxGeneration /\ v.me.generation <= v.counter
        BY <1>1, PageFields DEF Claiming
    <2>3. q.generation < g /\ q.generation <= g
        BY <1>1, <1>2, <1>6, <2>2, Times
    <2>4. d.state = "pending-owner" => Within(q, 0)
        BY <1>4, <1>7
    <2> QED BY <1>1, <1>2, <1>3, <1>4, <1>6, <1>7, <2>1, <2>3, <2>4 DEF Claiming
  <1>10. Numbered(v.tab, q, d, g, acks[v.tab])
    <2>1. Numbered(v.tab, v.me, v.claim, v.counter, acks[v.tab])
        BY GoodMe
    <2>2. v.me.generation \in 0 .. MaxGeneration /\ v.me.generation <= v.counter
          /\ v.me.stopping \subseteq 1 .. MaxGeneration
        BY <1>1, PageFields DEF Claiming
    <2>3. \A h \in q.stopping \cup {acks[v.tab]} :
             /\ h <= g /\ h < a.generation
             /\ q.state # "none" \/ (q.told # None /\ q.told.what = "ready") => h < q.generation
      <3>1. ASSUME NEW h \in q.stopping \cup {acks[v.tab]}
            PROVE  /\ h <= g /\ h < a.generation
                   /\ q.state # "none" \/ (q.told # None /\ q.told.what = "ready") => h < q.generation
        <4>1. h \in v.me.stopping \cup {acks[v.tab]}
            BY <1>6, <3>1
        <4>2. acks[v.tab] \in 0 .. MaxGeneration
            BY <1>1 DEF Good, Typed
        <4>3. h \in Nat /\ h <= v.counter
            BY <2>1, <2>2, <4>1, <4>2, Times DEF Numbered
        <4>4. v.me.state # "none" \/ (v.me.told # None /\ v.me.told.what = "ready") => h < v.me.generation
            BY <2>1, <4>1 DEF Numbered
        <4> QED BY <1>1, <1>2, <1>3, <1>6, <4>3, <4>4, Times
      <3> QED BY <3>1
    <2>4. d.generation = g /\ d.owner = v.tab /\ q.generation # d.generation
        BY <1>1, <1>2, <1>4, <1>6, <2>2, Times DEF Owns
    <2>5. a.previous # None => a.generation = a.previous.generation + 1 /\ a.previous.owner # v.tab
      <3>1. a.previous # None => r \in Previous /\ r.generation = v.counter /\ r.owner # v.tab
          BY <1>3
      <3> QED BY <1>g, <1>3, <3>1
    <2>6. /\ q.tone => q.state # "none"
          /\ q.told # None => q.told.generation <= q.generation
          /\ q.previous # None => q.generation = q.previous.generation + 1 /\ q.previous.owner # v.tab
        BY <1>6, <2>1 DEF Numbered
    <2> QED BY <1>6, <2>3, <2>4, <2>5, <2>6 DEF Numbered
  <1>11. /\ Watched(v.tab, q, d) /\ Follows(v.claim, d, v.counter, g) /\ Succeeds(d)
    <2>1. Watched(v.tab, q, d)
        BY <1>6 DEF Watched
    <2>2. Follows(v.claim, d, v.counter, g)
        BY <1>2, <1>4 DEF Follows
    <2>3. d.generation > counter
        BY <1>1, <1>2, <1>4, CourseFacts, Times
    <2> QED BY <1>4, <2>1, <2>2, <2>3 DEF Succeeds
  <1> QED BY <1>1, <1>2, <1>4, <1>5, <1>6, <1>7, <1>8, <1>9, <1>10, <1>11, Times, ClaimStep

Observing(p, o) == [p EXCEPT !.observed = o]

LEMMA ObservingFields ==
    ASSUME NEW p \in Pages, NEW o \in Observations, NEW q, q = Observing(p, o)
    PROVE  /\ q \in Pages /\ Sound(q) = Sound(p) /\ q.ask = p.ask /\ q.state = p.state
           /\ q.generation = p.generation /\ q.previous = p.previous /\ q.told = p.told
           /\ q.observed = o /\ q.stopping = p.stopping /\ q.tone = p.tone
  <1>1. q \in Pages
      BY DEF Pages, Observing, Observations
  <1> QED BY <1>1 DEF Pages, Sound, Observing

\* An observation is of no account but with Web Locks, where there is none.
LEMMA ObservingGood ==
    ASSUME NEW v, Good(v), NEW o \in Observations, kind # "locks" \/ o = "no",
           o = "same" => v.claim # None /\ v.claim.owner # v.tab,
           NEW q, q = Observing(v.me, o), NEW w, w = WithMe(v, q)
    PROVE  /\ Good(w) /\ w.me = q /\ Sound(q) = Sound(v.me) /\ q.state = v.me.state /\ q.ask = v.me.ask
           /\ q.observed = o
           /\ w.tab = v.tab /\ w.claim = v.claim /\ w.lock = v.lock /\ w.counter = v.counter
  <1>1. v \in Views /\ v.me \in Pages /\ Tidy(v.me)
        /\ (kind = "locks" => Locked(v.tab, v.me, v.claim, v.lock))
        /\ (kind # "locks" => Claiming(v.tab, v.me, v.claim, v.counter))
        /\ (kind # "locks" => Numbered(v.tab, v.me, v.claim, v.counter, acks[v.tab]))
      BY GoodMe
  <1>3. /\ q \in Pages /\ Sound(q) = Sound(v.me) /\ q.ask = v.me.ask /\ q.state = v.me.state
        /\ q.generation = v.me.generation /\ q.previous = v.me.previous /\ q.told = v.me.told
        /\ q.observed = o /\ q.stopping = v.me.stopping /\ q.tone = v.me.tone
      BY <1>1, ObservingFields
  <1>4. Tidy(q) /\ (Going(v.me) <=> Going(q)) /\ (HasLease(v.me) <=> HasLease(q))
        /\ \A n : Within(v.me, n) <=> Within(q, n)
      BY <1>1, <1>3, SoundFacts
  <1>5. kind = "locks" => Locked(v.tab, q, v.claim, v.lock)
      BY <1>1, <1>3, <1>4 DEF Locked
  <1>6. kind # "locks" => Claiming(v.tab, q, v.claim, v.counter)
      BY <1>1, <1>3, <1>4 DEF Claiming
  <1>7. kind # "locks" => Numbered(v.tab, q, v.claim, v.counter, acks[v.tab]) /\ Watched(v.tab, q, v.claim)
      BY <1>1, <1>3 DEF Numbered, Watched
  <1>8. Good(w)
      BY <1>3, <1>4, <1>5, <1>6, <1>7, MeStep
  <1>9. w.me = q /\ w.tab = v.tab /\ w.claim = v.claim /\ w.lock = v.lock /\ w.counter = v.counter
      BY <1>1, <1>3, WithMeFields
  <1> QED BY <1>3, <1>8, <1>9

LEMMA AcquireGood ==
    ASSUME NEW v, Good(v), v.counter < MaxGeneration, NEW w, w = Acquire(v)
    PROVE  Good(w)
  <1>1. v \in Views /\ v.me \in Pages /\ Tidy(v.me)
        /\ (kind = "locks" => Locked(v.tab, v.me, v.claim, v.lock))
      BY GoodMe
  <1>2. CASE v.me.state # "none" \/ v.me.ask # None
      BY <1>2 DEF Acquire
  <1>3. CASE v.me.state = "none" /\ v.me.ask = None /\ kind = "locks"
    <2>a. PICK a : a = [generation |-> 0, previous |-> None, withdrawn |-> FALSE]
        OBVIOUS
    <2>q. PICK q : q = Asking(v.me, a)
        OBVIOUS
    <2>1. w = WithMe(v, q)
      <3>1. w = [v EXCEPT !.me.ask = a]
          BY <1>3, <2>a DEF Acquire
      <3> QED BY <1>1, <2>q, <3>1 DEF WithMe, Asking, Views
    <2>2. a \in Asks
        BY <2>a, Times DEF Asks
    <2>3. /\ q \in Pages /\ Sound(q) = Sound(v.me) /\ q.state = v.me.state /\ q.told = v.me.told
          /\ q.observed = v.me.observed
        BY <1>1, <2>q, <2>2, AskingFields
    <2>4. Tidy(q) /\ (HasLease(v.me) <=> HasLease(q))
        BY <1>1, <2>3, SoundFacts
    <2>5. Locked(v.tab, q, v.claim, v.lock)
        BY <1>1, <1>3, <2>3, <2>4 DEF Locked
    <2> QED BY <1>3, <2>1, <2>3, <2>4, <2>5, MeStep
  <1>4. CASE v.me.state = "none" /\ v.me.ask = None /\ kind # "locks" /\ (v.claim = None \/ Mine(v))
    <2>1. w = Claimed(v, "running", None)
        BY <1>4 DEF Acquire
    <2>2. v.claim = None \/ Owns(v.tab, v.claim)
        BY <1>4 DEF Mine, Owns
    <2>3. v.me.observed # "same"
        BY <1>4, <2>2, GoodMe DEF Watched, Owns
    <2> QED BY <1>4, <2>1, <2>2, <2>3, ClaimedGood
  <1>5. CASE v.me.state = "none" /\ v.me.ask = None /\ kind # "locks" /\ ~ (v.claim = None \/ Mine(v))
    <2>o. PICK o : o = IF v.claim.age > Stale THEN "same" ELSE "no"
        OBVIOUS
    <2>1. w = WithMe(v, Observing(v.me, o))
      <3>1. w = [v EXCEPT !.me.observed = o]
          BY <1>5, <2>o DEF Acquire
      <3> QED BY <1>1, <3>1 DEF WithMe, Observing, Views
    <2>2. o \in Observations
        BY <2>o DEF Observations
    <2>3. v.claim # None /\ v.claim.owner # v.tab
        BY <1>5 DEF Mine
    <2> QED BY <1>5, <2>1, <2>2, <2>3, ObservingGood
  <1> QED BY <1>2, <1>3, <1>4, <1>5

\* A page that gave its claim up.
Released(p, a) == [p EXCEPT !.state = "none", !.previous = None, !.ask = a]

LEMMA ReleasedFields ==
    ASSUME NEW p \in Pages, NEW a \in Asks \cup {None}, NEW q, q = Released(p, a)
    PROVE  /\ q \in Pages /\ Sound(q) = Sound(p) /\ q.ask = a /\ q.state = "none"
           /\ q.generation = p.generation /\ q.previous = None /\ q.told = p.told
           /\ q.observed = p.observed /\ q.stopping = p.stopping /\ q.tone = p.tone
  <1>1. q \in Pages
      BY ZenonT(60) DEF Pages, Asks, Released
  <1> QED BY <1>1 DEF Pages, Sound, Released

LEMMA WithdrawFacts ==
    ASSUME NEW a \in Asks \cup {None}, NEW b, b = Withdraw(a)
    PROVE  /\ b \in Asks \cup {None}
           /\ b # None => a # None /\ b.withdrawn = TRUE /\ b.generation = a.generation /\ b.previous = a.previous
  <1>1. CASE a = None
      BY <1>1 DEF Withdraw
  <1>2. CASE a # None
      BY <1>2 DEF Withdraw, Asks
  <1> QED BY <1>1, <1>2

LEMMA ReleaseGood ==
    ASSUME NEW v, Good(v), ~ HasLease(v.me), NEW w, w = Release(v)
    PROVE  Good(w)
  <1>1. v \in Views /\ v.me \in Pages /\ Tidy(v.me) /\ v.tab \in Tabs /\ v.claim \in Claims \cup {None}
        /\ v.counter \in 0 .. MaxGeneration /\ v.lock \in Tabs \cup {None} /\ v.me.ask \in Asks \cup {None}
      BY GoodMe, ViewFields, PageFields
  <1>l. PICK l : l = IF v.lock = v.tab THEN None ELSE v.lock
      OBVIOUS
  <1>d. PICK d : d = IF v.me.state # "none" /\ Mine(v) /\ v.claim.generation = v.me.generation
                     THEN None ELSE v.claim
      OBVIOUS
  <1>a. PICK a : a = Withdraw(v.me.ask)
      OBVIOUS
  <1>q. PICK q : q = Released(v.me, a)
      OBVIOUS
  <1>2. w = Rewritten(v, d, v.counter, l, q)
    <2>1. w = [v EXCEPT !.lock = l, !.claim = d, !.me.state = "none", !.me.previous = None, !.me.ask = a]
        BY <1>1, <1>l, <1>d, <1>a DEF Release, Views, Pages
    <2> QED BY <1>1, <1>q, <2>1 DEF Rewritten, Released, Views
  <1>3. /\ a \in Asks \cup {None}
        /\ a # None => /\ v.me.ask # None /\ a.withdrawn = TRUE /\ a.generation = v.me.ask.generation
                       /\ a.previous = v.me.ask.previous
      BY <1>1, <1>a, WithdrawFacts
  <1>4. /\ q \in Pages /\ Sound(q) = Sound(v.me) /\ q.ask = a /\ q.state = "none"
        /\ q.generation = v.me.generation /\ q.previous = None /\ q.told = v.me.told
        /\ q.observed = v.me.observed /\ q.stopping = v.me.stopping /\ q.tone = v.me.tone
      BY <1>1, <1>3, <1>q, ReleasedFields
  <1>5. Tidy(q) /\ ~ HasLease(q) /\ ~ Going(q) /\ \A n : Within(v.me, n) <=> Within(q, n)
    <2>1. ~ Going(v.me)
        BY StageFacts DEF Going, HasLease
    <2> QED BY <1>1, <1>4, <2>1, SoundFacts
  <1>6. l \in Tabs \cup {None} /\ (l = v.lock \/ v.lock \in {None, v.tab})
      BY <1>1, <1>l
  <1>7. d = v.claim \/ (d = None /\ Owns(v.tab, v.claim))
      BY <1>d DEF Mine, Owns
  <1>8. ASSUME kind = "locks"
        PROVE  Locked(v.tab, q, d, l)
    <2>1. Locked(v.tab, v.me, v.claim, v.lock)
        BY <1>8, GoodMe
    <2> QED BY <1>4, <1>5, <1>7, <2>1 DEF Locked
  <1>9. ASSUME kind # "locks"
        PROVE  Claiming(v.tab, q, d, v.counter) /\ Handed(v.tab, v.claim, d)
    <2>1. Claiming(v.tab, v.me, v.claim, v.counter)
        BY <1>9, GoodMe
    <2>2. Claiming(v.tab, q, v.claim, v.counter) /\ Claiming(v.tab, q, None, v.counter)
        BY <1>3, <1>4, <1>5, <2>1 DEF Claiming, Owns
    <2> QED BY <1>7, <2>2 DEF Handed
  <1>10. ASSUME kind # "locks"
         PROVE  /\ Numbered(v.tab, q, d, v.counter, acks[v.tab]) /\ Watched(v.tab, q, d)
                /\ Follows(v.claim, d, v.counter, v.counter) /\ Succeeds(d)
    <2>1. Numbered(v.tab, v.me, v.claim, v.counter, acks[v.tab]) /\ Watched(v.tab, v.me, v.claim)
        BY <1>10, GoodMe
    <2>2. Numbered(v.tab, q, v.claim, v.counter, acks[v.tab])
      <3>1. ~ q.tone
          BY <1>5 DEF HasLease
      <3> QED BY <1>3, <1>4, <2>1, <3>1 DEF Numbered
    <2>3. Numbered(v.tab, q, None, v.counter, acks[v.tab])
        BY <2>2 DEF Numbered
    <2>4. Watched(v.tab, q, d)
        BY <1>4, <1>7, <2>1 DEF Watched, Owns
    <2>5. Succeeds(d)
        BY <1>7, <1>10, CourseFacts, SucceedsOn
    <2> QED BY <1>7, <2>2, <2>3, <2>4, <2>5 DEF Follows
  <1> QED BY <1>1, <1>2, <1>4, <1>5, <1>6, <1>7, <1>8, <1>9, <1>10, Times, ClaimStep

\* A context that is closed.
Closed(p) == [p EXCEPT !.context = "none", !.silencing = FALSE, !.permit = None]

LEMMA ClosedFields ==
    ASSUME NEW p \in Pages, NEW q, q = Closed(p)
    PROVE  /\ q \in Pages /\ Asked(q) = Asked(p) /\ q.stage = p.stage /\ q.tone = p.tone /\ q.wanted = p.wanted
           /\ q.click = p.click /\ ~ q.silencing /\ q.permit = None
           /\ q.retained = p.retained /\ q.renewal = p.renewal
  <1>1. q \in Pages
      BY ZenonT(60) DEF Pages, Closed
  <1> QED BY <1>1 DEF Pages, Asked, Closed

LEMMA CloseContextGood ==
    ASSUME NEW v, Good(v), ~ HasLease(v.me), NEW w, w = CloseContext(v)
    PROVE  Good(w)
  <1>1. v \in Views /\ v.me \in Pages /\ Tidy(v.me)
      BY GoodMe
  <1>q. PICK q : q = Closed(v.me)
      OBVIOUS
  <1>x. PICK x : x = WithMe(v, q)
      OBVIOUS
  <1>2. w = Release(x)
    <2>1. x = [v EXCEPT !.me.context = "none", !.me.silencing = FALSE, !.me.permit = None]
        BY <1>1, <1>q, <1>x DEF WithMe, Closed, Views
    <2> QED BY <2>1 DEF CloseContext
  <1>3. /\ q \in Pages /\ Asked(q) = Asked(v.me) /\ q.stage = v.me.stage /\ q.tone = v.me.tone
        /\ q.wanted = v.me.wanted /\ q.click = v.me.click /\ ~ q.silencing /\ q.permit = None
        /\ q.retained = v.me.retained /\ q.renewal = v.me.renewal
      BY <1>1, <1>q, ClosedFields
  <1>4. ~ (v.me.click > 0)
      BY <1>1, StageFacts DEF Tidy, HasLease
  <1>5. Tidy(q) /\ (Going(q) => Going(v.me)) /\ ~ HasLease(q)
      BY <1>1, <1>3, <1>4 DEF Tidy, Going, HasLease
  <1>6. Softer(v.me, q)
      BY <1>3 DEF Softer, Within
  <1>7. Good(x)
      BY <1>x, <1>3, <1>5, <1>6, QuietMe
  <1>8. x.me = q
      BY <1>x, <1>1, <1>3, WithMeFields
  <1> QED BY <1>2, <1>5, <1>7, <1>8, ReleaseGood

-----------------------------------------------------------------------------
(* The steps of a play *)

\* A metronome that goes on to another stage.
Staged(p, s, b, k) == [p EXCEPT !.stage = s, !.wanted = b, !.click = k]

LEMMA StagedFields ==
    ASSUME NEW p \in Pages, NEW s \in Stages, NEW b \in BOOLEAN, NEW k \in 0 .. Permit,
           NEW q, q = Staged(p, s, b, k)
    PROVE  /\ q \in Pages /\ Asked(q) = Asked(p) /\ q.stage = s /\ q.tone = p.tone /\ q.wanted = b
           /\ q.click = k /\ q.context = p.context /\ q.silencing = p.silencing
           /\ q.retained = p.retained /\ q.permit = p.permit /\ q.renewal = p.renewal
  <1>1. q \in Pages
      BY ZenonT(60) DEF Pages, Staged
  <1> QED BY <1>1 DEF Pages, Asked, Staged

\* The metronome may go on to a stage that is a lease only with the claim; with clicks only
\* those it had or its permit; and to nothing that sounds while the output is being silenced.
LEMMA StageGood ==
    ASSUME NEW v, Good(v), NEW s \in Stages, NEW b \in BOOLEAN, NEW k \in 0 .. Permit,
           k = 0 \/ k = v.me.click \/ (v.me.permit # None /\ k = v.me.permit),
           k > 0 => s = "playing" /\ v.me.context = "running" /\ ~ v.me.silencing,
           s # "off" => "metronome" \in v.me.retained,
           v.me.silencing => ~ b /\ s \notin {"playing", "resuming"},
           s \in Leased => v.me.state = "held" \/ v.me.stage \in Leased,
           NEW q, q = Staged(v.me, s, b, k),
           Going(q) => v.me.state = "held" \/ Going(v.me),
           NEW w, w = WithMe(v, q)
    PROVE  /\ Good(w) /\ w.me = q /\ w.tab = v.tab /\ q.stage = s /\ Asked(q) = Asked(v.me)
           /\ q.click = k /\ q.context = v.me.context /\ q.silencing = v.me.silencing
           /\ q.retained = v.me.retained /\ q.permit = v.me.permit /\ q.renewal = v.me.renewal
           /\ q.tone = v.me.tone /\ q.wanted = b
           /\ w.counter = v.counter /\ w.claim = v.claim /\ w.lock = v.lock
  <1>1. v \in Views /\ v.me \in Pages /\ Tidy(v.me)
      BY GoodMe
  <1>2. /\ q \in Pages /\ Asked(q) = Asked(v.me) /\ q.stage = s /\ q.tone = v.me.tone /\ q.wanted = b
        /\ q.click = k /\ q.context = v.me.context /\ q.silencing = v.me.silencing
        /\ q.retained = v.me.retained /\ q.permit = v.me.permit /\ q.renewal = v.me.renewal
      BY <1>1, StagedFields
  <1>3. Tidy(q)
      BY <1>1, <1>2 DEF Tidy
  <1>4. HasLease(q) => HasLease(v.me) \/ v.me.state = "held"
      BY <1>2 DEF HasLease
  <1>5. Softer(v.me, q)
      BY <1>1, <1>2, Times DEF Softer, Within
  <1>6. Good(w)
      BY <1>2, <1>3, <1>4, <1>5, QuietMe
  <1>7. w.me = q /\ w.tab = v.tab /\ w.claim = v.claim /\ w.lock = v.lock /\ w.counter = v.counter
      BY <1>1, <1>2, WithMeFields
  <1> QED BY <1>2, <1>6, <1>7

\* A preparation begins with the claim, when nothing clicks.
LEMMA PrepareGood ==
    ASSUME NEW v, Good(v), v.me.state = "held", "metronome" \in v.me.retained, v.me.stage \notin Leased,
           NEW w, w = Prepare(v)
    PROVE  Good(w)
  <1>1. v \in Views /\ v.me \in Pages /\ Tidy(v.me) /\ v.me.wanted \in BOOLEAN /\ v.me.click \in 0 .. Permit
      BY GoodMe, PageFields
  <1>2. CASE v.me.tone
      BY <1>2, NoMetronomeGood DEF Prepare
  <1>3. CASE ~ v.me.tone
    <2>q. PICK q : q = Staged(v.me, "preparing", v.me.wanted, v.me.click)
        OBVIOUS
    <2>x. PICK x : x = WithMe(v, q)
        OBVIOUS
    <2>1. x = [v EXCEPT !.me.stage = "preparing"]
        BY <1>1, <2>q, <2>x DEF Staged, WithMe, Views, Pages
    <2>2. w = Renew(x)
        BY <1>3, <2>1 DEF Prepare
    <2>3. v.me.click = 0
        BY <1>1, StageFacts, Times DEF Tidy
    <2>4. v.me.silencing => ~ v.me.wanted
        BY <1>1 DEF Tidy
    <2>5. Good(x)
        BY <1>1, <2>q, <2>x, <2>3, <2>4, StageFacts, StageGood
    <2> QED BY <2>2, <2>5, RenewGood
  <1> QED BY <1>2, <1>3

LEMMA SettledGood ==
    ASSUME NEW v, Good(v), NEW w, w = Settled(v)
    PROVE  Good(w)
  <1>1. v \in Views /\ v.me \in Pages /\ Tidy(v.me) /\ v.me.permit \in 0 .. Permit \cup {None}
        /\ v.me.click \in 0 .. Permit
      BY GoodMe, PageFields
  <1>b. PICK b \in BOOLEAN : b = FALSE
      OBVIOUS
  <1>2. CASE v.me.renewal # None \/ v.me.stage \notin {"renewing", "resuming", "playing"}
      BY <1>2 DEF Settled
  <1>3. CASE /\ v.me.renewal = None /\ v.me.stage \in {"renewing", "resuming", "playing"}
             /\ Permitted(v.me) /\ (v.me.wanted \/ v.me.stage = "playing")
    <2>q. PICK q : q = Staged(v.me, "playing", b, v.me.permit)
        OBVIOUS
    <2>1. w = WithMe(v, q)
      <3>1. w = [v EXCEPT !.me.stage = "playing", !.me.wanted = FALSE, !.me.click = v.me.permit]
          BY <1>3, Zenon DEF Settled
      <3> QED BY <1>1, <1>b, <2>q, <3>1 DEF Staged, WithMe, Views
    <2>2. v.me.permit # None /\ v.me.permit \in 0 .. Permit /\ v.me.context = "running"
        BY <1>1, <1>3 DEF Permitted
    <2>3. ~ v.me.silencing /\ "metronome" \in v.me.retained
        BY <1>1, <1>3 DEF Tidy
    <2>4. Going(v.me) /\ v.me.stage \in Leased
        BY <1>3, StageFacts DEF Going
    <2> QED BY <1>b, <2>q, <2>1, <2>2, <2>3, <2>4, StageFacts, StageGood
  <1>4. CASE /\ v.me.renewal = None /\ v.me.stage = "renewing"
             /\ ~ (Permitted(v.me) /\ (v.me.wanted \/ v.me.stage = "playing"))
    <2>1. w = NoMetronome(v)
        BY <1>4 DEF Settled
    <2> QED BY <2>1, NoMetronomeGood
  <1>5. CASE /\ v.me.renewal = None /\ v.me.stage = "resuming"
             /\ ~ (Permitted(v.me) /\ (v.me.wanted \/ v.me.stage = "playing"))
    <2>q. PICK q : q = Staged(v.me, "held", b, v.me.click)
        OBVIOUS
    <2>1. w = WithMe(v, q)
      <3>1. w = [v EXCEPT !.me.stage = "held", !.me.wanted = FALSE]
          BY <1>5, Zenon DEF Settled
      <3>2. q = [v.me EXCEPT !.stage = "held", !.wanted = FALSE]
          BY <1>1, <1>b, <2>q DEF Staged, Pages
      <3> QED BY <1>1, <3>1, <3>2 DEF WithMe, Views
    <2>2. v.me.click = 0 /\ "metronome" \in v.me.retained
        BY <1>1, <1>5 DEF Tidy
    <2>3. v.me.stage \in Leased
        BY <1>5, StageFacts
    <2>4. ~ Going(q)
        BY SMTT(40), <1>1, <1>b, <2>q, StageFacts, StagedFields DEF Going
    <2> QED BY <1>1, <1>b, <2>q, <2>1, <2>2, <2>3, <2>4, StageFacts, StageGood
  <1>6. CASE /\ v.me.renewal = None /\ v.me.stage = "playing" /\ ~ Permitted(v.me)
    <2>1. w = v
        BY <1>6 DEF Settled
    <2> QED BY <2>1
  <1> QED BY <1>2, <1>3, <1>4, <1>5, <1>6

LEMMA ContinuedGood ==
    ASSUME NEW v, Good(v), NEW w, w = Continued(v)
    PROVE  Good(w)
  <1>1. Tidy(v.me)
      BY GoodMe
  <1>2. CASE v.me.stage # "claiming" \/ v.me.ask # None
      BY <1>2 DEF Continued
  <1>3. CASE v.me.stage = "claiming" /\ v.me.ask = None /\ v.me.wanted /\ v.me.state = "held"
    <2>1. w = Prepare(v) /\ v.me.stage \notin Leased /\ "metronome" \in v.me.retained
        BY <1>1, <1>3, StageFacts DEF Continued, Tidy
    <2> QED BY <1>3, <2>1, PrepareGood
  <1>4. CASE v.me.stage = "claiming" /\ v.me.ask = None /\ ~ (v.me.wanted /\ v.me.state = "held")
    <2>1. w = NoMetronome(v)
        BY <1>4 DEF Continued
    <2> QED BY <2>1, NoMetronomeGood
  <1> QED BY <1>2, <1>3, <1>4

\* A claim that is lost, and its output silenced.
Muted(p, b) == [p EXCEPT !.state = "none", !.wanted = FALSE, !.silencing = b]

LEMMA MutedFields ==
    ASSUME NEW p \in Pages, NEW b \in BOOLEAN, NEW q, q = Muted(p, b)
    PROVE  /\ q \in Pages /\ q.stage = p.stage /\ q.tone = p.tone /\ ~ q.wanted
           /\ q.click = p.click /\ q.context = p.context
           /\ q.retained = p.retained /\ q.permit = p.permit /\ q.renewal = p.renewal
           /\ q.ask = p.ask /\ q.state = "none" /\ q.generation = p.generation /\ q.previous = p.previous
           /\ q.told = p.told /\ q.observed = p.observed /\ q.stopping = p.stopping
  <1>1. q \in Pages
      BY ZenonT(60) DEF Pages, Muted
  <1> QED BY <1>1 DEF Pages, Muted

LEMMA LostGood ==
    ASSUME NEW v, Good(v), kind # "locks", NEW w, w = Lost(v)
    PROVE  /\ Good(w) /\ w.me.state = "none" /\ w.me.told = v.me.told /\ w.me.ask = v.me.ask
           /\ w.counter = v.counter
  <1>x. PICK x : x = RevokeAll(v)
      OBVIOUS
  <1>1. /\ Good(x) /\ x.me.stage \notin {"playing", "resuming"} /\ x.me.click = 0 /\ ~ x.me.tone
      BY <1>x, RevokeAllGood
  <1>2. /\ x \in Views /\ x.me \in Pages /\ Tidy(x.me) /\ Claiming(x.tab, x.me, x.claim, x.counter)
        /\ Numbered(x.tab, x.me, x.claim, x.counter, acks[x.tab]) /\ Watched(x.tab, x.me, x.claim)
      BY <1>1, GoodMe
  <1>b. PICK b \in BOOLEAN : b = (x.me.context # "none")
      OBVIOUS
  <1>q. PICK q : q = Muted(x.me, b)
      OBVIOUS
  <1>3. w = WithMe(x, q)
    <2>1. w = [x EXCEPT !.me.state = "none", !.me.wanted = FALSE, !.me.silencing = b]
        BY <1>x, <1>b DEF Lost
    <2> QED BY <1>2, <1>q, <2>1 DEF Muted, WithMe, Views
  <1>4. /\ q \in Pages /\ q.stage = x.me.stage /\ q.tone = x.me.tone /\ ~ q.wanted
        /\ q.click = x.me.click /\ q.retained = x.me.retained /\ q.permit = x.me.permit
        /\ q.renewal = x.me.renewal /\ q.ask = x.me.ask /\ q.state = "none"
        /\ q.generation = x.me.generation /\ q.told = x.me.told /\ q.previous = x.me.previous
        /\ q.observed = x.me.observed /\ q.stopping = x.me.stopping
      BY <1>2, <1>q, MutedFields
  <1>5. Tidy(q) /\ ~ Going(q)
      BY <1>1, <1>2, <1>4 DEF Tidy, Going
  <1>6. \A n : Within(x.me, n) <=> Within(q, n)
      BY <1>4 DEF Within
  <1>7. Claiming(x.tab, q, x.claim, x.counter)
      BY <1>2, <1>4, <1>5, <1>6 DEF Claiming
  <1>8. Numbered(x.tab, q, x.claim, x.counter, acks[x.tab]) /\ Watched(x.tab, q, x.claim)
    <2>1. ~ q.tone
        BY <1>1, <1>4
    <2> QED BY <1>2, <1>4, <2>1 DEF Numbered, Watched
  <1>9. x.me.told = v.me.told /\ x.me.ask = v.me.ask /\ x.counter = v.counter
      BY <1>x, RevokeAllGood DEF Asked
  <1>10. w.me = q /\ w.counter = x.counter
      BY <1>2, <1>3, <1>4, WithMeFields
  <1>11. Good(w)
      BY <1>1, <1>3, <1>4, <1>5, <1>7, <1>8, MeStep
  <1> QED BY <1>4, <1>9, <1>10, <1>11

-----------------------------------------------------------------------------
(* Reading a view and writing it back *)

LEMMA ViewGood ==
    ASSUME OutputInv, NEW t \in Tabs, NEW v, v = View(t)
    PROVE  /\ Good(v) /\ v.tab = t /\ v.me = tabs[t] /\ v.lock = lock /\ v.claim = claim
           /\ v.counter = counter
  <1>1. /\ v.tab = t /\ v.me = tabs[t] /\ v.lock = lock /\ v.claim = claim /\ v.counter = counter
      BY DEF View
  <1>2. v \in Views
      BY DEF View, Views, OutputInv, Typed
  <1>3. \A u \in Tabs : Of(v, u) = tabs[u]
      BY <1>1 DEF Of
  <1>4. Course(v)
    <2>1. kind # "locks" => Watched(v.tab, v.me, v.claim)
        BY <1>1 DEF OutputInv, NumberInv
    <2>2. Succeeds(v.claim)
      <3>1. CASE claim = None
          BY <1>1, <3>1 DEF Succeeds
      <3>2. CASE claim # None
          BY <1>1, <3>2 DEF Succeeds
      <3> QED BY <3>1, <3>2
    <2>3. counter <= v.counter
        BY <1>1, Times DEF OutputInv, Typed
    <2> QED BY <1>1, <1>3, <2>1, <2>2, <2>3 DEF Course, OutputInv, NumberInv
  <1> QED BY <1>1, <1>2, <1>3, <1>4 DEF Good, OutputInv

\* What a step does to the invariant, and to the record.
Kept == OutputInv' /\ kind' = kind /\ (kind # "locks" => Succeeds(claim'))

\* A view that is written back keeps the invariant.
LEMMA SetKeeps ==
    ASSUME NEW w, Good(w), Set(w), acks' \in [Tabs -> 0 .. MaxGeneration],
           kind # "locks" => \A t \in Tabs : Numbered(t, Of(w, t), w.claim, w.counter, acks'[t])
    PROVE  Kept
  <1>1. /\ kind' = kind /\ lock' = w.lock /\ claim' = w.claim /\ counter' = w.counter
      BY DEF Set
  <1>2. /\ w \in Views /\ w.tab \in Tabs /\ w.me \in Pages /\ w.lock \in Tabs \cup {None}
        /\ w.claim \in Claims \cup {None} /\ w.counter \in 0 .. MaxGeneration
        /\ kind \in {"locks", "indexeddb"} /\ tabs \in [Tabs -> Pages]
      BY GoodMe, ViewFields DEF Good, Typed
  <1>3. tabs' = [t \in Tabs |-> IF w.claim # claim /\ Of(w, t).observed = "same"
                                THEN Observing(Of(w, t), "changed") ELSE Of(w, t)]
      BY DEF Set, Of, Observing
  <1>4. ASSUME NEW t \in Tabs
        PROVE  Of(w, t) \in Pages /\ Tidy(Of(w, t))
      BY <1>2 DEF Of, Good
  <1>5. ASSUME NEW t \in Tabs
        PROVE  /\ tabs'[t] \in Pages /\ Tidy(tabs'[t])
               /\ kind = "locks" => Locked(t, tabs'[t], w.claim, w.lock)
               /\ kind # "locks" => Claiming(t, tabs'[t], w.claim, w.counter)
    <2>1. Of(w, t) \in Pages /\ Tidy(Of(w, t))
          /\ (kind = "locks" => Locked(t, Of(w, t), w.claim, w.lock))
          /\ (kind # "locks" => Claiming(t, Of(w, t), w.claim, w.counter))
        BY <1>4, <1>5 DEF Good
    <2>2. CASE ~ (w.claim # claim /\ Of(w, t).observed = "same")
        BY <1>3, <1>5, <2>1, <2>2
    <2>3. CASE w.claim # claim /\ Of(w, t).observed = "same"
      <3>p. PICK p : p = Of(w, t)
          OBVIOUS
      <3>q. PICK q : q = Observing(p, "changed")
          OBVIOUS
      <3>1. tabs'[t] = q
          BY <1>3, <1>5, <2>3, <3>p, <3>q
      <3>2. /\ q \in Pages /\ Sound(q) = Sound(p) /\ q.ask = p.ask /\ q.state = p.state
            /\ q.generation = p.generation /\ q.previous = p.previous /\ q.told = p.told
          BY <2>1, <3>p, <3>q, ObservingFields DEF Observations
      <3>3. Tidy(q) /\ (Going(p) <=> Going(q)) /\ \A n : Within(p, n) <=> Within(q, n)
          BY <2>1, <3>p, <3>2, SoundFacts
      <3>4. kind # "locks"
          BY <2>1, <2>3 DEF Locked
      <3>5. Claiming(t, q, w.claim, w.counter)
          BY <2>1, <3>p, <3>2, <3>3, <3>4 DEF Claiming
      <3> QED BY <3>1, <3>2, <3>3, <3>4, <3>5
    <2> QED BY <2>2, <2>3
  <1>6. Typed'
      BY <1>1, <1>2, <1>3, <1>5 DEF Typed
  <1>7. ASSUME NEW t \in Tabs, kind # "locks"
        PROVE  Numbered(t, tabs'[t], w.claim, w.counter, acks'[t]) /\ Watched(t, tabs'[t], w.claim)
    <2>p. PICK p : p = Of(w, t)
        OBVIOUS
    <2>1. p \in Pages /\ Numbered(t, p, w.claim, w.counter, acks'[t])
        BY <1>4, <1>7, <2>p
    <2>2. CASE ~ (w.claim # claim /\ p.observed = "same")
      <3>1. tabs'[t] = p
          BY <1>3, <1>7, <2>p, <2>2
      <3>2. CASE t = w.tab
        <4>1. Watched(t, p, w.claim)
            BY <1>7, <2>p, <3>2 DEF Good, Course, Of
        <4> QED BY <2>1, <3>1, <4>1
      <3>3. CASE t # w.tab
        <4>1. Watched(t, p, claim)
            BY <1>7, <2>p, <3>3 DEF Good, Course, Of
        <4>2. Watched(t, p, w.claim)
            BY <2>2, <4>1 DEF Watched
        <4> QED BY <2>1, <3>1, <4>2
      <3> QED BY <3>2, <3>3
    <2>3. CASE w.claim # claim /\ p.observed = "same"
      <3>q. PICK q : q = Observing(p, "changed")
          OBVIOUS
      <3>1. tabs'[t] = q
          BY <1>3, <1>7, <2>p, <2>3, <3>q
      <3>2. /\ q.ask = p.ask /\ q.state = p.state /\ q.generation = p.generation /\ q.previous = p.previous
            /\ q.told = p.told /\ q.stopping = p.stopping /\ q.tone = p.tone /\ q.observed = "changed"
          BY <2>1, <3>q, ObservingFields DEF Observations
      <3> QED BY <2>1, <3>1, <3>2 DEF Numbered, Watched
    <2> QED BY <2>2, <2>3
  <1>8. NumberInv'
      BY <1>1, <1>7 DEF NumberInv
  <1>9. kind # "locks" => Succeeds(claim')
      BY <1>1 DEF Good, Course
  <1> QED BY <1>1, <1>5, <1>6, <1>8, <1>9 DEF OutputInv, Kept

\* Likewise, when nothing is acknowledged.
LEMMA SetKeepsAll ==
    ASSUME OutputInv, NEW w, Good(w), Set(w), acks' = acks
    PROVE  Kept
  <1>1. acks' \in [Tabs -> 0 .. MaxGeneration]
      BY DEF OutputInv, Typed
  <1>2. kind # "locks" => \A t \in Tabs : Numbered(t, Of(w, t), w.claim, w.counter, acks'[t])
      BY DEF Good, Course
  <1> QED BY <1>1, <1>2, SetKeeps

-----------------------------------------------------------------------------
(* The consumers *)

Retaining(p, r) == [p EXCEPT !.retained = r]

LEMMA RetainingFields ==
    ASSUME NEW p \in Pages, NEW r \in SUBSET Consumers, NEW q, q = Retaining(p, r)
    PROVE  /\ q \in Pages /\ Asked(q) = Asked(p) /\ q.stage = p.stage /\ q.tone = p.tone /\ q.wanted = p.wanted
           /\ q.click = p.click /\ q.context = p.context /\ q.silencing = p.silencing
           /\ q.retained = r /\ q.permit = p.permit /\ q.renewal = p.renewal
  <1>1. q \in Pages
      BY DEF Pages, Retaining
  <1> QED BY <1>1 DEF Pages, Asked, Retaining

\* A consumer that has an output keeps its screen.
LEMMA RetainingGood ==
    ASSUME NEW v, Good(v), NEW r \in SUBSET Consumers,
           v.me.tone => "tuner" \in r, v.me.stage # "off" => "metronome" \in r,
           NEW q, q = Retaining(v.me, r), NEW w, w = WithMe(v, q)
    PROVE  Good(w) /\ w.me = q /\ q.retained = r /\ q.tone = v.me.tone /\ q.stage = v.me.stage
           /\ w.counter = v.counter
  <1>1. v \in Views /\ v.me \in Pages /\ Tidy(v.me)
      BY GoodMe
  <1>2. /\ q \in Pages /\ Asked(q) = Asked(v.me) /\ q.stage = v.me.stage /\ q.tone = v.me.tone
        /\ q.wanted = v.me.wanted /\ q.click = v.me.click /\ q.context = v.me.context
        /\ q.silencing = v.me.silencing /\ q.retained = r /\ q.permit = v.me.permit
        /\ q.renewal = v.me.renewal
      BY <1>1, RetainingFields
  <1>3. Tidy(q) /\ (Going(q) => Going(v.me)) /\ (HasLease(q) => HasLease(v.me))
      BY <1>1, <1>2 DEF Tidy, Going, HasLease
  <1>4. Softer(v.me, q)
      BY <1>2 DEF Softer, Within
  <1>5. Good(w)
      BY <1>2, <1>3, <1>4, QuietMe
  <1>6. w.me = q /\ w.counter = v.counter
      BY <1>1, <1>2, WithMeFields
  <1> QED BY <1>2, <1>5, <1>6

LEMMA RetainKeeps ==
    ASSUME OutputInv, NEW t \in Tabs, NEW c \in Consumers, Retain(t, c)
    PROVE  Kept
  <1>v. PICK v : v = View(t)
      OBVIOUS
  <1>r. PICK r : r = tabs[t].retained \cup {c}
      OBVIOUS
  <1>q. PICK q : q = Retaining(v.me, r)
      OBVIOUS
  <1>x. PICK x : x = WithMe(v, q)
      OBVIOUS
  <1>w. PICK w : w = Acquire(x)
      OBVIOUS
  <1>1. Good(v) /\ v.me = tabs[t] /\ v.counter = counter
      BY <1>v, ViewGood
  <1>2. v \in Views /\ v.me \in Pages /\ Tidy(v.me)
      BY <1>1, GoodMe
  <1>3. x = [View(t) EXCEPT !.me.retained = @ \cup {c}]
      BY <1>v, <1>r, <1>q, <1>x, <1>1, <1>2 DEF Retaining, WithMe, Views
  <1>4. counter < MaxGeneration /\ Set(w) /\ acks' = acks
      BY <1>w, <1>3 DEF Retain
  <1>5. r \in SUBSET Consumers /\ (v.me.tone => "tuner" \in r) /\ (v.me.stage # "off" => "metronome" \in r)
      BY <1>r, <1>1, <1>2, PageFields DEF Tidy
  <1>6. Good(x) /\ x.counter = counter
      BY <1>q, <1>x, <1>1, <1>5, RetainingGood
  <1>7. Good(w)
      BY <1>w, <1>4, <1>6, AcquireGood
  <1> QED BY <1>4, <1>7, SetKeepsAll

Quieted(p) == [p EXCEPT !.tone = FALSE]

LEMMA QuietedFields ==
    ASSUME NEW p \in Pages, NEW q, q = Quieted(p)
    PROVE  /\ q \in Pages /\ Asked(q) = Asked(p) /\ q.stage = p.stage /\ ~ q.tone /\ q.wanted = p.wanted
           /\ q.click = p.click /\ q.context = p.context /\ q.silencing = p.silencing
           /\ q.retained = p.retained /\ q.permit = p.permit /\ q.renewal = p.renewal
  <1>1. q \in Pages
      BY ZenonT(60) DEF Pages, Quieted
  <1> QED BY <1>1 DEF Pages, Asked, Quieted

\* The end of the tone.
LEMMA QuietedGood ==
    ASSUME NEW v, Good(v), NEW w, w = Ended(WithMe(v, Quieted(v.me)))
    PROVE  Good(w) /\ ~ w.me.tone /\ w.me.stage = v.me.stage /\ w.me.retained = v.me.retained
  <1>q. PICK q : q = Quieted(v.me)
      OBVIOUS
  <1>x. PICK x : x = WithMe(v, q)
      OBVIOUS
  <1>1. v \in Views /\ v.me \in Pages /\ Tidy(v.me)
      BY GoodMe
  <1>2. /\ q \in Pages /\ Asked(q) = Asked(v.me) /\ q.stage = v.me.stage /\ ~ q.tone
        /\ q.wanted = v.me.wanted /\ q.click = v.me.click /\ q.context = v.me.context
        /\ q.silencing = v.me.silencing /\ q.retained = v.me.retained /\ q.permit = v.me.permit
        /\ q.renewal = v.me.renewal
      BY <1>1, <1>q, QuietedFields
  <1>3. Tidy(q) /\ (Going(q) => Going(v.me)) /\ (HasLease(q) => HasLease(v.me))
      BY <1>1, <1>2 DEF Tidy, Going, HasLease
  <1>4. Softer(v.me, q)
      BY <1>2 DEF Softer, Within
  <1>5. Good(x)
      BY <1>x, <1>2, <1>3, <1>4, QuietMe
  <1>6. x \in Views /\ x.me = q
      BY <1>x, <1>1, <1>2, WithMeFields
  <1>7. w = Ended(x)
      BY <1>q, <1>x
  <1>8. Good(w)
      BY <1>5, <1>7, EndedGood
  <1>9. w.me.stage = x.me.stage /\ w.me.tone = x.me.tone /\ w.me.retained = x.me.retained
      BY <1>6, <1>7, EndedFields
  <1> QED BY <1>2, <1>6, <1>8, <1>9

LEMMA NoMetronomeFields ==
    ASSUME NEW v, Good(v), NEW w, w = NoMetronome(v)
    PROVE  w.me.stage = "off" /\ w.me.tone = v.me.tone /\ w.me.retained = v.me.retained
  <1>q. PICK q : q = Staged(v.me, "off", FALSE, 0)
      OBVIOUS
  <1>x. PICK x : x = WithMe(v, q)
      OBVIOUS
  <1>1. v \in Views /\ v.me \in Pages
      BY GoodMe
  <1>2. w = Ended(x)
    <2>1. x = [v EXCEPT !.me.stage = "off", !.me.wanted = FALSE, !.me.click = 0]
        BY <1>1, <1>q, <1>x DEF WithMe, Staged, Views
    <2> QED BY <2>1 DEF NoMetronome
  <1>3. q \in Pages
      BY ZenonT(60), <1>q, <1>1, Times, StageFacts DEF Pages, Staged
  <1>4. q.stage = "off" /\ q.tone = v.me.tone /\ q.retained = v.me.retained
      BY <1>q, <1>1 DEF Pages, Staged
  <1>5. x \in Views /\ x.me = q
      BY <1>x, <1>1, <1>3, WithMeFields
  <1> QED BY <1>2, <1>4, <1>5, EndedFields

LEMMA DropKeeps ==
    ASSUME OutputInv, NEW t \in Tabs, NEW c \in Consumers, Drop(t, c)
    PROVE  Kept
  <1>v. PICK v : v = View(t)
      OBVIOUS
  <1>u. PICK u : u = IF c = "metronome" THEN NoMetronome(v) ELSE Ended([v EXCEPT !.me.tone = FALSE])
      OBVIOUS
  <1>r. PICK r : r = u.me.retained \ {c}
      OBVIOUS
  <1>q. PICK q : q = Retaining(u.me, r)
      OBVIOUS
  <1>x. PICK x : x = WithMe(u, q)
      OBVIOUS
  <1>w. PICK w : w = IF x.me.retained = {} THEN CloseContext(x) ELSE x
      OBVIOUS
  <1>1. Good(v) /\ v.me = tabs[t] /\ v \in Views /\ v.me \in Pages /\ Tidy(v.me)
      BY <1>v, ViewGood, GoodMe
  <1>2. Good(u) /\ (c = "metronome" => u.me.stage = "off") /\ (c # "metronome" => ~ u.me.tone)
    <2>1. CASE c = "metronome"
        BY <1>u, <1>1, <2>1, NoMetronomeGood, NoMetronomeFields
    <2>2. CASE c # "metronome"
      <3>1. u = Ended(WithMe(v, Quieted(v.me)))
          BY <1>u, <1>1, <2>2 DEF WithMe, Quieted, Views
      <3> QED BY <1>1, <2>2, <3>1, QuietedGood
    <2> QED BY <2>1, <2>2
  <1>3. u \in Views /\ u.me \in Pages /\ Tidy(u.me)
      BY <1>2, GoodMe
  <1>4. c = "metronome" \/ c = "tuner"
      BY DEF Consumers
  <1>5. r \in SUBSET Consumers /\ (u.me.tone => "tuner" \in r) /\ (u.me.stage # "off" => "metronome" \in r)
      BY <1>r, <1>2, <1>3, <1>4, PageFields DEF Tidy
  <1>6. Good(x) /\ x.me = q /\ q.retained = r /\ q.tone = u.me.tone /\ q.stage = u.me.stage
      BY <1>q, <1>x, <1>2, <1>5, RetainingGood
  <1>7. x = [u EXCEPT !.me.retained = @ \ {c}]
      BY <1>r, <1>q, <1>x, <1>3 DEF Retaining, WithMe, Views
  <1>8. Set(w) /\ acks' = acks
      BY <1>v, <1>u, <1>w, <1>7 DEF Drop
  <1>9. Good(w)
    <2>1. CASE x.me.retained = {}
      <3>1. ~ HasLease(x.me)
          BY <1>5, <1>6, <2>1, StageFacts DEF HasLease
      <3> QED BY <1>w, <1>6, <2>1, <3>1, CloseContextGood
    <2>2. CASE x.me.retained # {}
        BY <1>w, <1>6, <2>2
    <2> QED BY <2>1, <2>2
  <1> QED BY <1>8, <1>9, SetKeepsAll

LEMMA ShutdownKeeps ==
    ASSUME OutputInv, NEW t \in Tabs, Shutdown(t)
    PROVE  Kept
  <1>v. PICK v : v = View(t)
      OBVIOUS
  <1>y. PICK y : y = RevokeAll(v)
      OBVIOUS
  <1>u. PICK u : u = NoMetronome(y)
      OBVIOUS
  <1>q. PICK q : q = Retaining(u.me, {})
      OBVIOUS
  <1>x. PICK x : x = WithMe(u, q)
      OBVIOUS
  <1>w. PICK w : w = CloseContext(x)
      OBVIOUS
  <1>1. Good(v)
      BY <1>v, ViewGood
  <1>2. Good(y) /\ ~ y.me.tone
      BY <1>y, <1>1, RevokeAllGood
  <1>3. Good(u) /\ u.me.stage = "off" /\ ~ u.me.tone
      BY <1>u, <1>2, NoMetronomeGood, NoMetronomeFields
  <1>4. Good(x) /\ x.me = q /\ q.tone = u.me.tone /\ q.stage = u.me.stage
      BY <1>q, <1>x, <1>3, RetainingGood
  <1>5. ~ HasLease(x.me)
      BY <1>3, <1>4, StageFacts DEF HasLease
  <1>6. x = [u EXCEPT !.me.retained = {}]
      BY <1>q, <1>x, <1>3, GoodMe DEF Retaining, WithMe, Views
  <1>7. Set(w) /\ acks' = acks
      BY <1>v, <1>y, <1>u, <1>w, <1>6 DEF Shutdown
  <1>8. Good(w)
      BY <1>w, <1>4, <1>5, CloseContextGood
  <1> QED BY <1>7, <1>8, SetKeepsAll

InContext(p, x) == [p EXCEPT !.context = x]

LEMMA InContextFields ==
    ASSUME NEW p \in Pages, NEW x \in {"none", "starting", "running", "suspended"}, NEW q, q = InContext(p, x)
    PROVE  /\ q \in Pages /\ Asked(q) = Asked(p) /\ q.stage = p.stage /\ q.tone = p.tone /\ q.wanted = p.wanted
           /\ q.click = p.click /\ q.context = x /\ q.silencing = p.silencing
           /\ q.retained = p.retained /\ q.permit = p.permit /\ q.renewal = p.renewal
  <1>1. q \in Pages
      BY DEF Pages, InContext
  <1> QED BY <1>1 DEF Pages, Asked, InContext

LEMMA InContextGood ==
    ASSUME NEW v, Good(v), NEW x \in {"none", "starting", "running", "suspended"},
           x = "running" \/ ~ (v.me.click > 0),
           NEW q, q = InContext(v.me, x), NEW w, w = WithMe(v, q)
    PROVE  Good(w)
  <1>1. v \in Views /\ v.me \in Pages /\ Tidy(v.me)
      BY GoodMe
  <1>2. /\ q \in Pages /\ Asked(q) = Asked(v.me) /\ q.stage = v.me.stage /\ q.tone = v.me.tone
        /\ q.wanted = v.me.wanted /\ q.click = v.me.click /\ q.context = x
        /\ q.silencing = v.me.silencing /\ q.retained = v.me.retained /\ q.permit = v.me.permit
        /\ q.renewal = v.me.renewal
      BY <1>1, InContextFields
  <1>3. Tidy(q) /\ (Going(q) => Going(v.me)) /\ (HasLease(q) => HasLease(v.me))
      BY <1>1, <1>2 DEF Tidy, Going, HasLease
  <1>4. Softer(v.me, q)
      BY <1>2 DEF Softer, Within
  <1> QED BY <1>2, <1>3, <1>4, QuietMe

LEMMA ContextRunsKeeps ==
    ASSUME OutputInv, NEW t \in Tabs, ContextRuns(t)
    PROVE  Kept
  <1>v. PICK v : v = View(t)
      OBVIOUS
  <1>q. PICK q : q = InContext(v.me, "running")
      OBVIOUS
  <1>w. PICK w : w = WithMe(v, q)
      OBVIOUS
  <1>1. Good(v) /\ v \in Views
      BY <1>v, ViewGood, GoodMe
  <1>2. w = [v EXCEPT !.me.context = "running"]
      BY <1>q, <1>w, <1>1 DEF InContext, WithMe, Views
  <1>3. Set(w) /\ acks' = acks
      BY <1>v, <1>2 DEF ContextRuns
  <1>4. Good(w)
      BY <1>1, <1>q, <1>w, InContextGood
  <1> QED BY <1>3, <1>4, SetKeepsAll

LEMMA InterruptedKeeps ==
    ASSUME OutputInv, NEW t \in Tabs, Interrupted(t)
    PROVE  Kept
  <1>v. PICK v : v = View(t)
      OBVIOUS
  <1>u. PICK u : u = IF tabs[t].silencing THEN v ELSE RevokeAll(v)
      OBVIOUS
  <1>q. PICK q : q = InContext(u.me, "suspended")
      OBVIOUS
  <1>w. PICK w : w = WithMe(u, q)
      OBVIOUS
  <1>1. Good(v) /\ v.me = tabs[t] /\ Tidy(v.me)
      BY <1>v, ViewGood, GoodMe
  <1>2. Good(u) /\ ~ (u.me.click > 0)
    <2>1. CASE tabs[t].silencing
        BY <1>u, <1>1, <2>1 DEF Tidy
    <2>2. CASE ~ tabs[t].silencing
      <3>1. Good(u) /\ u.me.click = 0
          BY <1>u, <1>1, <2>2, RevokeAllGood
      <3> QED BY <3>1
    <2> QED BY <2>1, <2>2
  <1>3. u \in Views
      BY <1>2, GoodMe
  <1>4. w = [u EXCEPT !.me.context = "suspended"]
      BY <1>q, <1>w, <1>3 DEF InContext, WithMe, Views
  <1>5. Set(w) /\ acks' = acks
      BY <1>v, <1>u, <1>4 DEF Interrupted
  <1>6. Good(w)
      BY <1>2, <1>q, <1>w, InContextGood
  <1> QED BY <1>5, <1>6, SetKeepsAll

LEMMA IdleKeeps ==
    ASSUME OutputInv, NEW t \in Tabs, Idle(t)
    PROVE  Kept
  <1>v. PICK v : v = View(t)
      OBVIOUS
  <1>w. PICK w : w = CloseContext(v)
      OBVIOUS
  <1>1. Good(v) /\ ~ HasLease(v.me)
      BY <1>v, ViewGood DEF Idle
  <1>2. Set(w) /\ acks' = acks
      BY <1>v, <1>w DEF Idle
  <1>3. Good(w)
      BY <1>w, <1>1, CloseContextGood
  <1> QED BY <1>2, <1>3, SetKeepsAll

LEMMA PlayKeeps ==
    ASSUME OutputInv, NEW t \in Tabs, Play(t)
    PROVE  Kept
  <1>v. PICK v : v = View(t)
      OBVIOUS
  <1>y. PICK y : y = Unlock(v)
      OBVIOUS
  <1>b. PICK b \in BOOLEAN : b = TRUE
      OBVIOUS
  <1>q. PICK q : q = Staged(y.me, "off", b, 0)
      OBVIOUS
  <1>x. PICK x : x = WithMe(y, q)
      OBVIOUS
  <1>1. Good(v) /\ v.me = tabs[t] /\ v.counter = counter
      BY <1>v, ViewGood
  <1>2. /\ Good(y) /\ Asked(y.me) = Asked(v.me) /\ ~ y.me.silencing /\ y.me.stage = v.me.stage
        /\ y.me.retained = v.me.retained /\ y.counter = v.counter
      BY <1>1, <1>y, UnlockGood
  <1>3. y \in Views /\ y.me \in Pages /\ Tidy(y.me) /\ y.me.stage = "off" /\ "metronome" \in y.me.retained
      BY <1>1, <1>2, GoodMe DEF Play
  <1>4. y.me.click = 0
      BY <1>3, PageFields, Times DEF Tidy
  <1>5. x = [y EXCEPT !.me.wanted = TRUE]
    <2>1. q = [y.me EXCEPT !.wanted = TRUE]
        BY <1>3, <1>4, <1>q, <1>b DEF Staged, Pages
    <2> QED BY <1>x, <1>3, <2>1 DEF WithMe, Views
  <1>6. ~ Going(q)
    <2>1. q.stage = "off"
        BY <1>3, <1>q DEF Staged, Pages
    <2> QED BY <2>1 DEF Going
  <1>7. /\ Good(x) /\ x.me = q /\ q.stage = "off" /\ Asked(q) = Asked(y.me) /\ q.click = 0
        /\ q.silencing = y.me.silencing /\ q.retained = y.me.retained /\ q.wanted = b /\ x.counter = y.counter
      BY <1>2, <1>3, <1>6, <1>q, <1>x, Times, StageFacts, StageGood
  <1>8. acks' = acks
      BY DEF Play
  <1>9. CASE tabs[t].state = "held" /\ Set(Prepare(x))
    <2>1. x.me.state = "held" /\ x.me.stage \notin Leased /\ "metronome" \in x.me.retained
        BY <1>1, <1>2, <1>3, <1>7, <1>9, StageFacts DEF Asked
    <2>2. Good(Prepare(x))
        BY <1>7, <2>1, PrepareGood
    <2> QED BY <1>8, <1>9, <2>2, SetKeepsAll
  <1>10. CASE /\ tabs[t].state = "none" /\ counter < MaxGeneration
              /\ Set(Continued(Acquire([x EXCEPT !.me.stage = "claiming"])))
    <2>q. PICK p : p = Staged(x.me, "claiming", b, 0)
        OBVIOUS
    <2>z. PICK z : z = WithMe(x, p)
        OBVIOUS
    <2>1. x \in Views /\ x.me \in Pages
        BY <1>7, GoodMe
    <2>2. z = [x EXCEPT !.me.stage = "claiming"]
      <3>1. p = [x.me EXCEPT !.stage = "claiming"]
          BY <1>7, <2>1, <2>q DEF Staged, Pages
      <3> QED BY <2>z, <2>1, <3>1 DEF WithMe, Views
    <2>3. ~ Going(p)
        BY <2>1, <2>q, Times, StageFacts, StagedFields DEF Going
    <2>4. Good(z) /\ z.counter = x.counter
        BY <1>2, <1>3, <1>7, <2>3, <2>q, <2>z, Times, StageFacts, StageGood
    <2>5. Good(Acquire(z))
        BY <1>1, <1>2, <1>7, <1>10, <2>4, AcquireGood
    <2>6. Good(Continued(Acquire(z)))
        BY <2>5, ContinuedGood
    <2> QED BY <1>8, <1>10, <2>2, <2>6, SetKeepsAll
  <1> QED BY <1>v, <1>y, <1>5, <1>9, <1>10 DEF Play

LEMMA InitialisedKeeps ==
    ASSUME OutputInv, NEW t \in Tabs, Initialised(t)
    PROVE  Kept
  <1>v. PICK v : v = View(t)
      OBVIOUS
  <1>q. PICK q : q = Staged(v.me, "renewing", v.me.wanted, v.me.click)
      OBVIOUS
  <1>x. PICK x : x = WithMe(v, q)
      OBVIOUS
  <1>y. PICK y : y = Renew(x)
      OBVIOUS
  <1>w. PICK w : w = Settled(y)
      OBVIOUS
  <1>1. Good(v) /\ v.me = tabs[t] /\ v \in Views /\ v.me \in Pages /\ Tidy(v.me)
      BY <1>v, ViewGood, GoodMe
  <1>2. v.me.stage = "preparing" /\ v.me.wanted \in BOOLEAN /\ v.me.click \in 0 .. Permit
      BY <1>1, PageFields DEF Initialised
  <1>3. v.me.click = 0 /\ "metronome" \in v.me.retained /\ (v.me.silencing => ~ v.me.wanted)
      BY <1>1, <1>2, Times DEF Tidy
  <1>4. x = [v EXCEPT !.me.stage = "renewing"]
    <2>1. q = [v.me EXCEPT !.stage = "renewing"]
        BY <1>1, <1>q DEF Staged, Pages
    <2> QED BY <1>x, <1>1, <2>1 DEF WithMe, Views
  <1>5. Set(w) /\ acks' = acks
      BY <1>v, <1>y, <1>w, <1>4 DEF Initialised
  <1>6. Going(q) => Going(v.me)
    <2>1. q.wanted = v.me.wanted /\ q.stage = "renewing"
        BY <1>1, <1>q DEF Staged, Pages
    <2> QED BY <1>2, <2>1 DEF Going
  <1>7. Good(x)
      BY <1>1, <1>2, <1>3, <1>6, <1>q, <1>x, StageFacts, StageGood
  <1>8. Good(y)
      BY <1>7, <1>y, RenewGood
  <1>9. Good(w)
      BY <1>8, <1>w, SettledGood
  <1> QED BY <1>5, <1>9, SetKeepsAll

LEMMA StopPlayingKeeps ==
    ASSUME OutputInv, NEW t \in Tabs, StopPlaying(t)
    PROVE  Kept
  <1>v. PICK v : v = View(t)
      OBVIOUS
  <1>b. PICK b \in BOOLEAN : b = FALSE
      OBVIOUS
  <1>1. Good(v) /\ v.me = tabs[t] /\ v \in Views /\ v.me \in Pages /\ Tidy(v.me)
      BY <1>v, ViewGood, GoodMe
  <1>2. acks' = acks
      BY DEF StopPlaying
  <1>3. CASE v.me.stage \in {"playing", "held", "resuming"}
    <2>w. PICK w : w = NoMetronome(v)
        OBVIOUS
    <2>1. Set(w)
        BY <1>v, <1>1, <1>3, <2>w DEF StopPlaying
    <2>2. Good(w)
        BY <1>1, <2>w, NoMetronomeGood
    <2> QED BY <1>2, <2>1, <2>2, SetKeepsAll
  <1>4. CASE v.me.stage \notin {"playing", "held", "resuming"}
    <2>q. PICK q : q = Staged(v.me, v.me.stage, b, v.me.click)
        OBVIOUS
    <2>w. PICK w : w = WithMe(v, q)
        OBVIOUS
    <2>1. w = [v EXCEPT !.me.wanted = FALSE]
      <3>1. q = [v.me EXCEPT !.wanted = FALSE]
          BY <1>1, <1>b, <2>q DEF Staged, Pages
      <3> QED BY <2>w, <1>1, <3>1 DEF WithMe, Views
    <2>2. Set(w)
        BY <1>v, <1>1, <1>4, <2>1 DEF StopPlaying
    <2>3. v.me.stage \in Stages /\ v.me.click \in 0 .. Permit /\ v.me.click = 0
        BY <1>1, <1>4, PageFields, Times DEF Tidy
    <2>4. ~ Going(q)
      <3>1. q.wanted = FALSE /\ q.stage = v.me.stage
          BY <1>1, <1>b, <2>q DEF Staged, Pages
      <3> QED BY <1>4, <3>1 DEF Going
    <2>5. (v.me.stage # "off" => "metronome" \in v.me.retained)
        BY <1>1 DEF Tidy
    <2>6. Good(w)
        BY <1>1, <1>b, <1>4, <2>q, <2>w, <2>3, <2>4, <2>5, StageGood
    <2> QED BY <1>2, <2>2, <2>6, SetKeepsAll
  <1> QED BY <1>3, <1>4

LEMMA PauseKeeps ==
    ASSUME OutputInv, NEW t \in Tabs, Pause(t)
    PROVE  Kept
  <1>v. PICK v : v = View(t)
      OBVIOUS
  <1>q. PICK q : q = Staged(v.me, "held", v.me.wanted, 0)
      OBVIOUS
  <1>w. PICK w : w = WithMe(v, q)
      OBVIOUS
  <1>1. Good(v) /\ v.me = tabs[t] /\ v \in Views /\ v.me \in Pages /\ Tidy(v.me)
      BY <1>v, ViewGood, GoodMe
  <1>2. v.me.stage = "playing" /\ v.me.wanted \in BOOLEAN /\ acks' = acks
      BY <1>1, PageFields DEF Pause
  <1>3. w = [v EXCEPT !.me.stage = "held", !.me.click = 0]
    <2>1. q = [v.me EXCEPT !.stage = "held", !.click = 0]
        BY <1>1, <1>q DEF Staged, Pages
    <2> QED BY <1>w, <1>1, <2>1 DEF WithMe, Views
  <1>4. Set(w)
      BY <1>v, <1>3 DEF Pause
  <1>5. "metronome" \in v.me.retained /\ (v.me.silencing => ~ v.me.wanted)
      BY <1>1, <1>2 DEF Tidy
  <1>6. ~ Going(q)
    <2>1. q.stage = "held"
        BY <1>1, <1>q DEF Staged, Pages
    <2> QED BY <2>1 DEF Going
  <1>7. Good(w)
      BY <1>1, <1>2, <1>5, <1>6, <1>q, <1>w, Times, StageFacts, StageGood
  <1> QED BY <1>2, <1>4, <1>7, SetKeepsAll

LEMMA ResumeKeeps ==
    ASSUME OutputInv, NEW t \in Tabs, Resume(t)
    PROVE  Kept
  <1>v. PICK v : v = View(t)
      OBVIOUS
  <1>y. PICK y : y = Unlock(v)
      OBVIOUS
  <1>b. PICK b \in BOOLEAN : b = TRUE
      OBVIOUS
  <1>1. Good(v) /\ v.me = tabs[t] /\ acks' = acks
      BY <1>v, ViewGood DEF Resume
  <1>2. /\ Good(y) /\ Asked(y.me) = Asked(v.me) /\ ~ y.me.silencing /\ y.me.stage = v.me.stage
      BY <1>1, <1>y, UnlockGood
  <1>3. y \in Views /\ y.me \in Pages /\ Tidy(y.me) /\ y.me.stage = "held"
      BY <1>1, <1>2, GoodMe DEF Resume
  <1>4. y.me.click = 0 /\ "metronome" \in y.me.retained /\ y.me.state = v.me.state
      BY <1>2, <1>3, PageFields, Times DEF Tidy, Asked
  <1>5. CASE v.me.state = "held"
    <2>q. PICK q : q = Staged(y.me, "resuming", b, 0)
        OBVIOUS
    <2>x. PICK x : x = WithMe(y, q)
        OBVIOUS
    <2>z. PICK z : z = Renew(x)
        OBVIOUS
    <2>w. PICK w : w = Settled(z)
        OBVIOUS
    <2>1. x = [y EXCEPT !.me.stage = "resuming", !.me.wanted = TRUE]
      <3>1. q = [y.me EXCEPT !.stage = "resuming", !.wanted = TRUE]
          BY <1>3, <1>4, <1>b, <2>q DEF Staged, Pages
      <3> QED BY <2>x, <1>3, <3>1 DEF WithMe, Views
    <2>2. Set(w)
        BY <1>v, <1>y, <1>1, <1>4, <1>5, <2>1, <2>z, <2>w DEF Resume
    <2>3. Good(x)
      <3>1. b \in BOOLEAN /\ y.me.state = "held" /\ ~ y.me.silencing
          BY <1>b, <1>2, <1>4, <1>5
      <3>2. "resuming" \in Stages /\ 0 \in 0 .. Permit /\ ~ (0 > 0)
          BY StageFacts, Times
      <3> QED BY <1>2, <1>4, <2>q, <2>x, <3>1, <3>2, StageGood
    <2>4. Good(z)
        BY <2>3, <2>z, RenewGood
    <2>5. Good(w)
        BY <2>4, <2>w, SettledGood
    <2> QED BY <1>1, <2>2, <2>5, SetKeepsAll
  <1>6. CASE v.me.state # "held"
    <2>w. PICK w : w = NoMetronome(y)
        OBVIOUS
    <2>1. Set(w)
        BY <1>v, <1>y, <1>4, <1>6, <2>w DEF Resume
    <2>2. Good(w)
        BY <1>2, <2>w, NoMetronomeGood
    <2> QED BY <1>1, <2>1, <2>2, SetKeepsAll
  <1> QED BY <1>5, <1>6

Toned(p) == [p EXCEPT !.tone = TRUE]

LEMMA TonedFields ==
    ASSUME NEW p \in Pages, NEW q, q = Toned(p)
    PROVE  /\ q \in Pages /\ Asked(q) = Asked(p) /\ q.stage = p.stage /\ q.tone /\ q.wanted = p.wanted
           /\ q.click = p.click /\ q.context = p.context /\ q.silencing = p.silencing
           /\ q.retained = p.retained /\ q.permit = p.permit /\ q.renewal = p.renewal
  <1>1. q \in Pages
      BY ZenonT(60) DEF Pages, Toned
  <1> QED BY <1>1 DEF Pages, Asked, Toned

LEMMA TonedGood ==
    ASSUME NEW v, Good(v), v.me.state = "held", "tuner" \in v.me.retained,
           NEW q, q = Toned(v.me), NEW w, w = WithMe(v, q)
    PROVE  Good(w)
  <1>1. v \in Views /\ v.me \in Pages /\ Tidy(v.me)
      BY GoodMe
  <1>2. /\ q \in Pages /\ Asked(q) = Asked(v.me) /\ q.stage = v.me.stage
        /\ q.wanted = v.me.wanted /\ q.click = v.me.click /\ q.context = v.me.context
        /\ q.silencing = v.me.silencing /\ q.retained = v.me.retained /\ q.permit = v.me.permit
        /\ q.renewal = v.me.renewal
      BY <1>1, TonedFields
  <1>3. Tidy(q) /\ (Going(q) => Going(v.me))
      BY <1>1, <1>2 DEF Tidy, Going
  <1>4. Softer(v.me, q)
      BY <1>2 DEF Softer, Within
  <1> QED BY <1>2, <1>3, <1>4, QuietMe

LEMMA ToneKeeps ==
    ASSUME OutputInv, NEW t \in Tabs, Tone(t)
    PROVE  Kept
  <1>v. PICK v : v = View(t)
      OBVIOUS
  <1>y. PICK y : y = Unlock(v)
      OBVIOUS
  <1>1. Good(v) /\ v.me = tabs[t] /\ acks' = acks /\ v.counter = counter /\ "tuner" \in v.me.retained
      BY <1>v, ViewGood DEF Tone
  <1>2. /\ Good(y) /\ Asked(y.me) = Asked(v.me) /\ y.counter = v.counter /\ y.me.retained = v.me.retained
        /\ y.me.stage = v.me.stage
      BY <1>1, <1>y, UnlockGood
  <1>3. y \in Views /\ y.me.state = v.me.state
      BY <1>2, GoodMe DEF Asked
  <1>4. CASE counter < MaxGeneration /\ Set(Acquire(y))
    <2>1. Good(Acquire(y))
        BY <1>1, <1>2, <1>4, AcquireGood
    <2> QED BY <1>1, <1>4, <2>1, SetKeepsAll
  <1>5. CASE v.me.state = "held" /\ Set(y)
      BY <1>1, <1>2, <1>5, SetKeepsAll
  <1>6. CASE v.me.state = "held" /\ Set(Renew([y EXCEPT !.me.tone = TRUE]))
    <2>q. PICK q : q = Toned(y.me)
        OBVIOUS
    <2>x. PICK x : x = WithMe(y, q)
        OBVIOUS
    <2>1. x = [y EXCEPT !.me.tone = TRUE]
        BY <2>q, <2>x, <1>3 DEF WithMe, Toned, Views
    <2>2. Good(x)
        BY <1>1, <1>2, <1>3, <1>6, <2>q, <2>x, TonedGood
    <2>3. Good(Renew(x))
        BY <2>2, RenewGood
    <2> QED BY <1>1, <1>6, <2>1, <2>3, SetKeepsAll
  <1>7. \/ counter < MaxGeneration /\ Set(Acquire(y))
        \/ tabs[t].state = "held" /\ Set(IF y.me.stage \in Leased THEN y ELSE Renew([y EXCEPT !.me.tone = TRUE]))
      BY <1>v, <1>y DEF Tone
  <1>8. CASE y.me.stage \in Leased
      BY <1>1, <1>4, <1>5, <1>7, <1>8
  <1>9. CASE y.me.stage \notin Leased
      BY <1>1, <1>4, <1>6, <1>7, <1>9
  <1> QED BY <1>8, <1>9

LEMMA ToneEndsKeeps ==
    ASSUME OutputInv, NEW t \in Tabs, ToneEnds(t)
    PROVE  Kept
  <1>v. PICK v : v = View(t)
      OBVIOUS
  <1>w. PICK w : w = Ended(WithMe(v, Quieted(v.me)))
      OBVIOUS
  <1>1. Good(v) /\ v \in Views
      BY <1>v, ViewGood, GoodMe
  <1>2. WithMe(v, Quieted(v.me)) = [v EXCEPT !.me.tone = FALSE]
      BY <1>1 DEF WithMe, Quieted, Views
  <1>3. Set(w) /\ acks' = acks
      BY <1>v, <1>w, <1>2 DEF ToneEnds
  <1>4. Good(w)
      BY <1>1, <1>w, QuietedGood
  <1> QED BY <1>3, <1>4, SetKeepsAll

-----------------------------------------------------------------------------
(* The claim, its beats and its permits *)

LEMMA RenewPermitKeeps ==
    ASSUME OutputInv, NEW t \in Tabs, RenewPermit(t)
    PROVE  Kept
  <1>v. PICK v : v = View(t)
      OBVIOUS
  <1>w. PICK w : w = Renew(v)
      OBVIOUS
  <1>1. Good(v) /\ Set(w) /\ acks' = acks
      BY <1>v, <1>w, ViewGood DEF RenewPermit
  <1>2. Good(w)
      BY <1>1, <1>w, RenewGood
  <1> QED BY <1>1, <1>2, SetKeepsAll

Permitting(p, k) == [p EXCEPT !.permit = k, !.issued = TRUE]

LEMMA PermittingFields ==
    ASSUME NEW p \in Pages, NEW k \in 0 .. Permit, NEW q, q = Permitting(p, k)
    PROVE  /\ q \in Pages /\ Asked(q) = Asked(p) /\ q.stage = p.stage /\ q.tone = p.tone /\ q.wanted = p.wanted
           /\ q.click = p.click /\ q.context = p.context /\ q.silencing = p.silencing
           /\ q.retained = p.retained /\ q.permit = k /\ q.renewal = p.renewal
  <1>1. q \in Pages
      BY ZenonT(60) DEF Pages, Permitting
  <1> QED BY <1>1 DEF Pages, Asked, Permitting

\* The answer brings a permit no longer than itself.
LEMMA RenewalDoneKeeps ==
    ASSUME OutputInv, NEW t \in Tabs, RenewalDone(t)
    PROVE  Kept
  <1>v. PICK v : v = View(t)
      OBVIOUS
  <1>r. PICK r : r = tabs[t].renewal
      OBVIOUS
  <1>p. PICK p : p = Renewing(v.me, None)
      OBVIOUS
  <1>x. PICK x : x = WithMe(v, p)
      OBVIOUS
  <1>q. PICK q : q = Permitting(p, r.left)
      OBVIOUS
  <1>y. PICK y : y = WithMe(x, q)
      OBVIOUS
  <1>1. Good(v) /\ v.me = tabs[t] /\ v \in Views /\ v.me \in Pages /\ Tidy(v.me) /\ acks' = acks
      BY <1>v, ViewGood, GoodMe DEF RenewalDone
  <1>2. r # None /\ r \in Renewals /\ r.left \in 0 .. Permit
      BY <1>r, <1>1, PageFields DEF RenewalDone, Renewals
  <1>3. /\ p \in Pages /\ Asked(p) = Asked(v.me) /\ p.stage = v.me.stage /\ p.tone = v.me.tone
        /\ p.wanted = v.me.wanted /\ p.click = v.me.click /\ p.context = v.me.context
        /\ p.silencing = v.me.silencing /\ p.retained = v.me.retained /\ p.permit = v.me.permit
        /\ p.renewal = None
      BY <1>1, <1>p, RenewalFields
  <1>4. Tidy(p) /\ (Going(p) => Going(v.me)) /\ (HasLease(p) => HasLease(v.me))
      BY <1>1, <1>3 DEF Tidy, Going, HasLease
  <1>5. Softer(v.me, p)
      BY <1>3 DEF Softer, Within
  <1>6. Good(x)
      BY <1>1, <1>x, <1>3, <1>4, <1>5, QuietMe
  <1>7. x.me = p /\ x \in Views
      BY <1>1, <1>x, <1>3, WithMeFields
  <1>8. /\ q \in Pages /\ Asked(q) = Asked(p) /\ q.stage = p.stage /\ q.tone = p.tone /\ q.wanted = p.wanted
        /\ q.click = p.click /\ q.context = p.context /\ q.silencing = p.silencing
        /\ q.retained = p.retained /\ q.permit = r.left /\ q.renewal = p.renewal
      BY <1>2, <1>3, <1>q, PermittingFields
  <1>9. x = [v EXCEPT !.me.renewal = None]
      BY <1>1, <1>p, <1>x DEF Renewing, WithMe, Views
  <1>10. y = [x EXCEPT !.me.permit = r.left, !.me.issued = TRUE]
      BY <1>7, <1>q, <1>y DEF Permitting, WithMe, Views
  <1>11. ASSUME r.ok
         PROVE  Good(y)
    <2>1. \A n \in Nat : Within(v.me, n) => Within(q, n)
        BY <1>1, <1>2, <1>3, <1>8, <1>11, <1>r DEF Within
    <2>2. Tidy(q) /\ (Going(q) => Going(v.me)) /\ (HasLease(q) => HasLease(v.me)) /\ Asked(q) = Asked(v.me)
          /\ q.tone = v.me.tone
        BY <1>1, <1>3, <1>8 DEF Tidy, Going, HasLease
    <2>3. y = WithMe(v, q)
        BY <1>1, <1>x, <1>y DEF WithMe, Views
    <2> QED BY <1>1, <1>8, <2>1, <2>2, <2>3, QuietMe DEF Softer
  <1>u. PICK u : u = IF ~ r.ok THEN (IF v.me.permit # None THEN RevokeAll(x) ELSE x)
                     ELSE IF r.late THEN x ELSE y
      OBVIOUS
  <1>12. Good(u)
    <2>1. CASE ~ r.ok
        BY <1>u, <1>6, <2>1, RevokeAllGood
    <2>2. CASE r.ok
        BY <1>u, <1>6, <1>11, <2>2
    <2> QED BY <2>1, <2>2
  <1>13. Set(Settled(u))
      BY <1>v, <1>r, <1>u, <1>9, <1>10, Zenon DEF RenewalDone
  <1>14. Good(Settled(u))
      BY <1>12, SettledGood
  <1> QED BY <1>1, <1>13, <1>14, SetKeepsAll

Stopping(p, s, x) == [p EXCEPT !.stopping = s, !.context = x]

LEMMA StoppingFields ==
    ASSUME NEW p \in Pages, NEW s \in SUBSET (1 .. MaxGeneration),
           NEW x \in {"none", "starting", "running", "suspended"}, NEW q, q = Stopping(p, s, x)
    PROVE  /\ q \in Pages /\ q.stage = p.stage /\ q.tone = p.tone /\ q.wanted = p.wanted
           /\ q.click = p.click /\ q.context = x /\ q.silencing = p.silencing
           /\ q.retained = p.retained /\ q.permit = p.permit /\ q.renewal = p.renewal
           /\ q.ask = p.ask /\ q.state = p.state /\ q.generation = p.generation /\ q.previous = p.previous
           /\ q.told = p.told /\ q.observed = p.observed /\ q.stopping = s
  <1>1. q \in Pages
      BY ZenonT(60) DEF Pages, Stopping
  <1> QED BY <1>1 DEF Pages, Stopping

\* A generation that is to be stopped is not the one the tab has, or will have.
LEMMA StoppingGood ==
    ASSUME NEW v, Good(v), NEW s \in SUBSET (1 .. MaxGeneration),
           NEW x \in {"none", "starting", "running", "suspended"}, x = v.me.context \/ ~ (v.me.click > 0),
           kind # "locks" => \A g \in s \ v.me.stopping :
                                /\ g <= v.counter /\ v.me.state = "none" /\ v.me.told = None
                                /\ v.me.ask # None => g < v.me.ask.generation,
           NEW q, q = Stopping(v.me, s, x), NEW w, w = WithMe(v, q)
    PROVE  Good(w)
  <1>1. v \in Views /\ v.me \in Pages /\ Tidy(v.me)
        /\ (kind = "locks" => Locked(v.tab, v.me, v.claim, v.lock))
        /\ (kind # "locks" => Claiming(v.tab, v.me, v.claim, v.counter))
        /\ (kind # "locks" => /\ Numbered(v.tab, v.me, v.claim, v.counter, acks[v.tab])
                              /\ Watched(v.tab, v.me, v.claim))
      BY GoodMe
  <1>2. /\ q \in Pages /\ q.stage = v.me.stage /\ q.tone = v.me.tone
        /\ q.wanted = v.me.wanted /\ q.click = v.me.click /\ q.context = x
        /\ q.silencing = v.me.silencing /\ q.retained = v.me.retained /\ q.permit = v.me.permit
        /\ q.renewal = v.me.renewal
        /\ q.ask = v.me.ask /\ q.state = v.me.state /\ q.generation = v.me.generation
        /\ q.previous = v.me.previous /\ q.told = v.me.told /\ q.observed = v.me.observed /\ q.stopping = s
      BY <1>1, StoppingFields
  <1>3. Tidy(q) /\ (Going(q) => Going(v.me)) /\ (HasLease(q) => HasLease(v.me))
      BY <1>1, <1>2 DEF Tidy, Going, HasLease
  <1>4. \A n : Within(v.me, n) <=> Within(q, n)
      BY <1>2 DEF Within
  <1>5. kind = "locks" => Locked(v.tab, q, v.claim, v.lock)
      BY <1>1, <1>2, <1>3 DEF Locked
  <1>6. kind # "locks" => Claiming(v.tab, q, v.claim, v.counter)
      BY <1>1, <1>2, <1>3, <1>4 DEF Claiming
  <1>7. ASSUME kind # "locks"
        PROVE  Numbered(v.tab, q, v.claim, v.counter, acks[v.tab]) /\ Watched(v.tab, q, v.claim)
    <2>1. \A g \in s \cup {acks[v.tab]} :
             /\ g <= v.counter
             /\ q.state # "none" \/ (q.told # None /\ q.told.what = "ready") => g < q.generation
             /\ q.ask # None => g < q.ask.generation
        BY <1>1, <1>2, <1>7 DEF Numbered
    <2> QED BY <1>1, <1>2, <1>7, <2>1 DEF Numbered, Watched
  <1> QED BY <1>2, <1>3, <1>5, <1>6, <1>7, MeStep

LEMMA StoppedKeeps ==
    ASSUME OutputInv, NEW t \in Tabs, Stopped(t)
    PROVE  Kept
  <1>v. PICK v : v = View(t)
      OBVIOUS
  <1>1. Good(v) /\ v.me = tabs[t] /\ v \in Views /\ v.me \in Pages /\ Tidy(v.me)
      BY <1>v, ViewGood, GoodMe
  <1>g. PICK g \in tabs[t].stopping :
            /\ acks' = [acks EXCEPT ![t] = g]
            /\ Set([v EXCEPT !.me.stopping = @ \ {g},
                             !.me.context = IF v.me.silencing THEN "suspended" ELSE @])
      BY <1>v DEF Stopped
  <1>2. g \in 1 .. MaxGeneration /\ g \in 0 .. MaxGeneration
      BY <1>1, <1>g, PageFields, Times
  <1>3. acks' \in [Tabs -> 0 .. MaxGeneration]
      BY <1>g, <1>2 DEF OutputInv, Typed
  <1>s. PICK s : s = v.me.stopping \ {g}
      OBVIOUS
  <1>x. PICK x : x = IF v.me.silencing THEN "suspended" ELSE v.me.context
      OBVIOUS
  <1>q. PICK q : q = Stopping(v.me, s, x)
      OBVIOUS
  <1>w. PICK w : w = WithMe(v, q)
      OBVIOUS
  <1>4. Set(w)
    <2>1. w = [v EXCEPT !.me.stopping = v.me.stopping \ {g},
                        !.me.context = IF v.me.silencing THEN "suspended" ELSE v.me.context]
        BY <1>1, <1>s, <1>x, <1>q, <1>w DEF Stopping, WithMe, Views
    <2>2. w = [v EXCEPT !.me.stopping = @ \ {g},
                        !.me.context = IF v.me.silencing THEN "suspended" ELSE @]
        BY <1>1, <2>1 DEF Views, Pages
    <2> QED BY <1>g, <2>2
  <1>5. s \in SUBSET (1 .. MaxGeneration)
      BY <1>1, <1>s, PageFields
  <1>6. x \in {"none", "starting", "running", "suspended"} /\ (x = v.me.context \/ ~ (v.me.click > 0))
    <2>1. CASE v.me.silencing
        BY <1>1, <1>x, <2>1 DEF Tidy
    <2>2. CASE ~ v.me.silencing
        BY <1>1, <1>x, <2>2 DEF Pages
    <2> QED BY <2>1, <2>2
  <1>7. Good(w)
      BY <1>1, <1>5, <1>6, <1>s, <1>q, <1>w, StoppingGood
  <1>8. /\ w.tab = t /\ w.me = q /\ w.claim = v.claim /\ w.counter = v.counter /\ q.stopping = s
        /\ q.ask = v.me.ask /\ q.state = v.me.state /\ q.generation = v.me.generation
        /\ q.previous = v.me.previous /\ q.told = v.me.told /\ q.tone = v.me.tone
    <2>1. v.tab = t
        BY <1>v, ViewGood
    <2>2. /\ q \in Pages /\ q.stopping = s
          /\ q.ask = v.me.ask /\ q.state = v.me.state /\ q.generation = v.me.generation
          /\ q.previous = v.me.previous /\ q.told = v.me.told /\ q.tone = v.me.tone
        BY <1>1, <1>5, <1>6, <1>q, StoppingFields
    <2> QED BY <1>1, <1>w, <2>1, <2>2, WithMeFields
  <1>9. ASSUME kind # "locks", NEW u \in Tabs
        PROVE  Numbered(u, Of(w, u), w.claim, w.counter, acks'[u])
    <2>1. CASE u # t
      <3>1. acks'[u] = acks[u] /\ Numbered(u, Of(w, u), w.claim, w.counter, acks[u])
          BY <1>7, <1>9, <1>g, <2>1 DEF Good, Course, Typed
      <3> QED BY <3>1
    <2>2. CASE u = t
      <3>1. acks'[t] = g /\ Of(w, u) = q
          BY <1>1, <1>8, <1>g, <2>2 DEF Good, Typed, Of
      <3>2. Numbered(t, v.me, v.claim, v.counter, acks[t])
          BY <1>1, <1>9, GoodMe, ViewGood, <1>v
      <3>3. s \cup {g} \subseteq v.me.stopping
          BY <1>1, <1>g, <1>s
      <3> QED BY <1>8, <2>2, <3>1, <3>2, <3>3 DEF Numbered
    <2> QED BY <2>1, <2>2
  <1> QED BY <1>3, <1>4, <1>7, <1>9, SetKeeps

LEMMA TakeoverKeeps ==
    ASSUME OutputInv, NEW t \in Tabs, Takeover(t)
    PROVE  Kept
  <1>v. PICK v : v = View(t)
      OBVIOUS
  <1>n. PICK n \in Observations : n = "no"
      BY DEF Observations
  <1>q. PICK q : q = Observing(v.me, n)
      OBVIOUS
  <1>x. PICK x : x = WithMe(v, q)
      OBVIOUS
  <1>1. Good(v) /\ v.me = tabs[t] /\ v.claim = claim /\ v.counter = counter /\ v.tab = t /\ acks' = acks
      BY <1>v, ViewGood DEF Takeover
  <1>2. v \in Views /\ v.me \in Pages
      BY <1>1, GoodMe
  <1>3. kind # "locks"
      BY <1>1 DEF OutputInv, Locked, Takeover
  <1>4. /\ Good(x) /\ x.me = q /\ q.state = v.me.state /\ q.ask = v.me.ask /\ q.observed = "no"
        /\ x.tab = v.tab /\ x.claim = v.claim /\ x.counter = v.counter
    <2>1. Good(v) /\ n \in Observations /\ n # "same"
        BY <1>1, <1>n
    <2> QED BY <1>3, <1>n, <1>q, <1>x, <2>1, ObservingGood
  <1>5. x = [View(t) EXCEPT !.me.observed = "no"]
    <2>1. x = [v EXCEPT !.me.observed = "no"]
        BY <1>2, <1>n, <1>q, <1>x DEF Observing, WithMe, Views
    <2> QED BY <1>v, <2>1
  <1>6. counter < MaxGeneration /\ v.me.state = "none" /\ v.me.ask = None
      BY <1>1 DEF Takeover
  <1>o. PICK o : o = [owner |-> claim.owner, generation |-> claim.generation, permit |-> claim.permit,
                      guard |-> claim.guard]
      OBVIOUS
  <1>7. CASE claim = None /\ Set(Claimed(x, "running", None))
    <2>1. Good(Claimed(x, "running", None))
        BY <1>1, <1>3, <1>4, <1>6, <1>7, ClaimedGood
    <2> QED BY <1>1, <1>7, <2>1, SetKeepsAll
  <1>8. CASE /\ claim # None /\ tabs[t].observed = "same" /\ claim.age > Stale
             /\ Set(Claimed(x, "pending-owner", o))
    <2>1. claim \in Claims
        BY <1>8 DEF OutputInv, Typed
    <2>2. o \in Previous
        BY <1>o, <2>1 DEF Claims, Previous
    <2>3. Claiming(t, x.me, claim, counter)
        BY <1>1, <1>3, <1>4, GoodMe
    <2>4. Within(x.me, 0)
        BY <1>8, <2>1, <2>3, RestFacts DEF Claiming
    <2>5. o.generation = counter /\ o.owner # t
      <3>1. Numbered(t, v.me, claim, counter, acks[t]) /\ Watched(t, v.me, claim)
          BY <1>1, <1>3, GoodMe
      <3> QED BY <1>1, <1>8, <1>o, <3>1 DEF Numbered, Watched
    <2>6. Good(Claimed(x, "pending-owner", o))
      <3>1. x.me.observed # "same" /\ x.me.state = "none" /\ x.me.ask = None /\ x.counter < MaxGeneration
          BY <1>1, <1>4, <1>6
      <3>2. o \in Previous /\ Within(x.me, 0) /\ o.generation = x.counter /\ o.owner # x.tab
          BY <1>1, <1>4, <2>2, <2>4, <2>5
      <3>3. x.claim.age > Stale
          BY <1>1, <1>4, <1>8
      <3> QED BY <1>3, <1>4, <3>1, <3>2, <3>3, ClaimedGood
    <2> QED BY <1>1, <1>8, <2>6, SetKeepsAll
  <1>9. CASE Set(x)
      BY <1>1, <1>4, <1>9, SetKeepsAll
  <1> QED BY <1>5, <1>7, <1>8, <1>9, <1>o DEF Takeover

\* A page that has seen the answer to its request.
Replied(p, s, g, r, x) ==
    [p EXCEPT !.state = s, !.generation = g, !.previous = r, !.ask = None, !.told = x]

LEMMA RepliedFields ==
    ASSUME NEW p \in Pages, NEW s \in States, NEW g \in 0 .. MaxGeneration,
           NEW r \in Previous \cup {None}, NEW x \in Reports \cup {None}, NEW q, q = Replied(p, s, g, r, x)
    PROVE  /\ q \in Pages /\ Sound(q) = Sound(p) /\ q.ask = None /\ q.state = s
           /\ q.generation = g /\ q.previous = r /\ q.told = x /\ q.observed = p.observed
           /\ q.stopping = p.stopping /\ q.tone = p.tone
  <1>1. q \in Pages
      BY ZenonT(60) DEF Pages, Replied, Reports, States
  <1> QED BY <1>1 DEF Pages, Sound, Replied

\* The result of a beat, once the answer before it was seen.
LEMMA NextReport ==
    ASSUME NEW x \in Reports \cup {None}, NEW y, y = IF x = None THEN None ELSE [x EXCEPT !.behind = FALSE]
    PROVE  /\ y \in Reports \cup {None}
           /\ y # None => x # None /\ y.what = x.what /\ y.generation = x.generation /\ ~ y.behind
  <1>1. CASE x = None
      BY <1>1
  <1>2. CASE x # None
      BY <1>2 DEF Reports
  <1> QED BY <1>1, <1>2

\* With Web Locks the answer is the lock, if it is free.
LEMMA LockAnswered ==
    ASSUME OutputInv, NEW t \in Tabs, kind = "locks", Answered(t)
    PROVE  Kept
  <1>v. PICK v : v = View(t)
      OBVIOUS
  <1>1. Good(v) /\ v.me = tabs[t] /\ v.tab = t /\ v.lock = lock /\ acks' = acks
      BY <1>v, ViewGood DEF Answered
  <1>2. /\ v \in Views /\ v.me \in Pages /\ Tidy(v.me) /\ Locked(t, v.me, v.claim, v.lock)
        /\ v.lock \in Tabs \cup {None} /\ v.claim \in Claims \cup {None} /\ v.counter \in 0 .. MaxGeneration
      BY <1>1, GoodMe, ViewFields
  <1>3. v.me.told = None /\ v.claim = None
      BY <1>2 DEF Locked
  <1>q. PICK q : q = Asking(v.me, None)
      OBVIOUS
  <1>x. PICK x : x = WithMe(v, q)
      OBVIOUS
  <1>4. x = [v EXCEPT !.me.ask = None, !.me.told = IF @ = None THEN None ELSE [@ EXCEPT !.behind = FALSE]]
      BY ZenonT(60), <1>2, <1>3, <1>q, <1>x DEF Asking, WithMe, Views, Pages
  <1>5. /\ q \in Pages /\ Sound(q) = Sound(v.me) /\ q.state = v.me.state /\ q.told = v.me.told
        /\ q.observed = v.me.observed
      BY <1>2, <1>q, AskingFields
  <1>6. Tidy(q) /\ (HasLease(v.me) <=> HasLease(q))
      BY <1>2, <1>5, SoundFacts
  <1>7. Locked(t, q, v.claim, v.lock)
      BY <1>2, <1>5, <1>6 DEF Locked
  <1>8. Good(x)
      BY <1>1, <1>5, <1>6, <1>7, <1>x, MeStep
  <1>9. CASE Set(Continued(x))
    <2>1. Good(Continued(x))
        BY <1>8, ContinuedGood
    <2> QED BY <1>1, <1>9, <2>1, SetKeepsAll
  <1>10. CASE lock = None /\ Set(Continued([x EXCEPT !.lock = t, !.me.state = "held"]))
    <2>p. PICK p : p = Replied(v.me, "held", v.me.generation, v.me.previous, None)
        OBVIOUS
    <2>y. PICK y : y = Rewritten(v, v.claim, v.counter, t, p)
        OBVIOUS
    <2>1. p = [q EXCEPT !.state = "held"]
        BY <1>2, <1>3, <1>q, <2>p DEF Replied, Asking, Pages
    <2>2. y = [x EXCEPT !.lock = t, !.me.state = "held"]
        BY <1>2, <1>x, <2>y, <2>1 DEF Rewritten, WithMe, Views
    <2>3. v.me.generation \in 0 .. MaxGeneration /\ v.me.previous \in Previous \cup {None}
        BY <1>2, PageFields
    <2>4. /\ p \in Pages /\ Sound(p) = Sound(v.me) /\ p.state = "held" /\ p.told = None
          /\ p.observed = v.me.observed
        BY <1>2, <2>3, <2>p, RepliedFields DEF States
    <2>5. Tidy(p)
        BY <1>2, <2>4, SoundFacts
    <2>6. Locked(t, p, v.claim, t)
        BY <1>2, <2>4 DEF Locked
    <2>7. Good(y)
        BY <1>1, <1>2, <1>10, <2>4, <2>5, <2>6, <2>y, Times, ClaimStep
    <2>8. Good(Continued(y))
        BY <2>7, ContinuedGood
    <2> QED BY <1>1, <1>10, <2>2, <2>8, SetKeepsAll
  <1> QED BY <1>v, <1>4, <1>9, <1>10 DEF Answered

\* With the claim record the answer counts unless it was withdrawn; a record that nobody
\* wants any more is removed.
LEMMA ClaimAnswered ==
    ASSUME OutputInv, NEW t \in Tabs, kind # "locks", Answered(t)
    PROVE  Kept
  <1>v. PICK v : v = View(t)
      OBVIOUS
  <1>a. PICK a : a = tabs[t].ask
      OBVIOUS
  <1>y. PICK y : y = IF v.me.told = None THEN None ELSE [v.me.told EXCEPT !.behind = FALSE]
      OBVIOUS
  <1>p. PICK p : p = Replied(v.me, v.me.state, v.me.generation, v.me.previous, y)
      OBVIOUS
  <1>x. PICK x : x = WithMe(v, p)
      OBVIOUS
  <1>1. Good(v) /\ v.me = tabs[t] /\ v.tab = t /\ v.claim = claim /\ v.counter = counter /\ v.lock = lock /\ acks' = acks
      BY <1>v, ViewGood DEF Answered
  <1>2. /\ v \in Views /\ v.me \in Pages /\ Tidy(v.me) /\ Claiming(t, v.me, claim, counter)
        /\ v.lock \in Tabs \cup {None} /\ v.claim \in Claims \cup {None} /\ v.counter \in 0 .. MaxGeneration
        /\ Numbered(t, v.me, claim, counter, acks[t]) /\ Watched(t, v.me, claim)
      BY <1>1, GoodMe, ViewFields
  <1>3. /\ v.me.state \in States /\ v.me.generation \in 0 .. MaxGeneration
        /\ v.me.previous \in Previous \cup {None} /\ v.me.told \in Reports \cup {None}
        /\ v.me.ask \in Asks \cup {None}
      BY <1>2, PageFields DEF States
  <1>4. a # None /\ a = v.me.ask /\ a \in Asks /\ (v.me.told # None => v.me.told.behind)
      BY <1>1, <1>3, <1>a DEF Answered
  <1>5. /\ a.generation \in 0 .. MaxGeneration /\ a.previous \in Previous \cup {None}
        /\ v.me.generation < a.generation /\ a.generation <= counter
      BY <1>2, <1>4 DEF Claiming, Asks
  <1>6. /\ y \in Reports \cup {None}
        /\ y # None => v.me.told # None /\ y.what = v.me.told.what /\ y.generation = v.me.told.generation
                       /\ y.what # "ready"
    <2>1. v.me.told # None => v.me.told.what # "ready"
        BY <1>2, <1>4 DEF Claiming
    <2> QED BY <1>3, <1>y, <2>1, NextReport
  <1>7. /\ p \in Pages /\ Sound(p) = Sound(v.me) /\ p.ask = None /\ p.state = v.me.state
        /\ p.generation = v.me.generation /\ p.previous = v.me.previous /\ p.told = y
        /\ p.observed = v.me.observed /\ p.stopping = v.me.stopping /\ p.tone = v.me.tone
      BY <1>2, <1>3, <1>6, <1>p, RepliedFields
  <1>8. x = [v EXCEPT !.me.ask = None, !.me.told = IF @ = None THEN None ELSE [@ EXCEPT !.behind = FALSE]]
    <2>1. p = [v.me EXCEPT !.ask = None, !.told = y]
        BY <1>2, <1>p DEF Replied, Pages
    <2>2. x = [v EXCEPT !.me.ask = None, !.me.told = y]
        BY <1>2, <1>x, <2>1 DEF WithMe, Views
    <2> QED BY <1>2, <1>y, <2>2 DEF Views, Pages
  <1>9. x \in Views /\ x.tab = t /\ x.me = p /\ x.lock = lock /\ x.claim = claim /\ x.counter = counter
      BY <1>1, <1>2, <1>7, <1>x, WithMeFields
  <1>10. Tidy(p) /\ (Going(v.me) <=> Going(p)) /\ \A n : Within(v.me, n) <=> Within(p, n)
      BY <1>2, <1>7, SoundFacts
  <1>11. CASE a.withdrawn
    <2>d. PICK d : d = IF Mine(v) /\ x.claim.generation = a.generation THEN None ELSE x.claim
        OBVIOUS
    <2>w. PICK w : w = Rewritten(v, d, v.counter, v.lock, p)
        OBVIOUS
    <2>1. w = [x EXCEPT !.claim = IF Mine(v) /\ @.generation = a.generation THEN None ELSE @]
      <3>1. w = [x EXCEPT !.claim = d]
          BY <1>2, <1>9, <1>x, <2>w DEF Rewritten, WithMe, Views
      <3> QED BY <1>9, <2>d, <3>1 DEF Views
    <2>2. Owns(t, claim) => claim.generation = a.generation
        BY <1>2, <1>4 DEF Claiming
    <2>3. (d = None /\ Owns(t, claim)) \/ (d = claim /\ ~ Owns(t, claim))
        BY <1>1, <1>9, <2>2, <2>d DEF Mine, Owns
    <2>4. ~ Owns(t, d)
        BY <2>3 DEF Owns
    <2>5. d # None => d = claim
        BY <2>3
    <2>6. Claiming(t, p, d, counter)
        BY <1>2, <1>4, <1>6, <1>7, <1>10, <2>4, <2>5 DEF Claiming
    <2>7. Handed(t, claim, d) /\ d \in Claims \cup {None}
        BY <1>1, <1>2, <2>3 DEF Handed
    <2>8. /\ Numbered(t, p, d, counter, acks[t]) /\ Watched(t, p, d)
          /\ Follows(claim, d, counter, counter) /\ Succeeds(d)
      <3>1. Numbered(t, p, claim, counter, acks[t])
          BY <1>2, <1>6, <1>7 DEF Numbered
      <3>2. Numbered(t, p, None, counter, acks[t])
          BY <3>1 DEF Numbered
      <3>3. Watched(t, p, d)
          BY <1>2, <1>7, <2>3 DEF Watched, Owns
      <3>4. Succeeds(d)
          BY <1>1, <2>3, CourseFacts, SucceedsOn
      <3> QED BY <2>3, <3>1, <3>2, <3>3, <3>4 DEF Follows
    <2>9. Good(w)
        BY <1>1, <1>2, <1>7, <1>10, <2>6, <2>7, <2>8, <2>w, Times, ClaimStep
    <2>10. Good(Continued(w))
        BY <2>9, ContinuedGood
    <2>11. Set(Continued(w))
        BY <1>v, <1>a, <1>8, <1>11, <2>1 DEF Answered
    <2> QED BY <1>1, <2>10, <2>11, SetKeepsAll
  <1>12. CASE ~ a.withdrawn
    <2>s. PICK s : s = IF a.previous = None THEN "held" ELSE "pending-owner"
        OBVIOUS
    <2>q. PICK q : q = Replied(v.me, s, a.generation, a.previous, y)
        OBVIOUS
    <2>w. PICK w : w = WithMe(v, q)
        OBVIOUS
    <2>1. w = [x EXCEPT !.me.generation = a.generation, !.me.previous = a.previous, !.me.state = s]
      <3>1. q = [p EXCEPT !.generation = a.generation, !.previous = a.previous, !.state = s]
          BY <1>2, <1>p, <2>q DEF Replied, Pages
      <3> QED BY <1>2, <1>x, <2>w, <3>1 DEF WithMe, Views
    <2>2. s # "none" /\ (s = "held" <=> a.previous = None)
        BY <2>s
    <2>3. /\ q \in Pages /\ Sound(q) = Sound(v.me) /\ q.ask = None /\ q.state = s
          /\ q.generation = a.generation /\ q.previous = a.previous /\ q.told = y
          /\ q.observed = v.me.observed /\ q.stopping = v.me.stopping /\ q.tone = v.me.tone
      <3>k. PICK k : k = a.generation
          OBVIOUS
      <3>o. PICK o : o = a.previous
          OBVIOUS
      <3>1. /\ v.me \in Pages /\ s \in States /\ k \in 0 .. MaxGeneration
            /\ o \in Previous \cup {None} /\ y \in Reports \cup {None}
        <4>1. s \in States
            BY <2>s DEF States
        <4>2. k \in 0 .. MaxGeneration /\ o \in Previous \cup {None}
            BY <1>5, <3>k, <3>o
        <4>3. y \in Reports \cup {None}
            BY <1>6
        <4> QED BY <1>2, <4>1, <4>2, <4>3
      <3>2. q = Replied(v.me, s, k, o, y)
          BY <2>q, <3>k, <3>o
      <3>3. /\ q \in Pages /\ Sound(q) = Sound(v.me) /\ q.ask = None /\ q.state = s
            /\ q.generation = k /\ q.previous = o /\ q.told = y /\ q.observed = v.me.observed
            /\ q.stopping = v.me.stopping /\ q.tone = v.me.tone
          BY <3>1, <3>2, RepliedFields
      <3> QED BY <3>k, <3>o, <3>3
    <2>4. Tidy(q) /\ (Going(v.me) <=> Going(q)) /\ \A n : Within(v.me, n) <=> Within(q, n)
        BY <1>2, <2>3, SoundFacts
    <2>5. 1 <= a.generation
        BY <1>3, <1>5, Times
    <2>6. Owns(t, claim) \/ Within(v.me, 0)
        BY <1>2, <1>4, <1>12 DEF Claiming
    <2>7. Going(v.me) => s = "held" \/ Within(v.me, 0)
      <3>1. v.me.state = "held" => Within(v.me, 0)
          BY <1>2, <1>4 DEF Claiming
      <3> QED BY <1>2, <3>1 DEF Claiming
    <2>8. Claiming(t, q, claim, counter)
        BY <1>2, <1>5, <1>6, <2>2, <2>3, <2>4, <2>5, <2>6, <2>7 DEF Claiming
    <2>9. Numbered(t, q, claim, counter, acks[t]) /\ Watched(t, q, claim)
      <3>1. \A g \in q.stopping \cup {acks[t]} : g <= counter /\ g < q.generation
          BY <1>2, <1>4, <2>3 DEF Numbered
      <3>2. y # None => y.generation <= a.generation
        <4>1. y # None => y.generation <= v.me.generation
            BY <1>2, <1>6 DEF Numbered
        <4>2. y # None => y.generation \in Nat
            BY <1>6, Times DEF Reports
        <4> QED BY <1>3, <1>5, <4>1, <4>2, Times
      <3>3. a.previous # None => a.generation = a.previous.generation + 1 /\ a.previous.owner # t
          BY <1>2, <1>4 DEF Numbered
      <3>4. claim # None /\ a.generation = claim.generation => claim.owner = t
          BY <1>2, <1>4 DEF Numbered
      <3> QED BY <1>2, <2>2, <2>3, <3>1, <3>2, <3>3, <3>4 DEF Numbered, Watched
    <2>10. Good(w)
        BY <1>1, <2>3, <2>4, <2>8, <2>9, <2>w, MeStep
    <2>11. Good(Continued(w))
        BY <2>10, ContinuedGood
    <2>12. Set(Continued(w))
        BY <1>v, <1>a, <1>8, <1>12, <2>1, <2>s DEF Answered
    <2> QED BY <1>1, <2>11, <2>12, SetKeepsAll
  <1> QED BY <1>11, <1>12

LEMMA AnsweredKeeps ==
    ASSUME OutputInv, NEW t \in Tabs, Answered(t)
    PROVE  Kept
    BY LockAnswered, ClaimAnswered

\* A page with another result to see.
Reported(p, x) == [p EXCEPT !.told = x]

LEMMA ReportedFields ==
    ASSUME NEW p \in Pages, NEW x \in Reports \cup {None}, NEW q, q = Reported(p, x)
    PROVE  /\ q \in Pages /\ Sound(q) = Sound(p) /\ q.ask = p.ask /\ q.state = p.state
           /\ q.generation = p.generation /\ q.previous = p.previous /\ q.told = x
           /\ q.observed = p.observed /\ q.stopping = p.stopping /\ q.tone = p.tone
  <1>1. q \in Pages
      BY DEF Pages, Reported, Reports
  <1> QED BY <1>1 DEF Pages, Sound, Reported

\* A record that is beaten.
Beaten(c, g, s) == [c EXCEPT !.age = 0, !.guard = g, !.state = s]

LEMMA BeatenFields ==
    ASSUME NEW c \in Claims, NEW g \in {"verified", "unverified"}, NEW s \in {"running", "pending-owner"},
           NEW d, d = Beaten(c, g, s)
    PROVE  d \in Claims /\ d.age = 0 /\ d.owner = c.owner /\ d.state = s /\ d.generation = c.generation
  <1>1. 0 \in 0 .. Stale + 1
      BY Times
  <1>2. d \in Claims
      BY <1>1 DEF Claims, Beaten
  <1> QED BY <1>1, <1>2 DEF Claims, Beaten

\* A beat that finds the record of another tab, or none.
LEMMA LostBeat ==
    ASSUME OutputInv, NEW t \in Tabs, Beat(t), ~ (Mine(View(t)) /\ claim.generation = tabs[t].generation)
    PROVE  Kept
  <1>v. PICK v : v = View(t)
      OBVIOUS
  <1>h. PICK h \in BOOLEAN : h = (v.me.ask # None)
      OBVIOUS
  <1>x. PICK x : x = [what |-> "lost", generation |-> v.me.generation, behind |-> h]
      OBVIOUS
  <1>q. PICK q : q = Reported(v.me, x)
      OBVIOUS
  <1>w. PICK w : w = WithMe(v, q)
      OBVIOUS
  <1>1. Good(v) /\ v.me = tabs[t] /\ v.tab = t /\ v.claim = claim /\ v.counter = counter
      BY <1>v, ViewGood
  <1>2. kind = "indexeddb" /\ v.me.state # "none" /\ v.me.told = None /\ acks' = acks
      BY <1>v DEF Beat
  <1>3. kind # "locks"
      BY <1>2
  <1>4. /\ v \in Views /\ v.me \in Pages /\ Tidy(v.me) /\ Claiming(t, v.me, claim, counter)
        /\ v.me.generation \in 0 .. MaxGeneration
        /\ Numbered(t, v.me, claim, counter, acks[t]) /\ Watched(t, v.me, claim)
      BY <1>1, <1>3, GoodMe, PageFields
  <1>5. x \in Reports /\ x.what = "lost" /\ x.generation = v.me.generation
      BY <1>x, <1>h, <1>4 DEF Reports
  <1>6. /\ q \in Pages /\ Sound(q) = Sound(v.me) /\ q.ask = v.me.ask /\ q.state = v.me.state
        /\ q.generation = v.me.generation /\ q.previous = v.me.previous /\ q.told = x
        /\ q.observed = v.me.observed /\ q.stopping = v.me.stopping /\ q.tone = v.me.tone
      BY <1>4, <1>5, <1>q, ReportedFields
  <1>7. Tidy(q) /\ (Going(v.me) <=> Going(q)) /\ \A n : Within(v.me, n) <=> Within(q, n)
      BY <1>4, <1>6, SoundFacts
  <1>8. 1 <= v.me.generation
      BY <1>2, <1>4 DEF Claiming
  <1>9. Claiming(t, q, claim, counter)
      BY <1>4, <1>5, <1>6, <1>7, <1>8 DEF Claiming
  <1>n. Numbered(t, q, claim, counter, acks[t]) /\ Watched(t, q, claim)
    <2>1. q.told.generation <= q.generation
        BY <1>4, <1>5, <1>6, Times
    <2> QED BY <1>4, <1>5, <1>6, <2>1 DEF Numbered, Watched
  <1>10. Good(w)
      BY <1>1, <1>3, <1>6, <1>7, <1>9, <1>n, <1>w, MeStep
  <1>11. w = [v EXCEPT !.me.told = [what |-> "lost", generation |-> v.me.generation, behind |-> v.me.ask # None]]
      BY <1>4, <1>h, <1>x, <1>q, <1>w DEF Reported, WithMe, Views
  <1>12. ~ (Mine(v) /\ claim.generation = v.me.generation)
      BY <1>v, <1>1
  <1>13. Set(w)
      BY <1>v, <1>11, <1>12 DEF Beat
  <1> QED BY <1>2, <1>10, <1>13, SetKeepsAll

\* A beat of the owner: then no request is under way, and who becomes ready had nothing
\* that sounds.
LEMMA OwnBeat ==
    ASSUME OutputInv, NEW t \in Tabs, Beat(t), Mine(View(t)), claim.generation = tabs[t].generation
    PROVE  Kept
  <1>v. PICK v : v = View(t)
      OBVIOUS
  <1>r. PICK r \in BOOLEAN : r = (claim.state = "pending-owner" /\ v.me.previous # None /\ Silent(v.me.previous))
      OBVIOUS
  <1>s. PICK s : s = IF r THEN "running" ELSE claim.state
      OBVIOUS
  <1>d. PICK d : d = Beaten(v.claim, Guard(v.me), s)
      OBVIOUS
  <1>h. PICK h \in BOOLEAN : h = (v.me.ask # None)
      OBVIOUS
  <1>x. PICK x : x = IF r THEN [what |-> "ready", generation |-> 0, behind |-> h] ELSE None
      OBVIOUS
  <1>q. PICK q : q = Reported(v.me, x)
      OBVIOUS
  <1>w. PICK w : w = Rewritten(v, d, v.counter, v.lock, q)
      OBVIOUS
  <1>1. Good(v) /\ v.me = tabs[t] /\ v.tab = t /\ v.claim = claim /\ v.counter = counter
      BY <1>v, ViewGood
  <1>2. kind = "indexeddb" /\ v.me.state # "none" /\ v.me.told = None /\ acks' = acks
      BY <1>v DEF Beat
  <1>3. kind # "locks"
      BY <1>2
  <1>4. /\ v \in Views /\ v.me \in Pages /\ Tidy(v.me) /\ Claiming(t, v.me, claim, counter)
        /\ v.me.ask \in Asks \cup {None} /\ v.lock \in Tabs \cup {None} /\ v.counter \in 0 .. MaxGeneration
        /\ v.claim \in Claims \cup {None}
        /\ Numbered(t, v.me, claim, counter, acks[t]) /\ Watched(t, v.me, claim)
      BY <1>1, <1>3, GoodMe, PageFields, ViewFields
  <1>5. Mine(v) /\ claim.generation = v.me.generation
      BY <1>v, <1>1
  <1>6. Owns(t, claim) /\ claim \in Claims
      BY <1>1, <1>4, <1>5 DEF Mine, Owns
  <1>7. v.me.ask = None
      BY <1>4, <1>5, <1>6, Times DEF Claiming, Asks, Claims
  <1>8. s \in {"running", "pending-owner"} /\ (s = "pending-owner" => claim.state = "pending-owner")
        /\ (r => claim.state = "pending-owner" /\ v.me.previous # None)
    <2>1. claim.state \in {"running", "pending-owner"}
        BY <1>6 DEF Claims
    <2>2. CASE r
        BY <1>r, <1>s, <2>2
    <2>3. CASE ~ r
        BY <1>s, <2>1, <2>3
    <2> QED BY <2>2, <2>3
  <1>9. d \in Claims /\ d.age = 0 /\ d.owner = t /\ d.state = s /\ d.generation = claim.generation /\ d # None
    <2>1. Guard(v.me) \in {"verified", "unverified"}
        BY DEF Guard
    <2>2. d \in Claims /\ d.age = 0 /\ d.owner = claim.owner /\ d.state = s /\ d.generation = claim.generation
        BY <1>1, <1>6, <1>8, <1>d, <2>1, BeatenFields
    <2> QED BY <1>6, <2>2, Times DEF Owns
  <1>10. x \in Reports \cup {None} /\ (x # None => r /\ x.what = "ready" /\ ~ x.behind /\ x.generation = 0)
    <2>1. CASE r
      <3>1. x = [what |-> "ready", generation |-> 0, behind |-> h] /\ h = FALSE
          BY <1>x, <1>h, <1>7, <2>1
      <3>2. 0 \in 0 .. MaxGeneration
          BY Times
      <3> QED BY <2>1, <3>1, <3>2 DEF Reports
    <2>2. CASE ~ r
        BY <1>x, <2>2
    <2> QED BY <2>1, <2>2
  <1>11. /\ q \in Pages /\ Sound(q) = Sound(v.me) /\ q.ask = v.me.ask /\ q.state = v.me.state
         /\ q.generation = v.me.generation /\ q.previous = v.me.previous /\ q.told = x
         /\ q.observed = v.me.observed /\ q.stopping = v.me.stopping /\ q.tone = v.me.tone
      BY <1>4, <1>10, <1>q, ReportedFields
  <1>12. Tidy(q) /\ (Going(v.me) <=> Going(q)) /\ \A n : Within(v.me, n) <=> Within(q, n)
      BY <1>4, <1>11, SoundFacts
  <1>13. Owns(t, d) /\ Handed(t, claim, d)
      BY <1>6, <1>9 DEF Owns, Handed
  <1>14. Within(q, Rest(d))
      BY <1>9, <1>11, RestFacts, WithinPermit
  <1>15. claim.state = "pending-owner" => Within(v.me, 0)
      BY <1>4, <1>6 DEF Claiming
  <1>16. r => v.me.state # "held"
      BY <1>4, <1>8 DEF Claiming
  <1>17. claim.generation <= counter /\ 1 <= v.me.generation /\ v.me.generation <= counter
         /\ (v.me.state = "held" => v.me.previous = None) /\ (Going(v.me) => v.me.state = "held" \/ Within(v.me, 0))
      BY <1>2, <1>4, <1>6 DEF Claiming, Owns
  <1>18. Claiming(t, q, d, counter)
      BY <1>7, <1>8, <1>9, <1>10, <1>11, <1>12, <1>13, <1>14, <1>15, <1>16, <1>17 DEF Claiming
  <1>n. Numbered(t, q, d, counter, acks[t]) /\ Watched(t, q, d)
    <2>1. q.told # None => q.told.generation <= q.generation
      <3>1. v.me.generation \in Nat
          BY <1>4, PageFields, Times
      <3> QED BY <1>10, <1>11, <3>1
    <2>2. d.owner = claim.owner
        BY <1>6, <1>9 DEF Owns
    <2>3. claim # None
        BY <1>6 DEF Owns
    <2> QED BY <1>2, <1>4, <1>7, <1>9, <1>11, <2>1, <2>2, <2>3 DEF Numbered, Watched
  <1>m. Follows(claim, d, counter, counter) /\ Succeeds(d)
    <2>1. claim # None /\ claim.owner = t /\ d.owner = claim.owner
        BY <1>6, <1>9 DEF Owns
    <2>2. r => Ready
        BY <1>1, <1>5, <1>r, <2>1 DEF Ready
    <2>3. ~ r => d.state = claim.state
        BY <1>s, <1>9
    <2> QED BY <1>9, <2>1, <2>2, <2>3 DEF Follows, Succeeds
  <1>19. Good(w)
      BY <1>1, <1>3, <1>4, <1>9, <1>11, <1>12, <1>13, <1>18, <1>n, <1>m, <1>w, Times, ClaimStep
  <1>20. w = [v EXCEPT !.claim = [claim EXCEPT !.age = 0, !.guard = Guard(v.me),
                                               !.state = IF r THEN "running" ELSE claim.state],
                       !.me.told = x]
    <2>1. d = [claim EXCEPT !.age = 0, !.guard = Guard(v.me), !.state = IF r THEN "running" ELSE claim.state]
        BY <1>1, <1>s, <1>d DEF Beaten
    <2>2. w = [v EXCEPT !.claim = d, !.me.told = x]
        BY <1>4, <1>q, <1>w DEF Reported, Rewritten, Views
    <2> QED BY <2>1, <2>2
  <1>21. Set(w)
      BY <1>v, <1>1, <1>5, <1>r, <1>h, <1>x, <1>20 DEF Beat
  <1> QED BY <1>2, <1>19, <1>21, SetKeepsAll

LEMMA BeatKeeps ==
    ASSUME OutputInv, NEW t \in Tabs, Beat(t)
    PROVE  Kept
    BY LostBeat, OwnBeat

Readied(p) == [p EXCEPT !.state = "held", !.previous = None, !.told = None]

LEMMA ReadiedFields ==
    ASSUME NEW p \in Pages, NEW q, q = Readied(p)
    PROVE  /\ q \in Pages /\ Sound(q) = Sound(p) /\ q.ask = p.ask /\ q.state = "held"
           /\ q.generation = p.generation /\ q.previous = None /\ q.told = None
           /\ q.observed = p.observed /\ q.stopping = p.stopping /\ q.tone = p.tone
  <1>1. q \in Pages
      BY ZenonT(60) DEF Pages, Readied
  <1> QED BY <1>1 DEF Pages, Sound, Readied

LEMMA ToldKeeps ==
    ASSUME OutputInv, NEW t \in Tabs, Told(t)
    PROVE  Kept
  <1>v. PICK v : v = View(t)
      OBVIOUS
  <1>x. PICK x : x = v.me.told
      OBVIOUS
  <1>p. PICK p : p = Reported(v.me, None)
      OBVIOUS
  <1>y. PICK y : y = WithMe(v, p)
      OBVIOUS
  <1>1. Good(v) /\ v.me = tabs[t] /\ v.tab = t /\ v.claim = claim /\ v.counter = counter
      BY <1>v, ViewGood
  <1>2. v.me.told # None /\ x # None /\ acks' = acks
      BY <1>1, <1>x DEF Told
  <1>3. kind # "locks"
      BY <1>1, <1>2 DEF OutputInv, Locked
  <1>4. /\ v \in Views /\ v.me \in Pages /\ Tidy(v.me) /\ Claiming(t, v.me, claim, counter)
        /\ Numbered(t, v.me, claim, counter, acks[t]) /\ Watched(t, v.me, claim)
      BY <1>1, <1>3, GoodMe
  <1>5. /\ p \in Pages /\ Sound(p) = Sound(v.me) /\ p.ask = v.me.ask /\ p.state = v.me.state
        /\ p.generation = v.me.generation /\ p.previous = v.me.previous /\ p.told = None
        /\ p.observed = v.me.observed /\ p.stopping = v.me.stopping /\ p.tone = v.me.tone
      BY <1>4, <1>p, ReportedFields
  <1>6. Tidy(p) /\ (Going(v.me) <=> Going(p)) /\ \A n : Within(v.me, n) <=> Within(p, n)
      BY <1>4, <1>5, SoundFacts
  <1>7. Claiming(t, p, claim, counter)
      BY <1>4, <1>5, <1>6 DEF Claiming
  <1>n. Numbered(t, p, claim, counter, acks[t]) /\ Watched(t, p, claim)
      BY <1>4, <1>5 DEF Numbered, Watched
  <1>8. Good(y)
      BY <1>1, <1>3, <1>5, <1>6, <1>7, <1>n, <1>y, MeStep
  <1>9. y = [v EXCEPT !.me.told = None]
      BY <1>4, <1>p, <1>y DEF Reported, WithMe, Views
  <1>10. CASE x.what = "ready"
    <2>q. PICK q : q = Readied(v.me)
        OBVIOUS
    <2>w. PICK w : w = WithMe(v, q)
        OBVIOUS
    <2>1. w = [y EXCEPT !.me.state = "held", !.me.previous = None]
      <3>1. q = [p EXCEPT !.state = "held", !.previous = None]
          BY <1>4, <1>p, <2>q DEF Readied, Reported, Pages
      <3> QED BY <1>4, <1>y, <2>w, <3>1 DEF WithMe, Views
    <2>2. Set(w)
        BY <1>v, <1>1, <1>x, <1>9, <1>10, <2>1 DEF Told
    <2>3. /\ q \in Pages /\ Sound(q) = Sound(v.me) /\ q.ask = v.me.ask /\ q.state = "held"
          /\ q.generation = v.me.generation /\ q.previous = None /\ q.told = None
          /\ q.observed = v.me.observed /\ q.stopping = v.me.stopping /\ q.tone = v.me.tone
        BY <1>4, <2>q, ReadiedFields
    <2>4. Tidy(q) /\ (Going(v.me) <=> Going(q)) /\ \A n : Within(v.me, n) <=> Within(q, n)
        BY <1>4, <2>3, SoundFacts
    <2>5. Within(v.me, 0) /\ 1 <= v.me.generation
        BY <1>2, <1>4, <1>10, <1>x DEF Claiming
    <2>6. Claiming(t, q, claim, counter)
        BY <1>4, <2>3, <2>4, <2>5 DEF Claiming
    <2>7. Numbered(t, q, claim, counter, acks[t]) /\ Watched(t, q, claim)
      <3>1. v.me.told # None /\ v.me.told.what = "ready"
          BY <1>2, <1>10, <1>x
      <3> QED BY <1>4, <2>3, <3>1 DEF Numbered, Watched
    <2>8. Good(w)
        BY <1>1, <1>3, <2>3, <2>4, <2>6, <2>7, <2>w, MeStep
    <2> QED BY <1>2, <2>2, <2>8, SetKeepsAll
  <1>11. CASE x.what # "ready"
    <2>z. PICK z : z = IF v.me.state = "none" THEN y ELSE Lost(y)
        OBVIOUS
    <2>s. PICK s : s = z.me.stopping \cup {x.generation}
        OBVIOUS
    <2>q. PICK q : q = Stopping(z.me, s, z.me.context)
        OBVIOUS
    <2>w. PICK w : w = WithMe(z, q)
        OBVIOUS
    <2>1. Good(z)
      <3>1. CASE v.me.state = "none"
          BY <1>8, <2>z, <3>1
      <3>2. CASE v.me.state # "none"
          BY <1>3, <1>8, <2>z, <3>2, LostGood
      <3> QED BY <3>1, <3>2
    <2>2. z \in Views /\ z.me \in Pages
        BY <2>1, GoodMe
    <2>3. x.generation \in 1 .. MaxGeneration
      <3>1. x \in Reports
          BY <1>2, <1>4, <1>x, PageFields
      <3>2. x.what = "lost" /\ x.generation \in 0 .. MaxGeneration
          BY <1>11, <3>1 DEF Reports
      <3>3. 1 <= x.generation
          BY <1>2, <1>4, <1>x, <3>2 DEF Claiming
      <3> QED BY <3>2, <3>3, Times
    <2>4. s \in SUBSET (1 .. MaxGeneration)
        BY <2>2, <2>3, <2>s, PageFields
    <2>5. z.me.context \in {"none", "starting", "running", "suspended"}
        BY <2>2 DEF Pages
    <2>n. /\ z.me.state = "none" /\ z.me.told = None /\ z.me.ask = v.me.ask /\ z.counter = counter
      <3>1. y \in Views /\ y.me = p /\ y.counter = counter
          BY <1>1, <1>4, <1>5, <1>y, WithMeFields
      <3>2. CASE v.me.state = "none"
          BY <1>5, <2>z, <3>1, <3>2
      <3>3. CASE v.me.state # "none"
          BY <1>3, <1>5, <1>8, <2>z, <3>1, <3>3, LostGood
      <3> QED BY <3>2, <3>3
    <2>m. \A g \in s \ z.me.stopping : /\ g <= z.counter /\ z.me.state = "none" /\ z.me.told = None
                                       /\ z.me.ask # None => g < z.me.ask.generation
      <3>1. x.generation <= v.me.generation /\ v.me.generation <= counter
            /\ (v.me.ask # None => v.me.generation < v.me.ask.generation)
          BY <1>2, <1>4, <1>x DEF Numbered, Claiming
      <3>2. /\ v.me.generation \in Nat /\ counter \in Nat /\ x.generation \in Nat
            /\ v.me.ask # None => v.me.ask.generation \in Nat
          BY <1>4, <2>3, PageFields, Times DEF OutputInv, Typed, Asks
      <3>3. x.generation <= counter /\ (v.me.ask # None => x.generation < v.me.ask.generation)
          BY <3>1, <3>2
      <3> QED BY <2>n, <2>s, <3>3
    <2>6. Good(w)
        BY <2>1, <2>4, <2>5, <2>m, <2>q, <2>w, StoppingGood
    <2>7. w = [z EXCEPT !.me.stopping = s]
      <3>1. q = [z.me EXCEPT !.stopping = s]
          BY <2>2, <2>q DEF Stopping, Pages
      <3> QED BY <2>2, <2>w, <3>1 DEF WithMe, Views
    <2>8. w = [z EXCEPT !.me.stopping = @ \cup {x.generation}]
        BY <2>2, <2>7, <2>s DEF Views, Pages
    <2>9. Set(w)
        BY <1>v, <1>1, <1>x, <1>9, <1>11, <2>8, <2>z DEF Told
    <2> QED BY <1>2, <2>6, <2>9, SetKeepsAll
  <1> QED BY <1>10, <1>11

-----------------------------------------------------------------------------
(* Time *)

LEMMA LessFacts ==
    ASSUME NEW k \in 0 .. Permit
    PROVE  /\ Less(k) \in 0 .. Permit
           /\ Less(k) = IF k = 0 THEN 0 ELSE k - 1
    BY Times DEF Less

\* The same, of the values its fields take.
AgedWith(p, k, c, r, a, o) ==
    [p EXCEPT !.permit = k, !.click = c, !.renewal = r, !.ask = a, !.previous = o]

LEMMA AgedWithFields ==
    ASSUME NEW p \in Pages, NEW k \in 0 .. Permit \cup {None}, NEW c \in 0 .. Permit,
           NEW r \in Renewals \cup {None}, NEW a \in Asks \cup {None}, NEW o \in Previous \cup {None},
           NEW q, q = AgedWith(p, k, c, r, a, o)
    PROVE  /\ q \in Pages /\ q.permit = k /\ q.click = c /\ q.renewal = r /\ q.ask = a /\ q.previous = o
           /\ q.state = p.state /\ q.generation = p.generation /\ q.observed = p.observed /\ q.told = p.told
           /\ q.context = p.context /\ q.silencing = p.silencing /\ q.retained = p.retained
           /\ q.stage = p.stage /\ q.wanted = p.wanted /\ q.tone = p.tone /\ q.stopping = p.stopping
  <1>1. q \in Pages
      BY ZenonT(60) DEF Pages, Renewals, Asks, AgedWith
  <1> QED BY <1>1 DEF Pages, AgedWith

\* What is kept of a record is of the same owner and generation.
SameOwner(x, y) == y # None => x # None /\ y.owner = x.owner /\ y.generation = x.generation

LEMMA AgedFields ==
    ASSUME NEW p \in Pages, NEW q, q = Aged(p)
    PROVE  /\ q \in Pages /\ q.permit = Less(p.permit)
           /\ q.click = IF p.context = "running" THEN Less(p.click) ELSE p.click
           /\ q.renewal # None => p.renewal # None /\ q.renewal.ok = p.renewal.ok
                                  /\ q.renewal.left = Less(p.renewal.left)
           /\ q.ask # None => p.ask # None /\ q.ask.generation = p.ask.generation
                              /\ q.ask.withdrawn = p.ask.withdrawn /\ SameOwner(p.ask.previous, q.ask.previous)
           /\ p.previous = None => q.previous = None
           /\ SameOwner(p.previous, q.previous)
           /\ q.state = p.state /\ q.generation = p.generation /\ q.observed = p.observed /\ q.told = p.told
           /\ q.context = p.context /\ q.silencing = p.silencing /\ q.retained = p.retained
           /\ q.stage = p.stage /\ q.wanted = p.wanted /\ q.tone = p.tone /\ q.stopping = p.stopping
  <1>k. PICK k : k = Less(p.permit)
      OBVIOUS
  <1>c. PICK c : c = IF p.context = "running" THEN Less(p.click) ELSE p.click
      OBVIOUS
  <1>r. PICK r : r = IF p.renewal = None THEN None ELSE [p.renewal EXCEPT !.left = Less(p.renewal.left)]
      OBVIOUS
  <1>b. PICK b : b = Shorter(p.ask.previous)
      OBVIOUS
  <1>a. PICK a : a = IF p.ask = None THEN None ELSE [p.ask EXCEPT !.previous = b]
      OBVIOUS
  <1>o. PICK o : o = Shorter(p.previous)
      OBVIOUS
  <1>1. q = AgedWith(p, k, c, r, a, o)
      BY <1>k, <1>c, <1>r, <1>b, <1>a, <1>o DEF Aged, AgedWith
  <1>2. /\ p.click \in 0 .. Permit /\ p.permit \in 0 .. Permit \cup {None}
        /\ p.renewal \in Renewals \cup {None} /\ p.ask \in Asks \cup {None}
        /\ p.previous \in Previous \cup {None}
      BY PageFields
  <1>3. k \in 0 .. Permit \cup {None}
    <2>1. CASE p.permit = None
        BY <1>k, <2>1 DEF Less
    <2>2. CASE p.permit # None
        BY <1>k, <1>2, <2>2, LessFacts
    <2> QED BY <2>1, <2>2
  <1>4. c \in 0 .. Permit
    <2>1. CASE p.context = "running"
        BY <1>c, <1>2, <2>1, LessFacts
    <2>2. CASE p.context # "running"
        BY <1>c, <1>2, <2>2
    <2> QED BY <2>1, <2>2
  <1>5. /\ r \in Renewals \cup {None}
        /\ r # None => p.renewal # None /\ r.ok = p.renewal.ok /\ r.left = Less(p.renewal.left)
    <2>1. CASE p.renewal = None
        BY <1>r, <2>1
    <2>2. CASE p.renewal # None
      <3>1. p.renewal \in Renewals /\ p.renewal.left \in 0 .. Permit
          BY <1>2, <2>2 DEF Renewals
      <3>2. Less(p.renewal.left) \in 0 .. Permit
          BY <3>1, LessFacts
      <3>3. r = [p.renewal EXCEPT !.left = Less(p.renewal.left)]
          BY <1>r, <2>2
      <3> QED BY <2>2, <3>1, <3>2, <3>3 DEF Renewals
    <2> QED BY <2>1, <2>2
  <1>6. ASSUME NEW x \in Previous \cup {None},
               NEW y, y = Shorter(x)
        PROVE  y \in Previous \cup {None} /\ (x = None => y = None) /\ SameOwner(x, y)
    <2>1. CASE x = None
        BY <1>6, <2>1 DEF Shorter, SameOwner
    <2>2. CASE x # None
      <3>1. x \in Previous /\ x.permit \in 0 .. Permit
          BY <1>6, <2>2 DEF Previous
      <3>2. Less(x.permit) \in 0 .. Permit
          BY <3>1, LessFacts
      <3>3. y = [x EXCEPT !.permit = Less(x.permit)]
          BY <1>6, <2>2 DEF Shorter
      <3> QED BY <2>2, <3>1, <3>2, <3>3 DEF Previous, SameOwner
    <2> QED BY <2>1, <2>2
  <1>7. o \in Previous \cup {None} /\ (p.previous = None => o = None) /\ SameOwner(p.previous, o)
      BY <1>2, <1>6, <1>o
  <1>8. /\ a \in Asks \cup {None}
        /\ a # None => /\ p.ask # None /\ a.generation = p.ask.generation /\ a.withdrawn = p.ask.withdrawn
                       /\ SameOwner(p.ask.previous, a.previous)
    <2>1. CASE p.ask = None
        BY <1>a, <2>1
    <2>2. CASE p.ask # None
      <3>1. p.ask \in Asks /\ p.ask.previous \in Previous \cup {None}
          BY <1>2, <2>2 DEF Asks
      <3>2. b \in Previous \cup {None} /\ SameOwner(p.ask.previous, b)
          BY <1>6, <1>b, <3>1
      <3>3. a = [p.ask EXCEPT !.previous = b]
          BY <1>a, <2>2
      <3> QED BY <2>2, <3>1, <3>2, <3>3 DEF Asks
    <2> QED BY <2>1, <2>2
  <1>9. /\ q \in Pages /\ q.permit = k /\ q.click = c /\ q.renewal = r /\ q.ask = a /\ q.previous = o
        /\ q.state = p.state /\ q.generation = p.generation /\ q.observed = p.observed /\ q.told = p.told
        /\ q.context = p.context /\ q.silencing = p.silencing /\ q.retained = p.retained
        /\ q.stage = p.stage /\ q.wanted = p.wanted /\ q.tone = p.tone /\ q.stopping = p.stopping
      BY <1>1, <1>3, <1>4, <1>5, <1>7, <1>8, AgedWithFields
  <1> QED BY <1>k, <1>c, <1>5, <1>7, <1>8, <1>9

\* What may sound for so long may sound for less after a tick.
LEMMA AgedWithin ==
    ASSUME NEW p \in Pages, Tidy(p), NEW n \in Nat, Within(p, n), NEW q, q = Aged(p)
    PROVE  Within(q, IF n = 0 THEN 0 ELSE n - 1)
  <1>1. /\ q.permit = Less(p.permit)
        /\ q.click = IF p.context = "running" THEN Less(p.click) ELSE p.click
        /\ q.renewal # None => p.renewal # None /\ q.renewal.ok = p.renewal.ok
                               /\ q.renewal.left = Less(p.renewal.left)
      BY AgedFields
  <1>2. /\ p.click \in 0 .. Permit /\ p.permit \in 0 .. Permit \cup {None}
        /\ p.renewal \in Renewals \cup {None}
      BY PageFields
  <1>3. q.click <= (IF n = 0 THEN 0 ELSE n - 1)
    <2>1. CASE p.click = 0
      <3>1. q.click = 0
          BY <1>1, <1>2, <2>1, LessFacts
      <3> QED BY <3>1
    <2>2. CASE p.click # 0
      <3>1. p.context = "running"
          BY <1>2, <2>2, Times DEF Tidy
      <3>2. q.click = p.click - 1 /\ p.click <= n /\ p.click \in Nat
          BY <1>1, <1>2, <2>2, <3>1, LessFacts, Times DEF Within
      <3> QED BY <2>2, <3>2
    <2> QED BY <2>1, <2>2
  <1>4. ASSUME NEW k \in 0 .. Permit, k <= n
        PROVE  Less(k) <= (IF n = 0 THEN 0 ELSE n - 1)
      BY <1>4, LessFacts, Times
  <1>5. q.permit # None => q.permit <= (IF n = 0 THEN 0 ELSE n - 1)
    <2>1. CASE p.permit = None
        BY <1>1, <2>1 DEF Less
    <2>2. CASE p.permit # None
        BY <1>1, <1>2, <1>4, <2>2 DEF Within
    <2> QED BY <2>1, <2>2
  <1>6. q.renewal # None /\ q.renewal.ok => q.renewal.left <= (IF n = 0 THEN 0 ELSE n - 1)
    <2>1. ASSUME q.renewal # None, q.renewal.ok
          PROVE  q.renewal.left <= (IF n = 0 THEN 0 ELSE n - 1)
      <3>1. p.renewal # None /\ p.renewal.ok /\ p.renewal.left <= n /\ p.renewal.left \in 0 .. Permit
          BY <1>1, <1>2, <2>1 DEF Within, Renewals
      <3> QED BY <1>1, <1>4, <2>1, <3>1
    <2> QED BY <2>1
  <1> QED BY <1>3, <1>5, <1>6 DEF Within

\* The same, of the values its fields take.
OlderWith(c, a, k) == [c EXCEPT !.age = a, !.permit = k]

LEMMA OlderWithFields ==
    ASSUME NEW c \in Claims, NEW a \in 0 .. Stale + 1, NEW k \in 0 .. Permit, NEW d, d = OlderWith(c, a, k)
    PROVE  /\ d \in Claims /\ d.owner = c.owner /\ d.generation = c.generation /\ d.state = c.state
           /\ d.age = a
    BY DEF Claims, OlderWith

LEMMA OlderFields ==
    ASSUME NEW c \in Claims, NEW d, d = Older(c)
    PROVE  /\ d \in Claims /\ d.owner = c.owner /\ d.generation = c.generation /\ d.state = c.state
           /\ Rest(d) = IF Rest(c) = 0 THEN 0 ELSE Rest(c) - 1
  <1>a. PICK a : a = IF c.age > Stale THEN c.age ELSE c.age + 1
      OBVIOUS
  <1>k. PICK k : k = Less(c.permit)
      OBVIOUS
  <1>1. d = OlderWith(c, a, k)
      BY <1>a, <1>k DEF Older, OlderWith
  <1>2. c.age \in 0 .. Stale + 1 /\ c.permit \in 0 .. Permit
      BY DEF Claims
  <1>3. a \in 0 .. Stale + 1
      BY <1>a, <1>2, Times
  <1>4. k \in 0 .. Permit
      BY <1>k, <1>2, LessFacts
  <1>5. /\ d \in Claims /\ d.owner = c.owner /\ d.generation = c.generation /\ d.state = c.state
        /\ d.age = a
      BY <1>1, <1>3, <1>4, OlderWithFields
  <1>6. Rest(d) = IF Rest(c) = 0 THEN 0 ELSE Rest(c) - 1
    <2>1. CASE c.age > Stale
        BY <1>a, <1>2, <1>5, <2>1, Times DEF Rest
    <2>2. CASE ~ (c.age > Stale)
        BY <1>a, <1>2, <1>5, <2>2, Times DEF Rest
    <2> QED BY <2>1, <2>2
  <1> QED BY <1>5, <1>6

LEMMA AgedClaiming ==
    ASSUME NEW t \in Tabs, NEW p \in Pages, Tidy(p), NEW q, q = Aged(p), NEW n,
           NEW c \in Claims \cup {None}, Claiming(t, p, c, n),
           NEW d, d = IF c = None THEN None ELSE Older(c)
    PROVE  Claiming(t, q, d, n)
  <1>1. /\ q \in Pages
        /\ q.ask # None => p.ask # None /\ q.ask.generation = p.ask.generation
                           /\ q.ask.withdrawn = p.ask.withdrawn
        /\ p.previous = None => q.previous = None
        /\ q.state = p.state /\ q.generation = p.generation /\ q.told = p.told
        /\ q.stage = p.stage /\ q.wanted = p.wanted
      BY AgedFields
  <1>2. Within(p, 0) => Within(q, 0)
      BY AgedWithin
  <1>3. Going(q) <=> Going(p)
      BY <1>1 DEF Going
  <1>4. CASE c = None
    <2>1. d = None
        BY <1>4
    <2> QED BY <1>1, <1>2, <1>3, <1>4, <2>1 DEF Claiming, Owns
  <1>5. CASE c # None
    <2>1. d = Older(c) /\ c \in Claims
        BY <1>5
    <2>2. /\ d \in Claims /\ d.owner = c.owner /\ d.generation = c.generation /\ d.state = c.state
          /\ Rest(d) = IF Rest(c) = 0 THEN 0 ELSE Rest(c) - 1
        BY <2>1, OlderFields
    <2>3. d # None
        BY <2>2, Times
    <2>4. Rest(c) \in Nat /\ Within(p, Rest(c))
        BY <1>5, <2>1, Times DEF Claiming, Rest, Claims
    <2>5. Within(q, Rest(d))
        BY <2>2, <2>4, AgedWithin
    <2>6. Owns(t, d) <=> Owns(t, c)
        BY <1>5, <2>2, <2>3 DEF Owns
    <2> QED BY <1>1, <1>2, <1>3, <1>5, <2>2, <2>3, <2>5, <2>6 DEF Claiming
  <1> QED BY <1>4, <1>5

\* Time leaves the generations as they are.
LEMMA AgedNumbered ==
    ASSUME NEW t \in Tabs, NEW p \in Pages, NEW q, q = Aged(p), NEW n, NEW a,
           NEW c \in Claims \cup {None}, Numbered(t, p, c, n, a), Watched(t, p, c),
           NEW d, d = IF c = None THEN None ELSE Older(c)
    PROVE  Numbered(t, q, d, n, a) /\ Watched(t, q, d)
  <1>1. /\ q.ask # None => /\ p.ask # None /\ q.ask.generation = p.ask.generation
                           /\ SameOwner(p.ask.previous, q.ask.previous)
        /\ SameOwner(p.previous, q.previous)
        /\ q.state = p.state /\ q.generation = p.generation /\ q.told = p.told /\ q.observed = p.observed
        /\ q.tone = p.tone /\ q.stopping = p.stopping
      BY AgedFields
  <1>2. /\ d # None => c # None /\ d.generation = c.generation /\ d.owner = c.owner
        /\ c # None => d # None
    <2>1. CASE c = None
        BY <2>1
    <2>2. CASE c # None
        BY <2>2, OlderFields, Times
    <2> QED BY <2>1, <2>2
  <1>3. /\ \A g \in q.stopping \cup {a} :
             /\ g <= n
             /\ q.state # "none" \/ (q.told # None /\ q.told.what = "ready") => g < q.generation
             /\ q.ask # None => g < q.ask.generation
      BY <1>1 DEF Numbered
  <1>4. /\ q.previous # None => q.generation = q.previous.generation + 1 /\ q.previous.owner # t
        /\ q.ask # None /\ q.ask.previous # None =>
             q.ask.generation = q.ask.previous.generation + 1 /\ q.ask.previous.owner # t
      BY <1>1 DEF Numbered, SameOwner
  <1> QED BY <1>1, <1>2, <1>3, <1>4 DEF Numbered, Watched

LEMMA AgedTidy ==
    ASSUME NEW p \in Pages, Tidy(p), NEW q, q = Aged(p)
    PROVE  Tidy(q) /\ (HasLease(q) <=> HasLease(p))
  <1>1. /\ q.click = IF p.context = "running" THEN Less(p.click) ELSE p.click
        /\ q.context = p.context /\ q.silencing = p.silencing /\ q.retained = p.retained
        /\ q.stage = p.stage /\ q.wanted = p.wanted /\ q.tone = p.tone
      BY AgedFields
  <1>2. p.click \in 0 .. Permit
      BY PageFields
  <1>3. q.click > 0 => p.click > 0
      BY <1>1, <1>2, LessFacts, Times
  <1> QED BY <1>1, <1>3 DEF Tidy, HasLease

LEMMA TickKeeps ==
    ASSUME OutputInv, Tick
    PROVE  Kept
  <1>1. /\ Typed /\ \A t \in Tabs : Tidy(tabs[t])
        /\ kind = "locks" => \A t \in Tabs : Locked(t, tabs[t], claim, lock)
        /\ kind # "locks" => \A t \in Tabs : Claiming(t, tabs[t], claim, counter)
      BY DEF OutputInv
  <1>2. tabs \in [Tabs -> Pages] /\ claim \in Claims \cup {None}
      BY <1>1 DEF Typed
  <1>3. /\ kind' = kind /\ lock' = lock /\ counter' = counter /\ acks' = acks
        /\ claim' = IF claim = None THEN None ELSE Older(claim)
        /\ tabs' = [t \in Tabs |-> Aged(tabs[t])]
      BY DEF Tick
  <1>5. claim' \in Claims \cup {None} /\ (claim = None => claim' = None)
    <2>1. CASE claim = None
        BY <1>3, <2>1
    <2>2. CASE claim # None
        BY <1>2, <1>3, <2>2, OlderFields
    <2> QED BY <2>1, <2>2
  <1>6. ASSUME NEW t \in Tabs
        PROVE  /\ tabs'[t] \in Pages /\ Tidy(tabs'[t])
               /\ kind = "locks" => Locked(t, tabs'[t], claim', lock)
               /\ kind # "locks" => Claiming(t, tabs'[t], claim', counter)
    <2>p. PICK p : p = tabs[t]
        OBVIOUS
    <2>q. PICK q : q = Aged(p)
        OBVIOUS
    <2>1. p \in Pages /\ Tidy(p)
        BY <1>1, <1>2, <1>6, <2>p
    <2>2. tabs'[t] = q
        BY <1>3, <1>6, <2>p, <2>q
    <2>3. /\ q \in Pages /\ q.state = p.state /\ q.told = p.told /\ q.observed = p.observed
        BY <2>1, <2>q, AgedFields
    <2>4. Tidy(q) /\ (HasLease(q) <=> HasLease(p))
        BY <2>1, <2>q, AgedTidy
    <2>5. kind = "locks" => Locked(t, q, claim', lock)
        BY <1>1, <1>5, <1>6, <2>p, <2>3, <2>4 DEF Locked
    <2>6. kind # "locks" => Claiming(t, q, claim', counter)
      <3>1. ASSUME kind # "locks"
            PROVE  Claiming(t, q, claim', counter)
        <4>1. Claiming(t, p, claim, counter)
            BY <1>1, <1>6, <2>p, <3>1
        <4> QED BY <1>2, <1>3, <1>6, <2>1, <2>q, <4>1, AgedClaiming
      <3> QED BY <3>1
    <2> QED BY <2>2, <2>3, <2>4, <2>5, <2>6
  <1>7. Typed'
      BY <1>1, <1>3, <1>5, <1>6 DEF Typed
  <1>8. NumberInv'
    <2>1. ASSUME kind # "locks", NEW t \in Tabs
          PROVE  Numbered(t, tabs'[t], claim', counter, acks[t]) /\ Watched(t, tabs'[t], claim')
      <3>1. /\ tabs[t] \in Pages /\ Numbered(t, tabs[t], claim, counter, acks[t]) /\ Watched(t, tabs[t], claim)
            /\ tabs'[t] = Aged(tabs[t])
          BY <1>2, <1>3, <2>1 DEF OutputInv, NumberInv
      <3> QED BY <1>2, <1>3, <2>1, <3>1, AgedNumbered
    <2> QED BY <1>3, <2>1 DEF NumberInv
  <1>9. Succeeds(claim')
    <2>1. CASE claim = None
        BY <1>3, <2>1 DEF Succeeds
    <2>2. CASE claim # None
      <3>1. claim' \in Claims /\ claim'.owner = claim.owner /\ claim'.generation = claim.generation
            /\ claim'.state = claim.state
          BY <1>2, <1>3, <2>2, OlderFields
      <3> QED BY <2>2, <3>1, Times DEF Succeeds
    <2> QED BY <2>1, <2>2
  <1> QED BY <1>3, <1>6, <1>7, <1>8, <1>9 DEF OutputInv, Kept

-----------------------------------------------------------------------------
(* The whole specification *)

LEMMA PageKnown ==
    ASSUME NEW p, p = Page
    PROVE  /\ p \in Pages /\ p.state = "none" /\ p.generation = 0 /\ p.observed = "no" /\ p.ask = None
           /\ p.renewal = None /\ p.told = None /\ p.permit = None /\ p.click = 0 /\ p.stage = "off"
           /\ ~ p.wanted /\ ~ p.tone /\ ~ p.silencing /\ p.previous = None /\ p.stopping = {}
  <1>1. p \in Pages
      BY Times, StageFacts DEF Page, Pages
  <1> QED BY <1>1 DEF Page

LEMMA InitKeeps ==
    ASSUME Init
    PROVE  OutputInv
  <1>1. /\ kind \in {"locks", "indexeddb"} /\ lock = None /\ claim = None /\ counter = 0
        /\ acks = [t \in Tabs |-> 0] /\ tabs = [t \in Tabs |-> Page]
      BY DEF Init
  <1>2. ASSUME NEW t \in Tabs
        PROVE  /\ tabs[t] \in Pages /\ Tidy(tabs[t]) /\ Locked(t, tabs[t], claim, lock)
               /\ Claiming(t, tabs[t], claim, counter)
               /\ Numbered(t, tabs[t], claim, counter, acks[t]) /\ Watched(t, tabs[t], claim)
    <2>p. PICK p : p = Page
        OBVIOUS
    <2>1. tabs[t] = p
        BY <1>1, <1>2, <2>p
    <2>2. /\ p \in Pages /\ p.state = "none" /\ p.generation = 0 /\ p.observed = "no" /\ p.ask = None
          /\ p.renewal = None /\ p.told = None /\ p.permit = None /\ p.click = 0 /\ p.stage = "off"
          /\ ~ p.wanted /\ ~ p.tone /\ ~ p.silencing /\ p.previous = None /\ p.stopping = {}
        BY <2>p, PageKnown
    <2>3. Tidy(p)
        BY <2>2 DEF Tidy
    <2>4. Locked(t, p, claim, lock)
        BY <1>1, <2>2, StageFacts DEF Locked, HasLease
    <2>5. Claiming(t, p, claim, counter)
        BY <1>1, <2>2 DEF Claiming, Owns, Going
    <2>6. Numbered(t, p, claim, counter, acks[t]) /\ Watched(t, p, claim)
        BY <1>1, <1>2, <2>2 DEF Numbered, Watched
    <2> QED BY <2>1, <2>2, <2>3, <2>4, <2>5, <2>6
  <1>3. Typed
      BY <1>1, <1>2, Times DEF Typed
  <1> QED BY <1>2, <1>3 DEF OutputInv, NumberInv

LEMMA CoordinateKeeps ==
    ASSUME OutputInv, NEW t \in Tabs, Coordinate(t)
    PROVE  Kept
  <1>1. CASE \E c \in Consumers : Retain(t, c) \/ Drop(t, c)
      BY <1>1, RetainKeeps, DropKeeps
  <1>2. CASE Takeover(t) \/ Answered(t) \/ Beat(t) \/ Told(t) \/ Stopped(t)
      BY <1>2, TakeoverKeeps, AnsweredKeeps, BeatKeeps, ToldKeeps, StoppedKeeps
  <1>3. CASE RenewPermit(t) \/ RenewalDone(t)
      BY <1>3, RenewPermitKeeps, RenewalDoneKeeps
  <1> QED BY <1>1, <1>2, <1>3 DEF Coordinate

LEMMA OutputKeeps ==
    ASSUME OutputInv, NEW t \in Tabs, Output(t)
    PROVE  Kept
  <1>1. CASE ContextRuns(t) \/ Interrupted(t) \/ Idle(t) \/ Shutdown(t)
      BY <1>1, ContextRunsKeeps, InterruptedKeeps, IdleKeeps, ShutdownKeeps
  <1>2. CASE Play(t) \/ Initialised(t)
      BY <1>2, PlayKeeps, InitialisedKeeps
  <1>3. CASE StopPlaying(t) \/ Pause(t) \/ Resume(t)
      BY <1>3, StopPlayingKeeps, PauseKeeps, ResumeKeeps
  <1>4. CASE Tone(t) \/ ToneEnds(t)
      BY <1>4, ToneKeeps, ToneEndsKeeps
  <1> QED BY <1>1, <1>2, <1>3, <1>4 DEF Output

LEMMA StepKeeps ==
    ASSUME OutputInv, [Next]_vars
    PROVE  Kept
  <1>1. CASE Tick
      BY <1>1, TickKeeps
  <1>2. CASE \E t \in Tabs : Coordinate(t) \/ Output(t)
      BY <1>2, CoordinateKeeps, OutputKeeps
  <1>3. CASE UNCHANGED vars
    <2>1. /\ kind' = kind /\ lock' = lock /\ claim' = claim /\ counter' = counter
          /\ acks' = acks /\ tabs' = tabs
        BY <1>3 DEF vars
    <2>2. Typed' /\ NumberInv'
        BY <2>1 DEF OutputInv, Typed, NumberInv
    <2>3. Succeeds(claim')
        BY <2>1 DEF Succeeds
    <2> QED BY <2>1, <2>2, <2>3 DEF OutputInv, Kept
  <1> QED BY <1>1, <1>2, <1>3 DEF Next

\* What the code of the shared output keeps up at every step of every tab, also of
\* one that was frozen: a lease needs the lock; what may still sound ends with the
\* permit of the record; and what was stopped is of an earlier generation.
THEOREM OutputInvariant == Spec => []OutputInv
  <1>1. Init => OutputInv
      BY InitKeeps
  <1>2. OutputInv /\ [Next]_vars => OutputInv'
      BY StepKeeps DEF Kept
  <1> QED BY <1>1, <1>2, PTL DEF Spec

\* With the claim record: a metronome that clicks has the record.
LEMMA ClicksOwn ==
    ASSUME OutputInv, kind # "locks", NEW t \in Tabs, Clicks(tabs[t])
    PROVE  Owns(t, claim)
  <1>1. Claiming(t, tabs[t], claim, counter) /\ tabs[t] \in Pages
      BY DEF OutputInv, Typed
  <1>2. tabs[t].stage = "playing" /\ tabs[t].click > 0 /\ tabs[t].click \in Nat
      BY <1>1, PageFields, Times DEF Clicks
  <1>3. ~ Within(tabs[t], 0)
      BY <1>2 DEF Within
  <1> QED BY <1>1, <1>2, <1>3 DEF Claiming, Going

\* "One tab of this origin plays at a time" (docs of the output manager): two tabs never
\* sound with Web Locks, and two metronomes never click with the claim record.
THEOREM OneTabAtATime == Spec => []OneAtATime
  <1>1. OutputInv => OneAtATime
    <2> SUFFICES ASSUME OutputInv, NEW t \in Tabs, NEW u \in Tabs
                 PROVE  IF kind = "locks" THEN Sounds(t) /\ Sounds(u) => t = u
                        ELSE Audible(tabs[t]) /\ Clicks(tabs[t]) /\ Audible(tabs[u]) /\ Clicks(tabs[u]) => t = u
        BY DEF OneAtATime
    <2>1. CASE kind = "locks"
      <3>1. ASSUME NEW x \in Tabs, Sounds(x)
            PROVE  lock = x
        <4>1. HasLease(tabs[x])
            BY <3>1, StageFacts DEF Sounds, Clicks, HasLease
        <4> QED BY <2>1, <4>1 DEF OutputInv, Locked
      <3> QED BY <2>1, <3>1
    <2>2. CASE kind # "locks"
        BY <2>2, ClicksOwn DEF Owns
    <2> QED BY <2>1, <2>2
  <1> QED BY <1>1, OutputInvariant, PTL

-----------------------------------------------------------------------------
(* A claim that changes hands *)

\* With Web Locks there is no record.
LEMMA NoRecord ==
    ASSUME OutputInv, kind = "locks"
    PROVE  claim = None
    BY TabsAssumption DEF OutputInv, Locked

\* The tab that becomes ready is the pending owner of the record, and the old one silent.
LEMMA ReadyKnown ==
    ASSUME OutputInv, Kept, claim # None, claim' # None, claim.state = "pending-owner",
           claim'.state = "running", claim'.generation = claim.generation
    PROVE  kind # "locks" /\ Ready /\ claim.generation = counter
  <1>1. kind # "locks"
      BY NoRecord
  <1>2. PICK t \in Tabs : t = t
      BY TabsAssumption
  <1>3. claim.generation = counter
      BY <1>1, <1>2 DEF OutputInv, NumberInv, Numbered
  <1>4. claim.generation \in Nat
      BY Times DEF OutputInv, Typed, Claims
  <1>5. ~ (claim'.generation > counter)
      BY <1>3, <1>4
  <1> QED BY <1>1, <1>3, <1>5 DEF Kept, Succeeds

\* Who stopped the generation that was taken over has no tone of another one.
LEMMA AcknowledgedSilence ==
    ASSUME OutputInv, kind # "locks", claim # None, NEW t \in Tabs, NEW o \in Tabs, o # t,
           NEW g \in Nat, acks[o] >= g, claim.owner = t, claim.generation = g + 1
    PROVE  ~ tabs[o].tone
  <1> SUFFICES ASSUME tabs[o].tone
               PROVE  FALSE
      OBVIOUS
  <1>1. /\ Numbered(o, tabs[o], claim, counter, acks[o]) /\ Claiming(o, tabs[o], claim, counter)
        /\ tabs[o] \in Pages /\ acks[o] \in Nat
      BY Times DEF OutputInv, NumberInv, Typed
  <1>2. acks[o] < tabs[o].generation /\ tabs[o].generation <= counter /\ claim.generation = counter
      BY <1>1 DEF Numbered, Claiming
  <1>3. tabs[o].generation \in Nat /\ counter \in Nat
      BY <1>1, PageFields, Times DEF OutputInv, Typed
  <1>4. tabs[o].generation = claim.generation
      BY <1>1, <1>2, <1>3
  <1> QED BY <1>1, <1>4 DEF Numbered

LEMMA SilentStep ==
    ASSUME OutputInv, Kept
    PROVE  SilentWhenReady
  <1> SUFFICES ASSUME NEW t \in Tabs, claim # None, claim' # None, claim.owner = t,
                      claim.generation = tabs[t].generation, claim.state = "pending-owner",
                      claim'.state = "running", claim'.generation = claim.generation
               PROVE  /\ ~ (Audible(tabs[tabs[t].previous.owner]) /\ Clicks(tabs[tabs[t].previous.owner]))
                      /\ tabs[t].previous.guard = "unverified" => ~ Sounds(tabs[t].previous.owner)
      BY DEF SilentWhenReady
  <1>r. PICK r : r = tabs[t].previous
      OBVIOUS
  <1>o. PICK o : o = r.owner
      OBVIOUS
  <1>1. kind # "locks" /\ claim.generation = counter /\ r # None /\ Silent(r)
      BY <1>r, ReadyKnown DEF Ready
  <1>2. tabs[t] \in Pages /\ Numbered(t, tabs[t], claim, counter, acks[t])
      BY <1>1 DEF OutputInv, NumberInv, Typed
  <1>3. r \in Previous
      BY <1>r, <1>1, <1>2, PageFields
  <1>4. o \in Tabs /\ r.generation \in Nat
      BY <1>o, <1>3, Times DEF Previous
  <1>5. o # t /\ claim.generation = r.generation + 1
      BY <1>r, <1>o, <1>1, <1>2 DEF Numbered
  <1>6. ~ Clicks(tabs[o])
      BY <1>1, <1>4, <1>5, ClicksOwn DEF Owns
  <1>7. ASSUME r.guard = "unverified"
        PROVE  ~ Sounds(o)
    <2>1. acks[o] >= r.generation
        BY <1>o, <1>1, <1>7 DEF Silent
    <2>2. ~ tabs[o].tone
        BY <1>1, <1>4, <1>5, <2>1, AcknowledgedSilence
    <2> QED BY <1>6, <2>2 DEF Sounds
  <1> QED BY <1>r, <1>o, <1>6, <1>7

LEMMA ClaimedStep ==
    ASSUME OutputInv, Kept
    PROVE  NewWhenClaimed
  <1> SUFFICES ASSUME claim' # None, claim = None \/ claim'.generation # claim.generation
               PROVE  /\ claim'.generation > counter
                      /\ \A t \in Tabs : tabs[t].generation < claim'.generation /\ acks[t] < claim'.generation
      BY DEF NewWhenClaimed
  <1>1. kind # "locks"
    <2>1. ASSUME kind = "locks"
          PROVE  FALSE
      <3>1. \A t \in Tabs : Locked(t, tabs'[t], claim', lock')
          BY <2>1 DEF Kept, OutputInv
      <3> QED BY <3>1, TabsAssumption DEF Locked
    <2> QED BY <2>1
  <1>2. claim'.generation > counter
      BY <1>1 DEF Kept, Succeeds
  <1>3. claim'.generation \in Nat /\ counter \in Nat
      BY Times DEF Kept, OutputInv, Typed, Claims
  <1>4. ASSUME NEW t \in Tabs
        PROVE  tabs[t].generation < claim'.generation /\ acks[t] < claim'.generation
    <2>1. tabs[t].generation <= counter /\ acks[t] <= counter
        BY <1>1, <1>4 DEF OutputInv, NumberInv, Numbered, Claiming
    <2>2. tabs[t].generation \in Nat /\ acks[t] \in Nat
        BY <1>4, PageFields, Times DEF OutputInv, Typed
    <2> QED BY <1>2, <1>3, <2>1, <2>2
  <1> QED BY <1>2, <1>4

\* "The new owner may sound only after the old tab acknowledged its stop, or after the old
\* tab's last recorded permit expired", and a generation is "never reused": whoever freezes,
\* withdraws or is late, a tab that becomes ready finds the old one silent, and a new record
\* is of a later generation than any tab has, or has acknowledged.
THEOREM HandedOverSilently == Spec => HandedOver
  <1>1. OutputInv /\ [Next]_vars => [SilentWhenReady]_vars
      BY StepKeeps, SilentStep
  <1>2. OutputInv /\ [Next]_vars => [NewWhenClaimed]_vars
      BY StepKeeps, ClaimedStep
  <1>3. Spec => ReadyIsSilent
      BY <1>1, OutputInvariant, PTL DEF Spec, ReadyIsSilent
  <1>4. Spec => GenerationsGrow
      BY <1>2, OutputInvariant, PTL DEF Spec, GenerationsGrow
  <1> QED BY <1>3, <1>4 DEF HandedOver
=============================================================================
