------------------------- MODULE PracticeHistoryProofs -------------------------
(***************************************************************************)
(* Proofs about the practice history: for every number of tabs, chains,    *)
(* sessions, parts and epochs.                                             *)
(*                                                                         *)
(* The argument turns on who may still write a session.  Its id is fresh   *)
(* when a chain begins it and belongs to that chain alone until the chain   *)
(* has queued the summary; "used" (a row, or a tombstone of the device)    *)
(* never ends; and a summary is queued, read by a sync or sent only when   *)
(* the chain has left its session.  A request that was made before a       *)
(* deletion therefore meets the tombstone of its session, or an epoch that *)
(* is newer than its own.                                                  *)
(***************************************************************************)
EXTENDS PracticeHistory, TLAPS

Recorders == {"begin", "undo", "open", "chunk", "notes", "close", "enqueue"}
Uploads == {"create", "part", "finalize"}
Sending == Uploads \cup {"delete"}

ServerRecords == [epoch : 0 .. MaxEpoch, sessions : [Sessions -> ServerSessions], tombs : SUBSET Sessions]

\* What the stage of a flow says of its fields.
Shaped(w) ==
    /\ w.at # "idle" => w.tab \in Tabs
    /\ w.at \in Recorders \cup {"tell"} => w.session \in Sessions
    /\ w.at \in Sending => w.op \in Ops /\ w.op.history = w.history
    /\ w.at \in Uploads => w.op.type = "upload"
    /\ w.at = "delete" => w.op.type = "delete"
    /\ w.at = "part" => w.sent < w.parts
    /\ w.at \notin {"part", "finalize"} => w.sent = 0
    /\ w.at = "next" => w.answer = None

Device ==
    /\ rows \in [Sessions -> RowStates]
    /\ series \subseteq Sessions /\ notes \subseteq Sessions
    /\ outbox \subseteq Ops /\ generation \in 0 .. MaxEpoch

Ghosts ==
    /\ deleted \subseteq Sessions /\ erased \subseteq Sessions
    /\ queued \in 0 .. MaxQueued /\ owed \subseteq Ops

Typed ==
    /\ Device /\ Ghosts
    /\ tabs \in [Tabs -> TabRecords]
    /\ flows \in [Flows -> FlowRecords]
    /\ server \in ServerRecords

\* No tab has an epoch that the server never had.
Owners == \A t \in Tabs : Owned(t) => tabs[t].owner <= server.epoch

\* A session id that was ever written on the device.
Used(s) == rows[s] # "none" \/ s \in deleted

Recording(f) == flows[f].at \in Recorders

\* No recorder can write the session any more.
Left(s) == Used(s) /\ \A f \in Flows : Recording(f) => flows[f].session # s

\* What holds of an operation in the outbox, read by a sync or being sent.
Queued(op) ==
    /\ op.history <= server.epoch
    /\ op.type = "upload" =>
         /\ Left(op.session)
         /\ op.session \in erased => op.session \in server.tombs \/ op.history < server.epoch

\* What the answer of a request says of the server.
Says(at, s, history, answer) ==
    /\ answer = "gone" => s \in server.tombs
    /\ answer = "epoch" => history < server.epoch
    /\ at = "finalize" /\ answer = "ok" =>
         \/ server.sessions[s].status = "complete"
         \/ s \in server.tombs \/ history < server.epoch
    /\ at = "delete" => answer \in {"ok", "network"}
    /\ at = "delete" /\ answer = "ok" => s \in server.tombs

Answered(w) == w.at \in Sending /\ w.answer # None => Says(w.at, w.op.session, w.history, w.answer)

\* What holds of a flow with the record w.
Fits(w) ==
    /\ Shaped(w)
    /\ w.history <= server.epoch
    /\ w.at = "begin" => ~ Used(w.session)
    /\ w.at \in Recorders \ {"begin"} => Used(w.session)
    /\ \A s \in w.found : Used(s)
    /\ \A op \in w.todo : Queued(op)
    /\ w.at \in Sending => Queued(w.op)
    /\ Answered(w)

Fitting == \A f \in Flows : Fits(flows[f])

\* A session has one recorder.
Apart ==
    \A f, g \in Flows :
        Recording(f) /\ Recording(g) /\ f # g => flows[f].session # flows[g].session

\* A row that still grows was not deleted.
Growing == \A s \in Sessions : rows[s] = "recording" => s \notin deleted

Waiting == \A op \in outbox : Queued(op)

OnServer ==
    \A s \in Sessions :
        /\ server.sessions[s].status # "none" => Left(s)
        /\ s \in erased => server.sessions[s].status = "none"
        /\ s \in erased /\ ~ Left(s) => s \in server.tombs

HistoryInv ==
    /\ Typed /\ Owners /\ Fitting /\ Apart /\ Growing /\ SeriesStaysGone
    /\ Waiting /\ OnServer

-----------------------------------------------------------------------------
(* Types of the records a step writes *)

\* The types of a flow's fields.
LEMMA FlowFields ==
    ASSUME NEW w \in FlowRecords
    PROVE  /\ w.at \in Stages /\ w.tab \in Tabs \cup {None} /\ w.session \in Sessions \cup {None}
           /\ w.current \in BOOLEAN /\ w.history \in 0 .. MaxEpoch /\ w.saved \in 0 .. MaxEpoch
           /\ w.found \subseteq Sessions /\ w.todo \subseteq Ops /\ w.op \in Ops \cup {NoOp}
           /\ w.content \in RowStates /\ w.parts \in 0 .. Parts /\ w.sent \in 0 .. Parts
           /\ w.answer \in Answers /\ w.conflict \in BOOLEAN
    BY DEF FlowRecords

\* The idle record fits in any state.
LEMMA IdleFits ==
    ASSUME Typed
    PROVE  Idle \in FlowRecords /\ Fits(Idle) /\ Idle.at = "idle" /\ Idle.current = FALSE
           /\ Idle.found = {} /\ Idle.todo = {} /\ Idle.answer = None /\ Idle.history = 0
  <1>1. 0 \in 0 .. MaxEpoch /\ 0 \in 0 .. Parts /\ MaxEpoch \in Nat
      BY BoundsAssumption
  <1>2. "idle" \in Stages /\ None \in Answers /\ "none" \in RowStates /\ NoOp \in Ops \cup {NoOp}
      BY DEF Stages, Answers, RowStates
  <1>3. Idle \in FlowRecords
      BY <1>1, <1>2 DEF Idle, FlowRecords
  <1>4. server.epoch \in 0 .. MaxEpoch
      BY DEF Typed, ServerRecords
  <1>5. Fits(Idle)
      BY <1>4, <1>1 DEF Idle, Fits, Shaped, Recorders, Sending, Uploads, Answered
  <1> QED BY <1>3, <1>5 DEF Idle

\* The idle record fits after a step, too.
LEMMA IdleFitsAfter ==
    ASSUME Typed'
    PROVE  Fits(Idle)'
  <1>1. 0 \in 0 .. MaxEpoch /\ MaxEpoch \in Nat
      BY BoundsAssumption
  <1>4. server'.epoch \in 0 .. MaxEpoch
      BY DEF Typed, ServerRecords
  <1> QED BY <1>4, <1>1 DEF Idle, Fits, Shaped, Recorders, Sending, Uploads, Answered

\* Go changes the stage and forgets the generation that was read.
LEMMA GoRecord ==
    ASSUME NEW f \in Flows, NEW stage \in Stages, flows \in [Flows -> FlowRecords]
    PROVE  \E w \in FlowRecords :
             /\ Go(f, stage) = [flows EXCEPT ![f] = w]
             /\ w.at = stage /\ w.tab = flows[f].tab /\ w.session = flows[f].session
             /\ w.current = flows[f].current /\ w.history = flows[f].history
             /\ w.found = flows[f].found /\ w.todo = flows[f].todo /\ w.op = flows[f].op
             /\ w.sent = flows[f].sent /\ w.parts = flows[f].parts
  <1> DEFINE w == [flows[f] EXCEPT !.at = stage, !.saved = 0]
  <1>1. flows[f] \in FlowRecords OBVIOUS
  <1>2. 0 \in 0 .. MaxEpoch BY BoundsAssumption
  <1>3. w \in FlowRecords BY <1>1, <1>2 DEF FlowRecords
  <1>4. Go(f, stage) = [flows EXCEPT ![f] = w] BY DEF Go
  <1>5. /\ w.at = stage /\ w.tab = flows[f].tab /\ w.session = flows[f].session
        /\ w.current = flows[f].current /\ w.history = flows[f].history
        /\ w.found = flows[f].found /\ w.todo = flows[f].todo /\ w.op = flows[f].op
        /\ w.sent = flows[f].sent /\ w.parts = flows[f].parts
      BY <1>1 DEF FlowRecords
  <1> HIDE DEF w
  <1> QED BY <1>3, <1>4, <1>5

\* The step before a write reads the generation.
SavedAt(v, stage, n) == [v EXCEPT !.at = stage, !.saved = n]

\* What reading the generation leaves of a record.
LEMMA SavedRecord ==
    ASSUME NEW v \in FlowRecords, NEW stage \in Stages, NEW n \in 0 .. MaxEpoch,
           NEW w, w = SavedAt(v, stage, n)
    PROVE  /\ w \in FlowRecords
           /\ w.at = stage /\ w.tab = v.tab /\ w.session = v.session
           /\ w.current = v.current /\ w.history = v.history
           /\ w.found = v.found /\ w.todo = v.todo /\ w.op = v.op
           /\ w.sent = v.sent /\ w.parts = v.parts
    BY DEF FlowRecords, SavedAt

\* A call fixes the owner of its tab and begins with nothing sent.
Called(t, stage, s) ==
    [Idle EXCEPT !.at = stage, !.tab = t, !.session = s, !.current = TRUE, !.history = tabs[t].owner]

WithTodo(v, todo) == [v EXCEPT !.todo = todo]

WithSaved(v, n) == [v EXCEPT !.saved = n]

\* The record of a call.
LEMMA CallRecord ==
    ASSUME Typed, NEW t \in Tabs, NEW stage \in Stages, NEW s \in Sessions \cup {None}, Owned(t),
           NEW w, w = Called(t, stage, s)
    PROVE  /\ w \in FlowRecords
           /\ w.at = stage /\ w.tab = t /\ w.session = s /\ w.history = tabs[t].owner
           /\ w.found = {} /\ w.todo = {} /\ w.sent = 0 /\ w.answer = None
  <1>1. Idle \in FlowRecords BY IdleFits
  <1>2. tabs[t].owner \in 0 .. MaxEpoch
    <2>1. tabs[t] \in TabRecords BY DEF Typed
    <2> QED BY <2>1 DEF TabRecords, Owned
  <1>3. w \in FlowRecords BY <1>1, <1>2 DEF FlowRecords, Called
  <1>4. /\ w.at = stage /\ w.tab = t /\ w.session = s /\ w.history = tabs[t].owner
        /\ w.found = {} /\ w.todo = {} /\ w.sent = 0 /\ w.answer = None
      BY DEF Idle, Called
  <1> QED BY <1>3, <1>4

\* What writing one field leaves of a record.
LEMMA WithFields ==
    ASSUME NEW v \in FlowRecords, NEW todo \in SUBSET Ops, NEW n \in 0 .. MaxEpoch,
           NEW w, w = WithTodo(v, todo) \/ w = WithSaved(v, n)
    PROVE  /\ w \in FlowRecords
           /\ w.at = v.at /\ w.tab = v.tab /\ w.session = v.session /\ w.history = v.history
           /\ w.found = v.found /\ w.sent = v.sent /\ w.answer = v.answer
           /\ w = WithTodo(v, todo) => w.todo = todo
           /\ w = WithSaved(v, n) => w.todo = v.todo
  <1>1. CASE w = WithTodo(v, todo)
    <2>1. /\ w \in FlowRecords
          /\ w.at = v.at /\ w.tab = v.tab /\ w.session = v.session /\ w.history = v.history
          /\ w.found = v.found /\ w.sent = v.sent /\ w.answer = v.answer /\ w.todo = todo
        BY <1>1 DEF FlowRecords, WithTodo
    <2>2. w = WithSaved(v, n) => w.todo = v.todo
        BY DEF WithSaved, FlowRecords
    <2> QED BY <2>1, <2>2
  <1>2. CASE w = WithSaved(v, n)
    <2>1. /\ w \in FlowRecords
          /\ w.at = v.at /\ w.tab = v.tab /\ w.session = v.session /\ w.history = v.history
          /\ w.found = v.found /\ w.sent = v.sent /\ w.answer = v.answer /\ w.todo = v.todo
        BY <1>2 DEF FlowRecords, WithSaved
    <2>2. w = WithTodo(v, todo) => w.todo = todo
        BY DEF WithTodo, FlowRecords
    <2> QED BY <2>1, <2>2
  <1> QED BY <1>1, <1>2

\* Unlinked leaves the owners alone.
LEMMA UnlinkedTabs ==
    ASSUME Typed, NEW f \in Flows
    PROVE  /\ Unlinked(f) \in [Tabs -> TabRecords]
           /\ \A t \in Tabs : Unlinked(f)[t].owner = tabs[t].owner
  <1>1. ASSUME NEW t \in Tabs, NEW x, x = [tabs EXCEPT ![flows[f].tab].recording = None]
        PROVE  x \in [Tabs -> TabRecords] /\ x[t].owner = tabs[t].owner
    <2>1. tabs \in [Tabs -> TabRecords] BY DEF Typed
    <2>2. \A u \in Tabs : x[u] \in TabRecords /\ x[u].owner = tabs[u].owner
      <3> TAKE u \in Tabs
      <3>0. tabs[u] \in TabRecords BY <2>1
      <3>1. CASE u = flows[f].tab
        <4>1. x[u] = [tabs[u] EXCEPT !.recording = None] BY <1>1, <2>1, <3>1
        <4> QED BY <3>0, <4>1 DEF TabRecords
      <3>2. CASE u # flows[f].tab
        <4>1. x[u] = tabs[u] BY <1>1, <2>1, <3>2
        <4> QED BY <3>0, <4>1
      <3> QED BY <3>1, <3>2
    <2> QED BY <1>1, <2>1, <2>2
  <1>2. CASE Tabs = {}
      BY <1>2 DEF Typed, Unlinked
  <1>3. CASE Tabs # {}
      BY <1>1, <1>3 DEF Typed, Unlinked
  <1> QED BY <1>2, <1>3

-----------------------------------------------------------------------------
(* Steps of the flows *)

\* The flow goes on as it was, loses its owner, or ends.
Eased(v, w) == w = v \/ w = [v EXCEPT !.current = FALSE] \/ w = Idle

\* The record w that a step gives to the flow whose record was v.
Renewed(v, w) ==
    /\ Shaped(w) /\ w.history <= server.epoch
    /\ w.at \in Recorders => /\ v.at \in Recorders /\ w.session = v.session
                             /\ w.at # "begin" /\ Used(w.session)'
    /\ \A s \in w.found : Used(s)
    /\ \A op \in w.todo : Queued(op) \/ Queued(op)'
    /\ w.at \in Sending => Queued(w.op)
    /\ Answered(w)'

\* A flow without an answer of a request says nothing.
LEMMA NothingSaid ==
    ASSUME NEW w, w.at \notin Sending \/ w.answer = None
    PROVE  Answered(w)'
    BY DEF Answered

\* What easing keeps.
LEMMA EasedFields ==
    ASSUME NEW v \in FlowRecords, NEW w, Eased(v, w), Typed
    PROVE  /\ w \in FlowRecords
           /\ w.at \in {v.at, "idle"}
           /\ w # Idle => /\ w.at = v.at /\ w.tab = v.tab /\ w.session = v.session
                          /\ w.history = v.history /\ w.found = v.found /\ w.todo = v.todo
                          /\ w.op = v.op /\ w.parts = v.parts /\ w.sent = v.sent
                          /\ w.answer = v.answer
  <1>1. CASE w = v BY <1>1
  <1>2. CASE w = [v EXCEPT !.current = FALSE] BY <1>2 DEF FlowRecords
  <1>3. CASE w = Idle BY <1>3, IdleFits
  <1> QED BY <1>1, <1>2, <1>3 DEF Eased

\* A step in which no flow begins a session: what has been left stays left.
LEMMA LeftStays ==
    ASSUME Typed, Apart,
           \A s \in Sessions : Used(s) => Used(s)',
           \A g \in Flows : Recording(g)' => Recording(g) /\ flows'[g].session = flows[g].session
    PROVE  /\ \A s \in Sessions : Left(s) => Left(s)'
           /\ Apart'
  <1>1. \A s \in Sessions : Left(s) => Left(s)'
      BY DEF Left
  <1>2. Apart'
      BY DEF Apart
  <1> QED BY <1>1, <1>2

\* What a step keeps of the operations, when no epoch is reused and no tombstone
\* is lost.
LEMMA QueuedStays ==
    ASSUME Typed, Typed',
           \A s \in Sessions : Left(s) => Left(s)',
           server.epoch <= server'.epoch, server.tombs \subseteq server'.tombs,
           \A s \in erased' : s \in erased \/ s \in server'.tombs \/ server.epoch < server'.epoch
    PROVE  \A op \in Ops : Queued(op) => Queued(op)'
  <1> TAKE op \in Ops
  <1> HAVE Queued(op)
  <1>1. op.session \in Sessions /\ op.history \in Nat
      BY BoundsAssumption DEF Ops
  <1>2. server.epoch \in Nat /\ server'.epoch \in Nat
      BY BoundsAssumption DEF Typed, ServerRecords
  <1>3. op.history <= server'.epoch
      BY <1>1, <1>2 DEF Queued
  <1>4. op.type = "upload" => Left(op.session)'
      BY <1>1 DEF Queued
  <1>5. op.type = "upload" /\ op.session \in erased' =>
          op.session \in server'.tombs \/ op.history < server'.epoch
      BY <1>1, <1>2 DEF Queued
  <1> QED BY <1>3, <1>4, <1>5 DEF Queued

\* Every flow is eased or renewed by the step.
Goes(g) == \E w \in FlowRecords : flows'[g] = w /\ (Eased(flows[g], w) \/ Renewed(flows[g], w))

\* No step takes an epoch, a tombstone or a complete summary back, but for a
\* deletion that leaves a tombstone or a newer epoch.
Lasting ==
    /\ server.epoch <= server'.epoch /\ server.tombs \subseteq server'.tombs
    /\ \A s \in Sessions : server.sessions[s].status = "complete" =>
         \/ server'.sessions[s].status = "complete"
         \/ s \in server'.tombs \/ server.epoch < server'.epoch

\* An eased or renewed record fits after the step.
LEMMA FitsAfter ==
    ASSUME Typed, Typed', NEW v \in FlowRecords, NEW w \in FlowRecords, Fits(v),
           \A s \in Sessions : Used(s) => Used(s)',
           w.at = "begin" => (Used(w.session)' => Used(w.session)),
           \A op \in Ops : Queued(op) => Queued(op)',
           Lasting,
           Eased(v, w) \/ Renewed(v, w)
    PROVE  Fits(w)'
  <1>4. w.todo \subseteq Ops /\ w.found \subseteq Sessions /\ v.history \in Nat /\ w.history \in Nat
      BY BoundsAssumption DEF FlowRecords
  <1>5. server.epoch \in Nat /\ server'.epoch \in Nat
      BY BoundsAssumption DEF Typed, ServerRecords
  <1>9. server.epoch <= server'.epoch
      BY DEF Lasting
  <1>6. CASE w = Idle
      BY <1>6, IdleFitsAfter
  <1>7. CASE Eased(v, w) /\ w # Idle
    <2>1. /\ w.at = v.at /\ w.tab = v.tab /\ w.session = v.session
          /\ w.history = v.history /\ w.found = v.found /\ w.todo = v.todo
          /\ w.op = v.op /\ w.parts = v.parts /\ w.sent = v.sent /\ w.answer = v.answer
        BY <1>7, EasedFields
    <2>2. Shaped(w)
        BY <2>1 DEF Fits, Shaped
    <2>3. w.history <= server'.epoch
        BY <1>4, <1>5, <1>9, <2>1 DEF Fits
    <2>4. w.at = "begin" => ~ Used(w.session)'
        BY <2>1 DEF Fits
    <2>5. w.at \in Recorders \ {"begin"} => Used(w.session)'
        BY <2>1, <2>2 DEF Fits, Shaped
    <2>6. \A s \in w.found : Used(s)'
        BY <1>4, <2>1 DEF Fits
    <2>7. \A op \in w.todo : Queued(op)'
        BY <1>4, <2>1 DEF Fits
    <2>8. w.at \in Sending => Queued(w.op)'
        BY <2>1, <2>2 DEF Fits, Shaped
    <2>9. Answered(w)'
      <3> SUFFICES ASSUME w.at \in Sending, w.answer # None
                   PROVE  Says(w.at, w.op.session, w.history, w.answer)'
          BY DEF Answered
      <3>1. PICK s \in Sessions : s = w.op.session
          BY <2>2 DEF Shaped, Ops
      <3>2. Says(w.at, s, w.history, w.answer)
          BY <2>1, <3>1 DEF Fits, Answered
      <3>3. Says(w.at, s, w.history, w.answer)'
        <4>1. w.answer = "gone" => s \in server'.tombs
            BY <3>2 DEF Says, Lasting
        <4>2. w.history < server.epoch => w.history < server'.epoch
            BY <1>4, <1>5, <1>9
        <4>3. w.answer = "epoch" => w.history < server'.epoch
            BY <3>2, <4>2 DEF Says
        <4>4. v.history <= server.epoch /\ w.history = v.history
            BY <2>1 DEF Fits
        <4>5. server.epoch < server'.epoch => w.history < server'.epoch
            BY <1>4, <1>5, <4>4
        <4>6. w.at = "finalize" /\ w.answer = "ok" =>
                \/ server'.sessions[s].status = "complete"
                \/ s \in server'.tombs \/ w.history < server'.epoch
            BY <3>2, <4>2, <4>5 DEF Says, Lasting
        <4>7. w.at = "delete" => w.answer \in {"ok", "network"}
            BY <3>2 DEF Says
        <4>8. w.at = "delete" /\ w.answer = "ok" => s \in server'.tombs
            BY <3>2 DEF Says, Lasting
        <4> QED BY <4>1, <4>3, <4>6, <4>7, <4>8 DEF Says
      <3> QED BY <3>1, <3>3
    <2> QED BY <2>2, <2>3, <2>4, <2>5, <2>6, <2>7, <2>8, <2>9 DEF Fits
  <1>8. CASE Renewed(v, w)
    <2>2. Shaped(w)
        BY <1>8 DEF Renewed
    <2>3. w.history <= server'.epoch
        BY <1>8, <1>4, <1>5, <1>9 DEF Renewed
    <2>4. w.at \in Recorders => w.at # "begin" /\ Used(w.session)'
        BY <1>8 DEF Renewed
    <2>6. \A s \in w.found : Used(s)'
        BY <1>8, <1>4 DEF Renewed
    <2>7. \A op \in w.todo : Queued(op)'
        BY <1>8, <1>4 DEF Renewed
    <2>8. w.at \in Sending => Queued(w.op)'
        BY <1>8, <2>2 DEF Renewed, Shaped
    <2>9. w.at = "begin" => w.at \in Recorders
        BY DEF Recorders
    <2>10. Answered(w)'
        BY <1>8 DEF Renewed
    <2> QED BY <2>2, <2>3, <2>4, <2>6, <2>7, <2>8, <2>9, <2>10 DEF Fits
  <1> QED BY <1>6, <1>7, <1>8

\* A step that eases or renews every flow leaves them fitting.
LEMMA FitStays ==
    ASSUME Typed, Typed', Fitting,
           \A s \in Sessions : Used(s) => Used(s)',
           \A s \in Sessions : Used(s)' =>
               Used(s) \/ \A g \in Flows : flows'[g].at = "begin" => flows'[g].session # s,
           \A op \in Ops : Queued(op) => Queued(op)',
           Lasting,
           \A g \in Flows : Goes(g)
    PROVE  Fitting'
  <1> SUFFICES ASSUME NEW g \in Flows PROVE Fits(flows[g])'
      BY DEF Fitting
  <1>1. PICK w \in FlowRecords : flows'[g] = w /\ (Eased(flows[g], w) \/ Renewed(flows[g], w))
      BY DEF Goes
  <1>2. PICK v \in FlowRecords : flows[g] = v
      BY DEF Typed
  <1>3. Fits(v)
      BY <1>2 DEF Fitting
  <1>4. Shaped(w)
    <2>1. Shaped(v) /\ Shaped(Idle)
        BY <1>3, IdleFits DEF Fits
    <2>2. CASE Renewed(v, w) BY <2>2 DEF Renewed
    <2>3. CASE Eased(v, w) /\ w # Idle
        BY <2>1, <2>3, EasedFields DEF Shaped
    <2> QED BY <1>1, <1>2, <2>1, <2>2, <2>3
  <1>5. w.at = "begin" => w.session \in Sessions
      BY <1>4 DEF Shaped, Recorders
  <1>6. w.at = "begin" => (Used(w.session)' => Used(w.session))
      BY <1>1, <1>5
  <1>7. Fits(w)'
      BY <1>1, <1>2, <1>3, <1>6, FitsAfter
  <1> QED BY <1>1, <1>7 DEF Fits, Used, Queued, Left, Recording, Answered, Says

\* What a step of the flows that begins no session keeps of the recorders.
LEMMA GoesOn ==
    ASSUME Typed, NEW g \in Flows, Goes(g)
    PROVE  /\ flows'[g] \in FlowRecords
           /\ Recording(g)' => Recording(g) /\ flows'[g].session = flows[g].session
  <1>1. PICK w \in FlowRecords : flows'[g] = w /\ (Eased(flows[g], w) \/ Renewed(flows[g], w))
      BY DEF Goes
  <1>2. PICK v \in FlowRecords : flows[g] = v
      BY DEF Typed
  <1>3. w.at \in Recorders => v.at \in Recorders /\ w.session = v.session
    <2>1. CASE Renewed(v, w) BY <2>1 DEF Renewed
    <2>2. CASE Eased(v, w) /\ w # Idle BY <2>2, EasedFields
    <2>3. CASE w = Idle BY <2>3, IdleFits DEF Recorders
    <2> QED BY <1>1, <1>2, <2>1, <2>2, <2>3
  <1> QED BY <1>1, <1>2, <1>3 DEF Recording

\* A step that begins no session: what is left, queued and fitting stays so.
LEMMA StepKeeps ==
    ASSUME HistoryInv, Typed',
           \A s \in Sessions : Used(s) => Used(s)',
           \A s \in Sessions : Used(s)' =>
               Used(s) \/ \A g \in Flows : flows'[g].at = "begin" => flows'[g].session # s,
           Lasting,
           \A s \in erased' : s \in erased \/ s \in server'.tombs \/ server.epoch < server'.epoch,
           \A g \in Flows : Goes(g)
    PROVE  /\ Apart' /\ Fitting'
           /\ \A s \in Sessions : Left(s) => Left(s)'
           /\ \A op \in Ops : Queued(op) => Queued(op)'
  <1>1. Typed /\ Apart /\ Fitting
      BY DEF HistoryInv
  <1>4. \A g \in Flows : Recording(g)' => Recording(g) /\ flows'[g].session = flows[g].session
      BY <1>1, GoesOn
  <1>5. (\A s \in Sessions : Left(s) => Left(s)') /\ Apart'
      BY <1>1, <1>4, LeftStays
  <1>7. \A op \in Ops : Queued(op) => Queued(op)'
      BY <1>1, <1>5, QueuedStays DEF Lasting
  <1>8. Fitting'
      BY <1>1, <1>7, FitStays
  <1> QED BY <1>5, <1>7, <1>8

\* A step that leaves the server alone.
LEMMA DeviceStep ==
    ASSUME HistoryInv, Typed', Owners', Growing', SeriesStaysGone',
           server' = server, erased' = erased,
           \A s \in Sessions : Used(s) => Used(s)',
           \A s \in Sessions : Used(s)' =>
               Used(s) \/ \A g \in Flows : flows'[g].at = "begin" => flows'[g].session # s,
           \A op \in outbox' : op \in outbox \/ Queued(op)',
           \A g \in Flows : Goes(g)
    PROVE  HistoryInv'
  <1>1. Typed /\ Waiting /\ OnServer /\ server.epoch \in Nat
      BY BoundsAssumption DEF HistoryInv, Typed, ServerRecords
  <1>2. /\ Apart' /\ Fitting'
        /\ \A s \in Sessions : Left(s) => Left(s)'
        /\ \A op \in Ops : Queued(op) => Queued(op)'
    <2>1. Lasting
        BY <1>1 DEF Lasting
    <2> QED BY <1>1, <2>1, StepKeeps
  <1>10. Waiting'
      BY <1>1, <1>2 DEF Waiting, Typed, Device
  <1>11. OnServer'
      BY <1>1, <1>2 DEF OnServer
  <1> QED BY <1>2, <1>10, <1>11 DEF HistoryInv

\* A step of the flows and tabs alone that begins no session and gives no tab an
\* epoch of its own.
LEMMA QuietStep ==
    ASSUME HistoryInv, UNCHANGED <<device, server, ghosts>>,
           tabs' \in [Tabs -> TabRecords], flows' \in [Flows -> FlowRecords],
           Owners', \A g \in Flows : Goes(g)
    PROVE  HistoryInv'
  <1>1. Typed /\ Growing /\ SeriesStaysGone
      BY DEF HistoryInv
  <1>2. Typed'
      BY <1>1 DEF Typed, Device, Ghosts, device, ghosts
  <1>3. \A s : Used(s)' <=> Used(s)
      BY DEF Used, device, ghosts
  <1>4. server' = server /\ erased' = erased /\ outbox' = outbox
      BY DEF ghosts, device
  <1>5. Growing' /\ SeriesStaysGone'
      BY <1>1 DEF Growing, SeriesStaysGone, device, ghosts
  <1> QED BY <1>2, <1>3, <1>4, <1>5, DeviceStep

\* A step of one flow.
LEMMA OneFlow ==
    ASSUME Typed, NEW f \in Flows, NEW w \in FlowRecords, flows' = [flows EXCEPT ![f] = w],
           Eased(flows[f], w) \/ Renewed(flows[f], w)
    PROVE  flows' \in [Flows -> FlowRecords] /\ \A g \in Flows : Goes(g)
  <1>1. flows \in [Flows -> FlowRecords]
      BY DEF Typed
  <1>2. flows' \in [Flows -> FlowRecords]
      BY <1>1
  <1>3. ASSUME NEW g \in Flows PROVE Goes(g)
    <2>1. CASE g = f
        BY <1>1, <2>1 DEF Goes
    <2>2. CASE g # f
      <3>1. flows'[g] = flows[g] /\ flows[g] \in FlowRecords
          BY <1>1, <2>2
      <3> QED BY <3>1 DEF Goes, Eased
    <2> QED BY <2>1, <2>2
  <1> QED BY <1>2, <1>3

\* A record that differs from a fitting one in its stage and its answer only.
LEMMA SameRenewed ==
    ASSUME NEW v \in FlowRecords, NEW w \in FlowRecords, Fits(v), v.at # "idle",
           /\ w.tab = v.tab /\ w.session = v.session
           /\ w.history = v.history /\ w.found = v.found /\ w.todo = v.todo
           /\ w.op = v.op /\ w.parts = v.parts /\ w.sent = v.sent,
           w.at = v.at, w.at \notin {"begin", "next"}, Answered(w)',
           \A s \in Sessions : Used(s) => Used(s)'
    PROVE  Renewed(v, w)
  <1>1. Shaped(w)
      BY DEF Fits, Shaped, Recorders, Sending, Uploads
  <1>2. w.at \in Recorders => v.at \in Recorders \ {"begin"}
      BY DEF Recorders
  <1>3. w.at \in Recorders => Used(w.session)'
      BY <1>1, <1>2 DEF Fits, Shaped
  <1>4. w.at \in Sending => Queued(w.op)
      BY DEF Fits, Sending, Uploads, Recorders
  <1> QED BY <1>1, <1>2, <1>3, <1>4 DEF Fits, Renewed

\* The answer of a request, or none, changes nothing else.
LEMMA ReplyRecord ==
    ASSUME NEW f \in Flows, NEW code \in Answers, flows \in [Flows -> FlowRecords],
           Reply(f, code)
    PROVE  \E w \in FlowRecords :
             /\ flows' = [flows EXCEPT ![f] = w]
             /\ w.at = flows[f].at /\ w.tab = flows[f].tab /\ w.session = flows[f].session
             /\ w.current = flows[f].current /\ w.history = flows[f].history
             /\ w.found = flows[f].found /\ w.todo = flows[f].todo /\ w.op = flows[f].op
             /\ w.sent = flows[f].sent /\ w.parts = flows[f].parts /\ w.answer = code
             /\ w.content = flows[f].content
  <1> DEFINE w == [flows[f] EXCEPT !.answer = code]
  <1>1. flows[f] \in FlowRecords OBVIOUS
  <1>3. w \in FlowRecords BY <1>1 DEF FlowRecords
  <1>4. flows' = [flows EXCEPT ![f] = w] BY DEF Reply
  <1>5. /\ w.at = flows[f].at /\ w.tab = flows[f].tab /\ w.session = flows[f].session
        /\ w.current = flows[f].current /\ w.history = flows[f].history
        /\ w.found = flows[f].found /\ w.todo = flows[f].todo /\ w.op = flows[f].op
        /\ w.sent = flows[f].sent /\ w.parts = flows[f].parts /\ w.answer = code
        /\ w.content = flows[f].content
      BY <1>1 DEF FlowRecords
  <1> HIDE DEF w
  <1> QED BY <1>3, <1>4, <1>5

\* A step that only ends the flow, or answers it.
LEMMA ReplyGoes ==
    ASSUME HistoryInv, NEW f \in Flows, NEW code \in Answers, flows[f].at \in Requests, Reply(f, code),
           \A s \in Sessions : Used(s) => Used(s)',
           NEW v, v = flows[f], v.at \in Sending => Says(v.at, v.op.session, v.history, code)'
    PROVE  flows' \in [Flows -> FlowRecords] /\ \A g \in Flows : Goes(g)
  <1>1. Typed /\ Fits(flows[f]) /\ flows[f] \in FlowRecords
      BY DEF HistoryInv, Typed, Fitting
  <1>2. flows \in [Flows -> FlowRecords] BY DEF HistoryInv, Typed
  <1>3. PICK w \in FlowRecords :
             /\ flows' = [flows EXCEPT ![f] = w]
             /\ w.at = flows[f].at /\ w.tab = flows[f].tab /\ w.session = flows[f].session
             /\ w.history = flows[f].history
             /\ w.found = flows[f].found /\ w.todo = flows[f].todo /\ w.op = flows[f].op
             /\ w.sent = flows[f].sent /\ w.parts = flows[f].parts /\ w.answer = code
      BY <1>2, ReplyRecord
  <1>4. flows[f].at \notin {"idle", "begin", "next"}
      BY DEF Requests
  <1>6. Answered(w)'
    <2>1. w.at = v.at /\ w.op = v.op /\ w.history = v.history /\ w.answer = code
        BY <1>3
    <2> QED BY <2>1 DEF Answered, Says
  <1>5. Renewed(flows[f], w)
      BY <1>1, <1>3, <1>4, <1>6, SameRenewed
  <1> QED BY <1>1, <1>3, <1>5, OneFlow

\* The flow ends.
LEMMA EndGoes ==
    ASSUME Typed, NEW f \in Flows, flows' = End(f)
    PROVE  flows' \in [Flows -> FlowRecords] /\ \A g \in Flows : Goes(g)
  <1>1. Idle \in FlowRecords /\ Eased(flows[f], Idle)
      BY IdleFits DEF Eased
  <1>2. flows' = [flows EXCEPT ![f] = Idle]
      BY DEF End
  <1> QED BY <1>1, <1>2, OneFlow

\* A recorder that goes on to a later stage of its session.
LEMMA RecorderGoes ==
    ASSUME HistoryInv, NEW f \in Flows, flows[f].at \in Recorders,
           NEW w \in FlowRecords, flows' = [flows EXCEPT ![f] = w],
           w.at \in Recorders \ {"begin"},
           flows[f].at # "begin" \/ Used(w.session)',
           /\ w.tab = flows[f].tab /\ w.session = flows[f].session
           /\ w.history = flows[f].history
           /\ w.found = flows[f].found /\ w.todo = flows[f].todo /\ w.op = flows[f].op
           /\ w.sent = flows[f].sent /\ w.parts = flows[f].parts,
           \A s \in Sessions : Used(s) => Used(s)'
    PROVE  flows' \in [Flows -> FlowRecords] /\ \A g \in Flows : Goes(g)
  <1>1. Typed /\ Fits(flows[f]) /\ flows[f] \in FlowRecords
      BY DEF HistoryInv, Typed, Fitting
  <1>3. Shaped(w)
      BY <1>1 DEF Fits, Shaped, Recorders, Sending, Uploads
  <1>4. Used(w.session)'
    <2>1. CASE flows[f].at = "begin"
        BY <2>1
    <2>2. CASE flows[f].at # "begin"
      <3>1. Used(flows[f].session) /\ flows[f].session \in Sessions
          BY <1>1, <2>2 DEF Fits, Shaped
      <3>2. PICK s \in Sessions : s = w.session
          BY <3>1
      <3>3. Used(s)'
          BY <3>1, <3>2
      <3> QED BY <3>2, <3>3
    <2> QED BY <2>1, <2>2
  <1>5. w.at \notin Sending
      BY DEF Recorders, Sending, Uploads
  <1>6. Renewed(flows[f], w)
      BY <1>1, <1>3, <1>4, <1>5, NothingSaid DEF Renewed, Fits
  <1> QED BY <1>1, <1>6, OneFlow

\* The end of a sync: the flow ends or asks who is signed in.
LEMMA AskGoes ==
    ASSUME HistoryInv, NEW f \in Flows, flows[f].at # "idle", Ask(f) \/ flows' = End(f)
    PROVE  flows' \in [Flows -> FlowRecords] /\ \A g \in Flows : Goes(g)
  <1>1. Typed /\ Fits(flows[f])
      BY DEF HistoryInv, Fitting
  <1>2. CASE flows' = End(f)
      BY <1>1, <1>2, EndGoes
  <1>3. CASE Ask(f)
    <2>8. PICK w : w = [Idle EXCEPT !.at = "identity", !.tab = flows[f].tab]
        OBVIOUS
    <2>1. flows[f].tab \in Tabs
        BY <1>1 DEF Fits, Shaped
    <2>2. Idle \in FlowRecords /\ Fits(Idle)
        BY <1>1, IdleFits
    <2>3. w \in FlowRecords
        BY <2>1, <2>2, <2>8 DEF FlowRecords, Stages
    <2>4. w.at = "identity" /\ w.tab = flows[f].tab /\ w.history = Idle.history /\ w.sent = Idle.sent
          /\ w.found = {} /\ w.todo = {}
        BY <2>8 DEF Idle
    <2>5. flows' = [flows EXCEPT ![f] = w]
        BY <1>3, <2>8 DEF Ask
    <2>7. Answered(w)'
        BY <2>4, NothingSaid DEF Sending, Uploads
    <2>6. Renewed(flows[f], w)
        BY <2>1, <2>2, <2>4, <2>7 DEF Renewed, Fits, Shaped, Recorders, Sending, Uploads, Idle
    <2> QED BY <1>1, <2>3, <2>5, <2>6, OneFlow
  <1> QED BY <1>2, <1>3

\* The end of a sync.
LEMMA StopGoes ==
    ASSUME HistoryInv, NEW f \in Flows, flows[f].at # "idle", Stop(f)
    PROVE  flows' \in [Flows -> FlowRecords] /\ \A g \in Flows : Goes(g)
    BY AskGoes DEF Stop

\* The tabs that a step of the recorder leaves are typed and keep their owners.
LEMMA UnlinkedKeeps ==
    ASSUME HistoryInv, NEW f \in Flows, tabs' = Unlinked(f) \/ tabs' = tabs, server' = server
    PROVE  tabs' \in [Tabs -> TabRecords] /\ Owners'
  <1>1. Typed /\ Owners
      BY DEF HistoryInv
  <1>2. tabs' \in [Tabs -> TabRecords] /\ \A t \in Tabs : tabs'[t].owner = tabs[t].owner
      BY <1>1, UnlinkedTabs DEF Typed
  <1> QED BY <1>1, <1>2 DEF Owners, Owned

-----------------------------------------------------------------------------
(* Steps that touch neither the device nor the server *)

\* A session id stays used as long as the device is left alone.
LEMMA UsedQuiet ==
    ASSUME UNCHANGED device, UNCHANGED deleted
    PROVE  \A s : Used(s)' <=> Used(s)
    BY DEF Used, device

\* A refused write: the flow ends, or goes back to the open recording.
LEMMA RefusedKeeps ==
    ASSUME HistoryInv, NEW f \in Flows, Refused(f)
    PROVE  HistoryInv'
  <1>1. Typed /\ Fits(flows[f]) /\ flows \in [Flows -> FlowRecords]
      BY DEF HistoryInv, Fitting, Typed
  <1>2. UNCHANGED <<device, server, ghosts>> /\ tabs' = Unlinked(f)
      BY DEF Refused
  <1>3. tabs' \in [Tabs -> TabRecords] /\ Owners'
      BY <1>2, UnlinkedKeeps
  <1>4. \A s : Used(s)' <=> Used(s)
      BY <1>2, UsedQuiet DEF ghosts
  <1>5. CASE At(f, "chunk")
    <2>1. flows' = Go(f, "open")
        BY <1>5 DEF Refused
    <2>2. "open" \in Stages BY DEF Stages
    <2>3. PICK w \in FlowRecords :
             /\ Go(f, "open") = [flows EXCEPT ![f] = w]
             /\ w.at = "open" /\ w.tab = flows[f].tab /\ w.session = flows[f].session
             /\ w.current = flows[f].current /\ w.history = flows[f].history
             /\ w.found = flows[f].found /\ w.todo = flows[f].todo /\ w.op = flows[f].op
             /\ w.sent = flows[f].sent /\ w.parts = flows[f].parts
        BY <1>1, <2>2, GoRecord
    <2>4. flows[f].at \in Recorders /\ w.at \in Recorders \ {"begin"} /\ flows[f].at # "begin"
        BY <1>5, <2>3 DEF At, Recorders
    <2>5. flows' \in [Flows -> FlowRecords] /\ \A g \in Flows : Goes(g)
        BY <1>4, <2>1, <2>3, <2>4, RecorderGoes
    <2> QED BY <1>2, <1>3, <2>5, QuietStep
  <1>6. CASE ~ At(f, "chunk")
    <2>1. flows' = End(f)
        BY <1>6 DEF Refused
    <2> QED BY <1>1, <1>2, <1>3, <2>1, EndGoes, QuietStep
  <1> QED BY <1>5, <1>6

\* The step before a write, of a recorder.
LEMMA SavedKeeps ==
    ASSUME HistoryInv, NEW f \in Flows, NEW stage \in {"chunk", "notes"}, flows[f].at = "open",
           flows' = [flows EXCEPT ![f].at = stage, ![f].saved = generation],
           tabs' = Unlinked(f) \/ tabs' = tabs, UNCHANGED <<device, server, ghosts>>
    PROVE  HistoryInv'
  <1>1. Typed /\ flows \in [Flows -> FlowRecords] /\ generation \in 0 .. MaxEpoch
      BY DEF HistoryInv, Typed, Device
  <1>3. tabs' \in [Tabs -> TabRecords] /\ Owners'
      BY UnlinkedKeeps
  <1>4. \A s : Used(s)' <=> Used(s)
      BY UsedQuiet DEF ghosts
  <1>5. stage \in Stages
      BY DEF Stages, Writes
  <1>2. PICK w : w = SavedAt(flows[f], stage, generation)
      OBVIOUS
  <1>6. /\ w \in FlowRecords
        /\ w.at = stage /\ w.tab = flows[f].tab /\ w.session = flows[f].session
        /\ w.current = flows[f].current /\ w.history = flows[f].history
        /\ w.found = flows[f].found /\ w.todo = flows[f].todo /\ w.op = flows[f].op
        /\ w.sent = flows[f].sent /\ w.parts = flows[f].parts
    <2>1. flows[f] \in FlowRecords BY <1>1
    <2> QED BY <1>1, <1>2, <1>5, <2>1, SavedRecord
  <1>7. flows[f].at \in Recorders /\ w.at \in Recorders \ {"begin"} /\ flows[f].at # "begin"
      BY <1>6 DEF Recorders
  <1>9. flows' = [flows EXCEPT ![f] = w]
      BY <1>2 DEF SavedAt
  <1>8. flows' \in [Flows -> FlowRecords] /\ \A g \in Flows : Goes(g)
      BY <1>4, <1>6, <1>7, <1>9, RecorderGoes
  <1> QED BY <1>3, <1>8, QuietStep

\* The end of a recording begins.
LEMMA FinishKeeps ==
    ASSUME HistoryInv, NEW f \in Flows, Finish(f)
    PROVE  HistoryInv'
  <1>1. Typed BY DEF HistoryInv
  <1>2. UNCHANGED <<device, server, ghosts>> /\ tabs' = Unlinked(f) /\ flows[f].at = "open"
      BY DEF Finish, At
  <1>3. CASE flows[f].current
    <2>1. flows' = [flows EXCEPT ![f].at = "notes", ![f].saved = generation]
        BY <1>3 DEF Finish
    <2> QED BY <1>2, <2>1, SavedKeeps
  <1>4. CASE ~ flows[f].current
    <2>1. flows' = End(f)
        BY <1>4 DEF Finish
    <2>2. tabs' \in [Tabs -> TabRecords] /\ Owners'
        BY <1>2, UnlinkedKeeps
    <2> QED BY <1>1, <1>2, <2>1, <2>2, EndGoes, QuietStep
  <1> QED BY <1>3, <1>4

\* A chunk is about to be written.
LEMMA FlushKeeps ==
    ASSUME HistoryInv, NEW f \in Flows, FlushChunk(f)
    PROVE  HistoryInv'
    BY SavedKeeps DEF FlushChunk, At

\* A quiet step that leaves the tabs alone.
LEMMA TabsQuiet ==
    ASSUME HistoryInv, UNCHANGED <<device, server, ghosts>>, tabs' = tabs,
           flows' \in [Flows -> FlowRecords], \A g \in Flows : Goes(g)
    PROVE  HistoryInv'
  <1>1. tabs' \in [Tabs -> TabRecords] BY DEF HistoryInv, Typed
  <1>2. Owners' BY DEF HistoryInv, Owners, Owned
  <1> QED BY <1>1, <1>2, QuietStep

\* An answer for an owner that has gone.
LEMMA DiscardedKeeps ==
    ASSUME HistoryInv, NEW f \in Flows, Discarded(f)
    PROVE  HistoryInv'
  <1>1. flows[f].at # "idle" /\ Stop(f) /\ tabs' = tabs /\ UNCHANGED <<device, server, ghosts>>
      BY DEF Discarded, Sent
  <1> QED BY <1>1, StopGoes, TabsQuiet

\* The deletion of all has been answered.
LEMMA WipedKeeps ==
    ASSUME HistoryInv, NEW f \in Flows, Wiped(f)
    PROVE  HistoryInv'
  <1>1. flows[f].at # "idle" /\ Ask(f) /\ tabs' = tabs /\ UNCHANGED <<device, server, ghosts>>
      BY DEF Wiped, At
  <1> QED BY <1>1, AskGoes, TabsQuiet

\* A request that is not answered.
LEMMA LoseKeeps ==
    ASSUME HistoryInv, NEW f \in Flows, Lose(f)
    PROVE  HistoryInv'
  <1>1. /\ flows[f].at \in Requests /\ Reply(f, "network") /\ tabs' = tabs
        /\ UNCHANGED <<device, server, ghosts>>
      BY DEF Lose, Local, ghosts
  <1>2. \A s : Used(s)' <=> Used(s)
      BY <1>1, UsedQuiet DEF ghosts
  <1>3. "network" \in Answers BY DEF Answers
  <1>4. flows' \in [Flows -> FlowRecords] /\ \A g \in Flows : Goes(g)
    <2>1. PICK v : v = flows[f]
        OBVIOUS
    <2>2. Says(v.at, v.op.session, v.history, "network")'
        BY DEF Says
    <2> QED BY <1>1, <1>2, <1>3, <2>1, <2>2, ReplyGoes
  <1> QED BY <1>1, <1>4, TabsQuiet

\* A sync reads the outbox, whose operations are all queued.
LEMMA SyncAgainKeeps ==
    ASSUME HistoryInv, NEW f \in Flows, NEW t \in Tabs, SyncAgain(f, t)
    PROVE  HistoryInv'
  <1>1. /\ Typed /\ Waiting /\ outbox \subseteq Ops /\ Owners
        /\ \A s : Used(s)' <=> Used(s)
      BY UsedQuiet DEF HistoryInv, Typed, Device, SyncAgain, ghosts
  <1>2. /\ UNCHANGED <<device, server, ghosts>> /\ tabs' = tabs
        /\ flows' = [Call(f, t, "next", None) EXCEPT ![f].todo = outbox] /\ Owned(t)
      BY DEF SyncAgain
  <1>3. "next" \in Stages /\ None \in Sessions \cup {None} /\ 0 \in 0 .. MaxEpoch
      BY BoundsAssumption DEF Stages
  <1>7. PICK c : c = Called(t, "next", None)
      OBVIOUS
  <1>8. /\ c \in FlowRecords
        /\ c.at = "next" /\ c.tab = t /\ c.session = None /\ c.history = tabs[t].owner
        /\ c.found = {} /\ c.sent = 0 /\ c.answer = None
      BY <1>1, <1>2, <1>3, <1>7, CallRecord
  <1>9. PICK w : w = WithTodo(c, outbox)
      OBVIOUS
  <1>4. /\ w \in FlowRecords
        /\ w.at = "next" /\ w.tab = t /\ w.session = None /\ w.history = tabs[t].owner
        /\ w.found = {} /\ w.todo = outbox /\ w.sent = 0 /\ w.answer = None
      BY <1>1, <1>3, <1>8, <1>9, WithFields
  <1>5. flows' = [flows EXCEPT ![f] = w]
    <2>1. flows \in [Flows -> FlowRecords] BY <1>1 DEF Typed
    <2>2. Call(f, t, "next", None) = [flows EXCEPT ![f] = c]
        BY <1>7 DEF Call, Called
    <2>3. [Call(f, t, "next", None) EXCEPT ![f].todo = outbox]
            = [flows EXCEPT ![f] = [c EXCEPT !.todo = outbox]]
        BY <2>1, <2>2
    <2> QED BY <1>2, <1>9, <2>3 DEF WithTodo
  <1>6. Renewed(flows[f], w)
      BY <1>1, <1>2, <1>4, NothingSaid DEF Renewed, Shaped, Recorders, Sending, Uploads, Waiting, Owners
  <1>10. flows' \in [Flows -> FlowRecords] /\ \A g \in Flows : Goes(g)
      BY <1>1, <1>4, <1>5, <1>6, OneFlow
  <1> QED BY <1>2, <1>10, TabsQuiet

\* The tab leaves its recording.
LEMMA LeaveKeeps ==
    ASSUME HistoryInv, NEW t \in Tabs, Leave(t)
    PROVE  HistoryInv'
  <1>1. UNCHANGED <<device, server, ghosts>> /\ flows' = flows /\ tabs' = [tabs EXCEPT ![t].recording = None]
      BY DEF Leave
  <1>2. Typed /\ Owners /\ tabs \in [Tabs -> TabRecords] /\ flows \in [Flows -> FlowRecords]
      BY DEF HistoryInv, Typed
  <1>3. tabs' \in [Tabs -> TabRecords] /\ \A u \in Tabs : tabs'[u].owner = tabs[u].owner
      BY <1>1, <1>2 DEF TabRecords
  <1>4. Owners'
      BY <1>1, <1>2, <1>3 DEF Owners, Owned
  <1>5. \A g \in Flows : Goes(g)
      BY <1>1, <1>2 DEF Goes, Eased
  <1> QED BY <1>1, <1>2, <1>3, <1>4, <1>5, QuietStep

\* A flow that loses its owner is eased.
LEMMA StaleGoes ==
    ASSUME Typed, NEW t \in Tabs, NEW g \in Flows, flows'[g] = Stale(t)[g]
    PROVE  Goes(g)
  <1>1. flows[g] \in FlowRecords BY DEF Typed
  <1>2. CASE flows[g].tab = t
    <2> DEFINE w == [flows[g] EXCEPT !.current = FALSE]
    <2>1. w \in FlowRecords BY <1>1 DEF FlowRecords
    <2>2. flows'[g] = w BY <1>2 DEF Stale
    <2>3. Eased(flows[g], w) BY DEF Eased
    <2> HIDE DEF w
    <2> QED BY <2>1, <2>2, <2>3 DEF Goes
  <1>3. CASE flows[g].tab # t
    <2>1. flows'[g] = flows[g] BY <1>3 DEF Stale
    <2> QED BY <1>1, <2>1 DEF Goes, Eased
  <1> QED BY <1>2, <1>3

\* A sign-out takes the owner of the tab.
LEMMA SignOutKeeps ==
    ASSUME HistoryInv, NEW t \in Tabs, SignOut(t)
    PROVE  HistoryInv'
  <1>1. /\ UNCHANGED <<device, server, ghosts>> /\ flows' = Stale(t)
        /\ tabs' = [tabs EXCEPT ![t].owner = None, ![t].recording = None]
      BY DEF SignOut
  <1>2. Typed /\ Owners /\ tabs \in [Tabs -> TabRecords]
      BY DEF HistoryInv, Typed
  <1>3. tabs' \in [Tabs -> TabRecords] /\ \A u \in Tabs : tabs'[u].owner \in {tabs[u].owner, None}
      BY <1>1, <1>2 DEF TabRecords
  <1>4. Owners'
      BY <1>1, <1>2, <1>3 DEF Owners, Owned
  <1>5. \A g \in Flows : Goes(g)
      BY <1>1, <1>2, StaleGoes
  <1>6. flows' \in [Flows -> FlowRecords]
      BY <1>1, <1>5 DEF Stale, Goes
  <1> QED BY <1>1, <1>3, <1>4, <1>5, <1>6, QuietStep

\* A tab that was closed is opened again.
LEMMA ReopenKeeps ==
    ASSUME HistoryInv, NEW t \in Tabs, Reopen(t)
    PROVE  HistoryInv'
  <1>1. /\ UNCHANGED <<device, server, ghosts>> /\ tabs' = [tabs EXCEPT ![t] = Opened]
        /\ flows' = [f \in Flows |-> IF flows[f].tab = t THEN Idle ELSE flows[f]]
      BY DEF Reopen
  <1>2. Typed /\ Owners /\ tabs \in [Tabs -> TabRecords] /\ flows \in [Flows -> FlowRecords]
      BY DEF HistoryInv, Typed
  <1>3. tabs' \in [Tabs -> TabRecords] /\ \A u \in Tabs : tabs'[u].owner \in {tabs[u].owner, None}
      BY <1>1, <1>2 DEF TabRecords, Opened
  <1>4. Owners'
      BY <1>1, <1>2, <1>3 DEF Owners, Owned
  <1>5. Idle \in FlowRecords
      BY <1>2, IdleFits
  <1>6. \A g \in Flows : Goes(g)
      BY <1>1, <1>2, <1>5 DEF Goes, Eased
  <1>7. flows' \in [Flows -> FlowRecords]
      BY <1>1, <1>2, <1>5
  <1> QED BY <1>1, <1>3, <1>4, <1>6, <1>7, QuietStep

\* An owner is resolved with the epoch the server has.
LEMMA ResolveKeeps ==
    ASSUME HistoryInv, NEW f \in Flows, NEW t \in Tabs, Resolve(f, t)
    PROVE  HistoryInv'
  <1>1. /\ Typed /\ Owners /\ tabs \in [Tabs -> TabRecords] /\ flows \in [Flows -> FlowRecords]
        /\ server.epoch \in 0 .. MaxEpoch /\ Idle \in FlowRecords /\ MaxEpoch \in Nat
      BY IdleFits, BoundsAssumption DEF HistoryInv, Typed, ServerRecords
  <1>2. UNCHANGED <<device, server, ghosts>>
      BY DEF Resolve
  <1>3. CASE tabs' = [tabs EXCEPT ![t].owner = None] /\ flows' = End(f)
    <2>1. tabs' \in [Tabs -> TabRecords] /\ \A u \in Tabs : tabs'[u].owner \in {tabs[u].owner, None}
        BY <1>1, <1>3 DEF TabRecords
    <2>2. Owners'
        BY <1>1, <1>2, <2>1 DEF Owners, Owned
    <2> QED BY <1>1, <1>2, <1>3, <2>1, <2>2, EndGoes, QuietStep
  <1>4. ASSUME tabs' = [tabs EXCEPT ![t].owner = server.epoch],
               NEW found \in SUBSET {s \in Sessions : rows[s] = "recording"},
               flows' = [Stale(t) EXCEPT ![f] =
                 IF found = {} THEN Idle
                 ELSE [Idle EXCEPT !.at = "restore", !.tab = t, !.current = TRUE, !.found = found]]
        PROVE  HistoryInv'
    <2>1. tabs' \in [Tabs -> TabRecords] /\ \A u \in Tabs : tabs'[u].owner \in {tabs[u].owner, server.epoch}
        BY <1>1, <1>4 DEF TabRecords
    <2>2. Owners'
        BY <1>1, <1>2, <2>1 DEF Owners, Owned
    <2> DEFINE w == IF found = {} THEN Idle
                    ELSE [Idle EXCEPT !.at = "restore", !.tab = t, !.current = TRUE, !.found = found]
    <2>3. w \in FlowRecords
      <3>1. CASE found = {}
          BY <3>1, <1>1 DEF FlowRecords, Stages
      <3>2. CASE found # {}
        <4>1. w = [Idle EXCEPT !.at = "restore", !.tab = t, !.current = TRUE, !.found = found]
            BY <3>2
        <4> HIDE DEF w
        <4> QED BY ZenonT(60), <4>1, <1>1 DEF FlowRecords, Stages
      <3> QED BY <3>1, <3>2
    <2>4. Eased(flows[f], w) \/ Renewed(flows[f], w)
      <3>1. CASE found = {}
          BY <3>1 DEF Eased
      <3>2. CASE found # {}
        <4>1. w.at = "restore" /\ w.tab = t /\ w.found = found /\ w.todo = {} /\ w.history = 0 /\ w.sent = 0
            BY <3>2 DEF Idle
        <4> HIDE DEF w
        <4>2. \A s \in w.found : Used(s)
            BY <4>1 DEF Used
        <4> QED BY <1>1, <4>1, <4>2, NothingSaid DEF Renewed, Shaped, Recorders, Sending, Uploads
      <3> QED BY <3>1, <3>2
    <2>5. flows' = [Stale(t) EXCEPT ![f] = w]
        BY <1>4
    <2> HIDE DEF w
    <2>6. ASSUME NEW g \in Flows PROVE Goes(g)
      <3>1. CASE g = f
        <4>1. flows'[g] = w
            BY <2>5, <3>1 DEF Stale
        <4> QED BY <2>3, <2>4, <3>1, <4>1 DEF Goes
      <3>2. CASE g # f
        <4>1. flows'[g] = Stale(t)[g]
            BY <2>5, <3>2 DEF Stale
        <4> QED BY <1>1, <4>1, StaleGoes
      <3> QED BY <3>1, <3>2
    <2>7. flows' \in [Flows -> FlowRecords]
      <3>1. DOMAIN flows' = Flows /\ flows' = [g \in Flows |-> flows'[g]]
          BY <2>5 DEF Stale
      <3> QED BY <2>6, <3>1 DEF Goes
    <2> QED BY <1>2, <2>1, <2>2, <2>6, <2>7, QuietStep
  <1> QED BY <1>3, <1>4 DEF Resolve

-----------------------------------------------------------------------------
(* Steps that write to the device *)

\* The types of a step that writes rows, series and notes only.
LEMMA RowsTyped ==
    ASSUME Typed, rows' \in [Sessions -> RowStates], series' \subseteq Sessions, notes' \subseteq Sessions,
           UNCHANGED <<outbox, generation, server, ghosts>>,
           tabs' \in [Tabs -> TabRecords], flows' \in [Flows -> FlowRecords]
    PROVE  Typed'
    BY DEF Typed, Device, Ghosts, ghosts

\* A recorder goes on to a later stage.
LEMMA GoGoes ==
    ASSUME HistoryInv, NEW f \in Flows, NEW stage \in Recorders \ {"begin"}, flows' = Go(f, stage),
           flows[f].at \in Recorders,
           flows[f].at # "begin" \/ Used(flows[f].session)',
           \A s \in Sessions : Used(s) => Used(s)'
    PROVE  /\ flows' \in [Flows -> FlowRecords] /\ \A g \in Flows : Goes(g)
           /\ flows'[f].at = stage /\ flows'[f].session = flows[f].session
           /\ \A g \in Flows \ {f} : flows'[g] = flows[g]
  <1>1. flows \in [Flows -> FlowRecords] /\ stage \in Stages
      BY DEF HistoryInv, Typed, Stages, Writes, Recorders
  <1>2. PICK w \in FlowRecords :
             /\ Go(f, stage) = [flows EXCEPT ![f] = w]
             /\ w.at = stage /\ w.tab = flows[f].tab /\ w.session = flows[f].session
             /\ w.current = flows[f].current /\ w.history = flows[f].history
             /\ w.found = flows[f].found /\ w.todo = flows[f].todo /\ w.op = flows[f].op
             /\ w.sent = flows[f].sent /\ w.parts = flows[f].parts
      BY <1>1, GoRecord
  <1>3. flows' = [flows EXCEPT ![f] = w] /\ flows'[f] = w
      BY <1>1, <1>2
  <1>4. flows[f].at # "begin" \/ Used(w.session)'
      BY <1>3 DEF Used
  <1>5. flows' \in [Flows -> FlowRecords] /\ \A g \in Flows : Goes(g)
      BY <1>2, <1>3, <1>4, RecorderGoes
  <1> QED BY <1>1, <1>2, <1>3, <1>5

\* A chunk is written, of a row that still grows.
LEMMA AppendKeeps ==
    ASSUME HistoryInv, NEW f \in Flows, AppendChunk(f)
    PROVE  HistoryInv'
  <1>1. /\ Typed /\ Owners /\ Growing /\ SeriesStaysGone /\ Fits(flows[f])
        /\ flows \in [Flows -> FlowRecords] /\ rows \in [Sessions -> RowStates]
      BY DEF HistoryInv, Fitting, Typed, Device
  <1>2. /\ flows[f].at = "chunk" /\ rows[flows[f].session] = "recording" /\ flows' = Go(f, "open")
        /\ series' = series \cup {flows[f].session}
        /\ rows' = rows /\ notes' = notes /\ outbox' = outbox /\ generation' = generation
        /\ tabs' = tabs /\ server' = server /\ UNCHANGED ghosts
      BY DEF AppendChunk, Recordable, At
  <1>3. flows[f].session \in Sessions
      BY <1>1, <1>2 DEF Fits, Shaped, Recorders
  <1>4. \A s : Used(s)' <=> Used(s)
      BY <1>2 DEF Used, ghosts
  <1>5. "chunk" \in Recorders /\ "open" \in Recorders \ {"begin"}
      BY DEF Recorders
  <1>6. flows' \in [Flows -> FlowRecords] /\ \A g \in Flows : Goes(g)
      BY <1>2, <1>4, <1>5, GoGoes
  <1>7. Typed'
      BY <1>1, <1>2, <1>3, <1>6, RowsTyped DEF Typed, Device
  <1>8. Growing' /\ Owners'
      BY <1>1, <1>2 DEF Growing, Owners, Owned, ghosts
  <1>9. SeriesStaysGone'
      BY <1>1, <1>2, <1>3 DEF Growing, SeriesStaysGone, ghosts
  <1> QED BY <1>2, <1>4, <1>6, <1>7, <1>8, <1>9, DeviceStep DEF ghosts

\* The note events are written.
LEMMA PutEventsKeeps ==
    ASSUME HistoryInv, NEW f \in Flows, PutEvents(f)
    PROVE  HistoryInv'
  <1>1. /\ Typed /\ Owners /\ Growing /\ SeriesStaysGone /\ Fits(flows[f])
        /\ flows \in [Flows -> FlowRecords] /\ rows \in [Sessions -> RowStates]
      BY DEF HistoryInv, Fitting, Typed, Device
  <1>2. /\ flows[f].at = "notes" /\ flows' = Go(f, "close")
        /\ notes' = notes \cup {flows[f].session}
        /\ rows' = rows /\ series' = series /\ outbox' = outbox /\ generation' = generation
        /\ tabs' = tabs /\ server' = server /\ UNCHANGED ghosts
      BY DEF PutEvents, At
  <1>3. flows[f].session \in Sessions
      BY <1>1, <1>2 DEF Fits, Shaped, Recorders
  <1>4. \A s : Used(s)' <=> Used(s)
      BY <1>2 DEF Used, ghosts
  <1>5. "notes" \in Recorders /\ "close" \in Recorders \ {"begin"}
      BY DEF Recorders
  <1>6. flows' \in [Flows -> FlowRecords] /\ \A g \in Flows : Goes(g)
      BY <1>2, <1>4, <1>5, GoGoes
  <1>7. Typed'
      BY <1>1, <1>2, <1>3, <1>6, RowsTyped DEF Typed, Device
  <1>8. Growing' /\ Owners' /\ SeriesStaysGone'
      BY <1>1, <1>2 DEF Growing, Owners, Owned, ghosts, SeriesStaysGone
  <1> QED BY <1>2, <1>4, <1>6, <1>7, <1>8, DeviceStep DEF ghosts

\* The session is complete: its row was there, so it is used.
LEMMA CloseKeeps ==
    ASSUME HistoryInv, NEW f \in Flows, Close(f)
    PROVE  HistoryInv'
  <1>1. /\ Typed /\ Owners /\ Growing /\ SeriesStaysGone /\ Fits(flows[f])
        /\ flows \in [Flows -> FlowRecords] /\ rows \in [Sessions -> RowStates]
      BY DEF HistoryInv, Fitting, Typed, Device
  <1>2. /\ flows[f].at = "close"
        /\ series' = series /\ notes' = notes /\ outbox' = outbox /\ generation' = generation
        /\ tabs' = tabs /\ server' = server /\ UNCHANGED ghosts
      BY DEF Close, At
  <1>3. flows[f].session \in Sessions
      BY <1>1, <1>2 DEF Fits, Shaped, Recorders
  <1>4. CASE rows[flows[f].session] # "none" /\ flows' = Go(f, "enqueue")
             /\ rows' = [rows EXCEPT ![flows[f].session] = "complete"]
    <2>1. \A s \in Sessions : Used(s)' <=> Used(s)
        BY <1>1, <1>2, <1>3, <1>4 DEF Used, ghosts
    <2>2. "close" \in Recorders /\ "enqueue" \in Recorders \ {"begin"} /\ "complete" \in RowStates
        BY DEF Recorders, RowStates
    <2>3. flows' \in [Flows -> FlowRecords] /\ \A g \in Flows : Goes(g)
        BY <1>2, <1>4, <2>1, <2>2, GoGoes
    <2>4. Typed'
        BY <1>1, <1>2, <1>4, <2>2, <2>3, RowsTyped DEF Typed, Device
    <2>5. Growing' /\ Owners' /\ SeriesStaysGone'
        BY <1>1, <1>2, <1>4 DEF Growing, Owners, Owned, ghosts, SeriesStaysGone
    <2> QED BY <1>2, <2>1, <2>3, <2>4, <2>5, DeviceStep DEF ghosts
  <1>5. CASE rows' = rows /\ flows' = End(f)
    <2>1. UNCHANGED <<device, server, ghosts>>
        BY <1>2, <1>5 DEF device
    <2> QED BY <1>1, <1>2, <1>5, <2>1, EndGoes, TabsQuiet
  <1> QED BY <1>4, <1>5 DEF Close

\* The rows that were found are used, so a row that comes back was used.
LEMMA RestoreKeeps ==
    ASSUME HistoryInv, NEW f \in Flows, RestoreInterrupted(f)
    PROVE  HistoryInv'
  <1>1. /\ Typed /\ Owners /\ Growing /\ SeriesStaysGone /\ Fits(flows[f])
        /\ flows \in [Flows -> FlowRecords] /\ rows \in [Sessions -> RowStates]
      BY DEF HistoryInv, Fitting, Typed, Device
  <1>2. /\ rows' = [s \in Sessions |-> IF flows[f].current /\ s \in flows[f].found
                                       THEN "incomplete" ELSE rows[s]]
        /\ flows' = End(f)
        /\ series' = series /\ notes' = notes /\ outbox' = outbox /\ generation' = generation
        /\ tabs' = tabs /\ server' = server /\ UNCHANGED ghosts
      BY DEF RestoreInterrupted
  <1>3. \A s \in flows[f].found : Used(s)
      BY <1>1 DEF Fits
  <1>4. \A s \in Sessions : Used(s)' <=> Used(s)
      BY <1>1, <1>2, <1>3 DEF Used, ghosts
  <1>5. "incomplete" \in RowStates
      BY DEF RowStates
  <1>6. flows' \in [Flows -> FlowRecords] /\ \A g \in Flows : Goes(g)
      BY <1>1, <1>2, EndGoes
  <1>7. Typed'
      BY <1>1, <1>2, <1>5, <1>6, RowsTyped DEF Typed, Device
  <1>8. Growing' /\ Owners' /\ SeriesStaysGone'
      BY <1>1, <1>2 DEF Growing, Owners, Owned, ghosts, SeriesStaysGone
  <1> QED BY <1>2, <1>4, <1>6, <1>7, <1>8, DeviceStep DEF ghosts

\* The row of a new session makes its id used.
LEMMA BeginKeeps ==
    ASSUME HistoryInv, NEW f \in Flows, Begin(f)
    PROVE  HistoryInv'
  <1>1. /\ Typed /\ Owners /\ Apart /\ Growing /\ SeriesStaysGone /\ Fits(flows[f])
        /\ flows \in [Flows -> FlowRecords] /\ rows \in [Sessions -> RowStates]
        /\ tabs \in [Tabs -> TabRecords]
      BY DEF HistoryInv, Fitting, Typed, Device
  <1> DEFINE s == flows[f].session
             t == flows[f].tab
  <1>2. /\ flows[f].at = "begin" /\ rows' = [rows EXCEPT ![s] = "recording"]
        /\ series' = series /\ notes' = notes /\ outbox' = outbox /\ generation' = generation
        /\ server' = server /\ UNCHANGED ghosts
      BY DEF Begin, At
  <1>3. \/ tabs' = [tabs EXCEPT ![t].recording = s] /\ flows' = Go(f, "open")
        \/ tabs' = tabs /\ flows' = Go(f, "undo")
      BY DEF Begin
  <1>4. s \in Sessions /\ t \in Tabs /\ ~ Used(s)
      BY <1>1, <1>2 DEF Fits, Shaped, Recorders
  <1>5. "recording" \in RowStates /\ "recording" # "none" /\ flows[f].at \in Recorders
      BY <1>2 DEF RowStates, Recorders
  <1> HIDE DEF s, t
  <1>6. \A x \in Sessions : /\ Used(x) => Used(x)'
                            /\ Used(x)' => Used(x) \/ x = s
      BY <1>1, <1>2, <1>4, <1>5 DEF Used, ghosts
  <1>7. Used(flows[f].session)'
    <2>0. PICK stage \in Stages : flows' = Go(f, stage)
        BY <1>3 DEF Stages
    <2>3. PICK w \in FlowRecords :
             /\ Go(f, stage) = [flows EXCEPT ![f] = w]
             /\ w.at = stage /\ w.tab = flows[f].tab /\ w.session = flows[f].session
             /\ w.current = flows[f].current /\ w.history = flows[f].history
             /\ w.found = flows[f].found /\ w.todo = flows[f].todo /\ w.op = flows[f].op
             /\ w.sent = flows[f].sent /\ w.parts = flows[f].parts
        BY <1>1, GoRecord
    <2>1. flows'[f].session = s
        BY <1>1, <2>0, <2>3 DEF s
    <2>2. rows'[s] # "none"
        BY <1>1, <1>2, <1>4, <1>5
    <2> QED BY <2>1, <2>2 DEF Used
  <1>8. PICK stage \in {"open", "undo"} : flows' = Go(f, stage)
      BY <1>3
  <1>9. stage \in Recorders \ {"begin"}
      BY DEF Recorders
  <1>10. /\ flows' \in [Flows -> FlowRecords] /\ \A g \in Flows : Goes(g)
         /\ flows'[f].at = stage /\ flows'[f].session = flows[f].session
         /\ \A g \in Flows \ {f} : flows'[g] = flows[g]
      BY <1>5, <1>6, <1>7, <1>8, <1>9, GoGoes
  <1>11. \A g \in Flows : flows'[g].at = "begin" => flows'[g].session # s
    <2> SUFFICES ASSUME NEW g \in Flows, flows'[g].at = "begin" PROVE flows'[g].session # s
        OBVIOUS
    <2>1. g # f /\ flows'[g] = flows[g]
        BY <1>10
    <2>2. Recording(g) /\ Recording(f)
        BY <1>5, <2>1 DEF Recording, Recorders
    <2> QED BY <1>1, <2>1, <2>2 DEF Apart, s
  <1>12. tabs' \in [Tabs -> TabRecords] /\ \A u \in Tabs : tabs'[u].owner = tabs[u].owner
    <2>1. CASE tabs' = tabs BY <1>1, <2>1
    <2>2. CASE tabs' = [tabs EXCEPT ![t].recording = s]
        BY <1>1, <1>4, <2>2 DEF TabRecords
    <2> QED BY <1>3, <2>1, <2>2
  <1>13. Typed'
      BY <1>1, <1>2, <1>4, <1>5, <1>10, <1>12, RowsTyped DEF Typed, Device
  <1>14. Growing' /\ SeriesStaysGone'
      BY <1>1, <1>2, <1>4 DEF Growing, ghosts, SeriesStaysGone, Used
  <1>15. Owners'
      BY <1>1, <1>2, <1>12 DEF Owners, Owned
  <1>16. \A x \in Sessions : Used(x)' =>
               Used(x) \/ \A g \in Flows : flows'[g].at = "begin" => flows'[g].session # x
      BY <1>6, <1>11
  <1> QED BY <1>2, <1>6, <1>10, <1>13, <1>14, <1>15, <1>16, DeviceStep DEF ghosts

\* A session is begun by the flow that made its id up.
LEMMA StartKeeps ==
    ASSUME HistoryInv, NEW f \in Flows, NEW t \in Tabs, NEW s \in Sessions, Start(f, t, s)
    PROVE  HistoryInv'
  <1>1. /\ Typed /\ Owners /\ Apart /\ Growing /\ SeriesStaysGone /\ Fitting /\ Waiting /\ OnServer
        /\ flows \in [Flows -> FlowRecords] /\ generation \in 0 .. MaxEpoch
        /\ server.epoch \in Nat
      BY BoundsAssumption DEF HistoryInv, Typed, Device, ServerRecords
  <1>2. /\ flows[f].at = "idle" /\ Owned(t) /\ ~ Used(s)
        /\ \A g \in Flows : flows[g].session # s
        /\ flows' = [Call(f, t, "begin", s) EXCEPT ![f].saved = generation]
        /\ UNCHANGED <<device, tabs, server, ghosts>>
      BY DEF Start, At, Used
  <1>3. PICK c : c = Called(t, "begin", s)
      OBVIOUS
  <1>4. "begin" \in Stages
      BY DEF Stages, Writes
  <1>5. /\ c \in FlowRecords
        /\ c.at = "begin" /\ c.tab = t /\ c.session = s /\ c.history = tabs[t].owner
        /\ c.found = {} /\ c.todo = {} /\ c.sent = 0
      BY <1>1, <1>2, <1>3, <1>4, CallRecord
  <1>6. PICK w : w = WithSaved(c, generation)
      OBVIOUS
  <1>7. /\ w \in FlowRecords
        /\ w.at = "begin" /\ w.tab = t /\ w.session = s /\ w.history = tabs[t].owner
        /\ w.found = {} /\ w.todo = {} /\ w.sent = 0
      BY <1>1, <1>5, <1>6, WithFields
  <1>8. flows' = [flows EXCEPT ![f] = w]
    <2>1. Call(f, t, "begin", s) = [flows EXCEPT ![f] = c]
        BY <1>3 DEF Call, Called
    <2>2. [Call(f, t, "begin", s) EXCEPT ![f].saved = generation]
            = [flows EXCEPT ![f] = [c EXCEPT !.saved = generation]]
        BY <1>1, <2>1
    <2> QED BY <1>2, <1>6, <2>2 DEF WithSaved
  <1>9. /\ flows' \in [Flows -> FlowRecords] /\ flows'[f] = w
        /\ \A g \in Flows \ {f} : flows'[g] = flows[g]
      BY <1>1, <1>7, <1>8
  <1>10. Typed'
      BY <1>1, <1>2, <1>9 DEF Typed, Device, Ghosts, device, ghosts
  <1>11. \A x : Used(x)' <=> Used(x)
      BY <1>2 DEF Used, device, ghosts
  <1>12. \A x \in Sessions : Left(x) => Left(x)'
    <2> SUFFICES ASSUME NEW x \in Sessions, Left(x) PROVE Left(x)'
        OBVIOUS
    <2>1. Used(x)' /\ x # s
        BY <1>2, <1>11 DEF Left
    <2>2. ASSUME NEW g \in Flows, Recording(g)' PROVE flows'[g].session # x
        BY <1>7, <1>9, <2>1, <2>2 DEF Left, Recording
    <2> QED BY <2>1, <2>2 DEF Left
  <1>13. Apart'
    <2> SUFFICES ASSUME NEW g \in Flows, NEW h \in Flows, Recording(g)', Recording(h)', g # h
                 PROVE  flows'[g].session # flows'[h].session
        BY DEF Apart
    <2>1. CASE g = f
        BY <1>2, <1>7, <1>9, <2>1
    <2>2. CASE h = f
        BY <1>2, <1>7, <1>9, <2>2
    <2>3. CASE g # f /\ h # f
        BY <1>1, <1>9, <2>3 DEF Apart, Recording
    <2> QED BY <2>1, <2>2, <2>3
  <1>14. server' = server /\ erased' = erased /\ outbox' = outbox /\ tabs' = tabs
      BY <1>2 DEF ghosts, device
  <1>15. \A op \in Ops : Queued(op) => Queued(op)'
      BY <1>1, <1>10, <1>12, <1>14, QueuedStays
  <1>16. Fitting'
    <2> SUFFICES ASSUME NEW g \in Flows PROVE Fits(flows[g])'
        BY DEF Fitting
    <2>1. CASE g = f
      <3>1. tabs[t].owner <= server'.epoch
          BY <1>1, <1>2, <1>14 DEF Owners
      <3>2. ~ Used(s)'
          BY <1>2, <1>11
      <3>3. flows'[g].at = "begin" /\ flows'[g].tab = t /\ flows'[g].session = s /\ flows'[g].sent = 0
            /\ flows'[g].history = tabs[t].owner /\ flows'[g].found = {} /\ flows'[g].todo = {}
          BY <1>7, <1>9, <2>1
      <3> QED BY <3>1, <3>2, <3>3 DEF Fits, Shaped, Recorders, Sending, Uploads, Used, Answered
    <2>2. CASE g # f
      <3>1. PICK v \in FlowRecords : flows[g] = v /\ flows'[g] = v
          BY <1>1, <1>9, <2>2
      <3>2. Fits(v)
          BY <1>1, <3>1 DEF Fitting
      <3>3. Fits(v)'
          BY <1>1, <1>10, <1>11, <1>14, <1>15, <3>2, FitsAfter DEF Eased, Lasting
      <3> QED BY <3>1, <3>3 DEF Fits, Used, Queued, Left, Recording, Answered, Says
    <2> QED BY <2>1, <2>2
  <1>17. Waiting'
      BY <1>1, <1>14, <1>15 DEF Waiting, Typed, Device
  <1>18. OnServer'
      BY <1>1, <1>12, <1>14 DEF OnServer
  <1>19. Growing' /\ SeriesStaysGone' /\ Owners'
      BY <1>1, <1>2, <1>14 DEF Growing, SeriesStaysGone, Owners, Owned, device, ghosts
  <1> QED BY <1>10, <1>13, <1>16, <1>17, <1>18, <1>19 DEF HistoryInv

-----------------------------------------------------------------------------
(* Deleting *)

\* The deletion of a session on the device.
LEMMA EraseKeeps ==
    ASSUME HistoryInv, NEW s \in Sessions, Used(s), Erase(s),
           tabs' \in [Tabs -> TabRecords], Owners', flows' \in [Flows -> FlowRecords],
           \A g \in Flows : Goes(g)
    PROVE  HistoryInv'
  <1>1. /\ Typed /\ Growing /\ SeriesStaysGone /\ rows \in [Sessions -> RowStates]
        /\ "none" \in RowStates
      BY DEF HistoryInv, Typed, Device, RowStates
  <1>2. /\ rows' = [rows EXCEPT ![s] = "none"] /\ series' = series \ {s} /\ notes' = notes \ {s}
        /\ outbox' \subseteq outbox /\ deleted' = deleted \cup {s}
        /\ UNCHANGED <<generation, server, erased, queued, owed>>
      BY DEF Erase
  <1>3. \A x \in Sessions : Used(x)' <=> Used(x)
      BY <1>1, <1>2 DEF Used
  <1>4. Typed'
      BY <1>1, <1>2 DEF Typed, Device, Ghosts
  <1>5. Growing' /\ SeriesStaysGone'
      BY <1>1, <1>2 DEF Growing, SeriesStaysGone
  <1> QED BY <1>2, <1>3, <1>4, <1>5, DeviceStep

\* A recording is discarded.
LEMMA DiscardKeeps ==
    ASSUME HistoryInv, NEW f \in Flows, Discard(f)
    PROVE  HistoryInv'
  <1>1. /\ Typed /\ Fits(flows[f]) /\ flows[f].at \in {"open", "undo"}
        /\ tabs' = Unlinked(f) /\ flows' = End(f)
      BY DEF HistoryInv, Fitting, Discard
  <1>2. flows' \in [Flows -> FlowRecords] /\ \A g \in Flows : Goes(g)
      BY <1>1, EndGoes
  <1>3. CASE Erase(flows[f].session)
    <2>1. flows[f].session \in Sessions /\ Used(flows[f].session)
        BY <1>1 DEF Fits, Shaped, Recorders
    <2>2. server' = server
        BY <1>3 DEF Erase
    <2>3. tabs' \in [Tabs -> TabRecords] /\ Owners'
        BY <1>1, <2>2, UnlinkedKeeps
    <2> QED BY <1>2, <1>3, <2>1, <2>3, EraseKeeps
  <1>4. CASE UNCHANGED <<device, server, ghosts>>
    <2>1. tabs' \in [Tabs -> TabRecords] /\ Owners'
        BY <1>1, <1>4, UnlinkedKeeps
    <2> QED BY <1>2, <1>4, <2>1, QuietStep
  <1> QED BY <1>3, <1>4 DEF Discard

\* A call of a stage that is no recorder's and sends nothing.
LEMMA CallGoes ==
    ASSUME HistoryInv, NEW f \in Flows, NEW t \in Tabs, Owned(t),
           NEW stage \in {"tell", "wipe"}, NEW s \in Sessions \cup {None},
           stage = "tell" => s \in Sessions,
           flows' = Call(f, t, stage, s)
    PROVE  flows' \in [Flows -> FlowRecords] /\ \A g \in Flows : Goes(g)
  <1>1. Typed /\ Owners /\ stage \in Stages
      BY DEF HistoryInv, Stages, Requests
  <1>2. PICK c : c = Called(t, stage, s)
      OBVIOUS
  <1>3. /\ c \in FlowRecords
        /\ c.at = stage /\ c.tab = t /\ c.session = s /\ c.history = tabs[t].owner
        /\ c.found = {} /\ c.todo = {} /\ c.sent = 0
      BY <1>1, <1>2, CallRecord
  <1>4. flows' = [flows EXCEPT ![f] = c]
      BY <1>2 DEF Call, Called
  <1>5. Renewed(flows[f], c)
      BY <1>1, <1>3, NothingSaid DEF Renewed, Shaped, Recorders, Sending, Uploads, Owners
  <1> QED BY <1>1, <1>3, <1>4, <1>5, OneFlow

\* A session of the list is deleted.
LEMMA DeleteKeeps ==
    ASSUME HistoryInv, NEW f \in Flows, NEW t \in Tabs, NEW s \in Sessions, Delete(f, t, s)
    PROVE  HistoryInv'
  <1>1. Owned(t) /\ Used(s) /\ Erase(s) /\ flows' = Call(f, t, "tell", s) /\ tabs' = tabs
      BY DEF Delete, Used
  <1>2. flows' \in [Flows -> FlowRecords] /\ \A g \in Flows : Goes(g)
      BY <1>1, CallGoes
  <1>3. tabs' \in [Tabs -> TabRecords] /\ Owners'
      BY <1>1 DEF HistoryInv, Typed, Owners, Owned, Erase
  <1> QED BY <1>1, <1>2, <1>3, EraseKeeps

\* All sessions are deleted on the device.
LEMMA DeleteAllKeeps ==
    ASSUME HistoryInv, NEW f \in Flows, NEW t \in Tabs, DeleteAll(f, t)
    PROVE  HistoryInv'
  <1>1. /\ Typed /\ Growing /\ SeriesStaysGone /\ rows \in [Sessions -> RowStates]
        /\ generation \in 0 .. MaxEpoch /\ MaxEpoch \in Nat
        /\ "none" \in RowStates
      BY BoundsAssumption DEF HistoryInv, Typed, Device, RowStates
  <1>2. /\ rows' = [s \in Sessions |-> "none"] /\ series' = {} /\ notes' = {} /\ outbox' = {}
        /\ deleted' = deleted \cup {s \in Sessions : rows[s] # "none"}
        /\ generation' = generation + 1 /\ generation < MaxEpoch
        /\ owed' = owed \ outbox
        /\ Owned(t) /\ flows' = Call(f, t, "wipe", None)
        /\ UNCHANGED <<tabs, server, erased, queued>>
      BY DEF DeleteAll
  <1>3. \A x \in Sessions : Used(x)' <=> Used(x)
      BY <1>1, <1>2 DEF Used
  <1>4. flows' \in [Flows -> FlowRecords] /\ \A g \in Flows : Goes(g)
      BY <1>2, CallGoes
  <1>5. Typed'
    <2>1. Device'
        BY <1>1, <1>2 DEF Device
    <2>2. Ghosts'
        BY <1>1, <1>2 DEF Ghosts, Typed
    <2> QED BY <1>1, <1>2, <1>4, <2>1, <2>2 DEF Typed
  <1>6. Growing' /\ SeriesStaysGone'
      BY <1>1, <1>2 DEF Growing, SeriesStaysGone
  <1>7. Owners'
      BY <1>2 DEF HistoryInv, Owners, Owned
  <1> QED BY <1>2, <1>3, <1>4, <1>5, <1>6, <1>7, DeviceStep

-----------------------------------------------------------------------------
(* The outbox *)

\* The operation that Put queues.
NewOp(f, type) == [id |-> queued + 1, type |-> type, session |-> flows[f].session,
                   history |-> flows[f].history]

\* What Put writes.
LEMMA PutFacts ==
    ASSUME HistoryInv, NEW f \in Flows, NEW type \in {"upload", "delete"}, Put(f, type),
           flows[f].at \in {"enqueue", "tell"}
    PROVE  /\ NewOp(f, type) \in Ops /\ outbox' = outbox \cup {NewOp(f, type)}
           /\ NewOp(f, type).history = flows[f].history /\ NewOp(f, type).type = type
           /\ NewOp(f, type).session = flows[f].session
           /\ queued' \in 0 .. MaxQueued
           /\ owed' = IF flows[f].history = server.epoch THEN owed \cup {NewOp(f, type)} ELSE owed
  <1>1. Typed /\ Fits(flows[f]) /\ flows[f] \in FlowRecords
      BY DEF HistoryInv, Typed, Fitting
  <1>2. queued \in 0 .. MaxQueued /\ MaxQueued \in Nat /\ queued < MaxQueued /\ queued' = queued + 1
      BY <1>1, BoundsAssumption DEF Typed, Ghosts, Put
  <1>3. flows[f].session \in Sessions /\ flows[f].history \in 0 .. MaxEpoch
      BY <1>1, FlowFields DEF Fits, Shaped, Recorders
  <1>4. NewOp(f, type) \in Ops
      BY <1>2, <1>3 DEF NewOp, Ops
  <1>5. NewOp(f, type).history = flows[f].history /\ NewOp(f, type).type = type
        /\ NewOp(f, type).session = flows[f].session
      BY DEF NewOp
  <1>6. outbox' = outbox \cup {NewOp(f, type)}
      BY DEF Put, NewOp
  <1>7. owed' = IF flows[f].history = server.epoch THEN owed \cup {NewOp(f, type)} ELSE owed
    <2>1. owed' = IF NewOp(f, type).history = server.epoch THEN owed \cup {NewOp(f, type)} ELSE owed
        BY DEF Put, NewOp
    <2> QED BY <1>5, <2>1
  <1> QED BY <1>2, <1>4, <1>5, <1>6, <1>7

\* When the recorder of a session is done with it, the session has been left.
LEMMA RecorderLeaves ==
    ASSUME HistoryInv, NEW f \in Flows, flows[f].at \in Recorders \ {"begin"},
           \A s \in Sessions : Used(s) => Used(s)',
           \A g \in Flows \ {f} : flows'[g] = flows[g],
           flows'[f].at \notin Recorders
    PROVE  \A s \in Sessions : s = flows[f].session => Left(s)'
  <1> SUFFICES ASSUME NEW s \in Sessions, s = flows[f].session PROVE Left(s)'
      OBVIOUS
  <1>1. Fits(flows[f]) /\ Apart
      BY DEF HistoryInv, Fitting
  <1>2. Used(s)'
      BY <1>1 DEF Fits
  <1>3. ASSUME NEW g \in Flows, Recording(g)' PROVE flows'[g].session # s
    <2>1. g # f /\ Recording(g) /\ Recording(f)
        BY <1>3 DEF Recording
    <2> QED BY <1>1, <2>1 DEF Apart
  <1> QED BY <1>2, <1>3 DEF Left

\* The summary of a session is queued when its recorder has left it.
LEMMA EnqueueKeeps ==
    ASSUME HistoryInv, NEW f \in Flows, Enqueue(f)
    PROVE  HistoryInv'
  <1>1. /\ Typed /\ Owners /\ Growing /\ SeriesStaysGone /\ Fits(flows[f]) /\ Waiting /\ OnServer
        /\ flows \in [Flows -> FlowRecords] /\ flows[f] \in FlowRecords
      BY DEF HistoryInv, Fitting, Typed
  <1>2. /\ flows[f].at \in {"enqueue", "tell"}
        /\ UNCHANGED <<rows, series, notes, generation, tabs, server, deleted, erased>>
      BY DEF Enqueue
  <1>3. \A s : Used(s)' <=> Used(s)
      BY <1>2 DEF Used
  <1>4. flows[f].tab \in Tabs
      BY <1>1, <1>2 DEF Fits, Shaped
  <1>5. CASE ~ flows[f].current
    <2>1. UNCHANGED <<device, server, ghosts>> /\ flows' = End(f) /\ tabs' = tabs
        BY <1>2, <1>5 DEF Enqueue, device, ghosts
    <2> QED BY <1>1, <2>1, EndGoes, TabsQuiet
  <1>6. CASE flows[f].current
    <2> DEFINE type == IF At(f, "enqueue") THEN "upload" ELSE "delete"
    <2>1. /\ Put(f, type)
          /\ \/ Owned(flows[f].tab) /\ flows' = [Call(f, flows[f].tab, "next", None) EXCEPT ![f].todo = outbox']
             \/ flows' = End(f)
        BY <1>6 DEF Enqueue
    <2>2. type \in {"upload", "delete"} /\ (type = "upload" => flows[f].at = "enqueue")
        BY DEF At
    <2> HIDE DEF type
    <2>12. PICK op : op = NewOp(f, type)
        OBVIOUS
    <2>3. /\ op \in Ops /\ outbox' = outbox \cup {op}
          /\ op.history = flows[f].history /\ op.type = type /\ op.session = flows[f].session
          /\ queued' \in 0 .. MaxQueued
          /\ owed' = IF flows[f].history = server.epoch THEN owed \cup {op} ELSE owed
        BY <1>2, <2>1, <2>2, <2>12, PutFacts
    <2>4. PICK w \in FlowRecords :
            /\ flows' = [flows EXCEPT ![f] = w]
            /\ w.at \in {"next", "idle"} /\ (w.at # "idle" => w.tab \in Tabs) /\ w.history <= server.epoch
            /\ w.found = {} /\ w.sent = 0 /\ w.answer = None /\ w.todo \subseteq outbox'
      <3>1. CASE flows' = End(f)
        <4>1. Idle \in FlowRecords /\ Fits(Idle) /\ Idle.at = "idle" /\ Idle.found = {} /\ Idle.todo = {}
              /\ Idle.answer = None
            BY <1>1, IdleFits
        <4>2. Idle.sent = 0 /\ Idle.history <= server.epoch
            BY <4>1 DEF Fits, Idle
        <4> QED BY <3>1, <4>1, <4>2 DEF End
      <3>2. CASE /\ Owned(flows[f].tab)
                 /\ flows' = [Call(f, flows[f].tab, "next", None) EXCEPT ![f].todo = outbox']
        <4>0. PICK t \in Tabs : t = flows[f].tab
            BY <1>4
        <4>1. PICK c : c = Called(t, "next", None)
            OBVIOUS
        <4>2. "next" \in Stages /\ 0 \in 0 .. MaxEpoch
            BY BoundsAssumption DEF Stages
        <4>3. /\ c \in FlowRecords
              /\ c.at = "next" /\ c.tab = t /\ c.history = tabs[t].owner
              /\ c.found = {} /\ c.sent = 0 /\ c.answer = None
            BY <1>1, <3>2, <4>0, <4>1, <4>2, CallRecord
        <4>4. PICK todo \in SUBSET Ops : todo = outbox'
            BY <1>1, <2>3 DEF Typed, Device
        <4>5. PICK w : w = WithTodo(c, todo)
            OBVIOUS
        <4>6. /\ w \in FlowRecords /\ w.at = "next" /\ w.tab = t /\ w.history = tabs[t].owner
              /\ w.found = {} /\ w.sent = 0 /\ w.answer = None /\ w.todo = todo
            BY <4>2, <4>3, <4>5, WithFields
        <4>7. Call(f, t, "next", None) = [flows EXCEPT ![f] = c]
            BY <4>1 DEF Call, Called
        <4>8. [Call(f, t, "next", None) EXCEPT ![f].todo = todo] = [flows EXCEPT ![f] = [c EXCEPT !.todo = todo]]
            BY <1>1, <4>7
        <4>9. flows' = [flows EXCEPT ![f] = w]
            BY <3>2, <4>0, <4>4, <4>5, <4>8 DEF WithTodo
        <4>10. tabs[t].owner <= server.epoch
            BY <1>1, <3>2, <4>0 DEF Owners
        <4> QED BY <4>4, <4>6, <4>9, <4>10
      <3> QED BY <2>1, <3>1, <3>2
    <2>5. /\ flows' \in [Flows -> FlowRecords] /\ flows'[f] = w
          /\ \A g \in Flows \ {f} : flows'[g] = flows[g]
        BY <1>1, <2>4
    <2>6. Queued(op)'
      <3>1. op.history <= server'.epoch
          BY <1>1, <1>2, <2>3 DEF Fits
      <3>2. ASSUME op.type = "upload"
            PROVE  Left(op.session)' /\ (op.session \in erased' => op.session \in server'.tombs)
        <4>1. flows[f].at = "enqueue" /\ flows[f].at \in Recorders \ {"begin"}
            BY <2>2, <2>3, <3>2 DEF Recorders
        <4>2. PICK s \in Sessions : s = flows[f].session
            BY <1>1, <4>1 DEF Fits, Shaped
        <4>3. flows'[f].at \notin Recorders
            BY <2>4, <2>5 DEF Recorders
        <4>4. Left(s)'
            BY <1>3, <2>5, <4>1, <4>2, <4>3, RecorderLeaves
        <4>5. ~ Left(s)
            BY <4>1, <4>2 DEF Left, Recording
        <4>6. s \in erased => s \in server.tombs
            BY <1>1, <4>5 DEF OnServer
        <4> QED BY <1>2, <2>3, <4>2, <4>4, <4>6
      <3> QED BY <3>1, <3>2 DEF Queued
    <2>7. Renewed(flows[f], w)
      <3>1. \A x \in w.todo : Queued(x) \/ Queued(x)'
          BY <1>1, <2>3, <2>4, <2>6 DEF Waiting
      <3> QED BY <2>4, <3>1, NothingSaid DEF Renewed, Shaped, Recorders, Sending, Uploads
    <2>8. \A g \in Flows : Goes(g)
        BY <1>1, <2>4, <2>7, OneFlow
    <2>9. Typed'
      <3>1. Device' BY <1>1, <1>2, <2>3 DEF Device, Typed
      <3>2. Ghosts' BY <1>1, <1>2, <2>3 DEF Ghosts, Typed
      <3> QED BY <1>1, <1>2, <2>5, <3>1, <3>2 DEF Typed
    <2>10. Growing' /\ SeriesStaysGone' /\ Owners'
        BY <1>1, <1>2 DEF Growing, SeriesStaysGone, Owners, Owned
    <2>11. \A x \in outbox' : x \in outbox \/ Queued(x)'
        BY <2>3, <2>6
    <2> QED BY <1>2, <1>3, <2>8, <2>9, <2>10, <2>11, DeviceStep
  <1> QED BY <1>5, <1>6

\* A step of a sync on the outbox.
LEMMA SyncStep ==
    ASSUME HistoryInv, UNCHANGED <<rows, series, notes, generation, tabs, server, deleted, erased, queued>>,
           outbox' \subseteq Ops, owed' \subseteq owed,
           \A op \in outbox' : Queued(op),
           flows' \in [Flows -> FlowRecords], \A g \in Flows : Goes(g)
    PROVE  HistoryInv'
  <1>1. Typed /\ Owners /\ Growing /\ SeriesStaysGone /\ server.epoch \in Nat /\ Apart
      BY BoundsAssumption DEF HistoryInv, Typed, ServerRecords
  <1>2. Typed'
      BY <1>1 DEF Typed, Device, Ghosts
  <1>3. \A s : Used(s)' <=> Used(s)
      BY DEF Used
  <1>4. Growing' /\ SeriesStaysGone' /\ Owners'
      BY <1>1 DEF Growing, SeriesStaysGone, Owners, Owned
  <1>5. \A op \in outbox' : Queued(op)'
    <2>1. Lasting
        BY <1>1 DEF Lasting
    <2> QED BY <1>1, <1>2, <1>3, <2>1, StepKeeps
  <1> QED BY <1>2, <1>3, <1>4, <1>5, DeviceStep

\* The next operation of a sync is one of those it read.
LEMMA NextKeeps ==
    ASSUME HistoryInv, NEW f \in Flows, NextOperation(f)
    PROVE  HistoryInv'
  <1>1. /\ Typed /\ Fits(flows[f]) /\ Waiting /\ outbox \subseteq Ops
        /\ flows \in [Flows -> FlowRecords] /\ flows[f] \in FlowRecords
        /\ rows \in [Sessions -> RowStates]
      BY DEF HistoryInv, Fitting, Typed, Device
  <1>2. /\ flows[f].at = "next"
        /\ UNCHANGED <<rows, series, notes, generation, tabs, server, deleted, erased, queued>>
      BY DEF NextOperation, At
  <1>3. flows[f].todo \subseteq Ops /\ flows[f].tab \in Tabs /\ flows[f].sent = 0
      /\ flows[f].answer = None
      BY <1>1, <1>2, FlowFields DEF Fits, Shaped
  <1>4. CASE Stop(f) /\ UNCHANGED <<outbox, owed>>
    <2>1. flows' \in [Flows -> FlowRecords] /\ \A g \in Flows : Goes(g)
        BY <1>2, <1>4, StopGoes
    <2> QED BY <1>1, <1>2, <1>4, <2>1, SyncStep DEF Waiting
  <1>5. ASSUME NEW op \in flows[f].todo, Take(f, op), owed' \subseteq owed
        PROVE  HistoryInv'
    <2>6. PICK w : w = [flows[f] EXCEPT !.at = "next", !.todo = @ \ {op}]
        OBVIOUS
    <2>1. w \in FlowRecords
        BY <1>1, <2>6 DEF FlowRecords, Stages
    <2>2. /\ w.at = "next" /\ w.todo \subseteq flows[f].todo /\ w.found = flows[f].found
          /\ w.tab = flows[f].tab /\ w.history = flows[f].history /\ w.sent = flows[f].sent
          /\ w.answer = flows[f].answer
        BY <1>1, <2>6 DEF FlowRecords
    <2>3. flows' = [flows EXCEPT ![f] = w] /\ outbox' = outbox \ {op}
        BY <1>5, <2>6 DEF Take
    <2>4. Renewed(flows[f], w)
        BY <1>1, <1>3, <2>2, NothingSaid DEF Renewed, Shaped, Recorders, Sending, Uploads, Fits
    <2>5. flows' \in [Flows -> FlowRecords] /\ \A g \in Flows : Goes(g)
        BY <1>1, <2>1, <2>3, <2>4, OneFlow
    <2> QED BY <1>1, <1>2, <1>5, <2>3, <2>5, SyncStep DEF Waiting
  <1>6. ASSUME NEW op \in flows[f].todo, OfThisEpoch(f, op), UNCHANGED <<outbox, owed>>,
               flows' = [flows EXCEPT
                       ![f].at = IF op.type = "upload" THEN "create" ELSE "delete", ![f].op = op,
                       ![f].content = IF op.type = "upload" THEN rows[op.session] ELSE "none",
                       ![f].parts = IF op.type = "upload" /\ op.session \in notes THEN Parts ELSE 0]
        PROVE  HistoryInv'
    <2>1. PICK stage : stage = IF op.type = "upload" THEN "create" ELSE "delete"
        OBVIOUS
    <2>2. PICK content : content = IF op.type = "upload" THEN rows[op.session] ELSE "none"
        OBVIOUS
    <2>3. PICK parts : parts = IF op.type = "upload" /\ op.session \in notes THEN Parts ELSE 0
        OBVIOUS
    <2>4. op \in Ops /\ op.session \in Sessions /\ op.type \in {"upload", "delete"}
        BY <1>3 DEF Ops
    <2>5. stage \in Stages /\ content \in RowStates /\ parts \in 0 .. Parts
        BY <1>1, <2>1, <2>2, <2>3, <2>4, BoundsAssumption DEF Stages, Requests, RowStates
    <2>13. PICK w : w = [flows[f] EXCEPT !.at = stage, !.op = op, !.content = content, !.parts = parts]
        OBVIOUS
    <2>6. w \in FlowRecords
        BY <1>1, <2>4, <2>5, <2>13 DEF FlowRecords
    <2>7. /\ w.at = stage /\ w.op = op /\ w.todo = flows[f].todo /\ w.found = flows[f].found
          /\ w.tab = flows[f].tab /\ w.history = flows[f].history /\ w.sent = flows[f].sent
          /\ w.answer = flows[f].answer
        BY <1>1, <2>13 DEF FlowRecords
    <2>8. flows' = [flows EXCEPT ![f] = w]
        BY <1>1, <1>6, <2>1, <2>2, <2>3, <2>13
    <2>9. op.history = flows[f].history
        BY <1>6 DEF OfThisEpoch
    <2>10. Queued(op)
        BY <1>1, <1>6 DEF Fits
    <2>11. Renewed(flows[f], w)
        BY <1>1, <1>3, <2>1, <2>4, <2>7, <2>9, <2>10, NothingSaid DEF Renewed, Shaped, Recorders, Sending, Uploads, Fits
    <2>12. flows' \in [Flows -> FlowRecords] /\ \A g \in Flows : Goes(g)
        BY <1>1, <2>6, <2>8, <2>11, OneFlow
    <2> QED BY <1>1, <1>2, <1>6, <2>12, SyncStep DEF Waiting
  <1>7. \/ Stop(f) /\ UNCHANGED <<outbox, owed>>
        \/ \E op \in flows[f].todo :
             \/ Take(f, op) /\ (owed' = owed \ {op} \/ owed' = owed)
             \/ /\ OfThisEpoch(f, op) /\ UNCHANGED <<outbox, owed>>
                /\ flows' = [flows EXCEPT
                       ![f].at = IF op.type = "upload" THEN "create" ELSE "delete", ![f].op = op,
                       ![f].content = IF op.type = "upload" THEN rows[op.session] ELSE "none",
                       ![f].parts = IF op.type = "upload" /\ op.session \in notes THEN Parts ELSE 0]
      BY Zenon DEF NextOperation
  <1> QED BY <1>4, <1>5, <1>6, <1>7

\* The next request of the same operation.
LEMMA ContinueKeeps ==
    ASSUME HistoryInv, NEW f \in Flows, Continue(f)
    PROVE  HistoryInv'
  <1>1. /\ Typed /\ Fits(flows[f])
        /\ flows \in [Flows -> FlowRecords] /\ flows[f] \in FlowRecords
      BY DEF HistoryInv, Fitting, Typed
  <1>2. PICK v \in FlowRecords : v = flows[f]
      BY <1>1
  <1>3. PICK stage : stage = Following(f)
      OBVIOUS
  <1>4. PICK sent : sent = IF v.at = "part" THEN v.sent + 1 ELSE v.sent
      OBVIOUS
  <1>5. /\ v.at \in Uploads \cup {"delete"} /\ stage # "done"
        /\ flows' = [flows EXCEPT ![f].at = Following(f), ![f].answer = None,
                                  ![f].sent = IF flows[f].at = "part" THEN @ + 1 ELSE @]
        /\ UNCHANGED <<device, tabs, server, ghosts>>
      BY <1>2, <1>3 DEF Continue, Sent, Uploads
  <1>6. /\ v.at \in {"create", "part"}
        /\ v.at = "create" => stage = IF 0 < v.parts THEN "part" ELSE "finalize"
        /\ v.at = "part" => stage = IF v.sent + 1 < v.parts THEN "part" ELSE "finalize"
      BY <1>2, <1>3, <1>5 DEF Following
  <1>7. /\ v.sent \in 0 .. Parts /\ v.parts \in 0 .. Parts /\ Parts \in Nat
        /\ Fits(v)
      BY <1>1, <1>2, FlowFields, BoundsAssumption
  <1>8. /\ sent \in 0 .. Parts /\ stage \in Stages /\ None \in Answers
        /\ stage \in {"part", "finalize"} /\ (stage = "part" => sent < v.parts)
      BY <1>4, <1>6, <1>7 DEF Fits, Shaped, Stages, Requests, Answers
  <1> DEFINE w == [v EXCEPT !.at = stage, !.answer = None, !.sent = sent]
  <1>9. w \in FlowRecords
      BY <1>2, <1>8 DEF FlowRecords
  <1>10. /\ w.at = stage /\ w.op = v.op /\ w.todo = v.todo /\ w.found = v.found /\ w.session = v.session
         /\ w.tab = v.tab /\ w.history = v.history /\ w.sent = sent /\ w.parts = v.parts
         /\ w.answer = None
      BY <1>2 DEF FlowRecords
  <1>11. flows' = [flows EXCEPT ![f] = w]
      BY <1>1, <1>2, <1>3, <1>4, <1>5
  <1> HIDE DEF w
  <1>12. Shaped(w)
      BY <1>6, <1>7, <1>8, <1>10 DEF Fits, Shaped, Recorders, Sending, Uploads
  <1>13. Queued(w.op) /\ w.at \notin Recorders
      BY <1>6, <1>7, <1>8, <1>10 DEF Fits, Recorders, Sending, Uploads
  <1>14. Renewed(flows[f], w)
      BY <1>2, <1>7, <1>10, <1>12, <1>13, NothingSaid DEF Renewed, Fits
  <1>15. flows' \in [Flows -> FlowRecords] /\ \A g \in Flows : Goes(g)
      BY <1>1, <1>9, <1>11, <1>14, OneFlow
  <1> QED BY <1>5, <1>15, TabsQuiet

\* The operation is removed, or put back as it was read.
LEMMA SettleKeeps ==
    ASSUME HistoryInv, NEW f \in Flows, Settle(f)
    PROVE  HistoryInv'
  <1>1. /\ Typed /\ Fits(flows[f]) /\ Waiting /\ outbox \subseteq Ops
        /\ flows \in [Flows -> FlowRecords] /\ flows[f] \in FlowRecords
      BY DEF HistoryInv, Fitting, Typed, Device
  <1>2. PICK v \in FlowRecords : v = flows[f]
      BY <1>1
  <1>3. PICK conflict \in BOOLEAN : conflict = (v.conflict \/ v.answer = "epoch")
      BY <1>2
  <1>4. /\ v.at \in Sending
        /\ outbox' = outbox \ {v.op} \/ outbox' = outbox \cup {v.op}
        /\ owed' \subseteq owed
        /\ UNCHANGED <<rows, series, notes, generation, tabs, server, deleted, erased, queued>>
      BY <1>2 DEF Settle, Sent, Sending, Uploads
  <1>5. flows' = [flows EXCEPT ![f].at = "next", ![f].todo = @ \ {v.op}, ![f].op = NoOp, ![f].answer = None,
                              ![f].content = "none", ![f].parts = 0, ![f].sent = 0,
                              ![f].conflict = @ \/ v.answer = "epoch"]
      BY <1>2 DEF Settle
  <1>13. PICK todo : todo = v.todo \ {v.op}
      OBVIOUS
  <1> DEFINE w == [v EXCEPT !.at = "next", !.todo = todo, !.op = NoOp, !.answer = None,
                            !.content = "none", !.parts = 0, !.sent = 0, !.conflict = conflict]
  <1>6. "next" \in Stages /\ None \in Answers /\ "none" \in RowStates /\ 0 \in 0 .. Parts
        /\ NoOp \in Ops \cup {NoOp}
      BY BoundsAssumption DEF Stages, Answers, RowStates
  <1>7. w \in FlowRecords
    <2>1. todo \in SUBSET Ops
        BY <1>2, <1>13, FlowFields
    <2> QED BY ZenonT(60), <1>2, <1>6, <2>1 DEF FlowRecords
  <1>8. /\ w.at = "next" /\ w.todo \subseteq v.todo /\ w.found = v.found
        /\ w.tab = v.tab /\ w.history = v.history /\ w.sent = 0 /\ w.answer = None
      BY <1>2, <1>13 DEF FlowRecords
  <1>9. flows' = [flows EXCEPT ![f] = w]
      BY ZenonT(60), <1>1, <1>2, <1>3, <1>5, <1>13
  <1> HIDE DEF w
  <1>10. v.op \in Ops /\ Queued(v.op) /\ v.tab \in Tabs
      BY <1>1, <1>2, <1>4 DEF Fits, Shaped, Sending, Uploads
  <1>11. Renewed(flows[f], w)
      BY <1>1, <1>2, <1>8, <1>10, NothingSaid DEF Renewed, Shaped, Recorders, Sending, Uploads, Fits
  <1>12. flows' \in [Flows -> FlowRecords] /\ \A g \in Flows : Goes(g)
      BY <1>1, <1>7, <1>9, <1>11, OneFlow
  <1> QED BY <1>1, <1>4, <1>10, <1>12, SyncStep DEF Waiting

-----------------------------------------------------------------------------
(* The server *)

\* The types of the server's fields.
LEMMA ServerFields ==
    ASSUME NEW v \in ServerRecords
    PROVE  /\ v.epoch \in 0 .. MaxEpoch /\ v.sessions \in [Sessions -> ServerSessions]
           /\ v.tombs \subseteq Sessions /\ MaxEpoch \in Nat
    BY BoundsAssumption DEF ServerRecords

\* A step that writes one session of the server.
Written(v, s, x) == [v EXCEPT !.sessions[s] = x]

\* What writing one session leaves of the server.
LEMMA SessionWritten ==
    ASSUME NEW v \in ServerRecords, NEW s \in Sessions, NEW x \in ServerSessions,
           NEW w, w = Written(v, s, x)
    PROVE  /\ w \in ServerRecords /\ w.epoch = v.epoch /\ w.tombs = v.tombs
           /\ w.sessions[s] = x
           /\ \A y \in Sessions \ {s} : w.sessions[y] = v.sessions[y]
  <1>1. v.sessions \in [Sessions -> ServerSessions]
      BY ServerFields
  <1>2. PICK F : F = [v.sessions EXCEPT ![s] = x]
      OBVIOUS
  <1>3. F \in [Sessions -> ServerSessions] /\ F[s] = x /\ \A y \in Sessions \ {s} : F[y] = v.sessions[y]
      BY <1>1, <1>2
  <1>4. w = [v EXCEPT !.sessions = F]
      BY <1>2 DEF Written
  <1>5. w \in ServerRecords /\ w.epoch = v.epoch /\ w.tombs = v.tombs /\ w.sessions = F
      BY <1>3, <1>4 DEF ServerRecords
  <1> QED BY <1>3, <1>5

\* The record of no session.
LEMMA NoSessionType ==
    NoSession \in ServerSessions /\ NoSession.status = "none"
  <1>1. 0 \in 0 .. Parts BY BoundsAssumption
  <1> QED BY <1>1 DEF NoSession, ServerSessions, RowStates

\* A step of the server leaves the device alone.
LEMMA ServerStep ==
    ASSUME HistoryInv, UNCHANGED <<device, tabs, deleted, queued>>,
           server' \in ServerRecords, erased' \subseteq Sessions, owed' \subseteq owed,
           Lasting,
           \A s \in erased' : s \in erased \/ s \in server'.tombs \/ (Left(s) /\ server.epoch < server'.epoch),
           \A s \in Sessions : server'.sessions[s].status # "none" => Left(s) /\ s \notin erased',
           flows' \in [Flows -> FlowRecords], \A g \in Flows : Goes(g)
    PROVE  HistoryInv'
  <1>1. /\ Typed /\ Owners /\ Growing /\ SeriesStaysGone /\ Waiting /\ OnServer
        /\ server.epoch \in Nat /\ server'.epoch \in Nat
        /\ MaxEpoch \in Nat /\ \A t \in Tabs : tabs[t] \in TabRecords
      BY BoundsAssumption DEF HistoryInv, Typed, ServerRecords
  <1>2. Typed'
      BY <1>1 DEF Typed, Device, Ghosts, device
  <1>3. \A s : Used(s)' <=> Used(s)
      BY DEF Used, device
  <1>4. Growing' /\ SeriesStaysGone'
      BY <1>1 DEF Growing, SeriesStaysGone, device
  <1>5. Owners'
    <2> SUFFICES ASSUME NEW t \in Tabs, tabs[t].owner # None PROVE tabs[t].owner <= server'.epoch
        BY DEF Owners, Owned
    <2>1. tabs[t].owner \in 0 .. MaxEpoch /\ tabs[t].owner <= server.epoch
        BY <1>1 DEF TabRecords, Owners, Owned
    <2>2. server.epoch <= server'.epoch /\ server'.epoch \in Nat /\ server.epoch \in Nat
        BY <1>1, BoundsAssumption DEF Lasting, ServerRecords, Typed
    <2>3. tabs[t].owner \in Nat
        BY <2>1, BoundsAssumption
    <2> QED BY <2>1, <2>2, <2>3
  <1>6. \A s \in erased' : s \in erased \/ s \in server'.tombs \/ server.epoch < server'.epoch
      OBVIOUS
  <1>7. /\ Apart' /\ Fitting'
        /\ \A s \in Sessions : Left(s) => Left(s)'
        /\ \A op \in Ops : Queued(op) => Queued(op)'
      BY <1>2, <1>3, <1>6, StepKeeps
  <1>8. Waiting'
      BY <1>1, <1>7 DEF Waiting, Typed, Device, device
  <1>9. OnServer'
    <2> SUFFICES ASSUME NEW s \in Sessions
                 PROVE  /\ server'.sessions[s].status # "none" => Left(s)'
                        /\ s \in erased' => server'.sessions[s].status = "none"
                        /\ s \in erased' /\ ~ Left(s)' => s \in server'.tombs
        BY DEF OnServer
    <2>2. server.tombs \subseteq server'.tombs
        BY DEF Lasting
    <2>3. Left(s) => Left(s)'
        BY <1>7
    <2>4. s \in erased /\ ~ Left(s) => s \in server.tombs
        BY <1>1 DEF OnServer
    <2>1. s \in erased' /\ ~ Left(s)' => s \in server'.tombs
        BY <2>2, <2>3, <2>4
    <2> QED BY <1>7, <2>1
  <1> QED BY <1>2, <1>4, <1>5, <1>7, <1>8, <1>9 DEF HistoryInv

\* A request that the server answers without a write.
LEMMA AnswerKeeps ==
    ASSUME HistoryInv, NEW f \in Flows, NEW code \in Answers, flows[f].at \in Requests,
           Reply(f, code), UNCHANGED server, UNCHANGED <<Local, erased, owed>>,
           NEW v, v = flows[f], v.at \in Sending => Says(v.at, v.op.session, v.history, code)
    PROVE  HistoryInv'
  <1>1. UNCHANGED <<device, tabs, deleted, queued, server, erased, owed>>
      BY DEF Local
  <1>2. \A s : Used(s)' <=> Used(s)
      BY <1>1 DEF Used, device
  <1>3. flows' \in [Flows -> FlowRecords] /\ \A g \in Flows : Goes(g)
    <2>1. v.at \in Sending => Says(v.at, v.op.session, v.history, code)'
        BY DEF Says
    <2> QED BY <1>2, <2>1, ReplyGoes
  <1>4. UNCHANGED <<device, server, ghosts>> /\ tabs' = tabs
      BY <1>1 DEF ghosts
  <1> QED BY <1>3, <1>4, TabsQuiet

\* A request that writes its session, which the server had not deleted.
LEMMA WriteKeeps ==
    ASSUME HistoryInv, NEW f \in Flows, flows[f].at \in Uploads, Refusal(f) = "ok",
           NEW x \in ServerSessions, NEW s, s = flows[f].op.session,
           server' = [server EXCEPT !.sessions[s] = x],
           server.sessions[s].status # "complete",
           flows[f].at = "finalize" => x.status = "complete",
           Reply(f, "ok"), UNCHANGED <<Local, erased, owed>>
    PROVE  HistoryInv'
  <1>1. /\ Typed /\ OnServer /\ Fits(flows[f]) /\ flows[f] \in FlowRecords /\ server \in ServerRecords
        /\ erased \subseteq Sessions
      BY DEF HistoryInv, Typed, Fitting, Ghosts
  <1>2. /\ flows[f].op \in Ops /\ flows[f].op.type = "upload" /\ Queued(flows[f].op)
        /\ flows[f].op.history = flows[f].history
      BY <1>1 DEF Fits, Shaped, Sending
  <1>3. s \in Sessions
      BY <1>2 DEF Ops
  <1>4. flows[f].history = server.epoch /\ s \notin server.tombs
      BY DEF Refusal
  <1>5. flows[f].history \in Nat
      BY <1>1, FlowFields, BoundsAssumption
  <1>6. Left(s) /\ s \notin erased
      BY <1>2, <1>4, <1>5 DEF Queued
  <1>7. /\ server' \in ServerRecords /\ server'.epoch = server.epoch /\ server'.tombs = server.tombs
        /\ \A y \in Sessions \ {s} : server'.sessions[y] = server.sessions[y]
        /\ server'.sessions[s] = x
    <2>1. PICK w : w = server'
        OBVIOUS
    <2>2. w = Written(server, s, x)
        BY <2>1 DEF Written
    <2>3. server \in ServerRecords
        BY <1>1
    <2>4. /\ w \in ServerRecords /\ w.epoch = server.epoch /\ w.tombs = server.tombs
          /\ \A y \in Sessions \ {s} : w.sessions[y] = server.sessions[y]
          /\ w.sessions[s] = x
        BY <1>3, <2>2, <2>3, SessionWritten
    <2> QED BY <2>1, <2>4
  <1>8. \A y \in Sessions : server'.sessions[y].status # "none" => Left(y) /\ y \notin erased
      BY <1>1, <1>6, <1>7 DEF OnServer
  <1>9. UNCHANGED <<device, tabs, deleted, queued, erased, owed>>
      BY DEF Local
  <1>10. \A y : Used(y)' <=> Used(y)
      BY <1>9 DEF Used, device
  <1>11. "ok" \in Answers /\ flows[f].at \in Requests
      BY DEF Answers, Requests, Uploads
  <1>12. flows' \in [Flows -> FlowRecords] /\ \A g \in Flows : Goes(g)
    <2>1. PICK v : v = flows[f]
        OBVIOUS
    <2>2. v.at = "finalize" => server'.sessions[v.op.session].status = "complete"
        BY <1>7, <2>1
    <2>3. Says(v.at, v.op.session, v.history, "ok")'
        BY <2>1, <2>2 DEF Says, Uploads
    <2> QED BY <1>10, <1>11, <2>1, <2>3, ReplyGoes
  <1>13. Lasting
    <2>1. server.epoch <= server'.epoch /\ server.tombs \subseteq server'.tombs
        BY <1>1, <1>7, ServerFields
    <2> QED BY <1>7, <2>1 DEF Lasting
  <1> QED BY <1>1, <1>7, <1>8, <1>9, <1>12, <1>13, ServerStep

\* A refusal tells the truth.
LEMMA RefusalSays ==
    ASSUME HistoryInv, NEW f \in Flows, flows[f].at \in Uploads, NEW v, v = flows[f]
    PROVE  Refusal(f) # "ok" => Says(v.at, v.op.session, v.history, Refusal(f))
  <1>1. Fits(flows[f]) /\ flows[f] \in FlowRecords /\ server \in ServerRecords
      BY DEF HistoryInv, Typed, Fitting
  <1>2. v.history \in Nat /\ server.epoch \in Nat /\ v.history <= server.epoch
      BY <1>1, FlowFields, ServerFields, BoundsAssumption DEF Fits
  <1>3. v.history # server.epoch => v.history < server.epoch
      BY <1>2
  <1> QED BY <1>3 DEF Refusal, Says, Uploads

\* The other answers of an upload say nothing, but for the end of it.
LEMMA OtherSays ==
    ASSUME NEW at \in Uploads, NEW s, NEW h, NEW code \in {"ok", "conflict", "missing"},
           at = "finalize" /\ code = "ok" => server.sessions[s].status = "complete"
    PROVE  Says(at, s, h, code)
    BY DEF Says, Uploads

\* The request that creates a session.
LEMMA CreateKeeps ==
    ASSUME HistoryInv, NEW f \in Flows, ServeCreate(f)
    PROVE  HistoryInv'
  <1> DEFINE s == flows[f].op.session
             old == server.sessions[s]
             x == [status |-> "uploading", content |-> flows[f].content, expects |-> flows[f].parts,
                   parts |-> {}]
  <1>1. flows[f].at = "create" /\ UNCHANGED <<Local, erased, owed>>
      BY DEF ServeCreate, Waits, At
  <1>2. flows[f].at \in Requests /\ flows[f].at \in Uploads
      BY <1>1 DEF Requests, Uploads
  <1>3. Refusal(f) \in Answers /\ {"ok", "conflict", "missing"} \subseteq Answers
      BY DEF Refusal, Answers
  <1>4. CASE Refusal(f) # "ok" /\ Reply(f, Refusal(f)) /\ UNCHANGED server
    <2>1. PICK v : v = flows[f]
        OBVIOUS
    <2>2. Says(v.at, v.op.session, v.history, Refusal(f))
        BY <1>2, <1>4, <2>1, RefusalSays
    <2>3. PICK code \in Answers : code = Refusal(f)
        BY <1>3
    <2> QED BY <1>1, <1>2, <1>4, <2>1, <2>2, <2>3, AnswerKeeps
  <1>5. CASE /\ Refusal(f) = "ok" /\ server' = [server EXCEPT !.sessions[s] = x] /\ Reply(f, "ok")
             /\ old.status = "none"
    <2>1. flows[f] \in FlowRecords
        BY DEF HistoryInv, Typed
    <2>2. flows[f].content \in RowStates /\ flows[f].parts \in 0 .. Parts
        BY <2>1, FlowFields
    <2>3. x \in ServerSessions
        BY <2>2 DEF ServerSessions
    <2>4. server' = [server EXCEPT !.sessions[s] = x]
        BY <1>5
    <2>5. server.sessions[s].status # "complete" /\ flows[f].at # "finalize"
        BY <1>1, <1>5
    <2> HIDE DEF x, s
    <2> QED BY <1>1, <1>2, <1>5, <2>3, <2>4, <2>5, WriteKeeps DEF s
  <1>6. CASE /\ Reply(f, IF old.content = flows[f].content /\ old.expects = flows[f].parts
                         THEN "ok" ELSE "conflict")
             /\ UNCHANGED server
    <2>1. PICK code \in {"ok", "conflict", "missing"} :
            Reply(f, code) /\ (flows[f].at = "finalize" /\ code = "ok" => old.status = "complete")
        BY <1>1, <1>6
    <2>2. PICK v : v = flows[f]
        OBVIOUS
    <2>3. Says(v.at, v.op.session, v.history, code)
        BY <1>2, <2>1, <2>2, OtherSays
    <2>4. code \in Answers
        BY <1>3
    <2> QED BY <1>1, <1>2, <1>6, <2>1, <2>2, <2>3, <2>4, AnswerKeeps
  <1> QED BY <1>4, <1>5, <1>6 DEF ServeCreate

\* The request that sends a part.
LEMMA PartKeeps ==
    ASSUME HistoryInv, NEW f \in Flows, ServePart(f)
    PROVE  HistoryInv'
  <1> DEFINE s == flows[f].op.session
             old == server.sessions[s]
             x == [old EXCEPT !.parts = @ \cup {flows[f].sent}]
  <1>1. flows[f].at = "part" /\ UNCHANGED <<Local, erased, owed>>
      BY DEF ServePart, Waits, At
  <1>2. flows[f].at \in Requests /\ flows[f].at \in Uploads
      BY <1>1 DEF Requests, Uploads
  <1>3. Refusal(f) \in Answers /\ {"ok", "conflict", "missing"} \subseteq Answers
      BY DEF Refusal, Answers
  <1>4. CASE Refusal(f) # "ok" /\ Reply(f, Refusal(f)) /\ UNCHANGED server
    <2>1. PICK v : v = flows[f]
        OBVIOUS
    <2>2. Says(v.at, v.op.session, v.history, Refusal(f))
        BY <1>2, <1>4, <2>1, RefusalSays
    <2>3. PICK code \in Answers : code = Refusal(f)
        BY <1>3
    <2> QED BY <1>1, <1>2, <1>4, <2>1, <2>2, <2>3, AnswerKeeps
  <1>5. CASE /\ Refusal(f) = "ok" /\ Reply(f, "ok") /\ old.status = "uploading"
             /\ server' = [server EXCEPT !.sessions[s].parts = @ \cup {flows[f].sent}]
    <2>1. /\ flows[f] \in FlowRecords /\ Fits(flows[f]) /\ server \in ServerRecords
          /\ server.sessions \in [Sessions -> ServerSessions]
        BY ServerFields DEF HistoryInv, Typed, Fitting
    <2>2. s \in Sessions
        BY <1>2, <2>1 DEF Fits, Shaped, Sending, Ops
    <2>3. flows[f].sent \in 0 .. Parts - 1
      <3>1. flows[f].sent \in 0 .. Parts /\ flows[f].parts \in 0 .. Parts /\ Parts \in Nat
          BY <2>1, FlowFields, BoundsAssumption
      <3>2. flows[f].sent < flows[f].parts
          BY <1>1, <2>1 DEF Fits, Shaped
      <3> QED BY <3>1, <3>2
    <2>4. old \in ServerSessions
        BY <2>1, <2>2
    <2>5. x \in ServerSessions
        BY <2>3, <2>4 DEF ServerSessions
    <2>6. server' = [server EXCEPT !.sessions[s] = x]
        BY <1>5
    <2>7. server.sessions[s].status # "complete" /\ flows[f].at # "finalize"
        BY <1>1, <1>5
    <2> HIDE DEF x, s
    <2> QED BY <1>1, <1>2, <1>5, <2>5, <2>6, <2>7, WriteKeeps DEF s
  <1>6. CASE /\ Reply(f, IF old.status = "none" THEN "missing" ELSE "conflict")
             /\ UNCHANGED server
    <2>1. PICK code \in {"ok", "conflict", "missing"} :
            Reply(f, code) /\ (flows[f].at = "finalize" /\ code = "ok" => old.status = "complete")
        BY <1>1, <1>6
    <2>2. PICK v : v = flows[f]
        OBVIOUS
    <2>3. Says(v.at, v.op.session, v.history, code)
        BY <1>2, <2>1, <2>2, OtherSays
    <2>4. code \in Answers
        BY <1>3
    <2> QED BY <1>1, <1>2, <1>6, <2>1, <2>2, <2>3, <2>4, AnswerKeeps
  <1> QED BY <1>4, <1>5, <1>6 DEF ServePart

\* The request that ends an upload.
LEMMA FinalizeKeeps ==
    ASSUME HistoryInv, NEW f \in Flows, ServeFinalize(f)
    PROVE  HistoryInv'
  <1> DEFINE s == flows[f].op.session
             old == server.sessions[s]
             x == [old EXCEPT !.status = "complete"]
  <1>1. flows[f].at = "finalize" /\ UNCHANGED <<Local, erased, owed>>
      BY DEF ServeFinalize, Waits, At
  <1>2. flows[f].at \in Requests /\ flows[f].at \in Uploads
      BY <1>1 DEF Requests, Uploads
  <1>3. Refusal(f) \in Answers /\ {"ok", "conflict", "missing"} \subseteq Answers
      BY DEF Refusal, Answers
  <1>4. CASE Refusal(f) # "ok" /\ Reply(f, Refusal(f)) /\ UNCHANGED server
    <2>1. PICK v : v = flows[f]
        OBVIOUS
    <2>2. Says(v.at, v.op.session, v.history, Refusal(f))
        BY <1>2, <1>4, <2>1, RefusalSays
    <2>3. PICK code \in Answers : code = Refusal(f)
        BY <1>3
    <2> QED BY <1>1, <1>2, <1>4, <2>1, <2>2, <2>3, AnswerKeeps
  <1>5. CASE /\ Refusal(f) = "ok" /\ Reply(f, "ok") /\ old.status = "uploading"
             /\ server' = [server EXCEPT !.sessions[s].status = "complete"]
    <2>1. /\ flows[f] \in FlowRecords /\ Fits(flows[f]) /\ server \in ServerRecords
          /\ server.sessions \in [Sessions -> ServerSessions]
        BY ServerFields DEF HistoryInv, Typed, Fitting
    <2>2. s \in Sessions
        BY <1>2, <2>1 DEF Fits, Shaped, Sending, Ops
    <2>4. old \in ServerSessions
        BY <2>1, <2>2
    <2>5. x \in ServerSessions
        BY <2>4 DEF ServerSessions
    <2>6. server' = [server EXCEPT !.sessions[s] = x]
        BY <1>5
    <2>7. server.sessions[s].status # "complete"
        BY <1>5
    <2>8. x.status = "complete"
        BY <2>4 DEF ServerSessions
    <2> HIDE DEF x, s
    <2> QED BY <1>1, <1>2, <1>5, <2>5, <2>6, <2>7, <2>8, WriteKeeps DEF s
  <1>6. CASE /\ Reply(f, CASE old.status = "none" -> "missing"
                           [] old.status = "complete" -> "ok"
                           [] OTHER -> "conflict")
             /\ UNCHANGED server
    <2>1. PICK code \in {"ok", "conflict", "missing"} :
            Reply(f, code) /\ (flows[f].at = "finalize" /\ code = "ok" => old.status = "complete")
        BY <1>1, <1>6
    <2>2. PICK v : v = flows[f]
        OBVIOUS
    <2>3. Says(v.at, v.op.session, v.history, code)
        BY <1>2, <2>1, <2>2, OtherSays
    <2>4. code \in Answers
        BY <1>3
    <2> QED BY <1>1, <1>2, <1>6, <2>1, <2>2, <2>3, <2>4, AnswerKeeps
  <1> QED BY <1>4, <1>5, <1>6 DEF ServeFinalize

\* The request that deletes a session, and leaves its tombstone.
LEMMA ServeDeleteKeeps ==
    ASSUME HistoryInv, NEW f \in Flows, ServeDelete(f)
    PROVE  HistoryInv'
  <1>1. /\ Typed /\ OnServer /\ Fits(flows[f]) /\ server \in ServerRecords /\ erased \subseteq Sessions
        /\ server.sessions \in [Sessions -> ServerSessions]
      BY ServerFields DEF HistoryInv, Typed, Fitting, Ghosts
  <1>2. PICK s : s = flows[f].op.session
      OBVIOUS
  <1>3. /\ flows[f].at = "delete"
        /\ server' = [server EXCEPT !.sessions[s] = NoSession, !.tombs = @ \cup {s}]
        /\ erased' = erased \cup {s} /\ Reply(f, "ok") /\ UNCHANGED <<Local, owed>>
      BY <1>2 DEF ServeDelete, Waits, At
  <1>4. s \in Sessions
      BY <1>1, <1>2, <1>3 DEF Fits, Shaped, Sending, Ops
  <1>5. PICK between : between = Written(server, s, NoSession)
      OBVIOUS
  <1>6. /\ between \in ServerRecords /\ between.epoch = server.epoch /\ between.tombs = server.tombs
        /\ between.sessions[s] = NoSession
        /\ \A y \in Sessions \ {s} : between.sessions[y] = server.sessions[y]
    <2>1. server \in ServerRecords
        BY <1>1
    <2> QED BY <1>4, <1>5, <2>1, SessionWritten, NoSessionType
  <1>7. server' = [between EXCEPT !.tombs = server.tombs \cup {s}]
    <2>1. between = [server EXCEPT !.sessions[s] = NoSession]
        BY <1>5 DEF Written
    <2> QED BY <1>1, <1>3, <2>1 DEF ServerRecords
  <1>8. server.tombs \subseteq Sessions
      BY <1>1, ServerFields
  <1>9. /\ server' \in ServerRecords /\ server'.epoch = server.epoch
        /\ server'.tombs = server.tombs \cup {s} /\ server'.sessions = between.sessions
      BY <1>4, <1>6, <1>7, <1>8 DEF ServerRecords
  <1>10. \A y \in Sessions : server'.sessions[y].status # "none" => Left(y) /\ y \notin erased'
      BY <1>1, <1>3, <1>6, <1>9, NoSessionType DEF OnServer
  <1>11. UNCHANGED <<device, tabs, deleted, queued, owed>>
      BY <1>3 DEF Local
  <1>12. \A y : Used(y)' <=> Used(y)
      BY <1>11 DEF Used, device
  <1>13. "ok" \in Answers /\ flows[f].at \in Requests
      BY <1>3 DEF Answers, Requests
  <1>14. flows' \in [Flows -> FlowRecords] /\ \A g \in Flows : Goes(g)
    <2>1. PICK v : v = flows[f]
        OBVIOUS
    <2>2. Says(v.at, v.op.session, v.history, "ok")'
        BY <1>2, <1>3, <1>9, <2>1 DEF Says
    <2> QED BY <1>3, <1>12, <1>13, <2>1, <2>2, ReplyGoes
  <1>15. Lasting
    <2>1. server.epoch <= server'.epoch /\ server.tombs \subseteq server'.tombs
        BY <1>1, <1>9, ServerFields
    <2>2. \A y \in Sessions : server.sessions[y].status = "complete" =>
            server'.sessions[y].status = "complete" \/ y \in server'.tombs
        BY <1>6, <1>9
    <2> QED BY <2>1, <2>2 DEF Lasting
  <1> QED BY <1>1, <1>3, <1>4, <1>9, <1>10, <1>11, <1>14, <1>15, ServerStep

\* What the deletion of the whole history writes.
LEMMA HistoryDeletedFacts ==
    ASSUME HistoryInv, HistoryDeleted
    PROVE  /\ server' \in ServerRecords /\ server'.epoch = server.epoch + 1
           /\ server'.tombs = server.tombs
           /\ \A s \in Sessions : server'.sessions[s].status = "none"
           /\ erased' = erased \cup {s \in Sessions : server.sessions[s].status # "none"}
           /\ owed' = {}
  <1>1. /\ server \in ServerRecords /\ server.epoch \in 0 .. MaxEpoch /\ MaxEpoch \in Nat
        /\ server.epoch < MaxEpoch
      BY BoundsAssumption, ServerFields DEF HistoryInv, Typed, HistoryDeleted
  <1>2. PICK F : F = [s \in Sessions |-> NoSession]
      OBVIOUS
  <1>3. F \in [Sessions -> ServerSessions] /\ \A s \in Sessions : F[s].status = "none"
      BY <1>2, NoSessionType
  <1>4. server' = [server EXCEPT !.epoch = @ + 1, !.sessions = F]
      BY <1>2 DEF HistoryDeleted
  <1>5. server.epoch + 1 \in 0 .. MaxEpoch
      BY <1>1
  <1>6. PICK n \in 0 .. MaxEpoch : n = server.epoch + 1
      BY <1>5
  <1>7. server' = [server EXCEPT !.epoch = n, !.sessions = F]
      BY <1>1, <1>4, <1>6 DEF ServerRecords
  <1>8. server' \in ServerRecords /\ server'.epoch = n /\ server'.tombs = server.tombs
        /\ server'.sessions = F
      BY <1>1, <1>3, <1>7 DEF ServerRecords
  <1> QED BY <1>3, <1>6, <1>8 DEF HistoryDeleted

\* After it, what was erased is of an older epoch.
LEMMA HistoryDeletedKeeps ==
    ASSUME HistoryInv, HistoryDeleted, UNCHANGED Local,
           flows' \in [Flows -> FlowRecords], \A g \in Flows : Goes(g)
    PROVE  HistoryInv'
  <1>1. /\ server' \in ServerRecords /\ server'.epoch = server.epoch + 1
        /\ server'.tombs = server.tombs
        /\ \A s \in Sessions : server'.sessions[s].status = "none"
        /\ erased' = erased \cup {s \in Sessions : server.sessions[s].status # "none"}
        /\ owed' = {}
      BY HistoryDeletedFacts
  <1>2. OnServer /\ erased \subseteq Sessions /\ server.epoch \in Nat
      BY BoundsAssumption DEF HistoryInv, Typed, Ghosts, ServerRecords
  <1>3. server.epoch < server'.epoch /\ server.epoch <= server'.epoch
      BY <1>1, <1>2
  <1>4. \A s \in erased' : s \in erased \/ s \in server'.tombs \/ (Left(s) /\ server.epoch < server'.epoch)
      BY <1>1, <1>2, <1>3 DEF OnServer
  <1>5. UNCHANGED <<device, tabs, deleted, queued>>
      BY DEF Local
  <1>6. erased' \subseteq Sessions /\ owed' \subseteq owed /\ Lasting
      BY <1>1, <1>2, <1>3 DEF Lasting
  <1> QED BY <1>1, <1>3, <1>4, <1>5, <1>6, ServerStep

\* The deletion of the whole history, asked for by this device,
LEMMA WipeKeeps ==
    ASSUME HistoryInv, NEW f \in Flows, ServeWipe(f)
    PROVE  HistoryInv'
  <1>1. flows[f].at = "wipe" /\ HistoryDeleted /\ Reply(f, "ok") /\ UNCHANGED Local
      BY DEF ServeWipe, Waits, At
  <1>2. \A y : Used(y)' <=> Used(y)
      BY <1>1 DEF Used, device, Local
  <1>3. "ok" \in Answers /\ flows[f].at \in Requests
      BY <1>1 DEF Answers, Requests
  <1>4. flows' \in [Flows -> FlowRecords] /\ \A g \in Flows : Goes(g)
    <2>1. PICK v : v = flows[f]
        OBVIOUS
    <2>2. v.at \notin Sending
        BY <1>1, <2>1 DEF Sending, Uploads
    <2> QED BY <1>1, <1>2, <1>3, <2>1, <2>2, ReplyGoes
  <1> QED BY <1>1, <1>4, HistoryDeletedKeeps

\* The flows go on as they were.
LEMMA FlowsAlone ==
    ASSUME HistoryInv, flows' = flows
    PROVE  flows' \in [Flows -> FlowRecords] /\ \A g \in Flows : Goes(g)
    BY DEF HistoryInv, Typed, Goes, Eased

\* and by another.
LEMMA OtherKeeps ==
    ASSUME HistoryInv, OtherDeletesHistory
    PROVE  HistoryInv'
  <1>1. HistoryDeleted /\ UNCHANGED Local /\ flows' = flows
      BY DEF OtherDeletesHistory
  <1> QED BY <1>1, FlowsAlone, HistoryDeletedKeeps

\* The clean-up of an unfinished upload.
LEMMA ExpireKeeps ==
    ASSUME HistoryInv, NEW s \in Sessions, Expire(s)
    PROVE  HistoryInv'
  <1>1. /\ server' = [server EXCEPT !.sessions[s] = NoSession] /\ flows' = flows
        /\ UNCHANGED <<device, tabs, deleted, queued, erased, owed>>
      BY DEF Expire, Local
  <1>2. OnServer /\ server \in ServerRecords /\ erased \subseteq Sessions
      BY DEF HistoryInv, Typed, Ghosts
  <1>3. /\ server' \in ServerRecords /\ server'.epoch = server.epoch /\ server'.tombs = server.tombs
        /\ server'.sessions[s] = NoSession
        /\ \A y \in Sessions \ {s} : server'.sessions[y] = server.sessions[y]
    <2>1. PICK w : w = server'
        OBVIOUS
    <2>2. w = Written(server, s, NoSession)
        BY <1>1, <2>1 DEF Written
    <2>4. server \in ServerRecords
        BY <1>2
    <2>3. /\ w \in ServerRecords /\ w.epoch = server.epoch /\ w.tombs = server.tombs
          /\ w.sessions[s] = NoSession
          /\ \A y \in Sessions \ {s} : w.sessions[y] = server.sessions[y]
        BY <2>2, <2>4, SessionWritten, NoSessionType
    <2> QED BY <2>1, <2>3
  <1>7. erased' = erased
      BY <1>1
  <1>4. \A y \in Sessions : server'.sessions[y].status # "none" => Left(y) /\ y \notin erased'
      BY <1>2, <1>3, <1>7, NoSessionType DEF OnServer
  <1>5. flows' \in [Flows -> FlowRecords] /\ \A g \in Flows : Goes(g)
      BY <1>1, FlowsAlone
  <1>6. Lasting
    <2>1. server.epoch <= server'.epoch /\ server.tombs \subseteq server'.tombs
        BY <1>2, <1>3, ServerFields
    <2>2. server.sessions[s].status # "complete"
        BY DEF Expire
    <2> QED BY <1>3, <2>1, <2>2 DEF Lasting
  <1> QED BY <1>1, <1>2, <1>3, <1>4, <1>5, <1>6, ServerStep

-----------------------------------------------------------------------------
(* The invariant *)

\* The invariant holds at the start.
LEMMA HistoryInit ==
    ASSUME Init
    PROVE  HistoryInv
  <1>0. /\ 0 \in 0 .. MaxEpoch /\ 0 \in 0 .. MaxQueued /\ "none" \in RowStates
        /\ 0 \in Nat /\ "none" # "recording"
      BY BoundsAssumption DEF RowStates
  <1>1. /\ rows = [s \in Sessions |-> "none"] /\ series = {} /\ notes = {}
        /\ outbox = {} /\ generation = 0
        /\ tabs = [t \in Tabs |-> Opened]
        /\ flows = [f \in Flows |-> Idle]
        /\ server = [epoch |-> 0, sessions |-> [s \in Sessions |-> NoSession], tombs |-> {}]
        /\ deleted = {} /\ erased = {} /\ queued = 0 /\ owed = {}
      BY DEF Init
  <1>2. /\ server \in ServerRecords /\ server.epoch = 0
        /\ \A s \in Sessions : server.sessions[s].status = "none"
      BY <1>0, <1>1, NoSessionType DEF ServerRecords
  <1>3. Idle \in FlowRecords
    <2>1. None \in Answers /\ "idle" \in Stages /\ 0 \in 0 .. Parts /\ NoOp \in Ops \cup {NoOp}
        BY BoundsAssumption DEF Answers, Stages
    <2> QED BY <1>0, <2>1 DEF Idle, FlowRecords
  <1>4. tabs \in [Tabs -> TabRecords]
      BY <1>1 DEF Opened, TabRecords
  <1>5. Typed
    <2>1. Device BY <1>0, <1>1 DEF Device
    <2>2. Ghosts BY <1>0, <1>1 DEF Ghosts
    <2> QED BY <1>1, <1>2, <1>3, <1>4, <2>1, <2>2 DEF Typed
  <1>6. Owners
    <2>1. \A t \in Tabs : tabs[t] = Opened BY <1>1
    <2>2. Opened.owner = None BY DEF Opened
    <2> QED BY <2>1, <2>2 DEF Owners, Owned
  <1>7. Fits(Idle) /\ Idle.at = "idle"
      BY <1>5, IdleFits
  <1>8. Fitting /\ Apart
      BY <1>1, <1>7 DEF Fitting, Apart, Recording, Recorders
  <1>9. Growing /\ SeriesStaysGone /\ Waiting
      BY <1>1 DEF Growing, SeriesStaysGone, Waiting
  <1>10. OnServer
      BY <1>1, <1>2 DEF OnServer
  <1> QED BY <1>5, <1>6, <1>8, <1>9, <1>10 DEF HistoryInv

\* Every step keeps the invariant, one lemma for each action.
LEMMA HistoryNext ==
    ASSUME HistoryInv, [Next]_vars
    PROVE  HistoryInv'
  <1>1. ASSUME NEW f \in Flows, Record(f) PROVE HistoryInv'
      BY <1>1, RefusedKeeps, BeginKeeps, FlushKeeps, AppendKeeps, FinishKeeps, DiscardKeeps,
         PutEventsKeeps, CloseKeeps DEF Record
  <1>2. ASSUME NEW f \in Flows, Sync(f) PROVE HistoryInv'
      BY <1>2, EnqueueKeeps, NextKeeps, ContinueKeeps, SettleKeeps, DiscardedKeeps, WipedKeeps DEF Sync
  <1>3. ASSUME NEW f \in Flows, Serve(f) PROVE HistoryInv'
      BY <1>3, CreateKeeps, PartKeeps, FinalizeKeeps, ServeDeleteKeeps, WipeKeeps DEF Serve
  <1>4. ASSUME NEW f \in Flows, Lose(f) \/ RestoreInterrupted(f) PROVE HistoryInv'
      BY <1>4, LoseKeeps, RestoreKeeps
  <1>5. ASSUME NEW f \in Flows, NEW t \in Tabs, Resolve(f, t) \/ DeleteAll(f, t) \/ SyncAgain(f, t)
        PROVE  HistoryInv'
      BY <1>5, ResolveKeeps, DeleteAllKeeps, SyncAgainKeeps
  <1>6. ASSUME NEW f \in Flows, NEW t \in Tabs, NEW s \in Sessions, Start(f, t, s) \/ Delete(f, t, s)
        PROVE  HistoryInv'
      BY <1>6, StartKeeps, DeleteKeeps
  <1>7. ASSUME NEW t \in Tabs, Leave(t) \/ SignOut(t) \/ Reopen(t) PROVE HistoryInv'
      BY <1>7, LeaveKeeps, SignOutKeeps, ReopenKeeps
  <1>8. ASSUME NEW s \in Sessions, Expire(s) PROVE HistoryInv'
      BY <1>8, ExpireKeeps
  <1>9. CASE OtherDeletesHistory
      BY <1>9, OtherKeeps
  <1>10. CASE UNCHANGED vars
    <2>1. UNCHANGED <<device, server, ghosts>> /\ tabs' = tabs /\ flows' = flows
        BY <1>10 DEF vars
    <2> QED BY <2>1, FlowsAlone, TabsQuiet
  <1> QED BY <1>1, <1>2, <1>3, <1>4, <1>5, <1>6, <1>7, <1>8, <1>9, <1>10 DEF Next

\* Types, owners, recorders and operations stay as the code means them to be,
\* for every number of tabs, flows, sessions, parts and epochs.
THEOREM HistoryInvariant == Spec => []HistoryInv
  <1>1. Init => HistoryInv
      BY HistoryInit
  <1>2. HistoryInv /\ [Next]_vars => HistoryInv'
      BY HistoryNext
  <1> QED BY <1>1, <1>2, PTL DEF Spec

\* No series of a session the user deleted is on the device again: appendChunk
\* reads the row in the transaction of its write, and a row that still grows was
\* never deleted.
THEOREM SeriesOfDeletedStaysGone == Spec => []SeriesStaysGone
  <1>1. HistoryInv => SeriesStaysGone
      BY DEF HistoryInv
  <1> QED BY <1>1, HistoryInvariant, PTL

\* What the server deleted for the user never comes back to the account: a request
\* from before meets the session's tombstone or a newer epoch.
THEOREM DeletedForEver == Spec => []ServerForgets
  <1>1. HistoryInv => ServerForgets
      BY DEF HistoryInv, OnServer, ServerForgets, Typed, Ghosts
  <1> QED BY <1>1, HistoryInvariant, PTL

-----------------------------------------------------------------------------
(* What the account shows is whole *)

Whole(x) == x.status = "complete" => x.parts = 0 .. x.expects - 1

\* One session of the server is replaced, whatever the record is.
LEMMA SessionReplaced ==
    ASSUME NEW v \in ServerRecords, NEW s \in Sessions, NEW x, NEW w, w = Written(v, s, x)
    PROVE  /\ w.epoch = v.epoch /\ w.tombs = v.tombs /\ w.sessions[s] = x
           /\ \A y \in Sessions \ {s} : w.sessions[y] = v.sessions[y]
  <1>1. v.sessions \in [Sessions -> ServerSessions]
      BY ServerFields
  <1>2. PICK F : F = [v.sessions EXCEPT ![s] = x]
      OBVIOUS
  <1>3. F[s] = x /\ \A y \in Sessions \ {s} : F[y] = v.sessions[y]
      BY <1>1, <1>2
  <1>4. w = [v EXCEPT !.sessions = F]
      BY <1>2 DEF Written
  <1>5. w.epoch = v.epoch /\ w.tombs = v.tombs /\ w.sessions = F
      BY <1>4 DEF ServerRecords
  <1> QED BY <1>3, <1>5

\* An upload's request replaces its session by a whole record, and never one that is
\* complete, or leaves the server alone.
LEMMA UploadWrites ==
    ASSUME HistoryInv, NEW f \in Flows, ServeCreate(f) \/ ServePart(f) \/ ServeFinalize(f)
    PROVE  \/ server' = server
           \/ \E s \in Sessions : \E x :
                /\ server' = Written(server, s, x) /\ Whole(x)
                /\ server.sessions[s].status # "complete"
  <1>1. PICK s : s = flows[f].op.session
      OBVIOUS
  <1>2. PICK old : old = server.sessions[s]
      OBVIOUS
  <1>3. Fits(flows[f]) /\ server \in ServerRecords /\ server.sessions \in [Sessions -> ServerSessions]
      BY ServerFields DEF HistoryInv, Fitting, Typed
  <1>4. flows[f].at \in Uploads
      BY DEF ServeCreate, ServePart, ServeFinalize, Waits, At, Uploads
  <1>5. s \in Sessions
      BY <1>1, <1>3, <1>4 DEF Fits, Shaped, Sending, Ops
  <1>6. old \in ServerSessions
      BY <1>2, <1>3, <1>5
  <1>7. CASE ServeCreate(f)
    <2>1. PICK x : x = [status |-> "uploading", content |-> flows[f].content, expects |-> flows[f].parts,
                        parts |-> {}]
        OBVIOUS
    <2>2. server' = server \/ (old.status = "none" /\ server' = [server EXCEPT !.sessions[s] = x])
        BY <1>1, <1>2, <1>7, <2>1 DEF ServeCreate
    <2>3. x.status = "uploading"
        BY <2>1
    <2> QED BY <1>2, <1>5, <2>2, <2>3 DEF Whole, Written
  <1>8. CASE ServePart(f)
    <2>1. PICK x : x = [old EXCEPT !.parts = @ \cup {flows[f].sent}]
        OBVIOUS
    <2>2. \/ server' = server
          \/ /\ old.status = "uploading"
             /\ server' = [server EXCEPT !.sessions[s].parts = @ \cup {flows[f].sent}]
        BY <1>1, <1>2, <1>8 DEF ServePart
    <2>3. server' = server \/ (old.status = "uploading" /\ server' = [server EXCEPT !.sessions[s] = x])
        BY <1>2, <2>1, <2>2
    <2>4. x.status = old.status
        BY <1>6, <2>1 DEF ServerSessions
    <2> QED BY <1>2, <1>5, <2>3, <2>4 DEF Whole, Written
  <1>9. CASE ServeFinalize(f)
    <2>1. PICK x : x = [old EXCEPT !.status = "complete"]
        OBVIOUS
    <2>2. \/ server' = server
          \/ /\ old.status = "uploading" /\ AllParts(f, old)
             /\ server' = [server EXCEPT !.sessions[s].status = "complete"]
        BY <1>1, <1>2, <1>9 DEF ServeFinalize
    <2>3. server' = server \/ server' = [server EXCEPT !.sessions[s] = x]
        BY <1>2, <2>1, <2>2
    <2>4. x.parts = old.parts /\ x.expects = old.expects
        BY <1>6, <2>1 DEF ServerSessions
    <2>5. AllParts(f, old) => Whole(x)
        BY <2>4 DEF AllParts, Whole
    <2> QED BY <1>2, <1>5, <2>2, <2>3, <2>5 DEF Written
  <1> QED BY <1>7, <1>8, <1>9

\* The other steps of the server empty sessions.
LEMMA ServerEmpties ==
    ASSUME HistoryInv,
           (\E f \in Flows : ServeDelete(f)) \/ HistoryDeleted \/ (\E s \in Sessions : Expire(s))
    PROVE  \A y \in Sessions :
             server'.sessions[y] = server.sessions[y] \/ server'.sessions[y].status = "none"
  <1>1. Fitting /\ server \in ServerRecords /\ server.sessions \in [Sessions -> ServerSessions]
      BY ServerFields DEF HistoryInv, Typed
  <1>2. ASSUME NEW f \in Flows, ServeDelete(f)
        PROVE  \A y \in Sessions :
                 server'.sessions[y] = server.sessions[y] \/ server'.sessions[y].status = "none"
    <2>1. PICK s : s = flows[f].op.session
        OBVIOUS
    <2>2. /\ flows[f].at = "delete"
          /\ server' = [server EXCEPT !.sessions[s] = NoSession, !.tombs = @ \cup {s}]
        BY <1>2, <2>1 DEF ServeDelete, Waits, At
    <2>3. PICK between : between = Written(server, s, NoSession)
        OBVIOUS
    <2>4. s \in Sessions
        BY <1>1, <2>1, <2>2 DEF Fitting, Fits, Shaped, Sending, Ops
    <2>5. /\ between.sessions[s] = NoSession
          /\ \A y \in Sessions \ {s} : between.sessions[y] = server.sessions[y]
        BY <1>1, <2>3, <2>4, SessionReplaced
    <2>6. between = [server EXCEPT !.sessions[s] = NoSession]
        BY <2>3 DEF Written
    <2>7. server'.sessions = between.sessions
        BY <1>1, <2>2, <2>6 DEF ServerRecords
    <2> QED BY <2>5, <2>7, NoSessionType
  <1>3. CASE HistoryDeleted
      BY <1>3, HistoryDeletedFacts
  <1>4. ASSUME NEW s \in Sessions, Expire(s)
        PROVE  \A y \in Sessions :
                 server'.sessions[y] = server.sessions[y] \/ server'.sessions[y].status = "none"
    <2>1. PICK w : w = server'
        OBVIOUS
    <2>2. w = Written(server, s, NoSession)
        BY <1>4, <2>1 DEF Expire, Written
    <2>3. /\ w.sessions[s] = NoSession
          /\ \A y \in Sessions \ {s} : w.sessions[y] = server.sessions[y]
        BY <1>1, <2>2, SessionReplaced
    <2> QED BY <2>1, <2>3, NoSessionType
  <1> QED BY <1>2, <1>3, <1>4

\* The actions of a device, which the server does not see.
Aside ==
    \/ \E f \in Flows : \/ Record(f) \/ Sync(f) \/ Lose(f) \/ RestoreInterrupted(f)
                        \/ \E t \in Tabs : \/ Resolve(f, t) \/ DeleteAll(f, t) \/ SyncAgain(f, t)
                                           \/ \E s \in Sessions : Start(f, t, s) \/ Delete(f, t, s)
    \/ \E t \in Tabs : Leave(t) \/ SignOut(t) \/ Reopen(t)

\* None of them writes the server.
LEMMA AsideLeavesServer ==
    ASSUME Aside
    PROVE  server' = server
  <1>1. ASSUME NEW f \in Flows, Record(f) PROVE server' = server
      BY <1>1 DEF Record, Refused, Begin, FlushChunk, AppendChunk, Finish, Discard, PutEvents, Close, Erase
  <1>2. ASSUME NEW f \in Flows, Sync(f) PROVE server' = server
      BY <1>2 DEF Sync, Enqueue, NextOperation, Continue, Settle, Discarded, Wiped
  <1>3. ASSUME NEW f \in Flows, Lose(f) \/ RestoreInterrupted(f) PROVE server' = server
      BY <1>3 DEF Lose, RestoreInterrupted
  <1>4. ASSUME NEW f \in Flows, NEW t \in Tabs, Resolve(f, t) \/ DeleteAll(f, t) \/ SyncAgain(f, t)
        PROVE  server' = server
      BY <1>4 DEF Resolve, DeleteAll, SyncAgain
  <1>5. ASSUME NEW f \in Flows, NEW t \in Tabs, NEW s \in Sessions, Start(f, t, s) \/ Delete(f, t, s)
        PROVE  server' = server
      BY <1>5 DEF Start, Delete, Erase
  <1>6. ASSUME NEW t \in Tabs, Leave(t) \/ SignOut(t) \/ Reopen(t) PROVE server' = server
      BY <1>6 DEF Leave, SignOut, Reopen
  <1> QED BY <1>1, <1>2, <1>3, <1>4, <1>5, <1>6 DEF Aside

\* A step is one of the device's, one of the server's, or none.
LEMMA StepKinds ==
    ASSUME [Next]_vars
    PROVE  \/ Aside
           \/ \E f \in Flows : ServeCreate(f) \/ ServePart(f) \/ ServeFinalize(f)
           \/ \E f \in Flows : ServeDelete(f)
           \/ HistoryDeleted
           \/ \E s \in Sessions : Expire(s)
           \/ UNCHANGED vars
    BY DEF Next, Aside, Serve, ServeWipe, OtherDeletesHistory

\* A summary becomes complete only when it has all parts.
LEMMA WholeNext ==
    ASSUME HistoryInv, CompleteIsWhole, [Next]_vars
    PROVE  CompleteIsWhole'
  <1>1. \A s \in Sessions : Whole(server.sessions[s])
      BY DEF CompleteIsWhole, Whole
  <1>2. SUFFICES \A s \in Sessions : server'.sessions[s] = server.sessions[s] \/ Whole(server'.sessions[s])
      BY <1>1 DEF CompleteIsWhole, Whole
  <1>3. CASE server' = server
      BY <1>3
  <1>4. ASSUME NEW f \in Flows, ServeCreate(f) \/ ServePart(f) \/ ServeFinalize(f), server' # server
        PROVE  \A s \in Sessions : server'.sessions[s] = server.sessions[s] \/ Whole(server'.sessions[s])
    <2>5. PICK s \in Sessions : \E x :
             server' = Written(server, s, x) /\ Whole(x) /\ server.sessions[s].status # "complete"
        BY <1>4, UploadWrites
    <2>1. PICK x :
             server' = Written(server, s, x) /\ Whole(x) /\ server.sessions[s].status # "complete"
        BY <2>5
    <2>2. PICK w : w = server'
        OBVIOUS
    <2>3. server \in ServerRecords
        BY DEF HistoryInv, Typed
    <2>4. w.sessions[s] = x /\ \A y \in Sessions \ {s} : w.sessions[y] = server.sessions[y]
        BY <2>1, <2>2, <2>3, SessionReplaced
    <2> QED BY <2>1, <2>2, <2>4
  <1>5. CASE (\E f \in Flows : ServeDelete(f)) \/ HistoryDeleted \/ (\E s \in Sessions : Expire(s))
    <2>1. \A y \in Sessions :
             server'.sessions[y] = server.sessions[y] \/ server'.sessions[y].status = "none"
        BY <1>5, ServerEmpties
    <2> QED BY <2>1 DEF Whole
  <1> QED BY <1>3, <1>4, <1>5, StepKinds, AsideLeavesServer DEF vars

-----------------------------------------------------------------------------
(* What a tab of the present epoch queued *)

\* An operation that is owed is one of the present epoch, which the server has or
\* the outbox keeps.
Owing == \A op \in owed : op.history = server.epoch /\ Kept(op)

\* What the server has stays there, while the epoch is the same.
LEMMA ArrivedStays ==
    ASSUME NEW op \in Ops, Arrived(op), Lasting, server'.epoch = server.epoch,
           server.epoch \in Nat, deleted \subseteq deleted'
    PROVE  Arrived(op)'
  <1>1. op.session \in Sessions
      BY DEF Ops
  <1>2. ~ (server.epoch < server'.epoch)
      OBVIOUS
  <1> QED BY <1>1, <1>2 DEF Arrived, Lasting

\* A step that drops no operation which the server does not have.
LEMMA OwedStays ==
    ASSUME HistoryInv, Owing, Lasting, server'.epoch = server.epoch, deleted \subseteq deleted',
           owed' \subseteq owed,
           \A op \in owed' : op \in outbox => op \in outbox' \/ Arrived(op) \/ Arrived(op)'
    PROVE  Owing'
  <1>1. owed \subseteq Ops /\ server.epoch \in Nat
      BY BoundsAssumption DEF HistoryInv, Typed, Ghosts, ServerRecords
  <1> SUFFICES ASSUME NEW op \in owed' PROVE op.history = server'.epoch /\ Kept(op)'
      BY DEF Owing
  <1>2. op \in Ops /\ op.history = server.epoch /\ Kept(op)
      BY <1>1 DEF Owing
  <1>3. op \in outbox' \/ Arrived(op) \/ Arrived(op)'
      BY <1>2 DEF Kept
  <1>4. Arrived(op) => Arrived(op)'
      BY <1>1, <1>2, ArrivedStays
  <1>5. op \in outbox' \/ Arrived(op)'
      BY <1>3, <1>4
  <1>6. Kept(op)'
      BY <1>5 DEF Kept
  <1> QED BY <1>2, <1>6

\* Nothing is lost where the server is left alone.
LEMMA SameServerLasts ==
    ASSUME HistoryInv, server' = server
    PROVE  Lasting /\ server'.epoch = server.epoch
  <1>1. server.epoch \in Nat
      BY BoundsAssumption DEF HistoryInv, Typed, ServerRecords
  <1> QED BY <1>1 DEF Lasting

\* The steps that touch neither the outbox nor what is owed.
LEMMA OwingQuiet ==
    ASSUME HistoryInv, Owing, UNCHANGED <<outbox, owed, deleted, server>>
    PROVE  Owing'
  <1>1. outbox' = outbox /\ owed' = owed /\ deleted' = deleted
      OBVIOUS
  <1> QED BY <1>1, SameServerLasts, OwedStays

\* A deletion on the device removes the uploads of the session it deletes.
LEMMA OwingErase ==
    ASSUME HistoryInv, Owing, NEW s \in Sessions, Erase(s)
    PROVE  Owing'
  <1>1. /\ outbox' = {op \in outbox : op.session # s \/ op.type = "delete"}
        /\ deleted' = deleted \cup {s} /\ owed' = owed /\ server' = server
      BY DEF Erase
  <1>2. owed \subseteq Ops
      BY DEF HistoryInv, Typed, Ghosts
  <1>3. ASSUME NEW op \in owed', op \in outbox, op \notin outbox' PROVE Arrived(op)'
    <2>1. op.session = s /\ op.type # "delete" /\ op \in Ops
        BY <1>1, <1>2, <1>3
    <2>2. op.type = "upload"
        BY <2>1 DEF Ops
    <2>3. op.session \in deleted'
        BY <1>1, <2>1
    <2> QED BY <2>2, <2>3 DEF Arrived
  <1> QED BY <1>1, <1>3, SameServerLasts, OwedStays

\* A discarded recording.
LEMMA OwingDiscard ==
    ASSUME HistoryInv, Owing, NEW f \in Flows, Discard(f)
    PROVE  Owing'
  <1>1. CASE Erase(flows[f].session)
    <2>1. Fits(flows[f]) /\ flows[f].at \in Recorders
        BY DEF HistoryInv, Fitting, Discard, Recorders
    <2>2. flows[f].session \in Sessions
        BY <2>1 DEF Fits, Shaped
    <2> QED BY <1>1, <2>2, OwingErase
  <1>2. CASE UNCHANGED <<device, server, ghosts>>
      BY <1>2, OwingQuiet DEF device, ghosts
  <1> QED BY <1>1, <1>2 DEF Discard

\* Deleting all on the device excuses what the outbox held.
LEMMA OwingDeleteAll ==
    ASSUME HistoryInv, Owing, NEW f \in Flows, NEW t \in Tabs, DeleteAll(f, t)
    PROVE  Owing'
  <1>1. owed' = owed \ outbox /\ server' = server /\ deleted \subseteq deleted'
      BY DEF DeleteAll
  <1> QED BY <1>1, SameServerLasts, OwedStays

\* What is queued in the present epoch is owed, and in the outbox.
LEMMA OwingEnqueue ==
    ASSUME HistoryInv, Owing, NEW f \in Flows, Enqueue(f)
    PROVE  Owing'
  <1>1. CASE UNCHANGED <<outbox, queued, owed>>
      BY <1>1, OwingQuiet DEF Enqueue
  <1>2. ASSUME NEW type \in {"upload", "delete"}, Put(f, type) PROVE Owing'
    <2>1. PICK op : op = NewOp(f, type)
        OBVIOUS
    <2>2. /\ op \in Ops /\ outbox' = outbox \cup {op} /\ op.history = flows[f].history
          /\ owed' = IF flows[f].history = server.epoch THEN owed \cup {op} ELSE owed
        BY <1>2, <2>1, PutFacts DEF Enqueue
    <2>3. server' = server /\ deleted' = deleted
        BY DEF Enqueue
    <2>4. \A p \in owed : p.history = server.epoch /\ (p \in outbox \/ Arrived(p))
        BY DEF Owing, Kept
    <2>5. \A p \in Ops : Arrived(p) => Arrived(p)'
        BY <2>3 DEF Arrived
    <2>6. owed \subseteq Ops
        BY DEF HistoryInv, Typed, Ghosts
    <2>7. ASSUME NEW p \in owed' PROVE p.history = server'.epoch /\ (p \in outbox' \/ Arrived(p)')
      <3>1. CASE p \in owed
          BY <2>2, <2>3, <2>4, <2>5, <2>6, <3>1
      <3>2. CASE p \notin owed
        <4>1. p = op /\ flows[f].history = server.epoch
            BY <2>2, <3>2
        <4> QED BY <2>2, <2>3, <4>1
      <3> QED BY <3>1, <3>2
    <2> QED BY <2>7 DEF Owing, Kept
  <1> QED BY <1>1, <1>2 DEF Enqueue

\* A sync drops an operation of another epoch, or one whose session the device no
\* longer has: the user deleted it.
LEMMA OwingNext ==
    ASSUME HistoryInv, Owing, NEW f \in Flows, NextOperation(f)
    PROVE  Owing'
  <1>1. server' = server /\ deleted' = deleted
      BY DEF NextOperation
  <1>2. CASE UNCHANGED <<outbox, owed>>
      BY <1>1, <1>2, OwingQuiet
  <1>3. ASSUME NEW op \in flows[f].todo, Take(f, op), owed' = owed \ {op} PROVE Owing'
    <2>1. outbox' = outbox \ {op}
        BY <1>3 DEF Take
    <2> QED BY <1>1, <1>3, <2>1, SameServerLasts, OwedStays
  <1>4. ASSUME NEW op \in flows[f].todo, Take(f, op), owed' = owed,
               op.type = "upload", rows[op.session] = "none"
        PROVE  Owing'
    <2>1. outbox' = outbox \ {op}
        BY <1>4 DEF Take
    <2>2. Fits(flows[f])
        BY DEF HistoryInv, Fitting
    <2>3. Queued(op)
        BY <2>2 DEF Fits
    <2>4. op.session \in deleted
        BY <1>4, <2>3 DEF Queued, Left, Used
    <2>5. Arrived(op)
        BY <1>4, <2>4 DEF Arrived
    <2> QED BY <1>1, <1>4, <2>1, <2>5, SameServerLasts, OwedStays
  <1> QED BY <1>2, <1>3, <1>4 DEF NextOperation

\* An operation leaves the outbox after an answer that says the server has it, knows
\* that it is deleted, or is of a newer epoch.
LEMMA OwingSettle ==
    ASSUME HistoryInv, Owing, NEW f \in Flows, Settle(f)
    PROVE  Owing'
  <1>1. PICK v : v = flows[f]
      OBVIOUS
  <1>2. PICK op : op = v.op
      OBVIOUS
  <1>3. /\ server' = server /\ deleted' = deleted /\ Fits(v) /\ v.at \in Sending /\ v.answer # None
        /\ v \in FlowRecords /\ server.epoch \in Nat
      BY <1>1, BoundsAssumption
      DEF Settle, Sent, Sending, Uploads, HistoryInv, Fitting, Typed, ServerRecords
  <1>4. CASE outbox' = outbox \cup {op} /\ UNCHANGED owed
      BY <1>3, <1>4, SameServerLasts, OwedStays
  <1>5. CASE /\ Final(f) /\ outbox' = outbox \ {op}
             /\ owed' = IF flows[f].answer = "missing" THEN owed \ {op} ELSE owed
    <2>1. CASE v.answer = "missing"
        BY <1>1, <1>3, <1>5, <2>1, SameServerLasts, OwedStays
    <2>2. CASE v.answer # "missing"
      <3>1. owed' = owed
          BY <1>1, <1>5, <2>2
      <3>2. Says(v.at, op.session, v.history, v.answer) /\ op.history = v.history
            /\ (v.at \in Uploads => op.type = "upload")
          BY <1>2, <1>3 DEF Fits, Answered, Shaped
      <3>3. v.answer \in {"gone", "epoch"} \/ (v.answer = "ok" /\ v.at \in {"finalize", "delete"})
          BY <1>1, <1>3, <1>5, <2>2 DEF Final, Following, Sending, Uploads
      <3>4. Arrived(op) \/ v.history < server.epoch
          BY <3>2, <3>3 DEF Says, Arrived, Uploads
      <3>5. v.history < server.epoch => op \notin owed
        <4>1. v.history \in Nat
            BY <1>3, FlowFields, BoundsAssumption
        <4> QED BY <1>3, <3>2, <4>1 DEF Owing
      <3> QED BY <1>3, <1>5, <3>1, <3>4, <3>5, SameServerLasts, OwedStays
    <2> QED BY <2>1, <2>2
  <1> QED BY <1>1, <1>2, <1>4, <1>5 DEF Settle

\* A request writes a session that is not complete.
LEMMA OwingServe ==
    ASSUME HistoryInv, Owing, UNCHANGED <<outbox, deleted, owed>>, server'.epoch = server.epoch, Lasting
    PROVE  Owing'
  <1>1. outbox' = outbox /\ owed' = owed /\ deleted' = deleted
      OBVIOUS
  <1> QED BY <1>1, OwedStays

\* No write of the server takes a complete session or a tombstone back.
LEMMA WrittenLasts ==
    ASSUME HistoryInv, NEW s \in Sessions, NEW x, server' = Written(server, s, x),
           server.sessions[s].status # "complete"
    PROVE  server'.epoch = server.epoch /\ Lasting
  <1>1. PICK w : w = server'
      OBVIOUS
  <1>2. server \in ServerRecords /\ server.epoch \in Nat
      BY BoundsAssumption DEF HistoryInv, Typed, ServerRecords
  <1>3. /\ w.epoch = server.epoch /\ w.tombs = server.tombs
        /\ \A y \in Sessions \ {s} : w.sessions[y] = server.sessions[y]
      BY <1>1, <1>2, SessionReplaced
  <1> QED BY <1>1, <1>2, <1>3 DEF Lasting

\* The requests of an upload.
LEMMA OwingUpload ==
    ASSUME HistoryInv, Owing, NEW f \in Flows, ServeCreate(f) \/ ServePart(f) \/ ServeFinalize(f)
    PROVE  Owing'
  <1>1. UNCHANGED <<outbox, deleted, owed>>
      BY DEF ServeCreate, ServePart, ServeFinalize, Local, device
  <1>2. CASE server' = server
      BY <1>1, <1>2, OwingQuiet
  <1>3. ASSUME NEW s \in Sessions, NEW x, server' = Written(server, s, x),
               server.sessions[s].status # "complete"
        PROVE  Owing'
      BY <1>1, <1>3, WrittenLasts, OwingServe
  <1> QED BY <1>2, <1>3, UploadWrites

\* The clean-up removes no complete session.
LEMMA OwingExpire ==
    ASSUME HistoryInv, Owing, NEW s \in Sessions, Expire(s)
    PROVE  Owing'
  <1>1. /\ server' = [server EXCEPT !.sessions[s] = NoSession] /\ server.sessions[s].status # "complete"
        /\ UNCHANGED <<outbox, deleted, owed>>
      BY DEF Expire, Local, device
  <1>2. server' = Written(server, s, NoSession)
      BY <1>1 DEF Written
  <1> QED BY <1>1, <1>2, WrittenLasts, OwingServe

\* The deletion of a session leaves its tombstone.
LEMMA OwingServeDelete ==
    ASSUME HistoryInv, Owing, NEW f \in Flows, ServeDelete(f)
    PROVE  Owing'
  <1>1. PICK s : s = flows[f].op.session
      OBVIOUS
  <1>2. /\ server' = [server EXCEPT !.sessions[s] = NoSession, !.tombs = @ \cup {s}]
        /\ UNCHANGED <<outbox, deleted, owed>> /\ flows[f].at = "delete"
      BY <1>1 DEF ServeDelete, Local, device, Waits, At
  <1>3. Fits(flows[f]) /\ server \in ServerRecords /\ server.epoch \in Nat
      BY BoundsAssumption DEF HistoryInv, Fitting, Typed, ServerRecords
  <1>4. s \in Sessions
      BY <1>1, <1>2, <1>3 DEF Fits, Shaped, Sending, Ops
  <1>5. PICK between : between = Written(server, s, NoSession)
      OBVIOUS
  <1>6. \A y \in Sessions \ {s} : between.sessions[y] = server.sessions[y]
      BY <1>3, <1>4, <1>5, SessionReplaced
  <1>7. between = [server EXCEPT !.sessions[s] = NoSession]
      BY <1>5 DEF Written
  <1>8. /\ server'.epoch = server.epoch /\ server'.tombs = server.tombs \cup {s}
        /\ server'.sessions = between.sessions
      BY <1>2, <1>3, <1>7 DEF ServerRecords
  <1>9. Lasting
      BY <1>3, <1>6, <1>8 DEF Lasting
  <1> QED BY <1>2, <1>8, <1>9, OwingServe

\* With the whole history, everything owed is excused.
LEMMA OwingHistoryDeleted ==
    ASSUME HistoryDeleted
    PROVE  Owing'
    BY DEF HistoryDeleted, Owing

\* The steps of a device.
LEMMA OwingAside ==
    ASSUME HistoryInv, Owing, Aside
    PROVE  Owing'
  <1>1. ASSUME NEW f \in Flows, Record(f) PROVE Owing'
    <2>1. CASE Discard(f)
        BY <2>1, OwingDiscard
    <2>2. CASE ~ Discard(f)
      <3>1. UNCHANGED <<outbox, owed, deleted, server>>
          BY <1>1, <2>2
          DEF Record, Refused, Begin, FlushChunk, AppendChunk, Finish, PutEvents, Close, device, ghosts
      <3> QED BY <3>1, OwingQuiet
    <2> QED BY <2>1, <2>2
  <1>2. ASSUME NEW f \in Flows, Sync(f) PROVE Owing'
    <2>1. CASE Continue(f) \/ Discarded(f) \/ Wiped(f)
      <3>1. UNCHANGED <<outbox, owed, deleted, server>>
          BY <2>1 DEF Continue, Discarded, Wiped, device, ghosts
      <3> QED BY <3>1, OwingQuiet
    <2> QED BY <1>2, <2>1, OwingEnqueue, OwingNext, OwingSettle DEF Sync
  <1>3. ASSUME NEW f \in Flows, Lose(f) \/ RestoreInterrupted(f) PROVE Owing'
    <2>1. UNCHANGED <<outbox, owed, deleted, server>>
        BY <1>3 DEF Lose, RestoreInterrupted, Local, device, ghosts
    <2> QED BY <2>1, OwingQuiet
  <1>4. ASSUME NEW f \in Flows, NEW t \in Tabs, Resolve(f, t) \/ SyncAgain(f, t) PROVE Owing'
    <2>1. UNCHANGED <<outbox, owed, deleted, server>>
        BY <1>4 DEF Resolve, SyncAgain, device, ghosts
    <2> QED BY <2>1, OwingQuiet
  <1>5. ASSUME NEW f \in Flows, NEW t \in Tabs, NEW s \in Sessions, Start(f, t, s) \/ Delete(f, t, s)
        PROVE  Owing'
    <2>1. CASE Start(f, t, s)
      <3>1. UNCHANGED <<outbox, owed, deleted, server>>
          BY <2>1 DEF Start, device, ghosts
      <3> QED BY <3>1, OwingQuiet
    <2>2. CASE Delete(f, t, s)
        BY <2>2, OwingErase DEF Delete
    <2> QED BY <1>5, <2>1, <2>2
  <1>6. ASSUME NEW t \in Tabs, Leave(t) \/ SignOut(t) \/ Reopen(t) PROVE Owing'
    <2>1. UNCHANGED <<outbox, owed, deleted, server>>
        BY <1>6 DEF Leave, SignOut, Reopen, device, ghosts
    <2> QED BY <2>1, OwingQuiet
  <1> QED BY <1>1, <1>2, <1>3, <1>4, <1>5, <1>6, OwingDeleteAll DEF Aside

\* Every step keeps what is owed.
LEMMA OwingStep ==
    ASSUME HistoryInv, Owing, [Next]_vars
    PROVE  Owing'
  <1>1. CASE UNCHANGED vars
      BY <1>1, OwingQuiet DEF vars, device, ghosts
  <1> QED BY <1>1, StepKinds, OwingAside, OwingUpload, OwingServeDelete, OwingHistoryDeleted, OwingExpire

\* A summary shown in the account has every part its upload announced.
THEOREM SummariesAreWhole == Spec => []CompleteIsWhole
  <1>1. Init => CompleteIsWhole
    <2>1. SUFFICES ASSUME Init PROVE CompleteIsWhole
        OBVIOUS
    <2>2. OnServer /\ \A s \in Sessions : server.sessions[s] = NoSession
        BY <2>1, HistoryInit DEF HistoryInv, Init
    <2> QED BY <2>2, NoSessionType DEF CompleteIsWhole
  <1>2. HistoryInv /\ CompleteIsWhole /\ [Next]_vars => CompleteIsWhole'
      BY WholeNext
  <1> QED BY <1>1, <1>2, HistoryInvariant, PTL DEF Spec

\* What was queued in the present epoch stays in the outbox until the server has it,
\* unless it was deleted or the server dropped the unfinished upload.
THEOREM QueuedIsKept == Spec => []KeptByEqualTabs
  <1>1. Init => Owing
      BY DEF Init, Owing
  <1>2. HistoryInv /\ Owing /\ [Next]_vars => Owing'
      BY OwingStep
  <1>3. Owing => KeptByEqualTabs
      BY DEF Owing, KeptByEqualTabs
  <1> QED BY <1>1, <1>2, <1>3, HistoryInvariant, PTL DEF Spec
=============================================================================
