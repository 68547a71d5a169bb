--------------------------- MODULE SheetScreensProofs ---------------------------
(***************************************************************************)
(* Theorems about the screens of the sheet library: the sync of the list,  *)
(* for any numbers of runs, accounts and changes of the list and of the    *)
(* account; the batches, the forms with a file, the dialog and the viewer, *)
(* for any numbers of everything, as the parts of MCSheetScreens.          *)
(***************************************************************************)
EXTENDS MCSheetScreens, TLAPS

-----------------------------------------------------------------------------
(* What the operators do to the records *)

\* The records that stand in the state at the start.
LEMMA RecordsInit ==
    /\ New \in RunRecord
    /\ [checking |-> None, requestSeq |-> 0, appliedSeq |-> 0, account |-> None] \in SyncRecord
    /\ [version |-> Unknown, moment |-> 0] \in Lists
BY BoundsAssumption DEF New, RunRecord, SyncRecord, Lists, Stages, InFlight, Unknown

\* A reset gives no number twice and passes over the numbers under way.
LEMMA ResetSync ==
    ASSUME NEW s \in SyncRecord, account \in Accounts \cup {None}
    PROVE  /\ Reset(s) \in SyncRecord
           /\ Reset(s).requestSeq = s.requestSeq + 1
           /\ Reset(s).appliedSeq = s.requestSeq + 1
           /\ Reset(s).checking = None
<1>1. None \in Runs \cup {None} /\ s.requestSeq + 1 \in Nat
  BY DEF SyncRecord
<1>2. Reset(s) \in SyncRecord
  BY <1>1 DEF Reset, SyncRecord
<1>3. /\ Reset(s).requestSeq = s.requestSeq + 1
      /\ Reset(s).appliedSeq = s.requestSeq + 1
      /\ Reset(s).checking = None
  BY DEF Reset, SyncRecord
<1> QED
  BY <1>2, <1>3

\* sync of another account starts anew, and its numbers never fall.
LEMMA SyncedSync ==
    ASSUME TypeOK
    PROVE  /\ Synced \in SyncRecord
           /\ Synced.requestSeq >= sync.requestSeq
           /\ Synced.appliedSeq >= sync.appliedSeq
           /\ Synced.appliedSeq <= Synced.requestSeq
           /\ Synced.checking \in {None, sync.checking}
<1>1. sync \in SyncRecord /\ sync.requestSeq \in Nat /\ sync.appliedSeq \in Nat
      /\ sync.appliedSeq <= sync.requestSeq /\ account \in Accounts \cup {None}
  BY DEF TypeOK, SyncRecord
<1>2. CASE sync.account = account
  BY <1>1, <1>2 DEF Synced
<1>3. CASE sync.account # account
  <2>1. Synced = Reset(sync)
    BY <1>3 DEF Synced
  <2> QED
    BY <1>1, <2>1, ResetSync
<1> QED
  BY <1>2, <1>3

\* What is shown now is a list, or none of it.
LEMMA ShownNowList ==
    ASSUME TypeOK
    PROVE  /\ ShownNow \in Lists
           /\ ShownNow.version \in 0 .. MaxMoment
           /\ ShownNow.moment = shown.moment
           /\ [shown EXCEPT !.version = Unknown] \in Lists
           /\ [shown EXCEPT !.version = Unknown].moment = shown.moment
BY BoundsAssumption DEF ShownNow, Lists, Unknown, TypeOK

\* The end of a run only takes it out of checking.
LEMMA EndedSync ==
    ASSUME TypeOK, NEW r, NEW at
    PROVE  /\ Ended(r, at) \in SyncRecord
           /\ Ended(r, at).requestSeq = sync.requestSeq
           /\ Ended(r, at).appliedSeq = sync.appliedSeq
           /\ Ended(r, at).checking \in {None, sync.checking}
           /\ Ended(r, at).checking # r \/ Ended(r, at).checking = None
BY DEF Ended, TypeOK, SyncRecord

\* A run that asks for the list has the next number and the present session.
LEMMA SentList ==
    ASSUME TypeOK, NEW me \in RunRecord, NEW s \in SyncRecord, NEW reset \in BOOLEAN
    PROVE  /\ SendList(me, s, reset) \in RunRecord
           /\ SendList(me, s, reset).at = "list"
           /\ SendList(me, s, reset).seq = s.requestSeq + 1
           /\ SendList(me, s, reset).session = session
           /\ SendList(me, s, reset).began = me.began
           /\ SendList(me, s, reset).since = me.since
<1>1. "list" \in Stages /\ s.requestSeq + 1 \in Nat
  BY DEF Stages, InFlight, SyncRecord
<1>2. account \in Accounts \cup {None} /\ session \in 0 .. MaxSessions
  BY DEF TypeOK
<1> QED
  BY <1>1, <1>2 DEF SendList, RunRecord

\* A run in another stage keeps its number and its session.
LEMMA MovedRun ==
    ASSUME TypeOK, NEW r \in Runs, NEW at \in Stages
    PROVE  LET me == [runs[r] EXCEPT !.at = at]
           IN  /\ me \in RunRecord /\ me.at = at
               /\ me.seq = runs[r].seq /\ me.session = runs[r].session
               /\ me.began = runs[r].began /\ me.since = runs[r].since
               /\ me.reset = runs[r].reset
BY DEF TypeOK, RunRecord

-----------------------------------------------------------------------------
(* The inductive invariant *)

\* A fetch asked for before the last sign-out has a number that was passed over.
PassedOver ==
    \A r \in Runs :
        runs[r].at \in {"list", "listed"} =>
            runs[r].session >= signedOut \/ runs[r].seq < sync.appliedSeq

SyncInv == TypeOK /\ JoinedIsRunning /\ PassedOver

\* The stages of a run that may be in checking.
Running == {"version", "versioned", "list", "listed"}

\* The types of what one run changes, and the two other parts of the invariant.
RunsInv ==
    /\ sync \in SyncRecord /\ sync.appliedSeq <= sync.requestSeq
    /\ runs \in [Runs -> RunRecord] /\ \A r \in Runs : runs[r].seq <= sync.requestSeq
    /\ JoinedIsRunning
    /\ PassedOver

\* What a run may do to itself and to sync without harm to the others: numbers
\* grow, only a running run is in checking, a list is asked for in the present
\* session.
LEMMA RunStep ==
    ASSUME SyncInv, NEW r \in Runs, NEW me \in RunRecord,
           runs' = [runs EXCEPT ![r] = me], sync' \in SyncRecord, signedOut' = signedOut,
           sync'.requestSeq >= sync.requestSeq, sync'.appliedSeq >= sync.appliedSeq,
           sync'.appliedSeq <= sync'.requestSeq, me.seq <= sync'.requestSeq,
           sync'.checking \in {None, sync.checking, r},
           sync'.checking = r => me.at \in Running,
           me.at \in {"list", "listed"} => me.session >= signedOut \/ me.seq < sync'.appliedSeq
    PROVE  RunsInv'
<1>1. /\ runs' \in [Runs -> RunRecord]
      /\ runs'[r] = me
      /\ \A q \in Runs \ {r} : runs'[q] = runs[q]
  BY DEF SyncInv, TypeOK
<1>2. /\ sync.requestSeq \in Nat /\ sync.appliedSeq \in Nat
      /\ sync'.requestSeq \in Nat /\ sync'.appliedSeq \in Nat
      /\ \A q \in Runs : runs[q].seq \in Nat /\ runs[q].seq <= sync.requestSeq
  BY DEF SyncInv, TypeOK, SyncRecord, RunRecord
<1>3. \A q \in Runs : runs'[q].seq <= sync'.requestSeq
  <2> TAKE q \in Runs
  <2>1. CASE q = r
    BY <1>1, <2>1
  <2>2. CASE q # r
    BY <1>1, <1>2, <2>2
  <2> QED
    BY <2>1, <2>2
<1>4. JoinedIsRunning'
  <2> SUFFICES ASSUME sync'.checking # None PROVE runs'[sync'.checking].at \in Running
    BY DEF JoinedIsRunning, Running
  <2>1. CASE sync'.checking = r
    BY <1>1, <2>1
  <2>2. CASE sync'.checking # r
    <3>1. sync'.checking = sync.checking /\ sync.checking \in Runs \ {r}
      BY <2>2 DEF SyncInv, TypeOK, SyncRecord
    <3> QED
      BY <1>1, <3>1 DEF SyncInv, JoinedIsRunning, Running
  <2> QED
    BY <2>1, <2>2
<1>5. PassedOver'
  <2> SUFFICES ASSUME NEW q \in Runs, runs'[q].at \in {"list", "listed"}
               PROVE  runs'[q].session >= signedOut \/ runs'[q].seq < sync'.appliedSeq
    BY DEF PassedOver
  <2>1. CASE q = r
    BY <1>1, <2>1
  <2>2. CASE q # r
    <3>1. runs[q].session >= signedOut \/ runs[q].seq < sync.appliedSeq
      BY <1>1, <2>2 DEF SyncInv, PassedOver
    <3> QED
      BY <1>1, <1>2, <2>2, <3>1
  <2> QED
    BY <2>1, <2>2
<1> QED
  BY <1>1, <1>3, <1>4, <1>5 DEF RunsInv

\* End is such a step.
LEMMA EndStep ==
    ASSUME SyncInv, NEW r \in Runs, NEW at \in {"ok", "notok"}, End(r, at),
           signedOut' = signedOut
    PROVE  RunsInv'
<1>1. TypeOK /\ at \in Stages
  BY DEF SyncInv, Stages
<1> DEFINE me == [runs[r] EXCEPT !.at = at]
<1>2. me \in RunRecord /\ me.at = at /\ me.seq = runs[r].seq
  BY <1>1, MovedRun
<1>3. runs' = [runs EXCEPT ![r] = me]
  BY DEF End
<1>4. /\ sync' \in SyncRecord /\ sync'.requestSeq = sync.requestSeq
      /\ sync'.appliedSeq = sync.appliedSeq /\ sync'.checking \in {None, sync.checking}
      /\ sync'.checking # r \/ sync'.checking = None
  BY <1>1, EndedSync DEF End
<1>5. None # r
  BY NoneAssumption
<1>6. /\ sync.requestSeq \in Nat /\ sync.appliedSeq \in Nat
      /\ sync.appliedSeq <= sync.requestSeq /\ runs[r].seq <= sync.requestSeq
  BY <1>1 DEF TypeOK, SyncRecord
<1>7. /\ sync'.requestSeq >= sync.requestSeq /\ sync'.appliedSeq >= sync.appliedSeq
      /\ sync'.appliedSeq <= sync'.requestSeq /\ me.seq <= sync'.requestSeq
  BY <1>2, <1>4, <1>6
<1>8. sync'.checking # r /\ ~ me.at \in {"list", "listed"}
  BY <1>2, <1>4, <1>5
<1> HIDE DEF me
<1> QED
  BY <1>2, <1>3, <1>4, <1>7, <1>8, RunStep

\* The invariant at the start.
LEMMA SyncInit == Init => SyncInv
<1> SUFFICES ASSUME Init PROVE SyncInv
  OBVIOUS
<1>1. TypeOK
  <2>1. \A r \in Runs : runs[r].seq = 0
    BY DEF Init, New
  <2> QED
    BY <2>1, RecordsInit, BoundsAssumption DEF Init, TypeOK
<1>2. JoinedIsRunning /\ PassedOver
  BY DEF Init, New, JoinedIsRunning, PassedOver
<1> QED
  BY <1>1, <1>2 DEF SyncInv

\* A reset alone, when the sign-in is over (clearPortalAuthState).
LEMMA SignOutStep == SyncInv /\ SignOut => SyncInv'
<1> SUFFICES ASSUME SyncInv, SignOut PROVE SyncInv'
  OBVIOUS
<1> USE DEF SyncInv
<1>1. /\ account' = None /\ session' = session + 1 /\ signedOut' = session'
      /\ session < MaxSessions /\ sync' = Reset(sync) /\ runs' = runs
      /\ shown' = [shown EXCEPT !.version = Unknown]
      /\ UNCHANGED <<version, moment, restores>>
  BY DEF SignOut, server
<1>2. /\ sync' \in SyncRecord /\ sync'.requestSeq = sync.requestSeq + 1
      /\ sync'.appliedSeq = sync.requestSeq + 1 /\ sync'.checking = None
  BY <1>1, ResetSync DEF TypeOK
<1>3. /\ sync.requestSeq \in Nat
      /\ \A r \in Runs : runs[r].seq \in Nat /\ runs[r].seq <= sync.requestSeq
  BY DEF TypeOK, SyncRecord, RunRecord
<1>4. \A r \in Runs : runs'[r].seq < sync'.appliedSeq /\ runs'[r].seq <= sync'.requestSeq
  BY <1>1, <1>2, <1>3
<1>5. shown' \in Lists
  BY <1>1, ShownNowList
<1>6. TypeOK'
  <2>1. session' \in 0 .. MaxSessions /\ signedOut' \in 0 .. session'
    BY <1>1, BoundsAssumption DEF TypeOK
  <2> QED
    BY <1>1, <1>2, <1>3, <1>4, <1>5, <2>1 DEF TypeOK
<1> QED
  BY <1>2, <1>4, <1>6 DEF JoinedIsRunning, PassedOver

\* Another account at the screen, or none after logoutPortal.
LEMMA BecomeStep ==
    ASSUME SyncInv, Logout \/ \E a \in Accounts : Become(a)
    PROVE  SyncInv'
<1>1. /\ account' \in Accounts \cup {None} /\ session' = session + 1 /\ session < MaxSessions
      /\ UNCHANGED <<version, moment, restores, signedOut, sync, shown, runs>>
  BY DEF Become, Logout, server
<1>2. session' \in 0 .. MaxSessions /\ signedOut' \in 0 .. session'
  BY <1>1, BoundsAssumption DEF SyncInv, TypeOK
<1> QED
  BY <1>1, <1>2 DEF SyncInv, TypeOK, JoinedIsRunning, PassedOver

\* Steps of the server alone.
LEMMA ServerStep == SyncInv /\ (OtherChange \/ Restore) => SyncInv'
<1> SUFFICES ASSUME SyncInv, OtherChange \/ Restore PROVE SyncInv'
  OBVIOUS
<1>1. /\ moment' = moment + 1 /\ moment < MaxMoment
      /\ version' = version + 1 \/ version' \in 1 .. version - 1
      /\ restores' = restores \/ restores' = restores \cup {moment'}
      /\ UNCHANGED <<account, session, signedOut, sync, shown, runs>>
  BY DEF OtherChange, Restore, user
<1>2. /\ moment \in Nat /\ version \in 1 .. moment /\ restores \subseteq 1 .. moment
      /\ moment \in 1 .. MaxMoment
  BY BoundsAssumption DEF SyncInv, TypeOK
<1>3. moment' \in 1 .. MaxMoment /\ version' \in 1 .. moment'
  BY <1>1, <1>2, BoundsAssumption
<1>4. restores' \subseteq 1 .. moment'
  <2>1. moment' \in 1 .. moment' /\ 1 .. moment \subseteq 1 .. moment'
    BY <1>1, <1>2
  <2> QED
    BY <1>1, <1>2, <2>1
<1> QED
  BY <1>1, <1>3, <1>4 DEF SyncInv, TypeOK, JoinedIsRunning, PassedOver

\* Steps of one run: the invariant, given the parts that RunStep gives.
LEMMA RunsInvSuffices ==
    ASSUME SyncInv, RunsInv', UNCHANGED <<restores, user>>, shown' \in Lists,
           moment' \in 1 .. MaxMoment, version' \in 1 .. moment', moment' >= moment
    PROVE  SyncInv'
<1>1. restores' \subseteq 1 .. moment'
  BY BoundsAssumption DEF SyncInv, TypeOK
<1> QED
  BY <1>1 DEF SyncInv, TypeOK, RunsInv, user

\* The beginning of refreshSheetLibrary.
LEMMA BeginStep ==
    ASSUME SyncInv, NEW r \in Runs, NEW force \in BOOLEAN, Begin(r, force),
           runs[r].at \notin Running
    PROVE  SyncInv'
<1> DEFINE s == Synced
           me == [runs[r] EXCEPT !.sentFor = account, !.began = session, !.session = session,
                                 !.since = moment]
<1>1. TypeOK
  BY DEF SyncInv
<1>2. /\ s \in SyncRecord /\ s.requestSeq >= sync.requestSeq /\ s.appliedSeq >= sync.appliedSeq
      /\ s.appliedSeq <= s.requestSeq /\ s.checking \in {None, sync.checking}
  BY <1>1, SyncedSync
<1>3. /\ me \in RunRecord /\ me.seq = runs[r].seq
  <2>1. /\ account \in Accounts \cup {None} /\ session \in 0 .. MaxSessions
        /\ moment \in 0 .. MaxMoment /\ runs[r] \in RunRecord
    BY <1>1, BoundsAssumption DEF TypeOK
  <2> QED
    BY <2>1 DEF RunRecord
<1>4. /\ s.requestSeq \in Nat /\ sync.requestSeq \in Nat /\ s.appliedSeq \in Nat
      /\ sync.appliedSeq \in Nat /\ me.seq \in Nat /\ me.seq <= s.requestSeq
  BY <1>1, <1>2, <1>3 DEF TypeOK, SyncRecord, RunRecord
<1>5. /\ shown' = ShownNow /\ UNCHANGED <<server, user>>
  BY DEF Begin
<1>6. ShownNow \in Lists /\ ShownNow.version \in 0 .. MaxMoment
  BY <1>1, ShownNowList
<1>7. /\ signedOut' = signedOut
      /\ session >= signedOut
  BY <1>1, <1>5 DEF user, TypeOK
<1>8. RunsInv'
  <2> DEFINE joins == [me EXCEPT !.at = "joined", !.joined = s.checking]
             checks == [me EXCEPT !.at = "version", !.seen = ShownNow.version]
             fetches == SendList(me, s, TRUE)
  <2>1. \/ /\ s.checking # None /\ sync' = s /\ runs' = [runs EXCEPT ![r] = joins]
        \/ /\ s.checking = None /\ sync' = [s EXCEPT !.checking = r]
           /\ runs' = [runs EXCEPT ![r] = checks]
        \/ /\ sync' = [s EXCEPT !.requestSeq = @ + 1] /\ runs' = [runs EXCEPT ![r] = fetches]
    BY DEF Begin
  <2>2. s.checking # r
    BY <1>2, NoneAssumption DEF SyncInv, JoinedIsRunning, Running
  <2>3. CASE s.checking # None /\ sync' = s /\ runs' = [runs EXCEPT ![r] = joins]
    <3>1. joins \in RunRecord /\ joins.at = "joined" /\ joins.seq = me.seq
      <4>1. s.checking \in Runs \cup {None} /\ "joined" \in Stages
        BY <1>2 DEF SyncRecord, Stages
      <4> HIDE DEF me, s
      <4> QED
        BY <1>3, <4>1 DEF RunRecord
    <3> HIDE DEF me, s, joins
    <3>2. sync' \in SyncRecord /\ sync'.requestSeq >= sync.requestSeq
          /\ sync'.appliedSeq >= sync.appliedSeq /\ sync'.appliedSeq <= sync'.requestSeq
          /\ joins.seq <= sync'.requestSeq /\ sync'.checking \in {None, sync.checking}
          /\ sync'.checking # r
      BY <1>2, <1>4, <2>2, <2>3, <3>1
    <3> QED
      BY <1>7, <2>3, <3>1, <3>2, RunStep
  <2>4. CASE sync' = [s EXCEPT !.checking = r] /\ runs' = [runs EXCEPT ![r] = checks]
    <3>1. checks \in RunRecord /\ checks.at = "version" /\ checks.seq = me.seq
      <4>1. "version" \in Stages
        BY DEF Stages, InFlight
      <4> HIDE DEF me
      <4> QED
        BY <1>3, <1>6, <4>1 DEF RunRecord
    <3> HIDE DEF me, s, checks
    <3>2. /\ sync' \in SyncRecord /\ sync'.requestSeq = s.requestSeq
          /\ sync'.appliedSeq = s.appliedSeq /\ sync'.checking = r
      BY <1>2, <2>4 DEF SyncRecord
    <3>3. /\ sync'.requestSeq >= sync.requestSeq /\ sync'.appliedSeq >= sync.appliedSeq
          /\ sync'.appliedSeq <= sync'.requestSeq /\ checks.seq <= sync'.requestSeq
      BY <1>2, <1>4, <3>1, <3>2
    <3>4. checks.at \in Running /\ ~ checks.at \in {"list", "listed"}
      BY <3>1 DEF Running
    <3> QED
      BY <1>7, <2>4, <3>1, <3>2, <3>3, <3>4, RunStep
  <2>5. CASE sync' = [s EXCEPT !.requestSeq = @ + 1] /\ runs' = [runs EXCEPT ![r] = fetches]
    <3>1. /\ fetches \in RunRecord /\ fetches.seq = s.requestSeq + 1
          /\ fetches.session = session
      BY <1>1, <1>2, <1>3, SentList
    <3> HIDE DEF me, s, fetches
    <3>2. /\ sync' \in SyncRecord /\ sync'.requestSeq = s.requestSeq + 1
          /\ sync'.appliedSeq = s.appliedSeq /\ sync'.checking = s.checking
      BY <1>2, <1>4, <2>5 DEF SyncRecord
    <3>3. /\ sync'.requestSeq >= sync.requestSeq /\ sync'.appliedSeq >= sync.appliedSeq
          /\ sync'.appliedSeq <= sync'.requestSeq /\ fetches.seq <= sync'.requestSeq
      BY <1>2, <1>4, <3>1, <3>2
    <3>4. sync'.checking \in {None, sync.checking} /\ sync'.checking # r
      BY <1>2, <2>2, <3>2
    <3> QED
      BY <1>7, <2>5, <3>1, <3>2, <3>3, <3>4, RunStep
  <2> QED
    BY <2>1, <2>3, <2>4, <2>5
<1>9. moment' = moment /\ version' = version
  BY <1>5 DEF server
<1>10. moment \in 1 .. MaxMoment /\ version \in 1 .. moment /\ moment' >= moment
  BY <1>1, <1>9, BoundsAssumption DEF TypeOK
<1>11. shown' \in Lists /\ UNCHANGED <<restores, user>>
  BY <1>5, <1>6 DEF server
<1> QED
  BY <1>8, <1>9, <1>10, <1>11, RunsInvSuffices

\* A run goes on to another stage and leaves sync alone; a list asked for
\* earlier stays asked for under its number.
LEMMA MoveStep ==
    ASSUME SyncInv, NEW r \in Runs, NEW me \in RunRecord, runs' = [runs EXCEPT ![r] = me],
           UNCHANGED <<sync, signedOut>>, me.seq = runs[r].seq,
           runs[r].at \in Running => me.at \in Running,
           me.at \in {"list", "listed"} =>
               runs[r].at \in {"list", "listed"} /\ me.session = runs[r].session
    PROVE  RunsInv'
<1>1. /\ sync' \in SyncRecord /\ sync.requestSeq \in Nat /\ sync.appliedSeq \in Nat
      /\ sync.appliedSeq <= sync.requestSeq /\ me.seq <= sync.requestSeq
  BY DEF SyncInv, TypeOK, SyncRecord
<1>2. sync'.checking = r => me.at \in Running
  BY NoneAssumption DEF SyncInv, JoinedIsRunning, Running
<1>3. me.at \in {"list", "listed"} => me.session >= signedOut \/ me.seq < sync'.appliedSeq
  BY DEF SyncInv, PassedOver
<1>4. /\ signedOut' = signedOut /\ sync'.checking \in {None, sync.checking, r}
      /\ sync'.requestSeq >= sync.requestSeq /\ sync'.appliedSeq >= sync.appliedSeq
      /\ sync'.appliedSeq <= sync'.requestSeq /\ me.seq <= sync'.requestSeq
  BY <1>1
<1> QED
  BY <1>1, <1>2, <1>3, <1>4, RunStep

\* The answer of a version or of a list is made.
LEMMA ServeStep ==
    ASSUME SyncInv, NEW r \in Runs, Serve(r)
    PROVE  SyncInv'
<1>1. TypeOK /\ runs[r].at \in {"version", "list"} /\ UNCHANGED <<server, user, sync, shown>>
  BY DEF SyncInv, Serve
<1> DEFINE at == IF runs[r].at = "version" THEN "versioned" ELSE "listed"
           answer == [version |-> version, moment |-> moment]
           me == [runs[r] EXCEPT !.at = at, !.answer = answer]
<1>2. at \in Stages /\ answer \in Lists /\ runs[r] \in RunRecord
  BY <1>1, BoundsAssumption DEF Stages, InFlight, Lists, TypeOK
<1>3. runs' = [runs EXCEPT ![r] = me]
  BY DEF Serve
<1>4. at \in Running /\ (at = "listed" <=> runs[r].at = "list") /\ at \in {"versioned", "listed"}
  BY <1>1 DEF Running
<1> HIDE DEF at, answer
<1>5. /\ me \in RunRecord /\ me.at = at /\ me.seq = runs[r].seq
      /\ me.session = runs[r].session
  BY <1>2 DEF RunRecord
<1> HIDE DEF me
<1>6. RunsInv'
  BY <1>1, <1>3, <1>4, <1>5, MoveStep DEF user
<1>7. /\ moment' \in 1 .. MaxMoment /\ version' \in 1 .. moment' /\ moment' >= moment
      /\ shown' \in Lists
  BY <1>1, BoundsAssumption DEF TypeOK, server
<1> QED
  BY <1>1, <1>6, <1>7, RunsInvSuffices DEF server

\* A run ends, and nothing else changes but sync.
LEMMA EndsStep ==
    ASSUME SyncInv, NEW r \in Runs, NEW at \in {"ok", "notok"}, End(r, at),
           UNCHANGED <<server, user, shown>>
    PROVE  SyncInv'
<1>1. RunsInv'
  BY EndStep DEF user
<1>2. /\ moment' \in 1 .. MaxMoment /\ version' \in 1 .. moment' /\ moment' >= moment
      /\ shown' \in Lists
  BY BoundsAssumption DEF SyncInv, TypeOK, server
<1> QED
  BY <1>1, <1>2, RunsInvSuffices DEF server

\* The answer with the version: the list is current, or it is asked for.
LEMMA VersionStep ==
    ASSUME SyncInv, NEW r \in Runs, VersionAnswered(r)
    PROVE  SyncInv'
<1> DEFINE me == runs[r]
           fetches == SendList(me, sync, Back(me))
<1>1. UNCHANGED <<server, user, shown>> /\ me.at = "versioned"
  BY DEF VersionAnswered
<1>2. \/ End(r, "notok") \/ End(r, "ok")
      \/ sync' = [sync EXCEPT !.requestSeq = @ + 1] /\ runs' = [runs EXCEPT ![r] = fetches]
  BY DEF VersionAnswered
<1>3. CASE End(r, "notok") \/ End(r, "ok")
  BY <1>1, <1>3, EndsStep
<1>4. CASE sync' = [sync EXCEPT !.requestSeq = @ + 1] /\ runs' = [runs EXCEPT ![r] = fetches]
  <2>1. TypeOK /\ me \in RunRecord /\ sync \in SyncRecord /\ Back(me) \in BOOLEAN
    BY DEF SyncInv, TypeOK, Back
  <2>2. /\ fetches \in RunRecord /\ fetches.at = "list" /\ fetches.seq = sync.requestSeq + 1
        /\ fetches.session = session
    BY <2>1, SentList
  <2> HIDE DEF fetches
  <2>3. /\ sync' \in SyncRecord /\ sync'.requestSeq = sync.requestSeq + 1
        /\ sync'.appliedSeq = sync.appliedSeq /\ sync'.checking = sync.checking
        /\ sync.requestSeq \in Nat /\ sync.appliedSeq \in Nat
    BY <1>4, <2>1 DEF SyncRecord
  <2>4. /\ sync.appliedSeq <= sync.requestSeq /\ session >= signedOut /\ signedOut' = signedOut
    BY <1>1, <2>1 DEF TypeOK, user
  <2>5. /\ sync'.requestSeq >= sync.requestSeq /\ sync'.appliedSeq >= sync.appliedSeq
        /\ sync'.appliedSeq <= sync'.requestSeq /\ fetches.seq <= sync'.requestSeq
        /\ fetches.at \in Running
    BY <2>2, <2>3, <2>4 DEF Running
  <2>6. RunsInv'
    BY <1>4, <2>2, <2>3, <2>4, <2>5, RunStep
  <2>7. /\ moment' \in 1 .. MaxMoment /\ version' \in 1 .. moment' /\ moment' >= moment
        /\ shown' \in Lists
    BY <1>1, <2>1, BoundsAssumption DEF TypeOK, server
  <2> QED
    BY <1>1, <2>6, <2>7, RunsInvSuffices DEF server
<1> QED
  BY <1>2, <1>3, <1>4

\* The answer with the list: taken, or passed over.
LEMMA ListStep ==
    ASSUME SyncInv, NEW r \in Runs, ListAnswered(r)
    PROVE  SyncInv'
<1>1. /\ UNCHANGED <<server, user>>
      /\ \/ End(r, "notok") /\ UNCHANGED shown
         \/ End(r, "ok") /\ UNCHANGED shown
         \/ /\ Newer(runs[r])
            /\ shown' = runs[r].answer
            /\ sync' = [Ended(r, "ok") EXCEPT !.appliedSeq = runs[r].seq]
            /\ runs' = [runs EXCEPT ![r].at = "ok"]
  BY DEF ListAnswered
<1>2. CASE (End(r, "notok") \/ End(r, "ok")) /\ UNCHANGED shown
  BY <1>1, <1>2, EndsStep
<1>3. CASE /\ Newer(runs[r])
           /\ shown' = runs[r].answer
           /\ sync' = [Ended(r, "ok") EXCEPT !.appliedSeq = runs[r].seq]
           /\ runs' = [runs EXCEPT ![r].at = "ok"]
  <2> DEFINE me == [runs[r] EXCEPT !.at = "ok"]
             ended == Ended(r, "ok")
  <2>1. TypeOK /\ "ok" \in Stages /\ None # r
    BY NoneAssumption DEF SyncInv, Stages
  <2>2. me \in RunRecord /\ me.at = "ok" /\ me.seq = runs[r].seq
    BY <2>1, MovedRun
  <2>3. /\ ended \in SyncRecord /\ ended.requestSeq = sync.requestSeq
        /\ ended.checking \in {None, sync.checking} /\ ended.checking # r
    BY <2>1, EndedSync
  <2>4. /\ runs' = [runs EXCEPT ![r] = me] /\ sync' = [ended EXCEPT !.appliedSeq = runs[r].seq]
        /\ runs[r].seq >= sync.appliedSeq
    BY <1>3 DEF Newer
  <2>5. /\ runs[r].seq \in Nat /\ runs[r].seq <= sync.requestSeq /\ sync.requestSeq \in Nat
        /\ shown' \in Lists
    BY <1>3, <2>1 DEF TypeOK, SyncRecord, RunRecord
  <2> HIDE DEF me, ended
  <2>6. /\ sync' \in SyncRecord /\ sync'.requestSeq = sync.requestSeq
        /\ sync'.appliedSeq = runs[r].seq /\ sync'.checking = ended.checking
    BY <2>3, <2>4, <2>5 DEF SyncRecord
  <2>7. /\ sync'.requestSeq >= sync.requestSeq /\ sync'.appliedSeq >= sync.appliedSeq
        /\ sync'.appliedSeq <= sync'.requestSeq /\ me.seq <= sync'.requestSeq
        /\ ~ me.at \in {"list", "listed"}
    BY <2>2, <2>4, <2>5, <2>6
  <2>8. RunsInv'
    BY <1>1, <2>2, <2>3, <2>4, <2>6, <2>7, RunStep DEF user
  <2>9. moment' \in 1 .. MaxMoment /\ version' \in 1 .. moment' /\ moment' >= moment
    BY <1>1, <2>1, BoundsAssumption DEF TypeOK, server
  <2> QED
    BY <1>1, <2>5, <2>8, <2>9, RunsInvSuffices DEF server
<1> QED
  BY <1>1, <1>2, <1>3

\* A change of the list by the user.
LEMMA ChangeStep ==
    ASSUME SyncInv, NEW r \in Runs, Change(r) \/ ServeChange(r)
    PROVE  SyncInv'
<1>1. TypeOK /\ {"change", "changed"} \subseteq Stages
  BY DEF SyncInv, Stages, InFlight
<1>2. CASE Change(r)
  <2> DEFINE me == [runs[r] EXCEPT !.at = "change", !.sentFor = account]
  <2>1. runs' = [runs EXCEPT ![r] = me] /\ UNCHANGED <<server, user, sync, shown>>
        /\ runs[r].at = "new"
    BY <1>2 DEF Change
  <2>2. account \in Accounts \cup {None} /\ runs[r] \in RunRecord
    BY <1>1 DEF TypeOK
  <2>3. me \in RunRecord /\ me.at = "change" /\ me.seq = runs[r].seq
    BY <1>1, <2>2 DEF RunRecord
  <2> HIDE DEF me
  <2>4. RunsInv'
    BY <2>1, <2>3, MoveStep DEF user, Running
  <2>5. /\ moment' \in 1 .. MaxMoment /\ version' \in 1 .. moment' /\ moment' >= moment
        /\ shown' \in Lists
    BY <1>1, <2>1, BoundsAssumption DEF TypeOK, server
  <2> QED
    BY <2>1, <2>4, <2>5, RunsInvSuffices DEF server
<1>3. CASE ServeChange(r)
  <2> DEFINE me == [runs[r] EXCEPT !.at = "changed"]
  <2>1. /\ runs' = [runs EXCEPT ![r] = me] /\ UNCHANGED <<restores, user, sync, shown>>
        /\ runs[r].at = "change"
        /\ \/ moment < MaxMoment /\ version' = version + 1 /\ moment' = moment + 1
           \/ UNCHANGED <<version, moment>>
    BY <1>3 DEF ServeChange
  <2>2. me \in RunRecord /\ me.at = "changed" /\ me.seq = runs[r].seq
    BY <1>1, MovedRun
  <2> HIDE DEF me
  <2>3. RunsInv'
    BY <2>1, <2>2, MoveStep DEF user, Running
  <2>4. /\ moment' \in 1 .. MaxMoment /\ version' \in 1 .. moment' /\ moment' >= moment
        /\ shown' \in Lists
    BY <1>1, <2>1, BoundsAssumption DEF TypeOK
  <2> QED
    BY <2>1, <2>3, <2>4, RunsInvSuffices
<1> QED
  BY <1>2, <1>3

\* Every step keeps the invariant.
LEMMA SyncNext == SyncInv /\ [Next]_vars => SyncInv'
<1> SUFFICES ASSUME SyncInv, [Next]_vars PROVE SyncInv'
  OBVIOUS
<1>1. ASSUME NEW r \in Runs, Open(r) \/ Load(r) PROVE SyncInv'
  <2>1. \E force \in BOOLEAN : Begin(r, force)
    BY <1>1 DEF Open, Load
  <2>2. runs[r].at \notin Running
    BY <1>1 DEF Open, Load, Running
  <2> QED
    BY <2>1, <2>2, BeginStep
<1>2. ASSUME NEW r \in Runs, ChangeAnswered(r) PROVE SyncInv'
  <2>1. runs[r].at \notin Running
    BY <1>2 DEF ChangeAnswered, Running
  <2>2. CASE Begin(r, TRUE)
    BY <2>1, <2>2, BeginStep
  <2>3. CASE End(r, "notok") /\ UNCHANGED <<server, user, shown>>
    BY <2>3, EndsStep
  <2> QED
    BY <1>2, <2>2, <2>3 DEF ChangeAnswered
<1>3. ASSUME NEW r \in Runs, Fail(r) \/ JoinedEnds(r) PROVE SyncInv'
  <2>1. /\ \E at \in {"ok", "notok"} : End(r, at)
        /\ UNCHANGED <<server, user, shown>>
    BY <1>3 DEF Fail, JoinedEnds
  <2> QED
    BY <2>1, EndsStep
<1>4. CASE UNCHANGED vars
  BY <1>4 DEF vars, server, user, SyncInv, TypeOK, JoinedIsRunning, PassedOver
<1> QED
  BY <1>1, <1>2, <1>3, <1>4, ServerStep, SignOutStep, BecomeStep, ServeStep, VersionStep,
     ListStep, ChangeStep DEF Next

-----------------------------------------------------------------------------
(* FetchedStays.  Numbers are given in the order of the requests, so an answer *)
(* is at least as new as the beginning of every run with a smaller number;     *)
(* and while an account stays signed in, only the taking of such an answer     *)
(* passes over a number.                                                       *)

\* A run begins in the past.
BegunBefore ==
    \A r \in Runs : runs[r].since <= moment /\ runs[r].began <= session

\* sync is for the account of every run that began since the account signed in.
AccountKept == \A r \in Runs : Current(r) => sync.account = account

\* An answer is as new as every run that has no later number.
AnsweredSince ==
    \A q, r \in Runs :
        /\ runs[q].at = "listed" /\ runs[r].seq # 0 /\ runs[r].seq <= runs[q].seq
        => runs[q].answer.moment >= runs[r].since

Early == {"new", "change", "changed", "version", "versioned", "joined"}
NotAskedYet == \A r \in Runs : runs[r].at \in Early => runs[r].seq = 0

\* What was passed over was passed over for a list as new as the run.
TakenSince ==
    \A r \in Runs :
        /\ runs[r].seq # 0 /\ Current(r) /\ runs[r].seq <= sync.appliedSeq
        => shown.moment >= runs[r].since

\* A forced fetch that has succeeded was taken, or passed over.
ForcedTaken ==
    \A r \in Runs :
        /\ runs[r].at = "ok" /\ runs[r].seq # 0 /\ runs[r].reset
        => runs[r].seq <= sync.appliedSeq

FetchInv ==
    /\ BegunBefore /\ AccountKept /\ AnsweredSince
    /\ NotAskedYet /\ TakenSince /\ ForcedTaken

\* The second invariant at the start.
LEMMA FetchInit == Init => FetchInv
<1> SUFFICES ASSUME Init PROVE FetchInv
  OBVIOUS
<1>1. /\ moment = 1 /\ session = 0 /\ account = None
      /\ \A r \in Runs : /\ runs[r].at = "new" /\ runs[r].seq = 0 /\ runs[r].since = 0
                         /\ runs[r].began = 0
      /\ sync.account = None
  BY DEF Init, New
<1> QED
  BY <1>1 DEF FetchInv, BegunBefore, AccountKept, AnsweredSince, NotAskedYet, TakenSince,
     ForcedTaken, Current

\* The numbers of the invariant.
LEMMA Numbers ==
    ASSUME SyncInv
    PROVE  /\ moment \in Nat /\ session \in Nat /\ shown.moment \in Nat
           /\ sync.requestSeq \in Nat /\ sync.appliedSeq \in Nat
           /\ sync.appliedSeq <= sync.requestSeq
           /\ \A r \in Runs : /\ runs[r].since \in Nat /\ runs[r].began \in Nat
                              /\ runs[r].seq \in Nat /\ runs[r].answer.moment \in Nat
                              /\ runs[r].seq <= sync.requestSeq
<1>1. TypeOK
  BY DEF SyncInv
<1>2. moment \in Nat /\ session \in Nat /\ shown.moment \in Nat
  BY <1>1, BoundsAssumption DEF TypeOK, Lists
<1>3. sync.requestSeq \in Nat /\ sync.appliedSeq \in Nat /\ sync.appliedSeq <= sync.requestSeq
  BY <1>1 DEF TypeOK, SyncRecord
<1>4. \A r \in Runs : runs[r] \in RunRecord /\ runs[r].seq <= sync.requestSeq
  BY <1>1 DEF TypeOK
<1>5. \A me \in RunRecord : /\ me.since \in Nat /\ me.began \in Nat /\ me.seq \in Nat
                            /\ me.answer.moment \in Nat
  BY BoundsAssumption DEF RunRecord, Lists
<1> QED
  BY <1>2, <1>3, <1>4, <1>5

\* The numbers after the step.
LEMMA NumbersAfter ==
    ASSUME SyncInv'
    PROVE  /\ moment' \in Nat /\ sync'.appliedSeq \in Nat
           /\ \A r \in Runs : /\ runs'[r].since \in Nat /\ runs'[r].seq \in Nat
                              /\ runs'[r].answer.moment \in Nat
<1>1. TypeOK'
  BY DEF SyncInv
<1>2. moment' \in Nat /\ sync'.appliedSeq \in Nat
  BY <1>1, BoundsAssumption DEF TypeOK, SyncRecord
<1>3. \A r \in Runs : runs'[r] \in RunRecord
  BY <1>1 DEF TypeOK
<1>4. \A me \in RunRecord : me.since \in Nat /\ me.seq \in Nat /\ me.answer.moment \in Nat
  BY BoundsAssumption DEF RunRecord, Lists
<1> QED
  BY <1>2, <1>3, <1>4

\* Steps of one run: what the invariant asks of the run, of sync and of the list.
LEMMA FetchStep ==
    ASSUME SyncInv, SyncInv', FetchInv, NEW r \in Runs, NEW me,
           runs' = [runs EXCEPT ![r] = me],
           UNCHANGED <<session, account>>, moment' >= moment,
           sync'.account = account \/ (UNCHANGED sync.account /\ me.began = runs[r].began),
           me.since <= moment, me.began <= session,
           me.at = "listed" => me.answer.moment = moment,
           \/ me.seq = 0
           \/ me.seq = runs[r].seq /\ me.since = runs[r].since
           \/ me.seq > sync.requestSeq,
           me.at \in Early => me.seq = 0,
           sync'.appliedSeq >= sync.appliedSeq,
           \A q \in Runs \ {r} :
               runs[q].seq # 0 /\ Current(q) /\ runs[q].seq <= sync'.appliedSeq
                 => shown'.moment >= runs[q].since,
           me.seq # 0 /\ me.began = session /\ me.seq <= sync'.appliedSeq
             => shown'.moment >= me.since,
           me.at = "ok" /\ me.seq # 0 /\ me.reset => me.seq <= sync'.appliedSeq
    PROVE  FetchInv'
<1>1. /\ runs'[r] = me
      /\ \A q \in Runs \ {r} : runs'[q] = runs[q]
  BY DEF SyncInv, TypeOK
<1>2. /\ moment \in Nat /\ moment' \in Nat /\ session \in Nat
      /\ sync.requestSeq \in Nat /\ sync.appliedSeq \in Nat /\ sync'.appliedSeq \in Nat
      /\ \A q \in Runs : /\ runs[q].since \in Nat /\ runs[q].seq \in Nat
                         /\ runs[q].seq <= sync.requestSeq
                         /\ runs'[q].since \in Nat /\ runs'[q].seq \in Nat
                         /\ runs'[q].answer.moment \in Nat
  BY Numbers, NumbersAfter
<1>3. BegunBefore'
  <2> SUFFICES ASSUME NEW q \in Runs
               PROVE  runs'[q].since <= moment' /\ runs'[q].began <= session'
    BY DEF BegunBefore
  <2>1. CASE q = r
    BY <1>1, <1>2, <2>1
  <2>2. CASE q # r
    BY <1>1, <1>2, <2>2 DEF FetchInv, BegunBefore
  <2> QED
    BY <2>1, <2>2
<1>4. AccountKept'
  <2> SUFFICES ASSUME NEW q \in Runs, runs'[q].began = session
               PROVE  sync'.account = account
    BY DEF AccountKept, Current
  <2>1. CASE UNCHANGED sync.account /\ me.began = runs[r].began
    <3>1. runs[q].began = session
      BY <1>1, <2>1
    <3> QED
      BY <2>1, <3>1 DEF FetchInv, AccountKept, Current
  <2> QED
    BY <2>1
<1>5. AnsweredSince'
  <2> SUFFICES ASSUME NEW q \in Runs, NEW p \in Runs, runs'[q].at = "listed",
                      runs'[p].seq # 0, runs'[p].seq <= runs'[q].seq
               PROVE  runs'[q].answer.moment >= runs'[p].since
    BY DEF AnsweredSince
  <2>1. CASE q = r
    <3>1. runs'[p].since <= moment
      <4>1. CASE p = r
        BY <1>1, <4>1
      <4>2. CASE p # r
        BY <1>1, <4>2 DEF FetchInv, BegunBefore
      <4> QED
        BY <4>1, <4>2
    <3> QED
      BY <1>1, <1>2, <2>1, <3>1
  <2>2. CASE q # r /\ p # r
    BY <1>1, <2>2 DEF FetchInv, AnsweredSince
  <2>3. CASE q # r /\ p = r
    <3>1. runs'[q] = runs[q] /\ runs'[p] = me
      BY <1>1, <2>3
    <3>2. me.seq = runs[r].seq /\ me.since = runs[r].since
      <4>1. me.seq \in Nat /\ runs[q].seq \in Nat /\ me.seq <= runs[q].seq
            /\ runs[q].seq <= sync.requestSeq /\ sync.requestSeq \in Nat
        BY <1>2, <3>1
      <4>2. ~ me.seq > sync.requestSeq
        BY <4>1
      <4> QED
        BY <3>1, <4>2
    <3> QED
      BY <2>3, <3>1, <3>2 DEF FetchInv, AnsweredSince
  <2> QED
    BY <2>1, <2>2, <2>3
<1>6. NotAskedYet'
  BY <1>1 DEF FetchInv, NotAskedYet
<1>7. TakenSince'
  <2> SUFFICES ASSUME NEW q \in Runs, runs'[q].seq # 0, runs'[q].began = session,
                      runs'[q].seq <= sync'.appliedSeq
               PROVE  shown'.moment >= runs'[q].since
    BY DEF TakenSince, Current
  <2>1. CASE q = r
    BY <1>1, <2>1
  <2>2. CASE q # r
    BY <1>1, <2>2 DEF Current
  <2> QED
    BY <2>1, <2>2
<1>8. ForcedTaken'
  <2> SUFFICES ASSUME NEW q \in Runs, runs'[q].at = "ok", runs'[q].seq # 0, runs'[q].reset
               PROVE  runs'[q].seq <= sync'.appliedSeq
    BY DEF ForcedTaken
  <2>1. CASE q = r
    BY <1>1, <2>1
  <2>2. CASE q # r
    <3>1. runs[q].seq <= sync.appliedSeq
      BY <1>1, <2>2 DEF FetchInv, ForcedTaken
    <3> QED
      BY <1>1, <1>2, <2>2, <3>1
  <2> QED
    BY <2>1, <2>2
<1> QED
  BY <1>3, <1>4, <1>5, <1>6, <1>7, <1>8 DEF FetchInv

\* A run keeps its number, the list and what was passed over.
LEMMA FetchQuiet ==
    ASSUME SyncInv, SyncInv', FetchInv, NEW r \in Runs, NEW me,
           runs' = [runs EXCEPT ![r] = me],
           UNCHANGED <<session, account>>, moment' >= moment,
           sync'.account = sync.account, sync'.appliedSeq = sync.appliedSeq,
           shown'.moment = shown.moment,
           me.seq = runs[r].seq, me.since = runs[r].since, me.began = runs[r].began,
           me.at = "listed" => me.answer.moment = moment,
           me.at \in Early => me.seq = 0,
           me.at = "ok" /\ me.seq # 0 /\ me.reset => me.seq <= sync.appliedSeq
    PROVE  FetchInv'
<1>1. me.since <= moment /\ me.began <= session
  BY DEF FetchInv, BegunBefore
<1>2. sync'.appliedSeq >= sync.appliedSeq
  BY Numbers
<1>3. \A q \in Runs :
        runs[q].seq # 0 /\ Current(q) /\ runs[q].seq <= sync'.appliedSeq
          => shown'.moment >= runs[q].since
  BY DEF FetchInv, TakenSince
<1>4. me.seq # 0 /\ me.began = session /\ me.seq <= sync'.appliedSeq
        => shown'.moment >= me.since
  BY <1>3 DEF Current
<1> QED
  BY <1>1, <1>2, <1>3, <1>4, FetchStep

\* A run ends without its list being taken.
LEMMA FetchEnds ==
    ASSUME SyncInv, SyncInv', FetchInv, NEW r \in Runs, NEW at \in {"ok", "notok"},
           End(r, at), UNCHANGED <<server, user, shown>>,
           at = "ok" /\ runs[r].seq # 0 /\ runs[r].reset => runs[r].seq <= sync.appliedSeq
    PROVE  FetchInv'
<1> DEFINE me == [runs[r] EXCEPT !.at = at]
<1>1. TypeOK /\ at \in Stages
  BY DEF SyncInv, Stages
<1>2. /\ me.at = at /\ me.seq = runs[r].seq /\ me.began = runs[r].began
      /\ me.since = runs[r].since /\ me.reset = runs[r].reset
  BY <1>1, MovedRun
<1>3. runs' = [runs EXCEPT ![r] = me] /\ sync' = Ended(r, at)
  BY DEF End
<1>4. sync'.account = sync.account /\ sync'.appliedSeq = sync.appliedSeq
  BY <1>1, <1>3 DEF Ended, TypeOK, SyncRecord
<1>5. UNCHANGED <<session, account>> /\ moment' >= moment
  BY Numbers DEF user, server
<1> HIDE DEF me
<1> QED
  BY <1>2, <1>3, <1>4, <1>5, FetchQuiet DEF Early

\* The beginning of refreshSheetLibrary.
LEMMA FetchBegins ==
    ASSUME SyncInv, SyncInv', FetchInv, NEW r \in Runs, NEW force \in BOOLEAN,
           Begin(r, force), runs[r].at \in Early
    PROVE  FetchInv'
<1> DEFINE s == Synced
           me == [runs[r] EXCEPT !.sentFor = account, !.began = session, !.session = session,
                                 !.since = moment]
           joins == [me EXCEPT !.at = "joined", !.joined = s.checking]
           checks == [me EXCEPT !.at = "version", !.seen = ShownNow.version]
           fetches == SendList(me, s, TRUE)
<1>1. TypeOK /\ runs[r] \in RunRecord /\ runs[r].seq = 0
  BY DEF SyncInv, TypeOK, FetchInv, NotAskedYet
<1>2. /\ s \in SyncRecord /\ s.requestSeq >= sync.requestSeq /\ s.appliedSeq >= sync.appliedSeq
      /\ s.appliedSeq <= s.requestSeq
  BY <1>1, SyncedSync
<1>3. s.account = account /\ (sync.account = account => s = sync)
  <2>1. CASE sync.account = account
    BY <2>1 DEF Synced
  <2>2. CASE sync.account # account
    <3>1. s = Reset(sync)
      BY <2>2 DEF Synced
    <3>2. sync \in SyncRecord
      BY <1>1 DEF TypeOK
    <3> QED
      BY <2>2, <3>1, <3>2 DEF Reset, SyncRecord
  <2> QED
    BY <2>1, <2>2
<1>4. /\ me \in RunRecord /\ me.seq = 0 /\ me.since = moment /\ me.began = session
  <2>1. /\ account \in Accounts \cup {None} /\ session \in 0 .. MaxSessions
        /\ moment \in 0 .. MaxMoment
    BY <1>1, BoundsAssumption DEF TypeOK
  <2> QED
    BY <1>1, <2>1 DEF RunRecord
<1>5. shown'.moment = shown.moment /\ UNCHANGED <<server, user>>
  BY <1>1, ShownNowList DEF Begin
<1>6. UNCHANGED <<session, account>> /\ moment' >= moment
  BY <1>5, Numbers DEF server, user
<1>7. \A q \in Runs :
        runs[q].seq # 0 /\ Current(q) /\ runs[q].seq <= s.appliedSeq
          => shown'.moment >= runs[q].since
  <2> SUFFICES ASSUME NEW q \in Runs, runs[q].seq # 0, Current(q),
                      runs[q].seq <= s.appliedSeq
               PROVE  shown.moment >= runs[q].since
    BY <1>5
  <2>1. s = sync
    BY <1>3 DEF FetchInv, AccountKept
  <2> QED
    BY <2>1 DEF FetchInv, TakenSince
<1>8. moment \in Nat /\ session \in Nat /\ s.requestSeq \in Nat /\ s.appliedSeq \in Nat
      /\ sync.requestSeq \in Nat /\ sync.appliedSeq \in Nat
  BY <1>2, Numbers DEF SyncRecord
<1>9. \/ sync' = s /\ runs' = [runs EXCEPT ![r] = joins]
      \/ sync' = [s EXCEPT !.checking = r] /\ runs' = [runs EXCEPT ![r] = checks]
      \/ sync' = [s EXCEPT !.requestSeq = @ + 1] /\ runs' = [runs EXCEPT ![r] = fetches]
  BY DEF Begin
<1>10. /\ joins.seq = 0 /\ joins.since = moment /\ joins.began = session
       /\ joins.at = "joined"
       /\ checks.seq = 0 /\ checks.since = moment /\ checks.began = session
       /\ checks.at = "version"
  <2> HIDE DEF me, s
  <2> QED
    BY <1>4 DEF RunRecord
<1>11. /\ fetches.seq = s.requestSeq + 1 /\ fetches.since = moment
       /\ fetches.began = session /\ fetches.at = "list"
  BY <1>1, <1>2, <1>4, SentList
<1>12. sync'.account = account /\ sync'.appliedSeq = s.appliedSeq
  <2> HIDE DEF s, joins, checks, fetches
  <2> QED
    BY <1>2, <1>3, <1>9 DEF SyncRecord
<1> HIDE DEF s, me, joins, checks, fetches
<1>13. ASSUME NEW new, runs' = [runs EXCEPT ![r] = new], new.since = moment,
              new.began = session, new.at \in {"joined", "version", "list"},
              new.seq = 0 \/ (new.at = "list" /\ new.seq = s.requestSeq + 1)
       PROVE  FetchInv'
  <2>1. /\ new.since <= moment /\ new.began <= session
        /\ new.seq = 0 \/ (new.seq > sync.requestSeq /\ ~ new.seq <= sync'.appliedSeq)
        /\ sync'.appliedSeq >= sync.appliedSeq
    BY <1>2, <1>8, <1>12, <1>13
  <2>2. \A q \in Runs \ {r} :
          runs[q].seq # 0 /\ Current(q) /\ runs[q].seq <= sync'.appliedSeq
            => shown'.moment >= runs[q].since
    BY <1>7, <1>12
  <2>3. new.at \in Early => new.seq = 0
    BY <1>13 DEF Early
  <2> QED
    BY <1>6, <1>12, <1>13, <2>1, <2>2, <2>3, FetchStep
<1> QED
  BY <1>9, <1>10, <1>11, <1>13

\* Steps of the server and of the user alone.
LEMMA FetchOthers ==
    ASSUME SyncInv, SyncInv', FetchInv,
           OtherChange \/ Restore \/ SignOut \/ Logout \/ (\E a \in Accounts : Become(a))
    PROVE  FetchInv'
<1>1. CASE OtherChange \/ Restore
  <2>1. moment' >= moment /\ UNCHANGED <<account, session, sync, shown, runs>>
    BY <1>1, Numbers DEF OtherChange, Restore, user
  <2>2. moment \in Nat /\ moment' \in Nat /\ \A r \in Runs : runs[r].since \in Nat
    BY Numbers, NumbersAfter
  <2> QED
    BY <2>1, <2>2 DEF FetchInv, BegunBefore, AccountKept, AnsweredSince, NotAskedYet, TakenSince,
       ForcedTaken, Current
<1>2. CASE SignOut \/ Logout \/ \E a \in Accounts : Become(a)
  <2>1. session' = session + 1 /\ UNCHANGED <<moment, runs>>
    BY <1>2 DEF SignOut, Logout, Become, server
  <2>2. \A r \in Runs : runs[r].began <= session /\ runs[r].began # session'
    BY <2>1, Numbers DEF FetchInv, BegunBefore
  <2>3. sync'.appliedSeq >= sync.appliedSeq
    <3>1. CASE SignOut
      <4>1. sync' = Reset(sync) /\ TypeOK
        BY <3>1 DEF SignOut, SyncInv
      <4> QED
        BY <4>1, Numbers, ResetSync DEF TypeOK
    <3>2. CASE Logout \/ \E a \in Accounts : Become(a)
      BY <3>2, Numbers DEF Logout, Become
    <3> QED
      BY <1>2, <3>1, <3>2
  <2>4. BegunBefore'
    BY <2>1, <2>2, Numbers DEF FetchInv, BegunBefore
  <2>5. AccountKept' /\ TakenSince'
    BY <2>1, <2>2 DEF AccountKept, TakenSince, Current
  <2>6. AnsweredSince' /\ NotAskedYet'
    BY <2>1 DEF FetchInv, AnsweredSince, NotAskedYet
  <2>7. ForcedTaken'
    <3>1. \A r \in Runs : runs[r].seq \in Nat
      BY Numbers
    <3>2. sync.appliedSeq \in Nat /\ sync'.appliedSeq \in Nat
      BY Numbers, NumbersAfter
    <3> QED
      BY <2>1, <2>3, <3>1, <3>2 DEF FetchInv, ForcedTaken
  <2> QED
    BY <2>4, <2>5, <2>6, <2>7 DEF FetchInv
<1> QED
  BY <1>1, <1>2

\* The answer with the version asks for the list, or not.
LEMMA FetchVersion ==
    ASSUME SyncInv, SyncInv', FetchInv, NEW r \in Runs, VersionAnswered(r)
    PROVE  FetchInv'
<1> DEFINE fetches == SendList(runs[r], sync, Back(runs[r]))
<1>1. /\ UNCHANGED <<server, user, shown>> /\ runs[r].at = "versioned" /\ TypeOK
      /\ runs[r].seq = 0
  BY DEF VersionAnswered, SyncInv, FetchInv, NotAskedYet, Early
<1>2. CASE End(r, "notok") \/ End(r, "ok")
  BY <1>1, <1>2, FetchEnds
<1>3. CASE sync' = [sync EXCEPT !.requestSeq = @ + 1] /\ runs' = [runs EXCEPT ![r] = fetches]
  <2>1. runs[r] \in RunRecord /\ sync \in SyncRecord /\ Back(runs[r]) \in BOOLEAN
    BY <1>1 DEF TypeOK, Back
  <2>2. /\ fetches.at = "list" /\ fetches.seq = sync.requestSeq + 1
        /\ fetches.began = runs[r].began /\ fetches.since = runs[r].since
    BY <1>1, <2>1, SentList
  <2> HIDE DEF fetches
  <2>3. sync'.appliedSeq = sync.appliedSeq /\ sync'.account = sync.account
    BY <1>3, <2>1 DEF SyncRecord
  <2>4. /\ UNCHANGED <<session, account>> /\ moment' >= moment /\ shown' = shown
        /\ fetches.since <= moment /\ fetches.began <= session
        /\ fetches.seq > sync.requestSeq /\ ~ fetches.seq <= sync'.appliedSeq
        /\ sync'.appliedSeq >= sync.appliedSeq
    BY <1>1, <2>2, <2>3, Numbers DEF user, server, FetchInv, BegunBefore
  <2>5. \A q \in Runs \ {r} :
          runs[q].seq # 0 /\ Current(q) /\ runs[q].seq <= sync'.appliedSeq
            => shown'.moment >= runs[q].since
    BY <2>3, <2>4 DEF FetchInv, TakenSince
  <2> QED
    BY <1>3, <2>2, <2>3, <2>4, <2>5, FetchStep DEF Early
<1> QED
  BY <1>2, <1>3 DEF VersionAnswered

\* The answer with the list.
LEMMA FetchList ==
    ASSUME SyncInv, SyncInv', FetchInv, NEW r \in Runs, ListAnswered(r)
    PROVE  FetchInv'
<1>1. UNCHANGED <<server, user>> /\ runs[r].at = "listed" /\ TypeOK
  BY DEF ListAnswered, SyncInv
<1>2. CASE End(r, "notok") /\ UNCHANGED shown
  BY <1>1, <1>2, FetchEnds
<1>3. CASE ~ Newer(runs[r]) /\ End(r, "ok") /\ UNCHANGED shown
  <2>1. runs[r].reset => runs[r].seq <= sync.appliedSeq
    BY <1>3, Numbers DEF Newer
  <2> QED
    BY <1>1, <1>3, <2>1, FetchEnds
<1>4. CASE /\ Newer(runs[r])
           /\ shown' = runs[r].answer
           /\ sync' = [Ended(r, "ok") EXCEPT !.appliedSeq = runs[r].seq]
           /\ runs' = [runs EXCEPT ![r].at = "ok"]
  <2> DEFINE me == [runs[r] EXCEPT !.at = "ok"]
             ended == Ended(r, "ok")
  <2>1. "ok" \in Stages
    BY DEF Stages
  <2>2. /\ me.at = "ok" /\ me.seq = runs[r].seq /\ me.began = runs[r].began
        /\ me.since = runs[r].since
    BY <1>1, <2>1, MovedRun
  <2>3. ended \in SyncRecord /\ ended.account = sync.account
    BY <1>1 DEF Ended, TypeOK, SyncRecord
  <2>4. runs' = [runs EXCEPT ![r] = me] /\ sync' = [ended EXCEPT !.appliedSeq = runs[r].seq]
    BY <1>4
  <2> HIDE DEF me, ended
  <2>5. sync'.appliedSeq = runs[r].seq /\ sync'.account = sync.account
    BY <2>3, <2>4 DEF SyncRecord
  <2>6. /\ UNCHANGED <<session, account>> /\ moment' >= moment
        /\ me.since <= moment /\ me.began <= session
        /\ sync'.appliedSeq >= sync.appliedSeq /\ me.seq <= sync'.appliedSeq
    BY <1>1, <1>4, <2>2, <2>5, Numbers DEF user, server, FetchInv, BegunBefore, Newer
  <2>7. \A q \in Runs : runs[q].seq # 0 /\ runs[q].seq <= sync'.appliedSeq
                          => shown'.moment >= runs[q].since
    BY <1>1, <1>4, <2>5 DEF FetchInv, AnsweredSince
  <2>8. me.seq # 0 => shown'.moment >= me.since
    BY <2>2, <2>6, <2>7
  <2> QED
    BY <2>2, <2>4, <2>5, <2>6, <2>7, <2>8, FetchStep DEF Early
<1> QED
  BY <1>2, <1>3, <1>4 DEF ListAnswered

\* What the server gives is of its present list.
LEMMA FetchServes ==
    ASSUME SyncInv, SyncInv', FetchInv, NEW r \in Runs,
           Serve(r) \/ Change(r) \/ ServeChange(r)
    PROVE  FetchInv'
<1>1. /\ sync' = sync /\ shown' = shown /\ UNCHANGED <<session, account>>
      /\ moment' >= moment
  BY Numbers DEF Serve, Change, ServeChange, user, server
<1>2. runs[r] \in RunRecord
  BY DEF SyncInv, TypeOK
<1>3. CASE Serve(r)
  <2> DEFINE at == IF runs[r].at = "version" THEN "versioned" ELSE "listed"
             answer == [version |-> version, moment |-> moment]
             me == [runs[r] EXCEPT !.at = at, !.answer = answer]
  <2>1. runs' = [runs EXCEPT ![r] = me] /\ runs[r].at \in {"version", "list"}
    BY <1>3 DEF Serve
  <2>2. (at = "versioned" /\ runs[r].at = "version") \/ at = "listed"
    BY <2>1
  <2>3. answer.moment = moment
    OBVIOUS
  <2> HIDE DEF at, answer
  <2>4. /\ me.at = at /\ me.seq = runs[r].seq /\ me.answer = answer
        /\ me.since = runs[r].since /\ me.began = runs[r].began
    BY <1>2 DEF RunRecord
  <2> HIDE DEF me
  <2>5. me.at \in Early => me.seq = 0
    BY <2>2, <2>4 DEF FetchInv, NotAskedYet, Early
  <2> QED
    BY <1>1, <2>1, <2>2, <2>3, <2>4, <2>5, FetchQuiet
<1>4. CASE Change(r) \/ ServeChange(r)
  <2>1. \E me : /\ runs' = [runs EXCEPT ![r] = me]
                /\ \/ me = [runs[r] EXCEPT !.at = "change", !.sentFor = account]
                   \/ me = [runs[r] EXCEPT !.at = "changed"]
    BY <1>4 DEF Change, ServeChange
  <2>2. PICK me : /\ runs' = [runs EXCEPT ![r] = me]
                  /\ \/ me = [runs[r] EXCEPT !.at = "change", !.sentFor = account]
                     \/ me = [runs[r] EXCEPT !.at = "changed"]
    BY <2>1
  <2>3. /\ me.at \in {"change", "changed"} /\ me.seq = runs[r].seq
        /\ me.since = runs[r].since /\ me.began = runs[r].began
    BY <1>2, <2>2 DEF RunRecord
  <2>4. runs[r].seq = 0
    BY <1>4 DEF FetchInv, NotAskedYet, Early, Change, ServeChange
  <2> QED
    BY <1>1, <2>2, <2>3, <2>4, FetchQuiet
<1> QED
  BY <1>3, <1>4

\* Every step keeps the second invariant.
LEMMA FetchNext ==
    ASSUME SyncInv, FetchInv, [Next]_vars
    PROVE  FetchInv'
<1>0. SyncInv'
  BY SyncNext
<1>1. ASSUME NEW r \in Runs, Open(r) \/ Load(r) \/ ChangeAnswered(r) PROVE FetchInv'
  <2>1. runs[r].at \in Early
    BY <1>1 DEF Open, Load, ChangeAnswered, Early
  <2>2. \/ \E force \in BOOLEAN : Begin(r, force)
        \/ End(r, "notok") /\ UNCHANGED <<server, user, shown>>
    BY <1>1 DEF Open, Load, ChangeAnswered
  <2> QED
    BY <1>0, <2>1, <2>2, FetchBegins, FetchEnds
<1>2. ASSUME NEW r \in Runs, Fail(r) \/ JoinedEnds(r) PROVE FetchInv'
  <2>1. CASE Fail(r)
    BY <1>0, <2>1, FetchEnds DEF Fail
  <2>2. CASE JoinedEnds(r)
    <3>1. /\ \E at \in {"ok", "notok"} : End(r, at)
          /\ UNCHANGED <<server, user, shown>>
          /\ runs[r].seq = 0
      BY <2>2 DEF JoinedEnds, FetchInv, NotAskedYet, Early
    <3> QED
      BY <1>0, <3>1, FetchEnds
  <2> QED
    BY <1>2, <2>1, <2>2
<1>3. CASE UNCHANGED vars
  BY <1>3 DEF vars, server, user, FetchInv, BegunBefore, AccountKept, AnsweredSince, NotAskedYet,
     TakenSince, ForcedTaken, Current
<1> QED
  BY <1>0, <1>1, <1>2, <1>3, FetchOthers, FetchVersion, FetchList, FetchServes DEF Next

-----------------------------------------------------------------------------
(* The theorems *)

\* The first invariant holds in every state.
LEMMA SyncAlways == Spec => []SyncInv
BY SyncInit, SyncNext, PTL DEF Spec

\* Every state is well typed, and no number is passed over that was not given.
THEOREM TypeCorrect == Spec => []TypeOK
<1>1. SyncInv => TypeOK
  BY DEF SyncInv
<1> QED
  BY <1>1, SyncAlways, PTL

\* A check that has ended is never joined (sync.js:135, 169).
THEOREM ChecksEnd == Spec => []JoinedIsRunning
<1>1. SyncInv => JoinedIsRunning
  BY DEF SyncInv
<1> QED
  BY <1>1, SyncAlways, PTL

\* No list asked for before clearPortalAuthState ended the sign-in is shown after
\* it (resetSheetLibrarySync with the number check of apply).
THEOREM ClearingSeparates == Spec => SessionsApart
<1> DEFINE Apart == shown'.moment # shown.moment => ListedSince(signedOut)
<1>1. SyncInv /\ [Next]_vars => [Apart]_vars
  <2> SUFFICES ASSUME SyncInv, Next, shown'.moment # shown.moment
               PROVE  \E r \in Runs : /\ runs[r].at = "listed" /\ runs'[r].at = "ok"
                                     /\ runs[r].session >= signedOut
    BY DEF ListedSince
  <2>1. PICK r \in Runs : ListAnswered(r)
    <3>1. \A r \in Runs, force \in BOOLEAN : ~ Begin(r, force)
      BY ShownNowList DEF SyncInv, Begin
    <3>2. ~ SignOut
      BY ShownNowList DEF SyncInv, SignOut
    <3>3. \A r \in Runs : ~ Open(r) /\ ~ Load(r) /\ ~ ChangeAnswered(r)
      BY <3>1 DEF Open, Load, ChangeAnswered
    <3> QED
      BY <3>2, <3>3 DEF Next, OtherChange, Restore, Logout, Become, Change, Serve, VersionAnswered,
                        Fail, JoinedEnds, ServeChange
  <2>2. /\ runs[r].at = "listed" /\ Newer(runs[r])
        /\ runs' = [runs EXCEPT ![r].at = "ok"]
    BY <2>1 DEF ListAnswered
  <2>3. runs'[r].at = "ok"
    BY <2>2 DEF SyncInv, TypeOK, RunRecord
  <2>4. runs[r].session >= signedOut
    <3>1. runs[r].seq >= sync.appliedSeq /\ runs[r].seq \in Nat /\ sync.appliedSeq \in Nat
      BY <2>2 DEF Newer, SyncInv, TypeOK, RunRecord, SyncRecord
    <3> QED
      BY <2>2, <3>1 DEF SyncInv, PassedOver
  <2> QED
    BY <2>2, <2>3, <2>4
<1>2. Spec => [][Apart]_vars
  BY <1>1, SyncAlways, PTL DEF Spec
<1> QED
  BY <1>2 DEF SessionsApart

\* A list that was fetched by force, or taken, is not lost to a late answer
\* (appliedSeq, and the reset of a forced fetch, in apply).
THEOREM FetchesStay == Spec => []FetchedStays
<1>1. FetchInv => FetchedStays
  BY DEF FetchInv, TakenSince, ForcedTaken, FetchedStays
<1>2. SyncInv /\ FetchInv /\ [Next]_vars => FetchInv'
  BY FetchNext
<1> QED
  BY <1>1, <1>2, FetchInit, SyncAlways, PTL DEF Spec

-----------------------------------------------------------------------------
(* The batches *)

Buttons == {"upload", "resume"}
BatchRun ==
    [run : BatchRecord \cup {NoValue}, step : {"idle", "send", "ending"}, at : Nat, files : SUBSET Ops,
     cancel : BOOLEAN, sentFor : Accounts \cup {NoValue}]
PrepRecord == [batch : BatchRecord \cup {NoValue}, files : SUBSET Ops]
TabRecord == [account : Accounts, running : BatchRun, prep : [Buttons -> PrepRecord]]
Places == SUBSET (Accounts \X Ops)

UploadTyped ==
    /\ stored \in [Accounts -> BatchRecord \cup {NoValue}] /\ tabs \in [Tabs -> TabRecord]
    /\ requests \in [sent : Places, rows : Places, refused : Places] /\ batches \in Seq(SUBSET Files)

\* A file has its end.
Served(b, f) ==
    \E x \in requests.rows \cup requests.refused : x[2].batch = b /\ x[2].file = f

\* A batch has an item for each of its files, and a settled item has its answer.
Sound(x) ==
    /\ x.id \in DOMAIN batches
    /\ \A i \in DOMAIN x.items : x.items[i].op.batch = x.id
    /\ \A f \in batches[x.id] : \E i \in DOMAIN x.items : x.items[i].op.file = f
    /\ \A i \in DOMAIN x.items : x.items[i].state \in {"done", "failed"} => Served(x.id, x.items[i].op.file)

BatchesOf(tab) == ({tab.running.run} \cup {tab.prep[b].batch : b \in Buttons}) \ {NoValue}

\* What is sent is an item of the run; what is prepared is a batch.
TabSound(tab) ==
    /\ \A x \in BatchesOf(tab) : Sound(x)
    /\ tab.running.step = "send" => tab.running.run # NoValue /\ tab.running.at \in DOMAIN tab.running.run.items
    /\ \A b \in Buttons : tab.prep[b] = Upload!NoPrep \/ tab.prep[b].batch # NoValue

\* The account is one for which the batch is stored, held by a tab or sent.
AtHome(b, a) ==
    \/ stored[a] # NoValue /\ stored[a].id = b
    \/ \E t \in Tabs : tabs[t].account = a /\ \E x \in BatchesOf(tabs[t]) : x.id = b
    \/ \E x \in requests.sent : x[1] = a /\ x[2].batch = b

OneHome(b) == \A a1, a2 \in Accounts : AtHome(b, a1) /\ AtHome(b, a2) => a1 = a2

\* The batch is stored, or about to be, or all of it has its end.
Held(b) ==
    \/ \E a \in Accounts : stored[a] # NoValue /\ stored[a].id = b
    \/ \E t \in Tabs : tabs[t].prep["upload"] # Upload!NoPrep /\ tabs[t].prep["upload"].batch.id = b
    \/ \A f \in batches[b] : Served(b, f)

UploadInv ==
    /\ UploadTyped
    /\ \A a \in Accounts : stored[a] # NoValue => Sound(stored[a])
    /\ \A t \in Tabs : TabSound(tabs[t])
    /\ \A x \in requests.sent : x[2].batch \in DOMAIN batches
    /\ requests.rows \subseteq requests.sent /\ requests.refused \subseteq requests.sent
    /\ \A b \in DOMAIN batches \ mixed : OneHome(b)
    /\ \A b \in DOMAIN batches \ (given \cup mixed) : Held(b)

\* What a tab has in hand.
LEMMA InTabIs ==
    ASSUME UploadInv, NEW t \in Tabs
    PROVE  Upload!InTab(t) = BatchesOf(tabs[t]) /\ tabs[t] \in TabRecord
  BY DEF Upload!InTab, Upload!Running, Upload!Buttons, Buttons, BatchesOf, UploadInv, UploadTyped

\* The invariant says what the run checks.
LEMMA UploadInvSays ==
    ASSUME UploadInv
    PROVE  Upload!RegisteredOnce /\ Upload!Resumable
  <1>1. ASSUME NEW x \in requests.rows, NEW y \in requests.rows, x[2].batch = y[2].batch, x[2].file = y[2].file,
               x[2].batch \notin mixed
        PROVE  x = y
    <2>1. x \in Accounts \X Ops /\ y \in Accounts \X Ops /\ x \in requests.sent /\ y \in requests.sent
          /\ x[2].batch \in DOMAIN batches
      BY DEF UploadInv, UploadTyped, Places
    <2>2. x[1] \in Accounts /\ y[1] \in Accounts /\ AtHome(x[2].batch, x[1]) /\ AtHome(x[2].batch, y[1])
      BY <1>1, <2>1 DEF AtHome
    <2>3. x[1] = y[1]
      BY <1>1, <2>1, <2>2 DEF UploadInv, OneHome
    <2>4. x[2] = y[2]
      BY <1>1, <2>1 DEF Ops
    <2> QED BY <2>1, <2>3, <2>4
  <1>2. Upload!RegisteredOnce
    BY <1>1 DEF Upload!RegisteredOnce
  <1>3. ASSUME NEW b \in DOMAIN batches \ (given \cup mixed)
        PROVE  \/ \E a \in Accounts : stored[a] # NoValue /\ stored[a].id = b
               \/ \E t \in Tabs : \E batch \in Upload!InTab(t) : batch.id = b
               \/ \A f \in batches[b] : \E x \in requests.rows \cup requests.refused : x[2].batch = b /\ x[2].file = f
    <2>1. Held(b)
      BY DEF UploadInv
    <2>2. ASSUME NEW t \in Tabs, tabs[t].prep["upload"] # Upload!NoPrep, tabs[t].prep["upload"].batch.id = b
          PROVE  \E batch \in Upload!InTab(t) : batch.id = b
      <3>1. tabs[t].prep["upload"].batch \in BatchesOf(tabs[t])
        BY <2>2 DEF UploadInv, TabSound, BatchesOf, Buttons
      <3> QED BY <2>2, <3>1, InTabIs
    <2> QED BY <2>1, <2>2 DEF Held, Served
  <1>4. DOMAIN batches = 1 .. Len(batches)
    BY DEF UploadInv, UploadTyped
  <1>5. Upload!Resumable
    BY <1>3, <1>4 DEF Upload!Resumable
  <1> QED BY <1>2, <1>5

\* What was true of a batch stays true while answers only arrive and batches are only made.
LEMMA SoundStays ==
    ASSUME NEW x, Sound(x), batches \in Seq(SUBSET Files),
           batches' = batches \/ \E s \in SUBSET Files : batches' = Append(batches, s),
           requests.rows \subseteq requests'.rows, requests.refused \subseteq requests'.refused
    PROVE  Sound(x)'
  <1>1. x.id \in DOMAIN batches' /\ batches'[x.id] = batches[x.id]
    BY DEF Sound
  <1>2. \A b, f : Served(b, f) => Served(b, f)'
    BY DEF Served
  <1> QED BY <1>1, <1>2 DEF Sound

\* A tab in another state, that may have sent what it has at home.
LEMMA TabSends ==
    ASSUME UploadInv, NEW t \in Tabs, NEW tab \in TabRecord, tabs' = [tabs EXCEPT ![t] = tab],
           UNCHANGED <<stored, batches, mixed>>, given \subseteq given', TabSound(tab),
           requests' \in [sent : Places, rows : Places, refused : Places], requests.sent \subseteq requests'.sent,
           requests'.rows = requests.rows, requests'.refused = requests.refused,
           \A x \in requests'.sent \ requests.sent :
               x[1] = tabs[t].account /\ x[2].batch \in DOMAIN batches /\ AtHome(x[2].batch, tabs[t].account),
           tab.account = tabs[t].account,
           \A x \in BatchesOf(tab) : AtHome(x.id, tabs[t].account),
           tab.prep["upload"] # tabs[t].prep["upload"] =>
               tabs[t].prep["upload"] = Upload!NoPrep \/ tabs[t].prep["upload"].batch.id \in given'
    PROVE  UploadInv'
  <1>1. tabs'[t] = tab /\ \A u \in Tabs \ {t} : tabs'[u] = tabs[u]
    BY DEF UploadInv, UploadTyped
  <1>2. UploadTyped'
    BY DEF UploadInv, UploadTyped
  <1>3. \A x : Sound(x)' <=> Sound(x)
    BY DEF Sound, Served
  <1>4. ASSUME NEW u \in Tabs PROVE TabSound(tabs[u])'
    <2>1. CASE u = t
      BY <1>1, <1>3, <2>1 DEF TabSound, BatchesOf
    <2>2. CASE u # t
      BY <1>1, <1>3, <2>2 DEF UploadInv, TabSound, BatchesOf
    <2> QED BY <2>1, <2>2
  <1>5. ASSUME NEW b, NEW a \in Accounts, AtHome(b, a)' PROVE AtHome(b, a)
    <2>1. CASE \E u \in Tabs : tabs'[u].account = a /\ \E x \in BatchesOf(tabs'[u]) : x.id = b
      <3>1. PICK u \in Tabs : tabs'[u].account = a /\ \E x \in BatchesOf(tabs'[u]) : x.id = b
        BY <2>1
      <3>2. CASE u = t
        BY <1>1, <3>1, <3>2
      <3>3. CASE u # t
        BY <1>1, <3>1, <3>3 DEF AtHome
      <3> QED BY <3>2, <3>3
    <2>2. CASE stored[a] # NoValue /\ stored[a].id = b
      BY <2>2 DEF AtHome
    <2>3. CASE \E x \in requests'.sent : x[1] = a /\ x[2].batch = b
      <3>1. PICK x \in requests'.sent : x[1] = a /\ x[2].batch = b
        BY <2>3
      <3>2. CASE x \in requests.sent
        BY <3>1, <3>2 DEF AtHome
      <3>3. CASE x \notin requests.sent
        BY <3>1, <3>3
      <3> QED BY <3>2, <3>3
    <2> QED BY <1>5, <2>1, <2>2, <2>3 DEF AtHome, BatchesOf
  <1>6. \A b \in DOMAIN batches' \ mixed' : OneHome(b)'
    BY <1>5 DEF UploadInv, OneHome
  <1>7. ASSUME NEW b \in DOMAIN batches' \ (given' \cup mixed') PROVE Held(b)'
    <2>1. Held(b) /\ b \notin given'
      BY DEF UploadInv
    <2>2. ASSUME NEW u \in Tabs, tabs[u].prep["upload"] # Upload!NoPrep, tabs[u].prep["upload"].batch.id = b
          PROVE  tabs'[u].prep["upload"] # Upload!NoPrep /\ tabs'[u].prep["upload"].batch.id = b
      BY <1>1, <2>1, <2>2
    <2>3. Upload!NoPrep' = Upload!NoPrep
      BY DEF Upload!NoPrep
    <2> QED BY <2>1, <2>2, <2>3 DEF Held, Served
  <1>8. \A a \in Accounts : stored'[a] # NoValue => Sound(stored[a])'
    BY <1>3 DEF UploadInv, Sound, Served
  <1>9. /\ \A x \in requests'.sent : x[2].batch \in DOMAIN batches'
        /\ requests'.rows \subseteq requests'.sent /\ requests'.refused \subseteq requests'.sent
    BY DEF UploadInv
  <1> QED BY <1>2, <1>4, <1>6, <1>7, <1>8, <1>9 DEF UploadInv

\* A tab in another state, and nothing else.
LEMMA TabMoves ==
    ASSUME UploadInv, NEW t \in Tabs, NEW tab \in TabRecord, tabs' = [tabs EXCEPT ![t] = tab],
           UNCHANGED <<stored, requests, batches, mixed>>, given \subseteq given', TabSound(tab),
           tab.account = tabs[t].account,
           \A x \in BatchesOf(tab) : AtHome(x.id, tabs[t].account),
           tab.prep["upload"] # tabs[t].prep["upload"] =>
               tabs[t].prep["upload"] = Upload!NoPrep \/ tabs[t].prep["upload"].batch.id \in given'
    PROVE  UploadInv'
  <1>1. requests' \in [sent : Places, rows : Places, refused : Places] /\ requests' = requests
    BY DEF UploadInv, UploadTyped
  <1> QED BY <1>1, TabSends

\* The items of a batch.
LEMMA ItemsOf ==
    ASSUME NEW x \in BatchRecord
    PROVE  /\ x.id \in Nat /\ x.items \in Seq([op : Ops, state : States]) /\ DOMAIN x.items \subseteq Nat
           /\ \A i \in DOMAIN x.items : x.items[i] \in [op : Ops, state : States]
  <1>1. x.items \in Seq([op : Ops, state : States]) /\ x.id \in Nat
    BY DEF BatchRecord
  <1>2. \A R : x.items \in Seq(R) => DOMAIN x.items \subseteq Nat /\ \A i \in DOMAIN x.items : x.items[i] \in R
    OBVIOUS
  <1> QED BY <1>1, <1>2

Marked(x, i, state) == [x EXCEPT !.items[i].state = state]

\* A state of an item that has its answer, if it says so.
LEMMA ItemMoves ==
    ASSUME NEW x \in BatchRecord, Sound(x), NEW i \in DOMAIN x.items, NEW state \in States,
           state \in {"done", "failed"} => Served(x.id, x.items[i].op.file)
    PROVE  /\ Marked(x, i, state) \in BatchRecord /\ Sound(Marked(x, i, state)) /\ Marked(x, i, state).id = x.id
           /\ DOMAIN Marked(x, i, state).items = DOMAIN x.items
  <1> DEFINE item == [x.items[i] EXCEPT !.state = state]
             items == [x.items EXCEPT ![i] = item]
             y == [x EXCEPT !.items = items]
  <1>1. x.items \in Seq([op : Ops, state : States]) /\ x.items[i] \in [op : Ops, state : States] /\ x.id \in Nat
    BY ItemsOf
  <1>2. item \in [op : Ops, state : States] /\ item.op = x.items[i].op /\ item.state = state
    BY <1>1
  <1> HIDE DEF item
  <1>3. items \in Seq([op : Ops, state : States]) /\ DOMAIN items = DOMAIN x.items
        /\ items[i] = item /\ \A j \in DOMAIN x.items : j # i => items[j] = x.items[j]
    BY <1>1, <1>2
  <1> HIDE DEF items
  <1>4. y \in BatchRecord /\ y.id = x.id /\ y.items = items
    BY <1>1, <1>3 DEF BatchRecord
  <1> HIDE DEF y
  <1>5. Sound(y)
    BY <1>2, <1>3, <1>4 DEF Sound
  <1>6. y = Marked(x, i, state)
    BY DEF y, items, item, Marked
  <1> QED BY <1>3, <1>4, <1>5, <1>6

\* A run goes on: its batch is stored, or all of it has its end.
LEMMA RunMoves ==
    ASSUME UploadInv, NEW t \in Tabs, NEW tab \in TabRecord, NEW a \in Accounts, a = tabs[t].account,
           NEW kept \in BatchRecord, tabs' = [tabs EXCEPT ![t] = tab],
           \/ stored' = [stored EXCEPT ![a] = kept]
           \/ stored' = [stored EXCEPT ![a] = NoValue] /\ \A f \in batches[kept.id] : Served(kept.id, f),
           requests' \in [sent : Places, rows : Places, refused : Places], requests.sent \subseteq requests'.sent,
           requests'.rows = requests.rows, requests'.refused = requests.refused,
           \A x \in requests'.sent \ requests.sent : x[1] = a /\ x[2].batch = kept.id,
           UNCHANGED <<batches, mixed>>, given \subseteq given',
           stored[a] # NoValue /\ stored[a].id # kept.id => stored[a].id \in given',
           TabSound(tab), tab.account = a, Sound(kept), AtHome(kept.id, a),
           \A x \in BatchesOf(tab) : AtHome(x.id, a),
           tab.prep["upload"] # tabs[t].prep["upload"] => tabs[t].prep["upload"].batch.id = kept.id
    PROVE  UploadInv'
  <1>1. tabs'[t] = tab /\ \A u \in Tabs \ {t} : tabs'[u] = tabs[u]
    BY DEF UploadInv, UploadTyped
  <1>2. /\ stored'[a] \in {kept, NoValue} /\ \A c \in Accounts \ {a} : stored'[c] = stored[c]
        /\ stored' \in [Accounts -> BatchRecord \cup {NoValue}]
        /\ stored'[a] = NoValue => kept = NoValue \/ \A f \in batches[kept.id] : Served(kept.id, f)
    BY DEF UploadInv, UploadTyped
  <1>4. UploadTyped'
    BY <1>2 DEF UploadInv, UploadTyped
  <1>5. /\ \A b, f : Served(b, f)' <=> Served(b, f)
        /\ \A x : Sound(x)' <=> Sound(x)
    BY DEF Sound, Served
  <1>6. ASSUME NEW u \in Tabs PROVE TabSound(tabs[u])'
    <2>1. CASE u = t
      BY <1>1, <1>5, <2>1 DEF TabSound, BatchesOf
    <2>2. CASE u # t
      BY <1>1, <1>5, <2>2 DEF UploadInv, TabSound, BatchesOf
    <2> QED BY <2>1, <2>2
  <1>7. ASSUME NEW c \in Accounts PROVE stored'[c] # NoValue => Sound(stored[c])'
    <2>1. stored'[c] # NoValue => Sound(stored'[c])
      <3>1. CASE c = a
        BY <1>2, <3>1
      <3>2. CASE c # a
        BY <1>2, <3>2 DEF UploadInv
      <3> QED BY <3>1, <3>2
    <2>2. \A x : x = stored'[c] /\ Sound(x) => Sound(stored[c])'
      BY <1>5 DEF Sound, Served
    <2> QED BY <2>1, <2>2
  <1>8. ASSUME NEW b, NEW c \in Accounts, AtHome(b, c)' PROVE AtHome(b, c)
    <2>1. CASE stored'[c] # NoValue /\ stored'[c].id = b
      <3>1. CASE c = a
        BY <1>2, <2>1, <3>1
      <3>2. CASE c # a
        BY <1>2, <2>1, <3>2 DEF AtHome
      <3> QED BY <3>1, <3>2
    <2>2. CASE \E u \in Tabs : tabs'[u].account = c /\ \E x \in BatchesOf(tabs'[u]) : x.id = b
      <3>1. PICK u \in Tabs : tabs'[u].account = c /\ \E x \in BatchesOf(tabs'[u]) : x.id = b
        BY <2>2
      <3>2. CASE u = t
        BY <1>1, <3>1, <3>2
      <3>3. CASE u # t
        BY <1>1, <3>1, <3>3 DEF AtHome
      <3> QED BY <3>2, <3>3
    <2>3. CASE \E x \in requests'.sent : x[1] = c /\ x[2].batch = b
      <3>1. PICK x \in requests'.sent : x[1] = c /\ x[2].batch = b
        BY <2>3
      <3>2. CASE x \in requests.sent
        BY <3>1, <3>2 DEF AtHome
      <3>3. CASE x \notin requests.sent
        BY <3>1, <3>3
      <3> QED BY <3>2, <3>3
    <2> QED BY <1>8, <2>1, <2>2, <2>3 DEF AtHome, BatchesOf
  <1>9. \A b \in DOMAIN batches' \ mixed' : OneHome(b)'
    BY <1>8 DEF UploadInv, OneHome
  <1>10. /\ \A x \in requests'.sent : x[2].batch \in DOMAIN batches'
         /\ requests'.rows \subseteq requests'.sent /\ requests'.refused \subseteq requests'.sent
    BY DEF UploadInv, Sound
  <1>11. ASSUME NEW b \in DOMAIN batches' \ (given' \cup mixed') PROVE Held(b)'
    <2>1. Held(b) /\ b \notin given'
      BY DEF UploadInv
    <2>2. kept # NoValue
      BY NoValueAssumption
    <2>3. CASE b = kept.id
      <3>1. CASE stored'[a] = NoValue
        BY <1>2, <1>5, <2>2, <2>3, <3>1 DEF Held
      <3>2. CASE stored'[a] # NoValue
        BY <1>2, <2>3, <3>2 DEF Held
      <3> QED BY <3>1, <3>2
    <2>4. CASE b # kept.id
      <3>1. ASSUME NEW c \in Accounts, stored[c] # NoValue, stored[c].id = b
            PROVE  stored'[c] # NoValue /\ stored'[c].id = b
        BY <1>2, <2>1, <2>4, <3>1
      <3>2. ASSUME NEW u \in Tabs, tabs[u].prep["upload"] # Upload!NoPrep, tabs[u].prep["upload"].batch.id = b
            PROVE  tabs'[u].prep["upload"] # Upload!NoPrep /\ tabs'[u].prep["upload"].batch.id = b
        BY <1>1, <2>4, <3>2
      <3>3. Upload!NoPrep' = Upload!NoPrep
        BY DEF Upload!NoPrep
      <3> QED BY <1>5, <2>1, <3>1, <3>2, <3>3 DEF Held
    <2> QED BY <2>3, <2>4
  <1> QED BY <1>4, <1>6, <1>7, <1>9, <1>10, <1>11 DEF UploadInv

\* The loop of a run, up to the next request or its end.
LEMMA ContinueKeeps ==
    ASSUME UploadInv, NEW t \in Tabs, NEW run \in BatchRun, run.run \in BatchRecord, Sound(run.run),
           AtHome(run.run.id, tabs[t].account),
           NEW ts \in [Tabs -> TabRecord], \A u \in Tabs \ {t} : ts[u] = tabs[u],
           ts[t].account = tabs[t].account,
           \A b \in Buttons : ts[t].prep[b] \in {Upload!NoPrep, tabs[t].prep[b]},
           ts[t].prep["upload"] # tabs[t].prep["upload"] => tabs[t].prep["upload"].batch.id = run.run.id,
           Upload!Continue(ts, t, run), UNCHANGED <<batches, mixed>>
    PROVE  UploadInv'
  <1> DEFINE a == tabs[t].account
             batch == run.run
             With(r) == [ts[t] EXCEPT !.running = r]
             Stop == [Upload!Idle EXCEPT !.run = batch, !.step = "ending"]
  <1>1. a \in Accounts /\ Upload!Account(t) = a /\ tabs[t] \in TabRecord /\ ts[t] \in TabRecord /\ TabSound(tabs[t])
    BY DEF Upload!Account, UploadInv, UploadTyped, TabRecord
  <1>2. ASSUME NEW r \in BatchRun
        PROVE  /\ With(r) \in TabRecord /\ With(r).account = a /\ With(r).running = r /\ With(r).prep = ts[t].prep
               /\ [ts EXCEPT ![t].running = r] = [tabs EXCEPT ![t] = With(r)]
    <2>1. With(r) \in TabRecord /\ With(r).account = a /\ With(r).running = r /\ With(r).prep = ts[t].prep
      BY <1>1 DEF TabRecord
    <2>2. [ts EXCEPT ![t].running = r] = [tabs EXCEPT ![t] = With(r)]
      <3> DEFINE w == With(r)
      <3>1. [ts EXCEPT ![t].running = r] = [ts EXCEPT ![t] = w]
        OBVIOUS
      <3> HIDE DEF w
      <3>2. [ts EXCEPT ![t] = w] = [tabs EXCEPT ![t] = w]
        BY DEF UploadInv, UploadTyped
      <3> QED BY <3>1, <3>2 DEF w
    <2> QED BY <2>1, <2>2
  <1> HIDE DEF With
  <1>3. ASSUME NEW r \in BatchRun, NEW kept \in BatchRecord, r.run = kept, Sound(kept), kept.id = batch.id,
               r.step = "send" => r.at \in DOMAIN kept.items
        PROVE  /\ TabSound(With(r))
               /\ \A x \in BatchesOf(With(r)) : AtHome(x.id, a)
    <2>1. kept # NoValue
      BY NoValueAssumption
    <2>2. BatchesOf(With(r)) \subseteq BatchesOf(tabs[t]) \cup {kept}
      <3> SUFFICES ASSUME NEW x \in BatchesOf(With(r)), x # kept PROVE x \in BatchesOf(tabs[t])
        OBVIOUS
      <3>3. With(r).running.run = kept /\ With(r).prep = ts[t].prep
        BY <1>2, <1>3
      <3>1. PICK b \in Buttons : x = ts[t].prep[b].batch /\ x # NoValue
        BY <3>3 DEF BatchesOf
      <3>2. ts[t].prep[b] = tabs[t].prep[b]
        BY <3>1 DEF Upload!NoPrep
      <3> QED BY <3>1, <3>2 DEF BatchesOf
    <2>3. \A x \in BatchesOf(tabs[t]) : Sound(x) /\ AtHome(x.id, a)
      BY <1>1 DEF TabSound, AtHome
    <2>4. \A b \in Buttons : With(r).prep[b] = Upload!NoPrep \/ With(r).prep[b].batch # NoValue
      <3> SUFFICES ASSUME NEW b \in Buttons, ts[t].prep[b] # Upload!NoPrep PROVE ts[t].prep[b].batch # NoValue
        BY <1>2
      <3>1. ts[t].prep[b] = tabs[t].prep[b]
        OBVIOUS
      <3> QED BY <1>1, <3>1 DEF TabSound
    <2> QED BY <1>2, <1>3, <2>1, <2>2, <2>3, <2>4 DEF TabSound
  <1> DEFINE next == {i \in Upload!OpenOf(batch) : i > run.at /\ batch.items[i].op \in run.files}
             Sending(i) == Marked(batch, i, "sending")
             Send(i) == [run EXCEPT !.run = Sending(i), !.at = i, !.step = "send", !.sentFor = a]
  <1>4. \/ /\ tabs' = [ts EXCEPT ![t].running = Stop]
           /\ \/ /\ Upload!AllSettled(batch) /\ stored' = [stored EXCEPT ![a] = NoValue]
                 /\ given' = IF stored[a] \in {NoValue, batch} \/ stored[a].id = batch.id
                             THEN given ELSE given \cup {stored[a].id}
              \/ Upload!Saved(a, batch)
           /\ UNCHANGED requests
        \/ \E i \in next :
             /\ tabs' = [ts EXCEPT ![t].running = Send(i)] /\ Upload!Saved(a, Sending(i))
             /\ requests' = [requests EXCEPT !.sent = @ \cup {<<a, batch.items[i].op>>}]
    BY DEF Upload!Continue, Upload!Account, Marked
  <1>5. batch # NoValue
    BY NoValueAssumption
  <1> HIDE DEF next, Sending, Send, Stop
  <1>6. CASE /\ tabs' = [ts EXCEPT ![t].running = Stop]
             /\ \/ /\ Upload!AllSettled(batch) /\ stored' = [stored EXCEPT ![a] = NoValue]
                   /\ given' = IF stored[a] \in {NoValue, batch} \/ stored[a].id = batch.id
                               THEN given ELSE given \cup {stored[a].id}
                \/ Upload!Saved(a, batch)
             /\ UNCHANGED requests
    <2>1. Stop \in BatchRun /\ Stop.run = batch /\ Stop.step = "ending"
      BY DEF Stop, BatchRun, Upload!Idle
    <2>2. /\ TabSound(With(Stop)) /\ \A x \in BatchesOf(With(Stop)) : AtHome(x.id, a)
          /\ With(Stop) \in TabRecord /\ With(Stop).account = a /\ With(Stop).prep = ts[t].prep
          /\ tabs' = [tabs EXCEPT ![t] = With(Stop)]
      BY <1>2, <1>3, <1>6, <2>1
    <2>3. Upload!AllSettled(batch) => \A f \in batches[batch.id] : Served(batch.id, f)
      <3>1. \A i \in DOMAIN batch.items : batch.items[i] \in [op : Ops, state : States]
        BY ItemsOf
      <3>2. Upload!AllSettled(batch) => \A i \in DOMAIN batch.items : batch.items[i].state \in {"done", "failed"}
        BY <3>1 DEF Upload!AllSettled, Upload!OpenOf, Upload!Open
      <3> QED BY <3>2 DEF Sound
    <2>4. /\ given \subseteq given'
          /\ stored[a] # NoValue /\ stored[a].id # batch.id => stored[a].id \in given'
      BY <1>5, <1>6 DEF Upload!Saved
    <2>5. /\ requests' \in [sent : Places, rows : Places, refused : Places] /\ requests.sent \subseteq requests'.sent
          /\ requests'.rows = requests.rows /\ requests'.refused = requests.refused
          /\ \A x \in requests'.sent \ requests.sent : x[1] = a /\ x[2].batch = batch.id
      BY <1>6 DEF UploadInv, UploadTyped
    <2>7. \/ stored' = [stored EXCEPT ![a] = batch]
          \/ stored' = [stored EXCEPT ![a] = NoValue] /\ \A f \in batches[batch.id] : Served(batch.id, f)
      BY <1>6, <2>3 DEF Upload!Saved
    <2> DEFINE tab == With(Stop)
    <2> HIDE DEF tab
    <2>8. tab.prep["upload"] # tabs[t].prep["upload"] => tabs[t].prep["upload"].batch.id = batch.id
      BY <2>2 DEF tab
    <2>9. tab \in TabRecord /\ tab.account = a /\ TabSound(tab) /\ tabs' = [tabs EXCEPT ![t] = tab]
          /\ \A x \in BatchesOf(tab) : AtHome(x.id, a)
      BY <2>2 DEF tab
    <2> QED BY <1>1, <2>4, <2>5, <2>7, <2>8, <2>9, RunMoves
  <1>7. ASSUME NEW i \in next, tabs' = [ts EXCEPT ![t].running = Send(i)], Upload!Saved(a, Sending(i)),
               requests' = [requests EXCEPT !.sent = @ \cup {<<a, batch.items[i].op>>}]
        PROVE  UploadInv'
    <2>1. i \in DOMAIN batch.items /\ i \in Nat /\ batch.items[i].op \in Ops /\ batch.items[i].op.batch = batch.id
      <3>1. i \in DOMAIN batch.items
        BY DEF next, Upload!OpenOf
      <3>2. i \in Nat /\ batch.items[i] \in [op : Ops, state : States]
        BY <3>1, ItemsOf
      <3> QED BY <3>1, <3>2 DEF Sound
    <2>2. Sending(i) \in BatchRecord /\ Sound(Sending(i)) /\ Sending(i).id = batch.id /\ i \in DOMAIN Sending(i).items
      <3>1. "sending" \in States /\ "sending" \notin {"done", "failed"}
        BY DEF States
      <3> QED BY <2>1, <3>1, ItemMoves DEF Sending
    <2>3. Send(i) \in BatchRun /\ Send(i).run = Sending(i) /\ Send(i).at = i
      BY <1>1, <2>1, <2>2 DEF Send, BatchRun
    <2>4. /\ TabSound(With(Send(i))) /\ \A x \in BatchesOf(With(Send(i))) : AtHome(x.id, a)
          /\ With(Send(i)) \in TabRecord /\ With(Send(i)).account = a /\ With(Send(i)).prep = ts[t].prep
          /\ tabs' = [tabs EXCEPT ![t] = With(Send(i))]
      BY <1>2, <1>3, <1>7, <2>2, <2>3
    <2>5. Sending(i) # NoValue
      BY <2>2, NoValueAssumption
    <2>6. /\ given \subseteq given' /\ stored' = [stored EXCEPT ![a] = Sending(i)]
          /\ stored[a] # NoValue /\ stored[a].id # batch.id => stored[a].id \in given'
      BY <1>7, <2>2, <2>5 DEF Upload!Saved
    <2>7. /\ requests' \in [sent : Places, rows : Places, refused : Places] /\ requests.sent \subseteq requests'.sent
          /\ requests'.rows = requests.rows /\ requests'.refused = requests.refused
          /\ \A x \in requests'.sent \ requests.sent : x[1] = a /\ x[2].batch = batch.id
      BY <1>1, <1>7, <2>1 DEF UploadInv, UploadTyped, Places
    <2> DEFINE tab == With(Send(i))
               kept == Sending(i)
    <2> HIDE DEF tab, kept
    <2>8. tab.prep["upload"] # tabs[t].prep["upload"] => tabs[t].prep["upload"].batch.id = batch.id
      BY <2>4 DEF tab
    <2>9. tab \in TabRecord /\ tab.account = a /\ TabSound(tab) /\ tabs' = [tabs EXCEPT ![t] = tab]
          /\ \A x \in BatchesOf(tab) : AtHome(x.id, a)
      BY <2>4 DEF tab
    <2>10. kept \in BatchRecord /\ Sound(kept) /\ kept.id = batch.id /\ kept # NoValue
           /\ stored' = [stored EXCEPT ![a] = kept]
      BY <2>2, <2>5, <2>6 DEF kept
    <2>11. /\ tab.prep["upload"] # tabs[t].prep["upload"] => tabs[t].prep["upload"].batch.id = kept.id
           /\ AtHome(kept.id, a) /\ (stored[a] # NoValue /\ stored[a].id # kept.id => stored[a].id \in given')
           /\ \A x \in requests'.sent \ requests.sent : x[1] = a /\ x[2].batch = kept.id
      BY <2>6, <2>7, <2>8, <2>10
    <2> QED BY <1>1, <2>6, <2>7, <2>9, <2>10, <2>11, RunMoves
  <1> QED BY <1>4, <1>6, <1>7

\* A batch is made of the files that were chosen.
LEMMA ChooseKeeps ==
    ASSUME UploadInv, NEW t \in Tabs, NEW n \in Nat, NEW chosen \in [1 .. n -> Files], Upload!Choose(t, chosen)
    PROVE  UploadInv'
  <1> DEFINE id == Len(batches) + 1
             Op(i) == [batch |-> id, file |-> chosen[i], attempt |-> 0]
             items == [i \in 1 .. n |-> [op |-> Op(i), state |-> "pending"]]
             batch == [id |-> id, items |-> items]
             prep == [batch |-> batch, files |-> {items[i].op : i \in 1 .. n}]
             tab == [tabs[t] EXCEPT !.prep["upload"] = prep]
             chosenFiles == {chosen[i] : i \in 1 .. n}
  <1>1. /\ tabs[t].prep["upload"] = Upload!NoPrep /\ batches' = Append(batches, chosenFiles)
        /\ tabs' = [tabs EXCEPT ![t].prep["upload"] = prep]
        /\ UNCHANGED <<stored, requests, given, mixed>>
    <2>1. Len(chosen) = n /\ DOMAIN chosen = 1 .. n
      OBVIOUS
    <2> QED BY <2>1 DEF Upload!Choose, Upload!Range
  <1>2. batches \in Seq(SUBSET Files) /\ Len(batches) \in Nat /\ id \in Nat /\ DOMAIN batches = 1 .. Len(batches)
    BY DEF UploadInv, UploadTyped
  <1>3. /\ chosenFiles \in SUBSET Files /\ batches' \in Seq(SUBSET Files) /\ DOMAIN batches' = 1 .. id
        /\ batches'[id] = chosenFiles /\ \A b \in DOMAIN batches : batches'[b] = batches[b]
    BY <1>1, <1>2
  <1>4. \A i \in 1 .. n : Op(i) \in Ops /\ Op(i).batch = id /\ Op(i).file = chosen[i]
    BY <1>2 DEF Ops
  <1>5. /\ items \in Seq([op : Ops, state : States]) /\ DOMAIN items = 1 .. n
        /\ \A i \in 1 .. n : items[i].op = Op(i) /\ items[i].state = "pending"
    BY <1>4 DEF States
  <1> HIDE DEF Op, items
  <1>6. batch \in BatchRecord /\ batch.id = id /\ batch.items = items
    BY <1>2, <1>5 DEF BatchRecord
  <1> HIDE DEF batch
  <1>7. prep \in PrepRecord /\ prep.batch = batch /\ batch # NoValue
    BY <1>4, <1>5, <1>6, NoValueAssumption DEF PrepRecord
  <1> HIDE DEF prep
  <1>8. tab \in TabRecord /\ tab.account = tabs[t].account /\ tab.running = tabs[t].running
        /\ tab.prep = [tabs[t].prep EXCEPT !["upload"] = prep] /\ tabs' = [tabs EXCEPT ![t] = tab]
        /\ tab.prep["upload"] = prep /\ tab.prep["resume"] = tabs[t].prep["resume"]
    BY <1>1, <1>7 DEF UploadInv, UploadTyped, TabRecord, Buttons
  <1> HIDE DEF tab, chosenFiles
  <1>9. tabs'[t] = tab /\ (\A u \in Tabs \ {t} : tabs'[u] = tabs[u]) /\ tabs' \in [Tabs -> TabRecord]
    BY <1>8 DEF UploadInv, UploadTyped
  <1>10. UploadTyped'
    BY <1>1, <1>3, <1>9 DEF UploadInv, UploadTyped
  <1>11. /\ \A b, f : Served(b, f)' <=> Served(b, f)
         /\ \A x : Sound(x) => Sound(x)' /\ x.id \in DOMAIN batches
    <2>1. \A x : Sound(x) => Sound(x)'
      BY <1>1, <1>2, <1>3, SoundStays
    <2> QED BY <1>1, <2>1 DEF Served, Sound
  <1>12. \A x : x = batch => Sound(x)'
    <2>1. \A f \in batches'[id] : \E i \in 1 .. n : Op(i).file = f
      BY <1>3, <1>4 DEF chosenFiles
    <2>2. id \in DOMAIN batches'
      BY <1>2, <1>3
    <2>3. \A i \in 1 .. n : items[i].op.batch = id /\ items[i].op.file = Op(i).file
                             /\ items[i].state \notin {"done", "failed"}
      BY <1>4, <1>5
    <2> QED BY <1>5, <1>6, <2>1, <2>2, <2>3 DEF Sound
  <1>13. BatchesOf(tab) \subseteq BatchesOf(tabs[t]) \cup {batch}
    <2> SUFFICES ASSUME NEW x \in BatchesOf(tab), x # batch PROVE x \in BatchesOf(tabs[t])
      OBVIOUS
    <2>1. x # NoValue /\ (x = tabs[t].running.run \/ x = tab.prep["upload"].batch \/ x = tab.prep["resume"].batch)
      BY <1>8 DEF BatchesOf, Buttons
    <2> QED BY <1>7, <1>8, <2>1 DEF BatchesOf, Buttons
  <1>14. ASSUME NEW u \in Tabs PROVE TabSound(tabs[u])'
    <2>1. CASE u = t
      <3>1. \A x \in BatchesOf(tab) : Sound(x)'
        <4>1. \A x \in BatchesOf(tabs[t]) : Sound(x)
          BY DEF UploadInv, TabSound
        <4> QED BY <1>11, <1>12, <1>13, <4>1
      <3>2. \A b \in Buttons : tab.prep[b] = Upload!NoPrep \/ tab.prep[b].batch # NoValue
        BY <1>7, <1>8 DEF UploadInv, TabSound, Buttons
      <3> QED BY <1>8, <1>9, <2>1, <3>1, <3>2 DEF UploadInv, TabSound, BatchesOf, Upload!NoPrep
    <2>2. CASE u # t
      BY <1>9, <1>11, <2>2 DEF UploadInv, TabSound, BatchesOf
    <2> QED BY <2>1, <2>2
  <1>15. \A a \in Accounts : stored'[a] # NoValue => Sound(stored[a])'
    <2> SUFFICES ASSUME NEW a \in Accounts, stored[a] # NoValue PROVE Sound(stored[a])'
      BY <1>1
    <2>1. Sound(stored[a])
      BY DEF UploadInv
    <2> QED BY <1>1, <1>3, <1>10, <2>1 DEF Sound, Served
  <1>16. ASSUME NEW b, NEW a \in Accounts, AtHome(b, a)'
         PROVE  \/ AtHome(b, a) /\ b \in DOMAIN batches
                \/ b = id /\ a = tabs[t].account
    <2>1. CASE stored[a] # NoValue /\ stored[a].id = b
      BY <1>11, <2>1 DEF UploadInv, AtHome
    <2>2. CASE \E x \in requests.sent : x[1] = a /\ x[2].batch = b
      BY <2>2 DEF UploadInv, AtHome
    <2>3. CASE \E u \in Tabs : tabs'[u].account = a /\ \E x \in BatchesOf(tabs'[u]) : x.id = b
      <3> PICK u \in Tabs : tabs'[u].account = a /\ \E x \in BatchesOf(tabs'[u]) : x.id = b
        BY <2>3
      <3>1. PICK x \in BatchesOf(tabs'[u]) : tabs'[u].account = a /\ x.id = b
        OBVIOUS
      <3>2. CASE x \in BatchesOf(tabs[u]) /\ tabs[u].account = a
        BY <1>11, <3>1, <3>2 DEF UploadInv, TabSound, AtHome
      <3>3. CASE u = t /\ x = batch
        BY <1>6, <1>8, <1>9, <3>1, <3>3
      <3> QED BY <1>8, <1>9, <1>13, <3>1, <3>2, <3>3
    <2> QED BY <1>1, <1>16, <2>1, <2>2, <2>3 DEF AtHome, BatchesOf
  <1>17. \A b \in DOMAIN batches' \ mixed' : OneHome(b)'
    <2> SUFFICES ASSUME NEW b \in DOMAIN batches' \ mixed, NEW a1 \in Accounts, NEW a2 \in Accounts,
                        AtHome(b, a1)', AtHome(b, a2)'
                 PROVE  a1 = a2
      BY <1>1 DEF OneHome
    <2>1. id \notin DOMAIN batches
      BY <1>2
    <2> QED BY <1>16, <2>1 DEF UploadInv, OneHome
  <1>18. ASSUME NEW b \in DOMAIN batches' \ (given' \cup mixed') PROVE Held(b)'
    <2>1. Upload!NoPrep' = Upload!NoPrep
      BY DEF Upload!NoPrep
    <2>2. CASE b = id
      <3>1. prep # Upload!NoPrep
        BY <1>7 DEF Upload!NoPrep
      <3> QED BY <1>6, <1>7, <1>8, <1>9, <2>1, <2>2, <3>1 DEF Held
    <2>3. CASE b # id
      <3>1. b \in DOMAIN batches /\ Held(b) /\ batches'[b] = batches[b]
        BY <1>1, <1>2, <1>3, <2>3 DEF UploadInv
      <3>2. ASSUME NEW u \in Tabs, tabs[u].prep["upload"] # Upload!NoPrep, tabs[u].prep["upload"].batch.id = b
            PROVE  tabs'[u].prep["upload"] # Upload!NoPrep /\ tabs'[u].prep["upload"].batch.id = b
        BY <1>1, <1>9, <3>2
      <3> QED BY <1>1, <1>11, <2>1, <3>1, <3>2 DEF Held
    <2> QED BY <2>2, <2>3
  <1>19. /\ \A x \in requests'.sent : x[2].batch \in DOMAIN batches'
         /\ requests'.rows \subseteq requests'.sent /\ requests'.refused \subseteq requests'.sent
    BY <1>1, <1>2, <1>3 DEF UploadInv
  <1> QED BY <1>10, <1>14, <1>15, <1>17, <1>18, <1>19 DEF UploadInv

\* A batch is stored in the place of another.
LEMMA SavedKeeps ==
    ASSUME UploadInv, NEW t \in Tabs, NEW tab \in TabRecord, NEW a \in Accounts, a = tabs[t].account,
           NEW x \in BatchRecord, Upload!Saved(a, x), tabs' = [tabs EXCEPT ![t] = tab],
           UNCHANGED <<requests, batches, mixed>>, TabSound(tab), tab.account = a, Sound(x), AtHome(x.id, a),
           \A y \in BatchesOf(tab) : AtHome(y.id, a),
           tab.prep["upload"] # tabs[t].prep["upload"] => tabs[t].prep["upload"].batch.id = x.id
    PROVE  UploadInv'
  <1>1. x # NoValue
    BY NoValueAssumption
  <1>2. /\ given \subseteq given' /\ stored' = [stored EXCEPT ![a] = x]
        /\ stored[a] # NoValue /\ stored[a].id # x.id => stored[a].id \in given'
    BY <1>1 DEF Upload!Saved
  <1>3. /\ requests' \in [sent : Places, rows : Places, refused : Places] /\ requests.sent \subseteq requests'.sent
        /\ requests'.rows = requests.rows /\ requests'.refused = requests.refused
        /\ \A y \in requests'.sent \ requests.sent : y[1] = a /\ y[2].batch = x.id
    BY DEF UploadInv, UploadTyped
  <1> QED BY <1>2, <1>3, RunMoves

\* A tab whose buttons have less prepared.
LEMMA PrepDropped ==
    ASSUME UploadInv, NEW t \in Tabs, NEW c \in Buttons
    PROVE  LET tab == [tabs[t] EXCEPT !.prep[c] = Upload!NoPrep]
           IN  /\ tab \in TabRecord /\ tab.account = tabs[t].account /\ tab.running = tabs[t].running
               /\ tab.prep[c] = Upload!NoPrep /\ \A b \in Buttons \ {c} : tab.prep[b] = tabs[t].prep[b]
               /\ TabSound(tab) /\ BatchesOf(tab) \subseteq BatchesOf(tabs[t])
               /\ \A x \in BatchesOf(tab) : AtHome(x.id, tabs[t].account)
  <1> DEFINE tab == [tabs[t] EXCEPT !.prep[c] = Upload!NoPrep]
  <1>1. tabs[t] \in TabRecord /\ TabSound(tabs[t]) /\ Upload!NoPrep \in PrepRecord /\ Upload!NoPrep.batch = NoValue
    BY DEF UploadInv, UploadTyped, Upload!NoPrep, PrepRecord
  <1>2. /\ tab \in TabRecord /\ tab.account = tabs[t].account /\ tab.running = tabs[t].running
        /\ tab.prep[c] = Upload!NoPrep /\ \A b \in Buttons \ {c} : tab.prep[b] = tabs[t].prep[b]
    BY <1>1 DEF TabRecord
  <1> HIDE DEF tab
  <1>3. BatchesOf(tab) \subseteq BatchesOf(tabs[t])
    BY <1>1, <1>2 DEF BatchesOf
  <1>4. TabSound(tab)
    BY <1>1, <1>2, <1>3 DEF TabSound
  <1>5. \A x \in BatchesOf(tab) : AtHome(x.id, tabs[t].account)
    BY <1>3 DEF AtHome
  <1> QED BY <1>2, <1>3, <1>4, <1>5 DEF tab

\* What a button has prepared is run, or stored for later.
LEMMA ChosenKeeps ==
    ASSUME UploadInv, NEW t \in Tabs, Upload!Chosen(t)
    PROVE  UploadInv'
  <1> DEFINE a == tabs[t].account
             prep == tabs[t].prep["upload"]
             tab == [tabs[t] EXCEPT !.prep["upload"] = Upload!NoPrep]
             ts == [tabs EXCEPT ![t].prep["upload"] = Upload!NoPrep]
             run == [Upload!Idle EXCEPT !.run = prep.batch, !.files = prep.files]
  <1>1. /\ tab \in TabRecord /\ tab.account = a /\ tab.running = tabs[t].running
        /\ tab.prep["upload"] = Upload!NoPrep /\ tab.prep["resume"] = tabs[t].prep["resume"]
        /\ TabSound(tab) /\ \A x \in BatchesOf(tab) : AtHome(x.id, a)
    BY PrepDropped DEF Buttons
  <1>2. a \in Accounts /\ Upload!Account(t) = a /\ TabSound(tabs[t]) /\ prep \in PrepRecord /\ prep # Upload!NoPrep
    BY DEF UploadInv, UploadTyped, TabRecord, Buttons, Upload!Account, Upload!Chosen
  <1>3. prep.batch \in BatchRecord /\ prep.batch \in BatchesOf(tabs[t]) /\ prep.files \in SUBSET Ops
    BY <1>2 DEF TabSound, PrepRecord, Buttons, BatchesOf
  <1>4. Sound(prep.batch) /\ AtHome(prep.batch.id, a)
    BY <1>2, <1>3 DEF TabSound, AtHome
  <1>5. /\ UNCHANGED <<batches, mixed>>
        /\ \/ Upload!Continue(ts, t, run)
           \/ Upload!Saved(a, prep.batch) /\ tabs' = ts /\ UNCHANGED requests
    BY <1>2 DEF Upload!Chosen
  <1>6. /\ ts = [tabs EXCEPT ![t] = tab] /\ ts[t] = tab /\ \A u \in Tabs \ {t} : ts[u] = tabs[u]
        /\ ts \in [Tabs -> TabRecord]
    BY <1>1 DEF UploadInv, UploadTyped
  <1>7. run \in BatchRun /\ run.run = prep.batch
    BY <1>3 DEF Upload!Idle, BatchRun
  <1> HIDE DEF tab, ts, run
  <1>8. CASE Upload!Continue(ts, t, run)
    <2>1. \A b \in Buttons : ts[t].prep[b] \in {Upload!NoPrep, tabs[t].prep[b]}
      BY <1>1, <1>6 DEF Buttons
    <2>2. ts[t].prep["upload"] # tabs[t].prep["upload"] => tabs[t].prep["upload"].batch.id = run.run.id
      BY <1>7
    <2>3. run.run \in BatchRecord /\ Sound(run.run) /\ AtHome(run.run.id, a) /\ ts[t].account = a
      BY <1>1, <1>3, <1>4, <1>6, <1>7
    <2> HIDE DEF prep
    <2> QED BY <1>5, <1>6, <1>7, <1>8, <2>1, <2>2, <2>3, ContinueKeeps
  <1>9. CASE Upload!Saved(a, prep.batch) /\ tabs' = ts /\ UNCHANGED requests
    <2>1. tab.prep["upload"] # tabs[t].prep["upload"] => tabs[t].prep["upload"].batch.id = prep.batch.id
      OBVIOUS
    <2> QED BY <1>1, <1>2, <1>3, <1>4, <1>5, <1>6, <1>9, <2>1, SavedKeeps
  <1> QED BY <1>5, <1>8, <1>9

\* The stored batch is prepared once more.
LEMMA ResumeKeeps ==
    ASSUME UploadInv, NEW t \in Tabs, Upload!Resume(t)
    PROVE  UploadInv'
  <1> DEFINE a == tabs[t].account
             batch == stored[a]
  <1>1. /\ a \in Accounts /\ Upload!Account(t) = a /\ tabs[t] \in TabRecord /\ TabSound(tabs[t])
        /\ tabs[t].prep["resume"] = Upload!NoPrep /\ batch # NoValue
        /\ UNCHANGED <<stored, requests, batches, given, mixed>>
    BY DEF UploadInv, UploadTyped, TabRecord, Upload!Account, Upload!Resume
  <1>2. batch \in BatchRecord /\ Sound(batch)
    BY <1>1 DEF UploadInv, UploadTyped
  <1>3. PICK matching \in SUBSET {batch.items[i].op : i \in Upload!OpenOf(batch)} \ {{}} :
          tabs' = [tabs EXCEPT ![t].prep["resume"] = [batch |-> batch, files |-> matching]]
    BY DEF Upload!Resume, Upload!Resumed, Upload!Account
  <1> DEFINE prep == [batch |-> batch, files |-> matching]
             tab == [tabs[t] EXCEPT !.prep["resume"] = prep]
  <1>4. matching \in SUBSET Ops
    BY <1>2, ItemsOf DEF Upload!OpenOf
  <1>5. prep \in PrepRecord /\ prep.batch = batch
    BY <1>2, <1>4 DEF PrepRecord
  <1>6. tabs' = [tabs EXCEPT ![t] = tab]
    BY <1>3
  <1> HIDE DEF prep
  <1>7. tab \in TabRecord /\ tab.account = a /\ tab.running = tabs[t].running
        /\ tab.prep["resume"] = prep /\ tab.prep["upload"] = tabs[t].prep["upload"]
    BY <1>1, <1>5 DEF TabRecord, Buttons
  <1> HIDE DEF tab
  <1>8. BatchesOf(tab) \subseteq BatchesOf(tabs[t]) \cup {batch}
    BY <1>5, <1>7 DEF BatchesOf, Buttons
  <1>9. TabSound(tab)
    <2>1. \A x \in BatchesOf(tab) : Sound(x)
      BY <1>1, <1>2, <1>8 DEF TabSound
    <2>2. \A b \in Buttons : tab.prep[b] = Upload!NoPrep \/ tab.prep[b].batch # NoValue
      BY <1>1, <1>5, <1>7 DEF TabSound, Buttons
    <2> QED BY <1>1, <1>7, <2>1, <2>2 DEF TabSound
  <1>10. \A x \in BatchesOf(tab) : AtHome(x.id, tabs[t].account)
    BY <1>1, <1>8 DEF AtHome
  <1> QED BY <1>1, <1>6, <1>7, <1>9, <1>10, TabMoves

\* A batch that was prepared to be resumed runs, unless another does.
LEMMA ResumeCheckedKeeps ==
    ASSUME UploadInv, NEW t \in Tabs, Upload!ResumeChecked(t)
    PROVE  UploadInv'
  <1> DEFINE a == tabs[t].account
             prep == tabs[t].prep["resume"]
             tab == [tabs[t] EXCEPT !.prep["resume"] = Upload!NoPrep]
             ts == [tabs EXCEPT ![t].prep["resume"] = Upload!NoPrep]
             run == [Upload!Idle EXCEPT !.run = prep.batch, !.files = prep.files]
  <1>1. /\ tab \in TabRecord /\ tab.account = a /\ tab.running = tabs[t].running
        /\ tab.prep["resume"] = Upload!NoPrep /\ tab.prep["upload"] = tabs[t].prep["upload"]
        /\ TabSound(tab) /\ \A x \in BatchesOf(tab) : AtHome(x.id, a)
    BY PrepDropped DEF Buttons
  <1>2. a \in Accounts /\ TabSound(tabs[t]) /\ prep \in PrepRecord /\ prep # Upload!NoPrep
    BY DEF UploadInv, UploadTyped, TabRecord, Buttons, Upload!ResumeChecked
  <1>3. prep.batch \in BatchRecord /\ prep.batch \in BatchesOf(tabs[t]) /\ prep.files \in SUBSET Ops
    BY <1>2 DEF TabSound, PrepRecord, Buttons, BatchesOf
  <1>4. Sound(prep.batch) /\ AtHome(prep.batch.id, a)
    BY <1>2, <1>3 DEF TabSound, AtHome
  <1>5. /\ UNCHANGED <<batches, mixed>>
        /\ \/ Upload!Continue(ts, t, run)
           \/ tabs' = ts /\ UNCHANGED <<stored, requests, given>>
    BY DEF Upload!ResumeChecked
  <1>6. /\ ts = [tabs EXCEPT ![t] = tab] /\ ts[t] = tab /\ \A u \in Tabs \ {t} : ts[u] = tabs[u]
        /\ ts \in [Tabs -> TabRecord]
    BY <1>1 DEF UploadInv, UploadTyped
  <1>7. run \in BatchRun /\ run.run = prep.batch
    BY <1>3 DEF Upload!Idle, BatchRun
  <1> HIDE DEF tab, ts, run
  <1>8. CASE Upload!Continue(ts, t, run)
    <2>1. \A b \in Buttons : ts[t].prep[b] \in {Upload!NoPrep, tabs[t].prep[b]}
      BY <1>1, <1>6 DEF Buttons
    <2>2. ts[t].prep["upload"] = tabs[t].prep["upload"]
      BY <1>1, <1>6
    <2>3. run.run \in BatchRecord /\ Sound(run.run) /\ AtHome(run.run.id, a) /\ ts[t].account = a
      BY <1>1, <1>3, <1>4, <1>6, <1>7
    <2> HIDE DEF prep
    <2> QED BY <1>5, <1>6, <1>7, <1>8, <2>1, <2>2, <2>3, ContinueKeeps
  <1>9. CASE tabs' = ts /\ UNCHANGED <<stored, requests, given>>
    BY <1>1, <1>5, <1>6, <1>9, TabMoves
  <1> QED BY <1>5, <1>8, <1>9

\* A run that only notes something, or is over.
LEMMA RunChanges ==
    ASSUME UploadInv, NEW t \in Tabs, NEW r \in BatchRun, r.run \in {tabs[t].running.run, NoValue},
           r.step = "send" => r.run # NoValue /\ r.at \in DOMAIN r.run.items
    PROVE  LET tab == [tabs[t] EXCEPT !.running = r]
           IN  /\ tab \in TabRecord /\ tab.account = tabs[t].account /\ tab.prep = tabs[t].prep /\ TabSound(tab)
               /\ BatchesOf(tab) \subseteq BatchesOf(tabs[t]) /\ \A x \in BatchesOf(tab) : AtHome(x.id, tabs[t].account)
               /\ [tabs EXCEPT ![t].running = r] = [tabs EXCEPT ![t] = tab]
  <1> DEFINE tab == [tabs[t] EXCEPT !.running = r]
  <1>1. tabs[t] \in TabRecord /\ TabSound(tabs[t])
    BY DEF UploadInv, UploadTyped
  <1>2. tab \in TabRecord /\ tab.account = tabs[t].account /\ tab.prep = tabs[t].prep /\ tab.running = r
    BY <1>1 DEF TabRecord
  <1>3. [tabs EXCEPT ![t].running = r] = [tabs EXCEPT ![t] = tab]
    OBVIOUS
  <1> HIDE DEF tab
  <1>4. BatchesOf(tab) \subseteq BatchesOf(tabs[t])
    BY <1>1, <1>2 DEF BatchesOf
  <1>5. TabSound(tab)
    BY <1>1, <1>2, <1>4 DEF TabSound
  <1>6. \A x \in BatchesOf(tab) : AtHome(x.id, tabs[t].account)
    BY <1>4 DEF AtHome
  <1> QED BY <1>2, <1>3, <1>4, <1>5, <1>6 DEF tab

\* The run is told to stop.
LEMMA BatchCancelKeeps ==
    ASSUME UploadInv, NEW t \in Tabs, Upload!Cancel(t)
    PROVE  UploadInv'
  <1> DEFINE r == [tabs[t].running EXCEPT !.cancel = TRUE]
             tab == [tabs[t] EXCEPT !.running = r]
  <1>1. tabs[t].running \in BatchRun /\ TabSound(tabs[t])
    BY DEF UploadInv, UploadTyped, TabRecord
  <1>2. r \in BatchRun /\ r.run = tabs[t].running.run /\ r.step = tabs[t].running.step /\ r.at = tabs[t].running.at
    BY <1>1 DEF BatchRun
  <1>3. tabs' = [tabs EXCEPT ![t].running = r] /\ UNCHANGED <<stored, requests, batches, given, mixed>>
    BY DEF Upload!Cancel
  <1> HIDE DEF r
  <1>4. r.step = "send" => r.run # NoValue /\ r.at \in DOMAIN r.run.items
    BY <1>1, <1>2 DEF TabSound
  <1>5. /\ tab \in TabRecord /\ tab.account = tabs[t].account /\ tab.prep = tabs[t].prep /\ TabSound(tab)
        /\ \A x \in BatchesOf(tab) : AtHome(x.id, tabs[t].account)
        /\ tabs' = [tabs EXCEPT ![t] = tab]
    BY <1>2, <1>3, <1>4, RunChanges
  <1> HIDE DEF tab
  <1> QED BY <1>3, <1>5, TabMoves

\* A run is over.
LEMMA RefreshedKeeps ==
    ASSUME UploadInv, NEW t \in Tabs, Upload!Refreshed(t)
    PROVE  UploadInv'
  <1> DEFINE r == Upload!Idle
             tab == [tabs[t] EXCEPT !.running = r]
  <1>1. r \in BatchRun /\ r.run = NoValue /\ r.step = "idle"
    BY DEF Upload!Idle, BatchRun
  <1>2. tabs' = [tabs EXCEPT ![t].running = r] /\ UNCHANGED <<stored, requests, batches, given, mixed>>
    BY DEF Upload!Refreshed
  <1> HIDE DEF r
  <1>3. /\ tab \in TabRecord /\ tab.account = tabs[t].account /\ tab.prep = tabs[t].prep /\ TabSound(tab)
        /\ \A x \in BatchesOf(tab) : AtHome(x.id, tabs[t].account)
        /\ tabs' = [tabs EXCEPT ![t] = tab]
    BY <1>1, <1>2, RunChanges
  <1> HIDE DEF tab
  <1> QED BY <1>2, <1>3, TabMoves

\* An answer, or none.
LEMMA SettleBatchKeeps ==
    ASSUME UploadInv, NEW t \in Tabs, tabs[t].running.step = "send",
           NEW state \in {"done", "failed", "unknown"}, Upload!Settle(t, state),
           state # "unknown" => \E x \in requests.rows \cup requests.refused : x[2] = Upload!Op(t)
    PROVE  UploadInv'
  <1> DEFINE a == tabs[t].account
             old == tabs[t].running
             batch == Marked(old.run, old.at, state)
             run == [old EXCEPT !.run = batch]
  <1>1. tabs[t] \in TabRecord /\ old \in BatchRun /\ TabSound(tabs[t])
    BY DEF UploadInv, UploadTyped, TabRecord
  <1>2. old.run \in BatchRecord /\ old.at \in DOMAIN old.run.items /\ old.run \in BatchesOf(tabs[t])
    BY <1>1 DEF TabSound, BatchRun, BatchesOf
  <1>3. Sound(old.run) /\ AtHome(old.run.id, a)
    BY <1>1, <1>2 DEF TabSound, AtHome
  <1>4. state \in States /\ (state \in {"done", "failed"} => Served(old.run.id, old.run.items[old.at].op.file))
    BY <1>2, <1>3 DEF States, Sound, Served, Upload!Op, Upload!Running
  <1>5. batch \in BatchRecord /\ Sound(batch) /\ batch.id = old.run.id
    BY <1>2, <1>3, <1>4, ItemMoves
  <1>6. Upload!Continue(tabs, t, run) /\ UNCHANGED <<batches, mixed>>
    BY DEF Upload!Settle, Upload!Running, Marked
  <1> HIDE DEF batch
  <1>7. run \in BatchRun /\ run.run = batch
    BY <1>1, <1>5 DEF BatchRun
  <1> HIDE DEF run
  <1>8. tabs \in [Tabs -> TabRecord]
    BY DEF UploadInv, UploadTyped
  <1> QED BY <1>3, <1>5, <1>6, <1>7, <1>8, ContinueKeeps

\* The same request once more.
LEMMA AgainKeeps ==
    ASSUME UploadInv, NEW t \in Tabs, Upload!Again(t)
    PROVE  UploadInv'
  <1> DEFINE a == tabs[t].account
             old == tabs[t].running
             r == [old EXCEPT !.sentFor = a]
             tab == [tabs[t] EXCEPT !.running = r]
             op == old.run.items[old.at].op
  <1>1. tabs[t] \in TabRecord /\ old \in BatchRun /\ TabSound(tabs[t]) /\ a \in Accounts /\ old.step = "send"
    BY DEF UploadInv, UploadTyped, TabRecord, Upload!Again, Upload!Running
  <1>2. /\ old.run \in BatchRecord /\ old.at \in DOMAIN old.run.items /\ old.run # NoValue
        /\ old.run \in BatchesOf(tabs[t])
    BY <1>1 DEF TabSound, BatchRun, BatchesOf
  <1>3. op \in Ops /\ op.batch = old.run.id
    BY <1>1, <1>2, ItemsOf DEF TabSound, Sound
  <1>4. /\ requests' = [requests EXCEPT !.sent = @ \cup {<<a, op>>}] /\ tabs' = [tabs EXCEPT ![t].running = r]
        /\ UNCHANGED <<stored, batches, given, mixed>>
    BY DEF Upload!Again, Upload!Account, Upload!Op, Upload!Running
  <1> HIDE DEF op
  <1>5. r \in BatchRun /\ r.run = old.run /\ r.at = old.at
    BY <1>1 DEF BatchRun
  <1> HIDE DEF r
  <1>6. /\ tab \in TabRecord /\ tab.account = a /\ tab.prep = tabs[t].prep /\ TabSound(tab)
        /\ \A x \in BatchesOf(tab) : AtHome(x.id, a)
        /\ tabs' = [tabs EXCEPT ![t] = tab]
    BY <1>2, <1>4, <1>5, RunChanges
  <1> HIDE DEF tab
  <1>7. /\ requests'.sent = requests.sent \cup {<<a, op>>}
        /\ requests'.rows = requests.rows /\ requests'.refused = requests.refused
        /\ requests' \in [sent : Places, rows : Places, refused : Places]
    BY <1>1, <1>3, <1>4 DEF UploadInv, UploadTyped, Places
  <1>8. AtHome(old.run.id, a) /\ old.run.id \in DOMAIN batches
    BY <1>1, <1>2 DEF AtHome, TabSound, Sound
  <1>9. \A x \in requests'.sent \ requests.sent : x[1] = a /\ x[2].batch \in DOMAIN batches /\ AtHome(x[2].batch, a)
    BY <1>3, <1>7, <1>8
  <1> QED BY <1>4, <1>6, <1>7, <1>9, TabSends

\* A tab is reloaded: what it had prepared is gone.
LEMMA BatchReloadKeeps ==
    ASSUME UploadInv, NEW t \in Tabs, Upload!Reload(t)
    PROVE  UploadInv'
  <1> DEFINE empty == [b \in Buttons |-> Upload!NoPrep]
             tab == [tabs[t] EXCEPT !.running = Upload!Idle, !.prep = empty]
  <1>1. /\ tabs' = [tabs EXCEPT ![t].running = Upload!Idle, ![t].prep = empty]
        /\ UNCHANGED <<stored, requests, batches, mixed>>
    BY DEF Upload!Reload, Upload!Buttons, Buttons
  <1>2. tabs' = [tabs EXCEPT ![t] = tab]
    BY <1>1
  <1>3. given \subseteq given' /\ (tabs[t].prep["upload"] # Upload!NoPrep => tabs[t].prep["upload"].batch.id \in given')
    BY DEF Upload!Reload
  <1>4. Upload!Idle \in BatchRun /\ Upload!Idle.run = NoValue /\ Upload!Idle.step = "idle"
    BY DEF Upload!Idle, BatchRun
  <1>5. /\ empty \in [Buttons -> PrepRecord] /\ \A b \in Buttons : empty[b] = Upload!NoPrep
        /\ Upload!NoPrep.batch = NoValue
    BY DEF Upload!NoPrep, PrepRecord
  <1> HIDE DEF empty
  <1>6. tab \in TabRecord /\ tab.account = tabs[t].account /\ tab.running = Upload!Idle /\ tab.prep = empty
    BY <1>4, <1>5 DEF UploadInv, UploadTyped, TabRecord
  <1> HIDE DEF tab
  <1>7. BatchesOf(tab) = {}
    BY <1>4, <1>5, <1>6 DEF BatchesOf
  <1>8. TabSound(tab)
    BY <1>4, <1>5, <1>6, <1>7 DEF TabSound
  <1> QED BY <1>1, <1>2, <1>3, <1>6, <1>7, <1>8, TabMoves

\* The user gives the batch up.
LEMMA DiscardKeeps ==
    ASSUME UploadInv, NEW t \in Tabs, Upload!Discard(t)
    PROVE  UploadInv'
  <1> DEFINE a == tabs[t].account
  <1>1. /\ a \in Accounts /\ stored[a] # NoValue /\ stored' = [stored EXCEPT ![a] = NoValue]
        /\ given' = given \cup {stored[a].id} /\ UNCHANGED <<tabs, requests, batches, mixed>>
    BY DEF UploadInv, UploadTyped, TabRecord, Upload!Discard, Upload!Account, Upload!Saved
  <1>2. /\ stored'[a] = NoValue /\ \A c \in Accounts \ {a} : stored'[c] = stored[c]
        /\ stored' \in [Accounts -> BatchRecord \cup {NoValue}]
    BY <1>1 DEF UploadInv, UploadTyped
  <1>3. UploadTyped'
    BY <1>1, <1>2 DEF UploadInv, UploadTyped
  <1>4. /\ \A b, f : Served(b, f)' <=> Served(b, f)
        /\ \A x : Sound(x)' <=> Sound(x)
    BY <1>1 DEF Sound, Served
  <1>5. \A u \in Tabs : TabSound(tabs[u])'
    BY <1>1, <1>4 DEF UploadInv, TabSound, BatchesOf
  <1>6. ASSUME NEW c \in Accounts, stored'[c] # NoValue PROVE Sound(stored[c])'
    BY <1>1, <1>2, <1>4, <1>6 DEF UploadInv, Sound, Served
  <1>7. \A b : \A c \in Accounts : AtHome(b, c)' => AtHome(b, c)
    BY <1>1, <1>2 DEF AtHome, BatchesOf
  <1>8. \A b \in DOMAIN batches' \ mixed' : OneHome(b)'
    BY <1>1, <1>7 DEF UploadInv, OneHome
  <1>9. ASSUME NEW b \in DOMAIN batches' \ (given' \cup mixed') PROVE Held(b)'
    <2>1. Held(b) /\ b \notin given' /\ Upload!NoPrep' = Upload!NoPrep
      BY <1>1 DEF UploadInv, Upload!NoPrep
    <2>2. ASSUME NEW c \in Accounts, stored[c] # NoValue, stored[c].id = b
          PROVE  stored'[c] # NoValue /\ stored'[c].id = b
      BY <1>1, <1>2, <2>1, <2>2
    <2> QED BY <1>1, <1>4, <2>1, <2>2 DEF Held
  <1> QED BY <1>1, <1>3, <1>5, <1>6, <1>8, <1>9 DEF UploadInv

\* The server answers a request.
LEMMA ServeBatchKeeps ==
    ASSUME UploadInv, NEW x \in requests.sent, Upload!Serve(x)
    PROVE  UploadInv'
  <1>1. /\ requests' \in [sent : Places, rows : Places, refused : Places] /\ requests'.sent = requests.sent
        /\ requests.rows \subseteq requests'.rows /\ requests.refused \subseteq requests'.refused
        /\ requests'.rows \subseteq requests'.sent /\ requests'.refused \subseteq requests'.sent
    <2>1. requests \in [sent : Places, rows : Places, refused : Places]
          /\ requests.rows \subseteq requests.sent /\ requests.refused \subseteq requests.sent
      BY DEF UploadInv, UploadTyped
    <2>2. CASE requests' = [requests EXCEPT !.rows = @ \cup {x}]
      BY <2>1, <2>2 DEF Places
    <2>3. CASE requests' = [requests EXCEPT !.refused = @ \cup {x}]
      BY <2>1, <2>3 DEF Places
    <2> QED BY <2>2, <2>3 DEF Upload!Serve
  <1>2. UNCHANGED <<stored, tabs, batches, given, mixed>> /\ Upload!NoPrep' = Upload!NoPrep
    BY DEF Upload!Serve, Upload!NoPrep
  <1>3. UploadTyped'
    BY <1>1, <1>2 DEF UploadInv, UploadTyped
  <1>4. /\ \A b, f : Served(b, f) => Served(b, f)'
        /\ \A y : Sound(y) => Sound(y)'
    <2>1. \A b, f : Served(b, f) => Served(b, f)'
      BY <1>1 DEF Served
    <2> QED BY <1>2, <2>1 DEF Sound
  <1>5. \A u \in Tabs : TabSound(tabs[u])'
    BY <1>2, <1>4 DEF UploadInv, TabSound, BatchesOf
  <1>6. ASSUME NEW a \in Accounts, stored'[a] # NoValue PROVE Sound(stored[a])'
    <2>1. Sound(stored[a])
      BY <1>2, <1>6 DEF UploadInv
    <2> QED BY <1>2, <1>4, <2>1 DEF Sound
  <1>7. \A b : \A a \in Accounts : AtHome(b, a)' <=> AtHome(b, a)
    BY <1>1, <1>2 DEF AtHome, BatchesOf
  <1>8. \A b \in DOMAIN batches' \ mixed' : OneHome(b)'
    BY <1>2, <1>7 DEF UploadInv, OneHome
  <1>9. \A b \in DOMAIN batches' \ (given' \cup mixed') : Held(b)'
    BY <1>2, <1>4 DEF UploadInv, Held
  <1>10. \A y \in requests'.sent : y[2].batch \in DOMAIN batches'
    BY <1>1, <1>2 DEF UploadInv
  <1> QED BY <1>1, <1>3, <1>5, <1>6, <1>8, <1>9, <1>10 DEF UploadInv

\* A tab changes its account: what it has in hand is no longer of one account.
LEMMA SwitchKeeps ==
    ASSUME UploadInv, NEW t \in Tabs, NEW a \in Accounts, Upload!Switch(t, a)
    PROVE  UploadInv'
  <1> DEFINE tab == [tabs[t] EXCEPT !.account = a]
  <1>1. /\ tabs' = [tabs EXCEPT ![t] = tab] /\ UNCHANGED <<stored, requests, batches, given>>
        /\ mixed' = mixed \cup {x.id : x \in BatchesOf(tabs[t])} /\ Upload!NoPrep' = Upload!NoPrep
    BY InTabIs DEF Upload!Switch, Upload!NoPrep
  <1>2. tab \in TabRecord /\ tab.account = a /\ tab.running = tabs[t].running /\ tab.prep = tabs[t].prep
    BY DEF UploadInv, UploadTyped, TabRecord
  <1> HIDE DEF tab
  <1>3. tabs'[t] = tab /\ (\A u \in Tabs \ {t} : tabs'[u] = tabs[u]) /\ tabs' \in [Tabs -> TabRecord]
    BY <1>1, <1>2 DEF UploadInv, UploadTyped
  <1>4. \A u \in Tabs : tabs'[u].running = tabs[u].running /\ tabs'[u].prep = tabs[u].prep
    BY <1>2, <1>3
  <1>5. UploadTyped'
    BY <1>1, <1>3 DEF UploadInv, UploadTyped
  <1>6. /\ \A b, f : Served(b, f)' <=> Served(b, f)
        /\ \A x : Sound(x)' <=> Sound(x)
    BY <1>1 DEF Sound, Served
  <1>7. \A u \in Tabs : TabSound(tabs[u])'
    BY <1>1, <1>4, <1>6 DEF UploadInv, TabSound, BatchesOf
  <1>8. ASSUME NEW c \in Accounts, stored'[c] # NoValue PROVE Sound(stored[c])'
    BY <1>1, <1>6, <1>8 DEF UploadInv, Sound, Served
  <1>9. ASSUME NEW b, b \notin mixed', NEW c \in Accounts, AtHome(b, c)' PROVE AtHome(b, c)
    <2>1. ASSUME NEW u \in Tabs, tabs'[u].account = c, NEW x \in BatchesOf(tabs'[u]), x.id = b PROVE AtHome(b, c)
      <3>1. x \in BatchesOf(tabs[u])
        BY <1>4, <2>1 DEF BatchesOf
      <3>2. u # t
        BY <1>1, <1>9, <2>1, <3>1
      <3> QED BY <1>3, <2>1, <3>1, <3>2 DEF AtHome
    <2> QED BY <1>1, <1>9, <2>1 DEF AtHome, BatchesOf
  <1>10. \A b \in DOMAIN batches' \ mixed' : OneHome(b)'
    BY <1>1, <1>9 DEF UploadInv, OneHome
  <1>11. \A b \in DOMAIN batches' \ (given' \cup mixed') : Held(b)'
    BY <1>1, <1>4, <1>6 DEF UploadInv, Held
  <1> QED BY <1>1, <1>5, <1>7, <1>8, <1>10, <1>11 DEF UploadInv

\* Each step keeps it.
LEMMA UploadStepKeeps ==
    ASSUME UploadInv, Upload!Next
    PROVE  UploadInv'
  <1>1. ASSUME NEW t \in Tabs, NEW n \in 1 .. MaxFiles, NEW chosen \in Upload!Injection(1 .. n, Files),
               Upload!Choose(t, chosen)
        PROVE  UploadInv'
    <2>1. chosen \in [1 .. n -> Files] /\ n \in Nat
      BY DEF Upload!Injection
    <2> QED BY <1>1, <2>1, ChooseKeeps
  <1>2. ASSUME NEW t \in Tabs, Upload!Chosen(t) PROVE UploadInv'
    BY <1>2, ChosenKeeps
  <1>3. ASSUME NEW t \in Tabs, Upload!Resume(t) PROVE UploadInv'
    BY <1>3, ResumeKeeps
  <1>4. ASSUME NEW t \in Tabs, Upload!ResumeChecked(t) PROVE UploadInv'
    BY <1>4, ResumeCheckedKeeps
  <1>5. ASSUME NEW t \in Tabs, Upload!Cancel(t) PROVE UploadInv'
    BY <1>5, BatchCancelKeeps
  <1>6. ASSUME NEW t \in Tabs, Upload!Discard(t) PROVE UploadInv'
    BY <1>6, DiscardKeeps
  <1>7. ASSUME NEW t \in Tabs, Upload!Done(t) PROVE UploadInv'
    <2>1. tabs[t].running.step = "send" /\ Upload!Settle(t, "done")
          /\ \E x \in requests.rows \cup requests.refused : x[2] = Upload!Op(t)
      BY <1>7 DEF Upload!Done, Upload!Running
    <2> QED BY <2>1, SettleBatchKeeps
  <1>8. ASSUME NEW t \in Tabs, Upload!Failed(t) PROVE UploadInv'
    <2>1. tabs[t].running.step = "send" /\ Upload!Settle(t, "failed")
          /\ \E x \in requests.rows \cup requests.refused : x[2] = Upload!Op(t)
      BY <1>8 DEF Upload!Failed, Upload!Running
    <2> QED BY <2>1, SettleBatchKeeps
  <1>9. ASSUME NEW t \in Tabs, Upload!Unknown(t) PROVE UploadInv'
    <2>1. tabs[t].running.step = "send" /\ Upload!Settle(t, "unknown")
      BY <1>9 DEF Upload!Unknown, Upload!Settle, Upload!Running
    <2> QED BY <2>1, SettleBatchKeeps
  <1>10. ASSUME NEW t \in Tabs, Upload!Again(t) PROVE UploadInv'
    BY <1>10, AgainKeeps
  <1>11. ASSUME NEW t \in Tabs, Upload!Refreshed(t) PROVE UploadInv'
    BY <1>11, RefreshedKeeps
  <1>12. ASSUME NEW t \in Tabs, Upload!Reload(t) PROVE UploadInv'
    BY <1>12, BatchReloadKeeps
  <1>13. ASSUME NEW t \in Tabs, NEW a \in Accounts, Upload!Switch(t, a) PROVE UploadInv'
    BY <1>13, SwitchKeeps
  <1>14. ASSUME NEW x \in requests.sent, Upload!Serve(x) PROVE UploadInv'
    BY <1>14, ServeBatchKeeps
  <1> QED BY <1>1, <1>2, <1>3, <1>4, <1>5, <1>6, <1>7, <1>8, <1>9, <1>10, <1>11, <1>12, <1>13, <1>14 DEF Upload!Next

\* At the start nothing is stored.
LEMMA UploadInitHolds ==
    ASSUME Upload!Init
    PROVE  UploadInv
  <1>1. /\ stored = [a \in Accounts |-> NoValue] /\ batches = <<>>
        /\ requests = [sent |-> {}, rows |-> {}, refused |-> {}]
        /\ \E a \in Accounts : tabs = [t \in Tabs |-> [account |-> a, running |-> Upload!Idle,
                                                     prep |-> [b \in Buttons |-> Upload!NoPrep]]]
    BY DEF Upload!Init, Upload!Buttons, Buttons
  <1>2. /\ Upload!Idle \in BatchRun /\ Upload!Idle.run = NoValue /\ Upload!Idle.step = "idle"
        /\ Upload!NoPrep \in PrepRecord /\ Upload!NoPrep.batch = NoValue
    BY DEF Upload!Idle, BatchRun, Upload!NoPrep, PrepRecord
  <1>3. ASSUME NEW t \in Tabs
        PROVE  /\ tabs[t] \in TabRecord /\ tabs[t].running = Upload!Idle
               /\ \A b \in Buttons : tabs[t].prep[b] = Upload!NoPrep
    BY <1>1, <1>2 DEF TabRecord
  <1>4. UploadTyped
    BY <1>1, <1>3 DEF UploadTyped, Places
  <1>5. \A t \in Tabs : TabSound(tabs[t])
    <2> SUFFICES ASSUME NEW t \in Tabs PROVE TabSound(tabs[t])
      OBVIOUS
    <2>1. BatchesOf(tabs[t]) = {}
      BY <1>2, <1>3 DEF BatchesOf
    <2> QED BY <1>2, <1>3, <2>1 DEF TabSound
  <1>6. DOMAIN batches = {}
    BY <1>1
  <1> QED BY <1>1, <1>4, <1>5, <1>6 DEF UploadInv

-----------------------------------------------------------------------------
(* The forms with a file *)

RecordsOf(n) == [Accounts -> [id : 1 .. n, content : Contents] \cup {NoValue}]
Answers == {"new", "working", "done", "refused"}
TaskRecord(n) ==
    [at : {"free", "scope", "query", "send"}, tab : Tabs \cup {NoValue}, slot : Accounts \cup {NoValue},
     content : Contents \cup {NoValue}, owner : Nat, id : 0 .. n, seen : RecordsOf(n) \cup {NoValue}]

FormTyped ==
    /\ ids \in Seq(Accounts) /\ requests \in Seq(Answers) /\ Len(requests) = Len(ids)
    /\ records \in RecordsOf(Len(ids)) /\ tasks \in [Tasks -> TaskRecord(Len(ids))]
    /\ identity \in Nat

\* A task that asks has the ID of the record it has read.
TaskSound(k) ==
    /\ tasks[k].at # "free" => tasks[k].slot \in Accounts /\ tasks[k].content \in Contents
    /\ tasks[k].at \in {"query", "send"} => tasks[k].id \in DOMAIN ids
    /\ tasks[k].at = "query" => /\ tasks[k].seen \in RecordsOf(Len(ids)) /\ tasks[k].seen[tasks[k].slot] # NoValue
                                /\ tasks[k].seen[tasks[k].slot].id = tasks[k].id

\* The operation of a slot whose end no page was told is the one that is recorded, unless
\* the record was replaced or removed.
Recorded(s) ==
    \A i \in DOMAIN ids : ids[i] = s /\ i \notin told => records[s] # NoValue /\ records[s].id = i

FormInv ==
    /\ FormTyped
    /\ \A k \in Tasks : TaskSound(k)
    /\ \A s \in Accounts \ mixed : Recorded(s)
    /\ \A i \in unsure : i \in DOMAIN ids /\ ids[i] \in mixed

\* More operations have more numbers.
LEMMA MoreRecords ==
    ASSUME NEW n \in Nat, NEW m \in Nat, n <= m
    PROVE  RecordsOf(n) \subseteq RecordsOf(m) /\ TaskRecord(n) \subseteq TaskRecord(m)
  <1>1. 1 .. n \subseteq 1 .. m /\ 0 .. n \subseteq 0 .. m
    OBVIOUS
  <1>2. RecordsOf(n) \subseteq RecordsOf(m)
    <2>1. [id : 1 .. n, content : Contents] \subseteq [id : 1 .. m, content : Contents]
      BY <1>1
    <2> QED BY <2>1 DEF RecordsOf
  <1>3. TaskRecord(n) \subseteq TaskRecord(m)
    BY <1>1, <1>2 DEF TaskRecord
  <1> QED BY <1>2, <1>3

\* A task of a stage.
LEMMA TaskIs ==
    ASSUME FormInv, NEW k \in Tasks
    PROVE  tasks[k] \in TaskRecord(Len(ids)) /\ Form!Task(k) = tasks[k]
  BY DEF FormInv, FormTyped, Form!Task

\* A new operation is recorded before it is sent.  Nobody waits for the end of an older one
\* of the slot, unless the record was another one than the task had read.
LEMMA AllocateKeeps ==
    ASSUME FormInv, NEW k \in Tasks, tasks[k].at # "free", NEW read \in RecordsOf(Len(ids)), Form!Allocate(k, read),
           told \subseteq told', identity' \in Nat,
           tasks[k].slot \notin mixed' => \A i \in DOMAIN ids : ids[i] = tasks[k].slot => i \in told'
    PROVE  FormInv'
  <1> DEFINE s == tasks[k].slot
             n == Len(ids) + 1
             record == [id |-> n, content |-> tasks[k].content]
             written == [read EXCEPT ![s] = record]
             task == [tasks[k] EXCEPT !.at = "send", !.id = n, !.seen = NoValue]
  <1>1. /\ Len(ids) \in Nat /\ DOMAIN ids = 1 .. Len(ids)
        /\ tasks[k] \in TaskRecord(Len(ids)) /\ Form!Task(k) = tasks[k]
        /\ s \in Accounts /\ tasks[k].content \in Contents
    BY TaskIs DEF FormInv, FormTyped, TaskSound
  <1>2. /\ records' = written
        /\ mixed' = mixed \cup {z \in Accounts : z # s /\ written[z] # records[z]}
                          \cup {z \in {s} : records[z] # read[z]}
        /\ ids' = Append(ids, s) /\ requests' = Append(requests, "new")
        /\ unsure' = IF \E i \in DOMAIN ids : ids[i] = s /\ i \notin told' THEN unsure \cup {n} ELSE unsure
        /\ tasks' = [tasks EXCEPT ![k] = task]
    BY <1>1 DEF Form!Allocate, TaskRecord
  <1>3. /\ ids' \in Seq(Accounts) /\ Len(ids') = n /\ DOMAIN ids' = 1 .. n
        /\ requests' \in Seq(Answers) /\ Len(requests') = n
        /\ ids'[n] = s /\ \A i \in DOMAIN ids : ids'[i] = ids[i]
    BY <1>1, <1>2 DEF FormInv, FormTyped, Answers
  <1>4. RecordsOf(Len(ids)) \subseteq RecordsOf(n) /\ TaskRecord(Len(ids)) \subseteq TaskRecord(n)
    BY <1>1, MoreRecords
  <1>5. record \in [id : 1 .. n, content : Contents] /\ record # NoValue /\ record.id = n
    BY <1>1, NoValueAssumption
  <1>6. task \in TaskRecord(n) /\ task.at = "send" /\ task.id = n
        /\ task.slot = s /\ task.content = tasks[k].content
    <2>1. tasks[k] \in TaskRecord(n) /\ n \in 0 .. n
      BY <1>1, <1>4
    <2> QED BY <2>1 DEF TaskRecord
  <1> HIDE DEF record, task
  <1>7. records' \in RecordsOf(n) /\ records'[s] = record /\ \A z \in Accounts \ {s} : records'[z] = read[z]
    BY <1>1, <1>2, <1>4, <1>5 DEF RecordsOf
  <1>8. FormTyped'
    <2>1. tasks' \in [Tasks -> TaskRecord(n)]
      BY <1>2, <1>4, <1>6 DEF FormInv, FormTyped
    <2> QED BY <1>3, <1>7, <2>1 DEF FormTyped
  <1>9. ASSUME NEW j \in Tasks PROVE TaskSound(j)'
    <2>1. CASE j = k
      <3>1. tasks'[j] = task
        BY <1>2, <2>1 DEF FormInv, FormTyped
      <3> QED BY <1>1, <1>3, <1>6, <3>1 DEF TaskSound
    <2>2. CASE j # k
      <3>1. tasks'[j] = tasks[j] /\ TaskSound(j)
        BY <1>2, <2>2 DEF FormInv, FormTyped
      <3> QED BY <1>1, <1>3, <1>4, <3>1 DEF TaskSound
    <2> QED BY <2>1, <2>2
  <1>10. ASSUME NEW z \in Accounts \ mixed' PROVE Recorded(z)'
    <2> SUFFICES ASSUME NEW i \in 1 .. n, ids'[i] = z, i \notin told'
                 PROVE  records'[z] # NoValue /\ records'[z].id = i
      BY <1>3 DEF Recorded
    <2>1. CASE i = n
      BY <1>1, <1>3, <1>5, <1>7, <2>1
    <2>2. CASE i # n
      <3>1. i \in DOMAIN ids /\ ids[i] = z /\ i \notin told
        BY <1>1, <1>3, <2>2
      <3>2. z # s /\ z \notin mixed
        BY <3>1, <1>2
      <3>3. records'[z] = records[z]
        BY <1>2, <3>2
      <3>4. Recorded(z)
        BY <3>2 DEF FormInv
      <3> QED BY <3>1, <3>3, <3>4 DEF Recorded
    <2> QED BY <2>1, <2>2
  <1>11. ASSUME NEW i \in unsure' PROVE i \in DOMAIN ids' /\ ids'[i] \in mixed'
    <2>1. CASE i \in unsure
      BY <1>1, <1>2, <1>3, <2>1 DEF FormInv
    <2>2. CASE i \notin unsure
      <3>1. i = n /\ \E j \in DOMAIN ids : ids[j] = s /\ j \notin told'
        BY <1>2, <2>2
      <3> QED BY <1>1, <1>2, <1>3, <3>1
    <2> QED BY <2>1, <2>2
  <1> QED BY <1>8, <1>9, <1>10, <1>11 DEF FormInv

\* What only moves the tasks.
LEMMA TasksMove ==
    ASSUME FormInv, UNCHANGED <<records, requests, ids, unsure, mixed>>, told \subseteq told', identity' \in Nat,
           tasks' \in [Tasks -> TaskRecord(Len(ids))], \A k \in Tasks : TaskSound(k)'
    PROVE  FormInv'
  <1>1. FormTyped'
    BY DEF FormInv, FormTyped
  <1>2. \A s \in Accounts \ mixed' : Recorded(s)'
    BY DEF FormInv, Recorded
  <1>3. \A i \in unsure' : i \in DOMAIN ids' /\ ids'[i] \in mixed'
    BY DEF FormInv
  <1> QED BY <1>1, <1>2, <1>3 DEF FormInv

\* The one task that moves.
LEMMA TaskMoves ==
    ASSUME FormInv, UNCHANGED <<records, requests, ids, unsure, mixed>>, told \subseteq told', identity' \in Nat,
           NEW k \in Tasks, NEW task \in TaskRecord(Len(ids)), tasks' = [tasks EXCEPT ![k] = task],
           TaskSound(k)'
    PROVE  FormInv'
  <1>1. tasks' \in [Tasks -> TaskRecord(Len(ids))]
    BY DEF FormInv, FormTyped
  <1>2. ASSUME NEW j \in Tasks PROVE TaskSound(j)'
    <2>1. CASE j = k
      BY <2>1
    <2>2. CASE j # k
      <3>1. tasks'[j] = tasks[j]
        BY <2>2 DEF FormInv, FormTyped
      <3> QED BY <3>1 DEF FormInv, TaskSound
    <2> QED BY <2>1, <2>2
  <1> QED BY <1>1, <1>2, TasksMove

\* A task that is over.
LEMMA FreeIs ==
    ASSUME NEW n \in Nat
    PROVE  Form!Free \in TaskRecord(n) /\ Form!Free.at = "free"
  <1>1. 0 \in 0 .. n /\ 0 \in Nat
    OBVIOUS
  <1> QED BY <1>1 DEF Form!Free, TaskRecord

\* A task ends without a word.
LEMMA FormEndKeeps ==
    ASSUME FormInv, NEW k \in Tasks, Form!End(k), Form!Keep, told \subseteq told', identity' \in Nat
    PROVE  FormInv'
  <1>1. Form!Free \in TaskRecord(Len(ids)) /\ Form!Free.at = "free"
    BY FreeIs DEF FormInv, FormTyped
  <1>2. tasks' = [tasks EXCEPT ![k] = Form!Free] /\ tasks'[k] = Form!Free
    BY DEF Form!End, FormInv, FormTyped
  <1>3. TaskSound(k)'
    BY <1>1, <1>2 DEF TaskSound
  <1> QED BY <1>1, <1>2, <1>3, TaskMoves DEF Form!Keep

\* A request is opened.
LEMMA RequestKeeps ==
    ASSUME FormInv, NEW k \in Tasks, NEW t \in Tabs, NEW s \in Accounts, NEW c \in Contents, Form!Request(k, t, s, c)
    PROVE  FormInv'
  <1> DEFINE task == [Form!Free EXCEPT !.at = "scope", !.tab = t, !.slot = s, !.content = c, !.owner = identity]
  <1>1. task \in TaskRecord(Len(ids)) /\ task.at = "scope" /\ task.slot = s /\ task.content = c
    <2>1. Form!Free \in TaskRecord(Len(ids)) /\ identity \in Nat
      BY FreeIs DEF FormInv, FormTyped
    <2> QED BY <2>1 DEF TaskRecord
  <1>2. tasks' = [tasks EXCEPT ![k] = task]
    BY DEF Form!Request
  <1> HIDE DEF task
  <1>3. TaskSound(k)'
    <2>1. tasks'[k] = task
      BY <1>2 DEF FormInv, FormTyped
    <2> QED BY <1>1, <2>1 DEF TaskSound
  <1>4. identity' \in Nat /\ told' = told /\ UNCHANGED <<records, requests, ids, unsure, mixed>>
    BY DEF Form!Request, Form!Keep, FormInv, FormTyped
  <1> QED BY <1>1, <1>2, <1>3, <1>4, TaskMoves

\* The request is performed up to its question.
LEMMA PerformKeeps ==
    ASSUME FormInv, NEW k \in Tasks, Form!Perform(k)
    PROVE  FormInv'
  <1> DEFINE s == tasks[k].slot
             record == records[s]
             task == [tasks[k] EXCEPT !.at = "query", !.id = record.id, !.seen = records]
  <1>1. /\ tasks[k] \in TaskRecord(Len(ids)) /\ Form!Task(k) = tasks[k] /\ tasks[k].at = "scope"
        /\ identity' \in Nat /\ told' = told /\ s \in Accounts /\ records \in RecordsOf(Len(ids))
        /\ tasks[k].content \in Contents
    BY TaskIs DEF Form!Perform, FormInv, FormTyped, TaskSound
  <1>2. \/ Form!End(k) /\ Form!Keep
        \/ record = NoValue /\ Form!Allocate(k, records)
        \/ record # NoValue /\ tasks' = [tasks EXCEPT ![k] = task] /\ Form!Keep
    BY <1>1 DEF Form!Perform, TaskRecord
  <1>3. CASE Form!End(k) /\ Form!Keep
    BY <1>1, <1>3, FormEndKeeps
  <1>4. CASE record = NoValue /\ Form!Allocate(k, records)
    <2>1. ASSUME s \notin mixed', NEW i \in DOMAIN ids, ids[i] = s PROVE i \in told'
      <3>1. s \notin mixed
        BY <1>1, <1>4, <2>1 DEF Form!Allocate
      <3> QED BY <1>1, <1>4, <2>1, <3>1 DEF FormInv, Recorded
    <2>2. tasks[k].at # "free" /\ told \subseteq told'
      BY <1>1
    <2>3. s \notin mixed' => \A i \in DOMAIN ids : ids[i] = s => i \in told'
      BY <2>1
    <2> QED BY <1>1, <1>4, <2>2, <2>3, AllocateKeeps
  <1>5. CASE record # NoValue /\ tasks' = [tasks EXCEPT ![k] = task] /\ Form!Keep
    <2>1. record.id \in 1 .. Len(ids) /\ record.id \in DOMAIN ids /\ record.id \in 0 .. Len(ids)
      BY <1>1, <1>5 DEF RecordsOf, FormInv, FormTyped
    <2>2. task \in TaskRecord(Len(ids)) /\ task.at = "query" /\ task.slot = s /\ task.content \in Contents
          /\ task.id = record.id /\ task.seen = records
      BY <1>1, <2>1 DEF TaskRecord
    <2> HIDE DEF task
    <2>3. tasks'[k] = task /\ UNCHANGED <<records, requests, ids, unsure, mixed>>
      BY <1>5 DEF FormInv, FormTyped, Form!Keep
    <2>4. TaskSound(k)'
      BY <1>1, <1>5, <2>1, <2>2, <2>3 DEF TaskSound
    <2> QED BY <1>1, <1>5, <2>2, <2>3, <2>4, TaskMoves
  <1> QED BY <1>2, <1>3, <1>4, <1>5

\* An end is told: nobody else's is still open.
LEMMA TellKeeps ==
    ASSUME FormInv, NEW k \in Tasks, tasks[k].at \in {"query", "send"}, NEW state \in {"done", "refused"},
           Form!Tell(k, state), identity' = identity
    PROVE  FormInv'
  <1> DEFINE s == tasks[k].slot
  <1>1. /\ Form!Task(k) = tasks[k] /\ s \in Accounts /\ tasks[k].id \in DOMAIN ids
        /\ records \in RecordsOf(Len(ids)) /\ Len(ids) \in Nat
    BY TaskIs DEF FormInv, FormTyped, TaskSound
  <1>2. /\ records' = [records EXCEPT ![s] = NoValue] /\ told' = told \cup {tasks[k].id}
        /\ mixed' = IF records[s] # NoValue /\ records[s].id # tasks[k].id THEN mixed \cup {s} ELSE mixed
        /\ tasks' = [tasks EXCEPT ![k] = Form!Free] /\ UNCHANGED <<requests, ids, unsure>>
    BY <1>1 DEF Form!Tell, Form!End, Form!Ends
  <1>3. Form!Free \in TaskRecord(Len(ids)) /\ Form!Free.at = "free"
    BY <1>1, FreeIs
  <1>4. records' \in RecordsOf(Len(ids)) /\ records'[s] = NoValue /\ \A z \in Accounts \ {s} : records'[z] = records[z]
    BY <1>1, <1>2 DEF RecordsOf
  <1>5. FormTyped'
    <2>1. tasks' \in [Tasks -> TaskRecord(Len(ids))]
      BY <1>2, <1>3 DEF FormInv, FormTyped
    <2> QED BY <1>2, <1>4, <2>1 DEF FormInv, FormTyped
  <1>6. ASSUME NEW j \in Tasks PROVE TaskSound(j)'
    <2>1. CASE j = k
      <3>1. tasks'[j] = Form!Free
        BY <1>2, <2>1 DEF FormInv, FormTyped
      <3> QED BY <1>3, <3>1 DEF TaskSound
    <2>2. CASE j # k
      <3>1. tasks'[j] = tasks[j] /\ TaskSound(j)
        BY <1>2, <2>2 DEF FormInv, FormTyped
      <3> QED BY <1>2, <3>1 DEF TaskSound
    <2> QED BY <2>1, <2>2
  <1>7. ASSUME NEW z \in Accounts \ mixed' PROVE Recorded(z)'
    <2> SUFFICES ASSUME NEW i \in DOMAIN ids, ids[i] = z, i \notin told'
                 PROVE  records'[z] # NoValue /\ records'[z].id = i
      BY <1>2 DEF Recorded
    <2>1. z \notin mixed /\ i \notin told
      BY <1>2
    <2>2. Recorded(z)
      BY <2>1 DEF FormInv
    <2>3. records[z] # NoValue /\ records[z].id = i
      BY <2>1, <2>2 DEF Recorded
    <2>4. z # s
      BY <1>2, <2>3
    <2> QED BY <1>4, <2>3, <2>4
  <1>8. \A i \in unsure' : i \in DOMAIN ids' /\ ids'[i] \in mixed'
    BY <1>2 DEF FormInv
  <1> QED BY <1>5, <1>6, <1>7, <1>8 DEF FormInv

\* A refusal of a request that alone can start its operation is its end; any other
\* takes the record away and counts the slot.
LEMMA RefusedKeeps ==
    ASSUME FormInv, NEW k \in Tasks, Form!Refused(k)
    PROVE  FormInv'
  <1> DEFINE s == tasks[k].slot
  <1>1. /\ Form!Task(k) = tasks[k] /\ s \in Accounts /\ tasks[k].at = "send" /\ identity' = identity
        /\ records \in RecordsOf(Len(ids)) /\ Len(ids) \in Nat
    BY TaskIs DEF FormInv, FormTyped, TaskSound, Form!Refused
  <1>2. CASE Form!Tell(k, "refused")
    BY <1>1, <1>2, TellKeeps
  <1>3. CASE /\ records' = [records EXCEPT ![s] = NoValue] /\ mixed' = mixed \cup {s}
             /\ tasks' = [tasks EXCEPT ![k] = Form!Free] /\ UNCHANGED <<told, requests, ids, unsure>>
    <2>1. Form!Free \in TaskRecord(Len(ids)) /\ Form!Free.at = "free"
      BY <1>1, FreeIs
    <2>2. records' \in RecordsOf(Len(ids)) /\ \A z \in Accounts \ {s} : records'[z] = records[z]
      BY <1>1, <1>3 DEF RecordsOf
    <2>3. FormTyped'
      <3>1. tasks' \in [Tasks -> TaskRecord(Len(ids))]
        BY <1>3, <2>1 DEF FormInv, FormTyped
      <3> QED BY <1>1, <1>3, <2>2, <3>1 DEF FormInv, FormTyped
    <2>4. ASSUME NEW j \in Tasks PROVE TaskSound(j)'
      <3>1. CASE j = k
        <4>1. tasks'[j] = Form!Free
          BY <1>3, <3>1 DEF FormInv, FormTyped
        <4> QED BY <2>1, <4>1 DEF TaskSound
      <3>2. CASE j # k
        <4>1. tasks'[j] = tasks[j] /\ TaskSound(j)
          BY <1>3, <3>2 DEF FormInv, FormTyped
        <4> QED BY <1>3, <4>1 DEF TaskSound
      <3> QED BY <3>1, <3>2
    <2>5. ASSUME NEW z \in Accounts \ mixed' PROVE Recorded(z)'
      <3>1. Recorded(z) /\ records'[z] = records[z]
        BY <1>3, <2>2 DEF FormInv
      <3> QED BY <1>3, <3>1 DEF Recorded
    <2>6. \A i \in unsure' : i \in DOMAIN ids' /\ ids'[i] \in mixed'
      BY <1>3 DEF FormInv
    <2> QED BY <2>3, <2>4, <2>5, <2>6 DEF FormInv
  <1> QED BY <1>1, <1>2, <1>3 DEF Form!Refused, Form!End

\* The answer to a request, or what a 5xx leaves of it.
LEMMA SettleKeeps ==
    ASSUME FormInv, NEW k \in Tasks, tasks[k].at \in {"query", "send"},
           NEW state \in {"working", "done", "refused", "unknown"}, Form!Settle(k, state), identity' = identity
    PROVE  FormInv'
  <1>1. CASE Form!Unresolved(state)
    <2>1. Form!End(k) /\ Form!Keep /\ told' = told /\ identity' \in Nat
      BY <1>1 DEF Form!Settle, FormInv, FormTyped
    <2> QED BY <2>1, FormEndKeeps
  <1>2. CASE ~ Form!Unresolved(state)
    <2>1. Form!Tell(k, state) /\ state \in {"done", "refused"}
      BY <1>2 DEF Form!Settle, Form!Unresolved
    <2> QED BY <2>1, TellKeeps
  <1> QED BY <1>1, <1>2

\* The answer to the question: the operation ended, or it is sent again.
LEMMA QueriedKeeps ==
    ASSUME FormInv, NEW k \in Tasks, Form!Queried(k)
    PROVE  FormInv'
  <1> DEFINE s == tasks[k].slot
             state == requests[tasks[k].id]
             task == [tasks[k] EXCEPT !.at = "send", !.seen = NoValue]
  <1>1. /\ tasks[k] \in TaskRecord(Len(ids)) /\ Form!Task(k) = tasks[k] /\ tasks[k].at = "query"
        /\ identity' = identity /\ identity' \in Nat /\ s \in Accounts /\ tasks[k].id \in DOMAIN ids
        /\ tasks[k].seen \in RecordsOf(Len(ids)) /\ tasks[k].seen[s] # NoValue /\ tasks[k].seen[s].id = tasks[k].id
        /\ tasks[k].content \in Contents
    BY TaskIs DEF Form!Queried, FormInv, FormTyped, TaskSound
  <1>2. state \in Answers
    BY <1>1 DEF FormInv, FormTyped
  <1>3. \/ Form!End(k) /\ Form!Keep /\ told' = told
        \/ state \in {"done", "refused"} /\ told' = told \cup {tasks[k].id} /\ Form!Allocate(k, tasks[k].seen)
        \/ tasks' = [tasks EXCEPT ![k] = task] /\ Form!Keep /\ told' = told
        \/ state \in {"done", "refused"} /\ Form!Settle(k, state)
    BY <1>1, <1>2 DEF Form!Queried, Form!Unresolved, Form!Ends, Answers
  <1>4. CASE Form!End(k) /\ Form!Keep /\ told' = told
    BY <1>1, <1>4, FormEndKeeps
  <1>5. CASE state \in {"done", "refused"} /\ told' = told \cup {tasks[k].id} /\ Form!Allocate(k, tasks[k].seen)
    <2>1. ASSUME s \notin mixed', NEW i \in DOMAIN ids, ids[i] = s PROVE i \in told'
      <3>1. s \notin mixed /\ records[s] = tasks[k].seen[s]
        BY <1>1, <1>5, <2>1 DEF Form!Allocate
      <3>2. i \notin told => records[s].id = i
        BY <1>1, <2>1, <3>1 DEF FormInv, Recorded
      <3> QED BY <1>1, <1>5, <3>1, <3>2
    <2>2. tasks[k].at # "free" /\ told \subseteq told'
      BY <1>1, <1>5
    <2>3. s \notin mixed' => \A i \in DOMAIN ids : ids[i] = s => i \in told'
      BY <2>1
    <2> QED BY <1>1, <1>5, <2>2, <2>3, AllocateKeeps
  <1>6. CASE tasks' = [tasks EXCEPT ![k] = task] /\ Form!Keep /\ told' = told
    <2>1. task \in TaskRecord(Len(ids)) /\ task.at = "send" /\ task.slot = s /\ task.content \in Contents
          /\ task.id = tasks[k].id
      BY <1>1 DEF TaskRecord
    <2> HIDE DEF task
    <2>2. tasks'[k] = task /\ UNCHANGED <<records, requests, ids, unsure, mixed>>
      BY <1>6 DEF FormInv, FormTyped, Form!Keep
    <2>3. TaskSound(k)'
      BY <1>1, <2>1, <2>2 DEF TaskSound
    <2> QED BY <1>1, <1>6, <2>1, <2>2, <2>3, TaskMoves
  <1>7. CASE state \in {"done", "refused"} /\ Form!Settle(k, state)
    BY <1>1, <1>7, SettleKeeps
  <1> QED BY <1>3, <1>4, <1>5, <1>6, <1>7

\* An answer arrives, or is not understood.
LEMMA AnsweredKeeps ==
    ASSUME FormInv, NEW k \in Tasks, Form!Answered(k)
    PROVE  FormInv'
  <1>1. Form!Task(k) = tasks[k] /\ tasks[k].at = "send" /\ tasks[k].id \in DOMAIN ids /\ identity' = identity
    BY TaskIs DEF Form!Answered, FormInv, TaskSound
  <1>2. requests[tasks[k].id] \in {"working", "done", "refused"}
    BY <1>1 DEF Form!Answered, FormInv, FormTyped, Answers
  <1>3. \E state \in {"working", "done", "refused", "unknown"} : Form!Settle(k, state)
    BY <1>1, <1>2 DEF Form!Answered
  <1> QED BY <1>1, <1>3, SettleKeeps

\* The server takes an operation up, and ends it.
LEMMA ServeKeeps ==
    ASSUME FormInv, NEW i \in DOMAIN requests, Form!Serve(i)
    PROVE  FormInv'
  <1>1. requests' \in Seq(Answers) /\ Len(requests') = Len(requests)
    <2>1. \E state \in Answers : requests' = [requests EXCEPT ![i] = state]
      BY DEF Form!Serve, Form!Ends, Answers
    <2> QED BY <2>1 DEF FormInv, FormTyped
  <1>2. UNCHANGED <<records, tasks, identity, told, ids, unsure, mixed>>
    BY DEF Form!Serve
  <1>3. \A k \in Tasks : TaskSound(k)'
    BY <1>2 DEF FormInv, TaskSound
  <1>4. \A s \in Accounts \ mixed' : Recorded(s)'
    BY <1>2 DEF FormInv, Recorded
  <1> QED BY <1>1, <1>2, <1>3, <1>4 DEF FormInv, FormTyped

\* A tab is reloaded.
LEMMA FormReloadKeeps ==
    ASSUME FormInv, NEW t \in Tabs, Form!Reload(t)
    PROVE  FormInv'
  <1>1. Form!Free \in TaskRecord(Len(ids)) /\ Form!Free.at = "free"
    BY FreeIs DEF FormInv, FormTyped
  <1>2. tasks' = [k \in Tasks |-> IF tasks[k].tab = t THEN Form!Free ELSE tasks[k]]
    BY DEF Form!Reload, Form!Task
  <1>3. tasks' \in [Tasks -> TaskRecord(Len(ids))]
    BY <1>1, <1>2 DEF FormInv, FormTyped
  <1>4. identity' \in Nat /\ told' = told /\ UNCHANGED <<records, requests, ids, unsure, mixed>>
    BY DEF Form!Reload, Form!Keep, FormInv, FormTyped
  <1>5. ASSUME NEW k \in Tasks PROVE TaskSound(k)'
    <2>1. TaskSound(k) /\ (tasks'[k] = Form!Free \/ tasks'[k] = tasks[k])
      BY <1>2 DEF FormInv
    <2> QED BY <1>1, <1>4, <2>1 DEF TaskSound
  <1> QED BY <1>3, <1>4, <1>5, TasksMove

\* Each step keeps it.
LEMMA FormStepKeeps ==
    ASSUME FormInv, Form!Next
    PROVE  FormInv'
  <1>1. ASSUME NEW k \in Tasks, NEW t \in Tabs, NEW s \in Accounts, NEW c \in Contents, Form!Request(k, t, s, c)
        PROVE  FormInv'
    BY <1>1, RequestKeeps
  <1>2. ASSUME NEW k \in Tasks, Form!Perform(k) PROVE FormInv'
    BY <1>2, PerformKeeps
  <1>3. ASSUME NEW k \in Tasks, Form!Queried(k) PROVE FormInv'
    BY <1>3, QueriedKeeps
  <1>4. ASSUME NEW k \in Tasks, Form!Answered(k) PROVE FormInv'
    BY <1>4, AnsweredKeeps
  <1>5. ASSUME NEW k \in Tasks, Form!Lost(k) PROVE FormInv'
    <2>1. Form!End(k) /\ Form!Keep /\ told \subseteq told' /\ identity' \in Nat
      BY <1>5 DEF Form!Lost, FormInv, FormTyped
    <2> QED BY <2>1, FormEndKeeps
  <1>6. ASSUME NEW i \in DOMAIN requests, Form!Serve(i) PROVE FormInv'
    BY <1>6, ServeKeeps
  <1>7. ASSUME NEW t \in Tabs, Form!Reload(t) PROVE FormInv'
    BY <1>7, FormReloadKeeps
  <1>8. CASE Form!Switch
    <2>1. identity' \in Nat /\ UNCHANGED <<records, requests, ids, unsure, mixed, tasks, told>>
      BY <1>8 DEF Form!Switch, Form!Keep, FormInv, FormTyped
    <2>2. tasks' \in [Tasks -> TaskRecord(Len(ids))] /\ \A k \in Tasks : TaskSound(k)'
      BY <2>1 DEF FormInv, FormTyped, TaskSound
    <2> QED BY <2>1, <2>2, TasksMove
  <1>9. ASSUME NEW k \in Tasks, Form!Refused(k) PROVE FormInv'
    BY <1>9, RefusedKeeps
  <1> QED BY <1>1, <1>2, <1>3, <1>4, <1>5, <1>6, <1>7, <1>8, <1>9 DEF Form!Next

\* At the start nothing is recorded.
LEMMA FormInitHolds ==
    ASSUME Form!Init
    PROVE  FormInv
  <1>1. ids = <<>> /\ requests = <<>> /\ told = {} /\ unsure = {} /\ mixed = {} /\ identity = 0
        /\ records = [s \in Accounts |-> NoValue] /\ tasks = [k \in Tasks |-> Form!Free]
    BY DEF Form!Init
  <1>2. Form!Free \in TaskRecord(0) /\ Form!Free.at = "free"
    BY FreeIs
  <1>3. FormTyped
    <2>1. records \in RecordsOf(0)
      BY <1>1 DEF RecordsOf
    <2> QED BY <1>1, <1>2, <2>1 DEF FormTyped
  <1>4. \A k \in Tasks : TaskSound(k)
    BY <1>1, <1>2 DEF TaskSound
  <1>5. \A s \in Accounts : Recorded(s)
    BY <1>1 DEF Recorded
  <1> QED BY <1>1, <1>3, <1>4, <1>5 DEF FormInv

\* The invariant says what the run checks.
LEMMA FormInvSays ==
    ASSUME FormInv
    PROVE  Form!KnownBeforeNext
  BY DEF FormInv, Form!KnownBeforeNext

-----------------------------------------------------------------------------
(* The dialog that saves a sheet *)

Members == Accounts \cup {NoValue}
DialogStages == {"read", "info", "known", "create", "ticket", "step", "idle"}
DialogRecord == [kind : Dialog!Kinds, extra : BOOLEAN, at : DialogStages, account : Accounts,
                 sentFor : Members, closed : BOOLEAN, file : BOOLEAN, ticket : BOOLEAN, job : Nat,
                 ready : BOOLEAN, share : BOOLEAN, renewing : BOOLEAN]
JobRecord == [owner : Accounts, partial : BOOLEAN,
              state : {"building", "ready", "incomplete", "failed", "cancelled"}]

DialogTyped ==
    /\ who \in Members /\ ds \in Seq(DialogRecord) /\ dialog \in Nat
    /\ jobs \in Seq(JobRecord) /\ remembered \in [Accounts -> Nat]

\* What the buttons of the dialog need: its file, its link.  While the sharing sheet is open, or a
\* link is renewed, what comes after it may offer the button once more.
Kept(r, offered) ==
    /\ ("share" \in offered => r.file) /\ ("open" \in offered => r.ticket)
    /\ (r.share => r.file) /\ (r.renewing => r.ticket)

DialogInv ==
    /\ DialogTyped /\ ~ late
    /\ dialog # 0 => dialog \in DOMAIN ds /\ Kept(ds[dialog], buttons)

\* One dialog goes on, on the screen or behind it.
LEMMA DialogMoves ==
    ASSUME DialogInv, NEW d \in DOMAIN ds, NEW r \in DialogRecord, ds' = [ds EXCEPT ![d] = r],
           dialog' = dialog, who' = who, ~ late',
           jobs' \in Seq(JobRecord), remembered' \in [Accounts -> Nat],
           d = dialog => Kept(r, buttons'),
           d # dialog => buttons' = buttons
    PROVE  DialogInv'
  <1>1. ds' \in Seq(DialogRecord) /\ DOMAIN ds' = DOMAIN ds
    BY DEF DialogInv, DialogTyped
  <1>2. ASSUME dialog # 0 PROVE dialog \in DOMAIN ds /\ Kept(ds'[dialog], buttons')
    BY <1>2 DEF DialogInv
  <1> QED BY <1>1, <1>2 DEF DialogInv, DialogTyped

\* A button that is added by one that is open concerns that one only.
LEMMA ButtonsMove ==
    ASSUME DialogInv, NEW d \in DOMAIN ds, NEW on, NEW off, Dialog!Current(d), Dialog!Ui(d, on, off)
    PROVE  d = dialog /\ buttons' = (buttons \ off) \cup on /\ ~ late'
  BY DEF Dialog!Current, Dialog!Ui, Dialog!Ended, DialogInv

\* What a failure leaves of the dialog and its buttons.
LEMMA FailureMoves ==
    ASSUME DialogInv, NEW d \in DOMAIN ds, Dialog!Failed(d), NEW r \in DialogRecord,
           r.file = ds[d].file, r.ticket = ds[d].ticket, r.share => ds[d].share, r.renewing => ds[d].renewing
    PROVE  /\ ~ late' /\ (d # dialog => buttons' = buttons)
           /\ d = dialog => Kept(r, buttons')
  <1>1. CASE Dialog!Current(d)
    <2>1. d = dialog /\ buttons' = (buttons \ {"share", "open", "cancel"}) \cup {"retry", "close"} /\ ~ late'
      BY <1>1, ButtonsMove DEF Dialog!Failed
    <2>2. dialog # 0
      BY <2>1 DEF DialogInv, DialogTyped
    <2> QED BY <2>1, <2>2 DEF Kept, DialogInv
  <1>2. CASE ~ Dialog!Current(d)
    <2>1. buttons' = buttons /\ ~ late'
      BY <1>2 DEF Dialog!Failed, Dialog!Silent, DialogInv
    <2>2. d # 0
      BY DEF DialogInv, DialogTyped
    <2> QED BY <2>1, <2>2 DEF Kept, DialogInv
  <1> QED BY <1>1, <1>2

\* Nothing is told, and the dialog keeps what it offers.
LEMMA SilenceMoves ==
    ASSUME DialogInv, NEW d \in DOMAIN ds, Dialog!Silent, NEW r \in DialogRecord,
           ds[d].file => r.file, ds[d].ticket => r.ticket, r.share => ds[d].share, r.renewing => ds[d].renewing
    PROVE  /\ ~ late' /\ (d # dialog => buttons' = buttons)
           /\ d = dialog => Kept(r, buttons')
  <1>1. d # 0
    BY DEF DialogInv, DialogTyped
  <1> QED BY <1>1 DEF Kept, DialogInv, Dialog!Silent

\* What a stage that ends or begins leaves as it is: all the buttons need.
Staged(d, r) ==
    /\ r \in DialogRecord /\ ds' = [ds EXCEPT ![d] = r]
    /\ r.file = ds[d].file /\ r.ticket = ds[d].ticket /\ r.share = ds[d].share /\ r.renewing = ds[d].renewing

\* A step that only changes the stage of the dialog.
LEMMA StagesMove ==
    ASSUME DialogInv, NEW d \in DOMAIN ds, NEW r, Staged(d, r), dialog' = dialog, who' = who,
           jobs' \in Seq(JobRecord), remembered' \in [Accounts -> Nat],
           \/ Dialog!Silent
           \/ Dialog!Failed(d)
           \/ \E on, off : Dialog!Current(d) /\ Dialog!Ui(d, on, off) /\ on \cap {"share", "open"} = {}
    PROVE  DialogInv'
  <1>1. CASE Dialog!Silent
    BY <1>1, SilenceMoves, DialogMoves DEF Staged
  <1>2. CASE Dialog!Failed(d)
    BY <1>2, FailureMoves, DialogMoves DEF Staged
  <1>3. ASSUME NEW on, NEW off, Dialog!Current(d), Dialog!Ui(d, on, off), on \cap {"share", "open"} = {}
        PROVE  DialogInv'
    <2>1. d = dialog /\ buttons' = (buttons \ off) \cup on /\ ~ late'
      BY <1>3, ButtonsMove
    <2>2. Kept(r, buttons')
      <3>1. d # 0
        BY DEF DialogInv, DialogTyped
      <3> QED BY <1>3, <2>1, <3>1 DEF Staged, Kept, DialogInv
    <2> QED BY <2>1, <2>2, DialogMoves DEF Staged
  <1> QED BY <1>1, <1>2, <1>3

\* The update of a stage, as each of the requests makes it.
LEMMA OverMoves ==
    ASSUME DialogInv, NEW d \in DOMAIN ds, Dialog!Over(d)
    PROVE  \E r : Staged(d, r)
  <1> DEFINE r == [ds[d] EXCEPT !.at = "idle"]
  <1>1. ds[d] \in DialogRecord
    BY DEF DialogInv, DialogTyped
  <1>2. Staged(d, r)
    BY <1>1 DEF Dialog!Over, Staged, DialogRecord, DialogStages
  <1> QED BY <1>2

\* The next request of a dialog.
LEMMA AtMoves ==
    ASSUME DialogInv, NEW d \in DOMAIN ds, NEW stage \in DialogStages, Dialog!At(d, stage)
    PROVE  \E r : Staged(d, r)
  <1> DEFINE r == [ds[d] EXCEPT !.at = stage, !.sentFor = who]
  <1>1. ds[d] \in DialogRecord /\ who \in Members
    BY DEF DialogInv, DialogTyped
  <1>2. Staged(d, r)
    BY <1>1 DEF Dialog!At, Staged, DialogRecord
  <1> QED BY <1>2

\* A request fails.
LEMMA FailsKeeps ==
    ASSUME DialogInv, NEW d \in DOMAIN ds, Dialog!Fails(d)
    PROVE  DialogInv'
  <1>1. PICK r : Staged(d, r)
    BY OverMoves DEF Dialog!Fails
  <1> QED BY <1>1, StagesMove DEF Dialog!Fails, Dialog!Rest, DialogInv, DialogTyped, Dialog!session

\* The file has been read, or a link is needed.
LEMMA ReadKeeps ==
    ASSUME DialogInv, NEW d \in DOMAIN ds, Dialog!Read(d)
    PROVE  DialogInv'
  <1>1. /\ dialog' = dialog /\ who' = who /\ jobs' \in Seq(JobRecord) /\ remembered' \in [Accounts -> Nat]
    BY DEF Dialog!Read, Dialog!Rest, Dialog!session, DialogInv, DialogTyped
  <1>2. CASE Dialog!At(d, "ticket") /\ Dialog!Silent
    BY <1>1, <1>2, AtMoves, StagesMove DEF DialogStages
  <1>3. CASE Dialog!Over(d) /\ Dialog!Silent
    BY <1>1, <1>3, OverMoves, StagesMove
  <1>4. ASSUME Dialog!Current(d), ds' = [ds EXCEPT ![d].at = "idle", ![d].file = TRUE],
               Dialog!Ui(d, {"share", "close"}, {"cancel", "open"})
        PROVE  DialogInv'
    <2> DEFINE r == [ds[d] EXCEPT !.at = "idle", !.file = TRUE]
    <2>1. d = dialog /\ buttons' = (buttons \ {"cancel", "open"}) \cup {"share", "close"} /\ ~ late'
      BY <1>4, ButtonsMove
    <2>2. ds[d] \in DialogRecord /\ d # 0
      BY DEF DialogInv, DialogTyped
    <2>3. /\ r \in DialogRecord /\ r.file /\ r.ticket = ds[d].ticket /\ r.share = ds[d].share
          /\ r.renewing = ds[d].renewing /\ ds' = [ds EXCEPT ![d] = r]
      BY <1>4, <2>2 DEF DialogRecord, DialogStages
    <2> HIDE DEF r
    <2>4. Kept(r, buttons')
      BY <2>1, <2>2, <2>3 DEF Kept, DialogInv
    <2> QED BY <1>1, <2>1, <2>3, <2>4, DialogMoves
  <1> QED BY <1>2, <1>3, <1>4 DEF Dialog!Read

\* The link has come.
LEMMA TicketKeeps ==
    ASSUME DialogInv, NEW d \in DOMAIN ds, Dialog!Ticket(d)
    PROVE  DialogInv'
  <1> DEFINE r == [ds[d] EXCEPT !.at = "idle", !.ticket = TRUE]
  <1>1. /\ dialog' = dialog /\ who' = who /\ jobs' \in Seq(JobRecord) /\ remembered' \in [Accounts -> Nat]
    BY DEF Dialog!Ticket, Dialog!Rest, Dialog!session, DialogInv, DialogTyped
  <1>2. ds[d] \in DialogRecord /\ d # 0
    BY DEF DialogInv, DialogTyped
  <1>3. /\ r \in DialogRecord /\ r.file = ds[d].file /\ r.ticket /\ r.share = ds[d].share
        /\ r.renewing = ds[d].renewing /\ ds' = [ds EXCEPT ![d] = r]
    BY <1>2 DEF DialogRecord, DialogStages, Dialog!Ticket
  <1> HIDE DEF r
  <1>4. CASE Dialog!Current(d)
    <2>1. d = dialog /\ buttons' = (buttons \ {"share", "cancel"}) \cup {"open", "close"} /\ ~ late'
      BY <1>4, ButtonsMove DEF Dialog!Ticket
    <2>2. Kept(r, buttons')
      BY <1>2, <1>3, <2>1 DEF Kept, DialogInv
    <2> QED BY <1>1, <1>3, <2>1, <2>2, DialogMoves
  <1>5. CASE ~ Dialog!Current(d)
    <2>1. Dialog!Silent
      BY <1>5 DEF Dialog!Ticket
    <2> QED BY <1>1, <1>3, <2>1, SilenceMoves, DialogMoves
  <1> QED BY <1>4, <1>5

\* What a recording is called.
LEMMA InfoKeeps ==
    ASSUME DialogInv, NEW d \in DOMAIN ds, Dialog!Info(d)
    PROVE  DialogInv'
  <1>1. /\ dialog' = dialog /\ who' = who /\ jobs' \in Seq(JobRecord) /\ remembered' \in [Accounts -> Nat]
    BY DEF Dialog!Info, Dialog!Rest, Dialog!session, DialogInv, DialogTyped
  <1>2. PICK r : Staged(d, r)
    BY OverMoves, AtMoves DEF Dialog!Info, DialogStages
  <1> QED BY <1>1, <1>2, StagesMove DEF Dialog!Info

\* A job goes on, or has its end.
LEMMA GoesMoves ==
    ASSUME DialogInv, NEW d \in DOMAIN ds, NEW j \in Nat,
           NEW state, Dialog!Goes(d, j, state),
           dialog' = dialog, who' = who, jobs' \in Seq(JobRecord)
    PROVE  DialogInv'
  <1>1. remembered' \in [Accounts -> Nat]
    BY DEF Dialog!Goes, DialogInv, DialogTyped, Members
  <1>2. ds[d] \in DialogRecord /\ who \in Members
    BY DEF DialogInv, DialogTyped
  <1>3. CASE state = "building"
    <2> DEFINE r == [ds[d] EXCEPT !.at = "step", !.sentFor = who, !.job = j]
    <2>1. ds' = [ds EXCEPT ![d] = r] /\ Dialog!Silent
      BY <1>2, <1>3 DEF Dialog!Goes, DialogRecord
    <2>2. Staged(d, r)
      BY <1>2, <2>1 DEF Staged, DialogRecord, DialogStages
    <2> HIDE DEF r
    <2> QED BY <1>1, <2>1, <2>2, StagesMove
  <1>4. CASE state = "ready"
    <2> DEFINE r == [ds[d] EXCEPT !.at = "read", !.sentFor = who, !.job = j, !.ready = TRUE]
    <2>1. ds' = [ds EXCEPT ![d] = r] /\ Dialog!Silent
      BY <1>2, <1>4 DEF Dialog!Goes, DialogRecord
    <2>2. Staged(d, r)
      BY <1>2, <2>1 DEF Staged, DialogRecord, DialogStages
    <2> HIDE DEF r
    <2> QED BY <1>1, <2>1, <2>2, StagesMove
  <1>5. CASE state \notin {"building", "ready"}
    <2> DEFINE r == [ds[d] EXCEPT !.at = "idle", !.job = j]
    <2>1. /\ ds' = [ds EXCEPT ![d] = r]
          /\ \/ Dialog!Silent \/ Dialog!Failed(d)
             \/ Dialog!Current(d) /\ Dialog!Ui(d, {"partial", "retry", "close"}, {"cancel"})
      BY <1>2, <1>5 DEF Dialog!Goes, DialogRecord
    <2>2. Staged(d, r)
      BY <1>2, <2>1 DEF Staged, DialogRecord, DialogStages
    <2> HIDE DEF r
    <2>3. {"partial", "retry", "close"} \cap {"share", "open"} = {}
      OBVIOUS
    <2> QED BY <1>1, <2>1, <2>2, <2>3, StagesMove
  <1> QED BY <1>3, <1>4, <1>5

\* A job of before is used again, or another is made.
LEMMA KnownKeeps ==
    ASSUME DialogInv, NEW d \in DOMAIN ds, Dialog!Known(d)
    PROVE  DialogInv'
  <1>1. /\ dialog' = dialog /\ who' = who /\ jobs' = jobs /\ jobs \in Seq(JobRecord)
        /\ ds[d] \in DialogRecord /\ who \in Members /\ remembered \in [Accounts -> Nat]
    BY DEF Dialog!Known, Dialog!Rest, Dialog!session, DialogInv, DialogTyped
  <1>2. ASSUME Dialog!Goes(d, ds[d].job, jobs[ds[d].job].state),
               jobs[ds[d].job].state \in {"building", "ready"}
        PROVE  DialogInv'
    BY <1>1, <1>2, GoesMoves DEF DialogRecord
  <1>3. ASSUME ds' = [ds EXCEPT ![d].at = "create", ![d].sentFor = who, ![d].job = 0],
               Dialog!Silent, remembered' = remembered
        PROVE  DialogInv'
    <2> DEFINE r == [ds[d] EXCEPT !.at = "create", !.sentFor = who, !.job = 0]
    <2>1. Staged(d, r)
      BY <1>1, <1>3 DEF Staged, DialogRecord, DialogStages
    <2> QED BY <1>1, <1>3, <2>1, StagesMove
  <1>4. CASE Dialog!Over(d) /\ Dialog!Silent /\ remembered' = remembered
    BY <1>1, <1>4, OverMoves, StagesMove
  <1> QED BY <1>2, <1>3, <1>4 DEF Dialog!Known

\* A job begins.
LEMMA CreateKeeps ==
    ASSUME DialogInv, NEW d \in DOMAIN ds, Dialog!Create(d)
    PROVE  DialogInv'
  <1> DEFINE job == [owner |-> who, state |-> "building", partial |-> ds[d].extra]
  <1>1. /\ dialog' = dialog /\ who' = who /\ jobs' = Append(jobs, job) /\ jobs \in Seq(JobRecord)
        /\ ds[d] \in DialogRecord /\ who \in Accounts
    BY DEF Dialog!Create, Dialog!Rest, Dialog!session, DialogInv, DialogTyped, Members
  <1>2. job \in JobRecord
    BY <1>1 DEF DialogRecord, JobRecord
  <1> HIDE DEF job
  <1>3. jobs' \in Seq(JobRecord) /\ Len(jobs) + 1 \in Nat
    BY <1>1, <1>2
  <1>4. Dialog!Goes(d, Len(jobs) + 1, "building")
    BY DEF Dialog!Create
  <1> QED BY <1>1, <1>3, <1>4, GoesMoves

\* A step of the building.
LEMMA JobStepKeeps ==
    ASSUME DialogInv, NEW d \in DOMAIN ds, Dialog!Step(d)
    PROVE  DialogInv'
  <1> DEFINE j == ds[d].job
  <1>1. PICK state :
            /\ jobs[j].state = "building" => state \in {"building", "ready", "incomplete", "failed"}
            /\ jobs[j].state # "building" => state = jobs[j].state
            /\ jobs' = [jobs EXCEPT ![j].state = state]
            /\ IF state \notin {"building", "failed", "cancelled"} /\ ~ Dialog!Current(d)
               THEN Dialog!Over(d) /\ Dialog!Silent /\ UNCHANGED remembered
               ELSE Dialog!Goes(d, j, state)
    BY DEF Dialog!Step
  <1>2. /\ dialog' = dialog /\ who' = who /\ jobs \in Seq(JobRecord) /\ ds[d] \in DialogRecord
        /\ remembered \in [Accounts -> Nat]
    BY DEF Dialog!Step, Dialog!Rest, Dialog!session, DialogInv, DialogTyped
  <1>3. j \in Nat
    BY <1>2 DEF DialogRecord
  <1> HIDE DEF j
  <1>4. jobs' \in Seq(JobRecord)
    <2>1. CASE j \in DOMAIN jobs
      <3> DEFINE job == [jobs[j] EXCEPT !.state = state]
      <3>1. jobs[j] \in JobRecord
        BY <1>2, <2>1
      <3>2. state \in {"building", "ready", "incomplete", "failed", "cancelled"}
        BY <1>1, <3>1 DEF JobRecord
      <3>3. job \in JobRecord
        BY <3>1, <3>2 DEF JobRecord
      <3>4. jobs' = [jobs EXCEPT ![j] = job]
        BY <1>1
      <3> HIDE DEF job
      <3> QED BY <1>2, <2>1, <3>3, <3>4
    <2>2. CASE j \notin DOMAIN jobs
      <3>1. DOMAIN jobs = 1 .. Len(jobs) /\ Len(jobs) \in Nat /\ \A i \in DOMAIN jobs : jobs[i] \in JobRecord
        BY <1>2
      <3>2. jobs' = [i \in 1 .. Len(jobs) |-> jobs[i]]
        BY <1>1, <2>2, <3>1
      <3> QED BY <3>1, <3>2
    <2> QED BY <2>1, <2>2
  <1>5. CASE Dialog!Goes(d, j, state)
    BY <1>2, <1>3, <1>4, <1>5, GoesMoves
  <1>6. CASE Dialog!Over(d) /\ Dialog!Silent /\ UNCHANGED remembered
    BY <1>2, <1>4, <1>6, OverMoves, StagesMove
  <1> QED BY <1>1, <1>5, <1>6

\* The dialog that is left is closed, and another one may begin.
LEMMA ClosedDialogs ==
    ASSUME DialogInv
    PROVE  Dialog!Closing(dialog) \in Seq(DialogRecord) /\ Len(Dialog!Closing(dialog)) = Len(ds)
  <1>1. CASE dialog = 0
    BY <1>1 DEF Dialog!Closing, DialogInv, DialogTyped
  <1>2. CASE dialog # 0
    <2> DEFINE r == [ds[dialog] EXCEPT !.closed = TRUE, !.file = FALSE]
    <2>1. ds[dialog] \in DialogRecord /\ dialog \in DOMAIN ds
      BY <1>2 DEF DialogInv, DialogTyped
    <2>2. r \in DialogRecord
      BY <2>1 DEF DialogRecord
    <2>3. Dialog!Closing(dialog) = [ds EXCEPT ![dialog] = r]
      BY <1>2, <2>1 DEF Dialog!Closing, DialogRecord
    <2> HIDE DEF r
    <2> QED BY <2>1, <2>2, <2>3 DEF DialogInv, DialogTyped
  <1> QED BY <1>1, <1>2

\* A dialog begins, in the place of the one before.
LEMMA StartKeeps ==
    ASSUME DialogInv, NEW kind \in Dialog!Kinds, NEW extra \in BOOLEAN, Dialog!Start(kind, extra)
    PROVE  DialogInv'
  <1> DEFINE r == Dialog!New(kind, extra)
             left == Dialog!Closing(dialog)
  <1>1. who \in Accounts /\ remembered \in [Accounts -> Nat] /\ ds \in Seq(DialogRecord) /\ Len(ds) \in Nat
    BY DEF Dialog!Start, DialogInv, DialogTyped, Members
  <1>2. Dialog!First(kind, extra) \in DialogStages
    BY DEF Dialog!First, Dialog!Kinds, DialogStages
  <1>3. r \in DialogRecord /\ ~ r.share /\ ~ r.renewing
    <2>1. (IF Dialog!First(kind, extra) = "known" THEN remembered[who] ELSE 0) \in Nat
      BY <1>1
    <2> QED BY <1>1, <1>2, <2>1 DEF Dialog!New, DialogRecord, Members
  <1>4. left \in Seq(DialogRecord) /\ Len(left) = Len(ds)
    BY ClosedDialogs
  <1>5. /\ ds' = Append(left, r) /\ dialog' = Len(ds) + 1 /\ buttons' = {"cancel"}
        /\ UNCHANGED <<who, jobs, remembered, late>>
    BY DEF Dialog!Start, Dialog!Fresh, Dialog!session, Dialog!history
  <1> HIDE DEF r, left
  <1>6. ds' \in Seq(DialogRecord) /\ dialog' \in DOMAIN ds' /\ ds'[dialog'] = r /\ dialog' \in Nat
    BY <1>1, <1>3, <1>4, <1>5
  <1> QED BY <1>3, <1>5, <1>6 DEF DialogInv, DialogTyped, Kept

\* The dialog is closed by the user, by a cancel or by a sign-out.
LEMMA CloseKeeps ==
    ASSUME DialogInv, Dialog!Close \/ Dialog!Cancel \/ Dialog!SignOut
    PROVE  DialogInv'
  <1>1. /\ ds' = Dialog!Closing(dialog) /\ dialog' = 0 /\ late' = late
        /\ who' \in {who, NoValue} /\ remembered' \in [Accounts -> Nat]
    BY DEF Dialog!Close, Dialog!Cancel, Dialog!SignOut, Dialog!session, Dialog!history, Dialog!Remember,
           DialogInv, DialogTyped, Members
  <1>2. jobs' \in Seq(JobRecord)
    <2>1. CASE jobs' = jobs
      BY <2>1 DEF DialogInv, DialogTyped
    <2>2. CASE jobs' # jobs
      <3> DEFINE j == ds[dialog].job
                 job == IF jobs[j].owner = who /\ jobs[j].state = "building"
                        THEN [jobs[j] EXCEPT !.state = "cancelled"] ELSE jobs[j]
      <3>1. jobs' = [jobs EXCEPT ![j] = job]
        BY <2>2 DEF Dialog!Close, Dialog!Cancel, Dialog!SignOut
      <3>2. jobs \in Seq(JobRecord)
        BY DEF DialogInv, DialogTyped
      <3>3. j \in DOMAIN jobs
        BY <2>2, <3>1, <3>2
      <3>4. jobs[j] \in JobRecord
        BY <3>2, <3>3
      <3>5. job \in JobRecord
        BY <3>4 DEF JobRecord
      <3> HIDE DEF job, j
      <3> QED BY <3>1, <3>2, <3>3, <3>5
    <2> QED BY <2>1, <2>2
  <1> QED BY <1>1, <1>2, ClosedDialogs DEF DialogInv, DialogTyped, Members

\* The sharing sheet opens, or a link is renewed or opened, at a tap.
LEMMA TapKeeps ==
    ASSUME DialogInv, Dialog!Share \/ Dialog!OpenTicket
    PROVE  DialogInv'
  <1>1. /\ dialog # 0 /\ dialog \in DOMAIN ds /\ ds[dialog] \in DialogRecord /\ Kept(ds[dialog], buttons)
        /\ who \in Members
    BY DEF Dialog!Share, Dialog!OpenTicket, DialogInv, DialogTyped
  <1>2. /\ UNCHANGED <<dialog, who, jobs, remembered, late>>
        /\ jobs \in Seq(JobRecord) /\ remembered \in [Accounts -> Nat] /\ ~ late
    BY DEF Dialog!Share, Dialog!OpenTicket, Dialog!session, Dialog!history, DialogInv, DialogTyped
  <1>3. CASE Dialog!Share
    <2> DEFINE r == [ds[dialog] EXCEPT !.share = TRUE]
    <2>1. /\ r \in DialogRecord /\ r.file = ds[dialog].file /\ r.ticket = ds[dialog].ticket /\ r.file
          /\ r.renewing = ds[dialog].renewing /\ ds' = [ds EXCEPT ![dialog] = r] /\ buttons' = buttons
      BY <1>1, <1>3 DEF Dialog!Share, DialogRecord
    <2> HIDE DEF r
    <2> QED BY <1>1, <1>2, <2>1, DialogMoves DEF Kept
  <1>4. CASE Dialog!OpenTicket /\ ds' = ds
    <2>1. buttons' = buttons \cup {"open", "close"} /\ ds[dialog].ticket
      <3>1. ~ ds[dialog].renewing /\ ds[dialog].ticket
        BY <1>4 DEF Dialog!OpenTicket
      <3>2. ASSUME ds' = [ds EXCEPT ![dialog].renewing = TRUE, ![dialog].sentFor = who] PROVE FALSE
        <4>1. ds'[dialog].renewing
          BY <1>1, <3>2 DEF DialogRecord
        <4> QED BY <1>4, <3>1, <4>1
      <3> QED BY <1>4, <3>1, <3>2 DEF Dialog!OpenTicket
    <2> QED BY <1>1, <1>2, <1>4, <2>1 DEF DialogInv, DialogTyped, Kept
  <1>5. CASE Dialog!OpenTicket /\ ds' # ds
    <2> DEFINE r == [ds[dialog] EXCEPT !.renewing = TRUE, !.sentFor = who]
    <2>1. /\ r \in DialogRecord /\ r.file = ds[dialog].file /\ r.ticket = ds[dialog].ticket
          /\ r.share = ds[dialog].share /\ r.ticket
          /\ ds' = [ds EXCEPT ![dialog] = r] /\ buttons' = buttons \ {"open"}
      BY <1>1, <1>5 DEF Dialog!OpenTicket, DialogRecord
    <2> HIDE DEF r
    <2> QED BY <1>1, <1>2, <2>1, DialogMoves DEF Kept
  <1> QED BY <1>3, <1>4, <1>5

\* The sharing sheet has been closed, or refused; a link has been renewed, or not.
LEMMA AfterTapKeeps ==
    ASSUME DialogInv, NEW d \in DOMAIN ds, Dialog!Shared(d) \/ Dialog!Renewed(d)
    PROVE  DialogInv'
  <1>1. /\ UNCHANGED <<dialog, who, jobs, remembered>>
        /\ jobs \in Seq(JobRecord) /\ remembered \in [Accounts -> Nat] /\ ~ late
        /\ ds[d] \in DialogRecord /\ d # 0 /\ who \in Members
        /\ d = dialog => Kept(ds[d], buttons)
    BY DEF Dialog!Shared, Dialog!Renewed, Dialog!session, DialogInv, DialogTyped
  <1>2. ASSUME ds[d].share, ds' = [ds EXCEPT ![d].share = FALSE],
               IF Dialog!Current(d) THEN Dialog!Ui(d, {"share", "close"}, {}) ELSE Dialog!Silent
        PROVE  DialogInv'
    <2> DEFINE r == [ds[d] EXCEPT !.share = FALSE]
    <2>1. /\ r \in DialogRecord /\ r.file = ds[d].file /\ r.ticket = ds[d].ticket /\ ~ r.share
          /\ r.renewing = ds[d].renewing /\ ds' = [ds EXCEPT ![d] = r]
      BY <1>1, <1>2 DEF DialogRecord
    <2> HIDE DEF r
    <2>2. CASE Dialog!Current(d)
      <3>1. d = dialog /\ buttons' = buttons \cup {"share", "close"} /\ ~ late'
        BY <1>2, <2>2, ButtonsMove
      <3> QED BY <1>1, <1>2, <2>1, <3>1, DialogMoves DEF Kept
    <2>3. CASE ~ Dialog!Current(d)
      BY <1>1, <1>2, <2>1, <2>3, SilenceMoves, DialogMoves
    <2> QED BY <2>2, <2>3
  <1>3. ASSUME Dialog!Current(d), Dialog!Ui(d, {}, {"share"}),
               ds' = [ds EXCEPT ![d].share = FALSE, ![d].file = FALSE, ![d].at = "ticket", ![d].sentFor = who]
        PROVE  DialogInv'
    <2> DEFINE r == [ds[d] EXCEPT !.share = FALSE, !.file = FALSE, !.at = "ticket", !.sentFor = who]
    <2>1. /\ r \in DialogRecord /\ r.ticket = ds[d].ticket /\ ~ r.share
          /\ r.renewing = ds[d].renewing /\ ds' = [ds EXCEPT ![d] = r]
      BY <1>1, <1>3 DEF DialogRecord, DialogStages
    <2> HIDE DEF r
    <2>2. d = dialog /\ buttons' = buttons \ {"share"} /\ ~ late'
      BY <1>3, ButtonsMove
    <2> QED BY <1>1, <2>1, <2>2, DialogMoves DEF Kept
  <1>4. ASSUME ds[d].share, ds' = [ds EXCEPT ![d].share = FALSE], Dialog!Silent
        PROVE  DialogInv'
    <2> DEFINE r == [ds[d] EXCEPT !.share = FALSE]
    <2>1. /\ r \in DialogRecord /\ r.file = ds[d].file /\ r.ticket = ds[d].ticket /\ ~ r.share
          /\ r.renewing = ds[d].renewing /\ ds' = [ds EXCEPT ![d] = r]
      BY <1>1, <1>4 DEF DialogRecord
    <2> HIDE DEF r
    <2> QED BY <1>1, <1>4, <2>1, SilenceMoves, DialogMoves
  <1>5. CASE Dialog!Shared(d)
    BY <1>2, <1>3, <1>4, <1>5 DEF Dialog!Shared
  <1>6. CASE Dialog!Renewed(d)
    <2> DEFINE r == [ds[d] EXCEPT !.renewing = FALSE]
    <2>1. /\ r \in DialogRecord /\ r.file = ds[d].file /\ r.ticket = ds[d].ticket /\ ~ r.renewing
          /\ r.share = ds[d].share /\ ds' = [ds EXCEPT ![d] = r] /\ ds[d].renewing
      BY <1>1, <1>6 DEF DialogRecord, Dialog!Renewed
    <2> HIDE DEF r
    <2>2. \/ Dialog!Current(d) /\ Dialog!Ui(d, {"open", "close"}, {})
          \/ Dialog!Failed(d) \/ Dialog!Silent
      BY <1>6 DEF Dialog!Renewed
    <2>3. CASE Dialog!Current(d) /\ Dialog!Ui(d, {"open", "close"}, {})
      <3>1. d = dialog /\ buttons' = buttons \cup {"open", "close"} /\ ~ late'
        BY <2>3, ButtonsMove
      <3> QED BY <1>1, <2>1, <3>1, DialogMoves DEF Kept
    <2>4. CASE Dialog!Failed(d)
      BY <1>1, <2>1, <2>4, FailureMoves, DialogMoves
    <2>5. CASE Dialog!Silent
      BY <1>1, <2>1, <2>5, SilenceMoves, DialogMoves
    <2> QED BY <2>2, <2>3, <2>4, <2>5
  <1> QED BY <1>5, <1>6

\* Every step of the dialog preserves its invariant.
LEMMA DialogStepKeeps ==
    ASSUME DialogInv, Dialog!Next
    PROVE  DialogInv'
  <1>1. ASSUME NEW kind \in Dialog!Kinds, Dialog!Open(kind) PROVE DialogInv'
    <2>1. CASE Dialog!Start(kind, FALSE)
      BY <2>1, StartKeeps
    <2>2. CASE UNCHANGED <<who, ds, dialog, buttons, jobs, remembered, late>>
      BY <2>2 DEF DialogInv, DialogTyped
    <2> QED BY <1>1, <2>1, <2>2 DEF Dialog!Open, Dialog!session, Dialog!history
  <1>2. CASE Dialog!DirectAnswered
    BY <1>2 DEF Dialog!DirectAnswered, Dialog!session, Dialog!history, DialogInv, DialogTyped
  <1>3. CASE Dialog!Retry \/ Dialog!Partial
    <2>1. ds[dialog].kind \in Dialog!Kinds /\ "zip" \in Dialog!Kinds
      <3>1. ds[dialog] \in DialogRecord
        <4>1. dialog \in DOMAIN ds /\ ds \in Seq(DialogRecord)
          BY <1>3 DEF Dialog!Retry, Dialog!Partial, DialogInv, DialogTyped
        <4> QED BY <4>1
      <3> QED BY <3>1 DEF DialogRecord, Dialog!Kinds
    <2> QED BY <1>3, <2>1, StartKeeps DEF Dialog!Retry, Dialog!Partial
  <1>4. ASSUME NEW a \in Accounts, Dialog!Become(a) PROVE DialogInv'
    BY <1>4 DEF Dialog!Become, Dialog!history, DialogInv, DialogTyped, Members
  <1>5. ASSUME NEW d \in 1 .. Len(ds),
               \/ Dialog!Shared(d) \/ Dialog!Renewed(d) \/ Dialog!Fails(d) \/ Dialog!Read(d) \/ Dialog!Ticket(d)
               \/ Dialog!Info(d) \/ Dialog!Known(d) \/ Dialog!Create(d) \/ Dialog!Step(d)
        PROVE  DialogInv'
    <2>1. d \in DOMAIN ds
      BY DEF DialogInv, DialogTyped
    <2> QED BY <1>5, <2>1, AfterTapKeeps, FailsKeeps, ReadKeeps, TicketKeeps, InfoKeeps, KnownKeeps, CreateKeeps,
               JobStepKeeps
  <1> QED BY <1>1, <1>2, <1>3, <1>4, <1>5, CloseKeeps, TapKeeps DEF Dialog!Next

\* The dialog at the beginning.
LEMMA DialogInitHolds ==
    ASSUME Dialog!Init
    PROVE  DialogInv
  BY DEF Dialog!Init, DialogInv, DialogTyped, Members

\* The invariant says what the run checks.
LEMMA DialogInvSays ==
    ASSUME DialogInv
    PROVE  Dialog!NothingComesLate /\ Dialog!ButtonsSave
  BY DEF DialogInv, Dialog!NothingComesLate, Dialog!ButtonsSave, Kept

-----------------------------------------------------------------------------
(* The viewer *)

DocumentRecord == [url : Urls, seq : Nat, aborted : BOOLEAN, pdf : {"none", "opening", "open", "gone"}]
DrawRecord == [entry : Nat, seq : Nat, page : Nat,
               at : {"library", "fetch", "open", "first", "page", "drawing", "over"}]

ViewerTyped ==
    /\ seq \in Nat /\ current \in Nat /\ url \in Urls \cup {NoValue}
    /\ entries \in Seq(DocumentRecord) /\ renders \in Seq(DrawRecord) /\ canvases \in Seq(Nat)

\* The document of the viewer is that of the last request; those before it are
\* not opened any more, and what is drawn belongs to it.
ViewerInv ==
    /\ ViewerTyped
    /\ current # 0 => current \in DOMAIN entries /\ entries[current].seq = seq /\ entries[current].url = url
    /\ \A r \in DOMAIN renders : renders[r].entry \in DOMAIN entries
    /\ \A i \in DOMAIN canvases : canvases[i] \in DOMAIN renders
    /\ Viewer!ShowsTheLatest /\ Viewer!OneDocument

\* What becomes of the documents when one is destroyed.
LEMMA DestroyedFields ==
    ASSUME ViewerInv
    PROVE  /\ Viewer!Destroyed(current) \in Seq(DocumentRecord)
           /\ DOMAIN Viewer!Destroyed(current) = DOMAIN entries
           /\ Len(Viewer!Destroyed(current)) = Len(entries)
           /\ \A e \in DOMAIN entries :
                 /\ Viewer!Destroyed(current)[e].url = entries[e].url
                 /\ Viewer!Destroyed(current)[e].seq = entries[e].seq
                 /\ Viewer!Destroyed(current)[e].pdf \notin {"open", "opening"}
  <1>1. CASE current = 0
    BY <1>1 DEF Viewer!Destroyed, ViewerInv, ViewerTyped, Viewer!OneDocument
  <1>2. CASE current # 0
    <2> DEFINE d == entries[current]
               gone == [d EXCEPT !.aborted = TRUE, !.pdf = IF @ = "none" THEN @ ELSE "gone"]
    <2>1. d \in DocumentRecord
      BY <1>2 DEF ViewerInv, ViewerTyped
    <2>2. gone \in DocumentRecord /\ gone.url = d.url /\ gone.seq = d.seq /\ gone.pdf \notin {"open", "opening"}
      BY <2>1 DEF DocumentRecord
    <2>3. Viewer!Destroyed(current) = [entries EXCEPT ![current] = gone]
      BY <1>2, <2>1 DEF Viewer!Destroyed, DocumentRecord
    <2> HIDE DEF gone
    <2> QED BY <1>2, <2>2, <2>3 DEF ViewerInv, ViewerTyped, Viewer!OneDocument
  <1> QED BY <1>1, <1>2

\* A run that is not overtaken belongs to the last request.
LEMMA MineIsLast ==
    ASSUME ViewerInv, NEW r \in DOMAIN renders, Viewer!Mine(r)
    PROVE  current # 0 /\ renders[r].entry = current /\ renders[r].seq = seq /\ entries[current].url = url
  <1>1. renders[r].entry \in DOMAIN entries
    BY DEF ViewerInv
  <1> QED BY <1>1 DEF Viewer!Mine, ViewerInv, ViewerTyped

\* The runs may go on, as the last request's they may draw; the documents may be fetched,
\* opened and destroyed, as long as the one that is open is the viewer's.
LEMMA ViewerMoves ==
    ASSUME ViewerInv, seq' = seq, url' = url, current' \in {current, 0},
           renders' \in Seq(DrawRecord), DOMAIN renders' = DOMAIN renders,
           \A r \in DOMAIN renders : renders'[r].entry = renders[r].entry /\ renders'[r].seq = renders[r].seq,
           entries' \in Seq(DocumentRecord), DOMAIN entries' = DOMAIN entries,
           \A e \in DOMAIN entries : entries'[e].url = entries[e].url /\ entries'[e].seq = entries[e].seq,
           \A e \in DOMAIN entries : entries'[e].pdf \in {"open", "opening"} => e = current',
           \/ canvases' = canvases
           \/ \E r \in DOMAIN renders : Viewer!Mine(r) /\ canvases' = Append(canvases, r)
    PROVE  ViewerInv'
  <1>1. \A r \in DOMAIN renders : renders[r].entry \in DOMAIN entries
    BY DEF ViewerInv
  <1> DEFINE Shown(r) == /\ r \in DOMAIN renders /\ renders[r].seq = seq
                         /\ entries[renders[r].entry].url = url
  <1>2. canvases' \in Seq(Nat) /\ \A i \in DOMAIN canvases' : Shown(canvases'[i])
    <2>1. CASE canvases' = canvases
      BY <2>1 DEF ViewerInv, ViewerTyped, Viewer!ShowsTheLatest
    <2>2. ASSUME NEW r \in DOMAIN renders, Viewer!Mine(r), canvases' = Append(canvases, r)
          PROVE  canvases' \in Seq(Nat) /\ \A i \in DOMAIN canvases' : Shown(canvases'[i])
      <3>1. /\ renders[r].seq = seq /\ entries[renders[r].entry].url = url /\ r \in Nat
        BY <2>2, MineIsLast DEF ViewerInv, ViewerTyped
      <3>2. /\ DOMAIN canvases' = 1 .. Len(canvases) + 1 /\ canvases' \in Seq(Nat)
            /\ \A i \in DOMAIN canvases : canvases'[i] = canvases[i]
            /\ canvases'[Len(canvases) + 1] = r
        <4>1. canvases \in Seq(Nat) /\ r \in Nat /\ canvases' = Append(canvases, r)
          BY <2>2, <3>1 DEF ViewerInv, ViewerTyped
        <4> HIDE <2>2
        <4> QED BY <4>1
      <3>3. DOMAIN canvases = 1 .. Len(canvases) /\ Len(canvases) \in Nat
        BY DEF ViewerInv, ViewerTyped
      <3>4. Shown(r) /\ \A i \in DOMAIN canvases : Shown(canvases[i])
        BY <3>1 DEF ViewerInv, Viewer!ShowsTheLatest
      <3> HIDE DEF Shown
      <3> QED BY <3>2, <3>3, <3>4
    <2> QED BY <2>1, <2>2
  <1>3. ViewerTyped'
    BY <1>2 DEF ViewerTyped, ViewerInv
  <1>4. Viewer!ShowsTheLatest'
    <2> SUFFICES ASSUME NEW i \in DOMAIN canvases'
                 PROVE  /\ renders'[canvases'[i]].seq = seq'
                        /\ entries'[renders'[canvases'[i]].entry].url = url'
      BY DEF Viewer!ShowsTheLatest
    <2>1. Shown(canvases'[i])
      BY <1>2
    <2> QED BY <1>1, <2>1
  <1>5. Viewer!OneDocument'
    BY DEF Viewer!OneDocument
  <1>6. current' # 0 => current' \in DOMAIN entries' /\ entries'[current'].seq = seq' /\ entries'[current'].url = url'
    BY DEF ViewerInv
  <1> QED BY <1>1, <1>2, <1>3, <1>4, <1>5, <1>6 DEF ViewerInv

\* What a run that goes on keeps.
LEMMA GoneOn ==
    ASSUME ViewerInv, NEW r \in DOMAIN renders, NEW stage, Viewer!Go(r, stage),
           stage \in {"library", "fetch", "open", "first", "page", "drawing", "over"}
    PROVE  /\ renders' \in Seq(DrawRecord) /\ DOMAIN renders' = DOMAIN renders
           /\ \A q \in DOMAIN renders : renders'[q].entry = renders[q].entry /\ renders'[q].seq = renders[q].seq
  <1> DEFINE next == [renders[r] EXCEPT !.at = stage]
  <1>1. renders[r] \in DrawRecord
    BY DEF ViewerInv, ViewerTyped
  <1>2. next \in DrawRecord /\ next.entry = renders[r].entry /\ next.seq = renders[r].seq
    BY <1>1 DEF DrawRecord
  <1>3. renders' = [renders EXCEPT ![r] = next]
    BY <1>1 DEF Viewer!Go, DrawRecord
  <1> HIDE DEF next
  <1> QED BY <1>2, <1>3 DEF ViewerInv, ViewerTyped

\* A request begins: a new sheet, or the same document once more.
LEMMA RenderKeeps ==
    ASSUME ViewerInv, NEW u \in Urls, Viewer!Render(u)
    PROVE  ViewerInv'
  <1> DEFINE run == [entry |-> current', seq |-> seq + 1, at |-> "library", page |-> 1]
  <1>1. seq \in Nat /\ current \in Nat /\ Len(entries) \in Nat /\ DOMAIN entries = 1 .. Len(entries)
        /\ Len(renders) \in Nat /\ DOMAIN renders = 1 .. Len(renders)
    BY DEF ViewerInv, ViewerTyped
  <1>2. seq' = seq + 1 /\ url' = u /\ canvases' = <<>> /\ renders' = Append(renders, run)
    BY DEF Viewer!Render
  <1>3. /\ current' \in Nat /\ current' \in DOMAIN entries' /\ entries' \in Seq(DocumentRecord)
        /\ entries'[current'].seq = seq' /\ entries'[current'].url = u
        /\ \A e \in DOMAIN entries' : entries'[e].pdf \in {"open", "opening"} => e = current'
        /\ DOMAIN entries \subseteq DOMAIN entries'
    <2>1. CASE Viewer!Reuses(u)
      <3> DEFINE d == [entries[current] EXCEPT !.seq = seq + 1]
      <3>1. current \in DOMAIN entries /\ entries[current].url = u
        BY <2>1 DEF Viewer!Reuses, ViewerInv
      <3>2. d \in DocumentRecord /\ d.seq = seq + 1 /\ d.url = u /\ d.pdf = entries[current].pdf
        <4>1. entries[current] \in DocumentRecord
          BY <3>1 DEF ViewerInv, ViewerTyped
        <4> QED BY <1>1, <3>1, <4>1 DEF DocumentRecord
      <3>3. entries' = [entries EXCEPT ![current] = d] /\ current' = current
        BY <2>1, <3>1 DEF Viewer!Render
      <3> HIDE DEF d
      <3> QED BY <1>1, <1>2, <3>1, <3>2, <3>3 DEF ViewerInv, ViewerTyped, Viewer!OneDocument
    <2>2. CASE ~ Viewer!Reuses(u)
      <3> DEFINE left == Viewer!Destroyed(current)
                 d == [url |-> u, seq |-> seq + 1, aborted |-> FALSE, pdf |-> "none"]
      <3>1. d \in DocumentRecord /\ d.seq = seq + 1 /\ d.url = u /\ d.pdf = "none"
        BY <1>1 DEF DocumentRecord
      <3>2. current' = Len(entries) + 1 /\ entries' = Append(left, d)
        BY <2>2 DEF Viewer!Render
      <3>3. /\ left \in Seq(DocumentRecord) /\ DOMAIN left = DOMAIN entries /\ Len(left) = Len(entries)
            /\ \A e \in DOMAIN entries : left[e].pdf \notin {"open", "opening"}
        BY DestroyedFields
      <3> HIDE DEF d, left
      <3>4. /\ entries' \in Seq(DocumentRecord) /\ DOMAIN entries' = 1 .. Len(entries) + 1
            /\ entries'[Len(entries) + 1] = d /\ \A e \in DOMAIN entries : entries'[e] = left[e]
        BY <1>1, <3>1, <3>2, <3>3
      <3> QED BY <1>1, <1>2, <3>1, <3>2, <3>3, <3>4
    <2> QED BY <2>1, <2>2
  <1>4. run \in DrawRecord /\ run.entry = current'
    BY <1>1, <1>3 DEF DrawRecord
  <1> HIDE DEF run
  <1>5. /\ renders' \in Seq(DrawRecord) /\ DOMAIN renders' = 1 .. Len(renders) + 1
        /\ \A r \in DOMAIN renders : renders'[r] = renders[r]
        /\ renders'[Len(renders) + 1] = run
    BY <1>1, <1>2, <1>4 DEF ViewerInv, ViewerTyped
  <1>6. \A r \in DOMAIN renders' : renders'[r].entry \in DOMAIN entries'
    BY <1>1, <1>3, <1>4, <1>5 DEF ViewerInv
  <1>7. canvases' \in Seq(Nat) /\ DOMAIN canvases' = {}
    BY <1>2
  <1>8. ViewerTyped'
    BY <1>1, <1>2, <1>3, <1>5, <1>7 DEF ViewerTyped
  <1>9. Viewer!OneDocument' /\ Viewer!ShowsTheLatest'
    BY <1>3, <1>7 DEF Viewer!OneDocument, Viewer!ShowsTheLatest
  <1> QED BY <1>2, <1>3, <1>6, <1>7, <1>8, <1>9 DEF ViewerInv

\* The viewer is left.
LEMMA ClearKeeps ==
    ASSUME ViewerInv, Viewer!Clear
    PROVE  ViewerInv'
  <1>1. /\ seq' = seq + 1 /\ current' = 0 /\ canvases' = <<>> /\ renders' = renders
        /\ entries' = Viewer!Destroyed(current)
    BY DEF Viewer!Clear
  <1>2. canvases' \in Seq(Nat) /\ DOMAIN canvases' = {}
    BY <1>1
  <1>3. ViewerTyped' /\ url' = NoValue
    BY <1>1, <1>2, DestroyedFields DEF Viewer!Clear, ViewerInv, ViewerTyped
  <1>4. Viewer!ShowsTheLatest' /\ Viewer!OneDocument'
    BY <1>1, <1>2, DestroyedFields DEF Viewer!ShowsTheLatest, Viewer!OneDocument
  <1>5. \A r \in DOMAIN renders' : renders'[r].entry \in DOMAIN entries'
    BY <1>1, DestroyedFields DEF ViewerInv
  <1> QED BY <1>1, <1>2, <1>3, <1>4, <1>5 DEF ViewerInv

\* The load of the library has an end, for every run that waits for it.
LEMMA LoadedKeeps ==
    ASSUME ViewerInv, NEW ok \in BOOLEAN, Viewer!Loaded(ok)
    PROVE  ViewerInv'
  <1> DEFINE waiting(r) == renders[r].at = "library"
             next(r) == IF ~ ok \/ ~ Viewer!Mine(r) THEN "over"
                        ELSE IF entries[renders[r].entry].pdf = "open" THEN "first" ELSE "fetch"
             run(r) == IF waiting(r) THEN [renders[r] EXCEPT !.at = next(r)] ELSE renders[r]
  <1>1. renders' = [r \in DOMAIN renders |-> run(r)]
    BY DEF Viewer!Loaded
  <1>2. \A r \in DOMAIN renders : /\ run(r) \in DrawRecord /\ run(r).entry = renders[r].entry
                                 /\ run(r).seq = renders[r].seq
    <2> SUFFICES ASSUME NEW r \in DOMAIN renders
                 PROVE  /\ run(r) \in DrawRecord /\ run(r).entry = renders[r].entry
                        /\ run(r).seq = renders[r].seq
      OBVIOUS
    <2>1. renders[r] \in DrawRecord
      BY DEF ViewerInv, ViewerTyped
    <2>2. next(r) \in {"over", "first", "fetch"}
      OBVIOUS
    <2> HIDE DEF next
    <2> QED BY <2>1, <2>2 DEF DrawRecord
  <1> HIDE DEF run
  <1>3. /\ renders' \in Seq(DrawRecord) /\ DOMAIN renders' = DOMAIN renders
        /\ \A r \in DOMAIN renders : renders'[r].entry = renders[r].entry /\ renders'[r].seq = renders[r].seq
    <2>1. renders \in Seq(DrawRecord) /\ DOMAIN renders = 1 .. Len(renders) /\ Len(renders) \in Nat
      BY DEF ViewerInv, ViewerTyped
    <2> QED BY <1>1, <1>2, <2>1
  <1>4. seq' = seq /\ url' = url /\ canvases' = canvases
    BY DEF Viewer!Loaded
  <1>5. \/ entries' = Viewer!Destroyed(current) /\ current' = 0
        \/ entries' = entries /\ current' = current
    BY DEF Viewer!Loaded
  <1> QED BY <1>3, <1>4, <1>5, ViewerMoves, DestroyedFields
          DEF ViewerInv, ViewerTyped, Viewer!OneDocument

\* What a step of a run does to the documents and the screen.
LEMMA StepMoves ==
    ASSUME ViewerInv, NEW r \in DOMAIN renders, NEW stage, Viewer!Go(r, stage),
           stage \in {"library", "fetch", "open", "first", "page", "drawing", "over"},
           seq' = seq, url' = url,
           \/ entries' = entries /\ current' = current
           \/ entries' = Viewer!Destroyed(current) /\ current' = 0,
           \/ canvases' = canvases
           \/ Viewer!Mine(r) /\ canvases' = Append(canvases, r)
    PROVE  ViewerInv'
  <1>1. /\ renders' \in Seq(DrawRecord) /\ DOMAIN renders' = DOMAIN renders
        /\ \A q \in DOMAIN renders : renders'[q].entry = renders[q].entry /\ renders'[q].seq = renders[q].seq
    BY GoneOn
  <1>2. /\ entries' \in Seq(DocumentRecord) /\ DOMAIN entries' = DOMAIN entries
        /\ \A e \in DOMAIN entries : entries'[e].url = entries[e].url /\ entries'[e].seq = entries[e].seq
        /\ \A e \in DOMAIN entries : entries'[e].pdf \in {"open", "opening"} => e = current'
    BY DestroyedFields DEF ViewerInv, ViewerTyped, Viewer!OneDocument
  <1> QED BY <1>1, <1>2, ViewerMoves

\* A document begins to be opened, or is open, for the run that asked.
LEMMA StageMoves ==
    ASSUME ViewerInv, NEW r \in DOMAIN renders, NEW stage, Viewer!Go(r, stage),
           stage \in {"library", "fetch", "open", "first", "page", "drawing", "over"},
           seq' = seq, url' = url, canvases' = canvases, current' = current,
           NEW pdf \in {"opening", "open"}, renders[r].entry = current,
           entries' = [entries EXCEPT ![renders[r].entry].pdf = pdf]
    PROVE  ViewerInv'
  <1> DEFINE d == [entries[current] EXCEPT !.pdf = pdf]
  <1>1. current \in DOMAIN entries /\ entries[current] \in DocumentRecord
    BY DEF ViewerInv, ViewerTyped
  <1>2. d \in DocumentRecord /\ d.url = entries[current].url /\ d.seq = entries[current].seq
    BY <1>1 DEF DocumentRecord
  <1>3. entries' = [entries EXCEPT ![current] = d]
    BY <1>1 DEF DocumentRecord
  <1> HIDE DEF d
  <1>4. /\ renders' \in Seq(DrawRecord) /\ DOMAIN renders' = DOMAIN renders
        /\ \A q \in DOMAIN renders : renders'[q].entry = renders[q].entry /\ renders'[q].seq = renders[q].seq
    BY GoneOn
  <1>5. /\ entries' \in Seq(DocumentRecord) /\ DOMAIN entries' = DOMAIN entries
        /\ \A e \in DOMAIN entries : entries'[e].url = entries[e].url /\ entries'[e].seq = entries[e].seq
        /\ \A e \in DOMAIN entries : entries'[e].pdf \in {"open", "opening"} => e = current'
    <2>1. DOMAIN entries' = DOMAIN entries /\ entries' \in Seq(DocumentRecord)
      <3>1. entries \in Seq(DocumentRecord)
        BY DEF ViewerInv, ViewerTyped
      <3> QED BY <1>1, <1>2, <1>3, <3>1
    <2>2. \A e \in DOMAIN entries : IF e = current THEN entries'[e] = d ELSE entries'[e] = entries[e]
      BY <1>3
    <2> QED BY <1>2, <2>1, <2>2 DEF ViewerInv, Viewer!OneDocument
  <1> QED BY <1>4, <1>5, ViewerMoves

\* The library, the file and the document have come.
LEMMA ViewerAnswerKeeps ==
    ASSUME ViewerInv, NEW r \in DOMAIN renders,
           Viewer!Library(r) \/ Viewer!Fetched(r) \/ Viewer!Opened(r)
    PROVE  ViewerInv'
  <1>1. CASE Viewer!Library(r)
    <2>1. PICK stage \in {"over", "first", "fetch"} : Viewer!Go(r, stage)
      BY <1>1 DEF Viewer!Library
    <2> QED BY <1>1, <2>1, StepMoves DEF Viewer!Library, Viewer!Rest
  <1>2. CASE Viewer!Fetched(r)
    <2>1. CASE Viewer!Mine(r)
      <3>1. renders[r].entry = current
        BY <2>1 DEF Viewer!Mine
      <3> QED BY <1>2, <2>1, <3>1, StageMoves DEF Viewer!Fetched, Viewer!Rest
    <2>2. CASE ~ Viewer!Mine(r)
      BY <1>2, <2>2, StepMoves DEF Viewer!Fetched, Viewer!Rest
    <2> QED BY <2>1, <2>2
  <1>3. CASE Viewer!Opened(r)
    <2>1. renders[r].entry = current
      BY <1>3 DEF Viewer!Opened, ViewerInv, Viewer!OneDocument
    <2>2. PICK stage \in {"over", "first"} : Viewer!Go(r, stage)
      BY <1>3 DEF Viewer!Opened
    <2> QED BY <1>3, <2>1, <2>2, StageMoves DEF Viewer!Opened, Viewer!Rest
  <1> QED BY <1>1, <1>2, <1>3

\* A page is put on the screen and drawn, or something fails.
LEMMA ViewerDrawKeeps ==
    ASSUME ViewerInv, NEW r \in DOMAIN renders,
           Viewer!FirstPage(r) \/ Viewer!NextPage(r) \/ Viewer!Fail(r)
    PROVE  ViewerInv'
  <1>1. CASE Viewer!FirstPage(r) \/ Viewer!NextPage(r)
    <2>1. /\ seq' = seq /\ url' = url /\ entries' = entries /\ current' = current
          /\ \/ Viewer!Mine(r) /\ Viewer!Draw(r)
             \/ Viewer!Go(r, "over") /\ canvases' = canvases
      BY <1>1 DEF Viewer!FirstPage, Viewer!NextPage, Viewer!Rest
    <2> QED BY <2>1, StepMoves DEF Viewer!Draw
  <1>2. CASE Viewer!Fail(r)
    BY <1>2, StepMoves DEF Viewer!Fail
  <1> QED BY <1>1, <1>2

\* A page has been drawn.
LEMMA DrawnKeeps ==
    ASSUME ViewerInv, NEW r \in DOMAIN renders, Viewer!Drawn(r)
    PROVE  ViewerInv'
  <1> DEFINE stage == IF renders[r].page < Pages /\ Viewer!Mine(r) THEN "page" ELSE "over"
             page == renders[r].page + 1
             next == [renders[r] EXCEPT !.page = page, !.at = stage]
  <1>1. renders[r] \in DrawRecord
    BY DEF ViewerInv, ViewerTyped
  <1>2. next \in DrawRecord /\ next.entry = renders[r].entry /\ next.seq = renders[r].seq
    <2>1. stage \in {"page", "over"} /\ page \in Nat
      BY <1>1 DEF DrawRecord
    <2> HIDE DEF stage, page
    <2> QED BY <1>1, <2>1 DEF DrawRecord
  <1>3. renders' = [renders EXCEPT ![r] = next]
    BY <1>1 DEF Viewer!Drawn, DrawRecord
  <1> HIDE DEF next
  <1>4. /\ renders' \in Seq(DrawRecord) /\ DOMAIN renders' = DOMAIN renders
        /\ \A q \in DOMAIN renders : renders'[q].entry = renders[q].entry /\ renders'[q].seq = renders[q].seq
    BY <1>2, <1>3 DEF ViewerInv, ViewerTyped
  <1>5. UNCHANGED <<seq, url, entries, current, canvases>>
    BY DEF Viewer!Drawn, Viewer!Rest
  <1> QED BY <1>4, <1>5, ViewerMoves DEF ViewerInv, ViewerTyped, Viewer!OneDocument

\* Every step of the viewer preserves its invariant.
LEMMA ViewerStepKeeps ==
    ASSUME ViewerInv, Viewer!Next
    PROVE  ViewerInv'
  <1>1. ASSUME NEW u \in Urls, Viewer!Show(u) PROVE ViewerInv'
    BY <1>1, RenderKeeps DEF Viewer!Show
  <1>2. CASE Viewer!Zoom \/ Viewer!Fit
    BY <1>2, RenderKeeps DEF Viewer!Zoom, Viewer!Fit, ViewerInv, ViewerTyped
  <1>3. CASE Viewer!Clear
    BY <1>3, ClearKeeps
  <1> QED BY <1>1, <1>2, <1>3, LoadedKeeps, ViewerAnswerKeeps, ViewerDrawKeeps, DrawnKeeps DEF Viewer!Next

\* The viewer at the beginning.
LEMMA ViewerInitHolds ==
    ASSUME Viewer!Init
    PROVE  ViewerInv
  BY DEF Viewer!Init, ViewerInv, ViewerTyped, Viewer!ShowsTheLatest, Viewer!OneDocument

-----------------------------------------------------------------------------
(* The screens, each behaviour one of them *)

ScreensInv ==
    /\ part = "upload" => UploadInv
    /\ part = "form" => FormInv
    /\ part = "dialog" => DialogInv
    /\ part = "viewer" => ViewerInv

\* A part that stands still.
LEMMA ScreensStandStill ==
    ASSUME UNCHANGED screens
    PROVE  /\ UploadInv => UploadInv'
           /\ FormInv => FormInv'
           /\ DialogInv => DialogInv'
           /\ ViewerInv => ViewerInv'
  <1> USE DEF screens, uploadVars, fileVars, saveVars, viewerVars, sharedVars
  <1>1. UploadInv => UploadInv'
    <2>1. UploadTyped' <=> UploadTyped
      BY DEF UploadTyped
    <2>2. \A x : Sound(x)' <=> Sound(x)
      BY DEF Sound, Served
    <2>3. \A t \in Tabs : TabSound(tabs[t])' <=> TabSound(tabs[t])
      BY <2>2 DEF TabSound, BatchesOf, Upload!NoPrep
    <2>4. \A a : Sound(stored[a])' <=> Sound(stored[a])
      BY DEF Sound, Served
    <2>5. \A b : OneHome(b)' <=> OneHome(b)
      BY DEF OneHome, AtHome, BatchesOf
    <2>6. \A b : Held(b)' <=> Held(b)
      BY DEF Held, Served, Upload!NoPrep
    <2> HIDE DEF screens
    <2> QED BY <2>1, <2>3, <2>4, <2>5, <2>6 DEF UploadInv, screens
  <1>2. FormInv => FormInv'
    BY DEF FormInv, FormTyped, TaskSound, Recorded
  <1>3. DialogInv => DialogInv'
    BY DEF DialogInv, DialogTyped
  <1>4. ViewerInv => ViewerInv'
    BY DEF ViewerInv, ViewerTyped, Viewer!ShowsTheLatest, Viewer!OneDocument
  <1> QED BY <1>1, <1>2, <1>3, <1>4

\* Each screen keeps its invariant, whichever part the behaviour is of.
THEOREM ScreensHold == MCSpec => []ScreensInv
  <1>1. MCInit => ScreensInv
    BY UploadInitHolds, FormInitHolds, DialogInitHolds, ViewerInitHolds DEF MCInit, ScreensInv
  <1>2. ScreensInv /\ [MCNext]_<<part, vars, screens>> => ScreensInv'
    <2> SUFFICES ASSUME ScreensInv, [MCNext]_<<part, vars, screens>> PROVE ScreensInv'
      OBVIOUS
    <2>1. /\ part' = part
          /\ \/ UNCHANGED screens
             \/ part = "upload" /\ Upload!Next
             \/ part = "form" /\ Form!Next
             \/ part = "dialog" /\ Dialog!Next
             \/ part = "viewer" /\ Viewer!Next
      BY DEF MCNext
    <2> QED BY <2>1, ScreensStandStill, UploadStepKeeps, FormStepKeeps, DialogStepKeeps, ViewerStepKeeps DEF ScreensInv
  <1> QED BY <1>1, <1>2, PTL DEF MCSpec

\* A file of a batch is registered once, and a batch with a file left can be
\* resumed (upload_batch.js with localStorage, in several tabs).
THEOREM BatchesAreSafe == MCSpec => []BatchSafe
  <1>1. ScreensInv => BatchSafe
    BY UploadInvSays DEF ScreensInv, BatchSafe
  <1> QED BY <1>1, ScreensHold, PTL

\* A form is not saved under another operation ID while the end of the last is not
\* known (portalFileRequest).
THEOREM FormsAreSavedOnce == MCSpec => []KnownBeforeNext
  <1>1. ScreensInv => KnownBeforeNext
    BY FormInvSays DEF ScreensInv, KnownBeforeNext
  <1> QED BY <1>1, ScreensHold, PTL

\* A dialog that ended offers and downloads nothing, and the buttons of one that is
\* open have what they need (the dialog of the sheet library that saves).
THEOREM DialogsAreSafe == MCSpec => []DialogSafe
  <1>1. ScreensInv => DialogSafe
    BY DialogInvSays DEF ScreensInv, DialogSafe
  <1> QED BY <1>1, ScreensHold, PTL

\* The viewer shows what was asked for last and holds one document (sheet_viewer.js).
THEOREM ViewerIsSafe == MCSpec => []ViewerSafe
  <1>1. ScreensInv => ViewerSafe
    BY DEF ScreensInv, ViewerSafe, ViewerInv
  <1> QED BY <1>1, ScreensHold, PTL
=============================================================================
