---------------------------- MODULE LaboratoryProofs ---------------------------
(***************************************************************************)
(* Theorems about the laboratory, for any number of taps, settings,        *)
(* contexts and sessions:                                                  *)
(*   - MetronomeScreen: nothing starts for a tap the user no longer means, *)
(*     and nothing is held while the screen is left or hidden; and as long *)
(*     as no two taps overlap, what is shown as running has the output,    *)
(*     and no lease is forgotten;                                          *)
(*   - MetronomeEdits: what the editor shows is what plays;                *)
(*   - AnalysisScreen: a calibration is used with the route it was made    *)
(*     for, and a recording leaves nothing behind;                         *)
(*   - TunerScreen: no context leaks, nothing is kept while the user is    *)
(*     away, and the microphone hears no tone.                             *)
(*                                                                         *)
(* The predicates about the two screens take a state of what the screen    *)
(* uses, since the handlers of the code are chains of such states.  Of the *)
(* metronome's, what one of them needs of a state in the middle of a       *)
(* handler is Rough, what it leaves is Good; of the tuner's, what it needs *)
(* is Sound, and what it leaves is Settled too.                            *)
(***************************************************************************)
EXTENDS MCLaboratory, Sequences, TLAPS

-----------------------------------------------------------------------------
(* The metronome's screen: the invariant *)

\* The states of State.
Bodies ==
    [mounted : BOOLEAN, current : Taps \cup {Nobody}, asking : {"no", "claim", "takeover"},
     claim : {"none", "pending", "held", "busy", "stale", "waiting"}, lease : Taps \cup {Nobody},
     output : Taps \cup {Nobody}, kept : BOOLEAN, shown : RunStates \cup {"preparing", "busy"},
     idle : BOOLEAN]
Managers ==
    [claim : BOOLEAN, context : {"none", "running", "suspended"}, leases : SUBSET Taps, permit : BOOLEAN]
Chains == [at : Stages, void : BOOLEAN, asked : BOOLEAN]
Ghosts == [unasked : BOOLEAN, overlap : BOOLEAN]
States ==
    [body : Bodies, manager : Managers, runs : [Taps -> RunStates], chains : [Taps -> Chains], ghost : Ghosts]

\* A tap in one of these stages was not started yet.
Preparing == {"claim", "init", "renew"}

\* One tap is prepared at a time, at most one lease is held, and nothing runs
\* but the output of the body.
Loose(s) ==
    /\ \A c, d \in Taps : s.chains[c].at \in Preparing /\ s.chains[d].at \in Preparing => c = d
    /\ s.manager.leases \subseteq {s.body.lease}
    /\ \A t \in Taps : s.runs[t] = "running" => t = s.body.output
    /\ s.body.shown = "running" => RunState(s) = "running"

\* The body has its lease, and its output uses it, or is being made.
Firm(s) ==
    /\ s.body.lease # Nobody => s.body.lease \in s.manager.leases
    /\ s.body.output # Nobody => s.body.output = s.body.lease
    /\ s.body.lease # Nobody /\ s.body.output = Nobody => s.chains[s.body.lease].at = "init"
    /\ \A c \in Taps : s.chains[c].at = "init" => s.body.output = Nobody /\ s.body.lease \in {c, Nobody}

\* A chain that can still start something was asked for since the user came.
Wanted(s) ==
    /\ ~ s.ghost.unasked
    /\ s.manager.permit => s.manager.leases # {}
    /\ \A c \in Taps : /\ s.chains[c].at \in Preparing /\ s.body.current = c => s.chains[c].asked
                       /\ s.chains[c].at = "resume" /\ ~ s.chains[c].void => s.chains[c].asked

\* What the body has while the user is not there.
Away(s) ==
    /\ s.body.current = Nobody /\ s.body.asking = "no"
    /\ s.manager.leases = {} /\ s.manager.context = "none" /\ ~ s.manager.claim

\* Two taps that overlap void the claims about the output, not those about the user.
Rough(s) == Wanted(s) /\ (~ s.ghost.overlap => Loose(s))
Good(s) == Rough(s) /\ (~ s.ghost.overlap => Firm(s))

ScreenInv ==
    /\ TypeOK /\ Good(State)
    /\ ~ UserIsThere => Away(State)
    /\ body.mounted => page.opened
    /\ launcher.suspended => ~ page.visible

-----------------------------------------------------------------------------
(* The parts of the handlers *)

\* What a state consists of.
LEMMA StateFields ==
    ASSUME NEW s \in States
    PROVE  /\ s.body \in Bodies /\ s.manager \in Managers /\ s.runs \in [Taps -> RunStates]
           /\ s.chains \in [Taps -> Chains] /\ s.ghost \in Ghosts
           /\ s.body.mounted \in BOOLEAN /\ s.body.current \in Taps \cup {Nobody}
           /\ s.body.lease \in Taps \cup {Nobody} /\ s.body.output \in Taps \cup {Nobody}
           /\ s.manager.leases \subseteq Taps
           /\ \A c \in Taps : s.chains[c] \in Chains /\ s.runs[c] \in RunStates
  BY DEF States, Bodies, Managers

\* The state of the module is one.
LEMMA StateTyped ==
    ASSUME TypeOK
    PROVE  /\ State \in States
           /\ State.body = body /\ State.manager = manager /\ State.runs = runs
           /\ State.chains = chains /\ State.ghost = ghost
  BY DEF TypeOK, State, States, Bodies, Managers, Chains, Ghosts

\* A chain that is over.
LEMMA OverIs == Over \in Chains /\ Over.at = "done"
  <1>1. NoChain \in Chains
    BY DEF NoChain, Chains, Stages
  <1>2. "done" \in Stages
    BY DEF Stages
  <1>3. Over = [NoChain EXCEPT !.at = "done"]
    BY DEF Over
  <1> QED BY <1>1, <1>2, <1>3 DEF Chains

\* What a report changes.
LEMMA ReportedFields ==
    ASSUME NEW s \in States, NEW state \in RunStates
    PROVE  LET t == Reported(s, state) IN
           /\ t \in States /\ t.manager = s.manager /\ t.runs = s.runs /\ t.chains = s.chains /\ t.ghost = s.ghost
           /\ t.body.mounted = s.body.mounted /\ t.body.current = s.body.current
           /\ t.body.asking = s.body.asking /\ t.body.claim = s.body.claim
           /\ t.body.lease = s.body.lease /\ t.body.output = s.body.output
           /\ t.body.shown = state
  BY DEF Reported, States, Bodies

\* What stopping a run changes.
LEMMA HaltFields ==
    ASSUME NEW s \in States, NEW state \in RunStates
    PROVE  LET t == Halt(s, state) IN
           /\ t \in States /\ t.manager = s.manager /\ t.chains = s.chains /\ t.ghost = s.ghost
           /\ t.body.mounted = s.body.mounted /\ t.body.current = s.body.current
           /\ t.body.asking = s.body.asking /\ t.body.claim = s.body.claim
           /\ t.body.lease = s.body.lease /\ t.body.output = s.body.output
           /\ s.body.output = Nobody => t = s
           /\ s.body.output # Nobody => /\ t.runs = [s.runs EXCEPT ![s.body.output] = state]
                                        /\ t.body.shown = state
  <1>1. CASE s.body.output = Nobody
    BY <1>1 DEF Halt
  <1>2. CASE s.body.output # Nobody
    <2> DEFINE u == [s EXCEPT !.runs[s.body.output] = state]
    <2>1. s.body.output \in Taps /\ s.runs \in [Taps -> RunStates]
      BY <1>2, StateFields
    <2>2. /\ u \in States /\ u.body = s.body /\ u.manager = s.manager /\ u.chains = s.chains /\ u.ghost = s.ghost
          /\ u.runs = [s.runs EXCEPT ![s.body.output] = state]
      BY <2>1 DEF States
    <2>3. Halt(s, state) = Reported(u, state)
      BY <1>2 DEF Halt
    <2> HIDE DEF u
    <2> QED BY <1>2, <2>2, <2>3, ReportedFields
  <1> QED BY <1>1, <1>2

\* What runs in a state that differs from another by what it shows only.
LEMMA RunStateIs ==
    ASSUME NEW s, NEW t, s.body.output = t.body.output, s.runs = t.runs
    PROVE  RunState(s) = RunState(t)
  BY DEF RunState

\* A run that stops keeps what was good.
LEMMA HaltKeeps ==
    ASSUME NEW s \in States, NEW state \in {"stopped", "paused", "interrupted"}
    PROVE  /\ Rough(s) => Rough(Halt(s, state))
           /\ Good(s) => Good(Halt(s, state))
           /\ Away(s) => Away(Halt(s, state))
           /\ Rough(s) /\ ~ s.ghost.overlap => \A c \in Taps : Halt(s, state).runs[c] # "running"
  <1> DEFINE t == Halt(s, state)
  <1>0. state \in RunStates /\ state # "running"
    BY DEF RunStates
  <1>1. /\ t \in States /\ t.manager = s.manager /\ t.chains = s.chains /\ t.ghost = s.ghost
        /\ t.body.current = s.body.current /\ t.body.asking = s.body.asking
        /\ t.body.lease = s.body.lease /\ t.body.output = s.body.output
        /\ s.body.output = Nobody => t = s
        /\ s.body.output # Nobody => /\ t.runs = [s.runs EXCEPT ![s.body.output] = state]
                                     /\ t.body.shown = state
    BY <1>0, HaltFields
  <1> HIDE DEF t
  <1>2. Away(s) => Away(t)
    BY <1>1 DEF Away
  <1>3. Wanted(s) => Wanted(t)
    BY <1>1 DEF Wanted
  <1>4. Firm(s) => Firm(t)
    BY <1>1 DEF Firm
  <1>5. ASSUME Loose(s)
        PROVE  Loose(t) /\ \A c \in Taps : t.runs[c] # "running"
    <2>1. CASE s.body.output = Nobody
      <3>1. t = s /\ \A c \in Taps : s.runs[c] # "running"
        BY <1>1, <1>5, <2>1, NobodyAssumption DEF Loose
      <3> QED BY <3>1, <1>5
    <2>2. CASE s.body.output # Nobody
      <3>1. s.body.output \in Taps /\ s.runs \in [Taps -> RunStates]
        BY <2>2, StateFields
      <3>2. \A c \in Taps : t.runs[c] = IF c = s.body.output THEN state ELSE s.runs[c]
        BY <1>1, <2>2, <3>1
      <3>3. \A c \in Taps : t.runs[c] # "running"
        BY <1>0, <1>5, <3>2 DEF Loose
      <3>4. t.body.shown # "running"
        BY <1>0, <1>1, <2>2
      <3> QED BY <1>1, <1>5, <3>3, <3>4 DEF Loose
    <2> QED BY <2>1, <2>2
  <1> QED BY <1>1, <1>2, <1>3, <1>4, <1>5 DEF t, Rough, Good

\* Another lease: what is left of the leases, and of the permit.
LEMMA ReturnFields ==
    ASSUME NEW s \in States, NEW lease
    PROVE  LET t == Return(s, lease) IN
           /\ t \in States /\ t.body = s.body /\ t.runs = s.runs /\ t.chains = s.chains /\ t.ghost = s.ghost
           /\ t.manager.claim = s.manager.claim /\ t.manager.context = s.manager.context
           /\ t.manager.leases = s.manager.leases \ {lease}
           /\ t.manager.permit => s.manager.permit /\ t.manager.leases # {}
  <1> DEFINE t == Return(s, lease)
  <1>1. s.manager \in Managers
    BY StateFields
  <1>2. PICK l : l = s.manager.leases \ {lease}
    OBVIOUS
  <1>3. PICK p \in BOOLEAN : p <=> s.manager.permit /\ l # {}
    OBVIOUS
  <1>4. (s.manager.permit /\ s.manager.leases \ {lease} # {}) = p
    BY <1>1, <1>2, <1>3 DEF Managers
  <1>5. t = [s EXCEPT !.manager.leases = l, !.manager.permit = p]
    BY <1>2, <1>4 DEF Return
  <1>6. l \subseteq Taps
    BY <1>1, <1>2 DEF Managers
  <1> HIDE DEF t
  <1>7. t \in States /\ t.body = s.body /\ t.runs = s.runs /\ t.chains = s.chains /\ t.ghost = s.ghost
    BY <1>5, <1>6 DEF States, Managers
  <1>8. /\ t.manager.claim = s.manager.claim /\ t.manager.context = s.manager.context
        /\ t.manager.leases = l /\ t.manager.permit = p
    BY <1>5, <1>6 DEF States, Managers
  <1> QED BY <1>2, <1>3, <1>7, <1>8 DEF t

\* What giving the output back changes.
LEMMA ReleaseFields ==
    ASSUME NEW s \in States
    PROVE  LET t == Release(s) IN
           /\ t \in States /\ t.chains = s.chains /\ t.ghost = s.ghost
           /\ t.manager.claim = s.manager.claim /\ t.manager.context = s.manager.context
           /\ t.manager.leases = s.manager.leases \ {s.body.lease}
           /\ t.manager.permit => s.manager.permit /\ t.manager.leases # {}
           /\ t.body.mounted = s.body.mounted /\ t.body.current = s.body.current
           /\ t.body.asking = s.body.asking /\ t.body.claim = s.body.claim
           /\ t.body.lease = Nobody /\ t.body.output = Nobody
           /\ t.runs = Halt(s, "stopped").runs /\ t.body.shown = Halt(s, "stopped").body.shown
  <1> DEFINE h == Halt(s, "stopped")
             r == Return(h, s.body.lease)
             t == [r EXCEPT !.body.output = Nobody, !.body.lease = Nobody]
  <1>1. /\ h \in States /\ h.manager = s.manager /\ h.chains = s.chains /\ h.ghost = s.ghost
        /\ h.body.mounted = s.body.mounted /\ h.body.current = s.body.current
        /\ h.body.asking = s.body.asking /\ h.body.claim = s.body.claim
    BY HaltFields DEF RunStates
  <1> HIDE DEF h
  <1>2. /\ r \in States /\ r.body = h.body /\ r.runs = h.runs /\ r.chains = h.chains /\ r.ghost = h.ghost
        /\ r.manager.claim = h.manager.claim /\ r.manager.context = h.manager.context
        /\ r.manager.leases = h.manager.leases \ {s.body.lease}
        /\ r.manager.permit => h.manager.permit /\ r.manager.leases # {}
    BY <1>1, ReturnFields
  <1> HIDE DEF r
  <1>3. Release(s) = t
    BY DEF Release, h, r
  <1>4. /\ t \in States /\ t.manager = r.manager /\ t.runs = r.runs /\ t.chains = r.chains /\ t.ghost = r.ghost
        /\ t.body.mounted = r.body.mounted /\ t.body.current = r.body.current
        /\ t.body.asking = r.body.asking /\ t.body.claim = r.body.claim
        /\ t.body.lease = Nobody /\ t.body.output = Nobody /\ t.body.shown = r.body.shown
    BY <1>2 DEF States, Bodies
  <1> HIDE DEF t
  <1>5. t.manager.permit => s.manager.permit /\ t.manager.leases # {}
    BY <1>1, <1>2, <1>4
  <1>6. /\ t.manager.claim = s.manager.claim /\ t.manager.context = s.manager.context
        /\ t.manager.leases = s.manager.leases \ {s.body.lease}
        /\ t.chains = s.chains /\ t.ghost = s.ghost
    BY <1>1, <1>2, <1>4
  <1> QED BY <1>1, <1>2, <1>3, <1>4, <1>5, <1>6 DEF h

\* What is given back leaves nothing behind.
LEMMA ReleaseKeeps ==
    ASSUME NEW s \in States, Rough(s)
    PROVE  Good(Release(s)) /\ (Away(s) => Away(Release(s)))
  <1> DEFINE h == Halt(s, "stopped")
             t == Release(s)
  <1>1. /\ t \in States /\ t.chains = s.chains /\ t.ghost = s.ghost
        /\ t.manager.claim = s.manager.claim /\ t.manager.context = s.manager.context
        /\ t.manager.leases = s.manager.leases \ {s.body.lease}
        /\ t.body.current = s.body.current /\ t.body.asking = s.body.asking
        /\ t.body.lease = Nobody /\ t.body.output = Nobody
        /\ t.runs = h.runs /\ t.body.shown = h.body.shown
    BY ReleaseFields
  <1>2. t.manager.permit => t.manager.leases # {}
    BY <1>1, ReleaseFields
  <1>3. /\ Rough(h) /\ h.ghost = s.ghost /\ h.body.output = s.body.output
        /\ ~ s.ghost.overlap => \A c \in Taps : h.runs[c] # "running"
    BY HaltKeeps, HaltFields DEF RunStates
  <1> HIDE DEF h, t
  <1>4. Away(s) => Away(t)
    BY <1>1 DEF Away
  <1>5. Wanted(t)
    BY <1>1, <1>2 DEF Wanted, Rough
  <1>6. ~ t.ghost.overlap => Firm(t)
    BY <1>1 DEF Firm
  <1>7. ASSUME ~ t.ghost.overlap
        PROVE  Loose(t)
    <2>1. Loose(s) /\ Loose(h) /\ \A c \in Taps : h.runs[c] # "running"
      BY <1>1, <1>3, <1>7 DEF Rough
    <2>2. h.body.shown # "running"
      <3>1. h.body.output \in Taps \cup {Nobody}
        BY <1>3, StateFields
      <3> QED BY <2>1, <3>1 DEF Loose, RunState
    <2> QED BY <1>1, <2>1, <2>2 DEF Loose
  <1> QED BY <1>4, <1>5, <1>6, <1>7 DEF t, Rough, Good

\* A step that starts nothing and gives no lease.
Calm(s, t) ==
    /\ t.runs = s.runs /\ t.ghost = s.ghost
    /\ t.body.lease = s.body.lease /\ t.body.output = s.body.output
    /\ t.body.shown = "running" => "running" \in {s.body.shown, RunState(s)}
    /\ t.body.current \in {s.body.current, Nobody}
    /\ t.manager.leases = s.manager.leases /\ (t.manager.permit => s.manager.permit \/ t.manager.leases # {})
    /\ \A c \in Taps : \/ t.chains[c].at = "done"
                       \/ /\ t.chains[c].at = s.chains[c].at /\ t.chains[c].asked = s.chains[c].asked
                          /\ s.chains[c].void => t.chains[c].void

\* It keeps what was good, and what was only rough.
LEMMA CalmKeeps ==
    ASSUME NEW s \in States, NEW t \in States, Calm(s, t)
    PROVE  /\ Rough(s) => Rough(t)
           /\ Good(s) /\ (\A c \in Taps : s.chains[c].at = "init" => t.chains[c].at = "init") => Good(t)
  <1>1. /\ t.runs = s.runs /\ t.ghost = s.ghost
        /\ t.body.lease = s.body.lease /\ t.body.output = s.body.output
        /\ t.body.shown = "running" => "running" \in {s.body.shown, RunState(s)}
        /\ t.body.current \in {s.body.current, Nobody}
        /\ t.manager.leases = s.manager.leases /\ (t.manager.permit => s.manager.permit \/ t.manager.leases # {})
    BY DEF Calm
  <1>2. \A c \in Taps : \/ t.chains[c].at = "done"
                        \/ /\ t.chains[c].at = s.chains[c].at /\ t.chains[c].asked = s.chains[c].asked
                           /\ s.chains[c].void => t.chains[c].void
    BY DEF Calm
  <1>3. s.body.lease \in Taps \cup {Nobody} /\ s.body.output \in Taps \cup {Nobody}
    BY StateFields
  <1>4. ASSUME Wanted(s)
        PROVE  Wanted(t)
    <2>1. ~ t.ghost.unasked /\ (t.manager.permit => t.manager.leases # {})
      BY <1>1, <1>4 DEF Wanted
    <2>2. ASSUME NEW c \in Taps
          PROVE  /\ t.chains[c].at \in Preparing /\ t.body.current = c => t.chains[c].asked
                 /\ t.chains[c].at = "resume" /\ ~ t.chains[c].void => t.chains[c].asked
      BY <1>1, <1>2, <1>4, NobodyAssumption DEF Wanted, Preparing
    <2> QED BY <2>1, <2>2 DEF Wanted
  <1>5. ASSUME Loose(s)
        PROVE  Loose(t)
    <2>1. \A c, d \in Taps : t.chains[c].at \in Preparing /\ t.chains[d].at \in Preparing => c = d
      BY <1>2, <1>5 DEF Loose, Preparing
    <2>2. RunState(t) = RunState(s)
      BY <1>1 DEF RunState
    <2> QED BY <1>1, <1>5, <2>1, <2>2 DEF Loose
  <1>6. ASSUME Firm(s), \A c \in Taps : s.chains[c].at = "init" => t.chains[c].at = "init"
        PROVE  Firm(t)
    <2>1. \A c \in Taps : t.chains[c].at = "init" <=> s.chains[c].at = "init"
      BY <1>2, <1>6
    <2> QED BY <1>1, <1>3, <1>6, <2>1 DEF Firm
  <1> QED BY <1>1, <1>4, <1>5, <1>6 DEF Rough, Good

\* What is under way is no longer the body's.
LEMMA InterruptKeeps ==
    ASSUME NEW s \in States
    PROVE  LET t == Interrupt(s) IN
           /\ t \in States /\ t.manager = s.manager /\ t.chains = s.chains /\ t.ghost = s.ghost
           /\ t.body.mounted = s.body.mounted /\ t.body.current = Nobody
           /\ t.body.asking = s.body.asking /\ t.body.claim = s.body.claim
           /\ t.body.lease = s.body.lease /\ t.body.output = s.body.output
           /\ Good(s) => Good(t)
  <1> DEFINE u == [s EXCEPT !.body.current = Nobody]
  <1>1. /\ u \in States /\ u.manager = s.manager /\ u.runs = s.runs /\ u.chains = s.chains /\ u.ghost = s.ghost
        /\ u.body.mounted = s.body.mounted /\ u.body.current = Nobody
        /\ u.body.asking = s.body.asking /\ u.body.claim = s.body.claim
        /\ u.body.lease = s.body.lease /\ u.body.output = s.body.output /\ u.body.shown = s.body.shown
    BY DEF States, Bodies
  <1>2. Interrupt(s) = IF RunState(s) = "stopped" THEN u ELSE Halt(u, "interrupted")
    BY DEF Interrupt
  <1> HIDE DEF u
  <1>3. Calm(s, u)
    BY <1>1 DEF Calm
  <1>4. Good(s) => Good(u)
    BY <1>1, <1>3, CalmKeeps
  <1>5. CASE RunState(s) = "stopped"
    BY <1>1, <1>2, <1>4, <1>5
  <1>6. CASE RunState(s) # "stopped"
    <2>1. Good(u) => Good(Halt(u, "interrupted"))
      BY <1>1, HaltKeeps
    <2>2. /\ Halt(u, "interrupted") \in States
          /\ Halt(u, "interrupted").manager = u.manager /\ Halt(u, "interrupted").chains = u.chains
          /\ Halt(u, "interrupted").ghost = u.ghost
          /\ Halt(u, "interrupted").body.mounted = u.body.mounted
          /\ Halt(u, "interrupted").body.current = u.body.current
          /\ Halt(u, "interrupted").body.asking = u.body.asking
          /\ Halt(u, "interrupted").body.claim = u.body.claim
          /\ Halt(u, "interrupted").body.lease = u.body.lease
          /\ Halt(u, "interrupted").body.output = u.body.output
      <3>1. "interrupted" \in RunStates
        BY DEF RunStates
      <3> QED BY <1>1, <3>1, HaltFields
    <2> QED BY <1>1, <1>2, <1>4, <1>6, <2>1, <2>2
  <1> QED BY <1>5, <1>6

\* Renewals that are void stay at their stage.
LEMMA VoidedFields ==
    ASSUME NEW ch \in [Taps -> Chains]
    PROVE  /\ Voided(ch) \in [Taps -> Chains]
           /\ \A c \in Taps : /\ Voided(ch)[c].at = ch[c].at /\ Voided(ch)[c].asked = ch[c].asked
                              /\ ch[c].void => Voided(ch)[c].void
                              /\ ch[c].at = "resume" => Voided(ch)[c].void
  <1>1. ASSUME NEW c \in Taps
        PROVE  /\ [ch[c] EXCEPT !.void = TRUE] \in Chains /\ ch[c] \in Chains
               /\ [ch[c] EXCEPT !.void = TRUE].at = ch[c].at
               /\ [ch[c] EXCEPT !.void = TRUE].asked = ch[c].asked
               /\ [ch[c] EXCEPT !.void = TRUE].void
    BY DEF Chains
  <1> QED BY <1>1 DEF Voided

\* The permit is revoked.
LEMMA RevokeAllKeeps ==
    ASSUME NEW s \in States
    PROVE  LET t == RevokeAll(s) IN
           /\ t \in States /\ t.ghost = s.ghost
           /\ t.body.mounted = s.body.mounted /\ t.body.current \in {s.body.current, Nobody}
           /\ t.body.asking = s.body.asking /\ t.body.claim = s.body.claim
           /\ t.body.lease = s.body.lease /\ t.body.output = s.body.output
           /\ t.manager.claim = s.manager.claim /\ t.manager.context = s.manager.context
           /\ t.manager.leases = s.manager.leases
           /\ t.chains = Voided(s.chains)
           /\ Good(s) => Good(t)
  <1> DEFINE u == [s EXCEPT !.manager.permit = FALSE, !.chains = Voided(s.chains)]
  <1>1. /\ Voided(s.chains) \in [Taps -> Chains]
        /\ \A c \in Taps : /\ Voided(s.chains)[c].at = s.chains[c].at
                           /\ Voided(s.chains)[c].asked = s.chains[c].asked
                           /\ s.chains[c].void => Voided(s.chains)[c].void
    BY StateFields, VoidedFields
  <1>2. PICK v \in [Taps -> Chains] : v = Voided(s.chains)
    BY <1>1
  <1>3. u = [s EXCEPT !.manager.permit = FALSE, !.chains = v]
    BY <1>2
  <1>4. RevokeAll(s) =
          IF s.manager.leases # {} /\ RunState(s) \in {"running", "waiting", "paused"} THEN Interrupt(u) ELSE u
    BY DEF RevokeAll
  <1> HIDE DEF u
  <1>5. /\ u \in States /\ u.body = s.body /\ u.runs = s.runs /\ u.ghost = s.ghost /\ u.chains = v
        /\ u.manager.claim = s.manager.claim /\ u.manager.context = s.manager.context
        /\ u.manager.leases = s.manager.leases /\ ~ u.manager.permit
    BY <1>3 DEF States, Managers
  <1>6. Calm(s, u)
    BY <1>1, <1>2, <1>5 DEF Calm
  <1>7. Good(s) => Good(u)
    BY <1>1, <1>2, <1>5, <1>6, CalmKeeps
  <1> QED BY <1>2, <1>4, <1>5, <1>7, InterruptKeeps

\* The manager gives everything up.
LEMMA DropKeeps ==
    ASSUME NEW s \in States
    PROVE  LET t == Drop(s) IN
           /\ t \in States /\ t.ghost = s.ghost /\ t.body = s.body /\ t.runs = s.runs
           /\ t.chains = Voided(s.chains)
           /\ t.manager.leases = {} /\ t.manager.context = "none" /\ ~ t.manager.claim /\ ~ t.manager.permit
           /\ Good(s) /\ (~ s.ghost.overlap => s.body.lease = Nobody) => Good(t)
  <1> DEFINE u == Drop(s)
  <1>1. /\ Voided(s.chains) \in [Taps -> Chains]
        /\ \A c \in Taps : /\ Voided(s.chains)[c].at = s.chains[c].at
                           /\ Voided(s.chains)[c].asked = s.chains[c].asked
                           /\ s.chains[c].void => Voided(s.chains)[c].void
    BY StateFields, VoidedFields
  <1>2. PICK v \in [Taps -> Chains] : v = Voided(s.chains)
    BY <1>1
  <1>3. PICK m : m = [claim |-> FALSE, context |-> "none", leases |-> {}, permit |-> FALSE]
    OBVIOUS
  <1>4. m \in Managers
    BY <1>3 DEF Managers
  <1>5. u = [s EXCEPT !.manager = m, !.chains = v]
    BY <1>2, <1>3 DEF Drop
  <1> HIDE DEF u
  <1>6. /\ u \in States /\ u.body = s.body /\ u.runs = s.runs /\ u.ghost = s.ghost /\ u.chains = v
        /\ u.manager = m
    BY <1>4, <1>5 DEF States
  <1>7. u.manager.leases = {} /\ u.manager.context = "none" /\ ~ u.manager.claim /\ ~ u.manager.permit
    BY <1>3, <1>6
  <1>8. ASSUME Wanted(s)
        PROVE  Wanted(u)
    BY <1>1, <1>2, <1>6, <1>7, <1>8 DEF Wanted
  <1>9. ASSUME Loose(s)
        PROVE  Loose(u)
    <2>1. RunState(u) = RunState(s)
      BY <1>6 DEF RunState
    <2> QED BY <1>1, <1>2, <1>6, <1>7, <1>9, <2>1 DEF Loose
  <1>10. ASSUME Firm(s), s.body.lease = Nobody
         PROVE  Firm(u)
    BY <1>1, <1>2, <1>6, <1>7, <1>10 DEF Firm
  <1> QED BY <1>2, <1>6, <1>7, <1>8, <1>9, <1>10 DEF u, Rough, Good

\* The user went away: no chain is asked for any more.
LEMMA ForgottenKeeps ==
    ASSUME NEW s \in States, s.body.current = Nobody, \A c \in Taps : s.chains[c].at = "resume" => s.chains[c].void
    PROVE  LET t == Forgotten(s) IN
           /\ t \in States /\ t.body = s.body /\ t.manager = s.manager
           /\ Good(s) => Good(t)
  <1> DEFINE t == Forgotten(s)
             w == [c \in Taps |-> [s.chains[c] EXCEPT !.asked = FALSE]]
  <1>1. ASSUME NEW c \in Taps
        PROVE  w[c] \in Chains /\ w[c].at = s.chains[c].at /\ w[c].void = s.chains[c].void
    <2>1. s.chains[c] \in Chains
      BY StateFields
    <2> QED BY <2>1 DEF Chains
  <1>2. w \in [Taps -> Chains]
    BY <1>1
  <1>3. t = [s EXCEPT !.chains = w]
    BY DEF Forgotten
  <1> HIDE DEF t, w
  <1>4. /\ t \in States /\ t.body = s.body /\ t.manager = s.manager /\ t.runs = s.runs /\ t.ghost = s.ghost
        /\ t.chains = w
    BY <1>2, <1>3 DEF States
  <1>5. RunState(t) = RunState(s)
    BY <1>4 DEF RunState
  <1>6. Wanted(s) => Wanted(t)
    BY <1>1, <1>4, NobodyAssumption DEF Wanted
  <1>7. Loose(s) => Loose(t)
    BY <1>1, <1>4, <1>5 DEF Loose
  <1>8. Firm(s) => Firm(t)
    <2>1. s.body.lease \in Taps \cup {Nobody}
      BY StateFields
    <2> QED BY <1>1, <1>4, <2>1 DEF Firm
  <1> QED BY <1>4, <1>6, <1>7, <1>8 DEF t, Rough, Good

\* The promises of a tap are over.
LEMMA OverFields ==
    ASSUME NEW s \in States, NEW c \in Taps
    PROVE  LET t == [s EXCEPT !.chains[c] = Over] IN
           /\ t \in States /\ t.body = s.body /\ t.manager = s.manager /\ t.runs = s.runs /\ t.ghost = s.ghost
           /\ \A d \in Taps : t.chains[d] = IF d = c THEN Over ELSE s.chains[d]
           /\ Over.at = "done"
           /\ Calm(s, t)
  <1> DEFINE t == [s EXCEPT !.chains[c] = Over]
  <1>1. Over \in Chains /\ Over.at = "done"
    BY OverIs
  <1>2. PICK o : o = Over
    OBVIOUS
  <1>3. /\ t \in States /\ t.body = s.body /\ t.manager = s.manager /\ t.runs = s.runs /\ t.ghost = s.ghost
        /\ t.chains = [s.chains EXCEPT ![c] = o]
    BY <1>1, <1>2 DEF States
  <1>4. \A d \in Taps : t.chains[d] = IF d = c THEN Over ELSE s.chains[d]
    BY <1>2, <1>3, StateFields
  <1> HIDE DEF t
  <1>5. Calm(s, t)
    BY <1>1, <1>3, <1>4 DEF Calm
  <1> QED BY <1>1, <1>3, <1>4, <1>5 DEF t

\* A start that failed gives the output back.
LEMMA FailedKeeps ==
    ASSUME NEW s \in States, NEW c \in Taps, Rough(s)
    PROVE  LET t == Failed(s, c) IN
           /\ t \in States /\ Good(t) /\ (Away(s) => Away(t))
           /\ t.body.mounted = s.body.mounted
  <1> DEFINE o == [s EXCEPT !.chains[c] = Over]
             u == [s EXCEPT !.chains[c] = Over, !.body.shown = "stopped"]
  <1>1. /\ o \in States /\ o.body = s.body /\ o.manager = s.manager /\ Rough(o)
    BY OverFields, CalmKeeps
  <1>2. u = [o EXCEPT !.body.shown = "stopped"]
    OBVIOUS
  <1> HIDE DEF o, u
  <1>3. "stopped" \in RunStates
    BY DEF RunStates
  <1>4. /\ u \in States /\ u.manager = o.manager /\ u.runs = o.runs /\ u.ghost = o.ghost /\ u.chains = o.chains
        /\ u.body.mounted = o.body.mounted /\ u.body.current = o.body.current
        /\ u.body.asking = o.body.asking /\ u.body.lease = o.body.lease
        /\ u.body.output = o.body.output /\ u.body.shown = "stopped"
    BY <1>1, <1>2, <1>3 DEF States, Bodies
  <1>5. Calm(o, u)
    BY <1>1, <1>4 DEF Calm
  <1>6. Rough(u)
    BY <1>1, <1>4, <1>5, CalmKeeps
  <1>7. Failed(s, c) = Release(u)
    BY DEF Failed, u
  <1>8. Good(Release(u)) /\ (Away(u) => Away(Release(u)))
    BY <1>4, <1>6, ReleaseKeeps
  <1>9. Release(u) \in States /\ Release(u).body.mounted = u.body.mounted
    BY <1>4, ReleaseFields
  <1> QED BY <1>1, <1>4, <1>7, <1>8, <1>9 DEF Away

\* The output of the body runs.
LEMMA StartKeeps ==
    ASSUME NEW s \in States, NEW a \in BOOLEAN, s.body.output # Nobody, Good(s), a
    PROVE  LET t == [s EXCEPT !.runs[s.body.output] = "running", !.body.shown = "running",
                              !.body.kept = FALSE, !.body.idle = FALSE, !.ghost.unasked = @ \/ ~ a]
               u == [s EXCEPT !.runs[s.body.output] = "running", !.body.shown = "running",
                              !.ghost.unasked = @ \/ ~ a]
               w == [s EXCEPT !.runs[s.body.output] = "running", !.body.shown = "running"]
           IN  /\ t \in States /\ Good(t) /\ t.body.mounted = s.body.mounted
               /\ u \in States /\ Good(u) /\ u.body.mounted = s.body.mounted
               /\ w \in States /\ Good(w) /\ w.body.mounted = s.body.mounted
  <1> DEFINE r == [s.runs EXCEPT ![s.body.output] = "running"]
             t == [s EXCEPT !.runs[s.body.output] = "running", !.body.shown = "running",
                            !.body.kept = FALSE, !.body.idle = FALSE, !.ghost.unasked = @ \/ ~ a]
             u == [s EXCEPT !.runs[s.body.output] = "running", !.body.shown = "running",
                            !.ghost.unasked = @ \/ ~ a]
             w == [s EXCEPT !.runs[s.body.output] = "running", !.body.shown = "running"]
  <1>1. /\ s.body.output \in Taps /\ s.runs \in [Taps -> RunStates] /\ "running" \in RunStates
        /\ s.ghost \in Ghosts
    BY StateFields DEF RunStates
  <1>2. /\ r \in [Taps -> RunStates]
        /\ \A d \in Taps : r[d] = IF d = s.body.output THEN "running" ELSE s.runs[d]
    BY <1>1
  <1>3. PICK g : g = s.ghost
    OBVIOUS
  <1>4. ~ s.ghost.unasked
    BY DEF Good, Rough, Wanted
  <1>5. [s.ghost EXCEPT !.unasked = @ \/ ~ a] = g
    <2>1. (s.ghost.unasked \/ ~ a) = s.ghost.unasked
      BY <1>1, <1>4 DEF Ghosts
    <2>2. [s.ghost EXCEPT !.unasked = s.ghost.unasked] = s.ghost
      BY <1>1 DEF Ghosts
    <2> QED BY <2>1, <2>2, <1>3
  <1>6. /\ t = [s EXCEPT !.runs = r, !.body.shown = "running", !.body.kept = FALSE, !.body.idle = FALSE,
                         !.ghost = [s.ghost EXCEPT !.unasked = @ \/ ~ a]]
        /\ u = [s EXCEPT !.runs = r, !.body.shown = "running", !.ghost = [s.ghost EXCEPT !.unasked = @ \/ ~ a]]
        /\ w = [s EXCEPT !.runs = r, !.body.shown = "running"]
    OBVIOUS
  <1>7. /\ t = [s EXCEPT !.runs = r, !.body.shown = "running", !.body.kept = FALSE, !.body.idle = FALSE, !.ghost = g]
        /\ u = [s EXCEPT !.runs = r, !.body.shown = "running", !.ghost = g]
        /\ w = [s EXCEPT !.runs = r, !.body.shown = "running"]
    BY <1>5, <1>6
  <1> HIDE DEF r, t, u, w
  <1>8. ASSUME NEW v, v \in {t, u, w}
        PROVE  /\ v \in States /\ v.runs = r /\ v.manager = s.manager /\ v.chains = s.chains /\ v.ghost = s.ghost
               /\ v.body.mounted = s.body.mounted /\ v.body.current = s.body.current
               /\ v.body.lease = s.body.lease /\ v.body.output = s.body.output /\ v.body.shown = "running"
    <2>1. CASE v = t
      BY <1>1, <1>2, <1>3, <1>7, <2>1 DEF States, Bodies
    <2>2. CASE v = u
      BY <1>1, <1>2, <1>3, <1>7, <2>2 DEF States, Bodies
    <2>3. CASE v = w
      BY <1>1, <1>2, <1>7, <2>3 DEF States, Bodies
    <2> QED BY <1>8, <2>1, <2>2, <2>3
  <1>9. ASSUME NEW v, v \in {t, u, w}
        PROVE  Good(v)
    <2>1. Wanted(v)
      BY <1>8, <1>9 DEF Good, Rough, Wanted
    <2>2. RunState(v) = "running"
      BY <1>1, <1>2, <1>8, <1>9 DEF RunState
    <2>3. Loose(s) => Loose(v)
      BY <1>2, <1>8, <1>9, <2>2 DEF Loose
    <2>4. Firm(s) => Firm(v)
      BY <1>8, <1>9 DEF Firm
    <2> QED BY <1>8, <1>9, <2>1, <2>3, <2>4 DEF Good, Rough
  <1> QED BY <1>8, <1>9 DEF t, u, w

\* The end of play().
LEMMA SettleKeeps ==
    ASSUME NEW s \in States, NEW c \in Taps, Rough(s), s.body.current = c => s.chains[c].asked,
           ~ s.ghost.overlap /\ s.manager.permit => Firm([s EXCEPT !.chains[c] = Over])
    PROVE  LET t == Settle(s, c) IN
           /\ t \in States /\ Good(t) /\ (Away(s) => Away(t))
           /\ t.body.mounted = s.body.mounted
  <1> DEFINE t == [s EXCEPT !.chains[c] = Over]
             u == [t EXCEPT !.body.shown = "stopped"]
             r == [t EXCEPT !.runs[s.body.output] = "running", !.body.shown = "running",
                            !.body.kept = FALSE, !.body.idle = FALSE, !.ghost.unasked = @ \/ ~ s.chains[c].asked]
  <1>1. /\ t \in States /\ t.body = s.body /\ t.manager = s.manager /\ t.runs = s.runs /\ t.ghost = s.ghost
        /\ Rough(t)
    BY OverFields, CalmKeeps
  <1>2. Settle(s, c) =
          IF s.body.current # c \/ ~ Showing(s) THEN Release(t)
          ELSE IF ~ s.manager.permit \/ s.manager.context # "running" THEN Release(u)
          ELSE IF s.body.output = Nobody THEN Failed(s, c)
          ELSE r
    BY DEF Settle
  <1>f. ~ s.ghost.overlap /\ s.manager.permit => Firm(t)
    OBVIOUS
  <1>r. r = [t EXCEPT !.runs[t.body.output] = "running", !.body.shown = "running",
                      !.body.kept = FALSE, !.body.idle = FALSE, !.ghost.unasked = @ \/ ~ s.chains[c].asked]
    BY <1>1
  <1> HIDE DEF r
  <1>3. CASE s.body.current # c \/ ~ Showing(s)
    <2>1. Good(Release(t)) /\ (Away(t) => Away(Release(t)))
      BY <1>1, ReleaseKeeps
    <2>2. Release(t) \in States /\ Release(t).body.mounted = t.body.mounted
      BY <1>1, ReleaseFields
    <2> HIDE DEF t, u
    <2> QED BY <1>1, <1>2, <1>3, <2>1, <2>2 DEF Away
  <1>4. CASE ~ (s.body.current # c \/ ~ Showing(s)) /\ (~ s.manager.permit \/ s.manager.context # "running")
    <2>1. "stopped" \in RunStates
      BY DEF RunStates
    <2> HIDE DEF t
    <2>2. /\ u \in States /\ u.manager = t.manager /\ u.runs = t.runs /\ u.ghost = t.ghost /\ u.chains = t.chains
          /\ u.body.mounted = t.body.mounted /\ u.body.current = t.body.current
          /\ u.body.lease = t.body.lease
          /\ u.body.output = t.body.output /\ u.body.shown = "stopped"
      BY <1>1, <2>1 DEF States, Bodies
    <2> HIDE DEF u
    <2>3. Calm(t, u)
      BY <1>1, <2>2 DEF Calm
    <2>4. Rough(u)
      BY <1>1, <2>2, <2>3, CalmKeeps
    <2>5. Good(Release(u)) /\ Release(u) \in States /\ Release(u).body.mounted = u.body.mounted
      BY <2>2, <2>4, ReleaseKeeps, ReleaseFields
    <2>6. s.body.current # Nobody
      BY <1>4, NobodyAssumption
    <2> QED BY <1>1, <1>2, <1>4, <2>2, <2>5, <2>6 DEF Away
  <1>5. CASE /\ ~ (s.body.current # c \/ ~ Showing(s)) /\ ~ (~ s.manager.permit \/ s.manager.context # "running")
             /\ s.body.output = Nobody
    BY <1>2, <1>5, FailedKeeps
  <1>6. CASE /\ ~ (s.body.current # c \/ ~ Showing(s)) /\ ~ (~ s.manager.permit \/ s.manager.context # "running")
             /\ s.body.output # Nobody
    <2>1. Good(t)
      BY <1>1, <1>f, <1>6 DEF Good
    <2>2. s.chains[c].asked /\ s.chains[c].asked \in BOOLEAN
      BY <1>6, StateFields DEF Chains
    <2>3. PICK a \in BOOLEAN : a = s.chains[c].asked
      BY <2>2
    <2>a. t.body.output # Nobody /\ a
      BY <1>1, <1>6, <2>2, <2>3
    <2> HIDE DEF t, u
    <2>4. r = [t EXCEPT !.runs[t.body.output] = "running", !.body.shown = "running",
                        !.body.kept = FALSE, !.body.idle = FALSE, !.ghost.unasked = @ \/ ~ a]
      BY <1>r, <2>3
    <2>5. r \in States /\ Good(r) /\ r.body.mounted = t.body.mounted
      BY <1>1, <2>1, <2>a, <2>4, StartKeeps
    <2>6. s.body.current # Nobody
      BY <1>6, NobodyAssumption
    <2> QED BY <1>1, <1>2, <1>6, <2>5, <2>6 DEF Away
  <1> QED BY <1>3, <1>4, <1>5, <1>6

\* A new lease.
LEMMA LeaseFields ==
    ASSUME NEW s \in States, NEW c \in Taps
    PROVE  LET t == [s EXCEPT !.body.lease = c, !.manager.leases = @ \cup {c}, !.chains[c].at = "init"] IN
           /\ t \in States /\ t.runs = s.runs /\ t.ghost = s.ghost
           /\ t.body.mounted = s.body.mounted /\ t.body.current = s.body.current
           /\ t.body.lease = c /\ t.body.output = s.body.output /\ t.body.shown = s.body.shown
           /\ t.manager.leases = s.manager.leases \cup {c}
           /\ \A d \in Taps : /\ t.chains[d].at = IF d = c THEN "init" ELSE s.chains[d].at
                              /\ t.chains[d].asked = s.chains[d].asked /\ t.chains[d].void = s.chains[d].void
  <1> DEFINE t == [s EXCEPT !.body.lease = c, !.manager.leases = @ \cup {c}, !.chains[c].at = "init"]
  <1>1. /\ s.body \in Bodies /\ s.manager \in Managers /\ s.chains \in [Taps -> Chains] /\ s.chains[c] \in Chains
        /\ "init" \in Stages
    BY StateFields DEF Stages
  <1>2. PICK k : k = [s.chains[c] EXCEPT !.at = "init"]
    OBVIOUS
  <1>3. k \in Chains /\ k.at = "init" /\ k.asked = s.chains[c].asked /\ k.void = s.chains[c].void
    BY <1>1, <1>2 DEF Chains
  <1>4. PICK b : b = [s.body EXCEPT !.lease = c]
    OBVIOUS
  <1>5. /\ b \in Bodies /\ b.mounted = s.body.mounted /\ b.current = s.body.current
        /\ b.lease = c /\ b.output = s.body.output /\ b.shown = s.body.shown
    BY <1>1, <1>4 DEF Bodies
  <1>6. PICK m : m = [s.manager EXCEPT !.leases = @ \cup {c}]
    OBVIOUS
  <1>7. m \in Managers /\ m.leases = s.manager.leases \cup {c}
    BY <1>1, <1>6 DEF Managers
  <1>8. PICK h : h = [s.chains EXCEPT ![c] = k]
    OBVIOUS
  <1>9. h \in [Taps -> Chains] /\ \A d \in Taps : h[d] = IF d = c THEN k ELSE s.chains[d]
    BY <1>1, <1>3, <1>8
  <1>10. t = [s EXCEPT !.body = b, !.manager = m, !.chains = h]
    BY <1>2, <1>4, <1>6, <1>8
  <1> HIDE DEF t
  <1>11. /\ t \in States /\ t.runs = s.runs /\ t.ghost = s.ghost /\ t.body = b /\ t.manager = m /\ t.chains = h
    BY <1>5, <1>7, <1>9, <1>10 DEF States
  <1> QED BY <1>3, <1>5, <1>7, <1>9, <1>11 DEF t

\* No other tap is being prepared.
Alone(s, c) == \A d \in Taps \ {c} : s.chains[d].at \notin Preparing

\* It keeps what was good, when no other tap is being prepared or taps overlapped.
LEMMA PrepareOutputKeeps ==
    ASSUME NEW s \in States, NEW c \in Taps, Good(s), s.body.current = c, s.chains[c].asked,
           s.chains[c].at \in {"idle", "claim"}, ~ s.ghost.overlap => Alone(s, c)
    PROVE  LET t == PrepareOutput(s, c) IN t \in States /\ Good(t) /\ t.body.mounted = s.body.mounted
  <1> DEFINE o == [s EXCEPT !.chains[c] = Over]
             l == [s EXCEPT !.body.lease = c, !.manager.leases = @ \cup {c}, !.chains[c].at = "init"]
  <1>1. PrepareOutput(s, c) = IF s.body.lease # Nobody /\ s.body.output # Nobody THEN Settle(s, c)
                              ELSE IF s.manager.context = "none" THEN Failed(s, c) ELSE l
    BY DEF PrepareOutput
  <1>2. Rough(s)
    BY DEF Good
  <1>3. CASE s.body.lease # Nobody /\ s.body.output # Nobody
    <2>1. /\ o \in States /\ Calm(s, o)
          /\ \A d \in Taps : o.chains[d] = IF d = c THEN Over ELSE s.chains[d]
      BY OverFields
    <2> HIDE DEF o, l
    <2>2. Good(o)
      BY <2>1, CalmKeeps
    <2>3. o.ghost = s.ghost
      BY <2>1 DEF Calm
    <2>4. ~ s.ghost.overlap /\ s.manager.permit => Firm(o)
      BY <2>2, <2>3 DEF Good
    <2> USE DEF o
    <2>5. Settle(s, c) \in States /\ Good(Settle(s, c)) /\ Settle(s, c).body.mounted = s.body.mounted
      BY <1>2, <2>4, SettleKeeps
    <2> HIDE DEF o
    <2> QED BY <1>1, <1>3, <2>5
  <1>4. CASE ~ (s.body.lease # Nobody /\ s.body.output # Nobody) /\ s.manager.context = "none"
    <2> HIDE DEF l
    <2> QED BY <1>1, <1>2, <1>4, FailedKeeps
  <1>5. CASE ~ (s.body.lease # Nobody /\ s.body.output # Nobody) /\ s.manager.context # "none"
    <2>1. /\ l \in States /\ l.runs = s.runs /\ l.ghost = s.ghost
          /\ l.body.mounted = s.body.mounted /\ l.body.current = s.body.current
          /\ l.body.lease = c /\ l.body.output = s.body.output /\ l.body.shown = s.body.shown
          /\ l.manager.leases = s.manager.leases \cup {c}
          /\ \A d \in Taps : /\ l.chains[d].at = IF d = c THEN "init" ELSE s.chains[d].at
                             /\ l.chains[d].asked = s.chains[d].asked /\ l.chains[d].void = s.chains[d].void
      BY LeaseFields
    <2> HIDE DEF o, l
    <2>2. Wanted(l)
      BY <1>2, <2>1 DEF Rough, Wanted, Preparing
    <2>3. ASSUME ~ s.ghost.overlap
          PROVE  Loose(l) /\ Firm(l)
      <3>1. Loose(s) /\ Firm(s) /\ Alone(s, c)
        BY <2>3 DEF Good, Rough
      <3>2. s.body.lease \in Taps \cup {Nobody} /\ s.body.output \in Taps \cup {Nobody}
        BY StateFields
      <3>3. s.body.output = Nobody /\ s.body.lease = Nobody
        BY <1>5, <3>1, <3>2 DEF Firm, Alone, Preparing
      <3>4. s.manager.leases = {}
        <4>1. s.manager.leases \subseteq Taps
          BY StateFields
        <4> QED BY <3>1, <3>3, <4>1, NobodyAssumption DEF Loose
      <3>5. RunState(l) = RunState(s)
        BY <2>1 DEF RunState
      <3>6. \A d, e \in Taps : l.chains[d].at \in Preparing /\ l.chains[e].at \in Preparing => d = e
        BY <2>1, <3>1 DEF Alone
      <3>7. Loose(l)
        BY <2>1, <3>1, <3>4, <3>5, <3>6 DEF Loose
      <3>8. \A d \in Taps : l.chains[d].at = "init" => d = c
        BY <2>1, <3>1 DEF Alone, Preparing
      <3>9. Firm(l)
        BY <2>1, <3>3, <3>8 DEF Firm
      <3> QED BY <3>7, <3>9
    <2> QED BY <1>1, <1>5, <2>1, <2>2, <2>3 DEF Good, Rough
  <1> QED BY <1>3, <1>4, <1>5

\* The tap itself, until play() has to wait.
LEMMA BeginKeeps ==
    ASSUME NEW s \in States, NEW c \in Taps, Good(s), s.chains[c].at = "idle"
    PROVE  LET t == Begin(s, c) IN t \in States /\ Good(t) /\ t.body.mounted = s.body.mounted
  <1> DEFINE other == \E d \in Taps : s.chains[d].at \in {"claim", "init", "renew"}
             t == [s EXCEPT !.body.idle = FALSE, !.body.current = c, !.body.shown = "preparing",
                            !.manager.context = "running", !.chains[c].asked = TRUE,
                            !.ghost.overlap = @ \/ other]
             h == [t EXCEPT !.body.claim = "held"]
             w == [t EXCEPT !.body.claim = "pending", !.chains[c].at = "claim"]
  <1>1. Begin(s, c) = IF s.manager.claim THEN PrepareOutput(h, c) ELSE w
    BY DEF Begin
  <1>2. /\ s.body \in Bodies /\ s.manager \in Managers /\ s.chains \in [Taps -> Chains] /\ s.chains[c] \in Chains
        /\ s.ghost \in Ghosts
    BY StateFields
  <1>3. PICK k : k = [s.chains[c] EXCEPT !.asked = TRUE]
    OBVIOUS
  <1>4. k \in Chains /\ k.at = "idle" /\ k.asked /\ k.void = s.chains[c].void
    BY <1>2, <1>3 DEF Chains
  <1>5. PICK b : b = [s.body EXCEPT !.idle = FALSE, !.current = c, !.shown = "preparing"]
    OBVIOUS
  <1>6. /\ b \in Bodies /\ b.mounted = s.body.mounted /\ b.current = c
        /\ b.lease = s.body.lease /\ b.output = s.body.output /\ b.shown = "preparing"
    BY <1>2, <1>5 DEF Bodies
  <1>7. PICK m : m = [s.manager EXCEPT !.context = "running"]
    OBVIOUS
  <1>8. m \in Managers /\ m.leases = s.manager.leases /\ m.permit = s.manager.permit
    BY <1>2, <1>7 DEF Managers
  <1>9. PICK f \in BOOLEAN : f <=> s.ghost.overlap \/ other
    OBVIOUS
  <1>10. (s.ghost.overlap \/ other) = f
    BY <1>2, <1>9 DEF Ghosts
  <1>11. PICK g : g = [s.ghost EXCEPT !.overlap = f]
    OBVIOUS
  <1>12. g \in Ghosts /\ g.unasked = s.ghost.unasked /\ g.overlap = f
    BY <1>2, <1>11 DEF Ghosts
  <1>13. PICK n : n = [s.chains EXCEPT ![c] = k]
    OBVIOUS
  <1>14. n \in [Taps -> Chains] /\ \A d \in Taps : n[d] = IF d = c THEN k ELSE s.chains[d]
    BY <1>2, <1>4, <1>13
  <1>15. t = [s EXCEPT !.body = b, !.manager = m, !.chains = n, !.ghost = g]
    <2> DEFINE u == [s EXCEPT !.body.idle = FALSE, !.body.current = c, !.body.shown = "preparing"]
               v == [u EXCEPT !.manager.context = "running"]
               x == [v EXCEPT !.chains[c].asked = TRUE]
    <2>1. t = [x EXCEPT !.ghost.overlap = @ \/ other]
      OBVIOUS
    <2>2. u = [s EXCEPT !.body = b]
      BY <1>5 DEF States
    <2> HIDE DEF t, u
    <2>3. u.manager = s.manager /\ u.chains = s.chains /\ u.ghost = s.ghost
      BY <2>2 DEF States
    <2>4. v = [u EXCEPT !.manager = m]
      BY <1>7, <2>3
    <2> HIDE DEF v
    <2>5. v.chains = s.chains /\ v.ghost = s.ghost
      BY <2>2, <2>3, <2>4 DEF States
    <2>6. x = [v EXCEPT !.chains = n]
      BY <1>3, <1>13, <2>5
    <2> HIDE DEF x
    <2>7. x.ghost = s.ghost
      BY <2>2, <2>4, <2>5, <2>6 DEF States
    <2>8. t = [x EXCEPT !.ghost = g]
      BY <1>10, <1>11, <2>1, <2>7
    <2> QED BY <2>2, <2>4, <2>6, <2>8
  <1>o. ~ f => \A d \in Taps : s.chains[d].at \notin Preparing
    BY <1>9 DEF Preparing
  <1> HIDE DEF t, other
  <1>16. t \in States /\ t.runs = s.runs /\ t.body = b /\ t.manager = m /\ t.chains = n /\ t.ghost = g
    BY <1>6, <1>8, <1>12, <1>14, <1>15 DEF States
  <1>17. ~ f => ~ s.ghost.overlap
    BY <1>9
  <1>18. \A d \in Taps : /\ t.chains[d].at = s.chains[d].at /\ t.chains[d].void = s.chains[d].void
                         /\ t.chains[d].asked = (IF d = c THEN TRUE ELSE s.chains[d].asked)
    BY <1>4, <1>14, <1>16
  <1>19. Wanted(t)
    <2>1. /\ ~ s.ghost.unasked /\ (s.manager.permit => s.manager.leases # {})
          /\ \A d \in Taps : s.chains[d].at = "resume" /\ ~ s.chains[d].void => s.chains[d].asked
      BY DEF Good, Rough, Wanted
    <2>2. ~ t.ghost.unasked /\ (t.manager.permit => t.manager.leases # {})
      BY <1>8, <1>12, <1>16, <2>1
    <2>3. t.body.current = c /\ t.chains[c].asked
      BY <1>6, <1>16, <1>18
    <2>4. \A d \in Taps : /\ t.body.current = d => t.chains[d].asked
                          /\ t.chains[d].at = "resume" /\ ~ t.chains[d].void => t.chains[d].asked
      BY <1>18, <2>1, <2>3
    <2> QED BY <2>2, <2>4 DEF Wanted
  <1>20. ASSUME ~ f
         PROVE  Loose(t) /\ Firm(t)
    <2>1. Loose(s) /\ Firm(s) /\ \A d \in Taps : s.chains[d].at \notin Preparing
      BY <1>o, <1>17, <1>20 DEF Good, Rough
    <2>2. s.body.lease \in Taps \cup {Nobody}
      BY StateFields
    <2>3. RunState(t) = RunState(s)
      BY <1>6, <1>16 DEF RunState
    <2>4. Loose(t)
      BY <1>6, <1>8, <1>16, <1>18, <2>1, <2>3 DEF Loose
    <2>5. /\ t.body.lease = s.body.lease /\ t.body.output = s.body.output
          /\ t.manager.leases = s.manager.leases
      BY <1>6, <1>8, <1>16
    <2>6. \A d \in Taps : s.chains[d].at # "init" /\ t.chains[d].at # "init"
      BY <1>18, <2>1 DEF Preparing
    <2>7. Firm(t)
      BY <2>1, <2>2, <2>5, <2>6 DEF Firm
    <2> QED BY <2>4, <2>7
  <1>21. Good(t)
    BY <1>12, <1>16, <1>19, <1>20 DEF Good, Rough
  <1>22. CASE s.manager.claim
    <2>1. /\ h \in States /\ h.manager = t.manager /\ h.runs = t.runs /\ h.ghost = t.ghost /\ h.chains = t.chains
          /\ h.body.mounted = t.body.mounted /\ h.body.current = t.body.current
          /\ h.body.lease = t.body.lease /\ h.body.output = t.body.output /\ h.body.shown = t.body.shown
      BY <1>16 DEF States, Bodies
    <2> HIDE DEF h, w
    <2>2. Calm(t, h)
      BY <2>1 DEF Calm
    <2>3. Good(h)
      BY <1>16, <1>21, <2>1, <2>2, CalmKeeps
    <2>4. h.body.current = c /\ h.chains[c].asked /\ h.chains[c].at = "idle"
      BY <1>6, <1>16, <1>18, <2>1
    <2>5. ~ h.ghost.overlap => Alone(h, c)
      BY <1>12, <1>16, <1>18, <1>o, <2>1 DEF Alone
    <2>6. /\ PrepareOutput(h, c) \in States /\ Good(PrepareOutput(h, c))
          /\ PrepareOutput(h, c).body.mounted = h.body.mounted
      BY <2>1, <2>3, <2>4, <2>5, PrepareOutputKeeps
    <2> QED BY <1>1, <1>6, <1>16, <1>22, <2>1, <2>6
  <1>23. CASE ~ s.manager.claim
    <2>0. PICK e : e = [t.chains[c] EXCEPT !.at = "claim"]
      OBVIOUS
    <2>1. t.chains \in [Taps -> Chains] /\ t.chains[c] \in Chains /\ "claim" \in Stages
      BY <1>16, StateFields DEF Stages
    <2>2. e \in Chains /\ e.at = "claim" /\ e.asked = t.chains[c].asked /\ e.void = t.chains[c].void
      BY <2>0, <2>1 DEF Chains
    <2>3. PICK p : p = [t.chains EXCEPT ![c] = e]
      OBVIOUS
    <2>4. p \in [Taps -> Chains] /\ \A d \in Taps : p[d] = IF d = c THEN e ELSE t.chains[d]
      BY <2>1, <2>2, <2>3
    <2>5. PICK q : q = [t.body EXCEPT !.claim = "pending"]
      OBVIOUS
    <2>a. /\ q \in Bodies /\ q.mounted = t.body.mounted /\ q.current = t.body.current
          /\ q.lease = t.body.lease /\ q.output = t.body.output /\ q.shown = t.body.shown
      BY <1>6, <1>16, <2>5 DEF Bodies
    <2>b. w = [t EXCEPT !.body = q, !.chains = p]
      BY <2>0, <2>3, <2>5
    <2> HIDE DEF h, w
    <2>c. /\ w \in States /\ w.manager = t.manager /\ w.runs = t.runs /\ w.ghost = t.ghost /\ w.chains = p
          /\ w.body = q
      BY <1>16, <2>4, <2>a, <2>b DEF States
    <2>6. /\ w \in States /\ w.manager = t.manager /\ w.runs = t.runs /\ w.ghost = t.ghost /\ w.chains = p
          /\ w.body.mounted = t.body.mounted /\ w.body.current = t.body.current
          /\ w.body.lease = t.body.lease /\ w.body.output = t.body.output /\ w.body.shown = t.body.shown
      BY <2>a, <2>c
    <2>7. \A d \in Taps : /\ w.chains[d].at = IF d = c THEN "claim" ELSE t.chains[d].at
                          /\ w.chains[d].asked = t.chains[d].asked /\ w.chains[d].void = t.chains[d].void
      BY <2>2, <2>4, <2>6
    <2>8. Wanted(w)
      <3>1. t.body.current = c /\ t.chains[c].asked
        BY <1>6, <1>16, <1>18
      <3> QED BY <1>19, <2>6, <2>7, <3>1 DEF Wanted
    <2>9. ASSUME ~ f
          PROVE  Loose(w) /\ Firm(w)
      <3>1. Loose(t) /\ Firm(t) /\ \A d \in Taps : t.chains[d].at \notin Preparing
        BY <1>o, <1>18, <1>20, <2>9
      <3>2. \A d, i \in Taps : w.chains[d].at \in Preparing /\ w.chains[i].at \in Preparing => d = i
        BY <2>7, <3>1
      <3>3. RunState(w) = RunState(t)
        BY <2>6 DEF RunState
      <3>4. Loose(w)
        BY <2>6, <3>1, <3>2, <3>3 DEF Loose
      <3>5. \A d \in Taps : w.chains[d].at # "init" /\ t.chains[d].at # "init"
        BY <2>7, <3>1 DEF Preparing
      <3>6. t.body.lease \in Taps \cup {Nobody}
        BY <1>16, StateFields
      <3>7. Firm(w)
        BY <2>6, <3>1, <3>5, <3>6 DEF Firm
      <3> QED BY <3>4, <3>7
    <2> QED BY <1>1, <1>6, <1>12, <1>16, <1>23, <2>6, <2>8, <2>9 DEF Good, Rough
  <1> QED BY <1>22, <1>23

\* A renewal that was answered.
LEMMA RenewedKeeps ==
    ASSUME NEW s \in States, s.manager = manager, NEW ok \in BOOLEAN, Good(s)
    PROVE  LET t == Renewed(s, ok) IN
           /\ t \in States /\ Good(t) /\ (Away(s) => Away(t)) /\ t.ghost = s.ghost
           /\ t.body.mounted = s.body.mounted /\ t.body.current \in {s.body.current, Nobody}
           /\ \A c \in Taps : /\ t.chains[c].at = s.chains[c].at /\ t.chains[c].asked = s.chains[c].asked
                              /\ ok => t.chains[c].void = s.chains[c].void
           /\ ok => t.body = s.body
  <1>1. CASE ok
    <2> DEFINE t == [s EXCEPT !.manager.permit = manager.leases # {}]
    <2>1. PICK p \in BOOLEAN : p = (manager.leases # {})
      OBVIOUS
    <2>2. t = [s EXCEPT !.manager.permit = p]
      BY <2>1
    <2>3. Renewed(s, ok) = t
      BY <1>1 DEF Renewed
    <2> HIDE DEF t
    <2>4. /\ t \in States /\ t.body = s.body /\ t.runs = s.runs /\ t.chains = s.chains /\ t.ghost = s.ghost
          /\ t.manager.claim = s.manager.claim /\ t.manager.context = s.manager.context
          /\ t.manager.leases = s.manager.leases /\ t.manager.permit = p
      BY <2>2 DEF States, Managers
    <2>5. t.manager.permit => t.manager.leases # {}
      BY <2>1, <2>4
    <2>6. Calm(s, t)
      BY <2>4, <2>5 DEF Calm
    <2>7. Good(t)
      BY <2>4, <2>6, CalmKeeps
    <2> QED BY <1>1, <2>3, <2>4, <2>7 DEF Away
  <1>2. CASE ~ ok
    <2>1. CASE s.manager.permit
      <3>1. Renewed(s, ok) = RevokeAll(s)
        BY <1>2, <2>1 DEF Renewed
      <3>2. \A c \in Taps : /\ Voided(s.chains)[c].at = s.chains[c].at /\ Voided(s.chains)[c].asked = s.chains[c].asked
        BY StateFields, VoidedFields
      <3> DEFINE t == RevokeAll(s)
      <3>3. /\ t \in States /\ t.ghost = s.ghost
            /\ t.body.mounted = s.body.mounted /\ t.body.current \in {s.body.current, Nobody}
            /\ t.body.asking = s.body.asking
            /\ t.manager.claim = s.manager.claim /\ t.manager.context = s.manager.context
            /\ t.manager.leases = s.manager.leases
            /\ t.chains = Voided(s.chains)
            /\ Good(t)
        BY RevokeAllKeeps
      <3> HIDE DEF t
      <3>4. Away(s) => Away(t)
        BY <3>3 DEF Away
      <3> QED BY <1>2, <3>1, <3>2, <3>3, <3>4 DEF t
    <2>2. CASE ~ s.manager.permit
      BY <1>2, <2>2 DEF Renewed
    <2> QED BY <2>1, <2>2
  <1> QED BY <1>1, <1>2

\* Everything that sounds is given back.
LEMMA SuspendedKeeps ==
    ASSUME NEW s \in States, Good(s)
    PROVE  LET t == Suspended(s) IN
           /\ t \in States /\ Good(t) /\ Away(t) /\ t.body.mounted = s.body.mounted
           /\ \A c \in Taps : t.chains[c].at = "resume" => t.chains[c].void
  <1> DEFINE i == Interrupt(s)
             r == Release(i)
             d == Drop(r)
             playing == RunState(s) \in {"running", "waiting"}
             t == [d EXCEPT !.body.claim = "none", !.body.asking = "no", !.body.kept = @ \/ playing,
                            !.body.shown = IF playing THEN "interrupted" ELSE "stopped"]
  <1>1. i \in States /\ i.body.mounted = s.body.mounted /\ i.body.current = Nobody /\ Good(i)
    BY InterruptKeeps
  <1> HIDE DEF i
  <1>2. /\ r \in States /\ r.body.mounted = i.body.mounted /\ r.body.current = i.body.current
        /\ r.body.lease = Nobody /\ Good(r)
    BY <1>1, ReleaseFields, ReleaseKeeps DEF Good
  <1> HIDE DEF r
  <1>3. /\ d \in States /\ d.body = r.body /\ d.chains = Voided(r.chains) /\ Good(d)
        /\ d.manager.leases = {} /\ d.manager.context = "none" /\ ~ d.manager.claim
    BY <1>2, DropKeeps
  <1>4. \A c \in Taps : d.chains[c].at = "resume" => d.chains[c].void
    BY <1>2, <1>3, StateFields, VoidedFields
  <1> HIDE DEF d
  <1> DEFINE u == [d EXCEPT !.body.claim = "none", !.body.asking = "no"]
  <1>5. u \in States /\ u.body = [d.body EXCEPT !.claim = "none", !.asking = "no"]
    BY <1>3 DEF States, Bodies
  <1>6. PICK k \in BOOLEAN : (u.body.kept \/ playing) = k
    <2>1. (u.body.kept \/ playing) \in BOOLEAN
      OBVIOUS
    <2> HIDE DEF u, playing
    <2> QED BY <2>1
  <1>7. PICK w \in {"interrupted", "stopped"} : w = IF playing THEN "interrupted" ELSE "stopped"
    OBVIOUS
  <1>a. t = [u EXCEPT !.body.kept = @ \/ playing, !.body.shown = IF playing THEN "interrupted" ELSE "stopped"]
    OBVIOUS
  <1>8. t = [d EXCEPT !.body.claim = "none", !.body.asking = "no", !.body.kept = k, !.body.shown = w]
    <2>1. t = [u EXCEPT !.body.kept = k, !.body.shown = w]
      <3> HIDE DEF t, u, playing
      <3> QED BY <1>6, <1>7, <1>a
    <2> HIDE DEF t
    <2> QED BY <2>1
  <1>9. Suspended(s) = t
    BY DEF Suspended, i, r, d
  <1> HIDE DEF t, u, playing
  <1>10. w \in RunStates /\ w # "running"
    BY <1>7 DEF RunStates
  <1>11. /\ t \in States /\ t.manager = d.manager /\ t.runs = d.runs /\ t.chains = d.chains /\ t.ghost = d.ghost
         /\ t.body.mounted = d.body.mounted /\ t.body.current = d.body.current /\ t.body.asking = "no"
         /\ t.body.lease = d.body.lease /\ t.body.output = d.body.output /\ t.body.shown = w
    <2>1. PICK b : b = [d.body EXCEPT !.claim = "none", !.asking = "no", !.kept = k, !.shown = w]
      OBVIOUS
    <2>2. d.body \in Bodies
      BY <1>3, StateFields
    <2>3. /\ b \in Bodies /\ b.mounted = d.body.mounted /\ b.current = d.body.current /\ b.asking = "no"
          /\ b.lease = d.body.lease /\ b.output = d.body.output /\ b.shown = w
      BY <1>10, <2>1, <2>2 DEF Bodies
    <2>4. t = [d EXCEPT !.body = b]
      BY <1>8, <2>1
    <2> QED BY <1>3, <2>3, <2>4 DEF States
  <1>12. Calm(d, t)
    BY <1>10, <1>11 DEF Calm
  <1>13. Good(t)
    BY <1>3, <1>11, <1>12, CalmKeeps
  <1> QED BY <1>1, <1>2, <1>3, <1>4, <1>9, <1>11, <1>13 DEF Away

Shows == [visible : BOOLEAN, opened : BOOLEAN]
Launchers == [loaded : BOOLEAN, waiting : BOOLEAN, suspended : BOOLEAN]

\* The state after a step.
LEMMA Arrives ==
    ASSUME NEW t \in States, Good(t), Become(t), page' \in Shows, launcher' \in Launchers,
           ~ (t.body.mounted /\ page'.visible /\ page'.opened) => Away(t),
           t.body.mounted => page'.opened, launcher'.suspended => ~ page'.visible
    PROVE  ScreenInv'
  <1>1. /\ body' = t.body /\ manager' = t.manager /\ runs' = t.runs /\ chains' = t.chains /\ ghost' = t.ghost
    BY DEF Become
  <1>2. TypeOK'
    BY <1>1, StateFields DEF TypeOK, Bodies, Managers, Chains, Ghosts, Shows, Launchers
  <1>3. State' = t
    BY <1>1 DEF State, States
  <1>4. Good(State)'
    BY <1>3
  <1>5. (~ UserIsThere => Away(State))'
    BY <1>1, <1>3 DEF UserIsThere
  <1>6. (body.mounted => page.opened)' /\ (launcher.suspended => ~ page.visible)'
    BY <1>1
  <1> QED BY <1>2, <1>4, <1>5, <1>6 DEF ScreenInv

\* The same for a step of the body, that neither mounts nor leaves it.
LEMMA Stays ==
    ASSUME ScreenInv, NEW t \in States, Good(t), Become(t), UNCHANGED <<page, launcher>>,
           t.body.mounted = body.mounted, UserIsThere \/ Away(t)
    PROVE  ScreenInv'
  <1>1. page \in Shows /\ launcher \in Launchers /\ page' = page /\ launcher' = launcher
    BY DEF ScreenInv, TypeOK, Shows, Launchers
  <1>2. /\ ~ (t.body.mounted /\ page'.visible /\ page'.opened) => Away(t)
        /\ t.body.mounted => page'.opened
        /\ launcher'.suspended => ~ page'.visible
    BY <1>1 DEF ScreenInv, UserIsThere
  <1> QED BY <1>1, <1>2, Arrives

\* The state before it.
LEMMA Before ==
    ASSUME ScreenInv
    PROVE  /\ State \in States /\ Good(State) /\ Rough(State) /\ (UserIsThere \/ Away(State))
           /\ State.body = body /\ State.manager = manager /\ State.runs = runs
           /\ State.chains = chains /\ State.ghost = ghost
           /\ page \in Shows /\ launcher \in Launchers /\ (launcher.suspended => ~ page.visible)
           /\ (body.mounted => page.opened)
  BY StateTyped DEF ScreenInv, Good, TypeOK, Shows, Launchers

-----------------------------------------------------------------------------
(* Taps and the screen's own requests *)

\* Another body, another manager.
LEMMA SetFields ==
    ASSUME NEW s \in States, NEW b \in Bodies, NEW m \in Managers
    PROVE  LET t == [s EXCEPT !.body = b, !.manager = m] IN
           /\ t \in States /\ t.body = b /\ t.manager = m
           /\ t.runs = s.runs /\ t.chains = s.chains /\ t.ghost = s.ghost
  BY DEF States

\* A tap that stops what runs.
LEMMA StopPlaybackKeeps == ASSUME ScreenInv, StopPlayback PROVE ScreenInv'
  <1>1. PICK s \in States : s = State /\ Good(s) /\ s.body = body
    BY Before
  <1> DEFINE u == [s EXCEPT !.body.current = Nobody]
  <1>2. /\ u \in States /\ u.manager = s.manager /\ u.runs = s.runs /\ u.chains = s.chains /\ u.ghost = s.ghost
        /\ u.body.mounted = s.body.mounted /\ u.body.current = Nobody
        /\ u.body.lease = s.body.lease /\ u.body.output = s.body.output /\ u.body.shown = s.body.shown
    BY DEF States, Bodies
  <1>3. Become(Halt(u, "stopped")) /\ UNCHANGED <<page, launcher>> /\ UserIsThere
    BY <1>1 DEF StopPlayback
  <1> HIDE DEF u
  <1>4. Calm(s, u)
    BY <1>2 DEF Calm
  <1>5. Good(Halt(u, "stopped"))
    BY <1>1, <1>2, <1>4, CalmKeeps, HaltKeeps
  <1>6. Halt(u, "stopped") \in States /\ Halt(u, "stopped").body.mounted = u.body.mounted
    <2>1. "stopped" \in RunStates
      BY DEF RunStates
    <2> QED BY <1>2, <2>1, HaltFields
  <1> QED BY <1>1, <1>2, <1>3, <1>5, <1>6, Stays

\* A tap that starts a chain.
LEMMA PlayKeeps == ASSUME ScreenInv, NEW c \in Taps, Play(c) PROVE ScreenInv'
  <1>1. State \in States /\ Good(State) /\ State.body = body /\ State.chains = chains
    BY Before
  <1>2. Begin(State, c) \in States /\ Good(Begin(State, c)) /\ Begin(State, c).body.mounted = body.mounted
    BY <1>1, BeginKeeps DEF Play, NextTap
  <1>3. Become(Begin(State, c)) /\ UNCHANGED <<page, launcher>> /\ UserIsThere
    BY DEF Play
  <1> QED BY <1>2, <1>3, Stays

\* A pause, confirmed or not.
LEMMA PauseKeeps == ASSUME ScreenInv, Pause \/ PauseUnconfirmed PROVE ScreenInv'
  <1>1. State \in States /\ Good(State) /\ State.body = body /\ (UserIsThere \/ Away(State))
    BY Before
  <1>2. PICK state \in {"paused", "interrupted"} : Become(Halt(State, state)) /\ UNCHANGED <<page, launcher>>
    BY DEF Pause, PauseUnconfirmed
  <1>3. state \in RunStates
    BY <1>2 DEF RunStates
  <1>4. /\ Halt(State, state) \in States /\ Halt(State, state).body.mounted = body.mounted
        /\ Good(Halt(State, state)) /\ (Away(State) => Away(Halt(State, state)))
    BY <1>1, <1>2, <1>3, HaltFields, HaltKeeps
  <1> QED BY <1>1, <1>2, <1>4, Stays

\* A tap that resumes, with the output that is kept or in the way of a new start.
LEMMA ResumeKeeps == ASSUME ScreenInv, NEW c \in Taps, Resume(c) PROVE ScreenInv'
  <1>1. PICK s \in States : /\ s = State /\ Good(s) /\ s.body = body /\ s.manager = manager /\ s.chains = chains
    BY Before
  <1>2. UserIsThere /\ chains[c].at = "idle" /\ UNCHANGED <<page, launcher>>
    BY DEF Resume, NextTap
  <1> DEFINE u == [s EXCEPT !.manager.context = "running"]
             t == [u EXCEPT !.chains[c] = [at |-> "resume", void |-> FALSE, asked |-> TRUE]]
  <1>3. \/ Become(Begin(s, c))
        \/ Become(Begin(Release(u), c))
        \/ Become(t)
    BY <1>1 DEF Resume
  <1>4. /\ u \in States /\ u.body = s.body /\ u.runs = s.runs /\ u.chains = s.chains /\ u.ghost = s.ghost
        /\ u.manager.leases = s.manager.leases /\ u.manager.permit = s.manager.permit
    BY DEF States, Managers
  <1> HIDE DEF u
  <1>5. Calm(s, u)
    BY <1>4 DEF Calm
  <1>6. Good(u)
    BY <1>1, <1>4, <1>5, CalmKeeps
  <1>7. CASE Become(Begin(s, c))
    <2>1. Begin(s, c) \in States /\ Good(Begin(s, c)) /\ Begin(s, c).body.mounted = body.mounted
      BY <1>1, <1>2, BeginKeeps
    <2> QED BY <1>2, <1>7, <2>1, Stays
  <1>8. CASE Become(Begin(Release(u), c))
    <2>1. Rough(u)
      BY <1>6 DEF Good
    <2>2. /\ Release(u) \in States /\ Good(Release(u)) /\ Release(u).body.mounted = body.mounted
          /\ Release(u).chains[c].at = "idle"
      BY <1>1, <1>2, <1>4, <2>1, ReleaseKeeps, ReleaseFields
    <2>3. /\ Begin(Release(u), c) \in States /\ Good(Begin(Release(u), c))
          /\ Begin(Release(u), c).body.mounted = body.mounted
      BY <2>2, BeginKeeps
    <2> QED BY <1>2, <1>8, <2>3, Stays
  <1>9. CASE Become(t)
    <2>1. PICK k : k = [at |-> "resume", void |-> FALSE, asked |-> TRUE]
      OBVIOUS
    <2>2. k \in Chains /\ k.at = "resume" /\ k.asked
      BY <2>1 DEF Chains, Stages
    <2>3. t = [u EXCEPT !.chains[c] = k]
      BY <2>1
    <2> HIDE DEF t
    <2>4. /\ t \in States /\ t.body = u.body /\ t.manager = u.manager /\ t.runs = u.runs /\ t.ghost = u.ghost
          /\ t.chains = [u.chains EXCEPT ![c] = k]
      BY <1>4, <2>2, <2>3 DEF States
    <2>5. \A d \in Taps : t.chains[d] = IF d = c THEN k ELSE s.chains[d]
      BY <1>4, <2>4, StateFields
    <2>6. s.chains[c].at = "idle"
      BY <1>1, <1>2
    <2>7. Wanted(u) => Wanted(t)
      BY <1>4, <2>2, <2>4, <2>5 DEF Wanted, Preparing
    <2>8. RunState(t) = RunState(u)
      BY <2>4 DEF RunState
    <2>9. Loose(u) => Loose(t)
      BY <1>4, <2>2, <2>4, <2>5, <2>8 DEF Loose, Preparing
    <2>10. u.body.lease \in Taps \cup {Nobody}
      BY <1>4, StateFields
    <2>11. Firm(u) => Firm(t)
      BY <1>4, <2>2, <2>4, <2>5, <2>6, <2>10 DEF Firm
    <2>12. Good(t)
      BY <1>6, <2>4, <2>7, <2>9, <2>11 DEF Good, Rough
    <2> QED BY <1>1, <1>2, <1>4, <1>9, <2>4, <2>12, Stays
  <1> QED BY <1>3, <1>7, <1>8, <1>9

\* A tap that ends a fermata.
LEMMA ResumeFermataKeeps == ASSUME ScreenInv, ResumeFermata PROVE ScreenInv'
  <1>1. PICK s \in States : s = State /\ Good(s) /\ s.body = body
    BY Before
  <1> DEFINE t == [s EXCEPT !.runs[s.body.output] = "running", !.body.shown = "running"]
  <1>2. Become(t) /\ UNCHANGED <<page, launcher>> /\ UserIsThere /\ RunState(s) = "waiting"
    BY <1>1 DEF ResumeFermata
  <1>3. s.body.output # Nobody
    BY <1>2 DEF RunState
  <1>4. t \in States /\ Good(t) /\ t.body.mounted = s.body.mounted
    <2>1. PICK a \in BOOLEAN : a
      OBVIOUS
    <2> QED BY <1>1, <1>3, <2>1, StartKeeps
  <1> HIDE DEF t
  <1> QED BY <1>1, <1>2, <1>4, Stays

\* The steps of the screen's own requests, and the renewals of the manager.
LEMMA TakeOverKeeps == ASSUME ScreenInv, TakeOver PROVE ScreenInv'
  <1>1. PICK s \in States : /\ s = State /\ Good(s) /\ s.body = body /\ s.manager = manager
                            /\ s.runs = runs /\ s.chains = chains /\ s.ghost = ghost
    BY Before
  <1>2. PICK b : b = [s.body EXCEPT !.claim = "pending", !.asking = "takeover"]
    OBVIOUS
  <1>3. /\ b \in Bodies /\ b.mounted = s.body.mounted /\ b.current = s.body.current
        /\ b.lease = s.body.lease /\ b.output = s.body.output /\ b.shown = s.body.shown
    BY <1>2, StateFields DEF Bodies
  <1> DEFINE t == [s EXCEPT !.body = b]
  <1>4. /\ t \in States /\ t.body = b /\ t.manager = s.manager
        /\ t.runs = s.runs /\ t.chains = s.chains /\ t.ghost = s.ghost
    BY <1>3 DEF States
  <1> HIDE DEF t
  <1>5. Become(t) /\ UNCHANGED <<page, launcher>> /\ UserIsThere
    BY <1>1, <1>2, <1>4 DEF TakeOver, Become
  <1>6. Calm(s, t)
    BY <1>3, <1>4 DEF Calm
  <1>7. Good(t)
    BY <1>1, <1>4, <1>6, CalmKeeps
  <1> QED BY <1>1, <1>3, <1>4, <1>5, <1>7, Stays

\* The manager renews its permit.
LEMMA RenewKeeps == ASSUME ScreenInv, Renew PROVE ScreenInv'
  <1>1. PICK s \in States : /\ s = State /\ Good(s) /\ s.body = body /\ s.manager = manager
                            /\ s.runs = runs /\ s.chains = chains /\ s.ghost = ghost
    BY Before
  <1>2. PICK m : m = [s.manager EXCEPT !.permit = TRUE]
    OBVIOUS
  <1>3. m \in Managers /\ m.leases = s.manager.leases
    BY <1>2, StateFields DEF Managers
  <1> DEFINE t == [s EXCEPT !.manager = m]
  <1>4. /\ t \in States /\ t.body = s.body /\ t.manager = m
        /\ t.runs = s.runs /\ t.chains = s.chains /\ t.ghost = s.ghost
    BY <1>3 DEF States
  <1> HIDE DEF t
  <1>5. Become(t) /\ UNCHANGED <<page, launcher>> /\ s.manager.leases # {}
    BY <1>1, <1>2, <1>4 DEF Renew, Become
  <1>6. Calm(s, t)
    BY <1>3, <1>4, <1>5 DEF Calm
  <1>7. Good(t)
    BY <1>1, <1>4, <1>6, CalmKeeps
  <1>8. UserIsThere
    BY <1>1, <1>5, Before DEF Away
  <1> QED BY <1>1, <1>4, <1>5, <1>7, <1>8, Stays

\* The answer to the screen's own request.
LEMMA ScreenAnsweredKeeps == ASSUME ScreenInv, NEW answer \in Answers, ScreenAnswered(answer) PROVE ScreenInv'
  <1>1. PICK s \in States : /\ s = State /\ Good(s) /\ s.body = body /\ s.manager = manager
                            /\ s.runs = runs /\ s.chains = chains /\ s.ghost = ghost
    BY Before
  <1>2. PICK b : b = body'
    OBVIOUS
  <1>3. PICK m : m = manager'
    OBVIOUS
  <1>4. /\ b \in Bodies /\ b.mounted = s.body.mounted /\ b.current = s.body.current
        /\ b.lease = s.body.lease /\ b.output = s.body.output /\ b.shown = s.body.shown
    <2>1. PICK x \in Answers \cup {"pending"} : \E y \in {"claim", "no"} :
             b = [s.body EXCEPT !.claim = x, !.asking = y]
      BY <1>1, <1>2 DEF ScreenAnswered
    <2>2. PICK y \in {"claim", "no"} : b = [s.body EXCEPT !.claim = x, !.asking = y]
      BY <2>1
    <2>3. x \in {"none", "pending", "held", "busy", "stale", "waiting"} /\ y \in {"no", "claim", "takeover"}
      BY <2>1, <2>2 DEF Answers
    <2> QED BY <2>2, <2>3, StateFields DEF Bodies
  <1>5. m \in Managers /\ m.leases = s.manager.leases /\ m.permit = s.manager.permit
    <2>1. PICK x \in BOOLEAN : x <=> s.manager.claim \/ answer = "held"
      OBVIOUS
    <2>2. s.manager \in Managers
      BY StateFields
    <2>3. (s.manager.claim \/ answer = "held") = x
      BY <2>1, <2>2 DEF Managers
    <2>4. m = [s.manager EXCEPT !.claim = x]
      BY <1>1, <1>3, <2>3 DEF ScreenAnswered
    <2> QED BY <2>2, <2>4 DEF Managers
  <1> DEFINE t == [s EXCEPT !.body = b, !.manager = m]
  <1>6. /\ t \in States /\ t.body = b /\ t.manager = m
        /\ t.runs = s.runs /\ t.chains = s.chains /\ t.ghost = s.ghost
    BY <1>4, <1>5, SetFields
  <1> HIDE DEF t
  <1>7. Become(t) /\ UNCHANGED <<page, launcher>> /\ s.body.asking # "no"
    BY <1>1, <1>2, <1>3, <1>6 DEF ScreenAnswered, Become
  <1>8. Calm(s, t)
    BY <1>4, <1>5, <1>6 DEF Calm
  <1>9. Good(t)
    BY <1>1, <1>6, <1>8, CalmKeeps
  <1>10. UserIsThere
    BY <1>1, <1>7, Before DEF Away
  <1> QED BY <1>1, <1>4, <1>6, <1>7, <1>9, <1>10, Stays

-----------------------------------------------------------------------------
(* The promises of a tap *)

\* The claim is answered: the tap is of an earlier time, or goes on, or ends.
LEMMA ClaimAnsweredKeeps == ASSUME ScreenInv, NEW c \in Taps, NEW answer \in Answers, ClaimAnswered(c, answer)
                            PROVE ScreenInv'
  <1>1. PICK s \in States : /\ s = State /\ Good(s) /\ s.body = body /\ s.manager = manager
                            /\ s.chains = chains /\ (UserIsThere \/ Away(s))
    BY Before
  <1>2. s.chains[c].at = "claim" /\ UNCHANGED <<page, launcher>>
    BY <1>1 DEF ClaimAnswered
  <1> DEFINE o == [s EXCEPT !.chains[c] = Over]
  <1>3. /\ o \in States /\ o.body = s.body /\ o.manager = s.manager /\ o.runs = s.runs /\ o.ghost = s.ghost
        /\ \A d \in Taps : o.chains[d] = IF d = c THEN Over ELSE s.chains[d]
        /\ Calm(s, o) /\ Good(o)
    <2>1. /\ o \in States /\ o.body = s.body /\ o.manager = s.manager /\ o.runs = s.runs /\ o.ghost = s.ghost
          /\ \A d \in Taps : o.chains[d] = IF d = c THEN Over ELSE s.chains[d]
          /\ Calm(s, o)
      BY OverFields
    <2> HIDE DEF o
    <2> QED BY <1>1, <1>2, <2>1, CalmKeeps
  <1>4. CASE s.body.current # c
    <2>1. Become(o)
      BY <1>1, <1>4 DEF ClaimAnswered
    <2> HIDE DEF o
    <2> QED BY <1>1, <1>2, <1>3, <2>1, Stays DEF Away
  <1>5. CASE s.body.current = c
    <2>1. UserIsThere
      BY <1>1, <1>5, NobodyAssumption DEF Away
    <2> DEFINE t == [s EXCEPT !.body.claim = answer]
               h == [t EXCEPT !.manager.claim = TRUE]
               w == [t EXCEPT !.chains[c] = Over, !.body.shown = IF answer = "busy" THEN "busy" ELSE "stopped"]
    <2>2. Become(IF answer = "held" THEN PrepareOutput(h, c) ELSE w)
      BY <1>1, <1>5 DEF ClaimAnswered
    <2>3. PICK b : b = [s.body EXCEPT !.claim = answer]
      OBVIOUS
    <2>4. /\ b \in Bodies /\ b.mounted = s.body.mounted /\ b.current = s.body.current
          /\ b.lease = s.body.lease /\ b.output = s.body.output /\ b.shown = s.body.shown
      BY <2>3, StateFields DEF Bodies, Answers
    <2>5. t = [s EXCEPT !.body = b]
      BY <2>3
    <2>6. /\ t \in States /\ t.body = b /\ t.manager = s.manager /\ t.runs = s.runs
          /\ t.chains = s.chains /\ t.ghost = s.ghost
      <3> HIDE DEF t
      <3> QED BY <2>4, <2>5 DEF States
    <2>7. CASE answer = "held"
      <3> HIDE DEF t
      <3>1. /\ h \in States /\ h.body = t.body /\ h.runs = t.runs /\ h.chains = t.chains /\ h.ghost = t.ghost
            /\ h.manager.leases = t.manager.leases /\ h.manager.permit = t.manager.permit
        BY <2>6 DEF States, Managers
      <3> HIDE DEF h
      <3>2. Calm(s, h)
        BY <2>4, <2>6, <3>1 DEF Calm
      <3>3. Good(h)
        BY <1>1, <2>6, <3>1, <3>2, CalmKeeps
      <3>4. h.body.current = c /\ h.chains[c].at = "claim" /\ h.chains[c].asked
        <4>1. Wanted(h)
          BY <3>3 DEF Good, Rough
        <4> QED BY <1>2, <1>5, <2>4, <2>6, <3>1, <4>1 DEF Wanted, Preparing
      <3>5. ~ h.ghost.overlap => Alone(h, c)
        BY <3>3, <3>4 DEF Good, Rough, Loose, Alone, Preparing
      <3>6. /\ PrepareOutput(h, c) \in States /\ Good(PrepareOutput(h, c))
            /\ PrepareOutput(h, c).body.mounted = h.body.mounted
        BY <3>1, <3>3, <3>4, <3>5, PrepareOutputKeeps
      <3> HIDE DEF w
      <3> QED BY <1>1, <1>2, <2>1, <2>2, <2>4, <2>6, <2>7, <3>1, <3>6, Stays
    <2>8. CASE answer # "held"
      <3>1. PICK x \in {"busy", "stopped"} : x = IF answer = "busy" THEN "busy" ELSE "stopped"
        OBVIOUS
      <3>2. PICK q : q = [b EXCEPT !.shown = x]
        OBVIOUS
      <3>3. /\ q \in Bodies /\ q.mounted = b.mounted /\ q.current = b.current
            /\ q.lease = b.lease /\ q.output = b.output /\ q.shown # "running"
        BY <2>4, <3>1, <3>2 DEF Bodies, RunStates
      <3>4. w = [[t EXCEPT !.chains[c] = Over] EXCEPT !.body.shown = x]
        BY <3>1
      <3> HIDE DEF t
      <3> DEFINE v == [t EXCEPT !.chains[c] = Over]
      <3>5. v \in States /\ v.body = b /\ Calm(t, v)
        BY <2>6, OverFields
      <3>6. /\ v.manager = t.manager /\ v.runs = t.runs /\ v.ghost = t.ghost
            /\ \A d \in Taps : v.chains[d] = IF d = c THEN Over ELSE t.chains[d]
        BY <2>6, OverFields
      <3> HIDE DEF v
      <3>7. w = [v EXCEPT !.body = q]
        <4>1. w = [v EXCEPT !.body.shown = x]
          BY <3>4 DEF v
        <4> HIDE DEF w
        <4> QED BY <3>2, <3>5, <4>1
      <3> HIDE DEF w
      <3>8. /\ w \in States /\ w.body = q /\ w.manager = v.manager /\ w.runs = v.runs
            /\ w.chains = v.chains /\ w.ghost = v.ghost
        BY <3>3, <3>5, <3>7 DEF States
      <3>9. Calm(s, w)
        BY <2>4, <2>6, <3>3, <3>6, <3>8, OverIs DEF Calm
      <3>10. \A d \in Taps : s.chains[d].at = "init" => w.chains[d].at = "init"
        BY <1>2, <2>6, <3>6, <3>8
      <3>11. Good(w)
        BY <1>1, <3>8, <3>9, <3>10, CalmKeeps
      <3> HIDE DEF h
      <3> QED BY <1>1, <1>2, <2>1, <2>2, <2>4, <2>8, <3>3, <3>8, <3>11, Stays
    <2> QED BY <2>7, <2>8
  <1> QED BY <1>4, <1>5

\* The backend is ready, for the tap that made it or for one that was left.
LEMMA InitDoneKeeps == ASSUME ScreenInv, NEW c \in Taps, InitDone(c) PROVE ScreenInv'
  <1>1. PICK s \in States : /\ s = State /\ Good(s) /\ s.body = body /\ s.manager = manager
                            /\ s.chains = chains /\ (UserIsThere \/ Away(s))
    BY Before
  <1> DEFINE t == [s EXCEPT !.body.output = c, !.runs[c] = "stopped"]
             w == [t EXCEPT !.chains[c].at = "renew"]
  <1>2. /\ s.chains[c].at = "init" /\ UNCHANGED <<page, launcher>>
        /\ Become(IF s.manager.leases = {} \/ s.manager.context # "running" THEN Settle(t, c) ELSE w)
    BY <1>1 DEF InitDone
  <1>3. PICK b : b = [s.body EXCEPT !.output = c]
    OBVIOUS
  <1>4. /\ b \in Bodies /\ b.mounted = s.body.mounted /\ b.current = s.body.current /\ b.asking = s.body.asking
        /\ b.lease = s.body.lease /\ b.output = c /\ b.shown = s.body.shown
    BY <1>3, StateFields DEF Bodies
  <1>5. PICK r : r = [s.runs EXCEPT ![c] = "stopped"]
    OBVIOUS
  <1>6. r \in [Taps -> RunStates] /\ \A d \in Taps : r[d] = IF d = c THEN "stopped" ELSE s.runs[d]
    BY <1>5, StateFields DEF RunStates
  <1>7. t = [s EXCEPT !.body = b, !.runs = r]
    BY <1>3, <1>5
  <1> HIDE DEF t
  <1>8. /\ t \in States /\ t.body = b /\ t.runs = r
        /\ t.manager = s.manager /\ t.chains = s.chains /\ t.ghost = s.ghost
    BY <1>4, <1>6, <1>7 DEF States
  <1>9. Wanted(t)
    BY <1>1, <1>4, <1>8 DEF Good, Rough, Wanted
  <1>10. ASSUME ~ s.ghost.overlap
         PROVE  /\ Loose(t) /\ Alone(t, c)
                /\ t.manager.leases # {} => t.body.lease = c /\ c \in t.manager.leases
    <2>1. Loose(s) /\ Firm(s)
      BY <1>1, <1>10 DEF Good, Rough
    <2>2. s.body.output = Nobody /\ s.body.lease \in {c, Nobody}
      BY <1>2, <2>1 DEF Firm
    <2>3. \A d \in Taps : t.runs[d] # "running"
      BY <1>6, <1>8, <2>1, <2>2, NobodyAssumption DEF Loose
    <2>4. t.body.shown # "running"
      BY <1>4, <1>8, <2>1, <2>2 DEF Loose, RunState
    <2>5. Loose(t)
      BY <1>4, <1>8, <2>1, <2>3, <2>4 DEF Loose
    <2>6. Alone(t, c)
      BY <1>2, <1>8, <2>1 DEF Loose, Alone, Preparing
    <2>7. s.manager.leases \subseteq Taps
      BY StateFields
    <2>8. t.manager.leases # {} => t.body.lease = c /\ c \in t.manager.leases
      BY <1>4, <1>8, <2>1, <2>2, <2>7, NobodyAssumption DEF Loose
    <2> QED BY <2>5, <2>6, <2>8
  <1>11. Rough(t)
    BY <1>8, <1>9, <1>10 DEF Rough
  <1>12. CASE s.manager.leases = {} \/ s.manager.context # "running"
    <2> DEFINE o == [t EXCEPT !.chains[c] = Over]
    <2>1. /\ o \in States /\ o.body = t.body /\ o.manager = t.manager
          /\ \A d \in Taps : o.chains[d] = IF d = c THEN Over ELSE t.chains[d]
          /\ Over.at = "done"
      BY <1>8, OverFields
    <2>2. ~ t.ghost.overlap /\ t.manager.permit => Firm(o)
      <3> HIDE DEF o
      <3>1. SUFFICES ASSUME ~ t.ghost.overlap, t.manager.permit
                     PROVE  Firm(o)
        OBVIOUS
      <3>2. t.body.lease = c /\ c \in t.manager.leases /\ Alone(t, c)
        BY <1>8, <1>9, <1>10, <3>1 DEF Wanted
      <3>3. \A d \in Taps : o.chains[d].at # "init"
        BY <2>1, <3>2 DEF Alone, Preparing
      <3> QED BY <1>4, <1>8, <2>1, <3>2, <3>3, NobodyAssumption DEF Firm
    <2>3. t.body.current = c => t.chains[c].asked
      BY <1>2, <1>8, <1>9 DEF Wanted, Preparing
    <2>4. /\ Settle(t, c) \in States /\ Good(Settle(t, c)) /\ (Away(t) => Away(Settle(t, c)))
          /\ Settle(t, c).body.mounted = t.body.mounted
      BY <1>8, <1>11, <2>2, <2>3, SettleKeeps
    <2>5. Away(s) => Away(t)
      BY <1>4, <1>8 DEF Away
    <2> HIDE DEF w
    <2> QED BY <1>1, <1>2, <1>4, <1>8, <1>12, <2>4, <2>5, Stays
  <1>13. CASE ~ (s.manager.leases = {} \/ s.manager.context # "running")
    <2>1. PICK k : k = [t.chains[c] EXCEPT !.at = "renew"]
      OBVIOUS
    <2>2. k \in Chains /\ k.at = "renew" /\ k.asked = t.chains[c].asked /\ k.void = t.chains[c].void
      BY <1>8, <2>1, StateFields DEF Chains, Stages
    <2>3. w = [t EXCEPT !.chains[c] = k]
      BY <2>1
    <2> HIDE DEF w
    <2>4. /\ w \in States /\ w.body = t.body /\ w.manager = t.manager /\ w.runs = t.runs /\ w.ghost = t.ghost
          /\ w.chains = [t.chains EXCEPT ![c] = k]
      BY <1>8, <2>2, <2>3 DEF States
    <2>5. \A d \in Taps : /\ w.chains[d].at = IF d = c THEN "renew" ELSE t.chains[d].at
                          /\ w.chains[d].asked = t.chains[d].asked /\ w.chains[d].void = t.chains[d].void
      BY <1>8, <2>2, <2>4, StateFields
    <2>6. Wanted(w)
      BY <1>2, <1>8, <1>9, <2>4, <2>5 DEF Wanted, Preparing
    <2>7. ASSUME ~ s.ghost.overlap
          PROVE  Loose(w) /\ Firm(w)
      <3>1. Loose(t) /\ Alone(t, c) /\ t.body.lease = c /\ c \in t.manager.leases
        BY <1>8, <1>10, <1>13, <2>7
      <3>2. RunState(w) = RunState(t)
        BY <2>4 DEF RunState
      <3>3. \A d \in Taps : w.chains[d].at \in Preparing => d = c
        BY <2>5, <3>1 DEF Alone
      <3>4. Loose(w)
        BY <2>4, <3>1, <3>2, <3>3 DEF Loose
      <3>5. \A d \in Taps : w.chains[d].at # "init"
        BY <2>5, <3>1 DEF Alone, Preparing
      <3>6. Firm(w)
        BY <1>4, <1>8, <2>4, <3>1, <3>5, NobodyAssumption DEF Firm
      <3> QED BY <3>4, <3>6
    <2>8. Good(w)
      BY <1>8, <2>4, <2>6, <2>7 DEF Good, Rough
    <2>9. UserIsThere
      BY <1>1, <1>13 DEF Away
    <2> QED BY <1>1, <1>2, <1>4, <1>8, <1>13, <2>4, <2>8, <2>9, Stays
  <1> QED BY <1>12, <1>13

\* The backend failed.
LEMMA InitFailedKeeps == ASSUME ScreenInv, NEW c \in Taps, InitFailed(c) PROVE ScreenInv'
  <1>1. State \in States /\ Rough(State) /\ State.body = body /\ (UserIsThere \/ Away(State))
    BY Before
  <1>2. /\ Failed(State, c) \in States /\ Good(Failed(State, c)) /\ (Away(State) => Away(Failed(State, c)))
        /\ Failed(State, c).body.mounted = body.mounted
    BY <1>1, FailedKeeps
  <1>3. Become(Failed(State, c)) /\ UNCHANGED <<page, launcher>>
    BY DEF InitFailed
  <1> QED BY <1>1, <1>2, <1>3, Stays

\* The first permit, and the end of play().
LEMMA RenewDoneKeeps == ASSUME ScreenInv, NEW c \in Taps, NEW ok \in BOOLEAN, RenewDone(c, ok) PROVE ScreenInv'
  <1>1. PICK s \in States : /\ s = State /\ Good(s) /\ s.body = body /\ s.manager = manager
                            /\ s.chains = chains /\ (UserIsThere \/ Away(s))
    BY Before
  <1> DEFINE t == Renewed(s, ok)
             o == [t EXCEPT !.chains[c] = Over]
  <1>2. s.chains[c].at = "renew" /\ Become(Settle(t, c)) /\ UNCHANGED <<page, launcher>>
    BY <1>1 DEF RenewDone
  <1>3. /\ t \in States /\ Good(t) /\ (Away(s) => Away(t)) /\ t.body.mounted = s.body.mounted
        /\ \A d \in Taps : t.chains[d].at = s.chains[d].at
    BY <1>1, RenewedKeeps
  <1> HIDE DEF t
  <1>4. Rough(t) /\ t.chains[c].at = "renew"
    BY <1>2, <1>3 DEF Good
  <1>5. t.body.current = c => t.chains[c].asked
    BY <1>4 DEF Rough, Wanted, Preparing
  <1>6. Good(o) /\ o.ghost = t.ghost
    <2>1. /\ o \in States /\ Calm(t, o) /\ o.ghost = t.ghost
          /\ \A d \in Taps : o.chains[d] = IF d = c THEN Over ELSE t.chains[d]
      BY <1>3, OverFields
    <2> HIDE DEF o
    <2> QED BY <1>3, <1>4, <2>1, CalmKeeps
  <1>7. ~ t.ghost.overlap /\ t.manager.permit => Firm(o)
    <2> HIDE DEF o
    <2> QED BY <1>6 DEF Good
  <1>8. /\ Settle(t, c) \in States /\ Good(Settle(t, c)) /\ (Away(t) => Away(Settle(t, c)))
        /\ Settle(t, c).body.mounted = t.body.mounted
    BY <1>3, <1>4, <1>5, <1>7, SettleKeeps
  <1> HIDE DEF o
  <1> QED BY <1>1, <1>2, <1>3, <1>8, Stays

\* The permit of a resume.
LEMMA ResumeDoneKeeps == ASSUME ScreenInv, NEW c \in Taps, NEW ok \in BOOLEAN, ResumeDone(c, ok) PROVE ScreenInv'
  <1>1. PICK s \in States : /\ s = State /\ Good(s) /\ s.body = body /\ s.manager = manager
                            /\ s.chains = chains /\ (UserIsThere \/ Away(s))
    BY Before
  <1> DEFINE r == Renewed(s, ok)
             t == [r EXCEPT !.chains[c] = Over]
             u == [t EXCEPT !.runs[s.body.output] = "running", !.body.shown = "running",
                            !.ghost.unasked = @ \/ ~ s.chains[c].asked]
  <1>2. /\ s.chains[c].at = "resume" /\ UNCHANGED <<page, launcher>>
        /\ ok => s.manager.claim /\ ~ s.chains[c].void
        /\ Become(IF ok /\ RunState(t) \in {"paused", "interrupted"} THEN u ELSE t)
    BY <1>1 DEF ResumeDone
  <1>3. /\ r \in States /\ Good(r) /\ (Away(s) => Away(r)) /\ r.body.mounted = s.body.mounted
        /\ \A d \in Taps : r.chains[d].at = s.chains[d].at
        /\ ok => r.body = s.body
    BY <1>1, RenewedKeeps
  <1> HIDE DEF r
  <1>4. /\ t \in States /\ Calm(r, t) /\ t.body = r.body /\ t.manager = r.manager
        /\ \A d \in Taps : t.chains[d] = IF d = c THEN Over ELSE r.chains[d]
    BY <1>3, OverFields
  <1> HIDE DEF t
  <1>5. Good(t) /\ (Away(s) => Away(t))
    <2>1. Good(t)
      BY <1>2, <1>3, <1>4, CalmKeeps
    <2> QED BY <1>3, <1>4, <2>1 DEF Away
  <1>6. CASE ok /\ RunState(t) \in {"paused", "interrupted"}
    <2>1. UserIsThere
      BY <1>1, <1>2, <1>6 DEF Away
    <2>2. t.body.output # Nobody /\ t.body.output = s.body.output
      BY <1>3, <1>4, <1>6 DEF RunState
    <2>3. s.chains[c].asked /\ s.chains[c].asked \in BOOLEAN
      <3>1. s.chains[c] \in Chains
        BY StateFields
      <3> QED BY <1>1, <1>2, <1>6, <3>1 DEF Good, Rough, Wanted, Chains
    <2>4. PICK a \in BOOLEAN : a = s.chains[c].asked
      BY <2>3
    <2>5. u = [t EXCEPT !.runs[t.body.output] = "running", !.body.shown = "running", !.ghost.unasked = @ \/ ~ a]
      BY <2>2, <2>4
    <2>6. a
      BY <2>3, <2>4
    <2> HIDE DEF u
    <2>7. u \in States /\ Good(u) /\ u.body.mounted = t.body.mounted
      BY <1>4, <1>5, <2>2, <2>5, <2>6, StartKeeps
    <2> QED BY <1>1, <1>2, <1>3, <1>4, <1>6, <2>1, <2>7, Stays
  <1>7. CASE ~ (ok /\ RunState(t) \in {"paused", "interrupted"})
    <2> HIDE DEF u
    <2> QED BY <1>1, <1>2, <1>3, <1>4, <1>5, <1>7, Stays
  <1> QED BY <1>6, <1>7

-----------------------------------------------------------------------------
(* What the transport and the page's output report *)

\* A run that runs no more, whichever it is.
LEMMA ReportKeeps ==
    ASSUME NEW s \in States, Good(s), NEW c \in Taps, s.runs[c] = "running", NEW state \in {"stopped", "waiting"}
    PROVE  LET t == Reported([s EXCEPT !.runs[c] = state], state) IN
           /\ t \in States /\ Good(t) /\ (Away(s) => Away(t)) /\ t.body.mounted = s.body.mounted
  <1> DEFINE u == [s EXCEPT !.runs[c] = state]
             t == Reported(u, state)
  <1>1. state \in RunStates /\ state # "running"
    BY DEF RunStates
  <1>2. PICK r : r = [s.runs EXCEPT ![c] = state]
    OBVIOUS
  <1>3. r \in [Taps -> RunStates] /\ \A d \in Taps : r[d] = IF d = c THEN state ELSE s.runs[d]
    BY <1>1, <1>2, StateFields
  <1>4. u = [s EXCEPT !.runs = r]
    BY <1>2
  <1> HIDE DEF u
  <1>5. /\ u \in States /\ u.body = s.body /\ u.manager = s.manager /\ u.chains = s.chains /\ u.ghost = s.ghost
        /\ u.runs = r
    BY <1>3, <1>4 DEF States
  <1>6. /\ t \in States /\ t.manager = u.manager /\ t.runs = u.runs /\ t.chains = u.chains /\ t.ghost = u.ghost
        /\ t.body.mounted = u.body.mounted /\ t.body.current = u.body.current
        /\ t.body.asking = u.body.asking /\ t.body.lease = u.body.lease
        /\ t.body.output = u.body.output /\ t.body.shown = state
    BY <1>1, <1>5, ReportedFields
  <1> HIDE DEF t
  <1>7. Wanted(s) => Wanted(t)
    BY <1>5, <1>6 DEF Wanted
  <1>8. Loose(s) => Loose(t)
    BY <1>1, <1>3, <1>5, <1>6 DEF Loose
  <1>9. Firm(s) => Firm(t)
    BY <1>5, <1>6 DEF Firm
  <1> QED BY <1>5, <1>6, <1>7, <1>8, <1>9 DEF t, u, Good, Rough, Away

\* A run ends, or waits at a fermata.
LEMMA EndsKeeps == ASSUME ScreenInv, NEW c \in Taps, Ends(c) \/ Holds(c) PROVE ScreenInv'
  <1>1. PICK s \in States : s = State /\ Good(s) /\ s.body = body /\ s.runs = runs /\ (UserIsThere \/ Away(s))
    BY Before
  <1>2. PICK state \in {"stopped", "waiting"} :
          /\ s.runs[c] = "running" /\ UNCHANGED <<page, launcher>>
          /\ Become(Reported([s EXCEPT !.runs[c] = state], state))
    BY <1>1 DEF Ends, Holds
  <1> DEFINE t == Reported([s EXCEPT !.runs[c] = state], state)
  <1>3. t \in States /\ Good(t) /\ (Away(s) => Away(t)) /\ t.body.mounted = s.body.mounted
    BY <1>1, <1>2, ReportKeeps
  <1>4. Become(t)
    BY <1>2
  <1> HIDE DEF t
  <1> QED BY <1>1, <1>2, <1>3, <1>4, Stays

\* The timer of a stopped run is off.
LEMMA IdleOff ==
    ASSUME NEW s \in States
    PROVE  LET t == [s EXCEPT !.body.idle = FALSE] IN
           /\ t \in States /\ (Good(s) => Good(t)) /\ (Away(s) => Away(t)) /\ t.body.mounted = s.body.mounted
  <1> DEFINE t == [s EXCEPT !.body.idle = FALSE]
  <1>1. /\ t \in States /\ t.manager = s.manager /\ t.runs = s.runs /\ t.chains = s.chains /\ t.ghost = s.ghost
        /\ t.body.mounted = s.body.mounted /\ t.body.current = s.body.current /\ t.body.asking = s.body.asking
        /\ t.body.lease = s.body.lease /\ t.body.output = s.body.output /\ t.body.shown = s.body.shown
    BY DEF States, Bodies
  <1> HIDE DEF t
  <1>2. Calm(s, t)
    BY <1>1 DEF Calm
  <1>3. Good(s) => Good(t)
    BY <1>1, <1>2, CalmKeeps
  <1> QED BY <1>1, <1>3 DEF t, Away

\* A stopped run gives its output back.
LEMMA IdleKeeps == ASSUME ScreenInv, Idle PROVE ScreenInv'
  <1>1. PICK s \in States : s = State /\ Good(s) /\ s.body = body /\ (UserIsThere \/ Away(s))
    BY Before
  <1> DEFINE t == [s EXCEPT !.body.idle = FALSE]
             r == Release(t)
             u == [r EXCEPT !.body.idle = FALSE]
  <1>2. (Become(t) \/ Become(u)) /\ UNCHANGED <<page, launcher>>
    BY <1>1 DEF Idle
  <1>3. t \in States /\ Good(t) /\ (Away(s) => Away(t)) /\ t.body.mounted = s.body.mounted
    BY <1>1, IdleOff
  <1> HIDE DEF t
  <1>4. r \in States /\ Good(r) /\ (Away(t) => Away(r)) /\ r.body.mounted = t.body.mounted
    BY <1>3, ReleaseKeeps, ReleaseFields DEF Good
  <1> HIDE DEF r
  <1>5. u \in States /\ Good(u) /\ (Away(r) => Away(u)) /\ u.body.mounted = r.body.mounted
    BY <1>4, IdleOff
  <1> HIDE DEF u
  <1> QED BY <1>1, <1>2, <1>3, <1>4, <1>5, Stays

\* Without a lease the manager drops the claim.
LEMMA ManagerIdleKeeps == ASSUME ScreenInv, ManagerIdle PROVE ScreenInv'
  <1>1. PICK s \in States : s = State /\ Good(s) /\ s.body = body /\ s.manager = manager /\ (UserIsThere \/ Away(s))
    BY Before
  <1> DEFINE t == Drop(s)
  <1>2. s.manager.leases = {} /\ Become(t) /\ UNCHANGED <<page, launcher>>
    BY <1>1 DEF ManagerIdle
  <1>3. ~ s.ghost.overlap => s.body.lease = Nobody
    BY <1>1, <1>2 DEF Good, Firm
  <1>4. /\ t \in States /\ Good(t) /\ t.body = s.body
        /\ t.manager.leases = {} /\ t.manager.context = "none" /\ ~ t.manager.claim
    BY <1>1, <1>3, DropKeeps
  <1> HIDE DEF t
  <1>5. Away(s) => Away(t)
    BY <1>4 DEF Away
  <1> QED BY <1>1, <1>2, <1>4, <1>5, Stays

\* Another tab took the claim.
LEMMA ClaimLostKeeps == ASSUME ScreenInv, ClaimLost PROVE ScreenInv'
  <1>1. PICK s \in States : s = State /\ Good(s) /\ s.body = body /\ s.manager = manager /\ (UserIsThere \/ Away(s))
    BY Before
  <1> DEFINE u == [s EXCEPT !.manager.claim = FALSE, !.manager.context = IF @ = "none" THEN @ ELSE "suspended"]
             r == RevokeAll(u)
             t == [r EXCEPT !.body.claim = "none"]
             i == Interrupt(t)
  <1>2. s.manager.claim /\ Become(i) /\ UNCHANGED <<page, launcher>>
    BY <1>1 DEF ClaimLost
  <1>3. PICK m : m = [s.manager EXCEPT !.claim = FALSE, !.context = IF @ = "none" THEN @ ELSE "suspended"]
    OBVIOUS
  <1>4. m \in Managers /\ m.leases = s.manager.leases /\ m.permit = s.manager.permit
    BY <1>3, StateFields DEF Managers
  <1>5. u = [s EXCEPT !.manager = m]
    BY <1>3 DEF States
  <1> HIDE DEF u
  <1>6. /\ u \in States /\ u.body = s.body /\ u.manager = m
        /\ u.runs = s.runs /\ u.chains = s.chains /\ u.ghost = s.ghost
    BY <1>4, <1>5 DEF States
  <1>7. Calm(s, u)
    BY <1>4, <1>6 DEF Calm
  <1>8. Good(u)
    BY <1>1, <1>6, <1>7, CalmKeeps
  <1>9. r \in States /\ r.body.mounted = u.body.mounted /\ Good(r)
    BY <1>6, <1>8, RevokeAllKeeps
  <1> HIDE DEF r
  <1>10. /\ t \in States /\ t.manager = r.manager /\ t.runs = r.runs /\ t.chains = r.chains /\ t.ghost = r.ghost
         /\ t.body.mounted = r.body.mounted /\ t.body.current = r.body.current
         /\ t.body.lease = r.body.lease /\ t.body.output = r.body.output /\ t.body.shown = r.body.shown
    BY <1>9 DEF States, Bodies
  <1> HIDE DEF t
  <1>11. Calm(r, t)
    BY <1>10 DEF Calm
  <1>12. Good(t)
    BY <1>9, <1>10, <1>11, CalmKeeps
  <1>13. i \in States /\ i.body.mounted = t.body.mounted /\ Good(i)
    BY <1>10, <1>12, InterruptKeeps
  <1>14. UserIsThere
    BY <1>1, <1>2 DEF Away
  <1> HIDE DEF i
  <1> QED BY <1>1, <1>2, <1>6, <1>9, <1>10, <1>13, <1>14, Stays

\* The context stopped.
LEMMA ContextInterruptedKeeps == ASSUME ScreenInv, ContextInterrupted PROVE ScreenInv'
  <1>1. PICK s \in States : s = State /\ Good(s) /\ s.body = body /\ s.manager = manager /\ (UserIsThere \/ Away(s))
    BY Before
  <1> DEFINE u == [s EXCEPT !.manager.context = "suspended"]
             r == RevokeAll(u)
  <1>2. s.manager.context = "running" /\ Become(r) /\ UNCHANGED <<page, launcher>>
    BY <1>1 DEF ContextInterrupted
  <1>3. /\ u \in States /\ u.body = s.body /\ u.runs = s.runs /\ u.chains = s.chains /\ u.ghost = s.ghost
        /\ u.manager.leases = s.manager.leases /\ u.manager.permit = s.manager.permit
    BY DEF States, Managers
  <1> HIDE DEF u
  <1>4. Calm(s, u)
    BY <1>3 DEF Calm
  <1>5. Good(u)
    BY <1>1, <1>3, <1>4, CalmKeeps
  <1>6. r \in States /\ r.body.mounted = u.body.mounted /\ Good(r)
    BY <1>3, <1>5, RevokeAllKeeps
  <1>7. UserIsThere
    BY <1>1, <1>2 DEF Away
  <1> HIDE DEF r
  <1> QED BY <1>1, <1>2, <1>3, <1>6, <1>7, Stays

\* The claim this tab waited for.
LEMMA ReadyKeeps == ASSUME ScreenInv, Ready PROVE ScreenInv'
  <1>1. PICK s \in States : s = State /\ Good(s) /\ s.body = body /\ s.manager = manager
    BY Before
  <1> DEFINE t == [s EXCEPT !.manager.claim = TRUE, !.body.claim = "held"]
  <1>2. body.mounted /\ page.visible /\ Become(t) /\ UNCHANGED <<page, launcher>>
    BY <1>1 DEF Ready
  <1>3. /\ t \in States /\ t.runs = s.runs /\ t.chains = s.chains /\ t.ghost = s.ghost
        /\ t.manager.leases = s.manager.leases /\ t.manager.permit = s.manager.permit
        /\ t.body.mounted = s.body.mounted /\ t.body.current = s.body.current
        /\ t.body.lease = s.body.lease /\ t.body.output = s.body.output /\ t.body.shown = s.body.shown
    BY DEF States, Managers, Bodies
  <1> HIDE DEF t
  <1>4. Calm(s, t)
    BY <1>3 DEF Calm
  <1>5. Good(t)
    BY <1>1, <1>3, <1>4, CalmKeeps
  <1>6. UserIsThere
    BY <1>2, Before DEF UserIsThere
  <1> QED BY <1>1, <1>2, <1>3, <1>5, <1>6, Stays

-----------------------------------------------------------------------------
(* The launcher: entering, leaving, hiding *)

\* The screen is mounted on a page that shows it.
LEMMA MountedFields ==
    ASSUME ScreenInv, NEW b, b = Mounted(body)
    PROVE  LET t == [State EXCEPT !.body = b] IN
           /\ t \in States /\ Good(t) /\ t.body = b
           /\ b.mounted
           /\ t.manager = manager /\ t.runs = runs /\ t.chains = chains /\ t.ghost = ghost
  <1>1. PICK s \in States : /\ s = State /\ Good(s) /\ s.body = body /\ s.manager = manager
                            /\ s.runs = runs /\ s.chains = chains /\ s.ghost = ghost
    BY Before
  <1> DEFINE sh == IF body.output = Nobody THEN "stopped" ELSE runs[body.output]
  <1>2. sh \in RunStates /\ (sh = "running" => RunState(s) = "running")
    BY <1>1, StateFields DEF RunState, RunStates
  <1>3. PICK x : x = sh
    OBVIOUS
  <1> HIDE DEF sh
  <1>4. PICK u : u = [s.body EXCEPT !.mounted = TRUE, !.shown = x]
    OBVIOUS
  <1>5. /\ u \in Bodies /\ u.mounted /\ u.current = s.body.current
        /\ u.lease = s.body.lease /\ u.output = s.body.output /\ u.shown = x
    BY <1>2, <1>3, <1>4, StateFields DEF Bodies
  <1>6. Mounted(body) = Asked(u)
    BY <1>1, <1>3, <1>4 DEF Mounted, sh
  <1>7. /\ b \in Bodies /\ b.mounted /\ b.current = u.current
        /\ b.lease = u.lease /\ b.output = u.output /\ b.shown = u.shown
    <2>1. \/ b = [u EXCEPT !.claim = "held"]
          \/ b = [u EXCEPT !.claim = "pending", !.asking = "claim"]
      BY <1>6 DEF Asked
    <2>2. CASE b = [u EXCEPT !.claim = "held"]
      BY <1>5, <2>2 DEF Bodies
    <2>3. CASE b = [u EXCEPT !.claim = "pending", !.asking = "claim"]
      BY <1>5, <2>3 DEF Bodies
    <2> QED BY <2>1, <2>2, <2>3
  <1> DEFINE t == [s EXCEPT !.body = b]
  <1>8. /\ t \in States /\ t.body = b /\ t.manager = s.manager
        /\ t.runs = s.runs /\ t.chains = s.chains /\ t.ghost = s.ghost
    BY <1>7 DEF States
  <1> HIDE DEF t
  <1>9. Calm(s, t)
    BY <1>2, <1>3, <1>5, <1>7, <1>8 DEF Calm
  <1>10. Good(t)
    BY <1>1, <1>8, <1>9, CalmKeeps
  <1> QED BY <1>1, <1>7, <1>8, <1>10 DEF t

\* A step that leaves the body and what it uses alone.
LEMMA AloneBecomes ==
    ASSUME ScreenInv, UNCHANGED <<body, manager, runs, chains, ghost>>
    PROVE  Become(State) /\ State \in States /\ Good(State) /\ State.body = body
  BY Before DEF Become

\* The screen is opened, and mounted if its scripts are there.
LEMMA EnterKeeps == ASSUME ScreenInv, Enter PROVE ScreenInv'
  <1>1. /\ page \in Shows /\ launcher \in Launchers /\ (launcher.suspended => ~ page.visible)
        /\ page.visible /\ (UserIsThere \/ Away(State)) /\ body.mounted \in BOOLEAN
    BY Before, StateFields DEF Enter
  <1>2. page' \in Shows /\ page'.visible /\ page'.opened
    BY <1>1 DEF Enter, Shows
  <1>3. launcher' \in Launchers /\ ~ launcher'.suspended
    BY <1>1 DEF Enter, Launchers
  <1>4. CASE body.mounted \/ ~ launcher.loaded
    <2>1. UNCHANGED <<body, manager, runs, chains, ghost>>
      BY <1>4 DEF Enter
    <2>2. Become(State) /\ State \in States /\ Good(State) /\ State.body = body
      BY <2>1, AloneBecomes
    <2>3. body.mounted \/ Away(State)
      BY <1>1 DEF UserIsThere
    <2> QED BY <1>2, <1>3, <2>2, <2>3, Arrives
  <1>5. CASE ~ (body.mounted \/ ~ launcher.loaded)
    <2>1. PICK b : b = Mounted(body)
      OBVIOUS
    <2> DEFINE t == [State EXCEPT !.body = b]
    <2>2. /\ t \in States /\ Good(t) /\ t.body = b /\ b.mounted
          /\ t.manager = manager /\ t.runs = runs /\ t.chains = chains /\ t.ghost = ghost
      BY <2>1, MountedFields
    <2> HIDE DEF t
    <2>3. Become(t)
      BY <1>5, <2>1, <2>2 DEF Enter, Become
    <2> QED BY <1>2, <1>3, <2>2, <2>3, Arrives
  <1> QED BY <1>4, <1>5

\* The scripts arrive.
LEMMA LoadedKeeps == ASSUME ScreenInv, Loaded PROVE ScreenInv'
  <1>1. /\ page \in Shows /\ launcher \in Launchers /\ (launcher.suspended => ~ page.visible)
        /\ (body.mounted => page.opened) /\ page' = page /\ (UserIsThere \/ Away(State))
    BY Before DEF Loaded
  <1>2. launcher' \in Launchers /\ launcher'.suspended = launcher.suspended
    BY <1>1 DEF Loaded, Launchers
  <1>3. CASE launcher.waiting /\ page.visible /\ page.opened
    <2>1. PICK b : b = Mounted(body)
      OBVIOUS
    <2> DEFINE t == [State EXCEPT !.body = b]
    <2>2. /\ t \in States /\ Good(t) /\ t.body = b /\ b.mounted
          /\ t.manager = manager /\ t.runs = runs /\ t.chains = chains /\ t.ghost = ghost
      BY <2>1, MountedFields
    <2> HIDE DEF t
    <2>3. Become(t)
      BY <1>3, <2>1, <2>2 DEF Loaded, Become
    <2> QED BY <1>1, <1>2, <1>3, <2>2, <2>3, Arrives
  <1>4. CASE ~ (launcher.waiting /\ page.visible /\ page.opened)
    <2>1. UNCHANGED <<body, manager, runs, chains, ghost>>
      BY <1>4 DEF Loaded
    <2>2. Become(State) /\ State \in States /\ Good(State) /\ State.body = body
      BY <2>1, AloneBecomes
    <2> QED BY <1>1, <1>2, <2>2, Arrives DEF UserIsThere
  <1> QED BY <1>3, <1>4

\* They do not.
LEMMA LoadFailedKeeps == ASSUME ScreenInv, LoadFailed PROVE ScreenInv'
  <1>1. /\ page \in Shows /\ launcher \in Launchers /\ (launcher.suspended => ~ page.visible)
        /\ (body.mounted => page.opened) /\ page' = page /\ (UserIsThere \/ Away(State))
    BY Before DEF LoadFailed
  <1>2. launcher' \in Launchers /\ launcher'.suspended = launcher.suspended
    BY <1>1 DEF LoadFailed, Launchers
  <1>3. Become(State) /\ State \in States /\ Good(State) /\ State.body = body
    BY AloneBecomes DEF LoadFailed
  <1> QED BY <1>1, <1>2, <1>3, Arrives DEF UserIsThere

\* The user leaves.
LEMMA LeaveKeeps == ASSUME ScreenInv, Leave PROVE ScreenInv'
  <1>1. PICK s \in States : /\ s = State /\ Good(s) /\ s.body = body /\ (UserIsThere \/ Away(s))
                            /\ page \in Shows /\ launcher \in Launchers
    BY Before
  <1>2. page' \in Shows /\ ~ page'.opened
    BY <1>1 DEF Leave, Shows
  <1>3. launcher' \in Launchers /\ ~ launcher'.suspended
    BY <1>1 DEF Leave, Launchers
  <1>4. CASE body.mounted
    <2> DEFINE u == [s EXCEPT !.body.current = Nobody]
               r == Release(u)
               d == Drop(r)
               t == [d EXCEPT !.body.mounted = FALSE, !.body.claim = "none", !.body.asking = "no"]
               f == Forgotten(t)
    <2>1. Become(f)
      BY <1>1, <1>4 DEF Leave
    <2>2. /\ u \in States /\ u.manager = s.manager /\ u.runs = s.runs /\ u.chains = s.chains /\ u.ghost = s.ghost
          /\ u.body.current = Nobody
          /\ u.body.lease = s.body.lease /\ u.body.output = s.body.output /\ u.body.shown = s.body.shown
      BY DEF States, Bodies
    <2> HIDE DEF u
    <2>3. Calm(s, u)
      BY <2>2 DEF Calm
    <2>4. Rough(u)
      BY <1>1, <2>2, <2>3, CalmKeeps DEF Good
    <2>5. r \in States /\ Good(r) /\ r.body.current = Nobody /\ r.body.lease = Nobody
      BY <2>2, <2>4, ReleaseKeeps, ReleaseFields
    <2> HIDE DEF r
    <2>6. /\ d \in States /\ d.body = r.body /\ d.chains = Voided(r.chains) /\ Good(d)
          /\ d.manager.leases = {} /\ d.manager.context = "none" /\ ~ d.manager.claim
      BY <2>5, DropKeeps
    <2>7. \A c \in Taps : d.chains[c].at = "resume" => d.chains[c].void
      BY <2>5, <2>6, StateFields, VoidedFields
    <2> HIDE DEF d
    <2>8. /\ t \in States /\ t.manager = d.manager /\ t.runs = d.runs /\ t.chains = d.chains /\ t.ghost = d.ghost
          /\ t.body.current = d.body.current /\ t.body.asking = "no" /\ ~ t.body.mounted
          /\ t.body.lease = d.body.lease /\ t.body.output = d.body.output /\ t.body.shown = d.body.shown
      <3>1. PICK b : b = [d.body EXCEPT !.mounted = FALSE, !.claim = "none", !.asking = "no"]
        OBVIOUS
      <3>2. d.body \in Bodies
        BY <2>6, StateFields
      <3>3. /\ b \in Bodies /\ ~ b.mounted /\ b.current = d.body.current /\ b.asking = "no"
            /\ b.lease = d.body.lease /\ b.output = d.body.output /\ b.shown = d.body.shown
        BY <3>1, <3>2 DEF Bodies
      <3>4. t = [d EXCEPT !.body = b]
        BY <3>1
      <3> HIDE DEF t
      <3> QED BY <2>6, <3>3, <3>4 DEF States
    <2> HIDE DEF t
    <2>9. Calm(d, t)
      BY <2>8 DEF Calm
    <2>10. Good(t)
      BY <2>6, <2>8, <2>9, CalmKeeps
    <2>11. f \in States /\ Good(f) /\ f.body = t.body /\ f.manager = t.manager
      BY <2>5, <2>6, <2>7, <2>8, <2>10, ForgottenKeeps
    <2> HIDE DEF f
    <2>12. Away(f)
      BY <2>5, <2>6, <2>8, <2>11 DEF Away
    <2> QED BY <1>2, <1>3, <2>1, <2>8, <2>11, <2>12, Arrives
  <1>5. CASE ~ body.mounted
    <2>1. UNCHANGED <<body, manager, runs, chains, ghost>>
      BY <1>5 DEF Leave
    <2>2. Become(State) /\ State \in States /\ Good(State) /\ State.body = body
      BY <2>1, AloneBecomes
    <2>3. Away(State)
      BY <1>1, <1>5 DEF UserIsThere
    <2> QED BY <1>2, <1>3, <1>5, <2>2, <2>3, Arrives
  <1> QED BY <1>4, <1>5

\* The page is hidden.
LEMMA HideKeeps == ASSUME ScreenInv, Hide PROVE ScreenInv'
  <1>1. PICK s \in States : /\ s = State /\ Good(s) /\ s.body = body /\ (UserIsThere \/ Away(s))
                            /\ page \in Shows /\ launcher \in Launchers
                            /\ (launcher.suspended => ~ page.visible) /\ (body.mounted => page.opened)
    BY Before
  <1>2. page' \in Shows /\ ~ page'.visible /\ page'.opened = page.opened /\ page.visible
    BY <1>1 DEF Hide, Shows
  <1>3. launcher' \in Launchers
    BY <1>1 DEF Hide, Launchers
  <1>4. CASE body.mounted /\ ~ launcher.suspended
    <2> DEFINE t == Suspended(s)
               f == Forgotten(t)
    <2>1. Become(f)
      BY <1>1, <1>4 DEF Hide
    <2>2. /\ t \in States /\ Good(t) /\ Away(t) /\ t.body.mounted = s.body.mounted
          /\ \A c \in Taps : t.chains[c].at = "resume" => t.chains[c].void
      BY <1>1, SuspendedKeeps
    <2> HIDE DEF t
    <2>3. f \in States /\ Good(f) /\ f.body = t.body /\ f.manager = t.manager
      BY <2>2, ForgottenKeeps DEF Away
    <2> HIDE DEF f
    <2>4. Away(f)
      BY <2>2, <2>3 DEF Away
    <2> QED BY <1>1, <1>2, <1>3, <2>1, <2>2, <2>3, <2>4, Arrives
  <1>5. CASE ~ (body.mounted /\ ~ launcher.suspended)
    <2>1. UNCHANGED <<launcher, body, manager, runs, chains, ghost>>
      BY <1>5 DEF Hide
    <2>2. Become(State) /\ State \in States /\ Good(State) /\ State.body = body
      BY <2>1, AloneBecomes
    <2>3. Away(State)
      BY <1>1, <1>2, <1>5 DEF UserIsThere
    <2> QED BY <1>1, <1>2, <1>3, <2>2, <2>3, Arrives
  <1> QED BY <1>4, <1>5

\* The page is visible again.
LEMMA ShowKeeps == ASSUME ScreenInv, Show PROVE ScreenInv'
  <1>1. PICK s \in States : /\ s = State /\ Good(s) /\ s.body = body /\ s.manager = manager
                            /\ s.runs = runs /\ s.chains = chains /\ s.ghost = ghost
                            /\ (UserIsThere \/ Away(s)) /\ page \in Shows /\ launcher \in Launchers
                            /\ (body.mounted => page.opened)
    BY Before
  <1>2. page' \in Shows /\ page'.visible /\ page'.opened = page.opened /\ ~ page.visible
    BY <1>1 DEF Show, Shows
  <1>3. launcher' \in Launchers /\ ~ launcher'.suspended
    BY <1>1 DEF Show, Launchers
  <1>4. PICK b : b = body'
    OBVIOUS
  <1> DEFINE t == [s EXCEPT !.body = b]
  <1>5. CASE launcher.suspended /\ body.mounted /\ page.opened
    <2>1. b = Asked(s.body)
      BY <1>1, <1>4, <1>5 DEF Show
    <2>2. /\ b \in Bodies /\ b.mounted = s.body.mounted /\ b.current = s.body.current
          /\ b.lease = s.body.lease /\ b.output = s.body.output /\ b.shown = s.body.shown
      BY <2>1, StateFields DEF Asked, Bodies
    <2>3. /\ t \in States /\ t.body = b /\ t.manager = s.manager
          /\ t.runs = s.runs /\ t.chains = s.chains /\ t.ghost = s.ghost
      BY <2>2 DEF States
    <2> HIDE DEF t
    <2>4. Calm(s, t)
      BY <2>2, <2>3 DEF Calm
    <2>5. Good(t)
      BY <1>1, <2>3, <2>4, CalmKeeps
    <2>6. Become(t)
      BY <1>1, <1>4, <2>3 DEF Show, Become
    <2> QED BY <1>1, <1>2, <1>3, <1>5, <2>2, <2>3, <2>5, <2>6, Arrives
  <1>6. CASE ~ (launcher.suspended /\ body.mounted /\ page.opened)
    <2>1. UNCHANGED <<body, manager, runs, chains, ghost>>
      BY <1>6 DEF Show
    <2>2. Become(State) /\ State \in States /\ Good(State) /\ State.body = body
      BY <2>1, AloneBecomes
    <2>3. Away(State)
      BY <1>1, <1>2 DEF UserIsThere
    <2> QED BY <1>1, <1>2, <1>3, <2>2, <2>3, Arrives
  <1> QED BY <1>5, <1>6

-----------------------------------------------------------------------------
(* The theorems *)

\* It holds at the start.
LEMMA InitGood == ASSUME Init PROVE ScreenInv
  <1>1. TypeOK
    <2>1. NoChain \in Chains
      BY DEF NoChain, Chains, Stages
    <2>2. chains \in [Taps -> Chains]
      BY <2>1 DEF Init
    <2> QED BY <2>2 DEF Init, TypeOK, RunStates, Chains
  <1>2. State \in States /\ State.body = body /\ State.manager = manager /\ State.runs = runs
        /\ State.chains = chains /\ State.ghost = ghost
    BY <1>1, StateTyped
  <1>3. \A c \in Taps : State.chains[c].at = "idle"
    BY <1>2 DEF Init, NoChain
  <1>4. Wanted(State)
    BY <1>2, <1>3 DEF Init, Wanted, Preparing
  <1>5. Loose(State)
    BY <1>2, <1>3 DEF Init, Loose, Preparing
  <1>6. Firm(State)
    BY <1>2, <1>3 DEF Init, Firm
  <1>7. Away(State)
    BY <1>2 DEF Init, Away
  <1>8. ~ body.mounted /\ ~ launcher.suspended
    BY DEF Init
  <1> QED BY <1>1, <1>4, <1>5, <1>6, <1>7, <1>8 DEF ScreenInv, Good, Rough

\* Every step keeps it.
LEMMA NextKeeps == ASSUME ScreenInv, [Next]_vars PROVE ScreenInv'
  <1>1. CASE UNCHANGED vars
    BY <1>1 DEF vars, ScreenInv, TypeOK, Good, Rough, Wanted, Loose, Firm, Away, State, RunState, UserIsThere
  <1>2. CASE Enter \/ Loaded \/ LoadFailed \/ Leave \/ Hide \/ Show
    BY <1>2, EnterKeeps, LoadedKeeps, LoadFailedKeeps, LeaveKeeps, HideKeeps, ShowKeeps
  <1>3. CASE StopPlayback \/ Pause \/ PauseUnconfirmed \/ ResumeFermata \/ TakeOver
    BY <1>3, StopPlaybackKeeps, PauseKeeps, ResumeFermataKeeps, TakeOverKeeps
  <1>4. CASE Renew \/ Idle \/ ManagerIdle \/ ClaimLost \/ ContextInterrupted \/ Ready
    BY <1>4, RenewKeeps, IdleKeeps, ManagerIdleKeeps, ClaimLostKeeps, ContextInterruptedKeeps, ReadyKeeps
  <1>5. CASE \E answer \in Answers : ScreenAnswered(answer)
    BY <1>5, ScreenAnsweredKeeps
  <1>6. ASSUME NEW c \in Taps,
               \/ Play(c) \/ Resume(c) \/ InitDone(c) \/ InitFailed(c) \/ Ends(c) \/ Holds(c)
               \/ \E answer \in Answers : ClaimAnswered(c, answer)
               \/ \E ok \in BOOLEAN : RenewDone(c, ok) \/ ResumeDone(c, ok)
        PROVE  ScreenInv'
    <2>1. CASE Play(c) \/ Resume(c) \/ InitDone(c) \/ InitFailed(c) \/ Ends(c) \/ Holds(c)
      BY <2>1, PlayKeeps, ResumeKeeps, InitDoneKeeps, InitFailedKeeps, EndsKeeps
    <2>2. CASE \E answer \in Answers : ClaimAnswered(c, answer)
      BY <2>2, ClaimAnsweredKeeps
    <2>3. CASE \E ok \in BOOLEAN : RenewDone(c, ok) \/ ResumeDone(c, ok)
      BY <2>3, RenewDoneKeeps, ResumeDoneKeeps
    <2> QED BY <1>6, <2>1, <2>2, <2>3
  <1> QED BY <1>1, <1>2, <1>3, <1>4, <1>5, <1>6 DEF Next

\* Whatever the order of taps, answers, reports and departures, the body keeps
\* up ScreenInv.
THEOREM ScreenInvariant == Spec => []ScreenInv
  <1>1. Init => ScreenInv
    BY InitGood
  <1>2. ScreenInv /\ [Next]_vars => ScreenInv'
    BY NextKeeps
  <1> QED BY <1>1, <1>2, PTL DEF Spec

\* A promise of play() or of resume that comes back after the user left, hid the page
\* or tapped again starts nothing, and meanwhile the page holds no claim, lease or context.
THEOREM NothingStartsUnasked == Spec => []NothingUnasked
  <1>1. ScreenInv => NothingUnasked
    <2>1. SUFFICES ASSUME ScreenInv
                   PROVE  NothingUnasked
      OBVIOUS
    <2> QED BY <2>1, Before DEF NothingUnasked, Good, Rough, Wanted, Away
  <1> QED BY <1>1, ScreenInvariant, PTL

\* As long as no two taps overlap, a run that is shown as running has the lease
\* and the output of the body, and no other run sounds.
THEOREM RunsHaveOutput == Spec => []RunHasOutput
  <1>1. ScreenInv => RunHasOutput
    <2>1. SUFFICES ASSUME ScreenInv, ~ ghost.overlap
                   PROVE  /\ body.shown = "running" => /\ RunState(State) = "running"
                                                       /\ body.lease = body.output /\ body.lease \in manager.leases
                          /\ \A t \in Taps : Sounds(t) => t = body.output
                          /\ manager.leases \subseteq {body.lease}
      BY DEF RunHasOutput
    <2>2. /\ Loose(State) /\ Firm(State) /\ State.body = body /\ State.manager = manager /\ State.runs = runs
      BY <2>1, Before DEF Good, Rough
    <2>3. body.shown = "running" => RunState(State) = "running" /\ body.output # Nobody
      BY <2>2 DEF Loose, RunState
    <2>4. body.output # Nobody => body.lease = body.output /\ body.lease \in manager.leases
      BY <2>2 DEF Firm
    <2>5. /\ \A t \in Taps : Sounds(t) => t = body.output
          /\ manager.leases \subseteq {body.lease}
      BY <2>2 DEF Loose, Sounds
    <2> QED BY <2>3, <2>4, <2>5
  <1> QED BY <1>1, ScreenInvariant, PTL

-----------------------------------------------------------------------------
(* The settings of the metronome while it plays *)

\* The editor of the settings with the transport.
Editors ==
    [draft : Edits!Drafts, applied : Edits!Drafts \cup {Nobody}, revision : Nat, starting : Edits!Drafts \cup {Nobody}]
Transports ==
    [there : BOOLEAN, state : Edits!RunStates, generation : Nat, plays : Edits!Drafts]
EditRecord == [setting : Edits!Drafts, revision : Nat, generation : Nat, sent : BOOLEAN]

\* While changes and starts come one at a time: an edit on its way is of the setting and the
\* revision the editor shows, what starts is what it shows, and what was last accepted is what
\* a run plays.
OneAtATime(ed, tr, es) ==
    /\ Len(es) <= 1
    /\ es # <<>> => ed.starting = Nobody /\ ~ told /\ es[1].setting = ed.draft /\ es[1].revision = ed.revision
    /\ ed.starting # Nobody => ed.starting = ed.draft
    /\ tr.state # "stopped" => tr.there /\ ed.applied = tr.plays
    /\ tr.state # "stopped" /\ es = <<>> /\ ~ told => tr.plays = ed.draft

EditInv ==
    /\ editor \in Editors /\ transport \in Transports /\ edits \in Seq(EditRecord)
    /\ told \in BOOLEAN /\ apart \in BOOLEAN
    /\ ~ apart => OneAtATime(editor, transport, edits)

\* At the start nothing runs and nothing is on its way.
LEMMA EditInitHolds ==
    ASSUME Edits!Init
    PROVE  EditInv
  <1> PICK s \in Settings :
         /\ editor = [draft |-> s, applied |-> Nobody, revision |-> 1, starting |-> Nobody]
         /\ transport = [there |-> FALSE, state |-> "stopped", generation |-> 0, plays |-> s]
    BY DEF Edits!Init
  <1>1. editor \in Editors /\ transport \in Transports
    BY DEF Editors, Transports, Edits!Drafts, Edits!RunStates
  <1>2. edits = <<>> /\ told \in BOOLEAN /\ ~ told /\ apart \in BOOLEAN
    BY DEF Edits!Init
  <1>3. edits \in Seq(EditRecord) /\ Len(edits) <= 1
    <2>1. <<>> \in Seq(EditRecord) /\ Len(<<>>) <= 1
      OBVIOUS
    <2> QED BY <1>2, <2>1
  <1>4. editor.starting = Nobody /\ transport.state = "stopped"
    OBVIOUS
  <1> QED BY <1>1, <1>2, <1>3, <1>4 DEF EditInv, OneAtATime

\* The editor that shows what was accepted, and that takes what it shows as accepted.
LEMMA EditorTypes ==
    ASSUME NEW ed \in Editors
    PROVE  /\ Edits!Restored(ed) \in Editors
           /\ Edits!Restored(ed).draft = (IF ed.applied = Nobody THEN ed.draft ELSE ed.applied)
           /\ Edits!Restored(ed).applied = ed.applied /\ Edits!Restored(ed).starting = ed.starting
           /\ Edits!Restored(ed).revision = ed.revision
           /\ Edits!Remembered(ed) \in Editors
           /\ Edits!Remembered(ed).draft = ed.draft /\ Edits!Remembered(ed).applied = ed.draft
           /\ Edits!Remembered(ed).starting = ed.starting /\ Edits!Remembered(ed).revision = ed.revision
  BY DEF Editors, Edits!Restored, Edits!Remembered

\* A transport in another state.
Moved(tr, next, n) == [tr EXCEPT !.state = next, !.generation = n]

\* Nothing else of it changes.
LEMMA MovedTypes ==
    ASSUME NEW tr \in Transports, NEW next \in Edits!RunStates, NEW n \in Nat,
           NEW new, new = Moved(tr, next, n)
    PROVE  new \in Transports /\ new.there = tr.there /\ new.plays = tr.plays /\ new.state = next
  <1> DEFINE mid == [tr EXCEPT !.state = next]
  <1>1. mid \in Transports /\ mid.there = tr.there /\ mid.plays = tr.plays /\ mid.state = next
    BY DEF Transports
  <1>2. new = [mid EXCEPT !.generation = n]
    BY DEF Moved
  <1> HIDE DEF mid
  <1> QED BY <1>1, <1>2 DEF Transports

\* What an answer makes of the editor.
LEMMA AnsweredTypes ==
    ASSUME NEW ed \in Editors, NEW e \in EditRecord, NEW outcome
    PROVE  /\ Edits!Answered(ed, e, outcome) \in Editors
           /\ Edits!Answered(ed, e, outcome).starting = ed.starting
           /\ outcome = "applied" => /\ Edits!Answered(ed, e, outcome).draft = ed.draft
                                     /\ Edits!Answered(ed, e, outcome).applied = ed.draft
           /\ outcome # "applied" => Edits!Answered(ed, e, outcome).applied = ed.applied
           /\ outcome = "stale" /\ e.revision = ed.revision /\ ed.applied # Nobody
                => Edits!Answered(ed, e, outcome).draft = ed.applied
           /\ outcome \notin {"applied", "stale"} => Edits!Answered(ed, e, outcome) = ed
  <1>1. CASE outcome = "applied"
    BY <1>1, EditorTypes DEF Edits!Answered
  <1>2. CASE outcome = "stale"
    BY <1>2, EditorTypes DEF Edits!Answered
  <1>3. CASE outcome \notin {"applied", "stale"}
    BY <1>3 DEF Edits!Answered
  <1> QED BY <1>1, <1>2, <1>3

\* A handler of the editor changes the draft.
LEMMA ChangeKeeps ==
    ASSUME EditInv, NEW s \in Edits!Drafts, NEW refused \in BOOLEAN, Edits!Change(s, refused)
    PROVE  EditInv'
  <1> DEFINE next == [editor EXCEPT !.draft = s]
             accepted == [next EXCEPT !.revision = @ + 1]
             e == [setting |-> s, revision |-> accepted.revision, generation |-> transport.generation,
                   sent |-> FALSE]
  <1>1. /\ next \in Editors /\ next.draft = s /\ next.applied = editor.applied
        /\ next.starting = editor.starting
        /\ accepted \in Editors /\ accepted.draft = s /\ accepted.applied = editor.applied
        /\ accepted.starting = editor.starting
        /\ e \in EditRecord /\ e.setting = s /\ e.revision = accepted.revision
    <2>1. editor \in Editors /\ transport.generation \in Nat
      BY DEF EditInv, Transports
    <2>2. /\ next \in Editors /\ next.draft = s /\ next.applied = editor.applied
          /\ next.starting = editor.starting
      BY <2>1 DEF Editors
    <2>3. next.revision \in Nat
      BY <2>2 DEF Editors
    <2> HIDE DEF next
    <2>4. /\ accepted \in Editors /\ accepted.draft = s /\ accepted.applied = editor.applied
          /\ accepted.starting = editor.starting
      BY <2>2, <2>3 DEF Editors
    <2>5. accepted.revision \in Nat
      BY <2>4 DEF Editors
    <2> HIDE DEF accepted
    <2> QED BY <2>1, <2>2, <2>4, <2>5 DEF EditRecord
  <1>2. apart' \in BOOLEAN /\ (~ apart' => ~ apart /\ editor.starting = Nobody /\ edits = <<>>)
    BY DEF Edits!Change, EditInv
  <1> HIDE DEF next, accepted, e
  <1>3. \/ editor' \in {next, Edits!Restored(next)} /\ told' = TRUE /\ UNCHANGED <<transport, edits>>
        \/ editor' = accepted /\ edits' = Append(edits, e) /\ told' = FALSE /\ UNCHANGED transport
        \/ editor' = Edits!Remembered(accepted) /\ told' = FALSE /\ ~ transport.there /\ UNCHANGED <<transport, edits>>
    BY DEF Edits!Change, next, accepted, e
  <1>4. CASE editor' \in {next, Edits!Restored(next)} /\ told' = TRUE /\ UNCHANGED <<transport, edits>>
    <2>1. editor' \in Editors /\ editor'.applied = editor.applied /\ editor'.starting = editor.starting
      BY <1>1, <1>4, EditorTypes
    <2> QED BY <2>1, <1>2, <1>4 DEF EditInv, OneAtATime
  <1>5. CASE editor' = accepted /\ edits' = Append(edits, e) /\ told' = FALSE /\ UNCHANGED transport
    <2>1. edits' \in Seq(EditRecord) /\ edits' # <<>>
      BY <1>1, <1>5 DEF EditInv
    <2>2. ASSUME ~ apart' PROVE edits'[1] = e /\ Len(edits') = 1
      <3>1. edits' = Append(<<>>, e)
        BY <1>2, <1>5, <2>2
      <3> QED BY <3>1
    <2>3. editor' \in Editors /\ transport' \in Transports /\ told' \in BOOLEAN
      BY <1>1, <1>5 DEF EditInv
    <2>4. ASSUME ~ apart' PROVE OneAtATime(editor, transport, edits)'
      <3>1. transport.state # "stopped" => transport.there /\ editor.applied = transport.plays
        BY <2>4, <1>2 DEF EditInv, OneAtATime
      <3>2. edits'[1] = e /\ Len(edits') = 1 /\ editor.starting = Nobody
        BY <2>2, <2>4, <1>2
      <3> QED BY <3>1, <3>2, <2>1, <1>1, <1>5 DEF OneAtATime
    <2> QED BY <2>1, <2>3, <2>4, <1>2 DEF EditInv
  <1>6. CASE /\ editor' = Edits!Remembered(accepted) /\ told' = FALSE /\ ~ transport.there
             /\ UNCHANGED <<transport, edits>>
    <2>1. /\ editor' \in Editors /\ editor'.applied = s /\ editor'.draft = s
          /\ editor'.starting = editor.starting
      BY <1>1, <1>6, EditorTypes
    <2> QED BY <2>1, <1>2, <1>6 DEF EditInv, OneAtATime
  <1> QED BY <1>3, <1>4, <1>5, <1>6

\* The first edit has its end, whatever it is.
LEMMA EditEnds ==
    ASSUME EditInv, edits # <<>>, NEW outcome \in {"applied", "refused", "stale"},
           edits' = Tail(edits), editor' = Edits!Answered(editor, edits[1], outcome),
           told' = Edits!Told(outcome), apart' = apart,
           transport' \in Transports,
           outcome = "applied" => transport'.plays = edits[1].setting,
           outcome # "applied" => transport'.plays = transport.plays,
           transport'.there = transport.there,
           transport'.state = "stopped" <=> transport.state = "stopped"
    PROVE  EditInv'
  <1>1. edits[1] \in EditRecord /\ edits' \in Seq(EditRecord) /\ (Len(edits) <= 1 => edits' = <<>>)
    BY DEF EditInv
  <1>2. editor' \in Editors
    BY <1>1, AnsweredTypes DEF EditInv
  <1>3. told' \in BOOLEAN
    BY DEF Edits!Told, EditInv
  <1>4. ASSUME ~ apart
        PROVE  OneAtATime(editor, transport, edits)'
    <2>1. /\ editor.starting = Nobody /\ ~ told /\ edits[1].setting = editor.draft
          /\ edits[1].revision = editor.revision /\ edits' = <<>>
          /\ transport.state # "stopped" => transport.there /\ editor.applied = transport.plays
      BY <1>1, <1>4 DEF EditInv, OneAtATime
    <2>2. editor'.starting = Nobody
      BY <2>1, <1>1, AnsweredTypes DEF EditInv
    <2>3. transport.plays # Nobody
      BY SettingsAssumption DEF EditInv, Transports, Edits!Drafts
    <2>4. SUFFICES ASSUME transport'.state # "stopped"
                   PROVE  /\ transport'.there /\ editor'.applied = transport'.plays
                          /\ ~ told' => transport'.plays = editor'.draft
      <3>1. Len(edits') <= 1
        <4>1. Len(<<>>) = 0
          OBVIOUS
        <4>2. edits' = <<>>
          BY <2>1
        <4>3. Len(edits') = Len(<<>>)
          BY <4>2
        <4> QED BY <4>1, <4>3
      <3> QED BY <3>1, <2>1, <2>2, <2>4 DEF OneAtATime
    <2>5. transport'.there /\ editor.applied = transport.plays
      BY <2>1, <2>4
    <2>6. CASE outcome = "applied"
      <3>1. editor'.draft = editor.draft /\ editor'.applied = editor.draft
        BY <2>6, <1>1, AnsweredTypes DEF EditInv
      <3> QED BY <2>1, <2>5, <2>6, <3>1
    <2>7. CASE outcome = "refused"
      <3>1. editor'.applied = editor.applied
        BY <2>7, <1>1, AnsweredTypes DEF EditInv
      <3> QED BY <2>5, <2>7, <3>1 DEF Edits!Told
    <2>8. CASE outcome = "stale"
      <3>1. editor'.applied = editor.applied /\ editor'.draft = editor.applied
        BY <2>1, <2>3, <2>5, <2>8, <1>1, AnsweredTypes DEF EditInv
      <3> QED BY <2>5, <2>8, <3>1
    <2> QED BY <2>6, <2>7, <2>8
  <1> QED BY <1>1, <1>2, <1>3, <1>4 DEF EditInv

\* The turn of an edit.
LEMMA TakeTurnKeeps ==
    ASSUME EditInv, NEW refused \in BOOLEAN, Edits!TakeTurn(refused)
    PROVE  EditInv'
  <1> DEFINE e == edits[1]
             outcome == Edits!Outcome(e, refused)
  <1>1. outcome \in {"stale", "refused", "applied", "sent"}
    BY DEF Edits!Outcome
  <1>2. edits # <<>> /\ e \in EditRecord /\ apart' = apart
    BY DEF EditInv, Edits!TakeTurn
  <1> HIDE DEF outcome
  <1>3. CASE outcome = "sent"
    <2>1. edits' = [edits EXCEPT ![1].sent = TRUE] /\ UNCHANGED <<editor, transport, told>>
      BY <1>3 DEF Edits!TakeTurn, outcome
    <2>2. /\ edits' \in Seq(EditRecord) /\ edits' # <<>> /\ Len(edits') = Len(edits)
          /\ edits'[1].setting = e.setting /\ edits'[1].revision = e.revision
      <3> DEFINE turned == [e EXCEPT !.sent = TRUE]
      <3>1. turned \in EditRecord /\ turned.setting = e.setting /\ turned.revision = e.revision
        BY <1>2 DEF EditRecord
      <3>2. edits' = [edits EXCEPT ![1] = turned] /\ edits \in Seq(EditRecord)
        BY <2>1 DEF EditInv
      <3> HIDE DEF turned
      <3>3. 1 \in DOMAIN edits
        BY <3>2, <1>2
      <3> QED BY <3>1, <3>2, <3>3, <1>2
    <2> QED BY <2>1, <2>2, <1>2 DEF EditInv, OneAtATime
  <1>4. CASE outcome # "sent"
    <2>1. /\ edits' = Tail(edits) /\ editor' = Edits!Answered(editor, e, outcome) /\ told' = Edits!Told(outcome)
          /\ transport' = IF outcome = "applied" THEN [transport EXCEPT !.plays = e.setting] ELSE transport
      BY <1>4 DEF Edits!TakeTurn, outcome
    <2>2. /\ transport' \in Transports /\ transport'.there = transport.there
          /\ transport'.state = transport.state
          /\ outcome = "applied" => transport'.plays = e.setting
          /\ outcome # "applied" => transport'.plays = transport.plays
      BY <2>1, <1>2 DEF EditInv, Transports, EditRecord
    <2> QED BY <2>1, <2>2, <1>1, <1>2, <1>4, EditEnds
  <1> QED BY <1>3, <1>4

\* The answer of the backend, or that there is none.
LEMMA ConfirmedKeeps ==
    ASSUME EditInv, NEW reply \in {"accepted", "full", "timeout"}, Edits!Confirmed(reply)
    PROVE  EditInv'
  <1> DEFINE e == edits[1]
             current0 == e.generation = transport.generation /\ transport.state # "stopped"
             outcome == CASE ~ current0 \/ (reply # "timeout" /\ transport.state = "paused") -> "stale"
                          [] current0 /\ reply = "accepted" /\ transport.state # "paused" -> "applied"
                          [] OTHER -> "refused"
             lost == current0 /\ reply = "timeout"
  <1>1. outcome \in {"stale", "refused", "applied"} /\ (lost => outcome = "refused")
    OBVIOUS
  <1>2. edits # <<>> /\ e \in EditRecord /\ apart' = apart
    BY DEF EditInv, Edits!Confirmed
  <1>3. /\ edits' = Tail(edits) /\ editor' = Edits!Answered(editor, e, outcome) /\ told' = Edits!Told(outcome)
        /\ transport' = IF outcome = "applied" THEN [transport EXCEPT !.plays = e.setting]
                        ELSE IF lost
                        THEN [transport EXCEPT !.state = "paused", !.generation = @ + 1]
                        ELSE transport
    BY DEF Edits!Confirmed
  <1>4. lost => transport.state # "stopped"
    OBVIOUS
  <1> HIDE DEF outcome, lost
  <1>5. /\ transport' \in Transports /\ transport'.there = transport.there
        /\ transport'.state = "stopped" <=> transport.state = "stopped"
        /\ outcome = "applied" => transport'.plays = e.setting
        /\ outcome # "applied" => transport'.plays = transport.plays
    <2>1. CASE outcome = "applied"
      BY <2>1, <1>2, <1>3 DEF EditInv, Transports, EditRecord
    <2>2. CASE lost
      <3>1. transport' = Moved(transport, "paused", transport.generation + 1) /\ outcome # "applied"
        BY <2>2, <1>1, <1>3 DEF Moved
      <3>2. transport \in Transports /\ transport.generation + 1 \in Nat /\ "paused" \in Edits!RunStates
        BY DEF EditInv, Transports, Edits!RunStates
      <3>3. /\ transport' \in Transports /\ transport'.there = transport.there
            /\ transport'.state = "paused" /\ transport'.plays = transport.plays
        BY <3>1, <3>2, MovedTypes
      <3> QED BY <2>2, <1>4, <3>1, <3>3
    <2>3. CASE outcome # "applied" /\ ~ lost
      <3>1. transport' = transport
        BY <2>3, <1>3
      <3> QED BY <2>3, <3>1 DEF EditInv
    <2> QED BY <2>1, <2>2, <2>3
  <1> QED BY <1>1, <1>2, <1>3, <1>5, EditEnds

\* Starts and what ends a run.
LEMMA RunKeeps ==
    ASSUME EditInv,
           \/ Edits!Play \/ Edits!Started \/ Edits!NotStarted \/ Edits!Resume \/ Edits!Released \/ Edits!Guard
           \/ \E next \in {"stopped", "paused", "waiting"} : Edits!Leaves(next)
    PROVE  EditInv'
  <1> USE DEF EditInv, Editors, Transports
  <1>1. CASE Edits!Play
    <2>1. /\ editor' \in Editors /\ editor'.starting = editor.draft /\ editor'.draft = editor.draft
          /\ editor'.applied = editor.applied /\ editor'.revision = editor.revision
          /\ apart' \in BOOLEAN /\ (~ apart' => ~ apart /\ edits = <<>>)
          /\ UNCHANGED <<transport, edits, told>>
      BY <1>1 DEF Edits!Play
    <2> QED BY <2>1 DEF OneAtATime
  <1>2. CASE Edits!Started
    <2>1. /\ editor' \in Editors /\ editor'.starting = Nobody /\ editor'.draft = editor.draft
          /\ editor'.applied = editor.draft /\ editor'.revision = editor.revision
      BY <1>2 DEF Edits!Started, Edits!Remembered
    <2>2. /\ transport' \in Transports /\ transport'.there /\ transport'.plays = editor.starting
          /\ editor.starting # Nobody /\ UNCHANGED <<edits, apart>> /\ told' = FALSE
      BY <1>2 DEF Edits!Started, Edits!RunStates
    <2>3. ~ apart => edits = <<>> /\ editor.starting = editor.draft
      BY <2>2 DEF OneAtATime
    <2> QED BY <2>1, <2>2, <2>3 DEF OneAtATime
  <1>3. CASE Edits!NotStarted
    <2>1. /\ editor' \in Editors /\ editor'.starting = Nobody /\ editor'.draft = editor.draft
          /\ editor'.applied = editor.applied /\ editor'.revision = editor.revision
          /\ transport' \in Transports /\ transport'.state = "stopped"
          /\ UNCHANGED <<edits, told, apart>>
      BY <1>3 DEF Edits!NotStarted, Edits!RunStates
    <2> QED BY <2>1 DEF OneAtATime
  <1>4. CASE Edits!Resume
    <2>1. /\ transport' \in Transports /\ transport'.there = transport.there
          /\ transport'.plays = transport.plays /\ transport.state # "stopped"
          /\ UNCHANGED <<editor, edits, told, apart>>
      <3>1. /\ transport' = Moved(transport, "running", transport.generation + 1)
            /\ transport.state \in {"paused", "waiting"} /\ UNCHANGED <<editor, edits, told, apart>>
        BY <1>4 DEF Edits!Resume, Moved
      <3>2. transport \in Transports /\ transport.generation + 1 \in Nat /\ "running" \in Edits!RunStates
        BY DEF Edits!RunStates
      <3> HIDE DEF Transports
      <3> QED BY <3>1, <3>2, MovedTypes
    <2> QED BY <2>1 DEF OneAtATime
  <1>7. ASSUME NEW next \in {"stopped", "paused", "waiting"}, Edits!Leaves(next) PROVE EditInv'
    <2>1. /\ transport' \in Transports /\ transport'.there = transport.there
          /\ transport'.plays = transport.plays /\ transport.state # "stopped"
          /\ UNCHANGED <<editor, edits, told, apart>>
      <3> DEFINE n == IF next = "stopped" THEN transport.generation + 1 ELSE transport.generation
      <3>1. /\ transport' = Moved(transport, next, n)
            /\ transport.state # "stopped" /\ UNCHANGED <<editor, edits, told, apart>>
        BY <1>7 DEF Edits!Leaves, Moved
      <3>2. transport \in Transports /\ n \in Nat /\ next \in Edits!RunStates
        BY DEF Edits!RunStates
      <3> HIDE DEF Transports, n
      <3> QED BY <3>1, <3>2, MovedTypes
    <2> QED BY <2>1 DEF OneAtATime
  <1>5. CASE Edits!Released
    <2>1. /\ transport' \in Transports /\ transport'.state = "stopped"
          /\ UNCHANGED <<editor, edits, told, apart>>
      BY <1>5 DEF Edits!Released
    <2> QED BY <2>1 DEF OneAtATime
  <1>6. CASE Edits!Guard
    BY <1>6 DEF Edits!Guard, OneAtATime
  <1> QED BY <1>1, <1>2, <1>3, <1>4, <1>5, <1>6, <1>7

\* A step of the metronome's settings.
LEMMA EditStepKeeps ==
    ASSUME EditInv, Edits!Next
    PROVE  EditInv'
  BY ChangeKeeps, TakeTurnKeeps, ConfirmedKeeps, RunKeeps DEF Edits!Next

\* What the editor shows is what plays.
LEMMA EditInvSays == EditInv => Edits!EditorIsPlayed
  BY DEF EditInv, OneAtATime, Edits!EditorIsPlayed

-----------------------------------------------------------------------------
(* The screen of the analysis *)

\* The screen of the analysis.
Modes == {"idle", "preparing", "mic", "calibrating", "analyzing"}
SessionStates == {"new", "asking", "loading", "on", "closed"}
Calibrations == [kind : {"calibration"}, session : Sessions \cup {0}, key : Routes \cup {Nobody}, seq : Nat]
Recordings == [kind : {"analysis"}, session : Sessions \cup {0}, key : Routes \cup {Nobody}, route : Routes]

AnalysisTyped ==
    /\ session \in [Sessions -> SessionStates]
    /\ current \in Sessions \cup {0} /\ micSession \in Sessions \cup {0}
    /\ mode \in Modes /\ shown \in BOOLEAN /\ route \in Routes /\ running \in BOOLEAN /\ calSeq \in Nat
    /\ calibration \in Routes \cup {Nobody} /\ candidate \in Routes \cup {Nobody}
    /\ collect \in Calibrations \cup Recordings \cup {Nobody}
    /\ preps \subseteq [id : Nat, session : Sessions \cup {0}]
    /\ guardOff \in BOOLEAN /\ prepared \in Nat /\ crossed \in BOOLEAN
    /\ broken \subseteq Sessions

\* The screen's session is the capture's, and no other is held but one whose node
\* could not be made.
MicSound ==
    /\ micSession # 0 => current = micSession /\ session[micSession] # "new"
    /\ \A s \in Sessions \ broken : session[s] \in Analysis!Open => s = micSession
    /\ \A s \in broken : session[s] \in {"on", "closed"}
    /\ \A s \in Sessions : s = current /\ session[s] = "asking" => s = micSession
    /\ shown => Analysis!MicOn
    /\ \A p \in preps : p.session # 0 /\ session[p.session] # "new"

Recording == collect # Nobody /\ collect.kind = "analysis"

\* As long as no answer to an older preparation changed the mode: the mode says what goes
\* on, with a microphone that is on, and one recording is prepared or made at a time.
ModeSound ==
    /\ shown => session[micSession] = "on"
    /\ micSession # 0 /\ session[micSession] \in {"asking", "loading"} => mode = "preparing"
    /\ collect # Nobody =>
         /\ shown
         /\ mode = (IF Recording THEN "analyzing" ELSE "calibrating")
    /\ Recording => collect.session = micSession /\ collect.route = route /\ collect.key \in {Nobody, route}
    /\ (guardOff <=> Recording) /\ guards = (IF Recording THEN 1 ELSE 0)
    /\ \A p \in preps : session[p.session] \in {"on", "closed"}
    /\ \A p \in preps : p.session = micSession =>
         mode = "preparing" /\ \A q \in preps : q.session = micSession => p = q

AnalysisInv ==
    /\ AnalysisTyped /\ MicSound
    /\ calibration # Nobody => calibration = route
    /\ ~ crossed => ModeSound

\* A recording or a calibration that ends.
LEMMA CollectEnded ==
    ASSUME AnalysisTyped, Analysis!EndCollect
    PROVE  /\ collect' = Nobody /\ guardOff' \in BOOLEAN
           /\ ModeSound => ~ guardOff' /\ guards' = 0
  <1>1. CASE Recording
    <2>1. collect' = Nobody /\ Analysis!TakeGuardOff
      BY <1>1 DEF Analysis!EndCollect, Recording
    <2>2. ~ guardOff' /\ guardOff' \in BOOLEAN
      BY <2>1 DEF Analysis!TakeGuardOff
    <2>3. ModeSound => guardOff /\ guards = 1
      BY <1>1 DEF ModeSound
    <2> QED BY <2>1, <2>2, <2>3 DEF Analysis!TakeGuardOff
  <1>2. CASE ~ Recording
    BY <1>2 DEF Analysis!EndCollect, Analysis!TakeGuardOff, AnalysisTyped, Recording, ModeSound
  <1> QED BY <1>1, <1>2

\* A tap on the microphone makes a session.
LEMMA AnalysisTapMicKeeps ==
    ASSUME AnalysisInv, Analysis!TapMic
    PROVE  AnalysisInv'
  <1>1. AnalysisTyped'
    BY SessionsAssumption DEF AnalysisInv, AnalysisTyped, MicSound, Modes, SessionStates, Calibrations,
       Recordings, Analysis!TapMic, Analysis!SetMode, Analysis!Open, Analysis!MicOn, Analysis!capture,
       Analysis!calibrations, Analysis!recording
  <1>2. MicSound'
    BY SessionsAssumption DEF AnalysisInv, AnalysisTyped, MicSound, SessionStates, Analysis!TapMic,
       Analysis!SetMode, Analysis!Open, Analysis!MicOn, Analysis!capture, Analysis!calibrations,
       Analysis!recording
  <1>3. (calibration # Nobody => calibration = route)'
    BY SessionsAssumption DEF AnalysisInv, AnalysisTyped, MicSound, Calibrations, Recordings, Analysis!TapMic,
       Analysis!SetMode, Analysis!Open, Analysis!MicOn, Analysis!capture, Analysis!calibrations,
       Analysis!recording
  <1>4. ASSUME ~ crossed' PROVE ModeSound'
    BY <1>4, SessionsAssumption DEF AnalysisInv, AnalysisTyped, MicSound, ModeSound, Recording, Modes,
       SessionStates, Calibrations, Recordings, Analysis!TapMic, Analysis!SetMode, Analysis!Open,
       Analysis!MicOn, Analysis!capture, Analysis!calibrations, Analysis!recording
  <1> QED BY <1>1, <1>2, <1>3, <1>4 DEF AnalysisInv

\* The permission is given.
LEMMA AnalysisGrantedKeeps ==
    ASSUME AnalysisInv, NEW s \in Sessions, Analysis!Granted(s)
    PROVE  AnalysisInv'
  <1>1. AnalysisTyped'
    BY SessionsAssumption DEF AnalysisInv, AnalysisTyped, MicSound, Modes, SessionStates, Calibrations, Recordings,
       Analysis!Granted, Analysis!MicOn, Analysis!Open, Analysis!capture, Analysis!calibrations, Analysis!recording
  <1>2. MicSound'
    BY SessionsAssumption DEF AnalysisInv, AnalysisTyped, MicSound, SessionStates,
       Analysis!Granted, Analysis!MicOn, Analysis!Open, Analysis!capture, Analysis!calibrations, Analysis!recording
  <1>3. (calibration # Nobody => calibration = route)'
    BY SessionsAssumption DEF AnalysisInv, AnalysisTyped, MicSound, Calibrations, Recordings,
       Analysis!Granted, Analysis!MicOn, Analysis!Open, Analysis!capture, Analysis!calibrations, Analysis!recording
  <1>4. ASSUME ~ crossed' PROVE ModeSound'
    BY <1>4, SessionsAssumption DEF AnalysisInv, AnalysisTyped, MicSound, ModeSound, Recording, Modes, SessionStates,
       Calibrations, Recordings, Analysis!Granted, Analysis!MicOn, Analysis!Open, Analysis!capture,
       Analysis!calibrations, Analysis!recording
  <1> QED BY <1>1, <1>2, <1>3, <1>4 DEF AnalysisInv

\* A session fails before its node is made.
LEMMA AnalysisFailedKeeps ==
    ASSUME AnalysisInv, NEW s \in Sessions, Analysis!Failed(s)
    PROVE  AnalysisInv'
  <1>1. AnalysisTyped'
    BY SessionsAssumption DEF AnalysisInv, AnalysisTyped, MicSound, Modes, SessionStates, Calibrations, Recordings,
       Analysis!Failed, Analysis!SetMode, Analysis!Close, Analysis!MicOn, Analysis!Open, Analysis!capture,
       Analysis!calibrations, Analysis!recording
  <1>2. MicSound'
    BY SessionsAssumption DEF AnalysisInv, AnalysisTyped, MicSound, SessionStates,
       Analysis!Failed, Analysis!SetMode, Analysis!Close, Analysis!MicOn, Analysis!Open, Analysis!capture,
       Analysis!calibrations, Analysis!recording
  <1>3. (calibration # Nobody => calibration = route)'
    BY SessionsAssumption DEF AnalysisInv, AnalysisTyped, MicSound, Calibrations, Recordings,
       Analysis!Failed, Analysis!SetMode, Analysis!Close, Analysis!MicOn, Analysis!Open, Analysis!capture,
       Analysis!calibrations, Analysis!recording
  <1>4. ASSUME ~ crossed' PROVE ModeSound'
    BY <1>4, SessionsAssumption DEF AnalysisInv, AnalysisTyped, MicSound, ModeSound, Recording, Modes, SessionStates,
       Calibrations, Recordings, Analysis!Failed, Analysis!SetMode, Analysis!Close, Analysis!MicOn,
       Analysis!Open, Analysis!capture, Analysis!calibrations, Analysis!recording
  <1> QED BY <1>1, <1>2, <1>3, <1>4 DEF AnalysisInv

\* The node of a session cannot be made.
LEMMA AnalysisNodeFailedKeeps ==
    ASSUME AnalysisInv, NEW s \in Sessions, Analysis!NodeFailed(s)
    PROVE  AnalysisInv'
  <1>1. AnalysisTyped'
    BY SessionsAssumption DEF AnalysisInv, AnalysisTyped, MicSound, Modes, SessionStates, Calibrations, Recordings,
       Analysis!NodeFailed, Analysis!SetMode, Analysis!MicOn, Analysis!Open, Analysis!capture,
       Analysis!calibrations, Analysis!recording
  <1>2. MicSound'
    BY SessionsAssumption DEF AnalysisInv, AnalysisTyped, MicSound, SessionStates,
       Analysis!NodeFailed, Analysis!SetMode, Analysis!MicOn, Analysis!Open, Analysis!capture,
       Analysis!calibrations, Analysis!recording
  <1>3. (calibration # Nobody => calibration = route)'
    BY SessionsAssumption DEF AnalysisInv, AnalysisTyped, MicSound, Calibrations, Recordings,
       Analysis!NodeFailed, Analysis!SetMode, Analysis!MicOn, Analysis!Open, Analysis!capture,
       Analysis!calibrations, Analysis!recording
  <1>4. ASSUME ~ crossed' PROVE ModeSound'
    BY <1>4, SessionsAssumption DEF AnalysisInv, AnalysisTyped, MicSound, ModeSound, Recording, Modes, SessionStates,
       Calibrations, Recordings, Analysis!NodeFailed, Analysis!SetMode, Analysis!MicOn, Analysis!Open,
       Analysis!capture, Analysis!calibrations, Analysis!recording
  <1> QED BY <1>1, <1>2, <1>3, <1>4 DEF AnalysisInv

\* The microphone is on.
LEMMA AnalysisStartedKeeps ==
    ASSUME AnalysisInv, NEW s \in Sessions, Analysis!Started(s)
    PROVE  AnalysisInv'
  <1>1. AnalysisTyped'
    BY SessionsAssumption DEF AnalysisInv, AnalysisTyped, MicSound, Modes, SessionStates, Calibrations, Recordings,
       Analysis!Started, Analysis!SetMode, Analysis!Load, Analysis!MicOn, Analysis!Open, Analysis!capture,
       Analysis!calibrations, Analysis!recording
  <1>2. MicSound'
    BY SessionsAssumption DEF AnalysisInv, AnalysisTyped, MicSound, SessionStates,
       Analysis!Started, Analysis!SetMode, Analysis!Load, Analysis!MicOn, Analysis!Open, Analysis!capture,
       Analysis!calibrations, Analysis!recording
  <1>3. (calibration # Nobody => calibration = route)'
    BY SessionsAssumption DEF AnalysisInv, AnalysisTyped, MicSound, Calibrations, Recordings,
       Analysis!Started, Analysis!SetMode, Analysis!Load, Analysis!MicOn, Analysis!Open, Analysis!capture,
       Analysis!calibrations, Analysis!recording
  <1>4. ASSUME ~ crossed' PROVE ModeSound'
    BY <1>4, SessionsAssumption DEF AnalysisInv, AnalysisTyped, MicSound, ModeSound, Recording, Modes, SessionStates,
       Calibrations, Recordings, Analysis!Started, Analysis!SetMode, Analysis!Load, Analysis!MicOn,
       Analysis!Open, Analysis!capture, Analysis!calibrations, Analysis!recording
  <1> QED BY <1>1, <1>2, <1>3, <1>4 DEF AnalysisInv

\* The microphone is put down.
LEMMA AnalysisStopKeeps ==
    ASSUME AnalysisInv, running' \in BOOLEAN, Analysis!StopMic
    PROVE  AnalysisInv'
  <1>0. /\ collect' = Nobody /\ guardOff' \in BOOLEAN
        /\ ModeSound => ~ guardOff' /\ guards' = 0
    BY CollectEnded DEF AnalysisInv, Analysis!StopMic
  <1>1. AnalysisTyped'
    <2>1. (session \in [Sessions -> SessionStates])'
      BY <1>0, SessionsAssumption DEF AnalysisInv, AnalysisTyped, MicSound, Modes, SessionStates,
         Calibrations, Recordings,
       Analysis!StopMic, Analysis!SetMode, Analysis!Close, Analysis!Invalidate, Analysis!MicOn, Analysis!Open,
       Analysis!capture, Analysis!calibrations, Analysis!recording
    <2>2. (current \in Sessions \cup {0} /\ micSession \in Sessions \cup {0})'
      BY <1>0, SessionsAssumption DEF AnalysisInv, AnalysisTyped, MicSound, Modes, SessionStates,
         Calibrations, Recordings,
       Analysis!StopMic, Analysis!SetMode, Analysis!Close, Analysis!Invalidate, Analysis!MicOn, Analysis!Open,
       Analysis!capture, Analysis!calibrations, Analysis!recording
    <2>3. (mode \in Modes)'
      BY <1>0, SessionsAssumption DEF AnalysisInv, AnalysisTyped, MicSound, Modes, SessionStates,
         Calibrations, Recordings,
       Analysis!StopMic, Analysis!SetMode, Analysis!Close, Analysis!Invalidate, Analysis!MicOn, Analysis!Open,
       Analysis!capture, Analysis!calibrations, Analysis!recording
    <2>4. (shown \in BOOLEAN)'
      BY <1>0, SessionsAssumption DEF AnalysisInv, AnalysisTyped, MicSound, Modes, SessionStates,
         Calibrations, Recordings,
       Analysis!StopMic, Analysis!SetMode, Analysis!Close, Analysis!Invalidate, Analysis!MicOn, Analysis!Open,
       Analysis!capture, Analysis!calibrations, Analysis!recording
    <2>5. (route \in Routes)'
      BY <1>0, SessionsAssumption DEF AnalysisInv, AnalysisTyped, MicSound, Modes, SessionStates,
         Calibrations, Recordings,
       Analysis!StopMic, Analysis!SetMode, Analysis!Close, Analysis!Invalidate, Analysis!MicOn, Analysis!Open,
       Analysis!capture, Analysis!calibrations, Analysis!recording
    <2>6. (running \in BOOLEAN)'
      BY <1>0, SessionsAssumption DEF AnalysisInv, AnalysisTyped, MicSound, Modes, SessionStates,
         Calibrations, Recordings,
       Analysis!StopMic, Analysis!SetMode, Analysis!Close, Analysis!Invalidate, Analysis!MicOn, Analysis!Open,
       Analysis!capture, Analysis!calibrations, Analysis!recording
    <2>7. (calSeq \in Nat)'
      BY <1>0, SessionsAssumption DEF AnalysisInv, AnalysisTyped, MicSound, Modes, SessionStates,
         Calibrations, Recordings,
       Analysis!StopMic, Analysis!SetMode, Analysis!Close, Analysis!Invalidate, Analysis!MicOn, Analysis!Open,
       Analysis!capture, Analysis!calibrations, Analysis!recording
    <2>8. (calibration \in Routes \cup {Nobody} /\ candidate \in Routes \cup {Nobody})'
      BY <1>0, SessionsAssumption DEF AnalysisInv, AnalysisTyped, MicSound, Modes, SessionStates,
         Calibrations, Recordings,
       Analysis!StopMic, Analysis!SetMode, Analysis!Close, Analysis!Invalidate, Analysis!MicOn, Analysis!Open,
       Analysis!capture, Analysis!calibrations, Analysis!recording
    <2>9. (collect \in Calibrations \cup Recordings \cup {Nobody})'
      BY <1>0, SessionsAssumption DEF AnalysisInv, AnalysisTyped, MicSound, Modes, SessionStates,
         Calibrations, Recordings,
       Analysis!StopMic, Analysis!SetMode, Analysis!Close, Analysis!Invalidate, Analysis!MicOn, Analysis!Open,
       Analysis!capture, Analysis!calibrations, Analysis!recording
    <2>10. (preps \subseteq [id : Nat, session : Sessions \cup {0}])'
      BY <1>0, SessionsAssumption DEF AnalysisInv, AnalysisTyped, MicSound, Modes, SessionStates,
         Calibrations, Recordings,
       Analysis!StopMic, Analysis!SetMode, Analysis!Close, Analysis!Invalidate, Analysis!MicOn, Analysis!Open,
       Analysis!capture, Analysis!calibrations, Analysis!recording
    <2>11. (guardOff \in BOOLEAN /\ prepared \in Nat /\ crossed \in BOOLEAN)'
      BY <1>0, SessionsAssumption DEF AnalysisInv, AnalysisTyped, MicSound, Modes, SessionStates,
         Calibrations, Recordings,
       Analysis!StopMic, Analysis!SetMode, Analysis!Close, Analysis!Invalidate, Analysis!MicOn, Analysis!Open,
       Analysis!capture, Analysis!calibrations, Analysis!recording
    <2>12. (broken \subseteq Sessions)'
      BY <1>0, SessionsAssumption DEF AnalysisInv, AnalysisTyped, MicSound, Modes, SessionStates,
         Calibrations, Recordings,
       Analysis!StopMic, Analysis!SetMode, Analysis!Close, Analysis!Invalidate, Analysis!MicOn, Analysis!Open,
       Analysis!capture, Analysis!calibrations, Analysis!recording
    <2> QED BY <2>1, <2>2, <2>3, <2>4, <2>5, <2>6, <2>7, <2>8, <2>9, <2>10, <2>11, <2>12 DEF AnalysisTyped
  <1>2. MicSound'
    BY <1>0, SessionsAssumption DEF AnalysisInv, AnalysisTyped, MicSound, SessionStates,
       Analysis!StopMic, Analysis!SetMode, Analysis!Close, Analysis!Invalidate, Analysis!MicOn, Analysis!Open,
       Analysis!capture, Analysis!calibrations, Analysis!recording
  <1>3. (calibration # Nobody => calibration = route)'
    BY <1>0, SessionsAssumption DEF AnalysisInv, AnalysisTyped, MicSound, Calibrations, Recordings,
       Analysis!StopMic, Analysis!SetMode, Analysis!Close, Analysis!Invalidate, Analysis!MicOn, Analysis!Open,
       Analysis!capture, Analysis!calibrations, Analysis!recording
  <1>4. ASSUME ~ crossed' PROVE ModeSound'
    BY <1>0, <1>4, SessionsAssumption DEF AnalysisInv, AnalysisTyped, MicSound, ModeSound, Recording, Modes,
       SessionStates,
       Calibrations, Recordings, Analysis!StopMic, Analysis!SetMode, Analysis!Close, Analysis!Invalidate,
       Analysis!MicOn, Analysis!Open, Analysis!capture, Analysis!calibrations, Analysis!recording
  <1> QED BY <1>1, <1>2, <1>3, <1>4 DEF AnalysisInv

\* Another route is chosen.
LEMMA AnalysisRouteKeeps ==
    ASSUME AnalysisInv, NEW r \in Routes, Analysis!ChooseRoute(r)
    PROVE  AnalysisInv'
  <1>1. AnalysisTyped'
    BY SessionsAssumption DEF AnalysisInv, AnalysisTyped, MicSound, Modes, SessionStates, Calibrations, Recordings,
       Analysis!ChooseRoute, Analysis!Load, Analysis!Invalidate, Analysis!MicOn, Analysis!Open,
       Analysis!capture, Analysis!calibrations, Analysis!recording
  <1>2. MicSound'
    BY SessionsAssumption DEF AnalysisInv, AnalysisTyped, MicSound, SessionStates,
       Analysis!ChooseRoute, Analysis!Load, Analysis!Invalidate, Analysis!MicOn, Analysis!Open,
       Analysis!capture, Analysis!calibrations, Analysis!recording
  <1>3. (calibration # Nobody => calibration = route)'
    BY SessionsAssumption DEF AnalysisInv, AnalysisTyped, MicSound, Calibrations, Recordings,
       Analysis!ChooseRoute, Analysis!Load, Analysis!Invalidate, Analysis!MicOn, Analysis!Open,
       Analysis!capture, Analysis!calibrations, Analysis!recording
  <1>4. ASSUME ~ crossed' PROVE ModeSound'
    BY <1>4, SessionsAssumption DEF AnalysisInv, AnalysisTyped, MicSound, ModeSound, Recording, Modes, SessionStates,
       Calibrations, Recordings, Analysis!ChooseRoute, Analysis!Load, Analysis!Invalidate, Analysis!MicOn,
       Analysis!Open, Analysis!capture, Analysis!calibrations, Analysis!recording
  <1> QED BY <1>1, <1>2, <1>3, <1>4 DEF AnalysisInv

\* A stored calibration was read.
LEMMA AnalysisLoadAnswersKeeps ==
    ASSUME AnalysisInv, NEW l \in loads, Analysis!LoadAnswers(l)
    PROVE  AnalysisInv'
  <1>1. AnalysisTyped'
    BY SessionsAssumption DEF AnalysisInv, AnalysisTyped, MicSound, Modes, SessionStates, Calibrations, Recordings,
       Analysis!LoadAnswers, Analysis!Wanted, Analysis!RouteKeyNow, Analysis!MicOn, Analysis!Open,
       Analysis!capture, Analysis!calibrations, Analysis!recording
  <1>2. MicSound'
    BY SessionsAssumption DEF AnalysisInv, AnalysisTyped, MicSound, SessionStates,
       Analysis!LoadAnswers, Analysis!Wanted, Analysis!RouteKeyNow, Analysis!MicOn, Analysis!Open,
       Analysis!capture, Analysis!calibrations, Analysis!recording
  <1>3. (calibration # Nobody => calibration = route)'
    BY SessionsAssumption DEF AnalysisInv, AnalysisTyped, MicSound, Calibrations, Recordings,
       Analysis!LoadAnswers, Analysis!Wanted, Analysis!RouteKeyNow, Analysis!MicOn, Analysis!Open,
       Analysis!capture, Analysis!calibrations, Analysis!recording
  <1>4. ASSUME ~ crossed' PROVE ModeSound'
    BY <1>4, SessionsAssumption DEF AnalysisInv, AnalysisTyped, MicSound, ModeSound, Recording, Modes, SessionStates,
       Calibrations, Recordings, Analysis!LoadAnswers, Analysis!Wanted, Analysis!RouteKeyNow, Analysis!MicOn,
       Analysis!Open, Analysis!capture, Analysis!calibrations, Analysis!recording
  <1> QED BY <1>1, <1>2, <1>3, <1>4 DEF AnalysisInv

\* The user takes the stored calibration.
LEMMA AnalysisUseCandidateKeeps ==
    ASSUME AnalysisInv, Analysis!UseCandidate
    PROVE  AnalysisInv'
  <1>1. AnalysisTyped'
    BY SessionsAssumption DEF AnalysisInv, AnalysisTyped, MicSound, Modes, SessionStates, Calibrations, Recordings,
       Analysis!UseCandidate, Analysis!RouteKeyNow, Analysis!MicOn, Analysis!Open, Analysis!capture,
       Analysis!calibrations, Analysis!recording
  <1>2. MicSound'
    BY SessionsAssumption DEF AnalysisInv, AnalysisTyped, MicSound, SessionStates,
       Analysis!UseCandidate, Analysis!RouteKeyNow, Analysis!MicOn, Analysis!Open, Analysis!capture,
       Analysis!calibrations, Analysis!recording
  <1>3. (calibration # Nobody => calibration = route)'
    BY SessionsAssumption DEF AnalysisInv, AnalysisTyped, MicSound, Calibrations, Recordings,
       Analysis!UseCandidate, Analysis!RouteKeyNow, Analysis!MicOn, Analysis!Open, Analysis!capture,
       Analysis!calibrations, Analysis!recording
  <1>4. ASSUME ~ crossed' PROVE ModeSound'
    BY <1>4, SessionsAssumption DEF AnalysisInv, AnalysisTyped, MicSound, ModeSound, Recording, Modes, SessionStates,
       Calibrations, Recordings, Analysis!UseCandidate, Analysis!RouteKeyNow, Analysis!MicOn, Analysis!Open,
       Analysis!capture, Analysis!calibrations, Analysis!recording
  <1> QED BY <1>1, <1>2, <1>3, <1>4 DEF AnalysisInv

\* The user deletes the stored calibration.
LEMMA AnalysisForgetKeeps ==
    ASSUME AnalysisInv, Analysis!Forget
    PROVE  AnalysisInv'
  <1>1. AnalysisTyped'
    BY SessionsAssumption DEF AnalysisInv, AnalysisTyped, MicSound, Modes, SessionStates, Calibrations, Recordings,
       Analysis!Forget, Analysis!RouteKeyNow, Analysis!MicOn, Analysis!Open, Analysis!capture,
       Analysis!calibrations, Analysis!recording
  <1>2. MicSound'
    BY SessionsAssumption DEF AnalysisInv, AnalysisTyped, MicSound, SessionStates,
       Analysis!Forget, Analysis!RouteKeyNow, Analysis!MicOn, Analysis!Open, Analysis!capture,
       Analysis!calibrations, Analysis!recording
  <1>3. (calibration # Nobody => calibration = route)'
    BY SessionsAssumption DEF AnalysisInv, AnalysisTyped, MicSound, Calibrations, Recordings,
       Analysis!Forget, Analysis!RouteKeyNow, Analysis!MicOn, Analysis!Open, Analysis!capture,
       Analysis!calibrations, Analysis!recording
  <1>4. ASSUME ~ crossed' PROVE ModeSound'
    BY <1>4, SessionsAssumption DEF AnalysisInv, AnalysisTyped, MicSound, ModeSound, Recording, Modes, SessionStates,
       Calibrations, Recordings, Analysis!Forget, Analysis!RouteKeyNow, Analysis!MicOn, Analysis!Open,
       Analysis!capture, Analysis!calibrations, Analysis!recording
  <1> QED BY <1>1, <1>2, <1>3, <1>4 DEF AnalysisInv

\* It is deleted.
LEMMA AnalysisForgottenKeeps ==
    ASSUME AnalysisInv, NEW key \in removing, Analysis!Forgotten(key)
    PROVE  AnalysisInv'
  <1>1. AnalysisTyped'
    BY SessionsAssumption DEF AnalysisInv, AnalysisTyped, MicSound, Modes, SessionStates, Calibrations, Recordings,
       Analysis!Forgotten, Analysis!Invalidate, Analysis!MicOn, Analysis!Open, Analysis!capture,
       Analysis!calibrations, Analysis!recording
  <1>2. MicSound'
    BY SessionsAssumption DEF AnalysisInv, AnalysisTyped, MicSound, SessionStates,
       Analysis!Forgotten, Analysis!Invalidate, Analysis!MicOn, Analysis!Open, Analysis!capture,
       Analysis!calibrations, Analysis!recording
  <1>3. (calibration # Nobody => calibration = route)'
    BY SessionsAssumption DEF AnalysisInv, AnalysisTyped, MicSound, Calibrations, Recordings,
       Analysis!Forgotten, Analysis!Invalidate, Analysis!MicOn, Analysis!Open, Analysis!capture,
       Analysis!calibrations, Analysis!recording
  <1>4. ASSUME ~ crossed' PROVE ModeSound'
    BY <1>4, SessionsAssumption DEF AnalysisInv, AnalysisTyped, MicSound, ModeSound, Recording, Modes, SessionStates,
       Calibrations, Recordings, Analysis!Forgotten, Analysis!Invalidate, Analysis!MicOn, Analysis!Open,
       Analysis!capture, Analysis!calibrations, Analysis!recording
  <1> QED BY <1>1, <1>2, <1>3, <1>4 DEF AnalysisInv

\* A calibration starts.
LEMMA AnalysisTapCalibrateKeeps ==
    ASSUME AnalysisInv, Analysis!TapCalibrate
    PROVE  AnalysisInv'
  <1>1. AnalysisTyped'
    BY SessionsAssumption DEF AnalysisInv, AnalysisTyped, MicSound, Modes, SessionStates, Calibrations, Recordings,
       Analysis!TapCalibrate, Analysis!SetMode, Analysis!RouteKeyNow, Analysis!MicOn, Analysis!Open,
       Analysis!capture, Analysis!calibrations, Analysis!recording
  <1>2. MicSound'
    BY SessionsAssumption DEF AnalysisInv, AnalysisTyped, MicSound, SessionStates,
       Analysis!TapCalibrate, Analysis!SetMode, Analysis!RouteKeyNow, Analysis!MicOn, Analysis!Open,
       Analysis!capture, Analysis!calibrations, Analysis!recording
  <1>3. (calibration # Nobody => calibration = route)'
    BY SessionsAssumption DEF AnalysisInv, AnalysisTyped, MicSound, Calibrations, Recordings,
       Analysis!TapCalibrate, Analysis!SetMode, Analysis!RouteKeyNow, Analysis!MicOn, Analysis!Open,
       Analysis!capture, Analysis!calibrations, Analysis!recording
  <1>4. ASSUME ~ crossed' PROVE ModeSound'
    BY <1>4, SessionsAssumption DEF AnalysisInv, AnalysisTyped, MicSound, ModeSound, Recording, Modes, SessionStates,
       Calibrations, Recordings, Analysis!TapCalibrate, Analysis!SetMode, Analysis!RouteKeyNow,
       Analysis!MicOn, Analysis!Open, Analysis!capture, Analysis!calibrations, Analysis!recording
  <1> QED BY <1>1, <1>2, <1>3, <1>4 DEF AnalysisInv

\* A calibration is measured.
LEMMA AnalysisCalibratedKeeps ==
    ASSUME AnalysisInv, Analysis!Calibrated
    PROVE  AnalysisInv'
  <1>1. AnalysisTyped'
    BY SessionsAssumption DEF AnalysisInv, AnalysisTyped, MicSound, Modes, SessionStates, Calibrations, Recordings,
       Analysis!Calibrated, Analysis!SetMode, Analysis!MicMode, Analysis!Fits, Analysis!RouteKeyNow,
       Analysis!MicOn, Analysis!Open, Analysis!capture, Analysis!calibrations, Analysis!recording
  <1>2. MicSound'
    BY SessionsAssumption DEF AnalysisInv, AnalysisTyped, MicSound, SessionStates,
       Analysis!Calibrated, Analysis!SetMode, Analysis!MicMode, Analysis!Fits, Analysis!RouteKeyNow,
       Analysis!MicOn, Analysis!Open, Analysis!capture, Analysis!calibrations, Analysis!recording
  <1>3. (calibration # Nobody => calibration = route)'
    BY SessionsAssumption DEF AnalysisInv, AnalysisTyped, MicSound, Calibrations, Recordings,
       Analysis!Calibrated, Analysis!SetMode, Analysis!MicMode, Analysis!Fits, Analysis!RouteKeyNow,
       Analysis!MicOn, Analysis!Open, Analysis!capture, Analysis!calibrations, Analysis!recording
  <1>4. ASSUME ~ crossed' PROVE ModeSound'
    BY <1>4, SessionsAssumption DEF AnalysisInv, AnalysisTyped, MicSound, ModeSound, Recording, Modes, SessionStates,
       Calibrations, Recordings, Analysis!Calibrated, Analysis!SetMode, Analysis!MicMode, Analysis!Fits,
       Analysis!RouteKeyNow, Analysis!MicOn, Analysis!Open, Analysis!capture, Analysis!calibrations,
       Analysis!recording
  <1> QED BY <1>1, <1>2, <1>3, <1>4 DEF AnalysisInv

\* A recording is asked for.
LEMMA AnalysisTapStartKeeps ==
    ASSUME AnalysisInv, Analysis!TapStart
    PROVE  AnalysisInv'
  <1>1. AnalysisTyped'
    BY SessionsAssumption DEF AnalysisInv, AnalysisTyped, MicSound, Modes, SessionStates, Calibrations, Recordings,
       Analysis!TapStart, Analysis!SetMode, Analysis!MicOn, Analysis!Open, Analysis!capture,
       Analysis!calibrations, Analysis!recording
  <1>2. MicSound'
    BY SessionsAssumption DEF AnalysisInv, AnalysisTyped, MicSound, SessionStates,
       Analysis!TapStart, Analysis!SetMode, Analysis!MicOn, Analysis!Open, Analysis!capture,
       Analysis!calibrations, Analysis!recording
  <1>3. (calibration # Nobody => calibration = route)'
    BY SessionsAssumption DEF AnalysisInv, AnalysisTyped, MicSound, Calibrations, Recordings,
       Analysis!TapStart, Analysis!SetMode, Analysis!MicOn, Analysis!Open, Analysis!capture,
       Analysis!calibrations, Analysis!recording
  <1>4. ASSUME ~ crossed' PROVE ModeSound'
    BY <1>4, SessionsAssumption DEF AnalysisInv, AnalysisTyped, MicSound, ModeSound, Recording, Modes, SessionStates,
       Calibrations, Recordings, Analysis!TapStart, Analysis!SetMode, Analysis!MicOn, Analysis!Open,
       Analysis!capture, Analysis!calibrations, Analysis!recording
  <1> QED BY <1>1, <1>2, <1>3, <1>4 DEF AnalysisInv

\* A recording is prepared.
LEMMA AnalysisPreparedKeeps ==
    ASSUME AnalysisInv, NEW p \in preps, Analysis!Prepared(p)
    PROVE  AnalysisInv'
  <1>1. AnalysisTyped'
    <2>1. (session \in [Sessions -> SessionStates])'
      BY SessionsAssumption DEF AnalysisInv, AnalysisTyped, MicSound, Modes, SessionStates, Calibrations, Recordings,
       Analysis!Prepared, Analysis!SetMode, Analysis!MicMode, Analysis!StillWanted, Analysis!MicOn,
       Analysis!Open, Analysis!capture, Analysis!calibrations, Analysis!recording
    <2>2. (current \in Sessions \cup {0} /\ micSession \in Sessions \cup {0})'
      BY SessionsAssumption DEF AnalysisInv, AnalysisTyped, MicSound, Modes, SessionStates, Calibrations, Recordings,
       Analysis!Prepared, Analysis!SetMode, Analysis!MicMode, Analysis!StillWanted, Analysis!MicOn,
       Analysis!Open, Analysis!capture, Analysis!calibrations, Analysis!recording
    <2>3. (mode \in Modes)'
      BY SessionsAssumption DEF AnalysisInv, AnalysisTyped, MicSound, Modes, SessionStates, Calibrations, Recordings,
       Analysis!Prepared, Analysis!SetMode, Analysis!MicMode, Analysis!StillWanted, Analysis!MicOn,
       Analysis!Open, Analysis!capture, Analysis!calibrations, Analysis!recording
    <2>4. (shown \in BOOLEAN)'
      BY SessionsAssumption DEF AnalysisInv, AnalysisTyped, MicSound, Modes, SessionStates, Calibrations, Recordings,
       Analysis!Prepared, Analysis!SetMode, Analysis!MicMode, Analysis!StillWanted, Analysis!MicOn,
       Analysis!Open, Analysis!capture, Analysis!calibrations, Analysis!recording
    <2>5. (route \in Routes)'
      BY SessionsAssumption DEF AnalysisInv, AnalysisTyped, MicSound, Modes, SessionStates, Calibrations, Recordings,
       Analysis!Prepared, Analysis!SetMode, Analysis!MicMode, Analysis!StillWanted, Analysis!MicOn,
       Analysis!Open, Analysis!capture, Analysis!calibrations, Analysis!recording
    <2>6. (running \in BOOLEAN)'
      BY SessionsAssumption DEF AnalysisInv, AnalysisTyped, MicSound, Modes, SessionStates, Calibrations, Recordings,
       Analysis!Prepared, Analysis!SetMode, Analysis!MicMode, Analysis!StillWanted, Analysis!MicOn,
       Analysis!Open, Analysis!capture, Analysis!calibrations, Analysis!recording
    <2>7. (calSeq \in Nat)'
      BY SessionsAssumption DEF AnalysisInv, AnalysisTyped, MicSound, Modes, SessionStates, Calibrations, Recordings,
       Analysis!Prepared, Analysis!SetMode, Analysis!MicMode, Analysis!StillWanted, Analysis!MicOn,
       Analysis!Open, Analysis!capture, Analysis!calibrations, Analysis!recording
    <2>8. (calibration \in Routes \cup {Nobody} /\ candidate \in Routes \cup {Nobody})'
      BY SessionsAssumption DEF AnalysisInv, AnalysisTyped, MicSound, Modes, SessionStates, Calibrations, Recordings,
       Analysis!Prepared, Analysis!SetMode, Analysis!MicMode, Analysis!StillWanted, Analysis!MicOn,
       Analysis!Open, Analysis!capture, Analysis!calibrations, Analysis!recording
    <2>9. (collect \in Calibrations \cup Recordings \cup {Nobody})'
      BY SessionsAssumption DEF AnalysisInv, AnalysisTyped, MicSound, Modes, SessionStates, Calibrations, Recordings,
       Analysis!Prepared, Analysis!SetMode, Analysis!MicMode, Analysis!StillWanted, Analysis!MicOn,
       Analysis!Open, Analysis!capture, Analysis!calibrations, Analysis!recording
    <2>10. (preps \subseteq [id : Nat, session : Sessions \cup {0}])'
      BY SessionsAssumption DEF AnalysisInv, AnalysisTyped, MicSound, Modes, SessionStates, Calibrations, Recordings,
       Analysis!Prepared, Analysis!SetMode, Analysis!MicMode, Analysis!StillWanted, Analysis!MicOn,
       Analysis!Open, Analysis!capture, Analysis!calibrations, Analysis!recording
    <2>11. (guardOff \in BOOLEAN /\ prepared \in Nat /\ crossed \in BOOLEAN)'
      BY SessionsAssumption DEF AnalysisInv, AnalysisTyped, MicSound, Modes, SessionStates, Calibrations, Recordings,
       Analysis!Prepared, Analysis!SetMode, Analysis!MicMode, Analysis!StillWanted, Analysis!MicOn,
       Analysis!Open, Analysis!capture, Analysis!calibrations, Analysis!recording
    <2>12. (broken \subseteq Sessions)'
      BY SessionsAssumption DEF AnalysisInv, AnalysisTyped, MicSound, Modes, SessionStates, Calibrations, Recordings,
       Analysis!Prepared, Analysis!SetMode, Analysis!MicMode, Analysis!StillWanted, Analysis!MicOn,
       Analysis!Open, Analysis!capture, Analysis!calibrations, Analysis!recording
    <2> QED BY <2>1, <2>2, <2>3, <2>4, <2>5, <2>6, <2>7, <2>8, <2>9, <2>10, <2>11, <2>12 DEF AnalysisTyped
  <1>2. MicSound'
    BY SessionsAssumption DEF AnalysisInv, AnalysisTyped, MicSound, SessionStates,
       Analysis!Prepared, Analysis!SetMode, Analysis!MicMode, Analysis!StillWanted, Analysis!MicOn,
       Analysis!Open, Analysis!capture, Analysis!calibrations, Analysis!recording
  <1>3. (calibration # Nobody => calibration = route)'
    BY SessionsAssumption DEF AnalysisInv, AnalysisTyped, MicSound, Calibrations, Recordings,
       Analysis!Prepared, Analysis!SetMode, Analysis!MicMode, Analysis!StillWanted, Analysis!MicOn,
       Analysis!Open, Analysis!capture, Analysis!calibrations, Analysis!recording
  <1>4. ASSUME ~ crossed' PROVE ModeSound'
    <2>1. CASE Analysis!StillWanted(p)
      <3>1. ~ crossed /\ ModeSound /\ p.session = micSession /\ micSession # 0 /\ current = micSession
        BY <1>4, <2>1 DEF AnalysisInv, AnalysisTyped, Analysis!Prepared, Analysis!StillWanted, Analysis!MicOn
      <3>2. collect = Nobody /\ guards = 0 /\ session[micSession] = "on" /\ mode = "preparing"
        BY <2>1, <3>1 DEF ModeSound, Recording, Analysis!StillWanted, Analysis!MicOn, Analysis!Open
      <3>3. collect' = [kind |-> "analysis", session |-> micSession, key |-> calibration, route |-> route]
        BY <2>1, <3>1 DEF Analysis!Prepared
      <3>4. collect' \in Recordings /\ collect' # Nobody /\ collect'.kind = "analysis"
        BY <3>1, <3>3, SessionsAssumption DEF AnalysisInv, AnalysisTyped, Recordings
      <3>5. /\ mode' = "analyzing" /\ guards' = 1 /\ guardOff' /\ preps' = preps \ {p}
            /\ UNCHANGED <<session, current, micSession, route, calibration>>
        BY <2>1, <3>2 DEF Analysis!Prepared, Analysis!SetMode, Analysis!capture, Analysis!calibrations
      <3>6. shown'
        BY <2>1, <3>1, <3>2, <3>5 DEF Analysis!Prepared, Analysis!SetMode, Analysis!MicOn, Analysis!Open
      <3>7. collect'.session = micSession /\ collect'.route = route /\ collect'.key \in {Nobody, route}
        BY <3>3 DEF AnalysisInv
      <3>8. \A q \in preps' : q.session # micSession /\ session[q.session] \in {"on", "closed"}
        BY <3>1, <3>5 DEF ModeSound
      <3> QED BY <3>1, <3>2, <3>4, <3>5, <3>6, <3>7, <3>8 DEF ModeSound, Recording
    <2>2. CASE ~ Analysis!StillWanted(p) /\ p.session = micSession
      BY <2>2, <1>4, SessionsAssumption DEF AnalysisInv, AnalysisTyped, MicSound, ModeSound, Recording, Modes,
         SessionStates,
         Calibrations, Recordings, Analysis!Prepared, Analysis!SetMode, Analysis!MicMode,
         Analysis!StillWanted, Analysis!MicOn, Analysis!Open, Analysis!capture, Analysis!calibrations,
         Analysis!recording
    <2>3. CASE ~ Analysis!StillWanted(p) /\ p.session # micSession
      BY <2>3, <1>4, SessionsAssumption DEF AnalysisInv, AnalysisTyped, MicSound, ModeSound, Recording, Modes,
         SessionStates,
         Calibrations, Recordings, Analysis!Prepared, Analysis!SetMode, Analysis!MicMode,
         Analysis!StillWanted, Analysis!MicOn, Analysis!Open, Analysis!capture, Analysis!calibrations,
         Analysis!recording
    <2> QED BY <2>1, <2>2, <2>3
  <1> QED BY <1>1, <1>2, <1>3, <1>4 DEF AnalysisInv

\* A recording or a calibration is ended.
LEMMA AnalysisEndKeeps ==
    ASSUME AnalysisInv, Analysis!End
    PROVE  AnalysisInv'
  <1>0. /\ collect' = Nobody /\ guardOff' \in BOOLEAN
        /\ ModeSound => ~ guardOff' /\ guards' = 0
    BY CollectEnded DEF AnalysisInv, Analysis!End
  <1>1. AnalysisTyped'
    BY <1>0, SessionsAssumption DEF AnalysisInv, AnalysisTyped, MicSound, Modes, SessionStates, Calibrations,
       Recordings,
       Analysis!End, Analysis!SetMode, Analysis!MicMode, Analysis!MicOn, Analysis!Open, Analysis!capture,
       Analysis!calibrations, Analysis!recording
  <1>2. MicSound'
    BY <1>0, SessionsAssumption DEF AnalysisInv, AnalysisTyped, MicSound, SessionStates,
       Analysis!End, Analysis!SetMode, Analysis!MicMode, Analysis!MicOn, Analysis!Open, Analysis!capture,
       Analysis!calibrations, Analysis!recording
  <1>3. (calibration # Nobody => calibration = route)'
    BY <1>0, SessionsAssumption DEF AnalysisInv, AnalysisTyped, MicSound, Calibrations, Recordings,
       Analysis!End, Analysis!SetMode, Analysis!MicMode, Analysis!MicOn, Analysis!Open, Analysis!capture,
       Analysis!calibrations, Analysis!recording
  <1>4. ASSUME ~ crossed' PROVE ModeSound'
    BY <1>0, <1>4, SessionsAssumption DEF AnalysisInv, AnalysisTyped, MicSound, ModeSound, Recording, Modes,
       SessionStates,
       Calibrations, Recordings, Analysis!End, Analysis!SetMode, Analysis!MicMode, Analysis!MicOn,
       Analysis!Open, Analysis!capture, Analysis!calibrations, Analysis!recording
  <1> QED BY <1>1, <1>2, <1>3, <1>4 DEF AnalysisInv

\* The click stops.
LEMMA AnalysisClickStopsKeeps ==
    ASSUME AnalysisInv, Analysis!ClickStops
    PROVE  AnalysisInv'
  <1>0. /\ collect' = Nobody /\ guardOff' \in BOOLEAN
        /\ ModeSound => ~ guardOff' /\ guards' = 0
    BY CollectEnded DEF AnalysisInv, Analysis!ClickStops
  <1>1. AnalysisTyped'
    <2>1. (session \in [Sessions -> SessionStates])'
      BY <1>0, SessionsAssumption DEF AnalysisInv, AnalysisTyped, MicSound, Modes, SessionStates,
         Calibrations, Recordings,
       Analysis!ClickStops, Analysis!SetMode, Analysis!MicMode, Analysis!Invalidate, Analysis!MicOn,
       Analysis!Open, Analysis!capture, Analysis!calibrations, Analysis!recording
    <2>2. (current \in Sessions \cup {0} /\ micSession \in Sessions \cup {0})'
      BY <1>0, SessionsAssumption DEF AnalysisInv, AnalysisTyped, MicSound, Modes, SessionStates,
         Calibrations, Recordings,
       Analysis!ClickStops, Analysis!SetMode, Analysis!MicMode, Analysis!Invalidate, Analysis!MicOn,
       Analysis!Open, Analysis!capture, Analysis!calibrations, Analysis!recording
    <2>3. (mode \in Modes)'
      BY <1>0, SessionsAssumption DEF AnalysisInv, AnalysisTyped, MicSound, Modes, SessionStates,
         Calibrations, Recordings,
       Analysis!ClickStops, Analysis!SetMode, Analysis!MicMode, Analysis!Invalidate, Analysis!MicOn,
       Analysis!Open, Analysis!capture, Analysis!calibrations, Analysis!recording
    <2>4. (shown \in BOOLEAN)'
      BY <1>0, SessionsAssumption DEF AnalysisInv, AnalysisTyped, MicSound, Modes, SessionStates,
         Calibrations, Recordings,
       Analysis!ClickStops, Analysis!SetMode, Analysis!MicMode, Analysis!Invalidate, Analysis!MicOn,
       Analysis!Open, Analysis!capture, Analysis!calibrations, Analysis!recording
    <2>5. (route \in Routes)'
      BY <1>0, SessionsAssumption DEF AnalysisInv, AnalysisTyped, MicSound, Modes, SessionStates,
         Calibrations, Recordings,
       Analysis!ClickStops, Analysis!SetMode, Analysis!MicMode, Analysis!Invalidate, Analysis!MicOn,
       Analysis!Open, Analysis!capture, Analysis!calibrations, Analysis!recording
    <2>6. (running \in BOOLEAN)'
      BY <1>0, SessionsAssumption DEF AnalysisInv, AnalysisTyped, MicSound, Modes, SessionStates,
         Calibrations, Recordings,
       Analysis!ClickStops, Analysis!SetMode, Analysis!MicMode, Analysis!Invalidate, Analysis!MicOn,
       Analysis!Open, Analysis!capture, Analysis!calibrations, Analysis!recording
    <2>7. (calSeq \in Nat)'
      BY <1>0, SessionsAssumption DEF AnalysisInv, AnalysisTyped, MicSound, Modes, SessionStates,
         Calibrations, Recordings,
       Analysis!ClickStops, Analysis!SetMode, Analysis!MicMode, Analysis!Invalidate, Analysis!MicOn,
       Analysis!Open, Analysis!capture, Analysis!calibrations, Analysis!recording
    <2>8. (calibration \in Routes \cup {Nobody} /\ candidate \in Routes \cup {Nobody})'
      BY <1>0, SessionsAssumption DEF AnalysisInv, AnalysisTyped, MicSound, Modes, SessionStates,
         Calibrations, Recordings,
       Analysis!ClickStops, Analysis!SetMode, Analysis!MicMode, Analysis!Invalidate, Analysis!MicOn,
       Analysis!Open, Analysis!capture, Analysis!calibrations, Analysis!recording
    <2>9. (collect \in Calibrations \cup Recordings \cup {Nobody})'
      BY <1>0, SessionsAssumption DEF AnalysisInv, AnalysisTyped, MicSound, Modes, SessionStates,
         Calibrations, Recordings,
       Analysis!ClickStops, Analysis!SetMode, Analysis!MicMode, Analysis!Invalidate, Analysis!MicOn,
       Analysis!Open, Analysis!capture, Analysis!calibrations, Analysis!recording
    <2>10. (preps \subseteq [id : Nat, session : Sessions \cup {0}])'
      BY <1>0, SessionsAssumption DEF AnalysisInv, AnalysisTyped, MicSound, Modes, SessionStates,
         Calibrations, Recordings,
       Analysis!ClickStops, Analysis!SetMode, Analysis!MicMode, Analysis!Invalidate, Analysis!MicOn,
       Analysis!Open, Analysis!capture, Analysis!calibrations, Analysis!recording
    <2>11. (guardOff \in BOOLEAN /\ prepared \in Nat /\ crossed \in BOOLEAN)'
      BY <1>0, SessionsAssumption DEF AnalysisInv, AnalysisTyped, MicSound, Modes, SessionStates,
         Calibrations, Recordings,
       Analysis!ClickStops, Analysis!SetMode, Analysis!MicMode, Analysis!Invalidate, Analysis!MicOn,
       Analysis!Open, Analysis!capture, Analysis!calibrations, Analysis!recording
    <2>12. (broken \subseteq Sessions)'
      BY <1>0, SessionsAssumption DEF AnalysisInv, AnalysisTyped, MicSound, Modes, SessionStates,
         Calibrations, Recordings,
       Analysis!ClickStops, Analysis!SetMode, Analysis!MicMode, Analysis!Invalidate, Analysis!MicOn,
       Analysis!Open, Analysis!capture, Analysis!calibrations, Analysis!recording
    <2> QED BY <2>1, <2>2, <2>3, <2>4, <2>5, <2>6, <2>7, <2>8, <2>9, <2>10, <2>11, <2>12 DEF AnalysisTyped
  <1>2. MicSound'
    BY <1>0, SessionsAssumption DEF AnalysisInv, AnalysisTyped, MicSound, SessionStates,
       Analysis!ClickStops, Analysis!SetMode, Analysis!MicMode, Analysis!Invalidate, Analysis!MicOn,
       Analysis!Open, Analysis!capture, Analysis!calibrations, Analysis!recording
  <1>3. (calibration # Nobody => calibration = route)'
    BY <1>0, SessionsAssumption DEF AnalysisInv, AnalysisTyped, MicSound, Calibrations, Recordings,
       Analysis!ClickStops, Analysis!SetMode, Analysis!MicMode, Analysis!Invalidate, Analysis!MicOn,
       Analysis!Open, Analysis!capture, Analysis!calibrations, Analysis!recording
  <1>4. ASSUME ~ crossed' PROVE ModeSound'
    BY <1>0, <1>4, SessionsAssumption DEF AnalysisInv, AnalysisTyped, MicSound, ModeSound, Recording, Modes,
       SessionStates,
       Calibrations, Recordings, Analysis!ClickStops, Analysis!SetMode, Analysis!MicMode, Analysis!Invalidate,
       Analysis!MicOn, Analysis!Open, Analysis!capture, Analysis!calibrations, Analysis!recording
  <1> QED BY <1>1, <1>2, <1>3, <1>4 DEF AnalysisInv

\* The click plays again.
LEMMA AnalysisClickPlaysKeeps ==
    ASSUME AnalysisInv, Analysis!ClickPlays
    PROVE  AnalysisInv'
  <1>1. AnalysisTyped'
    BY SessionsAssumption DEF AnalysisInv, AnalysisTyped, MicSound, Modes, SessionStates, Calibrations, Recordings,
       Analysis!ClickPlays, Analysis!MicOn, Analysis!Open, Analysis!capture, Analysis!calibrations, Analysis!recording
  <1>2. MicSound'
    BY SessionsAssumption DEF AnalysisInv, AnalysisTyped, MicSound, SessionStates,
       Analysis!ClickPlays, Analysis!MicOn, Analysis!Open, Analysis!capture, Analysis!calibrations, Analysis!recording
  <1>3. (calibration # Nobody => calibration = route)'
    BY SessionsAssumption DEF AnalysisInv, AnalysisTyped, MicSound, Calibrations, Recordings,
       Analysis!ClickPlays, Analysis!MicOn, Analysis!Open, Analysis!capture, Analysis!calibrations, Analysis!recording
  <1>4. ASSUME ~ crossed' PROVE ModeSound'
    BY <1>4, SessionsAssumption DEF AnalysisInv, AnalysisTyped, MicSound, ModeSound, Recording, Modes, SessionStates,
       Calibrations, Recordings, Analysis!ClickPlays, Analysis!MicOn, Analysis!Open, Analysis!capture,
       Analysis!calibrations, Analysis!recording
  <1> QED BY <1>1, <1>2, <1>3, <1>4 DEF AnalysisInv

\* At the start no microphone was asked for.
LEMMA AnalysisInitHolds ==
    ASSUME Analysis!Init
    PROVE  AnalysisInv
  <1>1. AnalysisTyped
    BY DEF Analysis!Init, AnalysisTyped, Modes, SessionStates
  <1>2. MicSound
    BY SessionsAssumption DEF Analysis!Init, MicSound, Analysis!Open
  <1>3. ModeSound
    BY DEF Analysis!Init, ModeSound, Recording
  <1> QED BY <1>1, <1>2, <1>3 DEF AnalysisInv, Analysis!Init

\* Every step of the screen keeps the invariant.
LEMMA AnalysisStepKeeps ==
    ASSUME AnalysisInv, Analysis!Next
    PROVE  AnalysisInv'
  <1>1. CASE Analysis!TapMic \/ Analysis!UseCandidate \/ Analysis!Forget
    BY <1>1, AnalysisTapMicKeeps, AnalysisUseCandidateKeeps, AnalysisForgetKeeps
  <1>2. CASE Analysis!TapStopMic \/ Analysis!TrackEnded \/ Analysis!Left
    <2>1. Analysis!StopMic /\ running' \in BOOLEAN
      BY <1>2 DEF Analysis!TapStopMic, Analysis!TrackEnded, Analysis!Left, AnalysisInv, AnalysisTyped
    <2> QED BY <2>1, AnalysisStopKeeps
  <1>3. CASE \E s \in Sessions :
                \/ Analysis!Granted(s) \/ Analysis!Failed(s) \/ Analysis!NodeFailed(s) \/ Analysis!Started(s)
    BY <1>3, AnalysisGrantedKeeps, AnalysisFailedKeeps, AnalysisNodeFailedKeeps, AnalysisStartedKeeps
  <1>4. CASE \E r \in Routes : Analysis!ChooseRoute(r)
    BY <1>4, AnalysisRouteKeeps
  <1>5. CASE \E l \in loads : Analysis!LoadAnswers(l)
    BY <1>5, AnalysisLoadAnswersKeeps
  <1>6. CASE \E key \in removing : Analysis!Forgotten(key)
    BY <1>6, AnalysisForgottenKeeps
  <1>7. CASE Analysis!TapCalibrate \/ Analysis!Calibrated \/ Analysis!TapStart
    BY <1>7, AnalysisTapCalibrateKeeps, AnalysisCalibratedKeeps, AnalysisTapStartKeeps
  <1>8. CASE \E p \in preps : Analysis!Prepared(p)
    BY <1>8, AnalysisPreparedKeeps
  <1>9. CASE Analysis!End \/ Analysis!ClickStops \/ Analysis!ClickPlays
    BY <1>9, AnalysisEndKeeps, AnalysisClickStopsKeeps, AnalysisClickPlaysKeeps
  <1> QED BY <1>1, <1>2, <1>3, <1>4, <1>5, <1>6, <1>7, <1>8, <1>9 DEF Analysis!Next

\* What the invariant says of calibrations, recordings and microphones.
LEMMA AnalysisInvSays ==
    ASSUME AnalysisInv
    PROVE  Analysis!CalibrationFits /\ Analysis!NothingLeftBehind
  <1>1. Analysis!CalibrationFits
    BY DEF AnalysisInv, ModeSound, MicSound, Recording, Analysis!CalibrationFits
  <1>2. Analysis!NothingLeftBehind
    BY DEF AnalysisInv, ModeSound, MicSound, Recording, Analysis!NothingLeftBehind
  <1> QED BY <1>1, <1>2

-----------------------------------------------------------------------------
(* The tuner's screen *)

\* The states of the tuner's screen.
TunerStates ==
    [screen : [visible : BOOLEAN, opened : BOOLEAN, covered : BOOLEAN],
     tap : [ready : BOOLEAN, ctx : Tuner!Slots, asked : BOOLEAN],
     entry : [active : BOOLEAN, current : BOOLEAN, entering : BOOLEAN, late : BOOLEAN, primed : Tuner!Slots,
              starting : Tuner!Slots, returning : BOOLEAN, timer : BOOLEAN],
     capture : [state : Tuner!Status, at : {"none", "open", "worklet", "worker", "resume", "measuring"},
                ctx : Tuner!Slots, mic : {"none", "pending", "live"}, lock : {"none", "asked", "held"},
                current : BOOLEAN],
     tone : [state : {"none", "playing", "fading", "ending"}, exclusive : BOOLEAN, watch : BOOLEAN,
             lock : {"none", "asked", "held"}, withdrawn : BOOLEAN],
     tuner : [loaded : BOOLEAN, shown : Tuner!Status, paused : BOOLEAN, earphones : BOOLEAN],
     coord : [capture : Tuner!Captures, output : {"idle", "playing"}],
     device : [open : SUBSET Contexts, lateMic : BOOLEAN, lateLock : BOOLEAN, stray : BOOLEAN]]

\* Two owners do not hold the same context.
Distinct(c, d) == c = d => c = Nobody

\* Every open context has one owner, c is the one a handler holds that is under way.
Owned(s, c) ==
    /\ s.device.open = {s.tap.ctx, s.entry.primed, s.entry.starting, s.capture.ctx, c} \ {Nobody}
    /\ Distinct(s.tap.ctx, s.entry.primed) /\ Distinct(s.tap.ctx, s.entry.starting)
    /\ Distinct(s.tap.ctx, s.capture.ctx) /\ Distinct(s.tap.ctx, c)
    /\ Distinct(s.entry.primed, s.entry.starting) /\ Distinct(s.entry.primed, s.capture.ctx)
    /\ Distinct(s.entry.primed, c) /\ Distinct(s.entry.starting, s.capture.ctx)
    /\ Distinct(s.entry.starting, c) /\ Distinct(s.capture.ctx, c)

\* The controller has no run.
NoRun(s) == s.capture.at = "none" /\ s.capture.ctx = Nobody /\ s.capture.mic = "none" /\ ~ s.capture.current

\* Nothing is measured while an exclusive tone plays, nothing is there before the body is, and
\* one entry is under way that is the launcher's.
Coherent(s) ==
    /\ ~ s.device.stray
    /\ s.capture.at = "none" => NoRun(s)
    /\ ~ s.tuner.loaded => NoRun(s) /\ s.tone = Tuner!Silence
    /\ Tuner!Playing(s) /\ ~ s.tuner.earphones /\ ~ s.tone.withdrawn => NoRun(s)
    /\ s.entry.starting # Nobody => s.entry.entering
    /\ s.entry.entering => s.entry.active /\ s.entry.current /\ s.entry.primed = Nobody
    /\ s.entry.primed # Nobody => ~ s.capture.current

\* What holds between two handlers: a tap waits with its context while the user is there,
\* and the launcher is left when the user is away.
Settled(s) ==
    /\ s.tap.ctx # Nobody => s.tap.asked /\ ~ s.tap.ready /\ s.screen.visible /\ s.screen.opened
    /\ s.entry.active => s.tap.ready /\ s.screen.visible /\ s.screen.opened
    /\ s.entry.returning => s.tap.ready
    /\ ~ s.entry.active => s.entry.primed = Nobody /\ NoRun(s) /\ s.tone = Tuner!Silence /\ ~ s.entry.timer

\* Between two handlers no handler holds a context, and an entry waits for the body only.
Sound(s) ==
    /\ s \in TunerStates /\ Owned(s, Nobody) /\ Coherent(s)
    /\ s.entry.entering => ~ s.tuner.loaded

TunerInv == Sound(Tuner!State) /\ Settled(Tuner!State)

-----------------------------------------------------------------------------
(* The parts of the tuner's handlers *)

\* What a state of the tuner's screen consists of.
LEMMA TunerFields ==
    ASSUME NEW s \in TunerStates
    PROVE  /\ s.tap.ctx \in Tuner!Slots /\ s.entry.primed \in Tuner!Slots /\ s.entry.starting \in Tuner!Slots
           /\ s.capture.ctx \in Tuner!Slots /\ s.device.open \subseteq Contexts
           /\ s.tap.ready \in BOOLEAN /\ s.tap.asked \in BOOLEAN
           /\ s.entry.active \in BOOLEAN /\ s.entry.current \in BOOLEAN /\ s.entry.entering \in BOOLEAN
           /\ s.entry.timer \in BOOLEAN /\ s.capture.current \in BOOLEAN
           /\ s.tone.withdrawn \in BOOLEAN /\ s.tuner.loaded \in BOOLEAN /\ s.tuner.earphones \in BOOLEAN
           /\ s.device.stray \in BOOLEAN
  BY DEF TunerStates

\* The states of the parts two states share when only the capture and the body differ.
SameEntry(s, t) == t.screen = s.screen /\ t.tap = s.tap /\ t.entry = s.entry

\* Closing a context.
LEMMA CloseFields ==
    ASSUME NEW s \in TunerStates, NEW c, NEW t, t = Tuner!Close(s, c)
    PROVE  /\ t \in TunerStates /\ SameEntry(s, t) /\ t.capture = s.capture /\ t.tone = s.tone
           /\ t.tuner = s.tuner /\ t.coord = s.coord
           /\ t.device.open = s.device.open \ {c} /\ t.device.stray = s.device.stray
  BY DEF Tuner!Close, TunerStates, SameEntry

\* The coordinator is told of the capture.
LEMMA SetCaptureFields ==
    ASSUME NEW s \in TunerStates, NEW next \in Tuner!Captures, NEW t, t = Tuner!SetCapture(s, next)
    PROVE  /\ t \in TunerStates /\ SameEntry(s, t) /\ t.capture = s.capture /\ t.tone = s.tone
           /\ t.tuner = s.tuner /\ t.device = s.device
  BY DEF Tuner!SetCapture, TunerStates, SameEntry

\* The states the controller reports.
Reports == {"starting", "measuring", "hidden", "unavailable", "resume-required"}

\* A report of the controller.
LEMMA EmitFields ==
    ASSUME NEW s \in TunerStates, NEW state \in Reports, NEW t, t = Tuner!Emit(s, state)
    PROVE  /\ t \in TunerStates /\ SameEntry(s, t) /\ t.tone = s.tone /\ t.device = s.device
           /\ t.capture.state = state /\ t.capture.at = s.capture.at /\ t.capture.ctx = s.capture.ctx
           /\ t.capture.mic = s.capture.mic /\ t.capture.current = s.capture.current
           /\ t.tuner.loaded = s.tuner.loaded /\ t.tuner.earphones = s.tuner.earphones
  <1> DEFINE u == [s EXCEPT !.capture.state = state]
             look == IF s.tuner.paused /\ state = "hidden" THEN "paused" ELSE state
             v == [u EXCEPT !.tuner.shown = look]
             next == CASE state = "measuring" -> "running"
                       [] state = "hidden" -> IF s.tuner.paused THEN "paused" ELSE "stopped"
                       [] OTHER -> state
             w == [s EXCEPT !.capture.state = state, !.tuner.shown = look]
  <1>1. look \in Tuner!Status /\ next \in Tuner!Captures /\ state \in Tuner!Status
    BY DEF Reports, Tuner!Status, Tuner!Captures
  <1>2. w = v
    BY DEF TunerStates
  <1>3. t = Tuner!SetCapture(w, next)
    BY DEF Tuner!Emit
  <1> HIDE DEF look, next, w, v
  <1>4. /\ u \in TunerStates /\ SameEntry(s, u) /\ u.tone = s.tone /\ u.device = s.device /\ u.tuner = s.tuner
        /\ u.capture.state = state /\ u.capture.at = s.capture.at /\ u.capture.ctx = s.capture.ctx
        /\ u.capture.mic = s.capture.mic /\ u.capture.current = s.capture.current
    BY <1>1 DEF TunerStates, SameEntry
  <1> HIDE DEF u
  <1>5. /\ v \in TunerStates /\ SameEntry(u, v) /\ v.tone = u.tone /\ v.device = u.device /\ v.capture = u.capture
        /\ v.tuner.loaded = u.tuner.loaded /\ v.tuner.earphones = u.tuner.earphones
    BY <1>1, <1>4 DEF v, TunerStates, SameEntry
  <1>6. v \in TunerStates /\ t = Tuner!SetCapture(v, next)
    BY <1>2, <1>3, <1>5
  <1>7. t \in TunerStates /\ SameEntry(v, t) /\ t.capture = v.capture /\ t.tone = v.tone
        /\ t.tuner = v.tuner /\ t.device = v.device
    BY <1>1, <1>6, SetCaptureFields
  <1> QED BY <1>4, <1>5, <1>7 DEF SameEntry

\* A run that is over.
LEMMA TeardownFields ==
    ASSUME NEW s \in TunerStates, NEW t, t = Tuner!Teardown(s)
    PROVE  /\ t \in TunerStates /\ SameEntry(s, t) /\ t.tone = s.tone /\ t.tuner = s.tuner /\ NoRun(t)
           /\ t.device.open = s.device.open \ {s.capture.ctx} /\ t.device.stray = s.device.stray
  <1> DEFINE u == Tuner!Close(s, s.capture.ctx)
             over == [Tuner!Idle EXCEPT !.state = s.capture.state]
             mic == u.device.lateMic \/ s.capture.mic = "pending"
             lock == u.device.lateLock \/ s.capture.lock = "asked"
             v == [u EXCEPT !.capture = over]
             w == [v EXCEPT !.device.lateMic = mic]
             x == [w EXCEPT !.device.lateLock = lock]
  <1>1. /\ u \in TunerStates /\ SameEntry(s, u) /\ u.tone = s.tone /\ u.tuner = s.tuner
        /\ u.device.open = s.device.open \ {s.capture.ctx} /\ u.device.stray = s.device.stray
    BY CloseFields
  <1>2. t = [u EXCEPT !.capture = over, !.device.lateMic = mic, !.device.lateLock = lock]
    BY <1>1 DEF Tuner!Teardown, TunerStates
  <1>3. /\ over \in [state : Tuner!Status, at : {"none", "open", "worklet", "worker", "resume", "measuring"},
                    ctx : Tuner!Slots, mic : {"none", "pending", "live"}, lock : {"none", "asked", "held"},
                    current : BOOLEAN]
        /\ over.at = "none" /\ over.ctx = Nobody /\ over.mic = "none" /\ ~ over.current
    <2>1. s.capture.state \in Tuner!Status
      BY DEF TunerStates
    <2> QED BY <2>1 DEF Tuner!Idle, Tuner!Slots
  <1>4. mic \in BOOLEAN /\ lock \in BOOLEAN
    OBVIOUS
  <1>5. t = x
    BY <1>1, <1>2 DEF TunerStates
  <1> HIDE DEF u, over, mic, lock, x
  <1>6. /\ v \in TunerStates /\ SameEntry(u, v)
        /\ v.tone = u.tone /\ v.tuner = u.tuner /\ v.device = u.device /\ v.capture = over
    BY <1>1, <1>3 DEF TunerStates, SameEntry
  <1> HIDE DEF v
  <1>7. /\ w \in TunerStates /\ SameEntry(v, w) /\ w.tone = v.tone /\ w.tuner = v.tuner /\ w.capture = v.capture
        /\ w.device.open = v.device.open /\ w.device.stray = v.device.stray
    BY <1>4, <1>6 DEF TunerStates, SameEntry
  <1> HIDE DEF w
  <1>8. /\ x \in TunerStates /\ SameEntry(w, x) /\ x.tone = w.tone /\ x.tuner = w.tuner /\ x.capture = w.capture
        /\ x.device.open = w.device.open /\ x.device.stray = w.device.stray
    BY <1>4, <1>7 DEF x, TunerStates, SameEntry
  <1> QED BY <1>1, <1>3, <1>5, <1>6, <1>7, <1>8 DEF SameEntry, NoRun

\* The controller is stopped.
LEMMA StopCaptureFields ==
    ASSUME NEW s \in TunerStates, s.capture.at = "none" => NoRun(s), NEW t, t = Tuner!StopCapture(s)
    PROVE  /\ t \in TunerStates /\ SameEntry(s, t) /\ t.tone = s.tone /\ NoRun(t)
           /\ t.tuner.loaded = s.tuner.loaded /\ t.tuner.earphones = s.tuner.earphones
           /\ t.device.open = s.device.open \ {s.capture.ctx} /\ t.device.stray = s.device.stray
  <1>1. CASE s.capture.at = "none" /\ s.capture.state = "hidden"
    <2>1. t = s
      BY <1>1 DEF Tuner!StopCapture
    <2>2. s.device.open = s.device.open \ {s.capture.ctx}
      BY <1>1, TunerFields, ContextsAssumption DEF NoRun
    <2> QED BY <1>1, <2>1, <2>2 DEF SameEntry
  <1>2. CASE ~ (s.capture.at = "none" /\ s.capture.state = "hidden")
    <2> DEFINE u == Tuner!Teardown(s)
    <2>1. /\ u \in TunerStates /\ SameEntry(s, u) /\ u.tone = s.tone /\ u.tuner = s.tuner /\ NoRun(u)
          /\ u.device.open = s.device.open \ {s.capture.ctx} /\ u.device.stray = s.device.stray
      BY TeardownFields
    <2>2. t = Tuner!Emit(u, "hidden") /\ "hidden" \in Reports
      BY <1>2 DEF Tuner!StopCapture, Reports
    <2> HIDE DEF u
    <2>3. /\ t \in TunerStates /\ SameEntry(u, t) /\ t.tone = u.tone /\ t.device = u.device
          /\ t.capture.at = u.capture.at /\ t.capture.ctx = u.capture.ctx
          /\ t.capture.mic = u.capture.mic /\ t.capture.current = u.capture.current
          /\ t.tuner.loaded = u.tuner.loaded /\ t.tuner.earphones = u.tuner.earphones
      BY <2>1, <2>2, EmitFields
    <2> QED BY <2>1, <2>3 DEF SameEntry, NoRun
  <1> QED BY <1>1, <1>2

\* The tone is no longer watched.
LEMMA EndToneFields ==
    ASSUME NEW s \in TunerStates, NEW t, t = Tuner!EndTone(s)
    PROVE  /\ t \in TunerStates /\ SameEntry(s, t) /\ t.capture = s.capture /\ t.tuner = s.tuner /\ t.coord = s.coord
           /\ t.tone.state = s.tone.state /\ t.tone.exclusive = s.tone.exclusive /\ t.tone.withdrawn = s.tone.withdrawn
           /\ t.device.open = s.device.open /\ t.device.stray = s.device.stray
  <1> DEFINE lock == s.device.lateLock \/ s.tone.lock = "asked"
             u == [s EXCEPT !.tone.watch = FALSE]
             v == [u EXCEPT !.tone.lock = "none"]
  <1>1. lock \in BOOLEAN
    OBVIOUS
  <1>2. t = [v EXCEPT !.device.lateLock = lock]
    BY DEF Tuner!EndTone, TunerStates
  <1> HIDE DEF lock
  <1>3. /\ u \in TunerStates /\ SameEntry(s, u) /\ u.capture = s.capture /\ u.tuner = s.tuner /\ u.coord = s.coord
        /\ u.device = s.device
        /\ u.tone.state = s.tone.state /\ u.tone.exclusive = s.tone.exclusive /\ u.tone.withdrawn = s.tone.withdrawn
    BY DEF TunerStates, SameEntry
  <1> HIDE DEF u
  <1>4. /\ v \in TunerStates /\ SameEntry(u, v) /\ v.capture = u.capture /\ v.tuner = u.tuner /\ v.coord = u.coord
        /\ v.device = u.device
        /\ v.tone.state = u.tone.state /\ v.tone.exclusive = u.tone.exclusive /\ v.tone.withdrawn = u.tone.withdrawn
    BY <1>3 DEF TunerStates, SameEntry
  <1> HIDE DEF v
  <1>5. /\ t \in TunerStates /\ SameEntry(v, t) /\ t.capture = v.capture /\ t.tuner = v.tuner /\ t.coord = v.coord
        /\ t.tone = v.tone /\ t.device.open = v.device.open /\ t.device.stray = v.device.stray
    BY <1>1, <1>2, <1>4 DEF TunerStates, SameEntry
  <1> QED BY <1>3, <1>4, <1>5 DEF SameEntry

\* The tone is over.
LEMMA SilencedFields ==
    ASSUME NEW s \in TunerStates, NEW t, t = [s EXCEPT !.tone = Tuner!Silence]
    PROVE  /\ t \in TunerStates /\ SameEntry(s, t) /\ t.capture = s.capture /\ t.tuner = s.tuner /\ t.coord = s.coord
           /\ t.device = s.device /\ t.tone = Tuner!Silence
  BY DEF TunerStates, SameEntry, Tuner!Silence

\* What the body keeps of a pause, and of the earphones.
LEMMA TunerSetFields ==
    ASSUME NEW s \in TunerStates, NEW b \in BOOLEAN, NEW t,
           t \in {[s EXCEPT !.tuner.paused = b], [s EXCEPT !.tuner.earphones = b]}
    PROVE  /\ t \in TunerStates /\ SameEntry(s, t) /\ t.capture = s.capture /\ t.tone = s.tone /\ t.coord = s.coord
           /\ t.device = s.device /\ t.tuner.loaded = s.tuner.loaded
           /\ t = [s EXCEPT !.tuner.paused = b] => t.tuner.earphones = s.tuner.earphones
           /\ t = [s EXCEPT !.tuner.earphones = b] => t.tuner.earphones = b
  <1>1. CASE t = [s EXCEPT !.tuner.paused = b]
    BY <1>1 DEF TunerStates, SameEntry
  <1>2. CASE t = [s EXCEPT !.tuner.earphones = b]
    BY <1>2 DEF TunerStates, SameEntry
  <1> QED BY <1>1, <1>2

\* The body is stopped.
LEMMA StopBodyFields ==
    ASSUME NEW s \in TunerStates, s.capture.at = "none" => NoRun(s), NEW t, t = Tuner!StopBody(s)
    PROVE  /\ t \in TunerStates /\ SameEntry(s, t) /\ t.tone = Tuner!Silence /\ NoRun(t)
           /\ t.tuner.loaded = s.tuner.loaded
           /\ t.device.open = s.device.open \ {s.capture.ctx} /\ t.device.stray = s.device.stray
  <1> DEFINE u == Tuner!EndTone(s)
             v == [u EXCEPT !.tone = Tuner!Silence]
             w == Tuner!StopCapture(v)
             x == [w EXCEPT !.tuner.paused = FALSE]
             y == [x EXCEPT !.tuner.earphones = FALSE]
             still == [capture |-> "stopped", output |-> "idle"]
  <1>1. /\ u \in TunerStates /\ SameEntry(s, u) /\ u.capture = s.capture /\ u.tuner = s.tuner
        /\ u.device.open = s.device.open /\ u.device.stray = s.device.stray
    BY EndToneFields
  <1>2. t = [w EXCEPT !.tuner.paused = FALSE, !.tuner.earphones = FALSE, !.coord = still]
    BY DEF Tuner!StopBody
  <1> HIDE DEF u
  <1>3. /\ v \in TunerStates /\ SameEntry(u, v) /\ v.capture = u.capture /\ v.tuner = u.tuner
        /\ v.device = u.device /\ v.tone = Tuner!Silence
    BY <1>1, SilencedFields
  <1>4. v.capture.at = "none" => NoRun(v)
    BY <1>1, <1>3 DEF NoRun
  <1> HIDE DEF v
  <1>5. /\ w \in TunerStates /\ SameEntry(v, w) /\ w.tone = v.tone /\ NoRun(w)
        /\ w.tuner.loaded = v.tuner.loaded
        /\ w.device.open = v.device.open \ {v.capture.ctx} /\ w.device.stray = v.device.stray
    BY <1>3, <1>4, StopCaptureFields
  <1> HIDE DEF w
  <1>6. still \in [capture : Tuner!Captures, output : {"idle", "playing"}]
    BY DEF Tuner!Captures
  <1> HIDE DEF still
  <1>7. t = [y EXCEPT !.coord = still]
    BY <1>2, <1>5 DEF TunerStates
  <1>8. /\ x \in TunerStates /\ SameEntry(w, x) /\ x.tone = w.tone /\ x.capture = w.capture /\ x.device = w.device
        /\ x.tuner.loaded = w.tuner.loaded
    BY <1>5, TunerSetFields
  <1> HIDE DEF x
  <1>9. /\ y \in TunerStates /\ SameEntry(x, y) /\ y.tone = x.tone /\ y.capture = x.capture /\ y.device = x.device
        /\ y.tuner.loaded = x.tuner.loaded
    BY <1>8, TunerSetFields
  <1> HIDE DEF y
  <1>10. /\ t \in TunerStates /\ SameEntry(y, t) /\ t.tone = y.tone /\ t.capture = y.capture /\ t.device = y.device
         /\ t.tuner = y.tuner
    BY <1>6, <1>7, <1>9 DEF TunerStates, SameEntry
  <1> QED BY <1>1, <1>3, <1>5, <1>8, <1>9, <1>10 DEF SameEntry, NoRun

\* A new generation of the launcher.
LEMMA BumpFields ==
    ASSUME NEW s \in TunerStates, NEW t, t = Tuner!Bump(s)
    PROVE  /\ t \in TunerStates /\ t.screen = s.screen /\ t.tap = s.tap /\ t.tone = s.tone /\ t.tuner = s.tuner
           /\ t.coord = s.coord /\ t.device = s.device
           /\ t.entry.active = s.entry.active /\ ~ t.entry.current /\ t.entry.entering = s.entry.entering
           /\ t.entry.primed = s.entry.primed /\ t.entry.starting = s.entry.starting
           /\ t.entry.timer = s.entry.timer
           /\ ~ t.capture.current /\ t.capture.at = s.capture.at /\ t.capture.ctx = s.capture.ctx
           /\ t.capture.mic = s.capture.mic /\ t.capture.state = s.capture.state
  <1> DEFINE u == [s EXCEPT !.entry.current = FALSE]
             v == [u EXCEPT !.capture.current = FALSE]
             other == s.entry.late \/ s.entry.entering
  <1>1. other \in BOOLEAN
    OBVIOUS
  <1>2. t = [v EXCEPT !.entry.late = other]
    BY DEF Tuner!Bump, TunerStates
  <1> HIDE DEF other
  <1>3. /\ u \in TunerStates /\ u.screen = s.screen /\ u.tap = s.tap /\ u.tone = s.tone /\ u.tuner = s.tuner
        /\ u.coord = s.coord /\ u.device = s.device /\ u.capture = s.capture
        /\ u.entry.active = s.entry.active /\ ~ u.entry.current /\ u.entry.entering = s.entry.entering
        /\ u.entry.primed = s.entry.primed /\ u.entry.starting = s.entry.starting /\ u.entry.timer = s.entry.timer
    BY DEF TunerStates
  <1> HIDE DEF u
  <1>4. /\ v \in TunerStates /\ v.screen = u.screen /\ v.tap = u.tap /\ v.tone = u.tone /\ v.tuner = u.tuner
        /\ v.coord = u.coord /\ v.device = u.device /\ v.entry = u.entry
        /\ ~ v.capture.current /\ v.capture.at = u.capture.at /\ v.capture.ctx = u.capture.ctx
        /\ v.capture.mic = u.capture.mic /\ v.capture.state = u.capture.state
    BY <1>3 DEF TunerStates
  <1> HIDE DEF v
  <1>5. /\ t \in TunerStates /\ t.screen = v.screen /\ t.tap = v.tap /\ t.tone = v.tone /\ t.tuner = v.tuner
        /\ t.coord = v.coord /\ t.device = v.device /\ t.capture = v.capture
        /\ t.entry.active = v.entry.active /\ t.entry.current = v.entry.current /\ t.entry.entering = v.entry.entering
        /\ t.entry.primed = v.entry.primed /\ t.entry.starting = v.entry.starting /\ t.entry.timer = v.entry.timer
    BY <1>1, <1>2, <1>4 DEF TunerStates
  <1> QED BY <1>3, <1>4, <1>5

\* The launcher is left.
LEMMA LeaveLauncherFields ==
    ASSUME NEW s \in TunerStates, s.capture.at = "none" => NoRun(s),
           ~ s.tuner.loaded => NoRun(s) /\ s.tone = Tuner!Silence,
           NEW t, t = Tuner!LeaveLauncher(s)
    PROVE  /\ t \in TunerStates /\ t.screen = s.screen /\ t.tap = s.tap /\ t.tone = Tuner!Silence /\ NoRun(t)
           /\ ~ t.entry.active /\ ~ t.entry.entering /\ ~ t.entry.timer /\ ~ t.entry.returning
           /\ t.entry.primed = Nobody /\ t.entry.starting = Nobody
           /\ t.tuner.loaded = s.tuner.loaded
           /\ t.device.open = s.device.open \ {s.entry.primed, s.entry.starting, s.capture.ctx}
           /\ t.device.stray = s.device.stray
  <1> DEFINE b == Tuner!Bump(s)
             c == Tuner!Close(b, s.entry.primed)
             d == Tuner!Close(c, s.entry.starting)
             out == [d.entry EXCEPT !.active = FALSE, !.entering = FALSE, !.primed = Nobody,
                                    !.starting = Nobody, !.returning = FALSE, !.timer = FALSE]
             u == [d EXCEPT !.entry = out]
  <1>1. /\ b \in TunerStates /\ b.screen = s.screen /\ b.tap = s.tap /\ b.tone = s.tone /\ b.tuner = s.tuner
        /\ b.device = s.device /\ b.capture.at = s.capture.at /\ b.capture.ctx = s.capture.ctx
        /\ b.capture.mic = s.capture.mic /\ ~ b.capture.current
    BY BumpFields
  <1>2. t = IF s.tuner.loaded THEN Tuner!StopBody(u) ELSE u
    <2>1. d.entry = d.entry
      OBVIOUS
    <2> HIDE DEF b
    <2>2. /\ c \in TunerStates /\ c.tuner = b.tuner
      BY <1>1, CloseFields
    <2> HIDE DEF c
    <2>3. d \in TunerStates /\ d.tuner = c.tuner
      BY <2>2, CloseFields
    <2>4. u = [d EXCEPT !.entry = [@ EXCEPT !.active = FALSE, !.entering = FALSE, !.primed = Nobody,
                                            !.starting = Nobody, !.returning = FALSE, !.timer = FALSE]]
      BY <2>3 DEF TunerStates
    <2> HIDE DEF u
    <2>5. u.tuner.loaded = s.tuner.loaded
      BY <1>1, <2>2, <2>3 DEF u, TunerStates
    <2> QED BY <2>4, <2>5 DEF Tuner!LeaveLauncher, b, c
  <1> HIDE DEF b
  <1>3. /\ c \in TunerStates /\ SameEntry(b, c) /\ c.capture = b.capture /\ c.tone = b.tone /\ c.tuner = b.tuner
        /\ c.device.open = b.device.open \ {s.entry.primed} /\ c.device.stray = b.device.stray
    BY <1>1, CloseFields
  <1> HIDE DEF c
  <1>4. /\ d \in TunerStates /\ SameEntry(c, d) /\ d.capture = c.capture /\ d.tone = c.tone /\ d.tuner = c.tuner
        /\ d.device.open = c.device.open \ {s.entry.starting} /\ d.device.stray = c.device.stray
    BY <1>3, CloseFields
  <1> HIDE DEF d
  <1>5. /\ out \in [active : BOOLEAN, current : BOOLEAN, entering : BOOLEAN, late : BOOLEAN, primed : Tuner!Slots,
                    starting : Tuner!Slots, returning : BOOLEAN, timer : BOOLEAN]
        /\ ~ out.active /\ ~ out.entering /\ ~ out.timer /\ ~ out.returning
        /\ out.primed = Nobody /\ out.starting = Nobody
    <2>1. d.entry \in [active : BOOLEAN, current : BOOLEAN, entering : BOOLEAN, late : BOOLEAN, primed : Tuner!Slots,
                       starting : Tuner!Slots, returning : BOOLEAN, timer : BOOLEAN]
      BY <1>4 DEF TunerStates
    <2> QED BY <2>1 DEF Tuner!Slots
  <1> HIDE DEF out
  <1>6. /\ u \in TunerStates /\ u.screen = d.screen /\ u.tap = d.tap /\ u.capture = d.capture /\ u.tone = d.tone
        /\ u.tuner = d.tuner /\ u.device = d.device /\ u.entry = out
    BY <1>4, <1>5 DEF TunerStates
  <1> HIDE DEF u
  <1>7. /\ u.capture.at = s.capture.at /\ u.capture.ctx = s.capture.ctx /\ u.capture.mic = s.capture.mic
        /\ ~ u.capture.current /\ u.tone = s.tone /\ u.tuner = s.tuner
        /\ u.device.open = (s.device.open \ {s.entry.primed}) \ {s.entry.starting}
        /\ u.device.stray = s.device.stray /\ u.screen = s.screen /\ u.tap = s.tap
    BY <1>1, <1>3, <1>4, <1>6 DEF SameEntry
  <1>8. CASE s.tuner.loaded
    <2>1. u.capture.at = "none" => NoRun(u)
      BY <1>7 DEF NoRun
    <2>2. /\ t \in TunerStates /\ SameEntry(u, t) /\ t.tone = Tuner!Silence /\ NoRun(t)
          /\ t.tuner.loaded = u.tuner.loaded
          /\ t.device.open = u.device.open \ {u.capture.ctx} /\ t.device.stray = u.device.stray
      BY <1>2, <1>6, <1>8, <2>1, StopBodyFields
    <2> QED BY <2>2, <1>5, <1>6, <1>7 DEF SameEntry
  <1>9. CASE ~ s.tuner.loaded
    <2>1. NoRun(u) /\ u.tone = Tuner!Silence /\ s.capture.ctx = Nobody
      BY <1>7, <1>9 DEF NoRun
    <2>2. u.device.open = s.device.open \ {s.entry.primed, s.entry.starting, s.capture.ctx}
      BY <1>7, <2>1, TunerFields, ContextsAssumption
    <2> QED BY <1>2, <1>5, <1>6, <1>7, <1>9, <2>1, <2>2
  <1> QED BY <1>8, <1>9

\* Leaving keeps what a waiting tap has, and nothing else.
LEMMA LeaveLauncherKeeps ==
    ASSUME NEW s \in TunerStates, Owned(s, Nobody), ~ s.device.stray, s.capture.at = "none" => NoRun(s),
           ~ s.tuner.loaded => NoRun(s) /\ s.tone = Tuner!Silence,
           NEW t, t = Tuner!LeaveLauncher(s)
    PROVE  /\ Sound(t) /\ t.screen = s.screen /\ t.tap = s.tap /\ ~ t.entry.active
           /\ t.device.open = {s.tap.ctx} \ {Nobody}
           /\ (s.tap.ctx # Nobody => s.tap.asked /\ ~ s.tap.ready /\ s.screen.visible /\ s.screen.opened) => Settled(t)
  <1>1. /\ t \in TunerStates /\ t.screen = s.screen /\ t.tap = s.tap /\ t.tone = Tuner!Silence /\ NoRun(t)
        /\ ~ t.entry.active /\ ~ t.entry.entering /\ ~ t.entry.timer /\ ~ t.entry.returning
        /\ t.entry.primed = Nobody /\ t.entry.starting = Nobody
        /\ t.tuner.loaded = s.tuner.loaded
        /\ t.device.open = s.device.open \ {s.entry.primed, s.entry.starting, s.capture.ctx}
        /\ t.device.stray = s.device.stray
    BY LeaveLauncherFields
  <1>2. t.device.open = {s.tap.ctx} \ {Nobody}
    BY <1>1 DEF Owned, Distinct
  <1>3. Owned(t, Nobody)
    BY <1>1, <1>2 DEF Owned, Distinct, NoRun
  <1>4. Coherent(t)
    BY <1>1 DEF Coherent, NoRun
  <1>5. (s.tap.ctx # Nobody => s.tap.asked /\ ~ s.tap.ready /\ s.screen.visible /\ s.screen.opened) => Settled(t)
    BY <1>1 DEF Settled
  <1> QED BY <1>1, <1>2, <1>3, <1>4, <1>5 DEF Sound

\* There is another context.
LEMMA FreshIs ==
    ASSUME NEW s \in TunerStates, Contexts \ s.device.open # {}
    PROVE  Tuner!Fresh(s) \in Contexts /\ Tuner!Fresh(s) \notin s.device.open /\ Tuner!Fresh(s) # Nobody
  BY ContextsAssumption DEF Tuner!Fresh

\* The contexts that are open change.
WithOpen(s, more) == [s EXCEPT !.device.open = more]

\* Nothing else of it changes.
LEMMA OpenFields ==
    ASSUME NEW s \in TunerStates, NEW more \in SUBSET Contexts, NEW t, t = WithOpen(s, more)
    PROVE  /\ t \in TunerStates /\ SameEntry(s, t) /\ t.tone = s.tone /\ t.tuner = s.tuner /\ t.coord = s.coord
           /\ t.capture = s.capture /\ t.device.open = more /\ t.device.stray = s.device.stray
  BY DEF WithOpen, TunerStates, SameEntry

\* A context is put beside the launcher.
Put(s, f) == [s EXCEPT !.entry.primed = f, !.device.open = @ \cup {f}]

\* Nothing else of it changes.
LEMMA PutFields ==
    ASSUME NEW s \in TunerStates, NEW f \in Contexts, NEW t, t = Put(s, f)
    PROVE  /\ t \in TunerStates /\ t.screen = s.screen /\ t.tap = s.tap /\ t.tone = s.tone /\ t.tuner = s.tuner
           /\ t.capture = s.capture
           /\ t.entry.active = s.entry.active /\ t.entry.current = s.entry.current
           /\ t.entry.entering = s.entry.entering /\ t.entry.starting = s.entry.starting
           /\ t.entry.timer = s.entry.timer /\ t.entry.primed = f
           /\ t.device.open = s.device.open \cup {f} /\ t.device.stray = s.device.stray
  <1> DEFINE u == [s EXCEPT !.entry.primed = f]
             more == s.device.open \cup {f}
  <1>1. more \in SUBSET Contexts
    BY TunerFields
  <1>2. t = WithOpen(u, more)
    BY DEF Put, WithOpen, TunerStates
  <1> HIDE DEF more
  <1>3. /\ u \in TunerStates /\ u.screen = s.screen /\ u.tap = s.tap /\ u.tone = s.tone /\ u.tuner = s.tuner
        /\ u.capture = s.capture /\ u.device = s.device
        /\ u.entry.active = s.entry.active /\ u.entry.current = s.entry.current
        /\ u.entry.entering = s.entry.entering /\ u.entry.starting = s.entry.starting
        /\ u.entry.timer = s.entry.timer /\ u.entry.primed = f
    BY DEF TunerStates, Tuner!Slots
  <1> HIDE DEF u
  <1>4. /\ t \in TunerStates /\ SameEntry(u, t) /\ t.tone = u.tone /\ t.tuner = u.tuner /\ t.capture = u.capture
        /\ t.device.open = more /\ t.device.stray = u.device.stray
    BY <1>1, <1>2, <1>3, OpenFields
  <1> QED BY <1>3, <1>4 DEF more, SameEntry

\* An entry that is under way is the launcher's.
LEMMA EnteringIsActive ==
    ASSUME NEW s \in TunerStates, Coherent(s), ~ Tuner!AlreadyActive(s)
    PROVE  ~ s.entry.entering /\ s.entry.starting = Nobody
  BY DEF Coherent, Tuner!AlreadyActive

\* A tap makes a context, unless one waits or the measurement goes on.
LEMMA PrimeKeeps ==
    ASSUME NEW s, Sound(s),
           Contexts \ s.device.open # {} \/ Tuner!AlreadyActive(s) \/ s.entry.primed # Nobody,
           NEW t, t = Tuner!Prime(s)
    PROVE  /\ Sound(t) /\ t.screen = s.screen /\ t.tap = s.tap /\ t.tone = s.tone /\ t.tuner = s.tuner
           /\ t.entry.active = s.entry.active /\ t.entry.timer = s.entry.timer
           /\ Tuner!AlreadyActive(t) \/ t.entry.primed # Nobody
  <1>1. CASE Tuner!AlreadyActive(s) \/ s.entry.primed # Nobody
    BY <1>1 DEF Tuner!Prime
  <1>2. CASE ~ (Tuner!AlreadyActive(s) \/ s.entry.primed # Nobody)
    <2> DEFINE f == Tuner!Fresh(s)
               b == Tuner!Bump(s)
    <2>1. s \in TunerStates /\ Owned(s, Nobody) /\ Coherent(s) /\ s.entry.primed = Nobody
      BY <1>2 DEF Sound
    <2>2. ~ s.entry.entering /\ s.entry.starting = Nobody
      BY <1>2, <2>1, EnteringIsActive
    <2>3. f \in Contexts /\ f \notin s.device.open /\ f # Nobody
      BY <1>2, <2>1, FreshIs
    <2>4. /\ b \in TunerStates /\ b.screen = s.screen /\ b.tap = s.tap /\ b.tone = s.tone /\ b.tuner = s.tuner
          /\ b.device = s.device
          /\ b.entry.active = s.entry.active /\ b.entry.entering = s.entry.entering
          /\ b.entry.starting = s.entry.starting /\ b.entry.timer = s.entry.timer
          /\ ~ b.capture.current /\ b.capture.at = s.capture.at /\ b.capture.ctx = s.capture.ctx
          /\ b.capture.mic = s.capture.mic
      BY <2>1, BumpFields
    <2>5. t = Put(b, f)
      BY <1>2 DEF Tuner!Prime, Put
    <2> HIDE DEF b, f
    <2>6. /\ t \in TunerStates /\ t.screen = b.screen /\ t.tap = b.tap /\ t.tone = b.tone /\ t.tuner = b.tuner
          /\ t.capture = b.capture
          /\ t.entry.active = b.entry.active /\ t.entry.entering = b.entry.entering
          /\ t.entry.starting = b.entry.starting /\ t.entry.timer = b.entry.timer /\ t.entry.primed = f
          /\ t.device.open = b.device.open \cup {f} /\ t.device.stray = b.device.stray
      BY <2>3, <2>4, <2>5, PutFields
    <2>7. Owned(t, Nobody)
      BY <2>1, <2>2, <2>3, <2>4, <2>6 DEF Owned, Distinct
    <2>8. Coherent(t)
      BY <2>1, <2>2, <2>4, <2>6 DEF Coherent, NoRun, Tuner!Playing
    <2> QED BY <2>3, <2>4, <2>6, <2>7, <2>8 DEF Sound
  <1> QED BY <1>1, <1>2

\* The launcher takes the context of a tap that waited for it.
LEMMA AdoptPrimedKeeps ==
    ASSUME NEW s \in TunerStates, NEW c \in Tuner!Slots, Owned(s, c), Coherent(s),
           s.entry.entering => ~ s.tuner.loaded, Contexts \ s.device.open # {} \/ c # Nobody,
           NEW t, t = Tuner!AdoptPrimed(s, c)
    PROVE  /\ Sound(t) /\ t.screen = s.screen /\ t.tap = s.tap
           /\ Tuner!AlreadyActive(t) \/ t.entry.primed # Nobody
  <1>1. CASE c = Nobody
    <2>1. Sound(s) /\ t = Tuner!Prime(s)
      BY <1>1 DEF Sound, Tuner!AdoptPrimed
    <2> QED BY <1>1, <2>1, PrimeKeeps
  <1>2. CASE c # Nobody /\ Tuner!AlreadyActive(s)
    <2>1. t = Tuner!Close(s, c)
      BY <1>2 DEF Tuner!AdoptPrimed
    <2>2. /\ t \in TunerStates /\ SameEntry(s, t) /\ t.capture = s.capture /\ t.tone = s.tone /\ t.tuner = s.tuner
          /\ t.device.open = s.device.open \ {c} /\ t.device.stray = s.device.stray
      BY <2>1, CloseFields
    <2>3. Owned(t, Nobody)
      BY <1>2, <2>2 DEF Owned, Distinct, SameEntry
    <2>4. Coherent(t)
      BY <2>2 DEF Coherent, NoRun, SameEntry, Tuner!Playing
    <2>5. Tuner!AlreadyActive(t)
      BY <1>2, <2>2 DEF Tuner!AlreadyActive, Tuner!Busy, Tuner!Playing, SameEntry
    <2> QED BY <2>2, <2>3, <2>4, <2>5 DEF Sound, SameEntry
  <1>3. CASE c # Nobody /\ ~ Tuner!AlreadyActive(s)
    <2> DEFINE u == Tuner!Close(s, s.entry.primed)
               b == Tuner!Bump(u)
    <2>1. ~ s.entry.entering /\ s.entry.starting = Nobody
      BY <1>3, EnteringIsActive
    <2>2. /\ u \in TunerStates /\ SameEntry(s, u) /\ u.capture = s.capture /\ u.tone = s.tone /\ u.tuner = s.tuner
          /\ u.device.open = s.device.open \ {s.entry.primed} /\ u.device.stray = s.device.stray
      BY CloseFields
    <2>3. t = [b EXCEPT !.entry.primed = c]
      BY <1>3 DEF Tuner!AdoptPrimed
    <2> HIDE DEF u
    <2>4. /\ b \in TunerStates /\ b.screen = u.screen /\ b.tap = u.tap /\ b.tone = u.tone /\ b.tuner = u.tuner
          /\ b.device = u.device
          /\ b.entry.active = u.entry.active /\ b.entry.entering = u.entry.entering
          /\ b.entry.starting = u.entry.starting
          /\ ~ b.capture.current /\ b.capture.at = u.capture.at /\ b.capture.ctx = u.capture.ctx
          /\ b.capture.mic = u.capture.mic
      BY <2>2, BumpFields
    <2> HIDE DEF b
    <2>5. /\ t \in TunerStates /\ t.screen = b.screen /\ t.tap = b.tap /\ t.tone = b.tone /\ t.tuner = b.tuner
          /\ t.device = b.device /\ t.capture = b.capture
          /\ t.entry.active = b.entry.active /\ t.entry.entering = b.entry.entering
          /\ t.entry.starting = b.entry.starting /\ t.entry.primed = c
      BY <2>3, <2>4 DEF TunerStates
    <2>6. Owned(t, Nobody)
      BY <1>3, <2>1, <2>2, <2>4, <2>5 DEF Owned, Distinct, SameEntry
    <2>7. Coherent(t)
      BY <2>1, <2>2, <2>4, <2>5 DEF Coherent, NoRun, SameEntry, Tuner!Playing
    <2> QED BY <1>3, <2>2, <2>4, <2>5, <2>6, <2>7 DEF Sound, SameEntry
  <1> QED BY <1>1, <1>2, <1>3

\* A run begins with its context and asks for the microphone.
LEMMA StartCaptureKeeps ==
    ASSUME NEW s \in TunerStates, NEW c \in Tuner!Slots, Owned(s, c), Coherent(s), ~ s.entry.entering,
           c # Nobody \/ Contexts \ s.device.open # {},
           s.tuner.loaded, s.entry.active, s.entry.primed = Nobody, Tuner!Showing(s), ~ s.capture.current,
           ~ (Tuner!Playing(s) /\ Tuner!Exclusive(s)),
           NEW t, t = Tuner!StartCapture(s, c)
    PROVE  /\ Sound(t) /\ SameEntry(s, t) /\ t.tuner.loaded /\ t.capture.state = "starting"
  <1> DEFINE d == Tuner!Teardown(s)
             e == Tuner!Emit(d, "starting")
             f == [e EXCEPT !.capture.at = "open"]
             g == [f EXCEPT !.capture.current = TRUE]
             k == IF c = Nobody THEN Tuner!Fresh(s) ELSE c
             h == [g EXCEPT !.capture.ctx = k]
             i == [h EXCEPT !.capture.mic = "pending"]
             more == g.device.open \cup {k}
  <1>1. /\ d \in TunerStates /\ SameEntry(s, d) /\ d.tone = s.tone /\ d.tuner = s.tuner /\ NoRun(d)
        /\ d.device.open = s.device.open \ {s.capture.ctx} /\ d.device.stray = s.device.stray
    BY TeardownFields
  <1>2. k \in Contexts /\ k # Nobody /\ (c = Nobody => k \notin s.device.open) /\ (c # Nobody => k = c)
    BY FreshIs, ContextsAssumption DEF Tuner!Slots
  <1>3. "starting" \in Reports
    BY DEF Reports
  <1> HIDE DEF d, k
  <1>4. /\ e \in TunerStates /\ SameEntry(d, e) /\ e.tone = d.tone /\ e.device = d.device
        /\ e.capture.state = "starting" /\ e.capture.mic = d.capture.mic
        /\ e.tuner.loaded = d.tuner.loaded /\ e.tuner.earphones = d.tuner.earphones
    BY <1>1, <1>3, EmitFields
  <1> HIDE DEF e
  <1>5. /\ f \in TunerStates /\ SameEntry(e, f) /\ f.tone = e.tone /\ f.device = e.device /\ f.tuner = e.tuner
        /\ f.capture.state = e.capture.state /\ f.capture.at = "open"
    BY <1>4 DEF TunerStates, SameEntry
  <1> HIDE DEF f
  <1>6. /\ g \in TunerStates /\ SameEntry(f, g) /\ g.tone = f.tone /\ g.device = f.device /\ g.tuner = f.tuner
        /\ g.capture.state = f.capture.state /\ g.capture.at = "open" /\ g.capture.current
    BY <1>5 DEF TunerStates, SameEntry
  <1>7. t = [g EXCEPT !.capture.ctx = k, !.capture.mic = "pending", !.device.open = @ \cup {k}]
    <2>1. g = [e EXCEPT !.capture.at = "open", !.capture.current = TRUE]
      BY <1>4 DEF f, TunerStates
    <2> HIDE DEF g
    <2>2. Tuner!Guarded(g)
      BY <1>1, <1>4, <1>5, <1>6 DEF SameEntry, Tuner!Guarded, Tuner!Showing
    <2> QED BY <2>1, <2>2 DEF Tuner!StartCapture, d, e, k
  <1> HIDE DEF g
  <1>8. /\ h \in TunerStates /\ SameEntry(g, h) /\ h.tone = g.tone /\ h.device = g.device /\ h.tuner = g.tuner
        /\ h.capture.state = g.capture.state /\ h.capture.at = "open" /\ h.capture.ctx = k
    BY <1>2, <1>6 DEF TunerStates, SameEntry, Tuner!Slots
  <1>9. more \in SUBSET Contexts
    BY <1>2, <1>6, TunerFields
  <1>10. t = WithOpen(i, more)
    BY <1>6, <1>7 DEF WithOpen, TunerStates
  <1> HIDE DEF h, more
  <1>11. /\ i \in TunerStates /\ SameEntry(h, i) /\ i.tone = h.tone /\ i.device = h.device /\ i.tuner = h.tuner
         /\ i.capture.state = h.capture.state /\ i.capture.at = "open" /\ i.capture.ctx = k
    BY <1>8 DEF TunerStates, SameEntry
  <1> HIDE DEF i
  <1>12. /\ t \in TunerStates /\ SameEntry(i, t) /\ t.tone = i.tone /\ t.tuner = i.tuner /\ t.capture = i.capture
         /\ t.device.open = more /\ t.device.stray = i.device.stray
    BY <1>9, <1>10, <1>11, OpenFields
  <1>13. /\ SameEntry(s, t) /\ t.tone = s.tone /\ t.tuner.loaded /\ t.tuner.earphones = s.tuner.earphones
         /\ t.capture.state = "starting" /\ t.capture.at = "open" /\ t.capture.ctx = k
         /\ t.device.open = (s.device.open \ {s.capture.ctx}) \cup {k} /\ t.device.stray = s.device.stray
    BY <1>1, <1>4, <1>5, <1>6, <1>8, <1>11, <1>12 DEF SameEntry, more
  <1>14. Owned(t, Nobody)
    BY <1>2, <1>13 DEF Owned, Distinct, SameEntry
  <1>15. Coherent(t)
    BY <1>13 DEF Coherent, NoRun, SameEntry, Tuner!Playing, Tuner!Exclusive
  <1> QED BY <1>12, <1>13, <1>14, <1>15 DEF Sound, SameEntry

\* The body starts: it measures, or lets an exclusive tone go on.
LEMMA StartBodyKeeps ==
    ASSUME NEW s \in TunerStates, NEW c \in Tuner!Slots, Owned(s, c), Coherent(s), ~ s.entry.entering,
           c # Nobody \/ Contexts \ s.device.open # {},
           s.tuner.loaded, s.entry.active, s.entry.primed = Nobody, Tuner!Showing(s), ~ s.capture.current,
           NEW t, t = Tuner!StartBody(s, c)
    PROVE  /\ Sound(t) /\ SameEntry(s, t) /\ t.tuner.loaded /\ Tuner!Busy(t)
  <1>1. CASE Tuner!Playing(s) /\ Tuner!Exclusive(s)
    <2> DEFINE u == Tuner!Close(s, c)
    <2>1. /\ u \in TunerStates /\ SameEntry(s, u) /\ u.capture = s.capture /\ u.tone = s.tone /\ u.tuner = s.tuner
          /\ u.device.open = s.device.open \ {c} /\ u.device.stray = s.device.stray
      BY CloseFields
    <2>2. t = [u EXCEPT !.tuner.shown = "playing"]
      BY <1>1 DEF Tuner!StartBody
    <2> HIDE DEF u
    <2>3. /\ t \in TunerStates /\ SameEntry(u, t) /\ t.capture = u.capture /\ t.tone = u.tone /\ t.device = u.device
          /\ t.tuner.loaded = u.tuner.loaded /\ t.tuner.earphones = u.tuner.earphones
      BY <2>1, <2>2 DEF TunerStates, SameEntry, Tuner!Status
    <2>4. Owned(t, Nobody)
      BY <2>1, <2>3, TunerFields, ContextsAssumption DEF Owned, Distinct, SameEntry
    <2>5. Coherent(t)
      BY <2>1, <2>3 DEF Coherent, NoRun, SameEntry, Tuner!Playing
    <2>6. Tuner!Busy(t)
      BY <1>1, <2>1, <2>3 DEF Tuner!Busy, Tuner!Playing
    <2> QED BY <2>1, <2>3, <2>4, <2>5, <2>6 DEF Sound, SameEntry
  <1>2. CASE ~ (Tuner!Playing(s) /\ Tuner!Exclusive(s))
    <2> DEFINE u == [s EXCEPT !.tuner.paused = FALSE]
    <2>1. /\ u \in TunerStates /\ SameEntry(s, u) /\ u.capture = s.capture /\ u.tone = s.tone /\ u.device = s.device
          /\ u.tuner.loaded = s.tuner.loaded /\ u.tuner.earphones = s.tuner.earphones
      BY TunerSetFields
    <2>2. t = Tuner!StartCapture(u, c)
      BY <1>2 DEF Tuner!StartBody
    <2> HIDE DEF u
    <2>3. Owned(u, c) /\ Coherent(u)
      BY <2>1 DEF Owned, Coherent, NoRun, SameEntry, Tuner!Playing
    <2>4. Tuner!Showing(u) /\ ~ (Tuner!Playing(u) /\ Tuner!Exclusive(u))
      BY <1>2, <2>1 DEF Tuner!Showing, Tuner!Playing, Tuner!Exclusive, SameEntry
    <2>5. ~ u.entry.entering /\ u.tuner.loaded /\ u.entry.active /\ u.entry.primed = Nobody /\ ~ u.capture.current
      BY <2>1 DEF SameEntry
    <2>6. c # Nobody \/ Contexts \ u.device.open # {}
      BY <2>1
    <2>7. /\ Sound(t) /\ SameEntry(u, t) /\ t.tuner.loaded /\ t.capture.state = "starting"
      BY <2>1, <2>2, <2>3, <2>4, <2>5, <2>6, StartCaptureKeeps
    <2> QED BY <2>1, <2>7 DEF SameEntry, Tuner!Busy
  <1> QED BY <1>1, <1>2

\* A state that is settled because the user is there, or because the launcher was left.
LEMMA ThereIsSettled ==
    ASSUME NEW t, t.tap.ctx = Nobody, t.tap.ready, t.screen.visible, t.screen.opened, t.entry.active
    PROVE  Settled(t)
  BY DEF Settled

\* The entry goes on with the body there.
LEMMA EnteredKeeps ==
    ASSUME NEW s, s \in TunerStates, Owned(s, Nobody), Coherent(s), s.tuner.loaded, s.entry.entering,
           ~ s.capture.current,
           s.entry.starting # Nobody \/ Contexts \ s.device.open # {},
           s.tap.ctx = Nobody, s.tap.ready,
           NEW t, t = Tuner!Entered(s)
    PROVE  /\ Sound(t) /\ Settled(t) /\ t.screen = s.screen /\ t.tap = s.tap
           /\ Tuner!Showing(s) => t.entry.primed = Nobody /\ Tuner!AlreadyActive(t)
  <1> DEFINE u == [s EXCEPT !.entry.entering = FALSE]
             c == s.entry.starting
             v == [u EXCEPT !.entry.starting = Nobody]
  <1>1. /\ s \in TunerStates /\ Owned(s, Nobody) /\ Coherent(s) /\ s.entry.active /\ s.entry.current
        /\ s.entry.primed = Nobody
    BY DEF Coherent
  <1>2. /\ u \in TunerStates /\ u.screen = s.screen /\ u.tap = s.tap /\ u.capture = s.capture /\ u.tone = s.tone
        /\ u.tuner = s.tuner /\ u.device = s.device
        /\ u.entry.active /\ u.entry.current /\ ~ u.entry.entering /\ u.entry.primed = Nobody
        /\ u.entry.starting = s.entry.starting
    BY <1>1 DEF TunerStates
  <1>3. t = IF ~ Tuner!Showing(s) THEN Tuner!LeaveLauncher(u) ELSE Tuner!StartBody(v, c)
    <2>1. Tuner!Showing(u) <=> Tuner!Showing(s)
      BY <1>2 DEF Tuner!Showing
    <2> HIDE DEF u
    <2> QED BY <2>1, <1>2 DEF Tuner!Entered, u
  <1> HIDE DEF u, c
  <1>4. CASE ~ Tuner!Showing(s)
    <2>1. /\ Owned(u, Nobody) /\ ~ u.device.stray /\ (u.capture.at = "none" => NoRun(u))
          /\ (~ u.tuner.loaded => NoRun(u) /\ u.tone = Tuner!Silence)
      BY <1>1, <1>2 DEF Owned, Coherent, NoRun
    <2>2. t = Tuner!LeaveLauncher(u) /\ u.tap.ctx = Nobody
      BY <1>2, <1>3, <1>4
    <2> QED BY <1>2, <1>4, <2>1, <2>2, LeaveLauncherKeeps
  <1>5. CASE Tuner!Showing(s)
    <2>1. /\ v \in TunerStates /\ v.screen = u.screen /\ v.tap = u.tap /\ v.capture = u.capture /\ v.tone = u.tone
          /\ v.tuner = u.tuner /\ v.device = u.device
          /\ v.entry.active /\ v.entry.current /\ ~ v.entry.entering /\ v.entry.primed = Nobody
          /\ v.entry.starting = Nobody
      BY <1>2 DEF TunerStates, Tuner!Slots
    <2> HIDE DEF v
    <2>2. c \in Tuner!Slots /\ (c # Nobody \/ Contexts \ v.device.open # {})
      BY <1>1, <1>2, <2>1, TunerFields DEF c
    <2>3. Owned(v, c)
      BY <1>1, <1>2, <2>1 DEF c, Owned, Distinct
    <2>4. Coherent(v)
      BY <1>1, <1>2, <2>1 DEF Coherent, NoRun, Tuner!Playing
    <2>5. v.tuner.loaded /\ ~ v.capture.current /\ Tuner!Showing(v) /\ t = Tuner!StartBody(v, c)
      BY <1>2, <1>3, <1>5, <2>1 DEF Tuner!Showing
    <2>6. Sound(t) /\ SameEntry(v, t) /\ t.tuner.loaded /\ Tuner!Busy(t)
      BY <2>1, <2>2, <2>3, <2>4, <2>5, StartBodyKeeps
    <2>7. Tuner!AlreadyActive(t) /\ t.entry.primed = Nobody /\ t.entry.active
      BY <2>1, <2>6 DEF SameEntry, Tuner!AlreadyActive
    <2>8. t.screen = s.screen /\ t.tap = s.tap /\ t.screen.visible /\ t.screen.opened
      BY <1>2, <1>5, <2>1, <2>6 DEF SameEntry, Tuner!Showing
    <2> QED BY <2>6, <2>7, <2>8, ThereIsSettled
  <1> QED BY <1>4, <1>5

\* The launcher is entered.
LEMMA EnterTunerKeeps ==
    ASSUME NEW s, Sound(s), s.tap.ctx = Nobody, s.tap.ready,
           Contexts \ s.device.open # {} \/ s.entry.primed # Nobody \/ Tuner!AlreadyActive(s),
           NEW t, t = Tuner!Enter(s)
    PROVE  /\ Sound(t) /\ Settled(t) /\ t.screen = s.screen /\ t.tap = s.tap
           /\ Tuner!Showing(s) => t.entry.primed = Nobody /\ Tuner!AlreadyActive(t)
  <1>1. s \in TunerStates /\ Owned(s, Nobody) /\ Coherent(s)
    BY DEF Sound
  <1>2. CASE ~ Tuner!Showing(s)
    <2>1. t = Tuner!LeaveLauncher(s)
      BY <1>2 DEF Tuner!Enter
    <2>2. /\ ~ s.device.stray /\ (s.capture.at = "none" => NoRun(s))
          /\ (~ s.tuner.loaded => NoRun(s) /\ s.tone = Tuner!Silence)
      BY <1>1 DEF Coherent
    <2> QED BY <1>1, <1>2, <2>1, <2>2, LeaveLauncherKeeps
  <1>3. CASE Tuner!Showing(s) /\ s.entry.primed = Nobody /\ Tuner!AlreadyActive(s)
    <2>1. t = s /\ s.entry.active
      BY <1>3 DEF Tuner!Enter, Tuner!AlreadyActive
    <2>2. s.screen.visible /\ s.screen.opened
      BY <1>3 DEF Tuner!Showing
    <2> QED BY <1>3, <2>1, <2>2, ThereIsSettled
  <1>4. CASE Tuner!Showing(s) /\ ~ (s.entry.primed = Nobody /\ Tuner!AlreadyActive(s))
    <2> DEFINE b == IF s.entry.primed = Nobody THEN Tuner!Bump(s) ELSE s
               c == s.entry.primed
               e == [b.entry EXCEPT !.primed = Nobody, !.active = TRUE, !.current = TRUE,
                                    !.entering = TRUE, !.starting = c]
               u == [b EXCEPT !.entry = e]
    <2>1. ~ s.entry.entering /\ s.entry.starting = Nobody
      BY <1>1, <1>4, EnteringIsActive DEF Coherent
    <2>2. /\ b \in TunerStates /\ b.screen = s.screen /\ b.tap = s.tap /\ b.tone = s.tone /\ b.tuner = s.tuner
          /\ b.device = s.device
          /\ ~ b.capture.current /\ b.capture.at = s.capture.at /\ b.capture.ctx = s.capture.ctx
          /\ b.capture.mic = s.capture.mic
      <3>1. CASE s.entry.primed = Nobody
        <4>1. b = Tuner!Bump(s)
          BY <3>1
        <4> QED BY <1>1, <4>1, BumpFields
      <3>2. CASE s.entry.primed # Nobody
        <4>1. b = s /\ ~ s.capture.current
          BY <1>1, <3>2 DEF Coherent
        <4> QED BY <1>1, <4>1
      <3> QED BY <3>1, <3>2
    <2>3. t = IF s.tuner.loaded THEN Tuner!Entered(u) ELSE u
      <3> DEFINE w == [b EXCEPT !.entry.primed = Nobody, !.entry.active = TRUE, !.entry.current = TRUE,
                                !.entry.entering = TRUE, !.entry.starting = s.entry.primed]
      <3>1. t = IF s.tuner.loaded THEN Tuner!Entered(w) ELSE w
        BY <1>4 DEF Tuner!Enter
      <3> HIDE DEF b
      <3>2. w = u
        BY <2>2 DEF TunerStates
      <3> QED BY <3>1, <3>2
    <2>4. c \in Tuner!Slots
      BY <1>1, TunerFields
    <2> HIDE DEF b, c
    <2>5. /\ e \in [active : BOOLEAN, current : BOOLEAN, entering : BOOLEAN, late : BOOLEAN, primed : Tuner!Slots,
                    starting : Tuner!Slots, returning : BOOLEAN, timer : BOOLEAN]
          /\ e.active /\ e.current /\ e.entering /\ e.primed = Nobody /\ e.starting = c
      <3>1. b.entry \in [active : BOOLEAN, current : BOOLEAN, entering : BOOLEAN, late : BOOLEAN,
                         primed : Tuner!Slots, starting : Tuner!Slots, returning : BOOLEAN, timer : BOOLEAN]
        BY <2>2 DEF TunerStates
      <3> QED BY <2>4, <3>1 DEF Tuner!Slots
    <2> HIDE DEF e
    <2>6. /\ u \in TunerStates /\ u.screen = b.screen /\ u.tap = b.tap /\ u.capture = b.capture /\ u.tone = b.tone
          /\ u.tuner = b.tuner /\ u.device = b.device /\ u.entry = e
      BY <2>2, <2>5 DEF TunerStates
    <2> HIDE DEF u
    <2>7. Owned(u, Nobody)
      BY <1>1, <2>1, <2>2, <2>5, <2>6 DEF c, Owned, Distinct
    <2>8. Coherent(u)
      BY <1>1, <2>2, <2>5, <2>6 DEF Coherent, NoRun, Tuner!Playing
    <2>9. CASE s.tuner.loaded
      <3>1. /\ u \in TunerStates /\ u.tuner.loaded /\ u.entry.entering /\ ~ u.capture.current
            /\ u.tap.ctx = Nobody /\ u.tap.ready
        BY <2>2, <2>5, <2>6, <2>9
      <3>2. u.entry.starting # Nobody \/ Contexts \ u.device.open # {}
        BY <1>4, <2>2, <2>5, <2>6 DEF c
      <3>3. t = Tuner!Entered(u) /\ Tuner!Showing(u)
        BY <1>4, <2>2, <2>3, <2>6, <2>9 DEF Tuner!Showing
      <3> QED BY <2>2, <2>6, <2>7, <2>8, <3>1, <3>2, <3>3, EnteredKeeps
    <2>10. CASE ~ s.tuner.loaded
      <3>1. t = u /\ Sound(t) /\ t.entry.active /\ t.entry.primed = Nobody /\ Tuner!AlreadyActive(t)
        BY <2>2, <2>3, <2>5, <2>6, <2>7, <2>8, <2>10 DEF Sound, Tuner!AlreadyActive
      <3>2. t.screen = s.screen /\ t.tap = s.tap /\ t.screen.visible /\ t.screen.opened
        BY <1>4, <2>2, <2>6, <3>1 DEF Tuner!Showing
      <3> QED BY <3>1, <3>2, ThereIsSettled
    <2> QED BY <2>9, <2>10
  <1> QED BY <1>2, <1>3, <1>4

\* The timer of a measurement that starts again is set or taken off.
TimerOn(s) == [s EXCEPT !.entry.timer = TRUE]
TimerOff(s) == [s EXCEPT !.entry.timer = FALSE]

\* Nothing else changes.
LEMMA TimerKeeps ==
    ASSUME NEW s, Sound(s), NEW t, t = TimerOn(s) \/ t = TimerOff(s)
    PROVE  /\ Sound(t) /\ t.screen = s.screen /\ t.tap = s.tap /\ t.capture = s.capture /\ t.tone = s.tone
           /\ t.tuner = s.tuner /\ t.device = s.device
           /\ t.entry.active = s.entry.active /\ t.entry.primed = s.entry.primed
           /\ t = TimerOff(s) => ~ t.entry.timer
           /\ Tuner!AlreadyActive(t) <=> Tuner!AlreadyActive(s)
  <1>1. /\ t \in TunerStates /\ t.screen = s.screen /\ t.tap = s.tap /\ t.capture = s.capture /\ t.tone = s.tone
        /\ t.tuner = s.tuner /\ t.device = s.device
        /\ t.entry.active = s.entry.active /\ t.entry.current = s.entry.current
        /\ t.entry.entering = s.entry.entering /\ t.entry.primed = s.entry.primed
        /\ t.entry.starting = s.entry.starting /\ (t = TimerOff(s) => ~ t.entry.timer)
    <2>1. CASE t = TimerOn(s) /\ t # TimerOff(s)
      BY <2>1 DEF Sound, TunerStates, TimerOn
    <2>2. CASE t = TimerOff(s)
      BY <2>2 DEF Sound, TunerStates, TimerOff
    <2> QED BY <2>1, <2>2
  <1>2. Owned(t, Nobody) /\ Coherent(t)
    BY <1>1 DEF Sound, Owned, Coherent, NoRun, Tuner!Playing
  <1>3. Tuner!AlreadyActive(t) <=> Tuner!AlreadyActive(s)
    BY <1>1 DEF Tuner!AlreadyActive, Tuner!Busy, Tuner!Playing
  <1> QED BY <1>1, <1>2, <1>3 DEF Sound

\* A measurement that would start again does not.
LEMMA CancelResumeKeeps ==
    ASSUME NEW s, Sound(s), NEW t, t = Tuner!CancelResume(s)
    PROVE  /\ Sound(t) /\ t.screen = s.screen /\ t.tap = s.tap /\ t.capture = s.capture /\ t.tone = s.tone
           /\ t.tuner = s.tuner /\ t.coord = s.coord /\ t.entry.active = s.entry.active
  <1> DEFINE u == Tuner!Close(s, s.entry.primed)
             v == [u EXCEPT !.entry.timer = FALSE]
  <1>1. /\ u \in TunerStates /\ SameEntry(s, u) /\ u.capture = s.capture /\ u.tone = s.tone
        /\ u.tuner = s.tuner /\ u.coord = s.coord
        /\ u.device.open = s.device.open \ {s.entry.primed} /\ u.device.stray = s.device.stray
    BY CloseFields DEF Sound
  <1>2. t = [v EXCEPT !.entry.primed = Nobody]
    <2>1. t = [u EXCEPT !.entry.timer = FALSE, !.entry.primed = Nobody]
      BY DEF Tuner!CancelResume
    <2> HIDE DEF u
    <2> QED BY <1>1, <2>1 DEF TunerStates
  <1> HIDE DEF u
  <1>3. /\ v \in TunerStates /\ v.screen = u.screen /\ v.tap = u.tap /\ v.capture = u.capture /\ v.tone = u.tone
        /\ v.tuner = u.tuner /\ v.coord = u.coord /\ v.device = u.device
        /\ v.entry.active = u.entry.active /\ v.entry.current = u.entry.current
        /\ v.entry.entering = u.entry.entering /\ v.entry.starting = u.entry.starting
    BY <1>1 DEF TunerStates
  <1> HIDE DEF v
  <1>4. /\ t \in TunerStates /\ t.screen = v.screen /\ t.tap = v.tap /\ t.capture = v.capture /\ t.tone = v.tone
        /\ t.tuner = v.tuner /\ t.coord = v.coord /\ t.device = v.device
        /\ t.entry.active = v.entry.active /\ t.entry.current = v.entry.current
        /\ t.entry.entering = v.entry.entering /\ t.entry.starting = v.entry.starting /\ t.entry.primed = Nobody
    BY <1>2, <1>3 DEF TunerStates, Tuner!Slots
  <1>5. Owned(t, Nobody)
    BY <1>1, <1>3, <1>4 DEF Sound, Owned, Distinct, SameEntry
  <1>6. Coherent(t)
    BY <1>1, <1>3, <1>4 DEF Sound, Coherent, NoRun, SameEntry, Tuner!Playing
  <1> QED BY <1>1, <1>3, <1>4, <1>5, <1>6 DEF Sound, SameEntry

\* A measurement starts again, at once or after the tone has faded.
LEMMA ResumeMeasurementKeeps ==
    ASSUME NEW s, Sound(s), s.entry.active, s.tap.ctx = Nobody, s.tap.ready, s.screen.visible, s.screen.opened,
           Contexts \ s.device.open # {}, NEW delayed \in BOOLEAN, NEW t, t = Tuner!ResumeMeasurement(s, delayed)
    PROVE  Sound(t) /\ Settled(t)
  <1> DEFINE u == TimerOff(s)
             v == Tuner!Prime(u)
  <1>1. /\ Sound(u) /\ u.screen = s.screen /\ u.tap = s.tap /\ u.device = s.device /\ u.entry.active = s.entry.active
    BY TimerKeeps
  <1>2. t = IF delayed THEN TimerOn(v)
            ELSE IF v.entry.primed = Nobody THEN v ELSE Tuner!Enter(v)
    BY DEF Tuner!ResumeMeasurement, TimerOn, TimerOff
  <1> HIDE DEF u
  <1>3. /\ Sound(v) /\ v.screen = s.screen /\ v.tap = s.tap /\ v.entry.active = s.entry.active
    BY <1>1, PrimeKeeps
  <1> HIDE DEF v
  <1>4. CASE delayed
    <2>1. t = TimerOn(v)
      BY <1>2, <1>4
    <2>2. /\ Sound(t) /\ t.screen = v.screen /\ t.tap = v.tap /\ t.entry.active = v.entry.active
      BY <1>3, <2>1, TimerKeeps
    <2> QED BY <1>3, <2>2, ThereIsSettled
  <1>5. CASE ~ delayed /\ v.entry.primed = Nobody
    <2>1. t = v
      BY <1>2, <1>5
    <2> QED BY <1>3, <2>1, ThereIsSettled
  <1>6. CASE ~ delayed /\ v.entry.primed # Nobody
    <2>1. t = Tuner!Enter(v)
      BY <1>2, <1>6
    <2> QED BY <1>3, <1>6, <2>1, EnterTunerKeeps
  <1> QED BY <1>4, <1>5, <1>6

\* The tab of the tuner is shown.
LEMMA OpenedKeeps ==
    ASSUME NEW s, Sound(s), NEW t, t = Tuner!Opened(s)
    PROVE  /\ Sound(t) /\ t.screen.visible = s.screen.visible /\ t.screen.opened /\ ~ t.screen.covered
           /\ t.tap = s.tap /\ t.entry = s.entry /\ t.capture = s.capture /\ t.tone = s.tone
           /\ t.tuner = s.tuner /\ t.device = s.device
           /\ Tuner!AlreadyActive(t) <=> Tuner!AlreadyActive(s)
  <1>1. /\ t \in TunerStates /\ t.screen.visible = s.screen.visible /\ t.screen.opened /\ ~ t.screen.covered
        /\ t.tap = s.tap /\ t.entry = s.entry /\ t.capture = s.capture /\ t.tone = s.tone
        /\ t.tuner = s.tuner /\ t.device = s.device
    BY DEF Sound, TunerStates, Tuner!Opened
  <1>2. Owned(t, Nobody) /\ Coherent(t)
    BY <1>1 DEF Sound, Owned, Coherent, NoRun, Tuner!Playing
  <1>3. Tuner!AlreadyActive(t) <=> Tuner!AlreadyActive(s)
    BY <1>1 DEF Tuner!AlreadyActive, Tuner!Busy, Tuner!Playing
  <1> QED BY <1>1, <1>2, <1>3 DEF Sound

\* What the launcher, once it is there, finds requested.
LEMMA StartRequestedKeeps ==
    ASSUME NEW s, Sound(s), s.tap.ready, s.tap.ctx # Nobody => s.tap.asked,
           s.entry.active => s.screen.visible /\ s.screen.opened,
           ~ s.entry.active => s.entry.primed = Nobody /\ NoRun(s) /\ s.tone = Tuner!Silence /\ ~ s.entry.timer,
           Contexts \ s.device.open # {}, NEW t, t = Tuner!StartRequested(s)
    PROVE  /\ Sound(t) /\ Settled(t) /\ t.screen = s.screen /\ t.tap.ready /\ t.tap.ctx = Nobody
           /\ t = s \/ ~ Tuner!Showing(s) \/ (t.entry.primed = Nobody /\ Tuner!AlreadyActive(t))
  <1> DEFINE u == [s EXCEPT !.tap.ctx = Nobody]
             w == [u EXCEPT !.tap.asked = FALSE]
             a == Tuner!AdoptPrimed(w, s.tap.ctx)
  <1>1. /\ s \in TunerStates /\ Owned(s, Nobody) /\ Coherent(s) /\ s.tap.ctx \in Tuner!Slots
        /\ s.entry.entering => ~ s.tuner.loaded
    BY TunerFields DEF Sound
  <1>2. /\ u \in TunerStates /\ u.screen = s.screen /\ u.entry = s.entry /\ u.capture = s.capture /\ u.tone = s.tone
        /\ u.tuner = s.tuner /\ u.device = s.device /\ u.tap.ctx = Nobody /\ u.tap.ready
    BY <1>1 DEF TunerStates, Tuner!Slots
  <1>3. t = IF ~ s.tap.asked THEN s
            ELSE IF ~ Tuner!Showing(s) THEN Tuner!Close(u, s.tap.ctx) ELSE Tuner!Enter(a)
    BY DEF Tuner!StartRequested
  <1> HIDE DEF u
  <1>4. Owned(u, s.tap.ctx) /\ Coherent(u)
    BY <1>1, <1>2 DEF Owned, Distinct, Coherent, NoRun, Tuner!Playing
  <1>5. CASE ~ s.tap.asked
    BY <1>3, <1>5 DEF Settled
  <1>6. CASE s.tap.asked /\ ~ Tuner!Showing(s)
    <2>1. t = Tuner!Close(u, s.tap.ctx)
      BY <1>3, <1>6
    <2>2. /\ t \in TunerStates /\ SameEntry(u, t) /\ t.capture = u.capture /\ t.tone = u.tone /\ t.tuner = u.tuner
          /\ t.device.open = u.device.open \ {s.tap.ctx} /\ t.device.stray = u.device.stray
      BY <1>2, <2>1, CloseFields
    <2>3. Owned(t, Nobody)
      BY <1>4, <2>2, TunerFields, <1>2, ContextsAssumption DEF Owned, Distinct, SameEntry
    <2>4. Coherent(t)
      BY <1>4, <2>2 DEF Coherent, NoRun, SameEntry, Tuner!Playing
    <2>5. Settled(t)
      BY <1>2, <2>2 DEF Settled, SameEntry, NoRun
    <2> QED BY <1>2, <1>6, <2>2, <2>3, <2>4, <2>5 DEF Sound, SameEntry
  <1>7. CASE s.tap.asked /\ Tuner!Showing(s)
    <2>1. /\ w \in TunerStates /\ w.screen = u.screen /\ w.entry = u.entry /\ w.capture = u.capture /\ w.tone = u.tone
          /\ w.tuner = u.tuner /\ w.device = u.device /\ w.tap.ctx = Nobody /\ w.tap.ready
      BY <1>2 DEF TunerStates
    <2> HIDE DEF w
    <2>2. Owned(w, s.tap.ctx) /\ Coherent(w)
      BY <1>2, <1>4, <2>1 DEF Owned, Distinct, Coherent, NoRun, Tuner!Playing
    <2>3. /\ Sound(a) /\ a.screen = w.screen /\ a.tap = w.tap
          /\ Tuner!AlreadyActive(a) \/ a.entry.primed # Nobody
      BY <1>1, <1>2, <2>1, <2>2, AdoptPrimedKeeps
    <2>4. t = Tuner!Enter(a)
      BY <1>3, <1>7
    <2> HIDE DEF a
    <2>5. Tuner!Showing(a)
      BY <1>2, <1>7, <2>1, <2>3 DEF Tuner!Showing
    <2>6. /\ Sound(t) /\ Settled(t) /\ t.screen = a.screen /\ t.tap = a.tap
          /\ t.entry.primed = Nobody /\ Tuner!AlreadyActive(t)
      BY <2>1, <2>3, <2>4, <2>5, EnterTunerKeeps
    <2> QED BY <1>2, <2>1, <2>3, <2>6
  <1> QED BY <1>5, <1>6, <1>7

\* A state in which only what the tone is, and what the display and the coordinator are told, changes.
Toned(s, t) ==
    /\ t \in TunerStates /\ SameEntry(s, t) /\ t.capture = s.capture /\ t.tuner.loaded = s.tuner.loaded
    /\ t.tuner.earphones = s.tuner.earphones /\ t.device.open = s.device.open /\ t.device.stray = s.device.stray

\* It keeps all of the invariant when no tone starts.
LEMMA TonedKeeps ==
    ASSUME NEW s, Sound(s), NEW t, Toned(s, t),
           s.tone = Tuner!Silence => t.tone = Tuner!Silence,
           Tuner!Playing(t) => Tuner!Playing(s) /\ (s.tone.withdrawn => t.tone.withdrawn)
    PROVE  Sound(t) /\ (Settled(s) => Settled(t))
  <1>1. Owned(t, Nobody)
    BY DEF Sound, Toned, Owned, SameEntry
  <1>2. Coherent(t)
    BY DEF Sound, Toned, Coherent, NoRun, SameEntry
  <1>3. Settled(s) => Settled(t)
    BY DEF Toned, Settled, NoRun, SameEntry
  <1> QED BY <1>1, <1>2, <1>3 DEF Sound, Toned, SameEntry

\* The coordinator is told of the output, and the status that is shown.
WithOutput(s, output) == [s EXCEPT !.coord.output = output]
WithStatus(s, status) == [s EXCEPT !.tuner.shown = status]
WithTone(s, state) == [s EXCEPT !.tone.state = state]

\* Nothing else changes.
LEMMA OutputFields ==
    ASSUME NEW s \in TunerStates, NEW output \in {"idle", "playing"}
    PROVE  Toned(s, WithOutput(s, output)) /\ WithOutput(s, output).tone = s.tone
  BY DEF WithOutput, Toned, TunerStates, SameEntry

\* Nothing else changes.
LEMMA StatusFields ==
    ASSUME NEW s \in TunerStates, NEW status \in Tuner!Status
    PROVE  /\ Toned(s, WithStatus(s, status)) /\ WithStatus(s, status).tone = s.tone
           /\ WithStatus(s, status).device = s.device
  BY DEF WithStatus, Toned, TunerStates, SameEntry

\* Nothing else changes.
LEMMA ToneStateFields ==
    ASSUME NEW s \in TunerStates, NEW state \in {"none", "playing", "fading", "ending"}
    PROVE  /\ Toned(s, WithTone(s, state)) /\ WithTone(s, state).tone.state = state
           /\ WithTone(s, state).tone.withdrawn = s.tone.withdrawn
           /\ WithTone(s, state).tone.exclusive = s.tone.exclusive
  BY DEF WithTone, Toned, TunerStates, SameEntry

\* A tone starts: without earphones, the measurement is over before.
LEMMA ToneStartedKeeps ==
    ASSUME NEW s, Sound(s), s.tuner.loaded, s.entry.active, s.tap.ctx = Nobody, s.tap.ready,
           s.screen.visible, s.screen.opened, NEW t, t = Tuner!ToneStarted(s, Tuner!Exclusive(s))
    PROVE  Sound(t) /\ Settled(t)
  <1> DEFINE r == Tuner!StopCapture(s)
             q == IF Tuner!Exclusive(s) THEN WithStatus(r, "playing") ELSE s
             sound == [state |-> "playing", exclusive |-> Tuner!Exclusive(s), watch |-> TRUE, lock |-> "asked",
                       withdrawn |-> FALSE]
             lock == q.device.lateLock \/ s.tone.lock = "asked"
             output == IF q.coord.capture = "running" /\ Tuner!Exclusive(s) THEN q.coord.output ELSE "playing"
             u == [q EXCEPT !.tone = sound]
             v == [u EXCEPT !.device.lateLock = lock]
  <1>1. s \in TunerStates /\ Owned(s, Nobody) /\ Coherent(s)
    BY DEF Sound
  <1>2. /\ q \in TunerStates /\ SameEntry(s, q) /\ q.tuner.loaded /\ q.tuner.earphones = s.tuner.earphones
        /\ (Tuner!Exclusive(s) => NoRun(q)) /\ (q.capture.at = "none" => NoRun(q))
        /\ q.device.stray = s.device.stray /\ Owned(q, Nobody)
        /\ (s.entry.primed # Nobody => ~ q.capture.current)
    <2>1. CASE Tuner!Exclusive(s)
      <3>1. s.capture.at = "none" => NoRun(s)
        BY <1>1 DEF Coherent
      <3>2. /\ r \in TunerStates /\ SameEntry(s, r) /\ NoRun(r)
            /\ r.tuner.loaded = s.tuner.loaded /\ r.tuner.earphones = s.tuner.earphones
            /\ r.device.open = s.device.open \ {s.capture.ctx} /\ r.device.stray = s.device.stray
        BY <1>1, <3>1, StopCaptureFields
      <3> HIDE DEF r
      <3>3. q = WithStatus(r, "playing") /\ "playing" \in Tuner!Status
        BY <2>1 DEF Tuner!Status
      <3> HIDE DEF q
      <3>4. Toned(r, q)
        BY <3>2, <3>3, StatusFields
      <3>5. Owned(q, Nobody)
        BY <1>1, <3>2, <3>4 DEF Owned, Distinct, SameEntry, Toned, NoRun
      <3> QED BY <3>2, <3>4, <3>5 DEF Toned, SameEntry, NoRun
    <2>2. CASE ~ Tuner!Exclusive(s)
      BY <1>1, <2>2 DEF Coherent, SameEntry
    <2> QED BY <2>1, <2>2
  <1>3. /\ sound \in [state : {"none", "playing", "fading", "ending"}, exclusive : BOOLEAN, watch : BOOLEAN,
                      lock : {"none", "asked", "held"}, withdrawn : BOOLEAN]
        /\ sound.state = "playing" /\ ~ sound.withdrawn
    BY DEF Tuner!Exclusive
  <1>4. lock \in BOOLEAN /\ output \in {"idle", "playing"}
    <2>1. q.coord.output \in {"idle", "playing"}
      BY <1>2 DEF TunerStates
    <2> QED BY <2>1
  <1>5. t = WithOutput(v, output)
    <2>1. r = r /\ q = IF Tuner!Exclusive(s) THEN [r EXCEPT !.tuner.shown = "playing"] ELSE s
      BY DEF WithStatus
    <2>2. t = [q EXCEPT !.tone = sound, !.device.lateLock = @ \/ s.tone.lock = "asked",
                        !.coord.output = IF q.coord.capture = "running" /\ Tuner!Exclusive(s) THEN @ ELSE "playing"]
      BY <2>1 DEF Tuner!ToneStarted
    <2> HIDE DEF q, sound
    <2> QED BY <1>2, <2>2 DEF WithOutput, TunerStates
  <1> HIDE DEF q, sound, lock, output
  <1>6. /\ u \in TunerStates /\ SameEntry(q, u) /\ u.tuner = q.tuner /\ u.capture = q.capture /\ u.device = q.device
        /\ u.tone = sound
    BY <1>2, <1>3 DEF TunerStates, SameEntry
  <1> HIDE DEF u
  <1>7. /\ v \in TunerStates /\ SameEntry(u, v) /\ v.tuner = u.tuner /\ v.capture = u.capture /\ v.tone = u.tone
        /\ v.device.open = u.device.open /\ v.device.stray = u.device.stray
    BY <1>4, <1>6 DEF TunerStates, SameEntry
  <1> HIDE DEF v
  <1>8. Toned(v, t) /\ t.tone = v.tone
    BY <1>4, <1>5, <1>7, OutputFields
  <1>9. /\ t \in TunerStates /\ SameEntry(s, t) /\ t.capture = q.capture /\ t.tuner.loaded
        /\ t.tuner.earphones = s.tuner.earphones /\ t.device.open = q.device.open /\ t.device.stray = s.device.stray
        /\ t.tone.state = "playing" /\ ~ t.tone.withdrawn
    BY <1>2, <1>3, <1>6, <1>7, <1>8 DEF SameEntry, Toned
  <1>10. Owned(t, Nobody)
    BY <1>2, <1>9 DEF Owned, SameEntry
  <1>11. Coherent(t)
    BY <1>1, <1>2, <1>9 DEF Coherent, NoRun, SameEntry, Tuner!Playing, Tuner!Exclusive
  <1>12. Settled(t)
    BY <1>9, ThereIsSettled DEF SameEntry
  <1> QED BY <1>9, <1>10, <1>11, <1>12 DEF Sound, SameEntry

\* A tone stops: it fades, and a measurement that it had ended starts again.
LEMMA StopToneKeeps ==
    ASSUME NEW s, Sound(s), Tuner!Playing(s), s.entry.active, s.tap.ctx = Nobody, s.tap.ready,
           s.screen.visible, s.screen.opened, Contexts \ s.device.open # {}, NEW t, t = Tuner!StopTone(s)
    PROVE  Sound(t) /\ Settled(t)
  <1> DEFINE e == Tuner!EndTone(s)
             f == WithTone(e, "fading")
             status == IF s.capture.state # "measuring" THEN "starting" ELSE f.tuner.shown
             u == WithStatus(f, status)
             w == IF s.capture.state # "measuring" THEN Tuner!ResumeMeasurement(u, TRUE) ELSE u
  <1>1. s \in TunerStates
    BY DEF Sound
  <1>2. Toned(s, e)
    BY <1>1, EndToneFields DEF Toned
  <1>3. t = WithOutput(w, "idle")
    BY DEF Tuner!StopTone, WithOutput, WithStatus, WithTone
  <1> HIDE DEF e
  <1>4. Toned(e, f) /\ f.tone.state = "fading"
    BY <1>2, ToneStateFields DEF Toned
  <1> HIDE DEF f
  <1>5. status \in Tuner!Status
    <2>1. f.tuner.shown \in Tuner!Status
      BY <1>4 DEF Toned, TunerStates
    <2> QED BY <2>1 DEF Tuner!Status
  <1> HIDE DEF status
  <1>6. Toned(f, u) /\ u.tone = f.tone
    BY <1>4, <1>5, StatusFields DEF Toned
  <1> HIDE DEF u
  <1>7. Toned(s, u) /\ u.tone.state = "fading"
    BY <1>2, <1>4, <1>6 DEF Toned, SameEntry
  <1>8. Sound(u)
    <2>1. ~ Tuner!Playing(u) /\ s.tone # Tuner!Silence
      BY <1>7 DEF Tuner!Playing, Tuner!Silence
    <2> QED BY <1>7, <2>1, TonedKeeps
  <1>9. Sound(w) /\ Settled(w)
    <2>1. CASE s.capture.state # "measuring"
      <3>1. w = Tuner!ResumeMeasurement(u, TRUE) /\ TRUE \in BOOLEAN
        BY <2>1
      <3>2. /\ u.entry.active /\ u.tap.ctx = Nobody /\ u.tap.ready /\ u.screen.visible /\ u.screen.opened
            /\ Contexts \ u.device.open # {}
        BY <1>7 DEF Toned, SameEntry
      <3> HIDE DEF w
      <3> QED BY <1>8, <3>1, <3>2, ResumeMeasurementKeeps
    <2>2. CASE ~ (s.capture.state # "measuring")
      <3>1. w = u
        BY <2>2
      <3> QED BY <1>7, <1>8, <3>1, ThereIsSettled DEF Toned, SameEntry
    <2> QED BY <2>1, <2>2
  <1> HIDE DEF w
  <1>10. Toned(w, t) /\ t.tone = w.tone
    BY <1>3, <1>9, OutputFields DEF Sound
  <1> QED BY <1>9, <1>10, TonedKeeps DEF Tuner!Playing

\* A run fails: the controller reports it.
LEMMA FailKeeps ==
    ASSUME NEW s, Sound(s), NEW state \in Reports, NEW t, t = Tuner!Fail(s, state)
    PROVE  Sound(t) /\ (Settled(s) => Settled(t))
  <1> DEFINE u == Tuner!Teardown(s)
  <1>1. /\ u \in TunerStates /\ SameEntry(s, u) /\ u.tone = s.tone /\ u.tuner = s.tuner /\ NoRun(u)
        /\ u.device.open = s.device.open \ {s.capture.ctx} /\ u.device.stray = s.device.stray
    BY TeardownFields DEF Sound
  <1>2. t = Tuner!Emit(u, state)
    BY DEF Tuner!Fail
  <1> HIDE DEF u
  <1>3. /\ t \in TunerStates /\ SameEntry(u, t) /\ t.tone = u.tone /\ t.device = u.device
        /\ t.capture.at = u.capture.at /\ t.capture.ctx = u.capture.ctx
        /\ t.capture.mic = u.capture.mic /\ t.capture.current = u.capture.current
        /\ t.tuner.loaded = u.tuner.loaded /\ t.tuner.earphones = u.tuner.earphones
    BY <1>1, <1>2, EmitFields
  <1>4. NoRun(t)
    BY <1>1, <1>3 DEF NoRun
  <1>5. Owned(t, Nobody)
    BY <1>1, <1>3, <1>4 DEF Sound, Owned, Distinct, SameEntry, NoRun
  <1>6. Coherent(t)
    BY <1>1, <1>3, <1>4 DEF Sound, Coherent, SameEntry, NoRun
  <1>7. Settled(s) => Settled(t)
    BY <1>1, <1>3, <1>4 DEF Settled, SameEntry
  <1> QED BY <1>1, <1>3, <1>5, <1>6, <1>7 DEF Sound, SameEntry

\* The launcher is left from a sound state.
LEMMA LeftKeeps ==
    ASSUME NEW s, Sound(s),
           s.tap.ctx # Nobody => s.tap.asked /\ ~ s.tap.ready /\ s.screen.visible /\ s.screen.opened,
           NEW t, t = Tuner!LeaveLauncher(s)
    PROVE  Sound(t) /\ Settled(t) /\ t.screen = s.screen /\ t.tap = s.tap /\ ~ t.entry.active
  <1>1. /\ s \in TunerStates /\ Owned(s, Nobody) /\ ~ s.device.stray /\ (s.capture.at = "none" => NoRun(s))
        /\ (~ s.tuner.loaded => NoRun(s) /\ s.tone = Tuner!Silence)
    BY DEF Sound, Coherent
  <1> QED BY <1>1, LeaveLauncherKeeps

-----------------------------------------------------------------------------
(* The handlers of the tuner's screen *)

\* The state before a handler.
LEMMA TunerBefore ==
    ASSUME TunerInv
    PROVE  /\ Sound(Tuner!State) /\ Settled(Tuner!State)
           /\ Tuner!State.screen = screen /\ Tuner!State.tap = tap /\ Tuner!State.entry = entry
           /\ Tuner!State.capture = capture /\ Tuner!State.tone = tone /\ Tuner!State.tuner = tuner
           /\ Tuner!State.device = device
  BY DEF TunerInv, Sound, Tuner!State

\* The state after a handler.
LEMMA TunerArrives ==
    ASSUME NEW t, Sound(t), Settled(t), Tuner!Become(t)
    PROVE  TunerInv'
  <1>1. Tuner!State' = t
    BY DEF Tuner!Become, Tuner!State, Sound, TunerStates
  <1>2. Sound(Tuner!State') /\ Settled(Tuner!State')
    BY <1>1
  <1> QED BY <1>2 DEF TunerInv, Sound, Owned, Coherent, Settled, NoRun, Distinct, TunerStates, Tuner!Playing

\* What the user of the body has.
LEMMA TunerUser ==
    ASSUME TunerInv, Tuner!UserIsThere
    PROVE  LET s == Tuner!State
           IN  /\ Sound(s) /\ s.tuner.loaded /\ s.entry.active /\ s.tap.ctx = Nobody /\ s.tap.ready
               /\ s.screen.visible /\ s.screen.opened /\ Contexts \ s.device.open # {}
  <1>1. Sound(Tuner!State) /\ Settled(Tuner!State)
    BY TunerBefore
  <1> QED BY <1>1, TunerBefore DEF Tuner!UserIsThere, Tuner!HasFresh, Settled, Tuner!Showing

\* A tap in the laboratory.
LEMMA TapTunerKeeps ==
    ASSUME TunerInv, Tuner!TapTuner
    PROVE  TunerInv'
  <1> DEFINE s == Tuner!State
             p == Tuner!Prime(s)
             o == Tuner!Opened(p)
             q == Tuner!PrepareTap(s)
             w == Tuner!Opened(q)
             u == [w EXCEPT !.tap.asked = TRUE]
             t == IF s.tap.ready THEN Tuner!Enter(o) ELSE u
  <1>1. /\ Sound(s) /\ Settled(s) /\ s.screen.visible /\ Contexts \ s.device.open # {} /\ Tuner!Become(t)
    BY TunerBefore DEF Tuner!TapTuner, Tuner!HasFresh
  <1>2. CASE s.tap.ready
    <2>1. t = Tuner!Enter(o) /\ s.tap.ctx = Nobody
      BY <1>1, <1>2 DEF Settled
    <2> HIDE DEF s, t
    <2>2. /\ Sound(p) /\ p.screen = s.screen /\ p.tap = s.tap
          /\ Tuner!AlreadyActive(p) \/ p.entry.primed # Nobody
      BY <1>1, PrimeKeeps
    <2> HIDE DEF p
    <2>3. /\ Sound(o) /\ o.tap = p.tap /\ o.entry = p.entry
          /\ (Tuner!AlreadyActive(o) <=> Tuner!AlreadyActive(p))
      BY <2>2, OpenedKeeps
    <2> HIDE DEF o
    <2>4. Sound(t) /\ Settled(t)
      BY <1>2, <2>1, <2>2, <2>3, EnterTunerKeeps
    <2> QED BY <1>1, <2>4, TunerArrives
  <1>3. CASE ~ s.tap.ready
    <2>1. t = u /\ ~ s.entry.active
      BY <1>1, <1>3 DEF Settled
    <2> HIDE DEF s, t
    <2>2. /\ q \in TunerStates /\ q.screen = s.screen /\ q.entry = s.entry /\ q.capture = s.capture
          /\ q.tone = s.tone /\ q.tuner = s.tuner /\ q.tap.ready = s.tap.ready
          /\ q.device.stray = s.device.stray /\ Owned(q, Nobody)
      <3>1. CASE s.tap.ctx # Nobody
        BY <1>1, <3>1 DEF Tuner!PrepareTap, Sound
      <3>2. CASE s.tap.ctx = Nobody
        <4> DEFINE f == Tuner!Fresh(s)
                   more == s.device.open \cup {f}
                   v == [s EXCEPT !.tap.ctx = f]
        <4>1. f \in Contexts /\ f \notin s.device.open /\ f # Nobody /\ s \in TunerStates
          BY <1>1, FreshIs DEF Sound
        <4>2. more \in SUBSET Contexts
          BY <4>1, TunerFields
        <4>3. q = WithOpen(v, more)
          BY <3>2, <4>1 DEF Tuner!PrepareTap, WithOpen, TunerStates
        <4> HIDE DEF f
        <4>4. /\ v \in TunerStates /\ v.screen = s.screen /\ v.entry = s.entry /\ v.capture = s.capture
              /\ v.tone = s.tone /\ v.tuner = s.tuner /\ v.device = s.device
              /\ v.tap.ready = s.tap.ready /\ v.tap.ctx = f
          BY <4>1 DEF TunerStates, Tuner!Slots
        <4> HIDE DEF v
        <4>5. /\ q \in TunerStates /\ SameEntry(v, q) /\ q.tone = v.tone /\ q.tuner = v.tuner
              /\ q.capture = v.capture /\ q.device.open = more /\ q.device.stray = v.device.stray
          BY <4>2, <4>3, <4>4, OpenFields
        <4>6. Owned(q, Nobody)
          BY <1>1, <3>2, <4>1, <4>4, <4>5 DEF Sound, Owned, Distinct, SameEntry
        <4> QED BY <4>4, <4>5, <4>6 DEF SameEntry
      <3> QED BY <3>1, <3>2
    <2> HIDE DEF q
    <2>3. Sound(q)
      BY <1>1, <2>2 DEF Sound, Coherent, NoRun, Tuner!Playing
    <2>4. /\ Sound(w) /\ w.screen.visible = q.screen.visible /\ w.screen.opened
          /\ w.tap = q.tap /\ w.entry = q.entry /\ w.capture = q.capture /\ w.tone = q.tone
          /\ w.tuner = q.tuner /\ w.device = q.device
      BY <2>3, OpenedKeeps
    <2> HIDE DEF w
    <2>5. /\ u \in TunerStates /\ u.screen = w.screen /\ u.tap.ctx = w.tap.ctx /\ u.tap.ready = w.tap.ready
          /\ u.tap.asked /\ u.entry = w.entry /\ u.capture = w.capture /\ u.tone = w.tone
          /\ u.tuner = w.tuner /\ u.device = w.device
      BY <2>4 DEF Sound, TunerStates
    <2> HIDE DEF u
    <2>6. Sound(u)
      BY <2>4, <2>5 DEF Sound, Owned, Coherent, NoRun, Tuner!Playing
    <2>7. Settled(u)
      BY <1>1, <1>3, <2>1, <2>2, <2>4, <2>5 DEF Settled, NoRun
    <2> QED BY <1>1, <2>1, <2>6, <2>7, TunerArrives
  <1> QED BY <1>2, <1>3

\* The browser's history shows the tab.
LEMMA RestoreTunerKeeps ==
    ASSUME TunerInv, Tuner!RestoreTuner
    PROVE  TunerInv'
  <1> DEFINE s == Tuner!State
             o == Tuner!Opened(s)
             t == Tuner!Enter(o)
  <1>1. /\ Sound(s) /\ Settled(s) /\ s.tap.ready /\ Contexts \ s.device.open # {} /\ Tuner!Become(t)
    BY TunerBefore DEF Tuner!RestoreTuner, Tuner!HasFresh
  <1> HIDE DEF s
  <1>2. Sound(o) /\ o.tap = s.tap /\ o.device = s.device
    BY <1>1, OpenedKeeps
  <1> HIDE DEF o
  <1>3. Sound(t) /\ Settled(t)
    BY <1>1, <1>2, EnterTunerKeeps DEF Settled
  <1> QED BY <1>1, <1>3, TunerArrives

\* The launcher is there.
LEMMA LauncherLoadedKeeps ==
    ASSUME TunerInv, Tuner!LauncherLoaded
    PROVE  TunerInv'
  <1> DEFINE s == Tuner!State
             r == [s EXCEPT !.tap.ready = TRUE]
             t == Tuner!StartRequested(r)
  <1>1. /\ Sound(s) /\ Settled(s) /\ ~ s.tap.ready /\ Contexts \ s.device.open # {} /\ Tuner!Become(t)
    BY TunerBefore DEF Tuner!LauncherLoaded, Tuner!HasFresh
  <1> HIDE DEF s
  <1>2. /\ r \in TunerStates /\ r.screen = s.screen /\ r.tap.ctx = s.tap.ctx /\ r.tap.asked = s.tap.asked /\ r.tap.ready
        /\ r.entry = s.entry /\ r.capture = s.capture /\ r.tone = s.tone /\ r.tuner = s.tuner /\ r.device = s.device
    BY <1>1 DEF Sound, TunerStates
  <1> HIDE DEF r
  <1>3. Sound(r)
    BY <1>1, <1>2 DEF Sound, Owned, Coherent, NoRun, Tuner!Playing
  <1>4. /\ r.tap.ctx # Nobody => r.tap.asked
        /\ r.entry.active => r.screen.visible /\ r.screen.opened
        /\ ~ r.entry.active => r.entry.primed = Nobody /\ NoRun(r) /\ r.tone = Tuner!Silence /\ ~ r.entry.timer
    BY <1>1, <1>2 DEF Settled, NoRun
  <1>5. Sound(t) /\ Settled(t)
    BY <1>1, <1>2, <1>3, <1>4, StartRequestedKeeps
  <1> QED BY <1>1, <1>5, TunerArrives

\* The context that waits for the launcher is closed.
TapDropped(s) == [Tuner!Close(s, s.tap.ctx) EXCEPT !.tap.ctx = Nobody]

\* Nothing else changes.
LEMMA TapDroppedKeeps ==
    ASSUME NEW s, Sound(s), NEW t, t = TapDropped(s)
    PROVE  /\ Sound(t) /\ t.screen = s.screen /\ t.tap.ready = s.tap.ready /\ t.tap.asked = s.tap.asked
           /\ t.tap.ctx = Nobody /\ t.entry = s.entry /\ t.capture = s.capture /\ t.tone = s.tone
           /\ t.tuner = s.tuner
  <1> DEFINE u == Tuner!Close(s, s.tap.ctx)
  <1>1. /\ u \in TunerStates /\ SameEntry(s, u) /\ u.capture = s.capture /\ u.tone = s.tone /\ u.tuner = s.tuner
        /\ u.device.open = s.device.open \ {s.tap.ctx} /\ u.device.stray = s.device.stray
    BY CloseFields DEF Sound
  <1>2. t = [u EXCEPT !.tap.ctx = Nobody]
    BY DEF TapDropped
  <1> HIDE DEF u
  <1>3. /\ t \in TunerStates /\ t.screen = u.screen /\ t.tap.ready = u.tap.ready /\ t.tap.asked = u.tap.asked
        /\ t.tap.ctx = Nobody /\ t.entry = u.entry /\ t.capture = u.capture /\ t.tone = u.tone
        /\ t.tuner = u.tuner /\ t.device = u.device
    BY <1>1, <1>2 DEF TunerStates, Tuner!Slots
  <1>4. Owned(t, Nobody)
    BY <1>1, <1>3 DEF Sound, Owned, Distinct, SameEntry
  <1>5. Coherent(t)
    BY <1>1, <1>3 DEF Sound, Coherent, NoRun, SameEntry, Tuner!Playing
  <1> QED BY <1>1, <1>3, <1>4, <1>5 DEF Sound, SameEntry

\* What the page shows, and what is requested, is not part of what is sound.
LEMMA SightKeeps ==
    ASSUME NEW s, Sound(s), NEW t, t \in TunerStates, t.tap.ctx = s.tap.ctx, t.entry = s.entry,
           t.capture = s.capture, t.tone = s.tone, t.tuner = s.tuner, t.device = s.device
    PROVE  Sound(t)
  BY DEF Sound, Owned, Coherent, NoRun, Tuner!Playing

\* The launcher could not be loaded, or the tuner is left.
LEMMA LauncherFailedKeeps ==
    ASSUME TunerInv, Tuner!LauncherFailed \/ Tuner!Leave
    PROVE  TunerInv'
  <1> DEFINE s == Tuner!State
             u == TapDropped(s)
             v == [u EXCEPT !.tap.asked = FALSE]
             w == [v EXCEPT !.screen.opened = FALSE]
  <1>1. Sound(s) /\ Settled(s) /\ s.tap = tap
    BY TunerBefore
  <1>2. \/ ~ s.tap.ready /\ Tuner!Become(v)
        \/ Tuner!Become(IF s.tap.ready THEN Tuner!LeaveLauncher(w) ELSE w)
    <2>1. [Tuner!Close(s, s.tap.ctx) EXCEPT !.tap.ctx = Nobody, !.tap.asked = FALSE] = v
      <3>1. Tuner!Close(s, s.tap.ctx) \in TunerStates
        BY <1>1, CloseFields DEF Sound
      <3> QED BY <3>1 DEF TapDropped, TunerStates
    <2>2. [Tuner!Close(s, s.tap.ctx) EXCEPT !.tap.ctx = Nobody, !.tap.asked = FALSE, !.screen.opened = FALSE] = w
      <3>1. [Tuner!Close(s, s.tap.ctx) EXCEPT !.tap.ctx = Nobody, !.tap.asked = FALSE, !.screen.opened = FALSE]
              = [[Tuner!Close(s, s.tap.ctx) EXCEPT !.tap.ctx = Nobody, !.tap.asked = FALSE]
                   EXCEPT !.screen.opened = FALSE]
        <4>1. Tuner!Close(s, s.tap.ctx) \in TunerStates
          BY <1>1, CloseFields DEF Sound
        <4> QED BY <4>1 DEF TunerStates
      <3> HIDE DEF v, s
      <3> QED BY <2>1, <3>1
    <2> HIDE DEF s, v, w
    <2> QED BY <1>1, <2>1, <2>2 DEF s, Tuner!LauncherFailed, Tuner!Leave
  <1> HIDE DEF s
  <1>3. /\ Sound(u) /\ u.screen = s.screen /\ u.tap.ready = s.tap.ready /\ u.tap.ctx = Nobody
        /\ u.entry = s.entry /\ u.capture = s.capture /\ u.tone = s.tone /\ u.tuner = s.tuner
    BY <1>1, TapDroppedKeeps
  <1> HIDE DEF u
  <1>4. /\ v \in TunerStates /\ v.screen = u.screen /\ v.tap.ready = u.tap.ready /\ v.tap.ctx = u.tap.ctx
        /\ v.entry = u.entry /\ v.capture = u.capture /\ v.tone = u.tone /\ v.tuner = u.tuner /\ v.device = u.device
    BY <1>3 DEF Sound, TunerStates
  <1> HIDE DEF v
  <1>5. Sound(v)
    BY <1>3, <1>4, SightKeeps
  <1>6. /\ w \in TunerStates /\ w.tap = v.tap
        /\ w.entry = v.entry /\ w.capture = v.capture /\ w.tone = v.tone /\ w.tuner = v.tuner /\ w.device = v.device
    BY <1>4 DEF TunerStates
  <1> HIDE DEF w
  <1>7. Sound(w)
    BY <1>5, <1>6, SightKeeps
  <1>8. CASE ~ s.tap.ready /\ Tuner!Become(v)
    <2>1. Settled(v)
      BY <1>1, <1>3, <1>4, <1>8 DEF Settled, NoRun
    <2> QED BY <1>5, <1>8, <2>1, TunerArrives
  <1>9. CASE s.tap.ready /\ Tuner!Become(Tuner!LeaveLauncher(w))
    <2>1. Sound(Tuner!LeaveLauncher(w)) /\ Settled(Tuner!LeaveLauncher(w))
      BY <1>3, <1>4, <1>6, <1>7, LeftKeeps
    <2> QED BY <1>9, <2>1, TunerArrives
  <1>10. CASE ~ s.tap.ready /\ Tuner!Become(w)
    <2>1. Settled(w)
      BY <1>1, <1>3, <1>4, <1>6, <1>10 DEF Settled, NoRun
    <2> QED BY <1>7, <1>10, <2>1, TunerArrives
  <1> QED BY <1>2, <1>8, <1>9, <1>10

\* Something covers the screen.
LEMMA CoverKeeps ==
    ASSUME TunerInv, Tuner!Cover
    PROVE  TunerInv'
  <1> DEFINE s == Tuner!State
             t == [s EXCEPT !.screen.covered = TRUE]
  <1>1. Sound(s) /\ Settled(s) /\ Tuner!Become(t)
    BY TunerBefore DEF Tuner!Cover
  <1> HIDE DEF s
  <1>2. /\ t \in TunerStates /\ t.screen.visible = s.screen.visible /\ t.screen.opened = s.screen.opened
        /\ t.tap = s.tap /\ t.entry = s.entry /\ t.capture = s.capture /\ t.tone = s.tone /\ t.tuner = s.tuner
        /\ t.device = s.device
    BY <1>1 DEF Sound, TunerStates
  <1> HIDE DEF t
  <1>3. Sound(t)
    BY <1>1, <1>2, SightKeeps
  <1>4. Settled(t)
    BY <1>1, <1>2 DEF Settled, NoRun
  <1> QED BY <1>1, <1>3, <1>4, TunerArrives

\* The page is hidden.
LEMMA HideTunerKeeps ==
    ASSUME TunerInv, Tuner!Hide
    PROVE  TunerInv'
  <1> DEFINE s == Tuner!State
             h == [s EXCEPT !.screen.visible = FALSE]
             l == Tuner!LeaveLauncher(h)
             r == [l EXCEPT !.entry.returning = TRUE]
             t == IF ~ s.tap.ready THEN TapDropped(h) ELSE IF s.entry.active THEN r ELSE h
  <1>1. Sound(s) /\ Settled(s) /\ Tuner!Become(t)
    <2>1. s.tap = tap /\ s.entry = entry /\ h.tap.ctx = tap.ctx
      BY DEF Tuner!State
    <2>2. Sound(s) /\ Settled(s)
      BY TunerBefore
    <2> HIDE DEF h
    <2> QED BY <2>1, <2>2 DEF h, Tuner!Hide, TapDropped
  <1> HIDE DEF s
  <1>2. /\ h \in TunerStates /\ ~ h.screen.visible
        /\ h.tap = s.tap /\ h.entry = s.entry /\ h.capture = s.capture /\ h.tone = s.tone /\ h.tuner = s.tuner
        /\ h.device = s.device
    BY <1>1 DEF Sound, TunerStates
  <1> HIDE DEF h
  <1>3. Sound(h)
    BY <1>1, <1>2, SightKeeps
  <1>4. CASE ~ s.tap.ready
    <2>1. t = TapDropped(h)
      BY <1>4
    <2> HIDE DEF t
    <2>2. /\ Sound(t) /\ t.tap.ready = h.tap.ready /\ t.tap.ctx = Nobody
          /\ t.entry = h.entry /\ t.capture = h.capture /\ t.tone = h.tone
      BY <1>3, <2>1, TapDroppedKeeps
    <2>3. Settled(t)
      BY <1>1, <1>2, <1>4, <2>2 DEF Settled, NoRun
    <2> QED BY <1>1, <2>2, <2>3, TunerArrives
  <1>5. CASE s.tap.ready /\ s.entry.active
    <2>1. t = r /\ h.tap.ctx = Nobody /\ h.tap.ready
      BY <1>1, <1>2, <1>5 DEF Settled
    <2>2. Sound(l) /\ Settled(l) /\ l.tap = h.tap /\ ~ l.entry.active
      BY <1>3, <2>1, LeftKeeps
    <2> HIDE DEF l
    <2>3. /\ r \in TunerStates /\ r.screen = l.screen /\ r.tap = l.tap /\ r.capture = l.capture /\ r.tone = l.tone
          /\ r.tuner = l.tuner /\ r.device = l.device
          /\ r.entry.active = l.entry.active /\ r.entry.current = l.entry.current
          /\ r.entry.entering = l.entry.entering /\ r.entry.primed = l.entry.primed
          /\ r.entry.starting = l.entry.starting /\ r.entry.timer = l.entry.timer
      BY <2>2 DEF Sound, TunerStates
    <2> HIDE DEF r
    <2>4. Sound(r)
      BY <2>2, <2>3 DEF Sound, Owned, Coherent, NoRun, Tuner!Playing
    <2>5. Settled(r)
      BY <2>1, <2>2, <2>3 DEF Settled, NoRun
    <2> QED BY <1>1, <2>1, <2>4, <2>5, TunerArrives
  <1>6. CASE s.tap.ready /\ ~ s.entry.active
    <2>1. t = h
      BY <1>6
    <2>2. Settled(h)
      BY <1>1, <1>2, <1>6 DEF Settled, NoRun
    <2> QED BY <1>1, <1>3, <2>1, <2>2, TunerArrives
  <1> QED BY <1>4, <1>5, <1>6

\* The page is visible again.
LEMMA ShowTunerKeeps ==
    ASSUME TunerInv, Tuner!Show
    PROVE  TunerInv'
  <1> DEFINE s == Tuner!State
             k == [s EXCEPT !.screen.visible = TRUE]
             h == [k EXCEPT !.entry.returning = FALSE]
             u == IF s.tap.ready THEN Tuner!StartRequested(h) ELSE h
             t == IF s.entry.returning /\ Tuner!Showing(h) THEN Tuner!Enter(u) ELSE u
  <1>1. Sound(s) /\ Settled(s) /\ Contexts \ s.device.open # {} /\ Tuner!Become(t) /\ ~ s.screen.visible
    <2>1. Sound(s) /\ Settled(s) /\ s.screen = screen /\ s.tap = tap /\ s.entry = entry /\ s.device = device
      BY TunerBefore
    <2> HIDE DEF s
    <2>2. h = [s EXCEPT !.screen.visible = TRUE, !.entry.returning = FALSE]
      BY <2>1 DEF Sound, TunerStates
    <2> HIDE DEF h
    <2> QED BY <2>1, <2>2 DEF s, Tuner!Show, Tuner!HasFresh
  <1> HIDE DEF s
  <1>2. /\ k \in TunerStates /\ k.screen.opened = s.screen.opened
        /\ k.tap = s.tap /\ k.entry = s.entry /\ k.capture = s.capture /\ k.tone = s.tone /\ k.tuner = s.tuner
        /\ k.device = s.device /\ k.screen.visible
    BY <1>1 DEF Sound, TunerStates
  <1> HIDE DEF k
  <1>3. /\ h \in TunerStates /\ h.screen = k.screen
        /\ h.tap = k.tap /\ h.capture = k.capture /\ h.tone = k.tone /\ h.tuner = k.tuner /\ h.device = k.device
        /\ h.entry.active = k.entry.active /\ h.entry.current = k.entry.current
        /\ h.entry.entering = k.entry.entering /\ h.entry.primed = k.entry.primed
        /\ h.entry.starting = k.entry.starting /\ h.entry.timer = k.entry.timer /\ ~ h.entry.returning
    BY <1>2 DEF TunerStates
  <1> HIDE DEF h
  <1>4. Sound(h)
    BY <1>1, <1>2, <1>3 DEF Sound, Owned, Coherent, NoRun, Tuner!Playing
  <1>5. /\ ~ h.entry.active /\ h.entry.primed = Nobody /\ NoRun(h) /\ h.tone = Tuner!Silence /\ ~ h.entry.timer
        /\ h.tap.ctx = Nobody
    BY <1>1, <1>2, <1>3 DEF Settled, NoRun
  <1>6. CASE ~ s.tap.ready
    <2>1. t = h
      BY <1>1, <1>6 DEF Settled
    <2>2. Settled(h)
      BY <1>3, <1>5 DEF Settled
    <2> QED BY <1>1, <1>4, <2>1, <2>2, TunerArrives
  <1>7. CASE s.tap.ready
    <2>1. u = Tuner!StartRequested(h) /\ h.tap.ready /\ Contexts \ h.device.open # {}
      BY <1>1, <1>2, <1>3, <1>7
    <2>2. /\ Sound(u) /\ Settled(u) /\ u.screen = h.screen /\ u.tap.ready /\ u.tap.ctx = Nobody
          /\ u = h \/ ~ Tuner!Showing(h) \/ (u.entry.primed = Nobody /\ Tuner!AlreadyActive(u))
      BY <1>4, <1>5, <2>1, StartRequestedKeeps
    <2> HIDE DEF u
    <2>3. CASE s.entry.returning /\ Tuner!Showing(h)
      <3>1. t = Tuner!Enter(u)
        BY <2>3
      <3>2. Contexts \ u.device.open # {} \/ Tuner!AlreadyActive(u)
        BY <2>1, <2>2, <2>3
      <3>3. Sound(t) /\ Settled(t)
        BY <2>2, <3>1, <3>2, EnterTunerKeeps
      <3> QED BY <1>1, <3>3, TunerArrives
    <2>4. CASE ~ (s.entry.returning /\ Tuner!Showing(h))
      <3>1. t = u
        BY <2>4
      <3> QED BY <1>1, <2>2, <3>1, TunerArrives
    <2> QED BY <2>3, <2>4
  <1> QED BY <1>6, <1>7

\* The body is there: an entry that waited for it goes on.
LEMMA BodyLoadedKeeps ==
    ASSUME TunerInv, Tuner!BodyLoaded
    PROVE  TunerInv'
  <1> DEFINE s == Tuner!State
             u == [s EXCEPT !.tuner.loaded = TRUE]
             v == [u EXCEPT !.entry.late = FALSE]
             t == IF s.entry.entering THEN Tuner!Entered(v) ELSE v
  <1>1. Sound(s) /\ Settled(s) /\ ~ s.tuner.loaded /\ Contexts \ s.device.open # {} /\ Tuner!Become(t)
    <2>1. Sound(s) /\ Settled(s) /\ s.tuner = tuner /\ s.entry = entry /\ s.device = device
      BY TunerBefore
    <2> HIDE DEF s
    <2>2. v = [s EXCEPT !.tuner.loaded = TRUE, !.entry.late = FALSE]
      BY <2>1 DEF Sound, TunerStates
    <2> HIDE DEF v
    <2> QED BY <2>1, <2>2 DEF s, Tuner!BodyLoaded, Tuner!HasFresh
  <1> HIDE DEF s
  <1>2. /\ u \in TunerStates /\ SameEntry(s, u) /\ u.capture = s.capture /\ u.tone = s.tone /\ u.device = s.device
        /\ u.tuner.loaded /\ u.tuner.earphones = s.tuner.earphones
    BY <1>1 DEF Sound, TunerStates, SameEntry
  <1> HIDE DEF u
  <1>3. /\ v \in TunerStates /\ v.screen = u.screen /\ v.tap = u.tap /\ v.capture = u.capture /\ v.tone = u.tone
        /\ v.tuner = u.tuner /\ v.device = u.device
        /\ v.entry.active = u.entry.active /\ v.entry.current = u.entry.current
        /\ v.entry.entering = u.entry.entering /\ v.entry.primed = u.entry.primed
        /\ v.entry.starting = u.entry.starting /\ v.entry.timer = u.entry.timer
        /\ v.entry.returning = u.entry.returning
    BY <1>2 DEF TunerStates
  <1> HIDE DEF v
  <1>4. Owned(v, Nobody) /\ Coherent(v) /\ ~ v.capture.current
    BY <1>1, <1>2, <1>3 DEF Sound, Owned, Coherent, NoRun, SameEntry, Tuner!Playing
  <1>5. CASE s.entry.entering
    <2>1. t = Tuner!Entered(v) /\ v.tuner.loaded /\ v.entry.entering /\ Contexts \ v.device.open # {}
      BY <1>1, <1>2, <1>3, <1>5 DEF SameEntry
    <2>2. v.tap.ctx = Nobody /\ v.tap.ready
      BY <1>1, <1>2, <1>3, <1>5 DEF Sound, Coherent, Settled, SameEntry
    <2> HIDE DEF t
    <2>3. Sound(t) /\ Settled(t)
      BY <1>3, <1>4, <2>1, <2>2, EnteredKeeps
    <2> QED BY <1>1, <2>3, TunerArrives
  <1>6. CASE ~ s.entry.entering
    <2>1. t = v
      BY <1>6
    <2>2. Sound(v)
      BY <1>2, <1>3, <1>4, <1>6 DEF Sound, SameEntry
    <2>3. Settled(v)
      BY <1>1, <1>2, <1>3 DEF Settled, SameEntry, NoRun
    <2> QED BY <1>1, <2>1, <2>2, <2>3, TunerArrives
  <1> QED BY <1>5, <1>6

\* The body could not be loaded.
LEMMA BodyFailedKeeps ==
    ASSUME TunerInv, Tuner!BodyFailed
    PROVE  TunerInv'
  <1> DEFINE s == Tuner!State
             c == Tuner!Close(s, s.entry.starting)
             e == [c.entry EXCEPT !.late = FALSE, !.entering = FALSE, !.starting = Nobody]
             u == [c EXCEPT !.entry = e]
             status == IF s.entry.entering THEN "unavailable" ELSE c.tuner.shown
             t == WithStatus(u, status)
  <1>1. Sound(s) /\ Settled(s) /\ s.entry = entry
    BY TunerBefore
  <1>2. /\ c \in TunerStates /\ SameEntry(s, c) /\ c.capture = s.capture /\ c.tone = s.tone /\ c.tuner = s.tuner
        /\ c.device.open = s.device.open \ {s.entry.starting} /\ c.device.stray = s.device.stray
    BY <1>1, CloseFields DEF Sound
  <1>3. Tuner!Become(t)
    <2>1. Tuner!Become([c EXCEPT !.entry.late = FALSE, !.entry.entering = FALSE, !.entry.starting = Nobody,
                                 !.tuner.shown = IF s.entry.entering THEN "unavailable" ELSE @])
      BY <1>1 DEF Tuner!BodyFailed
    <2> HIDE DEF c, s
    <2>2. t = [c EXCEPT !.entry.late = FALSE, !.entry.entering = FALSE, !.entry.starting = Nobody,
                        !.tuner.shown = IF s.entry.entering THEN "unavailable" ELSE @]
      BY <1>2 DEF TunerStates, WithStatus
    <2> HIDE DEF t
    <2> QED BY <2>1, <2>2
  <1> HIDE DEF s, c
  <1>4. /\ e \in [active : BOOLEAN, current : BOOLEAN, entering : BOOLEAN, late : BOOLEAN, primed : Tuner!Slots,
                  starting : Tuner!Slots, returning : BOOLEAN, timer : BOOLEAN]
        /\ e.active = c.entry.active /\ e.current = c.entry.current /\ ~ e.entering
        /\ e.primed = c.entry.primed /\ e.starting = Nobody /\ e.timer = c.entry.timer
        /\ e.returning = c.entry.returning
    <2>1. c.entry \in [active : BOOLEAN, current : BOOLEAN, entering : BOOLEAN, late : BOOLEAN,
                       primed : Tuner!Slots, starting : Tuner!Slots, returning : BOOLEAN, timer : BOOLEAN]
      BY <1>2 DEF TunerStates
    <2> QED BY <2>1 DEF Tuner!Slots
  <1> HIDE DEF e
  <1>5. /\ u \in TunerStates /\ u.screen = c.screen /\ u.tap = c.tap /\ u.capture = c.capture /\ u.tone = c.tone
        /\ u.tuner = c.tuner /\ u.device = c.device /\ u.entry = e
    BY <1>2, <1>4 DEF TunerStates
  <1>6. status \in Tuner!Status
    <2>1. c.tuner.shown \in Tuner!Status
      BY <1>2 DEF TunerStates
    <2> QED BY <2>1 DEF Tuner!Status
  <1> HIDE DEF u, status
  <1>7. Owned(u, Nobody)
    BY <1>1, <1>2, <1>4, <1>5 DEF Sound, Owned, Distinct, SameEntry
  <1>8. Coherent(u)
    BY <1>1, <1>2, <1>4, <1>5 DEF Sound, Coherent, NoRun, SameEntry, Tuner!Playing
  <1>9. Settled(u)
    BY <1>1, <1>2, <1>4, <1>5 DEF Settled, NoRun, SameEntry
  <1>10. Sound(u)
    BY <1>4, <1>5, <1>7, <1>8 DEF Sound
  <1>11. Toned(u, t) /\ t.tone = u.tone
    BY <1>5, <1>6, StatusFields
  <1>12. Sound(t) /\ Settled(t)
    BY <1>9, <1>10, <1>11, TonedKeeps DEF Tuner!Playing
  <1> QED BY <1>3, <1>12, TunerArrives

\* A run that goes on, or what it still waits for.
LEMMA RunGoesOn ==
    ASSUME NEW s, Sound(s), NEW t \in TunerStates, SameEntry(s, t), t.tone = s.tone,
           t.tuner.loaded = s.tuner.loaded, t.tuner.earphones = s.tuner.earphones,
           t.device.open = s.device.open, t.device.stray = s.device.stray,
           t.capture.ctx = s.capture.ctx, t.capture.current = s.capture.current,
           \/ t.capture.at = s.capture.at /\ t.capture.mic = s.capture.mic
           \/ s.capture.at # "none" /\ t.capture.at # "none"
    PROVE  Sound(t) /\ (Settled(s) => Settled(t))
  <1>1. Owned(t, Nobody)
    BY DEF Sound, Owned, SameEntry
  <1>2. Coherent(t)
    BY DEF Sound, Coherent, NoRun, SameEntry, Tuner!Playing
  <1>3. Settled(s) => Settled(t)
    BY DEF Settled, NoRun, SameEntry
  <1> QED BY <1>1, <1>2, <1>3 DEF Sound, SameEntry

\* The microphone is granted.
LEMMA MicrophoneGrantedKeeps ==
    ASSUME TunerInv, Tuner!MicrophoneGranted
    PROVE  TunerInv'
  <1> DEFINE s == Tuner!State
             t == [s EXCEPT !.capture.mic = "live"]
  <1>1. Sound(s) /\ Settled(s) /\ s.capture.mic = "pending" /\ Tuner!Become(t)
    BY TunerBefore DEF Tuner!MicrophoneGranted
  <1> HIDE DEF s
  <1>2. /\ t \in TunerStates /\ SameEntry(s, t) /\ t.tone = s.tone /\ t.tuner = s.tuner /\ t.device = s.device
        /\ t.capture.ctx = s.capture.ctx /\ t.capture.current = s.capture.current /\ t.capture.at = s.capture.at
    BY <1>1 DEF Sound, TunerStates, SameEntry
  <1> HIDE DEF t
  <1>3. s.capture.at # "none"
    BY <1>1 DEF Sound, Coherent, NoRun
  <1>4. Sound(t) /\ Settled(t)
    BY <1>1, <1>2, <1>3, RunGoesOn
  <1> QED BY <1>1, <1>4, TunerArrives

\* What earlier runs waited for comes, and is given back at once.
LEMMA LateKeeps ==
    ASSUME TunerInv, Tuner!LateGrant \/ Tuner!LateLock
    PROVE  TunerInv'
  <1> DEFINE s == Tuner!State
             u == [s EXCEPT !.device.lateMic = FALSE]
             v == [s EXCEPT !.device.lateLock = FALSE]
  <1>1. Sound(s) /\ Settled(s) /\ (Tuner!Become(u) \/ Tuner!Become(v))
    BY TunerBefore DEF Tuner!LateGrant, Tuner!LateMicrophone, Tuner!LateLock
  <1> HIDE DEF s
  <1>2. Toned(s, u) /\ u.tone = s.tone
    BY <1>1 DEF Sound, Toned, TunerStates, SameEntry
  <1>3. Toned(s, v) /\ v.tone = s.tone
    BY <1>1 DEF Sound, Toned, TunerStates, SameEntry
  <1> HIDE DEF u, v
  <1>4. Sound(u) /\ Settled(u) /\ Sound(v) /\ Settled(v)
    BY <1>1, <1>2, <1>3, TonedKeeps DEF Tuner!Playing
  <1> QED BY <1>1, <1>4, TunerArrives

\* The display is kept awake.
LEMMA LockKeeps ==
    ASSUME TunerInv, Tuner!CaptureLock \/ Tuner!ToneLock
    PROVE  TunerInv'
  <1> DEFINE s == Tuner!State
             u == [s EXCEPT !.capture.lock = "held"]
             v == [s EXCEPT !.tone.lock = "held"]
  <1>1. Sound(s) /\ Settled(s)
    BY TunerBefore
  <1>2. Tuner!Become(u) \/ (s.tone.lock = "asked" /\ Tuner!Become(v))
    BY TunerBefore DEF Tuner!CaptureLock, Tuner!ToneLock
  <1> HIDE DEF s
  <1>3. /\ u \in TunerStates /\ SameEntry(s, u) /\ u.tone = s.tone /\ u.tuner = s.tuner /\ u.device = s.device
        /\ u.capture.ctx = s.capture.ctx /\ u.capture.current = s.capture.current
        /\ u.capture.at = s.capture.at /\ u.capture.mic = s.capture.mic
    BY <1>1 DEF Sound, TunerStates, SameEntry
  <1>4. Toned(s, v) /\ v.tone.state = s.tone.state /\ v.tone.withdrawn = s.tone.withdrawn
    BY <1>1 DEF Sound, Toned, TunerStates, SameEntry
  <1> HIDE DEF u, v
  <1>5. Sound(u) /\ Settled(u)
    BY <1>1, <1>3, RunGoesOn
  <1>6. s.tone.lock = "asked" => Sound(v) /\ Settled(v)
    BY <1>1, <1>4, TonedKeeps DEF Tuner!Playing, Tuner!Silence
  <1> QED BY <1>1, <1>2, <1>5, <1>6, TunerArrives

\* The run goes on if its screen still shows, else the launcher is left.
LEMMA AliveKeeps ==
    ASSUME NEW s, Sound(s), Settled(s), NEW x, Sound(x), Settled(x), NEW t, t = Tuner!Alive(s, x)
    PROVE  Sound(t) /\ Settled(t)
  <1>1. CASE Tuner!Guarded(s)
    BY <1>1 DEF Tuner!Alive
  <1>2. CASE ~ Tuner!Guarded(s)
    <2>1. t = Tuner!LeaveLauncher(s)
      BY <1>2 DEF Tuner!Alive
    <2>2. s.tap.ctx # Nobody => s.tap.asked /\ ~ s.tap.ready /\ s.screen.visible /\ s.screen.opened
      BY DEF Settled
    <2> QED BY <2>1, <2>2, LeftKeeps
  <1> QED BY <1>1, <1>2

\* A run reaches its next point.
LEMMA AdvanceKeeps ==
    ASSUME TunerInv, Tuner!Advance
    PROVE  TunerInv'
  <1> DEFINE s == Tuner!State
             next == CASE s.capture.at = "open" -> "worklet" [] s.capture.at = "worklet" -> "worker"
                       [] OTHER -> "resume"
             x == [s EXCEPT !.capture.at = next]
             t == Tuner!Alive(s, x)
  <1>1. Sound(s) /\ Settled(s) /\ s.capture = capture
    BY TunerBefore
  <1>2. s.capture.at # "none" /\ Tuner!Become(t)
    BY <1>1 DEF Tuner!Advance
  <1> HIDE DEF s
  <1>3. next \in {"none", "open", "worklet", "worker", "resume", "measuring"} /\ next # "none"
    OBVIOUS
  <1> HIDE DEF next
  <1>4. /\ x \in TunerStates /\ SameEntry(s, x) /\ x.tone = s.tone /\ x.tuner = s.tuner /\ x.device = s.device
        /\ x.capture.ctx = s.capture.ctx /\ x.capture.current = s.capture.current /\ x.capture.at = next
    BY <1>1, <1>3 DEF Sound, TunerStates, SameEntry
  <1> HIDE DEF x
  <1>5. Sound(x) /\ Settled(x)
    BY <1>1, <1>2, <1>3, <1>4, RunGoesOn
  <1> HIDE DEF t
  <1>6. Sound(t) /\ Settled(t)
    BY <1>1, <1>5, AliveKeeps DEF t
  <1> QED BY <1>2, <1>6, TunerArrives

\* The run measures, or asks for a tap.
LEMMA ResumedKeeps ==
    ASSUME TunerInv, NEW sounding \in BOOLEAN, Tuner!Resumed(sounding)
    PROVE  TunerInv'
  <1> DEFINE s == Tuner!State
             m == Tuner!Emit(s, "measuring")
             a == [m EXCEPT !.capture.at = "measuring"]
             n == [a EXCEPT !.capture.lock = "asked"]
             f == Tuner!Fail(s, "resume-required")
             x == IF sounding THEN n ELSE f
             t == Tuner!Alive(s, x)
  <1>1. Sound(s) /\ Settled(s) /\ s.capture = capture /\ s \in TunerStates
    BY TunerBefore DEF Sound
  <1>2. /\ m \in TunerStates /\ SameEntry(s, m) /\ m.tone = s.tone /\ m.device = s.device
        /\ m.capture.at = s.capture.at /\ m.capture.ctx = s.capture.ctx /\ m.capture.current = s.capture.current
        /\ m.tuner.loaded = s.tuner.loaded /\ m.tuner.earphones = s.tuner.earphones
    <2>1. "measuring" \in Reports
      BY DEF Reports
    <2> HIDE DEF s
    <2> QED BY <1>1, <2>1, EmitFields
  <1>3. s.capture.at = "resume" /\ Tuner!Become(t)
    <2>1. s.capture.at = "resume"
      BY <1>1 DEF Tuner!Resumed
    <2>2. Tuner!Become(Tuner!Alive(s, IF sounding
                           THEN [m EXCEPT !.capture.at = "measuring", !.capture.lock = "asked"] ELSE f))
      BY DEF Tuner!Resumed
    <2> HIDE DEF m, s, f
    <2>3. [m EXCEPT !.capture.at = "measuring", !.capture.lock = "asked"] = n
      BY <1>2 DEF TunerStates
    <2> HIDE DEF n
    <2> QED BY <2>1, <2>2, <2>3
  <1> HIDE DEF s, m
  <1>4. /\ a \in TunerStates /\ SameEntry(m, a) /\ a.tone = m.tone /\ a.tuner = m.tuner /\ a.device = m.device
        /\ a.capture.at = "measuring" /\ a.capture.ctx = m.capture.ctx /\ a.capture.current = m.capture.current
    BY <1>2 DEF TunerStates, SameEntry
  <1> HIDE DEF a
  <1>5. /\ n \in TunerStates /\ SameEntry(a, n) /\ n.tone = a.tone /\ n.tuner = a.tuner /\ n.device = a.device
        /\ n.capture.at = a.capture.at /\ n.capture.ctx = a.capture.ctx /\ n.capture.current = a.capture.current
    BY <1>4 DEF TunerStates, SameEntry
  <1> HIDE DEF n
  <1>6. Sound(n) /\ Settled(n)
    <2>1. /\ SameEntry(s, n) /\ n.tone = s.tone /\ n.tuner.loaded = s.tuner.loaded
          /\ n.tuner.earphones = s.tuner.earphones /\ n.device = s.device
          /\ n.capture.ctx = s.capture.ctx /\ n.capture.current = s.capture.current
          /\ s.capture.at # "none" /\ n.capture.at # "none"
      BY <1>2, <1>3, <1>4, <1>5 DEF SameEntry
    <2> QED BY <1>1, <1>5, <2>1, RunGoesOn
  <1>7. Sound(f) /\ Settled(f)
    <2>1. "resume-required" \in Reports
      BY DEF Reports
    <2> HIDE DEF f
    <2> QED BY <1>1, <2>1, FailKeeps DEF f
  <1> HIDE DEF f
  <1>8. Sound(x) /\ Settled(x)
    BY <1>6, <1>7
  <1> HIDE DEF x, t
  <1>9. Sound(t) /\ Settled(t)
    BY <1>1, <1>8, AliveKeeps DEF t
  <1> QED BY <1>3, <1>9, TunerArrives

\* A run fails.
LEMMA RunFailsKeeps ==
    ASSUME TunerInv, Tuner!StartFails \/ Tuner!Interrupted
    PROVE  TunerInv'
  <1> DEFINE s == Tuner!State
             t == Tuner!Fail(s, "unavailable")
             u == Tuner!Fail(s, "resume-required")
  <1>1. Sound(s) /\ Settled(s) /\ (Tuner!Become(t) \/ Tuner!Become(u))
    BY TunerBefore DEF Tuner!StartFails, Tuner!Interrupted
  <1>2. "unavailable" \in Reports /\ "resume-required" \in Reports
    BY DEF Reports
  <1> HIDE DEF s, t, u
  <1>3. Sound(t) /\ Settled(t) /\ Sound(u) /\ Settled(u)
    BY <1>1, <1>2, FailKeeps DEF t, u
  <1> QED BY <1>1, <1>3, TunerArrives

\* A watchdog finds that the screen does not show.
LEMMA WatchKeeps ==
    ASSUME TunerInv, Tuner!WatchCapture \/ Tuner!WatchTone
    PROVE  TunerInv'
  <1> DEFINE s == Tuner!State
             t == Tuner!LeaveLauncher(s)
  <1>1. Sound(s) /\ Settled(s) /\ Tuner!Become(t)
    BY TunerBefore DEF Tuner!WatchCapture, Tuner!WatchTone
  <1> HIDE DEF s
  <1>2. s.tap.ctx # Nobody => s.tap.asked /\ ~ s.tap.ready /\ s.screen.visible /\ s.screen.opened
    BY <1>1 DEF Settled
  <1> HIDE DEF t
  <1>3. Sound(t) /\ Settled(t)
    BY <1>1, <1>2, LeftKeeps DEF t
  <1> QED BY <1>1, <1>3, TunerArrives

\* A measurement starts again after a tone.
LEMMA ResumeTimerKeeps ==
    ASSUME TunerInv, Tuner!ResumeTimer
    PROVE  TunerInv'
  <1> DEFINE s == Tuner!State
             u == TimerOff(s)
             t == IF s.entry.primed = Nobody THEN u ELSE Tuner!Enter(u)
  <1>1. Sound(s) /\ Settled(s) /\ s.entry.timer /\ Contexts \ s.device.open # {} /\ Tuner!Become(t)
    <2>1. s.entry = entry /\ s.device = device /\ Sound(s) /\ Settled(s)
      BY TunerBefore
    <2> HIDE DEF s
    <2>2. Tuner!Become(IF entry.primed = Nobody THEN u ELSE Tuner!Enter(u))
      BY DEF s, Tuner!ResumeTimer, TimerOff
    <2> QED BY <2>1, <2>2 DEF Tuner!ResumeTimer, Tuner!HasFresh
  <1> HIDE DEF s
  <1>2. /\ Sound(u) /\ u.screen = s.screen /\ u.tap = s.tap /\ u.device = s.device
        /\ u.entry.active = s.entry.active /\ u.entry.primed = s.entry.primed
    BY <1>1, TimerKeeps
  <1>3. s.entry.active /\ s.tap.ready /\ s.screen.visible /\ s.screen.opened /\ s.tap.ctx = Nobody
    BY <1>1 DEF Settled
  <1> HIDE DEF u
  <1>4. Settled(u)
    BY <1>2, <1>3, ThereIsSettled
  <1>5. Sound(t) /\ Settled(t)
    <2>1. CASE s.entry.primed = Nobody
      BY <1>2, <1>4, <2>1
    <2>2. CASE s.entry.primed # Nobody
      <3>1. t = Tuner!Enter(u) /\ u.tap.ctx = Nobody /\ u.tap.ready /\ u.entry.primed # Nobody
        BY <1>2, <1>3, <2>2
      <3> HIDE DEF t
      <3> QED BY <1>2, <3>1, EnterTunerKeeps
    <2> QED BY <2>1, <2>2
  <1> QED BY <1>1, <1>5, TunerArrives

\* A tone is asked for.
LEMMA StartToneKeeps ==
    ASSUME TunerInv, NEW ok \in BOOLEAN, Tuner!Start(ok)
    PROVE  TunerInv'
  <1> DEFINE s == Tuner!State
             c == IF Tuner!Exclusive(s) THEN Tuner!CancelResume(s) ELSE s
             t == IF ok THEN Tuner!ToneStarted(c, Tuner!Exclusive(s)) ELSE c
  <1>1. Tuner!UserIsThere /\ Tuner!Become(t)
    BY DEF Tuner!Start
  <1>2. /\ Sound(s) /\ s.tuner.loaded /\ s.entry.active /\ s.tap.ctx = Nobody /\ s.tap.ready
        /\ s.screen.visible /\ s.screen.opened
    BY <1>1, TunerUser
  <1> HIDE DEF s
  <1>3. /\ Sound(c) /\ c.screen = s.screen /\ c.tap = s.tap /\ c.tuner = s.tuner /\ c.entry.active = s.entry.active
    <2>1. CASE Tuner!Exclusive(s)
      <3>1. c = Tuner!CancelResume(s)
        BY <2>1
      <3> HIDE DEF c
      <3> QED BY <1>2, <3>1, CancelResumeKeeps
    <2>2. CASE ~ Tuner!Exclusive(s)
      BY <1>2, <2>2
    <2> QED BY <2>1, <2>2
  <1> HIDE DEF c
  <1>4. Tuner!Exclusive(c) = Tuner!Exclusive(s)
    BY <1>3 DEF Tuner!Exclusive
  <1>5. Sound(t) /\ Settled(t)
    <2>1. CASE ok
      <3>1. t = Tuner!ToneStarted(c, Tuner!Exclusive(c))
        BY <1>4, <2>1
      <3> HIDE DEF t
      <3> QED BY <1>2, <1>3, <3>1, ToneStartedKeeps
    <2>2. CASE ~ ok
      BY <1>2, <1>3, <2>2, ThereIsSettled
    <2> QED BY <2>1, <2>2
  <1> QED BY <1>1, <1>5, TunerArrives
\* A tone is stopped.
LEMMA StopKeeps ==
    ASSUME TunerInv, Tuner!Stop
    PROVE  TunerInv'
  <1> DEFINE s == Tuner!State
             t == Tuner!StopTone(s)
  <1>1. Tuner!UserIsThere /\ Tuner!Playing(s) /\ Tuner!Become(t)
    BY DEF Tuner!Stop
  <1>2. /\ Sound(s) /\ s.tuner.loaded /\ s.entry.active /\ s.tap.ctx = Nobody /\ s.tap.ready
        /\ s.screen.visible /\ s.screen.opened /\ Contexts \ s.device.open # {}
    BY <1>1, TunerUser
  <1> HIDE DEF s, t
  <1>3. Sound(t) /\ Settled(t)
    BY <1>1, <1>2, StopToneKeeps DEF t
  <1> QED BY <1>1, <1>3, TunerArrives

\* The pause is over for the body.
LEMMA UnpausedKeeps ==
    ASSUME NEW s, Sound(s), NEW b \in BOOLEAN, NEW t, t = [s EXCEPT !.tuner.paused = b]
    PROVE  /\ Sound(t) /\ SameEntry(s, t) /\ t.device = s.device /\ t.tuner.loaded = s.tuner.loaded
           /\ (Settled(s) => Settled(t))
  <1>1. /\ t \in TunerStates /\ SameEntry(s, t) /\ t.capture = s.capture /\ t.tone = s.tone /\ t.device = s.device
        /\ t.tuner.loaded = s.tuner.loaded /\ t.tuner.earphones = s.tuner.earphones
    BY DEF Sound, TunerStates, SameEntry
  <1> QED BY <1>1, RunGoesOn

\* A measurement is resumed by a tap.
LEMMA ResumedByTap ==
    ASSUME TunerInv, Tuner!StopFinished \/ Tuner!Practise \/ Tuner!Unpause
    PROVE  TunerInv'
  <1> DEFINE s == Tuner!State
             u == [s EXCEPT !.tuner.paused = FALSE]
             a == Tuner!ResumeMeasurement(s, FALSE)
             b == Tuner!ResumeMeasurement(u, FALSE)
             c == Tuner!StopTone(s)
  <1>1. Tuner!UserIsThere
    BY DEF Tuner!StopFinished, Tuner!Practise, Tuner!Unpause
  <1>2. Tuner!Become(a) \/ Tuner!Become(b) \/ (Tuner!Playing(s) /\ Tuner!Become(c))
    BY DEF Tuner!StopFinished, Tuner!Practise, Tuner!Unpause
  <1>3. /\ Sound(s) /\ s.tuner.loaded /\ s.entry.active /\ s.tap.ctx = Nobody /\ s.tap.ready
        /\ s.screen.visible /\ s.screen.opened /\ Contexts \ s.device.open # {}
    BY <1>1, TunerUser
  <1>4. FALSE \in BOOLEAN
    OBVIOUS
  <1> HIDE DEF s, a, b, c
  <1>5. /\ Sound(u) /\ SameEntry(s, u) /\ u.device = s.device
    BY <1>3, <1>4, UnpausedKeeps
  <1>6. /\ u.entry.active /\ u.tap.ctx = Nobody /\ u.tap.ready
        /\ u.screen.visible /\ u.screen.opened /\ Contexts \ u.device.open # {}
    BY <1>3, <1>5 DEF SameEntry
  <1> HIDE DEF u
  <1>7. Sound(a) /\ Settled(a)
    BY <1>3, <1>4, ResumeMeasurementKeeps DEF a
  <1>8. Sound(b) /\ Settled(b)
    BY <1>4, <1>5, <1>6, ResumeMeasurementKeeps DEF b
  <1>9. Tuner!Playing(s) => Sound(c) /\ Settled(c)
    BY <1>3, StopToneKeeps DEF c
  <1> QED BY <1>2, <1>7, <1>8, <1>9, TunerArrives

\* A tone has faded, or its last notes ring.
LEMMA FadedKeeps ==
    ASSUME TunerInv, Tuner!Faded \/ Tuner!PatternEnds
    PROVE  TunerInv'
  <1> DEFINE s == Tuner!State
             t == [s EXCEPT !.tone = Tuner!Silence]
             u == WithTone(s, "ending")
  <1>1. Sound(s) /\ Settled(s) /\ s.tone = tone /\ s \in TunerStates
    BY TunerBefore DEF Sound
  <1>2. Tuner!Become(t) \/ (s.tone.state = "playing" /\ Tuner!Become(u))
    BY <1>1 DEF Tuner!Faded, Tuner!PatternEnds, WithTone
  <1> HIDE DEF s
  <1>3. Toned(s, t) /\ t.tone = Tuner!Silence
    BY <1>1, SilencedFields DEF Toned
  <1>4. Toned(s, u) /\ u.tone.state = "ending"
    BY <1>1, ToneStateFields
  <1> HIDE DEF t, u
  <1>5. Sound(t) /\ Settled(t)
    BY <1>1, <1>3, TonedKeeps DEF Tuner!Playing, Tuner!Silence
  <1>6. s.tone.state = "playing" => Sound(u) /\ Settled(u)
    BY <1>1, <1>4, TonedKeeps DEF Tuner!Playing, Tuner!Silence
  <1> QED BY <1>2, <1>5, <1>6, TunerArrives

\* A tone is over: what the body kept for it is given back.
LEMMA PatternDoneKeeps ==
    ASSUME TunerInv, Tuner!PatternDone \/ Tuner!Revoked
    PROVE  TunerInv'
  <1> DEFINE s == Tuner!State
             e == Tuner!EndTone(s)
             f == [e EXCEPT !.tone = Tuner!Silence]
             o == WithOutput(f, "idle")
             t == WithStatus(o, "resume-required")
  <1>1. Sound(s) /\ Settled(s) /\ s \in TunerStates
    BY TunerBefore DEF Sound
  <1>2. Toned(s, e)
    <2> HIDE DEF s
    <2> QED BY <1>1, EndToneFields DEF Toned
  <1>3. Tuner!Become(o) \/ Tuner!Become(t)
    <2>1. \/ Tuner!Become([e EXCEPT !.tone = Tuner!Silence, !.coord.output = "idle",
                                     !.tuner.shown = IF tone.exclusive THEN "resume-required" ELSE @])
          \/ Tuner!Become([e EXCEPT !.tone = Tuner!Silence, !.coord.output = "idle", !.tuner.shown = "resume-required"])
      BY DEF Tuner!PatternDone, Tuner!Revoked
    <2> HIDE DEF e, s
    <2>2. [e EXCEPT !.tone = Tuner!Silence, !.coord.output = "idle", !.tuner.shown = "resume-required"] = t
      BY <1>2 DEF Toned, TunerStates, WithOutput, WithStatus
    <2>3. [e EXCEPT !.tone = Tuner!Silence, !.coord.output = "idle", !.tuner.shown = @] = o
      BY <1>2 DEF Toned, TunerStates, WithOutput
    <2> QED BY <2>1, <2>2, <2>3
  <1> HIDE DEF s, e
  <1>4. Toned(e, f) /\ f.tone = Tuner!Silence
    BY <1>2, SilencedFields DEF Toned
  <1> HIDE DEF f
  <1>5. Toned(f, o) /\ o.tone = f.tone
    BY <1>4, OutputFields DEF Toned
  <1> HIDE DEF o
  <1>6. Toned(o, t) /\ t.tone = o.tone
    <2>1. "resume-required" \in Tuner!Status
      BY DEF Tuner!Status
    <2> QED BY <1>5, <2>1, StatusFields DEF Toned
  <1> HIDE DEF t
  <1>7. Toned(s, o) /\ Toned(s, t) /\ o.tone = Tuner!Silence /\ t.tone = Tuner!Silence
    BY <1>2, <1>4, <1>5, <1>6 DEF Toned, SameEntry
  <1>8. ~ Tuner!Playing(o) /\ ~ Tuner!Playing(t)
    BY <1>7 DEF Tuner!Playing, Tuner!Silence
  <1>9. Sound(o) /\ Settled(o) /\ Sound(t) /\ Settled(t)
    BY <1>1, <1>7, <1>8, TonedKeeps
  <1> QED BY <1>3, <1>9, TunerArrives

\* The controller is stopped.
LEMMA CaptureStoppedKeeps ==
    ASSUME NEW s, Sound(s), NEW t, t = Tuner!StopCapture(s)
    PROVE  Sound(t) /\ SameEntry(s, t)
  <1>1. s \in TunerStates /\ (s.capture.at = "none" => NoRun(s))
    BY DEF Sound, Coherent
  <1>2. /\ t \in TunerStates /\ SameEntry(s, t) /\ t.tone = s.tone /\ NoRun(t)
        /\ t.tuner.loaded = s.tuner.loaded /\ t.tuner.earphones = s.tuner.earphones
        /\ t.device.open = s.device.open \ {s.capture.ctx} /\ t.device.stray = s.device.stray
    BY <1>1, StopCaptureFields
  <1>3. Owned(t, Nobody)
    BY <1>2 DEF Sound, Owned, Distinct, SameEntry, NoRun
  <1>4. Coherent(t)
    BY <1>2 DEF Sound, Coherent, SameEntry, NoRun, Tuner!Playing
  <1> QED BY <1>2, <1>3, <1>4 DEF Sound, SameEntry

\* The body is paused.
LEMMA PauseTunerKeeps ==
    ASSUME TunerInv, Tuner!Pause
    PROVE  TunerInv'
  <1> DEFINE s == Tuner!State
             u == [s EXCEPT !.tuner.paused = TRUE]
             c == Tuner!CancelResume(u)
             x == Tuner!StopCapture(c)
             y == [x EXCEPT !.coord.capture = "paused"]
             t == WithStatus(y, "paused")
  <1>1. Tuner!UserIsThere /\ Tuner!Become([x EXCEPT !.coord.capture = "paused", !.tuner.shown = "paused"])
    BY DEF Tuner!Pause
  <1>2. /\ Sound(s) /\ s.entry.active /\ s.tap.ctx = Nobody /\ s.tap.ready
        /\ s.screen.visible /\ s.screen.opened
    BY <1>1, TunerUser
  <1> HIDE DEF s
  <1>3. Sound(u) /\ SameEntry(s, u)
    <2>1. TRUE \in BOOLEAN
      OBVIOUS
    <2> QED BY <1>2, <2>1, UnpausedKeeps
  <1> HIDE DEF u
  <1>4. Sound(c) /\ c.screen = u.screen /\ c.tap = u.tap /\ c.entry.active = u.entry.active
    BY <1>3, CancelResumeKeeps
  <1> HIDE DEF c
  <1>5. Sound(x) /\ SameEntry(c, x)
    BY <1>4, CaptureStoppedKeeps
  <1> HIDE DEF x
  <1>6. [x EXCEPT !.coord.capture = "paused", !.tuner.shown = "paused"] = t
    BY <1>5 DEF Sound, TunerStates, WithStatus
  <1>7. Toned(x, y) /\ y.tone = x.tone
    BY <1>5 DEF Sound, TunerStates, Toned, SameEntry, Tuner!Captures
  <1> HIDE DEF y
  <1>8. Toned(y, t) /\ t.tone = y.tone
    <2>1. "paused" \in Tuner!Status
      BY DEF Tuner!Status
    <2> QED BY <1>7, <2>1, StatusFields DEF Toned
  <1> HIDE DEF t
  <1>9. Toned(x, t) /\ t.tone = x.tone
    BY <1>7, <1>8 DEF Toned, SameEntry
  <1>10. Sound(t)
    BY <1>5, <1>9, TonedKeeps DEF Tuner!Playing
  <1>11. Settled(t)
    BY <1>2, <1>3, <1>4, <1>5, <1>9, ThereIsSettled DEF SameEntry, Toned
  <1> QED BY <1>1, <1>6, <1>10, <1>11, TunerArrives
\* The body is started anew.
LEMMA RestartKeeps ==
    ASSUME TunerInv, Tuner!Restart
    PROVE  TunerInv'
  <1> DEFINE s == Tuner!State
             p == [s EXCEPT !.tuner.paused = FALSE]
             r == TimerOff(p)
             b == Tuner!StopBody(r)
             l == [b EXCEPT !.entry.active = FALSE]
             n == [l EXCEPT !.entry.current = FALSE]
             q == Tuner!Prime(n)
             t == Tuner!Enter(q)
  <1>1. /\ Tuner!UserIsThere
        /\ LET r1 == [s EXCEPT !.tuner.paused = FALSE, !.entry.timer = FALSE]
               b1 == Tuner!StopBody(r1)
           IN  Tuner!Become(Tuner!Enter(Tuner!Prime([b1 EXCEPT !.entry.active = FALSE, !.entry.current = FALSE])))
    BY DEF Tuner!Restart
  <1>2. /\ Sound(s) /\ s.tuner.loaded /\ s.entry.active /\ s.tap.ctx = Nobody /\ s.tap.ready
        /\ Contexts \ s.device.open # {}
    BY <1>1, TunerUser
  <1> HIDE DEF s
  <1>3. Sound(p) /\ SameEntry(s, p) /\ p.device = s.device /\ p.tuner.loaded
    <2>1. FALSE \in BOOLEAN
      OBVIOUS
    <2> QED BY <1>2, <2>1, UnpausedKeeps
  <1>4. [s EXCEPT !.tuner.paused = FALSE, !.entry.timer = FALSE] = r
    BY <1>2 DEF Sound, TunerStates, TimerOff
  <1> HIDE DEF p
  <1>5. /\ Sound(r) /\ r.screen = p.screen /\ r.tap = p.tap /\ r.tuner = p.tuner /\ r.device = p.device
        /\ r.entry.active = p.entry.active
    BY <1>3, TimerKeeps
  <1> HIDE DEF r
  <1>6. r \in TunerStates /\ Owned(r, Nobody) /\ Coherent(r) /\ ~ r.entry.entering /\ r.tuner.loaded
    BY <1>3, <1>5 DEF Sound
  <1>7. /\ b \in TunerStates /\ SameEntry(r, b) /\ b.tone = Tuner!Silence /\ NoRun(b)
        /\ b.tuner.loaded = r.tuner.loaded
        /\ b.device.open = r.device.open \ {r.capture.ctx} /\ b.device.stray = r.device.stray
    <2>1. r.capture.at = "none" => NoRun(r)
      BY <1>6 DEF Coherent
    <2> QED BY <1>6, <2>1, StopBodyFields
  <1>8. Tuner!Become(t)
    <2>1. Tuner!Become(Tuner!Enter(Tuner!Prime([b EXCEPT !.entry.active = FALSE, !.entry.current = FALSE])))
      BY <1>1, <1>4
    <2> HIDE DEF b
    <2>2. [b EXCEPT !.entry.active = FALSE, !.entry.current = FALSE] = n
      BY <1>7 DEF TunerStates
    <2> HIDE DEF n
    <2> QED BY <2>1, <2>2
  <1> HIDE DEF b
  <1>9. /\ l \in TunerStates /\ l.screen = b.screen /\ l.tap = b.tap /\ l.capture = b.capture /\ l.tone = b.tone
        /\ l.tuner = b.tuner /\ l.device = b.device /\ l.entry.entering = b.entry.entering
        /\ l.entry.primed = b.entry.primed /\ l.entry.starting = b.entry.starting
    BY <1>7 DEF TunerStates
  <1> HIDE DEF l
  <1>10. /\ n \in TunerStates /\ n.screen = l.screen /\ n.tap = l.tap /\ n.capture = l.capture /\ n.tone = l.tone
         /\ n.tuner = l.tuner /\ n.device = l.device /\ n.entry.entering = l.entry.entering
         /\ n.entry.primed = l.entry.primed /\ n.entry.starting = l.entry.starting
    BY <1>9 DEF TunerStates
  <1> HIDE DEF n
  <1>11. Owned(n, Nobody)
    BY <1>6, <1>7, <1>9, <1>10 DEF Owned, Distinct, SameEntry, NoRun
  <1>12. Coherent(n)
    BY <1>6, <1>7, <1>9, <1>10 DEF Coherent, SameEntry, NoRun, Tuner!Playing, Tuner!Silence
  <1>13. Sound(n) /\ n.tap = s.tap /\ Contexts \ n.device.open # {}
    BY <1>2, <1>3, <1>5, <1>6, <1>7, <1>9, <1>10, <1>11, <1>12 DEF Sound, SameEntry
  <1>14. Sound(q) /\ q.tap = n.tap /\ (Tuner!AlreadyActive(q) \/ q.entry.primed # Nobody)
    BY <1>13, PrimeKeeps
  <1> HIDE DEF q
  <1>15. q.tap.ctx = Nobody /\ q.tap.ready
    BY <1>2, <1>13, <1>14
  <1> HIDE DEF t
  <1>16. Sound(t) /\ Settled(t)
    BY <1>14, <1>15, EnterTunerKeeps DEF t
  <1> QED BY <1>8, <1>16, TunerArrives

\* A load that failed is tried again.
LEMMA RetryKeeps ==
    ASSUME TunerInv, Tuner!Retry
    PROVE  TunerInv'
  <1> DEFINE s == Tuner!State
             r == TimerOff(s)
             l == [r EXCEPT !.entry.active = FALSE]
             n == [l EXCEPT !.entry.current = FALSE]
             q == Tuner!Prime(n)
             t == Tuner!Enter(q)
  <1>1. /\ Sound(s) /\ Settled(s) /\ s.tap = tap /\ s.entry = entry /\ s.tuner = tuner /\ s.device = device
        /\ Tuner!Become(Tuner!Enter(Tuner!Prime([s EXCEPT !.entry = [@ EXCEPT !.timer = FALSE, !.active = FALSE,
                                                                              !.current = FALSE]])))
    BY TunerBefore DEF Tuner!Retry
  <1>2. /\ s.tap.ctx = Nobody /\ s.tap.ready /\ ~ s.tuner.loaded /\ ~ s.entry.entering
        /\ Contexts \ s.device.open # {}
    BY <1>1 DEF Tuner!Retry, Tuner!HasFresh, Settled
  <1> HIDE DEF s
  <1>3. [s EXCEPT !.entry = [@ EXCEPT !.timer = FALSE, !.active = FALSE, !.current = FALSE]] = n
    BY <1>1 DEF Sound, TunerStates, TimerOff
  <1>4. Tuner!Become(t)
    <2> HIDE DEF n
    <2> QED BY <1>1, <1>3
  <1>5. /\ Sound(r) /\ r.screen = s.screen /\ r.tap = s.tap /\ r.tuner = s.tuner /\ r.device = s.device
        /\ r.capture = s.capture /\ r.tone = s.tone
    BY <1>1, TimerKeeps
  <1>6. ~ r.entry.entering
    BY <1>1, <1>2 DEF TimerOff, Sound, TunerStates
  <1> HIDE DEF r
  <1>7. r \in TunerStates /\ Owned(r, Nobody) /\ Coherent(r)
    BY <1>5 DEF Sound
  <1>8. /\ l \in TunerStates /\ l.screen = r.screen /\ l.tap = r.tap /\ l.capture = r.capture /\ l.tone = r.tone
        /\ l.tuner = r.tuner /\ l.device = r.device /\ l.entry.entering = r.entry.entering
        /\ l.entry.primed = r.entry.primed /\ l.entry.starting = r.entry.starting
    BY <1>7 DEF TunerStates
  <1> HIDE DEF l
  <1>9. /\ n \in TunerStates /\ n.screen = l.screen /\ n.tap = l.tap /\ n.capture = l.capture /\ n.tone = l.tone
        /\ n.tuner = l.tuner /\ n.device = l.device /\ n.entry.entering = l.entry.entering
        /\ n.entry.primed = l.entry.primed /\ n.entry.starting = l.entry.starting
    BY <1>8 DEF TunerStates
  <1> HIDE DEF n
  <1>10. Owned(n, Nobody)
    BY <1>7, <1>8, <1>9 DEF Owned, Distinct
  <1>11. Coherent(n)
    BY <1>6, <1>7, <1>8, <1>9 DEF Coherent, NoRun, Tuner!Playing, Tuner!Silence
  <1>12. Sound(n) /\ n.tap = s.tap /\ Contexts \ n.device.open # {}
    BY <1>2, <1>5, <1>6, <1>8, <1>9, <1>10, <1>11 DEF Sound
  <1>13. Sound(q) /\ q.tap = n.tap /\ (Tuner!AlreadyActive(q) \/ q.entry.primed # Nobody)
    BY <1>12, PrimeKeeps
  <1> HIDE DEF q
  <1>14. q.tap.ctx = Nobody /\ q.tap.ready
    BY <1>2, <1>12, <1>13
  <1> HIDE DEF t
  <1>15. Sound(t) /\ Settled(t)
    BY <1>13, <1>14, EnterTunerKeeps DEF t
  <1> QED BY <1>4, <1>15, TunerArrives

\* Earphones are declared, or taken back.
LEMMA DeclareKeeps ==
    ASSUME TunerInv, NEW earphones \in BOOLEAN, Tuner!Declare(earphones)
    PROVE  TunerInv'
  <1> DEFINE s == Tuner!State
             u == [s EXCEPT !.tuner.earphones = earphones]
             taken == s.tone.withdrawn \/ (Tuner!Playing(s) /\ ~ earphones)
             t == [u EXCEPT !.tone.withdrawn = taken]
  <1>1. /\ Tuner!UserIsThere
        /\ Tuner!Become([s EXCEPT !.tuner.earphones = earphones,
                                  !.tone.withdrawn = @ \/ (Tuner!Playing(s) /\ ~ earphones)])
    BY DEF Tuner!Declare
  <1>2. /\ Sound(s) /\ s.tuner.loaded /\ s.entry.active /\ s.tap.ctx = Nobody /\ s.tap.ready
        /\ s.screen.visible /\ s.screen.opened
    BY <1>1, TunerUser
  <1>3. taken \in BOOLEAN /\ (Tuner!Playing(s) /\ ~ earphones => taken) /\ (s.tone.withdrawn => taken)
    OBVIOUS
  <1> HIDE DEF s
  <1>4. [s EXCEPT !.tuner.earphones = earphones, !.tone.withdrawn = @ \/ (Tuner!Playing(s) /\ ~ earphones)] = t
    BY <1>2 DEF Sound, TunerStates
  <1> HIDE DEF taken
  <1>5. /\ u \in TunerStates /\ SameEntry(s, u) /\ u.capture = s.capture /\ u.tone = s.tone /\ u.device = s.device
        /\ u.tuner.loaded = s.tuner.loaded /\ u.tuner.earphones = earphones
    BY <1>2 DEF Sound, TunerStates, SameEntry
  <1> HIDE DEF u
  <1>6. /\ t \in TunerStates /\ SameEntry(u, t) /\ t.capture = u.capture /\ t.tuner = u.tuner /\ t.device = u.device
        /\ t.tone.state = u.tone.state /\ t.tone.withdrawn = taken
    BY <1>3, <1>5 DEF TunerStates, SameEntry
  <1> HIDE DEF t
  <1>7. Owned(t, Nobody)
    BY <1>2, <1>5, <1>6 DEF Sound, Owned, SameEntry
  <1>8. Coherent(t)
    <2>1. ~ (Tuner!Playing(t) /\ ~ t.tuner.earphones /\ ~ t.tone.withdrawn)
      BY <1>3, <1>5, <1>6 DEF Tuner!Playing
    <2> QED BY <1>2, <1>5, <1>6, <2>1 DEF Sound, Coherent, NoRun, SameEntry
  <1>9. Sound(t)
    BY <1>2, <1>5, <1>6, <1>7, <1>8 DEF Sound, SameEntry
  <1>10. Settled(t)
    BY <1>2, <1>5, <1>6, ThereIsSettled DEF SameEntry
  <1> QED BY <1>1, <1>4, <1>9, <1>10, TunerArrives

\* The page has been opened and no tuner was asked for.
LEMMA TunerInitHolds ==
    ASSUME Tuner!Init
    PROVE  TunerInv
  <1> DEFINE s == Tuner!State
  <1>1. /\ s.screen = [visible |-> TRUE, opened |-> FALSE, covered |-> FALSE]
        /\ s.tap = [ready |-> FALSE, ctx |-> Nobody, asked |-> FALSE]
        /\ s.entry = [active |-> FALSE, current |-> FALSE, entering |-> FALSE, late |-> FALSE, primed |-> Nobody,
                      starting |-> Nobody, returning |-> FALSE, timer |-> FALSE]
        /\ s.capture = Tuner!Idle /\ s.tone = Tuner!Silence
        /\ s.tuner = [loaded |-> FALSE, shown |-> "hidden", paused |-> FALSE, earphones |-> FALSE]
        /\ s.coord = [capture |-> "stopped", output |-> "idle"]
        /\ s.device = [open |-> {}, lateMic |-> FALSE, lateLock |-> FALSE, stray |-> FALSE]
    BY DEF Tuner!Init, Tuner!State
  <1>2. s \in TunerStates
    <2>1. s = [screen |-> s.screen, tap |-> s.tap, entry |-> s.entry, capture |-> s.capture, tone |-> s.tone,
               tuner |-> s.tuner, coord |-> s.coord, device |-> s.device]
      BY DEF Tuner!State
    <2>2. /\ Nobody \in Tuner!Slots /\ "hidden" \in Tuner!Status /\ "stopped" \in Tuner!Captures
          /\ {} \in SUBSET Contexts
      BY DEF Tuner!Slots, Tuner!Status, Tuner!Captures
    <2>3. Tuner!Idle = [state |-> "hidden", at |-> "none", ctx |-> Nobody, mic |-> "none", lock |-> "none",
                        current |-> FALSE]
      BY DEF Tuner!Idle
    <2>4. Tuner!Silence = [state |-> "none", exclusive |-> FALSE, watch |-> FALSE, lock |-> "none",
                           withdrawn |-> FALSE]
      BY DEF Tuner!Silence
    <2>5. /\ s.screen \in [visible : BOOLEAN, opened : BOOLEAN, covered : BOOLEAN]
          /\ s.tap \in [ready : BOOLEAN, ctx : Tuner!Slots, asked : BOOLEAN]
          /\ s.tuner \in [loaded : BOOLEAN, shown : Tuner!Status, paused : BOOLEAN, earphones : BOOLEAN]
      BY <1>1, <2>2
    <2>6. s.entry \in [active : BOOLEAN, current : BOOLEAN, entering : BOOLEAN, late : BOOLEAN,
                       primed : Tuner!Slots, starting : Tuner!Slots, returning : BOOLEAN, timer : BOOLEAN]
      BY <1>1, <2>2
    <2>7. s.capture \in [state : Tuner!Status, at : {"none", "open", "worklet", "worker", "resume", "measuring"},
                         ctx : Tuner!Slots, mic : {"none", "pending", "live"}, lock : {"none", "asked", "held"},
                         current : BOOLEAN]
      BY <1>1, <2>2, <2>3
    <2>8. s.tone \in [state : {"none", "playing", "fading", "ending"}, exclusive : BOOLEAN, watch : BOOLEAN,
                      lock : {"none", "asked", "held"}, withdrawn : BOOLEAN]
      BY <1>1, <2>4
    <2>9. /\ s.coord \in [capture : Tuner!Captures, output : {"idle", "playing"}]
          /\ s.device \in [open : SUBSET Contexts, lateMic : BOOLEAN, lateLock : BOOLEAN, stray : BOOLEAN]
      BY <1>1, <2>2
    <2> HIDE DEF s
    <2> QED BY <2>1, <2>5, <2>6, <2>7, <2>8, <2>9 DEF TunerStates
  <1> HIDE DEF s
  <1>3. NoRun(s)
    BY <1>1 DEF NoRun, Tuner!Idle
  <1>4. Owned(s, Nobody)
    BY <1>1, <1>3 DEF Owned, Distinct, NoRun
  <1>5. Coherent(s) /\ Settled(s)
    BY <1>1, <1>3 DEF Coherent, Settled, Tuner!Playing, Tuner!Silence
  <1>6. Sound(s)
    BY <1>1, <1>2, <1>4, <1>5 DEF Sound
  <1> QED BY <1>5, <1>6 DEF TunerInv, s

\* Every handler keeps the tuner's screen in order.
LEMMA TunerStepKeeps ==
    ASSUME TunerInv, Tuner!Next
    PROVE  TunerInv'
  <1>1. CASE Tuner!Timers
    BY <1>1, LateKeeps, ResumeTimerKeeps, WatchKeeps, FadedKeeps, PatternDoneKeeps DEF Tuner!Timers
  <1>2. CASE Tuner!Promises
    BY <1>2, AdvanceKeeps, ResumedKeeps DEF Tuner!Promises
  <1>3. CASE \E ok \in BOOLEAN : Tuner!Start(ok) \/ Tuner!Declare(ok)
    BY <1>3, StartToneKeeps, DeclareKeeps
  <1>4. CASE \/ Tuner!TapTuner \/ Tuner!RestoreTuner \/ Tuner!LauncherLoaded \/ Tuner!LauncherFailed
             \/ Tuner!Leave \/ Tuner!Cover \/ Tuner!Hide \/ Tuner!Show
    BY <1>4, TapTunerKeeps, RestoreTunerKeeps, LauncherLoadedKeeps, LauncherFailedKeeps, CoverKeeps,
       HideTunerKeeps, ShowTunerKeeps
  <1>5. CASE \/ Tuner!BodyLoaded \/ Tuner!BodyFailed \/ Tuner!MicrophoneGranted \/ Tuner!StartFails
             \/ Tuner!Interrupted \/ Tuner!CaptureLock
    BY <1>5, BodyLoadedKeeps, BodyFailedKeeps, MicrophoneGrantedKeeps, RunFailsKeeps, LockKeeps
  <1>6. CASE \/ Tuner!Stop \/ Tuner!StopFinished \/ Tuner!Practise \/ Tuner!PatternEnds \/ Tuner!Revoked
             \/ Tuner!ToneLock \/ Tuner!Pause \/ Tuner!Unpause \/ Tuner!Restart \/ Tuner!Retry
    BY <1>6, StopKeeps, ResumedByTap, FadedKeeps, PatternDoneKeeps, LockKeeps, PauseTunerKeeps, RestartKeeps,
       RetryKeeps
  <1> QED BY <1>1, <1>2, <1>3, <1>4, <1>5, <1>6 DEF Tuner!Next

\* What the user relies on follows.
LEMMA TunerInvSays ==
    ASSUME TunerInv
    PROVE  Tuner!TunerSafe
  <1> DEFINE s == Tuner!State
  <1>1. /\ Sound(s) /\ Settled(s) /\ s.screen = screen /\ s.tap = tap /\ s.entry = entry /\ s.capture = capture
        /\ s.tone = tone /\ s.tuner = tuner /\ s.device = device
    BY TunerBefore
  <1>2. Tuner!Playing(s) <=> tone.state = "playing"
    BY <1>1 DEF Tuner!Playing
  <1> HIDE DEF s
  <1>3. Tuner!OwnedContexts
    <2> DEFINE owners == <<tap.ctx, entry.primed, entry.starting, capture.ctx>>
    <2>1. /\ owners[1] = s.tap.ctx /\ owners[2] = s.entry.primed /\ owners[3] = s.entry.starting
          /\ owners[4] = s.capture.ctx
      BY <1>1
    <2>2. Owned(s, Nobody)
      BY <1>1 DEF Sound
    <2> HIDE DEF owners
    <2>3. {owners[i] : i \in 1 .. 4} = {s.tap.ctx, s.entry.primed, s.entry.starting, s.capture.ctx}
      <3>1. 1 .. 4 = {1, 2, 3, 4}
        OBVIOUS
      <3> QED BY <2>1, <3>1
    <2>4. device.open = {owners[i] : i \in 1 .. 4} \ {Nobody}
      BY <1>1, <2>2, <2>3 DEF Owned
    <2>5. ASSUME NEW i \in 1 .. 4, NEW j \in 1 .. 4, i # j, owners[i] # Nobody
          PROVE  owners[i] # owners[j]
      <3>1. (i = 1 \/ i = 2 \/ i = 3 \/ i = 4) /\ (j = 1 \/ j = 2 \/ j = 3 \/ j = 4)
        OBVIOUS
      <3> QED BY <2>1, <2>2, <2>5, <3>1 DEF Owned, Distinct
    <2> QED BY <2>4, <2>5 DEF Tuner!OwnedContexts, owners
  <1>4. Tuner!NothingKept
    <2>1. ~ device.stray
      BY <1>1 DEF Sound, Coherent
    <2>2. ASSUME Tuner!Away
          PROVE  /\ device.open = {} /\ capture.at = "none" /\ capture.mic = "none" /\ ~ entry.timer
                 /\ tone = Tuner!Silence
      <3>1. ~ s.screen.visible \/ ~ s.screen.opened
        BY <1>1, <2>2 DEF Tuner!Away
      <3>2. ~ s.entry.active /\ s.tap.ctx = Nobody
        BY <1>1, <3>1 DEF Settled
      <3>3. NoRun(s) /\ s.tone = Tuner!Silence /\ ~ s.entry.timer /\ s.entry.primed = Nobody
        BY <1>1, <3>2 DEF Settled
      <3>4. s.entry.starting = Nobody
        BY <1>1, <3>2 DEF Sound, Coherent
      <3>5. s.device.open = {}
        BY <1>1, <3>2, <3>3, <3>4 DEF Sound, Owned, NoRun
      <3> QED BY <1>1, <3>3, <3>5 DEF NoRun
    <2> QED BY <2>1, <2>2 DEF Tuner!NothingKept
  <1>5. Tuner!ToneUnheard
    BY <1>1, <1>2 DEF Sound, Coherent, NoRun, Tuner!ToneUnheard, Tuner!Playing, s
  <1> QED BY <1>3, <1>4, <1>5 DEF Tuner!TunerSafe

-----------------------------------------------------------------------------
(* The laboratory *)

\* The invariants of the parts.
LabInv ==
    /\ part = "metronome" => ScreenInv
    /\ part = "edits" => EditInv
    /\ part = "tuner" => TunerInv
    /\ part = "analysis" => AnalysisInv

\* Whatever part a behaviour is of, it starts in order.
LEMMA LabInitHolds ==
    ASSUME MCInit
    PROVE  LabInv
  <1>1. part = "metronome" => ScreenInv
    BY InitGood DEF MCInit
  <1>2. part = "edits" => EditInv
    BY EditInitHolds DEF MCInit
  <1>3. part = "tuner" => TunerInv
    BY TunerInitHolds DEF MCInit
  <1>4. part = "analysis" => AnalysisInv
    BY AnalysisInitHolds DEF MCInit
  <1> QED BY <1>1, <1>2, <1>3, <1>4 DEF LabInv

\* A step in which nothing changes.
LEMMA NothingChanges ==
    ASSUME LabInv, UNCHANGED <<part, vars, others>>
    PROVE  LabInv'
  <1>1. part' = part /\ UNCHANGED vars /\ UNCHANGED others
    OBVIOUS
  <1>2. part = "metronome" => ScreenInv'
    BY <1>1, NextKeeps DEF LabInv
  <1>3. part = "edits" => EditInv'
    BY <1>1 DEF LabInv, others, editVars, EditInv, OneAtATime
  <1>4. part = "tuner" => TunerInv'
    <2>1. SUFFICES ASSUME part = "tuner"
                   PROVE  TunerInv'
      OBVIOUS
    <2>2. /\ TunerInv /\ screen' = screen /\ tap' = tap /\ entry' = entry /\ capture' = capture /\ tone' = tone
          /\ tuner' = tuner /\ coord' = coord /\ device' = device
      BY <1>1, <2>1 DEF LabInv, others, tunerVars
    <2>3. Tuner!Become(Tuner!State)
      BY <2>2 DEF Tuner!Become, Tuner!State
    <2> QED BY <2>2, <2>3, TunerBefore, TunerArrives
  <1>5. part = "analysis" => AnalysisInv'
    BY <1>1 DEF LabInv, others, analysisVars, AnalysisInv, AnalysisTyped, MicSound, ModeSound, Recording,
       Analysis!Open, Analysis!MicOn
  <1> QED BY <1>1, <1>2, <1>3, <1>4, <1>5 DEF LabInv

\* Every step keeps the invariant of the part it is of.
LEMMA LabStepKeeps ==
    ASSUME LabInv, [MCNext]_<<part, vars, others>>
    PROVE  LabInv'
  <1>1. CASE UNCHANGED <<part, vars, others>>
    BY <1>1, NothingChanges
  <1>2. CASE MCNext
    <2>1. part' = part
      BY <1>2 DEF MCNext
    <2>2. CASE part = "metronome"
      <3>1. ScreenInv /\ Next
        BY <1>2, <2>2 DEF LabInv, MCNext
      <3> QED BY <2>1, <2>2, <3>1, NextKeeps DEF LabInv
    <2>3. CASE part = "edits"
      <3>1. EditInv /\ Edits!Next
        BY <1>2, <2>3 DEF LabInv, MCNext
      <3> QED BY <2>1, <2>3, <3>1, EditStepKeeps DEF LabInv
    <2>4. CASE part = "tuner"
      <3>1. TunerInv /\ Tuner!Next
        BY <1>2, <2>4 DEF LabInv, MCNext
      <3> QED BY <2>1, <2>4, <3>1, TunerStepKeeps DEF LabInv
    <2>5. CASE part = "analysis"
      <3>1. AnalysisInv /\ Analysis!Next
        BY <1>2, <2>5 DEF LabInv, MCNext
      <3> QED BY <2>1, <2>5, <3>1, AnalysisStepKeeps DEF LabInv
    <2>6. CASE part \notin {"metronome", "edits", "tuner", "analysis"}
      BY <2>1, <2>6 DEF LabInv
    <2> QED BY <2>2, <2>3, <2>4, <2>5, <2>6
  <1> QED BY <1>1, <1>2

\* Every part of the laboratory keeps its invariant.
THEOREM LabInvariant == MCSpec => []LabInv
  <1>1. MCInit => LabInv
    BY LabInitHolds
  <1>2. LabInv /\ [MCNext]_<<part, vars, others>> => LabInv'
    BY LabStepKeeps
  <1> QED BY <1>1, <1>2, PTL DEF MCSpec

\* While changes and starts come one at a time, the setting the editor shows is
\* the one the run plays, whatever is confirmed, dropped or stopped in between.
THEOREM EditorPlays == MCSpec => []EditorIsPlayed
  <1>1. LabInv => EditorIsPlayed
    BY EditInvSays DEF LabInv, EditorIsPlayed
  <1> QED BY <1>1, LabInvariant, PTL

\* In whatever order taps, grants, loads, timers and departures come, every context of
\* the tuner has one owner, nothing is kept while the user is away, and the microphone
\* does not hear a tone without earphones.
THEOREM TunerIsSafe == MCSpec => []TunerSafe
  <1>1. LabInv => TunerSafe
    BY TunerInvSays DEF LabInv, TunerSafe
  <1> QED BY <1>1, LabInvariant, PTL

\* Whatever is answered late, the calibration in use was made for the chosen route, and no
\* microphone is held without the screen's hold of it but by a session whose node could not be
\* made.  As long as no preparation of an older session changed the mode, a recording has the
\* microphone, the route and the calibration it was prepared for, and the click's edits are
\* refused exactly while it runs.
THEOREM AnalysisIsSafe == MCSpec => []AnalysisSafe
  <1>1. LabInv => AnalysisSafe
    BY AnalysisInvSays DEF LabInv, AnalysisSafe
  <1> QED BY <1>1, LabInvariant, PTL

=============================================================================
