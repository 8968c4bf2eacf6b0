------------------------- MODULE TuiEndpointProofs -------------------------
(***************************************************************************)
(* Theorems about TuiEndpoint: whatever the two programs do with their     *)
(* lock and their store, a run's turns are written under the lock, a prompt*)
(* enters the transcript once, and no pending record is left behind.       *)
(***************************************************************************)
EXTENDS TuiEndpoint, TLAPS

Phases == {"none", "locking", "prompting", "settling", "disposing"}
PiStates == {"no", "prompt", "turn", "steps", "over"}
PhaseFns == [Places -> [Actions -> Phases]]
PiFns == [Places -> [Actions -> PiStates]]

-----------------------------------------------------------------------------
(* What single assignments do. *)

LEMMA ToPhase ==
  ASSUME NEW f \in PhaseFns, NEW p \in Places, NEW a \in Actions, NEW v \in Phases
  PROVE  /\ To(f, p, a, v) \in PhaseFns
         /\ \A q \in Places, b \in Actions :
              To(f, p, a, v)[q][b] = IF q = p /\ b = a THEN v ELSE f[q][b]
BY DEF To, PhaseFns, Places

LEMMA ToPi ==
  ASSUME NEW f \in PiFns, NEW p \in Places, NEW a \in Actions, NEW v \in PiStates
  PROVE  /\ To(f, p, a, v) \in PiFns
         /\ \A q \in Places, b \in Actions :
              To(f, p, a, v)[q][b] = IF q = p /\ b = a THEN v ELSE f[q][b]
BY DEF To, PiFns, Places

\* The handlers of the terminal are over, and its Pi session with them.
LEMMA Forgets ==
  ASSUME TypeOK, TuiForgets
  PROVE  /\ phase' \in PhaseFns /\ pi' \in PiFns /\ recorded' \in [Places -> SUBSET Actions]
         /\ astray' = {} /\ asked' = {}
         /\ \A b \in Actions :
              /\ phase'["tui"][b] = "none" /\ phase'["gui"][b] = phase["gui"][b]
              /\ pi'["tui"][b] = "no" /\ pi'["gui"][b] = pi["gui"][b]
         /\ recorded'["tui"] = {} /\ recorded'["gui"] = recorded["gui"]
BY DEF TuiForgets, TypeOK, PhaseFns, PiFns, Phases, PiStates, Places

-----------------------------------------------------------------------------
(* Types. *)

LEMMA TypeInit == Init => TypeOK
<1> SUFFICES ASSUME Init PROVE TypeOK
  OBVIOUS
<1>1. phase \in PhaseFns /\ pi \in PiFns /\ recorded \in [Places -> SUBSET Actions]
  BY DEF Init, PhaseFns, PiFns, Phases, PiStates
<1>2. applied \in [Actions -> Nat] /\ tries \in 0..MaxTries
      /\ starts \in 0..MaxStarts /\ switches \in 0..MaxSwitches
  BY TuiEndpointAssumption DEF Init
<1> QED BY <1>1, <1>2 DEF Init, TypeOK, PhaseFns, PiFns, Phases, PiStates

LEMMA TypeStep == TypeOK /\ [Next]_vars => TypeOK'
<1> SUFFICES ASSUME TypeOK, [Next]_vars PROVE TypeOK'
  OBVIOUS
<1> USE TuiEndpointAssumption
<1>0. phase \in PhaseFns /\ pi \in PiFns /\ "tui" \in Places /\ "gui" \in Places
  BY DEF TypeOK, PhaseFns, PiFns, Phases, PiStates, Places
<1>a. ASSUME phase' \in PhaseFns, pi' \in PiFns, recorded' \in [Places -> SUBSET Actions],
             UNCHANGED <<lock, terminal>> \/ (/\ lock' \in {"free", "tui", "gui", "dead"}
                                              /\ life' \in {"down", "starting", "ready", "leaving"}
                                              /\ shown' \in BOOLEAN /\ loaded' \in BOOLEAN
                                              /\ moving' \in BOOLEAN /\ typed' \in BOOLEAN
                                              /\ starts' \in 0..MaxStarts
                                              /\ switches' \in 0..MaxSwitches
                                              /\ crashed' \in BOOLEAN),
             astray' \subseteq Actions, accepted' \subseteq Actions, pending' \subseteq Actions,
             asked' \subseteq Actions, doubt' \subseteq Actions,
             tries' \in 0..MaxTries, applied' \in [Actions -> Nat]
      PROVE  TypeOK'
  BY <1>a DEF TypeOK, PhaseFns, PiFns, Phases, PiStates, terminal
<1>1. ASSUME NEW a \in Actions, NEW p \in Places,
             PiActs(p, a) \/ Serve(p, a) \/ Fails(p, a)
      PROVE  TypeOK'
  <2>1. CASE PiAdmits(p, a)
    <3>1. pi' \in PiFns
      BY <1>0, <2>1, ToPi DEF PiAdmits, PiStates
    <3>2. applied' \in [Actions -> Nat]
      BY <2>1 DEF PiAdmits, TypeOK
    <3>3. recorded' \in [Places -> SUBSET Actions] /\ accepted' \subseteq Actions
          /\ pending' \subseteq Actions
      BY <2>1 DEF PiAdmits, RecordsAdmission, Accept, store, TypeOK
    <3> QED BY <1>0, <1>a, <2>1, <3>1, <3>2, <3>3 DEF PiAdmits, TypeOK, terminal
  <2>2. CASE PiReturns(p, a)
    <3>1. pi' \in PiFns
      <4>1. CASE pi' = To(pi, p, a, "over")
        BY <1>0, <4>1, ToPi DEF PiStates
      <4>2. CASE pi' = To(pi, p, a, IF a \in Direct THEN "over" ELSE "steps")
        BY <1>0, <4>2, ToPi DEF PiStates
      <4> QED BY <2>2, <4>1, <4>2 DEF PiReturns
    <3> QED BY <1>0, <1>a, <2>2, <3>1 DEF PiReturns, TypeOK, terminal, store
  <2>3. CASE PromptReturns(p, a)
    <3>1. phase' \in PhaseFns
      BY <1>0, <2>3, ToPhase DEF PromptReturns, Phases
    <3> QED BY <1>0, <1>a, <2>3, <3>1 DEF PromptReturns, TypeOK, terminal, store
  <2>4. ASSUME End(p, a)
        PROVE  phase' \in PhaseFns /\ asked' \subseteq Actions
               /\ recorded' \in [Places -> SUBSET Actions]
    <3>1. phase' \in PhaseFns
      <4>1. CASE p = "tui"
        BY <1>0, <2>4, <4>1, ToPhase DEF End, Phases
      <4>2. CASE p # "tui"
        BY <1>0, <2>4, <4>2, ToPhase DEF End, Phases
      <4> QED BY <4>1, <4>2
    <3>2. asked' \subseteq Actions
      BY <2>4 DEF End, TypeOK
    <3>3. recorded[p] \ {a} \in SUBSET Actions
      BY DEF TypeOK
    <3>4. recorded' \in [Places -> SUBSET Actions]
      BY <2>4, <3>3 DEF End, TypeOK
    <3> QED BY <3>1, <3>2, <3>4
  <2>5. CASE Settle(p, a)
    BY <1>0, <1>a, <2>4, <2>5 DEF Settle, Accept, TypeOK, terminal, store
  <2>6. CASE TimesOut(p, a)
    BY <1>0, <1>a, <2>4, <2>6 DEF TimesOut, Withdraw, TypeOK, terminal, store
  <2>7. CASE Fails(p, a)
    <3>1. pi' \in PiFns
      BY <1>0, <2>7, ToPi DEF Fails, PiStates
    <3> QED BY <1>0, <1>a, <2>4, <2>7, <3>1 DEF Fails, Withdraw, TypeOK, terminal, store
  <2> QED BY <1>1, <2>1, <2>2, <2>3, <2>5, <2>6, <2>7 DEF PiActs, Serve
<1>2. ASSUME NEW a \in Actions, NEW p \in Places, Prompts(p, a)
      PROVE  phase' \in PhaseFns /\ pi' \in PiFns /\ pending' \subseteq Actions
  BY <1>0, <1>2, ToPhase, ToPi DEF Prompts, Phases, PiStates, TypeOK
<1>3. ASSUME NEW a \in Actions, Forward(a) \/ ForwardWithoutModel(a) \/ ForwardBreaks(a)
      PROVE  TypeOK'
  <2>1. CASE Forward(a)
    BY <1>0, <1>a, <1>2, <2>1 DEF Forward, Admits, TypeOK, terminal
  <2>2. CASE ForwardWithoutModel(a)
    BY <1>0, <1>a, <2>2 DEF ForwardWithoutModel, Admits, Accept, TypeOK, terminal
  <2>3. CASE ForwardBreaks(a)
    BY <1>0, <1>a, <2>3 DEF ForwardBreaks, TypeOK, terminal, store
  <2> QED BY <1>3, <2>1, <2>2, <2>3
<1>4. ASSUME NEW a \in Actions, RunLocally(a) \/ LookAgain(a) \/ Dispose(a)
      PROVE  TypeOK'
  <2>1. CASE RunLocally(a)
    <3>1. phase' \in PhaseFns /\ pi' \in PiFns /\ pending' \subseteq Actions
      BY <1>0, <1>2, <2>1, ToPhase DEF RunLocally, Phases, TypeOK
    <3>2. doubt' \subseteq Actions /\ lock' \in {"free", "tui", "gui", "dead"}
      BY <2>1 DEF RunLocally, Doubtful, TypeOK
    <3>3. tries' \in 0..MaxTries
      BY <2>1 DEF RunLocally, TypeOK
    <3> QED BY <1>0, <1>a, <2>1, <3>1, <3>2, <3>3 DEF RunLocally, TypeOK, terminal
  <2>2. CASE LookAgain(a)
    <3>1. phase' \in PhaseFns /\ pi' \in PiFns /\ pending' \subseteq Actions
      BY <1>0, <1>2, <2>2, ToPhase DEF LookAgain, Phases, TypeOK
    <3>2. doubt' \subseteq Actions /\ lock' \in {"free", "tui", "gui", "dead"}
      BY <2>2 DEF LookAgain, TypeOK
    <3> QED BY <1>0, <1>a, <2>2, <3>1, <3>2 DEF LookAgain, TypeOK, terminal
  <2>3. CASE Dispose(a)
    <3>1. phase' \in PhaseFns /\ pi' \in PiFns
      BY <1>0, <2>3, ToPhase, ToPi DEF Dispose, DisposesOfPi, Phases, PiStates
    <3> QED BY <1>0, <1>a, <2>3, <3>1 DEF Dispose, TypeOK, terminal, store
  <2> QED BY <1>4, <2>1, <2>2, <2>3
<1>5. ASSUME NEW a \in Actions, PendingExpires(a) PROVE TypeOK'
  BY <1>0, <1>a, <1>5 DEF PendingExpires, TypeOK, terminal
<1>6. CASE Start
  <2>1. starts' \in 0..MaxStarts
    BY <1>6 DEF Start, TypeOK
  <2>2. lock' = "tui" /\ life' = "starting" /\ UNCHANGED <<typed, switches, crashed>>
        /\ shown' \in BOOLEAN /\ loaded' \in BOOLEAN /\ moving' \in BOOLEAN
    BY <1>6 DEF Start
  <2> QED BY <1>0, <1>a, <1>6, <2>1, <2>2 DEF Start, TypeOK, store
<1>7. CASE Started \/ UserTypes \/ TypedTurnEnds \/ Leave
  BY <1>0, <1>a, <1>7 DEF Started, UserTypes, TypedTurnEnds, Leave, TypeOK, store
<1>8. CASE SwitchSession
  <2>1. pi' \in PiFns
    BY <1>0, <1>8 DEF SwitchSession, PiFns, PiStates
  <2>2. switches' \in 0..MaxSwitches
    BY <1>8 DEF SwitchSession, TypeOK
  <2>3. /\ loaded' \in BOOLEAN /\ typed' \in BOOLEAN /\ moving' \in BOOLEAN
        /\ UNCHANGED <<lock, life, shown, starts, crashed>>
    BY <1>8 DEF SwitchSession
  <2> QED BY <1>0, <1>a, <1>8, <2>1, <2>2, <2>3 DEF SwitchSession, TypeOK, store
<1>9. CASE Rebind \/ RebindRefused
  BY <1>0, <1>a, <1>9 DEF Rebind, RebindRefused, TypeOK, store
<1>10. CASE Left \/ Crash
  BY <1>0, <1>a, <1>10, Forgets DEF Left, Crash, TypeOK, store
<1>11. CASE UNCHANGED vars
  BY <1>0, <1>a, <1>11 DEF vars, TypeOK, terminal, store
<1> QED BY <1>1, <1>3, <1>4, <1>5, <1>6, <1>7, <1>8, <1>9, <1>10, <1>11 DEF Next

\* Every variable keeps its type.
THEOREM TypeCorrect == Spec => []TypeOK
BY TypeInit, TypeStep, PTL DEF Spec

-----------------------------------------------------------------------------
(***************************************************************************)
(* The inductive invariant.                                                *)
(***************************************************************************)

Holding == {"prompting", "settling", "disposing"}

\* The GUI runs one action at a time in the session, under its lock.
GuiHolds ==
  \A a \in Actions :
    /\ pi["gui"][a] \in Live => phase["gui"][a] \in Holding
    /\ phase["gui"][a] \in Holding => lock = "gui"
    /\ phase["gui"][a] # "none" => \A b \in Actions : phase["gui"][b] # "none" => a = b

\* So does the terminal, until it leaves; what it runs while another session's
\* runtime is there went astray.
TuiHolds ==
  \A a \in Actions : pi["tui"][a] \in Live /\ ~Astray("tui", a) =>
    loaded /\ (lock = "tui" \/ life = "leaving")

\* A prompt that may still be sent has a handler.
Sending ==
  \A p \in Places, a \in Actions : pi[p][a] = "prompt" => phase[p][a] = "prompting"

\* A prompt that is in the transcript is recorded as accepted; one that may still
\* be sent is not in it, and only one of the programs is about to send it.
Once ==
  \A a \in Direct \ doubt :
    /\ applied[a] = 0 \/ (applied[a] = 1 /\ a \in accepted)
    /\ \A p \in Places : pi[p][a] = "prompt" /\ ~Astray(p, a) => applied[a] = 0
    /\ ~(/\ pi["gui"][a] \in Live
         /\ pi["tui"][a] \in Live /\ ~Astray("tui", a))

\* What a run saw admitted is accepted, and what is accepted is not pending.
Records ==
  /\ \A p \in Places : recorded[p] \subseteq accepted
  /\ accepted \cap pending = {}

IInv == TypeOK /\ GuiHolds /\ TuiHolds /\ Sending /\ Once /\ Records /\ NoStuckPending

LEMMA IInvInit == Init => IInv
<1> SUFFICES ASSUME Init PROVE IInv
  OBVIOUS
<1>1. TypeOK
  BY TypeInit
<1>2. \A p \in Places, a \in Actions : phase[p][a] = "none" /\ pi[p][a] = "no"
  BY DEF Init
<1>3. GuiHolds /\ TuiHolds /\ Sending
  BY <1>2 DEF GuiHolds, TuiHolds, Sending, Holding, Live, Places
<1>4. Once
  BY <1>2 DEF Init, Once, Actions, Places, Live
<1>5. Records /\ NoStuckPending
  BY DEF Init, Records, NoStuckPending, Places
<1> QED BY <1>1, <1>3, <1>4, <1>5 DEF IInv

\* What the parts depend on.
LEMMA Unaffected ==
  ASSUME IInv,
         UNCHANGED <<lock, life, loaded, phase, pi, astray, recorded, store, applied, doubt>>,
         crashed => crashed'
  PROVE  GuiHolds' /\ TuiHolds' /\ Sending' /\ Once' /\ Records' /\ NoStuckPending'
<1>1. GuiHolds' /\ TuiHolds' /\ Sending'
  BY DEF IInv, GuiHolds, TuiHolds, Sending, Astray, Places
<1>2. Once' /\ Records'
  BY DEF IInv, Once, Records, Astray, store
<1>3. NoStuckPending'
  BY DEF IInv, NoStuckPending, store
<1> QED BY <1>1, <1>2, <1>3

-----------------------------------------------------------------------------
(* Pi and the handlers, in either program. *)

\* A step that only ends things: a run's handler, a Pi state that gets no livelier.
LEMMA Ending ==
  ASSUME IInv, NEW p \in Places, NEW a \in Actions,
         phase' \in PhaseFns, pi' \in PiFns,
         UNCHANGED <<lock, life, loaded, astray, applied, doubt>>,
         \A q \in Places, b \in Actions : q # p \/ b # a =>
            phase'[q][b] = phase[q][b] /\ pi'[q][b] = pi[q][b],
         pi'[p][a] \in Live => pi[p][a] \in Live,
         pi'[p][a] = "prompt" => pi[p][a] = "prompt" /\ phase'[p][a] = "prompting",
         phase[p][a] \in Holding /\ p = "gui" => phase'[p][a] \in Holding,
         phase'[p][a] \in Holding => phase[p][a] \in Holding,
         phase[p][a] = "none" => phase'[p][a] = "none",
         accepted \subseteq accepted'
  PROVE  GuiHolds' /\ TuiHolds' /\ Sending' /\ Once'
<1>0. "gui" \in Places /\ "tui" \in Places /\ Places = {"tui", "gui"}
  BY DEF Places
<1>1. GuiHolds'
  <2> SUFFICES ASSUME NEW b \in Actions
               PROVE  /\ pi'["gui"][b] \in Live => phase'["gui"][b] \in Holding
                      /\ phase'["gui"][b] \in Holding => lock' = "gui"
                      /\ phase'["gui"][b] # "none" =>
                           \A c \in Actions : phase'["gui"][c] # "none" => b = c
    BY DEF GuiHolds
  <2>1. \A c \in Actions : phase'["gui"][c] # "none" => phase["gui"][c] # "none"
    BY <1>0
  <2>2. phase'["gui"][b] \in Holding => phase["gui"][b] \in Holding
    BY <1>0
  <2>3. pi'["gui"][b] \in Live =>
          pi["gui"][b] \in Live /\ (phase["gui"][b] \in Holding => phase'["gui"][b] \in Holding)
    BY <1>0
  <2> QED BY <2>1, <2>2, <2>3 DEF IInv, GuiHolds
<1>2. \A q \in Places, b \in Actions : pi'[q][b] \in Live => pi[q][b] \in Live
  BY <1>0
<1>3. TuiHolds'
  BY <1>0, <1>2 DEF IInv, TuiHolds, Astray
<1>4. Sending'
  BY DEF IInv, Sending
<1>5. Once'
  <2>1. \A q \in Places, b \in Actions : pi'[q][b] = "prompt" => pi[q][b] = "prompt"
    BY <1>0
  <2> QED BY <1>0, <1>2, <2>1 DEF IInv, Once, Astray, Actions
<1> QED BY <1>1, <1>3, <1>4, <1>5

LEMMA EndEffect ==
  ASSUME TypeOK, NEW p \in Places, NEW a \in Actions, End(p, a)
  PROVE  /\ phase' \in PhaseFns
         /\ \A q \in Places, b \in Actions : q # p \/ b # a => phase'[q][b] = phase[q][b]
         /\ phase'[p][a] = IF p = "tui" THEN "none" ELSE "disposing"
         /\ recorded' \in [Places -> SUBSET Actions]
         /\ \A q \in Places : recorded'[q] \subseteq recorded[q]
<1>1. phase \in PhaseFns
  BY DEF TypeOK, PhaseFns, Phases
<1>2. (IF p = "tui" THEN "none" ELSE "disposing") \in Phases
  BY DEF Phases
<1>3. /\ phase' \in PhaseFns
      /\ \A q \in Places, b \in Actions :
           phase'[q][b] = IF q = p /\ b = a THEN IF p = "tui" THEN "none" ELSE "disposing"
                                            ELSE phase[q][b]
  BY <1>1, <1>2, ToPhase DEF End
<1>4. recorded' \in [Places -> SUBSET Actions] /\ \A q \in Places : recorded'[q] \subseteq recorded[q]
  BY DEF End, TypeOK
<1> QED BY <1>3, <1>4

\* A handler that ends without acceptance leaves no pending record of its own.
LEMMA Withdrawn ==
  ASSUME IInv, NEW p \in Places, NEW a \in Actions, End(p, a), Withdraw(p, a), UNCHANGED crashed
  PROVE  Records' /\ NoStuckPending'
<1>0. TypeOK
  BY DEF IInv
<1>1. a \notin pending'
  BY DEF Withdraw, IInv, Records
<1>2. pending' \subseteq pending /\ accepted' = accepted
  BY DEF Withdraw
<1>3. Records'
  BY <1>0, <1>2, EndEffect DEF IInv, Records
<1>4. NoStuckPending'
  <2> SUFFICES ASSUME NEW b \in pending', ~crashed'
               PROVE  \E q \in Places : phase'[q][b] \in {"prompting", "settling"}
    BY DEF NoStuckPending
  <2>1. b \in pending /\ b # a /\ b \in Actions
    BY <1>0, <1>1, <1>2 DEF TypeOK
  <2>2. PICK q \in Places : phase[q][b] \in {"prompting", "settling"}
    BY <2>1 DEF IInv, NoStuckPending
  <2> QED BY <1>0, <2>1, <2>2, EndEffect
<1> QED BY <1>3, <1>4

LEMMA ServeStep ==
  ASSUME IInv, NEW p \in Places, NEW a \in Actions,
         PiReturns(p, a) \/ Serve(p, a) \/ Fails(p, a)
  PROVE  GuiHolds' /\ TuiHolds' /\ Sending' /\ Once' /\ Records' /\ NoStuckPending'
<1>0. TypeOK /\ phase \in PhaseFns /\ pi \in PiFns
  BY DEF IInv, TypeOK, PhaseFns, PiFns, Phases, PiStates
<1>1. CASE PiReturns(p, a)
  <2>1. PICK v \in {"over", "steps"} : pi' = To(pi, p, a, v)
    <3>1. CASE pi' = To(pi, p, a, "over")
      BY <3>1
    <3>2. CASE pi' = To(pi, p, a, IF a \in Direct THEN "over" ELSE "steps")
      BY <3>2
    <3> QED BY <1>1, <3>1, <3>2 DEF PiReturns
  <2>2. pi' \in PiFns /\ \A q \in Places, b \in Actions :
           pi'[q][b] = IF q = p /\ b = a THEN v ELSE pi[q][b]
    <3>1. v \in PiStates
      BY DEF PiStates
    <3> QED BY <1>0, <2>1, <3>1, ToPi
  <2>3. pi[p][a] \in Live /\ v # "prompt"
    BY <1>1 DEF PiReturns, Live
  <2>4. GuiHolds' /\ TuiHolds' /\ Sending' /\ Once'
    BY <1>0, <1>1, <2>2, <2>3, Ending DEF PiReturns, terminal, store
  <2>5. Records' /\ NoStuckPending'
    BY <1>1 DEF PiReturns, IInv, Records, NoStuckPending, store, terminal
  <2> QED BY <2>4, <2>5
<1>2. CASE PromptReturns(p, a)
  <2>1. phase' \in PhaseFns /\ \A q \in Places, b \in Actions :
           phase'[q][b] = IF q = p /\ b = a THEN "settling" ELSE phase[q][b]
    <3>1. "settling" \in Phases /\ phase' = To(phase, p, a, "settling")
      BY <1>2 DEF PromptReturns, Phases
    <3> QED BY <1>0, <3>1, ToPhase
  <2>2. phase[p][a] = "prompting" /\ pi[p][a] # "prompt"
    BY <1>2 DEF PromptReturns
  <2>3. GuiHolds' /\ TuiHolds' /\ Sending' /\ Once'
    BY <1>0, <1>2, <2>1, <2>2, Ending DEF PromptReturns, terminal, store, Holding
  <2>4. Records'
    BY <1>2 DEF PromptReturns, IInv, Records, store
  <2>5. NoStuckPending'
    <3> SUFFICES ASSUME NEW b \in pending, ~crashed
                 PROVE  \E q \in Places : phase'[q][b] \in {"prompting", "settling"}
      BY <1>2 DEF PromptReturns, NoStuckPending, store, terminal
    <3>1. PICK q \in Places : phase[q][b] \in {"prompting", "settling"}
      BY DEF IInv, NoStuckPending
    <3>2. b \in Actions
      BY <1>0 DEF TypeOK
    <3> QED BY <2>1, <3>1, <3>2
  <2> QED BY <2>3, <2>4, <2>5
<1>3. ASSUME End(p, a), phase[p][a] \in {"prompting", "settling"}, pi' \in PiFns,
             UNCHANGED <<lock, life, loaded, astray, applied, doubt>>,
             accepted \subseteq accepted',
             \A q \in Places, b \in Actions : q # p \/ b # a => pi'[q][b] = pi[q][b],
             pi'[p][a] \in Live => pi[p][a] \in Live,
             pi'[p][a] # "prompt"
      PROVE  GuiHolds' /\ TuiHolds' /\ Sending' /\ Once'
  <2>1. /\ phase[p][a] \in Holding /\ p = "gui" => phase'[p][a] \in Holding
        /\ phase'[p][a] \in Holding => phase[p][a] \in Holding
        /\ phase[p][a] # "none"
    BY <1>0, <1>3, EndEffect DEF Holding
  <2> QED BY <1>0, <1>3, <2>1, EndEffect, Ending
<1>4. phase[p][a] = "settling" => pi[p][a] # "prompt"
  BY DEF IInv, Sending
<1>5. CASE Settle(p, a)
  <2>1. GuiHolds' /\ TuiHolds' /\ Sending' /\ Once'
    BY <1>0, <1>3, <1>4, <1>5 DEF Settle, Accept, terminal
  <2>2. Records'
    BY <1>0, <1>5, EndEffect DEF Settle, Accept, IInv, Records
  <2>3. NoStuckPending'
    <3> SUFFICES ASSUME NEW b \in pending', ~crashed'
                 PROVE  \E q \in Places : phase'[q][b] \in {"prompting", "settling"}
      BY DEF NoStuckPending
    <3>1. b \in pending /\ b # a /\ ~crashed /\ b \in Actions
      BY <1>0, <1>5 DEF Settle, Accept, terminal, TypeOK
    <3>2. PICK q \in Places : phase[q][b] \in {"prompting", "settling"}
      BY <3>1 DEF IInv, NoStuckPending
    <3> QED BY <1>0, <1>5, <3>1, <3>2, EndEffect DEF Settle
  <2> QED BY <2>1, <2>2, <2>3
<1>6. CASE TimesOut(p, a)
  <2>1. GuiHolds' /\ TuiHolds' /\ Sending' /\ Once'
    BY <1>0, <1>3, <1>4, <1>6 DEF TimesOut, Withdraw, terminal
  <2> QED BY <1>6, <2>1, Withdrawn DEF TimesOut, terminal
<1>7. CASE Fails(p, a)
  <2>1. PICK v \in {"over", "no"} : pi' = To(pi, p, a, v)
    <3>1. (IF pi[p][a] = "no" THEN "no" ELSE "over") \in {"over", "no"}
      OBVIOUS
    <3> QED BY <1>7, <3>1 DEF Fails
  <2>2. pi' \in PiFns /\ \A q \in Places, b \in Actions :
           pi'[q][b] = IF q = p /\ b = a THEN v ELSE pi[q][b]
    <3>1. v \in PiStates
      BY DEF PiStates
    <3> QED BY <1>0, <2>1, <3>1, ToPi
  <2>3. v \notin Live /\ v # "prompt"
    BY DEF Live
  <2>4. GuiHolds' /\ TuiHolds' /\ Sending' /\ Once'
    BY <1>3, <1>7, <2>2, <2>3 DEF Fails, Withdraw, terminal
  <2> QED BY <1>7, <2>4, Withdrawn DEF Fails, terminal
<1> QED BY <1>1, <1>2, <1>5, <1>6, <1>7 DEF Serve

\* The message of a prompt enters the transcript: only one program was about to
\* send it, and it was not there.
LEMMA AdmitStep ==
  ASSUME IInv, NEW p \in Places, NEW a \in Actions, PiAdmits(p, a)
  PROVE  GuiHolds' /\ TuiHolds' /\ Sending' /\ Once' /\ Records' /\ NoStuckPending'
<1>0. TypeOK /\ pi \in PiFns /\ Places = {"tui", "gui"}
  BY DEF IInv, TypeOK, PiFns, PiStates, Places
<1>1. pi' \in PiFns /\ \A q \in Places, b \in Actions :
         pi'[q][b] = IF q = p /\ b = a THEN "turn" ELSE pi[q][b]
  <2>1. "turn" \in PiStates /\ pi' = To(pi, p, a, "turn")
    BY DEF PiAdmits, PiStates
  <2> QED BY <1>0, <2>1, ToPi
<1>2. \A q \in Places, b \in Actions :
         /\ pi'[q][b] \in Live <=> pi[q][b] \in Live
         /\ pi'[q][b] = "prompt" => pi[q][b] = "prompt" /\ ~(q = p /\ b = a)
  BY <1>1 DEF PiAdmits, Live
<1>3. UNCHANGED <<lock, life, loaded, crashed, phase, astray, doubt>> /\ pi[p][a] = "prompt"
  BY DEF PiAdmits, terminal
<1>4. GuiHolds' /\ TuiHolds' /\ Sending'
  <2>1. GuiHolds'
    BY <1>0, <1>2, <1>3 DEF IInv, GuiHolds
  <2>2. TuiHolds'
    BY <1>0, <1>2, <1>3 DEF IInv, TuiHolds, Astray
  <2>3. Sending'
    BY <1>2, <1>3 DEF IInv, Sending
  <2> QED BY <2>1, <2>2, <2>3
<1>5. accepted \subseteq accepted' /\ pending' \subseteq pending /\ (a \in Direct => a \in accepted')
  BY DEF PiAdmits, RecordsAdmission, Accept, store
<1>6. Once'
  <2> SUFFICES ASSUME NEW b \in Direct \ doubt
               PROVE  /\ applied'[b] = 0 \/ (applied'[b] = 1 /\ b \in accepted')
                      /\ \A q \in Places : pi'[q][b] = "prompt" /\ ~Astray(q, b) => applied'[b] = 0
                      /\ ~(/\ pi'["gui"][b] \in Live
                           /\ pi'["tui"][b] \in Live /\ ~Astray("tui", b))
    BY <1>3 DEF Once, Astray
  <2>0. b \in Actions
    BY DEF Actions
  <2>1. ~(/\ pi'["gui"][b] \in Live /\ pi'["tui"][b] \in Live /\ ~Astray("tui", b))
    BY <1>0, <1>2, <2>0 DEF IInv, Once
  <2>2. CASE b = a /\ ~Astray(p, a)
    <3>1. applied[a] = 0 /\ applied'[a] = 1
      BY <1>0, <1>3, <2>0, <2>2 DEF PiAdmits, IInv, Once, TypeOK
    <3>2. \A q \in Places : pi'[q][a] = "prompt" => Astray(q, a)
      <4> SUFFICES ASSUME NEW q \in Places, pi'[q][a] = "prompt", ~Astray(q, a) PROVE FALSE
        OBVIOUS
      <4>1. q # p /\ pi[q][a] = "prompt"
        BY <1>2
      <4>2. pi["gui"][a] \in Live /\ pi["tui"][a] \in Live /\ ~Astray("tui", a)
        BY <1>0, <1>3, <2>2, <4>1 DEF Live
      <4> QED BY <2>2, <4>2 DEF IInv, Once
    <3> QED BY <1>5, <2>1, <2>2, <3>1, <3>2
  <2>3. CASE b # a \/ Astray(p, a)
    <3>1. applied'[b] = applied[b]
      BY <1>0, <2>0, <2>3 DEF PiAdmits, TypeOK
    <3> QED BY <1>0, <1>2, <1>5, <2>0, <2>1, <3>1 DEF IInv, Once
  <2> QED BY <2>2, <2>3
<1>7. Records'
  <2>1. CASE a \in Direct
    BY <1>0, <2>1 DEF PiAdmits, RecordsAdmission, Accept, IInv, Records, TypeOK
  <2>2. CASE a \notin Direct
    BY <2>2 DEF PiAdmits, RecordsAdmission, IInv, Records, store
  <2> QED BY <2>1, <2>2
<1>8. NoStuckPending'
  BY <1>3, <1>5 DEF IInv, NoStuckPending
<1> QED BY <1>4, <1>6, <1>7, <1>8

-----------------------------------------------------------------------------
(* A prompt is handed to Pi. *)

\* A program begins to send a prompt the transcript does not have, holding the lock.
LEMMA PromptEffect ==
  ASSUME TypeOK, NEW p \in Places, NEW a \in Actions, Prompts(p, a)
  PROVE  /\ \A q \in Places, b \in Actions :
              /\ phase'[q][b] = IF q = p /\ b = a THEN "prompting" ELSE phase[q][b]
              /\ pi'[q][b] = IF q = p /\ b = a THEN "prompt" ELSE pi[q][b]
         /\ pending \subseteq pending' /\ pending' \subseteq pending \cup {a}
         /\ a \in accepted => pending' = pending
<1>1. phase \in PhaseFns /\ pi \in PiFns
  BY DEF TypeOK, PhaseFns, PiFns, Phases, PiStates
<1>2. "prompting" \in Phases /\ "prompt" \in PiStates
  BY DEF Phases, PiStates
<1>3. \A q \in Places, b \in Actions :
        phase'[q][b] = IF q = p /\ b = a THEN "prompting" ELSE phase[q][b]
  BY <1>1, <1>2, ToPhase DEF Prompts
<1>4. \A q \in Places, b \in Actions :
        pi'[q][b] = IF q = p /\ b = a THEN "prompt" ELSE pi[q][b]
  BY <1>1, <1>2, ToPi DEF Prompts
<1> QED BY <1>3, <1>4 DEF Prompts

LEMMA PromptRecords ==
  ASSUME IInv, NEW p \in Places, NEW a \in Actions, Prompts(p, a),
         UNCHANGED <<accepted, recorded, crashed>>
  PROVE  Records' /\ NoStuckPending'
<1>0. TypeOK
  BY DEF IInv
<1>1. Records'
  BY <1>0, PromptEffect DEF IInv, Records
<1>2. NoStuckPending'
  <2> SUFFICES ASSUME NEW b \in pending', ~crashed'
               PROVE  \E q \in Places : phase'[q][b] \in {"prompting", "settling"}
    BY DEF NoStuckPending
  <2>1. CASE b = a
    BY <1>0, <2>1, PromptEffect
  <2>2. CASE b # a
    <3>1. b \in pending /\ b \in Actions
      BY <1>0, <2>2, PromptEffect DEF TypeOK
    <3>2. PICK q \in Places : phase[q][b] \in {"prompting", "settling"}
      BY <3>1 DEF IInv, NoStuckPending
    <3> QED BY <1>0, <2>2, <3>1, <3>2, PromptEffect
  <2> QED BY <2>1, <2>2
<1> QED BY <1>1, <1>2

LEMMA ForwardStep ==
  ASSUME IInv, NEW a \in Actions, Forward(a)
  PROVE  GuiHolds' /\ TuiHolds' /\ Sending' /\ Once' /\ Records' /\ NoStuckPending'
<1>0. TypeOK /\ Places = {"tui", "gui"} /\ "tui" \in Places /\ Prompts("tui", a)
  BY DEF IInv, Places, Forward
<1>1. UNCHANGED <<lock, life, loaded, crashed, recorded, accepted, applied, doubt>>
  BY DEF Forward, terminal
<1>2. \A b \in Actions : pi'["gui"][b] = pi["gui"][b] /\ phase'["gui"][b] = phase["gui"][b]
  BY <1>0, PromptEffect
<1>3. lock = "tui" /\ \A b \in Actions : pi["gui"][b] \notin Live
  BY DEF Forward, Admits, IInv, GuiHolds
<1>4. GuiHolds'
  BY <1>1, <1>2 DEF IInv, GuiHolds
<1>5. \A b \in Actions \ {a} : pi'["tui"][b] = pi["tui"][b] /\ (b \in astray' <=> b \in astray)
  BY <1>0, PromptEffect DEF Forward
<1>6. a \in astray' <=> ~loaded
  BY DEF Forward
<1>7. TuiHolds'
  BY <1>0, <1>1, <1>3, <1>5, <1>6 DEF IInv, TuiHolds, Astray
<1>8. Sending'
  BY <1>0, PromptEffect DEF IInv, Sending
<1>9. Once'
  <2> SUFFICES ASSUME NEW b \in Direct \ doubt
               PROVE  /\ applied[b] = 0 \/ (applied[b] = 1 /\ b \in accepted)
                      /\ \A q \in Places : pi'[q][b] = "prompt" /\ ~(q = "tui" /\ b \in astray')
                                             => applied[b] = 0
                      /\ pi'["gui"][b] \notin Live
    BY <1>1 DEF Once, Astray
  <2>0. b \in Actions
    BY DEF Actions
  <2>1. applied[b] = 0 \/ (applied[b] = 1 /\ b \in accepted)
    BY DEF IInv, Once
  <2>2. pi'["gui"][b] \notin Live
    BY <1>2, <1>3, <2>0
  <2>3. CASE b = a
    BY <2>1, <2>2, <2>3 DEF Forward, Admits, Fresh
  <2>4. CASE b # a
    BY <1>0, <1>2, <1>5, <2>0, <2>1, <2>2, <2>4 DEF IInv, Once, Astray
  <2> QED BY <2>3, <2>4
<1> QED BY <1>0, <1>1, <1>4, <1>7, <1>8, <1>9, PromptRecords

LEMMA WithoutModelStep ==
  ASSUME IInv, NEW a \in Actions, ForwardWithoutModel(a)
  PROVE  GuiHolds' /\ TuiHolds' /\ Sending' /\ Once' /\ Records' /\ NoStuckPending'
<1>0. TypeOK /\ Places = {"tui", "gui"}
  BY DEF IInv, Places
<1>1. UNCHANGED <<lock, life, loaded, crashed, phase, pi, astray, recorded, doubt>>
  BY DEF ForwardWithoutModel, terminal
<1>2. GuiHolds' /\ TuiHolds' /\ Sending'
  BY <1>1 DEF IInv, GuiHolds, TuiHolds, Sending, Astray
<1>3. pi["gui"][a] # "prompt" /\ pi["tui"][a] # "prompt"
  BY <1>0 DEF ForwardWithoutModel, Admits, IInv, GuiHolds, Sending, Live
<1>4. Once'
  <2> SUFFICES ASSUME NEW b \in Direct \ doubt
               PROVE  /\ applied'[b] = 0 \/ (applied'[b] = 1 /\ b \in accepted')
                      /\ \A q \in Places : pi[q][b] = "prompt" /\ ~Astray(q, b) => applied'[b] = 0
    BY <1>1 DEF IInv, Once, Astray
  <2>1. b \in Actions
    BY DEF Actions
  <2>2. CASE b = a
    <3>1. applied[a] = 0
      BY <2>2 DEF ForwardWithoutModel, Admits, Fresh, IInv, Once
    <3> QED BY <1>0, <1>3, <2>1, <2>2, <3>1 DEF ForwardWithoutModel, Accept, TypeOK
  <2>3. CASE b # a
    <3>1. applied'[b] = applied[b] /\ accepted \subseteq accepted'
      BY <1>0, <2>1, <2>3 DEF ForwardWithoutModel, Accept, TypeOK
    <3> QED BY <3>1 DEF IInv, Once
  <2> QED BY <2>2, <2>3
<1>5. Records' /\ NoStuckPending'
  BY <1>1 DEF ForwardWithoutModel, Accept, IInv, Records, NoStuckPending
<1> QED BY <1>2, <1>4, <1>5

\* The GUI takes the lock of the session and hands the prompt to a Pi session.
LEMMA LocalPrompt ==
  ASSUME IInv, NEW a \in Actions, Prompts("gui", a),
         lock \in {"free", "dead"}, lock' = "gui",
         \A b \in Actions : phase["gui"][b] # "none" => b = a,
         UNCHANGED <<terminal, astray, recorded, accepted, applied>>,
         doubt' = doubt \cup {a} \/ (doubt' = doubt /\ life # "leaving" /\ a \notin accepted)
  PROVE  GuiHolds' /\ TuiHolds' /\ Sending' /\ Once' /\ Records' /\ NoStuckPending'
<1>0. TypeOK /\ Places = {"tui", "gui"} /\ "gui" \in Places
  BY DEF IInv, Places
<1>1. UNCHANGED <<life, loaded, crashed>>
  BY DEF terminal
<1>2. \A b \in Actions :
        /\ phase'["gui"][b] = IF b = a THEN "prompting" ELSE phase["gui"][b]
        /\ pi'["gui"][b] = IF b = a THEN "prompt" ELSE pi["gui"][b]
        /\ phase'["tui"][b] = phase["tui"][b] /\ pi'["tui"][b] = pi["tui"][b]
  BY <1>0, PromptEffect
<1>3. GuiHolds'
  <2>1. \A b \in Actions : pi["gui"][b] \notin Live
    BY DEF IInv, GuiHolds
  <2>2. \A b \in Actions : phase'["gui"][b] # "none" => b = a
    BY <1>2
  <2> QED BY <1>2, <2>1, <2>2 DEF GuiHolds, Holding
<1>4. TuiHolds'
  BY <1>1, <1>2 DEF IInv, TuiHolds, Astray
<1>5. Sending'
  BY <1>0, PromptEffect DEF IInv, Sending
<1>6. Once'
  <2> SUFFICES ASSUME NEW b \in Direct \ doubt'
               PROVE  /\ applied[b] = 0 \/ (applied[b] = 1 /\ b \in accepted)
                      /\ \A q \in Places : pi'[q][b] = "prompt" /\ ~Astray(q, b) => applied[b] = 0
                      /\ ~(/\ pi'["gui"][b] \in Live
                           /\ pi'["tui"][b] \in Live /\ ~Astray("tui", b))
    BY DEF Once, Astray
  <2>0. b \in Actions /\ b \in Direct \ doubt
    BY DEF Actions
  <2>1. applied[b] = 0 \/ (applied[b] = 1 /\ b \in accepted)
    BY <2>0 DEF IInv, Once
  <2>2. CASE b = a
    <3>1. doubt' = doubt /\ life # "leaving" /\ a \notin accepted
      BY <2>2
    <3>2. applied[a] = 0
      BY <2>1, <2>2, <3>1
    <3>3. ~(pi["tui"][a] \in Live /\ ~Astray("tui", a))
      BY <3>1 DEF IInv, TuiHolds
    <3> QED BY <1>2, <2>0, <2>1, <2>2, <3>2, <3>3
  <2>3. CASE b # a
    BY <1>0, <1>2, <2>0, <2>1, <2>3 DEF IInv, Once
  <2> QED BY <2>2, <2>3
<1> QED BY <1>0, <1>1, <1>3, <1>4, <1>5, <1>6, PromptRecords

LEMMA LocalStep ==
  ASSUME IInv, NEW a \in Actions, RunLocally(a) \/ LookAgain(a) \/ Dispose(a)
  PROVE  GuiHolds' /\ TuiHolds' /\ Sending' /\ Once' /\ Records' /\ NoStuckPending'
<1>0. TypeOK /\ Places = {"tui", "gui"} /\ "gui" \in Places
      /\ phase \in PhaseFns /\ pi \in PiFns
  BY DEF IInv, TypeOK, Places, PhaseFns, PiFns, Phases, PiStates
\* The action waits for the lock, or was refused it.
<1>1. ASSUME NEW v \in {"none", "locking"}, phase' = To(phase, "gui", a, v),
             \A b \in Actions \ {a} : phase["gui"][b] = "none" \/ phase["gui"][a] # "none",
             phase["gui"][a] \in {"none", "locking"},
             UNCHANGED <<lock, terminal, pi, astray, recorded, store, applied, doubt>>
      PROVE  GuiHolds' /\ TuiHolds' /\ Sending' /\ Once' /\ Records' /\ NoStuckPending'
  <2>1. \A q \in Places, b \in Actions :
          phase'[q][b] = IF q = "gui" /\ b = a THEN v ELSE phase[q][b]
    <3>1. v \in Phases
      BY DEF Phases
    <3> QED BY <1>0, <1>1, <3>1, ToPhase
  <2>2. \A q \in Places, b \in Actions :
          /\ phase'[q][b] \in Holding <=> phase[q][b] \in Holding
          /\ phase'[q][b] \in {"prompting", "settling"} <=> phase[q][b] \in {"prompting", "settling"}
          /\ phase'[q][b] = "prompting" <=> phase[q][b] = "prompting"
    BY <1>1, <2>1 DEF Holding
  <2>3. \A b, c \in Actions : phase'["gui"][b] # "none" /\ phase'["gui"][c] # "none" => b = c
    BY <1>0, <1>1, <2>1 DEF IInv, GuiHolds
  <2>4. GuiHolds'
    BY <1>0, <1>1, <2>2, <2>3 DEF IInv, GuiHolds
  <2>5. TuiHolds' /\ Sending'
    BY <1>1, <2>2 DEF IInv, TuiHolds, Sending, Astray, terminal
  <2>6. Once' /\ Records'
    BY <1>1 DEF IInv, Once, Records, Astray, store
  <2>7. NoStuckPending'
    <3> SUFFICES ASSUME NEW b \in pending, ~crashed
                 PROVE  \E q \in Places : phase'[q][b] \in {"prompting", "settling"}
      BY <1>1 DEF NoStuckPending, store, terminal
    <3>1. b \in Actions
      BY <1>0 DEF TypeOK
    <3> QED BY <2>2, <3>1 DEF IInv, NoStuckPending
  <2> QED BY <2>4, <2>5, <2>6, <2>7
<1>2. CASE RunLocally(a)
  <2>1. CASE lock = "free"
    <3>1. doubt' = doubt \cup {a} \/ (doubt' = doubt /\ life # "leaving" /\ a \notin accepted)
      BY <1>2, <2>1 DEF RunLocally, Doubtful, Fresh
    <3>2. /\ Prompts("gui", a) /\ lock' = "gui"
          /\ \A b \in Actions : phase["gui"][b] # "none" => b = a
          /\ UNCHANGED <<terminal, astray, recorded, accepted, applied>>
      BY <1>2, <2>1 DEF RunLocally
    <3> QED BY <2>1, <3>1, <3>2, LocalPrompt
  <2>2. CASE lock # "free"
    <3>1. /\ phase' = To(phase, "gui", a, "locking")
          /\ \A b \in Actions : phase["gui"][b] = "none"
          /\ UNCHANGED <<lock, terminal, pi, astray, recorded, store, applied, doubt>>
      BY <1>2, <2>2 DEF RunLocally, store
    <3> QED BY <1>1, <3>1
  <2> QED BY <2>1, <2>2
<1>3. CASE LookAgain(a)
  <2>1. \A b \in Actions : phase["gui"][b] # "none" => b = a
    BY <1>3 DEF LookAgain, IInv, GuiHolds
  <2>2. CASE lock \in {"free", "dead"}
    <3>1. /\ Prompts("gui", a) /\ lock' = "gui" /\ doubt' = doubt \cup {a}
          /\ UNCHANGED <<terminal, astray, recorded, accepted, applied>>
      BY <1>3, <2>2 DEF LookAgain
    <3> QED BY <2>1, <2>2, <3>1, LocalPrompt
  <2>3. CASE lock \notin {"free", "dead"}
    <3>1. /\ phase' = To(phase, "gui", a, "none") /\ phase["gui"][a] = "locking"
          /\ UNCHANGED <<lock, terminal, pi, astray, recorded, store, applied, doubt>>
      BY <1>3, <2>3 DEF LookAgain, store
    <3> QED BY <1>1, <3>1
  <2> QED BY <2>2, <2>3
<1>4. CASE Dispose(a)
  <2>1. \A q \in Places, b \in Actions :
          phase'[q][b] = IF q = "gui" /\ b = a THEN "none" ELSE phase[q][b]
    <3>1. "none" \in Phases /\ phase' = To(phase, "gui", a, "none")
      BY <1>4 DEF Dispose, Phases
    <3> QED BY <1>0, <3>1, ToPhase
  <2>2. \A q \in Places, b \in Actions :
          pi'[q][b] = IF q = "gui" /\ b = a THEN "over" ELSE pi[q][b]
    <3>1. "over" \in PiStates /\ pi' = To(pi, "gui", a, "over")
      BY <1>4 DEF Dispose, DisposesOfPi, PiStates
    <3> QED BY <1>0, <3>1, ToPi
  <2>3. phase["gui"][a] = "disposing" /\ lock = "gui"
        /\ \A b \in Actions : phase["gui"][b] # "none" => b = a
    BY <1>4 DEF Dispose, IInv, GuiHolds, Holding
  <2>4. \A q \in Places, b \in Actions :
          /\ pi'[q][b] \in Live => pi[q][b] \in Live
          /\ pi'[q][b] = "prompt" => pi[q][b] = "prompt" /\ phase'[q][b] = phase[q][b]
    BY <2>1, <2>2 DEF Live
  <2>5. GuiHolds'
    <3>1. \A b \in Actions : phase'["gui"][b] = "none"
      BY <1>0, <2>1, <2>3
    <3>2. \A b \in Actions : pi'["gui"][b] \notin Live
      BY <1>0, <2>2, <2>3 DEF IInv, GuiHolds, Holding, Live
    <3> QED BY <3>1, <3>2 DEF GuiHolds, Holding
  <2>6. TuiHolds'
    BY <1>0, <1>4, <2>3, <2>4 DEF Dispose, IInv, TuiHolds, Astray, terminal
  <2>7. Sending'
    BY <2>4 DEF IInv, Sending
  <2>8. Once' /\ Records'
    BY <1>0, <1>4, <2>4 DEF Dispose, IInv, Once, Records, Astray, Actions, store
  <2>9. NoStuckPending'
    <3> SUFFICES ASSUME NEW b \in pending, ~crashed
                 PROVE  \E q \in Places : phase'[q][b] \in {"prompting", "settling"}
      BY <1>4 DEF Dispose, NoStuckPending, store, terminal
    <3>1. b \in Actions
      BY <1>0 DEF TypeOK
    <3>2. PICK q \in Places : phase[q][b] \in {"prompting", "settling"}
      BY DEF IInv, NoStuckPending
    <3> QED BY <2>1, <2>3, <3>1, <3>2
  <2> QED BY <2>5, <2>6, <2>7, <2>8, <2>9
<1> QED BY <1>2, <1>3, <1>4

-----------------------------------------------------------------------------
(* The terminal, and time. *)

LEMMA TerminalStep ==
  ASSUME IInv,
         Start \/ Started \/ UserTypes \/ TypedTurnEnds \/ SwitchSession \/ Rebind
           \/ RebindRefused \/ Leave \/ Left \/ Crash
  PROVE  GuiHolds' /\ TuiHolds' /\ Sending' /\ Once' /\ Records' /\ NoStuckPending'
<1>0. TypeOK /\ Places = {"tui", "gui"} /\ "gui" \in Places /\ "tui" \in Places
  BY DEF IInv, Places
\* The lock changes hands between the terminal and nobody.
<1>1. ASSUME UNCHANGED <<phase, pi, astray, recorded, store, applied, doubt, crashed>>,
             lock = "gui" => lock' = "gui", TuiHolds'
      PROVE  GuiHolds' /\ TuiHolds' /\ Sending' /\ Once' /\ Records' /\ NoStuckPending'
  <2>1. GuiHolds' /\ Sending'
    BY <1>1 DEF IInv, GuiHolds, Sending
  <2>2. Once' /\ Records' /\ NoStuckPending'
    BY <1>1 DEF IInv, Once, Records, NoStuckPending, Astray, store
  <2> QED BY <1>1, <2>1, <2>2
\* The terminal's Pi session is gone.
<1>2. ASSUME \A b \in Actions : pi'["tui"][b] = "no" /\ pi'["gui"][b] = pi["gui"][b],
             \A b \in Actions : phase'["gui"][b] = phase["gui"][b],
             \A q \in Places : recorded'[q] \subseteq recorded[q],
             lock = "gui" => lock' = "gui",
             UNCHANGED <<store, applied, doubt>>,
             NoStuckPending'
      PROVE  GuiHolds' /\ TuiHolds' /\ Sending' /\ Once' /\ Records' /\ NoStuckPending'
  <2>1. GuiHolds'
    BY <1>2 DEF IInv, GuiHolds
  <2>2. TuiHolds'
    BY <1>2 DEF TuiHolds, Live
  <2>3. Sending'
    BY <1>0, <1>2 DEF IInv, Sending
  <2>4. Once'
    <3> SUFFICES ASSUME NEW b \in Direct \ doubt
                 PROVE  /\ applied[b] = 0 \/ (applied[b] = 1 /\ b \in accepted)
                        /\ \A q \in Places : pi'[q][b] = "prompt" /\ ~Astray(q, b)' => applied[b] = 0
                        /\ pi'["tui"][b] \notin Live
      BY <1>2 DEF Once, store, Astray
    <3>1. b \in Actions
      BY DEF Actions
    <3>2. ~Astray("gui", b)
      BY DEF Astray
    <3> QED BY <1>0, <1>2, <3>1, <3>2 DEF IInv, Once, Live
  <2>5. Records'
    BY <1>2 DEF IInv, Records, store
  <2> QED BY <1>2, <2>1, <2>2, <2>3, <2>4, <2>5
<1>3. CASE Start
  <2>1. TuiHolds'
    BY <1>3 DEF Start, IInv, TuiHolds, Astray
  <2>2. UNCHANGED <<phase, pi, astray, recorded, store, applied, doubt, crashed>> /\ lock # "gui"
    BY <1>3 DEF Start
  <2> QED BY <1>1, <2>1, <2>2
<1>4. CASE Started \/ UserTypes \/ TypedTurnEnds \/ RebindRefused
  <2>1. UNCHANGED <<lock, loaded, phase, pi, astray, recorded, store, applied, doubt, crashed>>
        /\ (life = "leaving" => life' = "leaving")
    BY <1>4 DEF Started, UserTypes, TypedTurnEnds, RebindRefused
  <2>2. TuiHolds'
    BY <2>1 DEF IInv, TuiHolds, Astray
  <2> QED BY <1>1, <2>1, <2>2
<1>5. CASE Rebind
  <2>1. UNCHANGED <<life, loaded, phase, pi, astray, recorded, store, applied, doubt, crashed>>
        /\ (lock = "gui" => lock' = "gui")
        /\ (loaded /\ lock = "tui" => lock' = "tui")
    BY <1>5 DEF Rebind
  <2>2. TuiHolds'
    BY <2>1 DEF IInv, TuiHolds, Astray
  <2> QED BY <1>1, <2>1, <2>2
<1>6. CASE Leave
  <2>1. UNCHANGED <<loaded, phase, pi, astray, recorded, store, applied, doubt, crashed>>
        /\ (lock = "gui" => lock' = "gui") /\ life' = "leaving"
    BY <1>6 DEF Leave
  <2>2. TuiHolds'
    BY <2>1 DEF IInv, TuiHolds, Astray
  <2> QED BY <1>1, <2>1, <2>2
<1>7. CASE SwitchSession
  <2>1. \A b \in Actions : pi'["tui"][b] = "no" /\ pi'["gui"][b] = pi["gui"][b]
    BY <1>0, <1>7 DEF SwitchSession, TypeOK
  <2>2. UNCHANGED <<lock, crashed, phase, recorded, store, applied, doubt>>
    BY <1>7 DEF SwitchSession
  <2>3. NoStuckPending'
    BY <2>2 DEF IInv, NoStuckPending, store
  <2> QED BY <1>2, <2>1, <2>2, <2>3
<1>8. CASE Left
  <2>1. UNCHANGED <<lock, crashed, store, applied, doubt>>
        /\ \A b \in Actions : phase["tui"][b] = "none"
    BY <1>8 DEF Left
  <2>2. TuiForgets
    BY <1>8 DEF Left
  <2>3. NoStuckPending'
    <3> SUFFICES ASSUME NEW b \in pending, ~crashed
                 PROVE  \E q \in Places : phase'[q][b] \in {"prompting", "settling"}
      BY <2>1 DEF NoStuckPending, store
    <3>1. b \in Actions
      BY <1>0 DEF TypeOK
    <3>2. PICK q \in Places : phase[q][b] \in {"prompting", "settling"}
      BY DEF IInv, NoStuckPending
    <3>3. q = "gui"
      BY <1>0, <2>1, <3>1, <3>2
    <3> QED BY <1>0, <2>2, <3>1, <3>2, <3>3, Forgets
  <2>4. \A q \in Places : recorded'[q] \subseteq recorded[q]
    BY <1>0, <2>2, Forgets
  <2> QED BY <1>0, <1>2, <2>1, <2>2, <2>3, <2>4, Forgets
<1>9. CASE Crash
  <2>1. crashed' = TRUE /\ (lock = "gui" => lock' = "gui") /\ UNCHANGED <<store, applied, doubt>>
    BY <1>9 DEF Crash
  <2>2. TuiForgets
    BY <1>9 DEF Crash
  <2>3. NoStuckPending'
    BY <2>1 DEF NoStuckPending
  <2>4. \A q \in Places : recorded'[q] \subseteq recorded[q]
    BY <1>0, <2>2, Forgets
  <2> QED BY <1>0, <1>2, <2>1, <2>2, <2>3, <2>4, Forgets
<1> QED BY <1>3, <1>4, <1>5, <1>6, <1>7, <1>8, <1>9

LEMMA IInvStep == IInv /\ [Next]_vars => IInv'
<1> SUFFICES ASSUME IInv, [Next]_vars PROVE IInv'
  OBVIOUS
<1>0. TypeOK'
  BY TypeStep DEF IInv
<1>1. ASSUME NEW a \in Actions, NEW p \in Places, PiActs(p, a) \/ Serve(p, a) \/ Fails(p, a)
      PROVE  IInv'
  BY <1>0, <1>1, AdmitStep, ServeStep DEF PiActs, IInv
<1>2. ASSUME NEW a \in Actions, Forward(a) \/ ForwardWithoutModel(a) PROVE IInv'
  BY <1>0, <1>2, ForwardStep, WithoutModelStep DEF IInv
<1>3. ASSUME NEW a \in Actions, ForwardBreaks(a) PROVE IInv'
  BY <1>0, <1>3, Unaffected DEF ForwardBreaks, terminal, IInv
<1>4. ASSUME NEW a \in Actions, RunLocally(a) \/ LookAgain(a) \/ Dispose(a) PROVE IInv'
  BY <1>0, <1>4, LocalStep DEF IInv
<1>5. ASSUME NEW a \in Actions, PendingExpires(a) PROVE IInv'
  <2>1. pending' \subseteq pending
        /\ UNCHANGED <<lock, terminal, phase, pi, astray, recorded, accepted, applied, doubt>>
    BY <1>5 DEF PendingExpires
  <2>2. GuiHolds' /\ TuiHolds' /\ Sending'
    BY <2>1 DEF IInv, GuiHolds, TuiHolds, Sending, Astray, terminal
  <2>3. Once' /\ Records' /\ NoStuckPending'
    BY <2>1 DEF IInv, Once, Records, NoStuckPending, Astray, terminal
  <2> QED BY <1>0, <2>2, <2>3 DEF IInv
<1>6. CASE Start \/ Started \/ UserTypes \/ TypedTurnEnds \/ SwitchSession \/ Rebind
             \/ RebindRefused \/ Leave \/ Left \/ Crash
  BY <1>0, <1>6, TerminalStep DEF IInv
<1>7. CASE UNCHANGED vars
  BY <1>0, <1>7, Unaffected DEF vars, terminal, IInv
<1> QED BY <1>1, <1>2, <1>3, <1>4, <1>5, <1>6, <1>7 DEF Next

LEMMA Invariance == Spec => []IInv
BY IInvInit, IInvStep, PTL DEF Spec

-----------------------------------------------------------------------------
(* Theorems. *)

\* A prompt sent again with its action id enters the transcript once, whichever of
\* the programs got it, but for the runs the GUI began in doubt.
THEOREM AppliesOnce == Spec => []NotRepeated
<1>1. IInv => NotRepeated
  <2> SUFFICES ASSUME IInv, NEW a \in Direct \ doubt PROVE applied[a] <= 1
    BY DEF NotRepeated
  <2>1. applied[a] = 0 \/ applied[a] = 1
    BY DEF IInv, Once
  <2> QED BY <2>1
<1> QED BY <1>1, Invariance, PTL

\* The program that may still write a run's turns holds the session's lock: the GUI
\* always, the terminal unless it is leaving or the run went astray when its user
\* opened another session.
THEOREM LockIsHeld == Spec => []RunsHoldTheirLock
<1>1. IInv => RunsHoldTheirLock
  BY DEF IInv, GuiHolds, TuiHolds, RunsHoldTheirLock
<1> QED BY <1>1, Invariance, PTL

\* A pending record belongs to a run in flight, unless the terminal died.
THEOREM PendingIsInFlight == Spec => []NoStuckPending
<1>1. IInv => NoStuckPending
  BY DEF IInv
<1> QED BY <1>1, Invariance, PTL
=============================================================================
