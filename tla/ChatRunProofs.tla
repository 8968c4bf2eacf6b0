--------------------------- MODULE ChatRunProofs ---------------------------
(***************************************************************************)
(* Theorems about ChatRun, for every set of sessions and actions.          *)
(***************************************************************************)
EXTENDS ChatRun, TLAPS

----------------------------------------------------------------------------
(***************************************************************************)
(* Types, and how often a prompt can have been sent.                       *)
(***************************************************************************)

Setup(a) == phase[a] \in {"starting", "locking", "creating"}

AboutToSend(a) == Setup(a) \/ (phase[a] = "running" /\ pi[a] = "prompt")

\* Every admission sends its prompt at most once.
Counts ==
  \A a \in Actions :
    /\ applied[a] <= tries[a]
    /\ AboutToSend(a) => applied[a] < tries[a]

Typed == TypeOK /\ Counts

\* What the end of a run leaves behind has its type, and the run is past
\* sending anything.
LEMMA ReleaseTyped ==
  ASSUME TypeOK, NEW a \in Actions, Release(a)
  PROVE  /\ registry' \in [Sessions -> Actions \cup {None}]
         /\ busy' \subseteq Sessions
         /\ lock' \in [Sessions -> {"free", "server", "run", "foreign"}]
         /\ phase' = [phase EXCEPT ![a] = "none"]
         /\ phase' \in [Actions -> Phases]
         /\ stopReq' \in [Actions -> BOOLEAN]
<1> USE ChatRunAssumption DEF TypeOK, Release, Phases
<1>1. Home[a] \in Sessions
  OBVIOUS
<1> QED BY <1>1

LEMMA ReturnTyped ==
  ASSUME TypeOK, NEW a \in Actions, NEW ok, Return(a, ok)
  PROVE  /\ tail' \in [Sessions -> Actions \cup {None}]
         /\ waiting' \subseteq Actions
         /\ hung' \subseteq Actions
BY ChatRunAssumption DEF TypeOK, Return

\* What the end of a run does to everything but the store and the counters.
Ended(a) ==
  /\ tail' \in [Sessions -> Actions \cup {None}]
  /\ waiting' \subseteq Actions
  /\ hung' \subseteq Actions
  /\ registry' \in [Sessions -> Actions \cup {None}]
  /\ busy' \subseteq Sessions
  /\ lock' \in [Sessions -> {"free", "server", "run", "foreign"}]
  /\ stopReq' \in [Actions -> BOOLEAN]
  /\ phase' \in [Actions -> Phases]
  /\ phase'[a] \in {"none", "disposing"}
  /\ \A b \in Actions \ {a} : phase'[b] = phase[b]

LEMMA FinishEnds ==
  ASSUME TypeOK, NEW a \in Actions, NEW ok, Finish(a, ok)
  PROVE  Ended(a)
<1>1. Return(a, ok)
  BY DEF Finish
<1>2. CASE own[a]
  <2>1. Release(a)
    BY <1>2 DEF Finish, ReleasesNow
  <2> QED BY <1>1, <2>1, ReturnTyped, ReleaseTyped DEF Ended, TypeOK
<1>3. CASE ~own[a]
  <2>1. phase' = [phase EXCEPT ![a] = "disposing"] /\ UNCHANGED <<owners, stopReq>>
    BY <1>3 DEF Finish, ReleasesNow
  <2> QED BY <1>1, <2>1, ReturnTyped DEF Ended, TypeOK, owners, Phases
<1> QED BY <1>2, <1>3

LEMMA RejectEnds ==
  ASSUME TypeOK, NEW a \in Actions, Reject(a)
  PROVE  Ended(a)
<1>1. Return(a, FALSE) /\ Release(a)
  BY DEF Reject
<1>2. /\ phase' = [phase EXCEPT ![a] = "none"]
      /\ phase' \in [Actions -> Phases]
  BY <1>1, ReleaseTyped
<1>4. /\ tail' \in [Sessions -> Actions \cup {None}]
      /\ waiting' \subseteq Actions
      /\ hung' \subseteq Actions
  BY <1>1, ReturnTyped
<1>5. /\ registry' \in [Sessions -> Actions \cup {None}]
      /\ busy' \subseteq Sessions
      /\ lock' \in [Sessions -> {"free", "server", "run", "foreign"}]
      /\ stopReq' \in [Actions -> BOOLEAN]
  BY <1>1, ReleaseTyped
<1>6. phase'[a] = "none" /\ \A b \in Actions \ {a} : phase'[b] = phase[b]
  BY <1>2 DEF TypeOK
<1> QED BY <1>2, <1>4, <1>5, <1>6 DEF Ended

\* The run of a is over: it sends nothing more, and no other run changes.
LEMMA PastSending ==
  ASSUME Typed, NEW a \in Actions,
         Ended(a),
         applied'[a] <= tries[a],
         \A b \in Actions \ {a} : applied'[b] = applied[b] /\ pi'[b] = pi[b],
         tries' = tries
  PROVE  Counts'
<1> SUFFICES ASSUME NEW b \in Actions
             PROVE  /\ applied'[b] <= tries'[b]
                    /\ AboutToSend(b)' => applied'[b] < tries'[b]
  BY DEF Counts
<1>1. CASE b = a
  BY <1>1 DEF AboutToSend, Setup, Ended
<1>2. CASE b # a
  BY <1>2 DEF Ended, Typed, TypeOK, Counts, AboutToSend, Setup
<1> QED BY <1>1, <1>2

LEMMA RequestTyped ==
  ASSUME Typed, NEW a \in Actions, Admit(a) \/ Retry(a) \/ Stop(a)
  PROVE  Typed'
<1> USE ChatRunAssumption
    DEF Typed, TypeOK, Counts, AboutToSend, Setup, Phases, server, owners,
        store, client
<1>1. CASE Admit(a)
  <2>1. TypeOK'
    BY <1>1 DEF Admit, Claim, StartRun, Fresh
  <2>2. Counts'
    BY <1>1 DEF Admit, Claim, StartRun, Fresh
  <2> QED BY <2>1, <2>2
<1>2. CASE Retry(a)
  BY <1>2 DEF Retry, Fresh
<1>3. CASE Stop(a)
  BY <1>3 DEF Stop, Cancel
<1> QED BY <1>1, <1>2, <1>3

LEMMA ServeTyped ==
  ASSUME Typed, NEW a \in Actions, Serve(a)
  PROVE  Typed'
<1> USE ChatRunAssumption
    DEF Typed, TypeOK, Counts, AboutToSend, Setup, Phases, server, owners,
        store, client
<1>1. CASE Lock(a)
  BY <1>1 DEF Lock
<1>2. CASE LockRefused(a)
  <2>1. Ended(a)
    BY <1>2, RejectEnds DEF LockRefused
  <2>2. Counts'
    BY <1>2, <2>1, PastSending DEF LockRefused
  <2> QED BY <1>2, <2>1, <2>2 DEF LockRefused, Ended
<1>3. CASE SetupFails(a)
  <2>1. Ended(a)
    BY <1>3, RejectEnds DEF SetupFails
  <2>2. Counts'
    BY <1>3, <2>1, PastSending DEF SetupFails
  <2> QED BY <1>3, <2>1, <2>2 DEF SetupFails, Ended
<1>4. CASE BeginStopped(a)
  <2>2. Ended(a)
    BY <1>4, FinishEnds DEF BeginStopped
  <2>3. accepted' \subseteq Actions /\ pending' \subseteq Actions
    BY <1>4 DEF BeginStopped
  <2>4. TypeOK'
    BY <1>4, <2>2, <2>3 DEF BeginStopped, Ended
  <2>5. Counts'
    BY <1>4, <2>2, PastSending DEF BeginStopped
  <2> QED BY <2>4, <2>5
<1>5. CASE BeginWithoutModel(a)
  <2>1. applied' = [applied EXCEPT ![a] = @ + 1] /\ applied[a] < tries[a]
    BY <1>5 DEF BeginWithoutModel, Ready
  <2>2. Ended(a)
    BY <1>5, FinishEnds DEF BeginWithoutModel
  <2>3. accepted' \subseteq Actions /\ pending' \subseteq Actions
    BY <1>5 DEF BeginWithoutModel, Accept
  <2>6. applied' \in [Actions -> Nat]
    BY <2>1
  <2>4. TypeOK'
    BY <1>5, <2>2, <2>3, <2>6 DEF BeginWithoutModel, Ended
  <2>5. Counts'
    BY <1>5, <2>1, <2>2, PastSending DEF BeginWithoutModel
  <2> QED BY <2>4, <2>5
<1>6. CASE Begin(a)
  <2>1. applied[a] < tries[a]
    BY <1>6 DEF Begin, Ready
  <2> QED BY <1>6, <2>1 DEF Begin
<1>7. CASE SettleStopped(a)
  <2>2. Ended(a)
    BY <1>7, FinishEnds DEF SettleStopped
  <2>3. accepted' \subseteq Actions /\ pending' \subseteq Actions
    BY <1>7 DEF SettleStopped, ClearsPending
  <2>4. TypeOK'
    BY <1>7, <2>2, <2>3 DEF SettleStopped, Ended
  <2>5. Counts'
    BY <1>7, <2>2, PastSending DEF SettleStopped
  <2> QED BY <2>4, <2>5
<1>8. CASE SettleCompleted(a)
  <2>2. Ended(a)
    BY <1>8, FinishEnds DEF SettleCompleted
  <2>3. accepted' \subseteq Actions /\ pending' \subseteq Actions
    BY <1>8 DEF SettleCompleted, Accept
  <2>4. TypeOK'
    BY <1>8, <2>2, <2>3 DEF SettleCompleted, Ended
  <2>5. Counts'
    BY <1>8, <2>2, PastSending DEF SettleCompleted
  <2> QED BY <2>4, <2>5
<1>9. CASE Dispose(a)
  BY <1>9, ReleaseTyped DEF Dispose
<1>10. CASE SetupThrows(a)
  <2>1. Return(a, FALSE) /\ phase' = [phase EXCEPT ![a] = "leaked"]
    BY <1>10 DEF SetupThrows
  <2>2. /\ phase' \in [Actions -> Phases]
        /\ busy' \subseteq Sessions
        /\ UNCHANGED <<server, lock, registry, own, stopReq, early, pi, store,
                       tries, applied>>
    BY <1>10, <2>1 DEF SetupThrows
  <2>3. /\ tail' \in [Sessions -> Actions \cup {None}]
        /\ waiting' \subseteq Actions
        /\ hung' \subseteq Actions
    BY <2>1, ReturnTyped
  <2>4. TypeOK'
    BY <2>2, <2>3
  <2>5. UNCHANGED <<pi, tries, applied>>
    BY <1>10 DEF SetupThrows
  <2>6. Counts'
    BY <2>1, <2>5
  <2> QED BY <2>4, <2>6
<1> QED
  BY <1>1, <1>2, <1>3, <1>4, <1>5, <1>6, <1>7, <1>8, <1>9, <1>10 DEF Serve

LEMMA PiTyped ==
  ASSUME Typed, NEW a \in Actions, PiActs(a) \/ Fails(a)
  PROVE  Typed'
<1> USE ChatRunAssumption
    DEF Typed, TypeOK, Counts, AboutToSend, Setup, Phases, server, owners,
        store, client
<1>1. CASE PiAdmits(a)
  <2>1. applied[a] < tries[a] /\ pi[a] = "prompt"
    BY <1>1 DEF PiAdmits, Unsent
  <2>2. accepted' \subseteq Actions /\ pending' \subseteq Actions
    BY <1>1 DEF PiAdmits, RecordsAdmission, Accept
  <2>3. pi' \in [Actions -> {"no", "prompt", "turn", "steps", "over"}]
    BY <1>1 DEF PiAdmits
  <2>4. applied' = [applied EXCEPT ![a] = @ + 1] /\ pi'[a] # "prompt"
    BY <1>1 DEF PiAdmits
  <2>5. \A b \in Actions \ {a} : pi'[b] = pi[b]
    BY <1>1 DEF PiAdmits
  <2> QED BY <1>1, <2>1, <2>2, <2>3, <2>4, <2>5 DEF PiAdmits
<1>2. CASE PiAbandons(a)
  BY <1>2 DEF PiAbandons
<1>3. CASE PiReturns(a)
  BY <1>3 DEF PiReturns
<1>4. CASE StepsEnd(a)
  BY <1>4 DEF StepsEnd
<1>5. CASE Fails(a)
  <2>2. Ended(a)
    BY <1>5, FinishEnds DEF Fails
  <2>3. accepted' \subseteq Actions /\ pending' \subseteq Actions
    BY <1>5 DEF Fails, ClearsPending
  <2>4. TypeOK'
    BY <1>5, <2>2, <2>3 DEF Fails, Ended
  <2>5. Counts'
    BY <1>5, <2>2, PastSending DEF Fails
  <2> QED BY <2>4, <2>5
<1> QED BY <1>1, <1>2, <1>3, <1>4, <1>5 DEF PiActs

LEMMA EnvironmentTyped ==
  ASSUME Typed,
         \/ \E a \in Actions : PendingExpires(a) \/ StopForgotten(a)
         \/ \E s \in Sessions : OpenSession(s) \/ Foreign(s) \/ Restart(s)
         \/ Switch
         \/ SwitchRefused
  PROVE  Typed'
<1> USE ChatRunAssumption
    DEF Typed, TypeOK, Counts, AboutToSend, Setup, Phases, server, owners,
        store, client
<1>1. ASSUME NEW a \in Actions, PendingExpires(a) \/ StopForgotten(a)
      PROVE  Typed'
  BY <1>1 DEF PendingExpires, StopForgotten
<1>2. ASSUME NEW s \in Sessions, OpenSession(s)
      PROVE  Typed'
  BY <1>2 DEF OpenSession
<1>3. ASSUME NEW s \in Sessions, Foreign(s)
      PROVE  Typed'
  BY <1>3 DEF Foreign
<1>4. ASSUME NEW s \in Sessions, Restart(s)
      PROVE  Typed'
  BY <1>4 DEF Restart
<1>5. CASE Switch
  <2>1. TypeOK'
    BY <1>5 DEF Switch, TearDown
  <2>2. Counts'
    BY <1>5 DEF Switch, TearDown
  <2> QED BY <2>1, <2>2
<1>6. CASE SwitchRefused
  BY <1>6 DEF SwitchRefused, TearDown
<1> QED BY <1>1, <1>2, <1>3, <1>4, <1>5, <1>6

LEMMA TypedInvariant == Spec => []Typed
<1>1. Init => Typed
  <2>1. Init => TypeOK
    <3> SUFFICES ASSUME Init
                 PROVE  TypeOK
      OBVIOUS
    <3>1. /\ phase \in [Actions -> Phases]
          /\ pi \in [Actions -> {"no", "prompt", "turn", "steps", "over"}]
          /\ own \in [Actions -> BOOLEAN] /\ stopReq \in [Actions -> BOOLEAN]
      BY DEF Init, Phases
    <3>2. /\ tries \in [Actions -> Nat] /\ applied \in [Actions -> Nat]
          /\ \A a \in Actions : tries[a] <= MaxTries[a]
      BY ChatRunAssumption DEF Init
    <3>3. /\ registry \in [Sessions -> Actions \cup {None}]
          /\ tail \in [Sessions -> Actions \cup {None}]
          /\ lock \in [Sessions -> {"free", "server", "run", "foreign"}]
      BY DEF Init
    <3> QED BY <3>1, <3>2, <3>3 DEF Init, TypeOK
  <2>2. Init => Counts
    BY ChatRunAssumption DEF Init, Counts, AboutToSend, Setup
  <2> QED BY <2>1, <2>2 DEF Typed
<1>2. Typed /\ [Next]_vars => Typed'
  <2> SUFFICES ASSUME Typed, [Next]_vars
               PROVE  Typed'
    OBVIOUS
  <2>1. CASE Next
    BY <2>1, RequestTyped, ServeTyped, PiTyped, EnvironmentTyped DEF Next
  <2>2. CASE UNCHANGED vars
    BY <2>2 DEF Typed, TypeOK, Counts, AboutToSend, Setup, vars
  <2> QED BY <2>1, <2>2
<1> QED BY <1>1, <1>2, PTL DEF Spec

\* Every reachable state is well typed; no prompt is sent more often than its
\* action was admitted.
THEOREM TypeCorrect == Spec => []TypeOK
<1>1. Typed => TypeOK
  BY DEF Typed
<1> QED BY <1>1, TypedInvariant, PTL

----------------------------------------------------------------------------
(***************************************************************************)
(* A direct prompt enters the transcript at most once.  The strengthening  *)
(* says why: the acceptance is on disk whenever the prompt is in the       *)
(* transcript, and a run about to send has a prompt that is not.           *)
(***************************************************************************)

Sent(a) == applied[a] = 0 \/ (applied[a] = 1 /\ a \in accepted)

Once == \A a \in Direct : Sent(a) /\ (AboutToSend(a) => applied[a] = 0)

\* The end of a run of a, once the prompt of a is accounted for.
LEMMA OnceAfterEnd ==
  ASSUME Typed, Once, NEW a \in Actions, Ended(a),
         a \in Direct => Sent(a)',
         \A b \in Actions \ {a} : applied'[b] = applied[b] /\ pi'[b] = pi[b],
         accepted \subseteq accepted'
  PROVE  Once'
<1> SUFFICES ASSUME NEW b \in Direct
             PROVE  Sent(b)' /\ (AboutToSend(b)' => applied'[b] = 0)
  BY DEF Once
<1>1. CASE b = a
  BY <1>1 DEF AboutToSend, Setup, Ended
<1>2. CASE b # a
  BY <1>2 DEF Ended, Once, Sent, AboutToSend, Setup, Direct
<1> QED BY <1>1, <1>2

LEMMA OnceRequest ==
  ASSUME Typed, Once, NEW a \in Actions, Admit(a) \/ Retry(a) \/ Stop(a)
  PROVE  Once'
<1> USE DEF Typed, TypeOK, Once, Sent, AboutToSend, Setup, Direct, server,
            owners, store, client
<1>1. CASE Admit(a)
  <2>1. a \in Direct => applied[a] = 0
    BY <1>1 DEF Admit, Claim, StartRun, Fresh
  <2> QED BY <1>1, <2>1 DEF Admit, Claim, StartRun, Fresh
<1>2. CASE Retry(a)
  BY <1>2 DEF Retry, Fresh
<1>3. CASE Stop(a)
  BY <1>3 DEF Stop, Cancel
<1> QED BY <1>1, <1>2, <1>3

LEMMA OnceServe ==
  ASSUME Typed, Once, NEW a \in Actions, Serve(a)
  PROVE  Once'
<1> USE DEF Typed, store, client
<1>1. CASE Lock(a)
  BY <1>1 DEF Lock, Once, Sent, AboutToSend, Setup, Direct, TypeOK
<1>2. CASE LockRefused(a)
  <2>1. Ended(a) /\ UNCHANGED <<pi, applied, accepted>>
    BY <1>2, RejectEnds DEF LockRefused
  <2> QED BY <2>1, OnceAfterEnd DEF Once, Sent
<1>3. CASE SetupFails(a)
  <2>1. Ended(a) /\ UNCHANGED <<pi, applied, accepted>>
    BY <1>3, RejectEnds DEF SetupFails
  <2> QED BY <2>1, OnceAfterEnd DEF Once, Sent
<1>4. CASE BeginStopped(a)
  <2>1. Ended(a) /\ UNCHANGED <<pi, applied, accepted>>
    BY <1>4, FinishEnds DEF BeginStopped
  <2> QED BY <2>1, OnceAfterEnd DEF Once, Sent
<1>5. CASE BeginWithoutModel(a)
  <2>1. Ended(a) /\ UNCHANGED pi
    BY <1>5, FinishEnds DEF BeginWithoutModel
  <2>2. applied' = [applied EXCEPT ![a] = @ + 1] /\ accepted' = accepted \cup {a}
    BY <1>5 DEF BeginWithoutModel, Accept
  <2>3. a \in Direct => applied[a] = 0
    BY <1>5 DEF BeginWithoutModel, Ready, Once, AboutToSend, Setup
  <2>4. a \in Direct => Sent(a)'
    BY <2>2, <2>3 DEF Sent, TypeOK
  <2> QED BY <2>1, <2>2, <2>4, OnceAfterEnd DEF TypeOK
<1>6. CASE Begin(a)
  <2>1. a \in Direct => applied[a] = 0 /\ a \notin Commands
    BY <1>6 DEF Begin, Ready, Once, AboutToSend, Setup, Direct
  <2> QED BY <1>6, <2>1 DEF Begin, Once, Sent, AboutToSend, Setup, Direct, TypeOK
<1>7. CASE SettleStopped(a)
  <2>1. Ended(a) /\ UNCHANGED <<pi, applied, accepted>>
    BY <1>7, FinishEnds DEF SettleStopped, ClearsPending
  <2> QED BY <2>1, OnceAfterEnd DEF Once, Sent
<1>8. CASE SettleCompleted(a)
  <2>1. Ended(a) /\ UNCHANGED <<pi, applied>> /\ accepted \subseteq accepted'
    BY <1>8, FinishEnds DEF SettleCompleted, Accept
  <2> QED BY <2>1, OnceAfterEnd DEF Once, Sent
<1>9. CASE Dispose(a)
  BY <1>9, ReleaseTyped DEF Dispose, Once, Sent, AboutToSend, Setup, Direct, TypeOK
<1>10. CASE SetupThrows(a)
  BY <1>10 DEF SetupThrows, Once, Sent, AboutToSend, Setup, Direct, TypeOK
<1> QED
  BY <1>1, <1>2, <1>3, <1>4, <1>5, <1>6, <1>7, <1>8, <1>9, <1>10 DEF Serve

LEMMA OncePi ==
  ASSUME Typed, Once, NEW a \in Actions, PiActs(a) \/ Fails(a)
  PROVE  Once'
<1> USE DEF Typed, TypeOK, Once, Sent, AboutToSend, Setup, Direct, server,
            owners, store, client
<1>1. CASE PiAdmits(a)
  <2>1. a \in Direct => applied[a] = 0 /\ a \in accepted'
    BY <1>1 DEF PiAdmits, Unsent, RecordsAdmission, Accept
  <2>2. /\ applied' = [applied EXCEPT ![a] = @ + 1]
        /\ pi'[a] # "prompt"
        /\ \A b \in Actions \ {a} : pi'[b] = pi[b]
    BY <1>1 DEF PiAdmits
  <2>3. accepted \subseteq accepted'
    BY <1>1 DEF PiAdmits, RecordsAdmission, Accept
  <2>4. phase' = phase /\ phase[a] = "running"
    BY <1>1 DEF PiAdmits
  <2> QED BY <2>1, <2>2, <2>3, <2>4
<1>2. CASE PiAbandons(a)
  BY <1>2 DEF PiAbandons
<1>3. CASE PiReturns(a)
  BY <1>3 DEF PiReturns
<1>4. CASE StepsEnd(a)
  BY <1>4 DEF StepsEnd
<1>5. CASE Fails(a)
  <2>1. Ended(a) /\ UNCHANGED <<applied, accepted>>
    BY <1>5, FinishEnds DEF Fails, ClearsPending
  <2>2. \A b \in Actions \ {a} : pi'[b] = pi[b]
    BY <1>5 DEF Fails
  <2> QED BY <2>1, <2>2, OnceAfterEnd
<1> QED BY <1>1, <1>2, <1>3, <1>4, <1>5 DEF PiActs

LEMMA OnceEnvironment ==
  ASSUME Typed, Once,
         \/ \E a \in Actions : PendingExpires(a) \/ StopForgotten(a)
         \/ \E s \in Sessions : OpenSession(s) \/ Foreign(s) \/ Restart(s)
         \/ Switch
         \/ SwitchRefused
  PROVE  Once'
<1> USE DEF Typed, TypeOK, Once, Sent, AboutToSend, Setup, Direct, server,
            owners, store, client
<1>1. ASSUME NEW a \in Actions, PendingExpires(a) \/ StopForgotten(a)
      PROVE  Once'
  BY <1>1 DEF PendingExpires, StopForgotten
<1>2. ASSUME NEW s \in Sessions, OpenSession(s) \/ Foreign(s) \/ Restart(s)
      PROVE  Once'
  BY <1>2 DEF OpenSession, Foreign, Restart
<1>3. CASE Switch \/ SwitchRefused
  <2>1. UNCHANGED <<phase, applied, accepted>>
    BY <1>3 DEF Switch, SwitchRefused
  <2>2. \A b \in Actions : pi'[b] = "prompt" => pi[b] = "prompt"
    BY <1>3 DEF Switch, SwitchRefused, TearDown
  <2> QED BY <2>1, <2>2
<1> QED BY <1>1, <1>2, <1>3

\* However often the same action arrives, whatever becomes of its runs and of
\* the server, a prompt the model answers as it stands is in the transcript at
\* most once.
THEOREM AppliesOnce == Spec => []AppliedOnce
<1>1. Init => Once
  BY DEF Init, Once, Sent, AboutToSend, Setup, Direct
<1>2. Typed /\ Once /\ [Next]_vars => Once'
  <2> SUFFICES ASSUME Typed, Once, [Next]_vars
               PROVE  Once'
    OBVIOUS
  <2>1. CASE Next
    BY <2>1, OnceRequest, OnceServe, OncePi, OnceEnvironment DEF Next
  <2>2. CASE UNCHANGED vars
    BY <2>2 DEF Once, Sent, AboutToSend, Setup, vars
  <2> QED BY <2>1, <2>2
<1>3. Typed /\ Once => AppliedOnce
  BY DEF Typed, TypeOK, Once, Sent, AppliedOnce, Direct
<1> QED BY <1>1, <1>2, <1>3, TypedInvariant, PTL DEF Spec

----------------------------------------------------------------------------
(***************************************************************************)
(* A run with a Pi session of its own owns its session.  Two more facts    *)
(* make this inductive: the registry names every run in progress, so that  *)
(* no two runs of a session can release each other's lock; and an own      *)
(* prompt Pi still works on belongs to the current session, so that an     *)
(* action that starts over in a session of its own finds Pi done with it.  *)
(***************************************************************************)

Active(a) == pi[a] \in {"prompt", "turn", "steps"}

Registered(a) == phase[a] # "none" => registry[Home[a]] = a

Holds(a) ==
  phase[a] \in {"creating", "running", "disposing"} /\ ~own[a]
    => Home[a] \in busy /\ lock[Home[a]] = "run"

InPlace(a) ==
  /\ phase[a] = "starting" => own[a] /\ Home[a] = current
  /\ phase[a] \in {"locking", "creating", "disposing"} => ~own[a]
  /\ Active(a) => IF own[a] THEN Home[a] = current
                            ELSE phase[a] \in {"running", "disposing"}

RunOwns(a) == Registered(a) /\ Holds(a) /\ InPlace(a)

Ownership ==
  /\ lock[current] = "server"
  /\ \A a \in Actions : RunOwns(a)

\* A run of a gives everything back.
LEMMA OwnershipAfterRelease ==
  ASSUME Typed, Ownership, NEW a \in Actions, phase[a] # "none", Release(a),
         pi'[a] = pi[a] \/ ~Active(a)',
         Active(a)' => own[a] /\ Home[a] = current,
         \A b \in Actions \ {a} : pi'[b] = pi[b],
         UNCHANGED <<current, own>>
  PROVE  Ownership'
<1> USE ChatRunAssumption DEF Typed, TypeOK
<1>1. lock'[current] = "server"
  BY DEF Release, Ownership
<1>2. ASSUME NEW b \in Actions
      PROVE  RunOwns(b)'
  <2>1. CASE b = a
    BY <2>1 DEF Release, RunOwns, Registered, Holds, InPlace, Active
  <2>2. CASE b # a /\ phase[b] = "none"
    BY <2>2 DEF Release, Ownership, RunOwns, Registered, Holds, InPlace, Active
  <2>3. CASE b # a /\ phase[b] # "none"
    <3>1. Home[b] # Home[a]
      BY <2>3 DEF Ownership, RunOwns, Registered
    <3> QED
      BY <2>3, <3>1 DEF Release, Ownership, RunOwns, Registered, Holds, InPlace,
                        Active
  <2> QED BY <2>1, <2>2, <2>3
<1> QED BY <1>1, <1>2 DEF Ownership

\* The response of a run ends: it releases at once, or stays to dispose.
Leaves(a) ==
  IF own[a] THEN Release(a)
  ELSE phase' = [phase EXCEPT ![a] = "disposing"] /\ UNCHANGED <<owners, stopReq>>

LEMMA OwnershipAfterFinish ==
  ASSUME Typed, Ownership, NEW a \in Actions,
         phase[a] \in {"starting", "creating", "running"},
         Leaves(a),
         pi'[a] = pi[a] \/ ~Active(a)',
         \A b \in Actions \ {a} : pi'[b] = pi[b],
         UNCHANGED <<current, own>>
  PROVE  Ownership'
<1> USE DEF Typed, TypeOK
<1>1. CASE own[a]
  <2>1. Release(a)
    BY <1>1 DEF Leaves
  <2>2. Active(a)' => own[a] /\ Home[a] = current
    BY <1>1 DEF Ownership, RunOwns, InPlace, Active
  <2> QED BY <2>1, <2>2, OwnershipAfterRelease
<1>2. CASE ~own[a]
  <2>1. phase' = [phase EXCEPT ![a] = "disposing"] /\ UNCHANGED owners
    BY <1>2 DEF Leaves
  <2>2. phase[a] # "starting"
    BY <1>2 DEF Ownership, RunOwns, InPlace
  <2>3. RunOwns(a)'
    BY <1>2, <2>1, <2>2 DEF owners, Ownership, RunOwns, Registered, Holds,
       InPlace, Active
  <2>4. \A b \in Actions \ {a} : RunOwns(b)'
    BY <2>1 DEF owners, Ownership, RunOwns, Registered, Holds, InPlace, Active
  <2> QED BY <2>1, <2>3, <2>4 DEF owners, Ownership
<1> QED BY <1>1, <1>2

LEMMA OwnershipRequest ==
  ASSUME Typed, Ownership, NEW a \in Actions, Admit(a) \/ Retry(a) \/ Stop(a)
  PROVE  Ownership'
<1> USE ChatRunAssumption DEF Typed, TypeOK, server, owners, client
<1>1. CASE Admit(a)
  <2>1. /\ registry[Home[a]] = None
        /\ registry' = [registry EXCEPT ![Home[a]] = a]
        /\ own' = [own EXCEPT ![a] = Home[a] = current]
        /\ phase' = [phase EXCEPT ![a] =
                       IF Home[a] = current THEN "starting" ELSE "locking"]
        /\ UNCHANGED <<current, lock, busy, pi>>
    BY <1>1 DEF Admit, Claim, StartRun, Fresh
  <2>2. phase[a] = "none"
    BY <2>1 DEF Ownership, RunOwns, Registered
  <2>3. Active(a) => own[a] /\ Home[a] = current
    BY <2>2 DEF Ownership, RunOwns, InPlace
  <2>4. RunOwns(a)'
    BY <2>1, <2>3 DEF RunOwns, Registered, Holds, InPlace, Active
  <2>5. ASSUME NEW b \in Actions \ {a}
        PROVE  RunOwns(b)'
    <3>1. phase[b] # "none" => Home[b] # Home[a]
      BY <2>1 DEF Ownership, RunOwns, Registered
    <3> QED
      BY <2>1, <3>1 DEF Ownership, RunOwns, Registered, Holds, InPlace, Active
  <2> QED BY <2>1, <2>4, <2>5 DEF Ownership
<1>2. CASE Retry(a) \/ Stop(a)
  BY <1>2 DEF Retry, Fresh, Stop, Cancel, Ownership, RunOwns, Registered, Holds, InPlace, Active
<1> QED BY <1>1, <1>2

LEMMA OwnershipServe ==
  ASSUME Typed, Ownership, NEW a \in Actions, Serve(a)
  PROVE  Ownership'
<1> USE ChatRunAssumption DEF Typed, TypeOK, server, client
<1>1. CASE Lock(a)
  <2>1. /\ phase[a] = "locking" /\ lock[Home[a]] = "free"
        /\ lock' = [lock EXCEPT ![Home[a]] = "run"]
        /\ busy' = busy \cup {Home[a]}
        /\ phase' = [phase EXCEPT ![a] = "creating"]
        /\ UNCHANGED <<current, registry, own, pi>>
    BY <1>1 DEF Lock
  <2>2. lock'[current] = "server"
    BY <2>1 DEF Ownership
  <2>3. RunOwns(a)'
    BY <2>1 DEF Ownership, RunOwns, Registered, Holds, InPlace, Active
  <2>4. \A b \in Actions \ {a} : RunOwns(b)'
    BY <2>1 DEF Ownership, RunOwns, Registered, Holds, InPlace, Active
  <2>5. \A b \in Actions : RunOwns(b)'
    BY <2>3, <2>4
  <2> QED BY <2>1, <2>2, <2>5 DEF Ownership
<1>2. CASE LockRefused(a) \/ SetupFails(a)
  <2>1. /\ phase[a] \in {"starting", "locking", "creating"} /\ Release(a)
        /\ UNCHANGED <<current, own, pi>>
    BY <1>2 DEF LockRefused, SetupFails, Reject
  <2>2. Active(a)' => own[a] /\ Home[a] = current
    BY <2>1 DEF Ownership, RunOwns, InPlace, Active
  <2> QED BY <2>1, <2>2, OwnershipAfterRelease
<1>3. CASE BeginStopped(a)
  <2>1. /\ phase[a] \in {"starting", "creating", "running"}
        /\ Leaves(a)
        /\ UNCHANGED <<current, own, pi>>
    BY <1>3 DEF BeginStopped, Ready, Finish, ReleasesNow, Leaves
  <2> QED BY <2>1, OwnershipAfterFinish
<1>4. CASE BeginWithoutModel(a)
  <2>1. /\ phase[a] \in {"starting", "creating", "running"}
        /\ Leaves(a)
        /\ UNCHANGED <<current, own, pi>>
    BY <1>4 DEF BeginWithoutModel, Ready, Finish, ReleasesNow, Leaves
  <2> QED BY <2>1, OwnershipAfterFinish
<1>5. CASE Begin(a)
  <2>1. /\ phase[a] \in {"starting", "creating"}
        /\ busy' = busy \cup {Home[a]}
        /\ phase' = [phase EXCEPT ![a] = "running"]
        /\ \A b \in Actions \ {a} : pi'[b] = pi[b]
        /\ UNCHANGED <<current, lock, registry, own>>
    BY <1>5 DEF Begin, Ready
  <2>2. RunOwns(a)'
    BY <2>1 DEF Ownership, RunOwns, Registered, Holds, InPlace, Active
  <2>3. \A b \in Actions \ {a} : RunOwns(b)'
    BY <2>1 DEF Ownership, RunOwns, Registered, Holds, InPlace, Active
  <2> QED BY <2>1, <2>2, <2>3 DEF Ownership
<1>6. CASE SettleStopped(a)
  <2>1. /\ phase[a] \in {"starting", "creating", "running"}
        /\ Leaves(a)
        /\ UNCHANGED <<current, own, pi>>
    BY <1>6 DEF SettleStopped, Settles, Finish, ReleasesNow, Leaves
  <2> QED BY <2>1, OwnershipAfterFinish
<1>7. CASE SettleCompleted(a)
  <2>1. /\ phase[a] \in {"starting", "creating", "running"}
        /\ Leaves(a)
        /\ UNCHANGED <<current, own, pi>>
    BY <1>7 DEF SettleCompleted, Settles, Finish, ReleasesNow, Leaves
  <2> QED BY <2>1, OwnershipAfterFinish
<1>8. CASE Dispose(a)
  <2>1. /\ phase[a] = "disposing" /\ Release(a) /\ UNCHANGED <<current, own>>
        /\ ~Active(a)'
        /\ \A b \in Actions \ {a} : pi'[b] = pi[b]
    BY <1>8 DEF Dispose, Active
  <2> QED BY <2>1, OwnershipAfterRelease
<1>9. CASE SetupThrows(a)
  <2>1. /\ phase[a] \in {"starting", "creating"}
        /\ busy' = busy \cup {Home[a]}
        /\ phase' = [phase EXCEPT ![a] = "leaked"]
        /\ UNCHANGED <<current, lock, registry, own, pi>>
    BY <1>9 DEF SetupThrows, Ready
  <2>2. RunOwns(a)'
    BY <2>1 DEF Ownership, RunOwns, Registered, Holds, InPlace, Active
  <2>3. \A b \in Actions \ {a} : RunOwns(b)'
    BY <2>1 DEF Ownership, RunOwns, Registered, Holds, InPlace, Active
  <2> QED BY <2>1, <2>2, <2>3 DEF Ownership
<1> QED
  BY <1>1, <1>2, <1>3, <1>4, <1>5, <1>6, <1>7, <1>8, <1>9 DEF Serve

LEMMA OwnershipPi ==
  ASSUME Typed, Ownership, NEW a \in Actions, PiActs(a) \/ Fails(a)
  PROVE  Ownership'
<1> USE DEF Typed, TypeOK, server, owners
<1>1. CASE PiActs(a)
  <2>1. /\ Active(a)
        /\ \A b \in Actions \ {a} : pi'[b] = pi[b]
        /\ UNCHANGED <<current, lock, registry, busy, phase, own>>
    BY <1>1 DEF PiActs, PiAdmits, PiAbandons, PiReturns, StepsEnd, Unsent, Active
  <2>2. \A b \in Actions : Active(b)' => Active(b)
    BY <2>1 DEF Active
  <2> QED BY <2>1, <2>2 DEF Ownership, RunOwns, Registered, Holds, InPlace
<1>2. CASE Fails(a)
  <2>1. /\ phase[a] = "running"
        /\ Leaves(a)
        /\ pi'[a] = pi[a] \/ ~Active(a)'
        /\ \A b \in Actions \ {a} : pi'[b] = pi[b]
        /\ UNCHANGED <<current, own>>
    BY <1>2 DEF Fails, Active, Finish, ReleasesNow, Leaves
  <2> QED BY <2>1, OwnershipAfterFinish
<1> QED BY <1>1, <1>2

LEMMA OwnershipEnvironment ==
  ASSUME Typed, Ownership,
         \/ \E a \in Actions : PendingExpires(a) \/ StopForgotten(a)
         \/ \E s \in Sessions : OpenSession(s) \/ Foreign(s) \/ Restart(s)
         \/ Switch
         \/ SwitchRefused
  PROVE  Ownership'
<1> USE ChatRunAssumption DEF Typed, TypeOK, server, owners, client
<1>1. ASSUME NEW a \in Actions, PendingExpires(a) \/ StopForgotten(a)
      PROVE  Ownership'
  BY <1>1 DEF PendingExpires, StopForgotten, Ownership, RunOwns, Registered,
     Holds, InPlace, Active
<1>2. ASSUME NEW s \in Sessions, OpenSession(s)
      PROVE  Ownership'
  BY <1>2 DEF OpenSession, Ownership, RunOwns, Registered, Holds, InPlace, Active
<1>3. ASSUME NEW s \in Sessions, Foreign(s)
      PROVE  Ownership'
  <2>1. /\ lock[s] \in {"free", "foreign"}
        /\ \A t \in Sessions \ {s} : lock'[t] = lock[t]
        /\ UNCHANGED <<current, registry, busy, phase, own, pi>>
    BY <1>3 DEF Foreign
  <2> QED BY <2>1 DEF Ownership, RunOwns, Registered, Holds, InPlace, Active
<1>4. ASSUME NEW s \in Sessions, Restart(s)
      PROVE  Ownership'
  BY <1>4 DEF Restart, Ownership, RunOwns, Registered, Holds, InPlace, Active
<1>5. CASE Switch
  <2>1. /\ switching \in Sessions /\ lock[switching] = "free" /\ Quiet
        /\ current' = switching
        /\ lock' = [lock EXCEPT ![current] = "free", ![switching] = "server"]
        /\ UNCHANGED <<registry, busy, phase, own>>
    BY <1>5 DEF Switch
  <2>2. lock'[current'] = "server"
    BY <2>1
  <2>3. ASSUME NEW b \in Actions
        PROVE  RunOwns(b)'
    <3>1. Active(b)' => Active(b) /\ ~(own[b] /\ Home[b] = current)
      BY <1>5 DEF Switch, TearDown, Active
    <3>2. Registered(b)' /\ Holds(b)'
      BY <2>1 DEF Ownership, RunOwns, Registered, Holds
    <3>3. InPlace(b)'
      BY <2>1, <3>1 DEF Quiet, Ownership, RunOwns, InPlace
    <3> QED BY <3>2, <3>3 DEF RunOwns
  <2> QED BY <2>2, <2>3 DEF Ownership
<1>6. CASE SwitchRefused
  <2>1. UNCHANGED <<current, lock, registry, busy, phase, own>>
    BY <1>6 DEF SwitchRefused
  <2>2. \A b \in Actions : Active(b)' => Active(b)
    BY <1>6 DEF SwitchRefused, TearDown, Active
  <2> QED BY <2>1, <2>2 DEF Ownership, RunOwns, Registered, Holds, InPlace
<1> QED BY <1>1, <1>2, <1>3, <1>4, <1>5, <1>6

LEMMA OwnershipKept ==
  ASSUME Typed, Ownership, [Next]_vars
  PROVE  Ownership'
<1>1. CASE Next
  BY <1>1, OwnershipRequest, OwnershipServe, OwnershipPi, OwnershipEnvironment
     DEF Next
<1>2. CASE UNCHANGED vars
  BY <1>2 DEF Ownership, RunOwns, Registered, Holds, InPlace, Active, vars
<1> QED BY <1>1, <1>2

\* A run with a Pi session of its own holds the lock, the registry entry and
\* the busy mark of its session for as long as it may write there.
THEOREM DedicatedRunsAreOwners == Spec => []DedicatedRunsOwnTheirSession
<1>1. Init => Ownership
  BY ChatRunAssumption
     DEF Init, Ownership, RunOwns, Registered, Holds, InPlace, Active
<1>2. Typed /\ Ownership /\ [Next]_vars => Ownership'
  BY OwnershipKept
<1>3. Ownership => DedicatedRunsOwnTheirSession
  BY DEF Ownership, RunOwns, Registered, Holds, InPlace, Active,
     DedicatedRunsOwnTheirSession
<1> QED BY <1>1, <1>2, <1>3, TypedInvariant, PTL DEF Spec

----------------------------------------------------------------------------
(***************************************************************************)
(* Pending records.  Only a run that has handed its prompt to Pi has one,  *)
(* and whichever way it ends, it withdraws it or makes it an acceptance.   *)
(***************************************************************************)

\* A run of a moves on: no record is left behind it.
LEMMA RecordFollowsRun ==
  ASSUME NoStuckPending, NEW a \in Actions,
         \A b \in Actions \ {a} : phase'[b] = phase[b],
         pending' \subseteq Actions, pending' \ {a} \subseteq pending,
         a \in pending' => phase'[a] = "running" \/ crashed,
         crashed => crashed'
  PROVE  NoStuckPending'
BY DEF NoStuckPending

\* A run that has not begun has no record, unless the server crashed once.
LEMMA NoRecordBefore ==
  ASSUME NoStuckPending, NEW a \in Actions, phase[a] # "running", a \in pending
  PROVE  crashed
BY DEF NoStuckPending

LEMMA PendingServe ==
  ASSUME Typed, NoStuckPending, NEW a \in Actions, Serve(a) \/ Fails(a)
  PROVE  NoStuckPending'
<1> USE DEF Typed, TypeOK, server, store, owners
<1>1. CASE Lock(a)
  <2>1. /\ phase' = [phase EXCEPT ![a] = "creating"] /\ phase[a] = "locking"
        /\ UNCHANGED <<pending, crashed>>
    BY <1>1 DEF Lock
  <2> QED BY <2>1, NoRecordBefore, RecordFollowsRun
<1>2. CASE LockRefused(a) \/ SetupFails(a)
  <2>1. Ended(a) /\ phase[a] # "running" /\ UNCHANGED <<pending, crashed>>
    BY <1>2, RejectEnds DEF LockRefused, SetupFails
  <2> QED BY <2>1, NoRecordBefore, RecordFollowsRun DEF Ended
<1>3. CASE BeginStopped(a)
  <2>1. Ended(a) /\ phase[a] # "running" /\ UNCHANGED <<pending, crashed>>
    BY <1>3, FinishEnds DEF BeginStopped, Ready
  <2> QED BY <2>1, NoRecordBefore, RecordFollowsRun DEF Ended
<1>4. CASE BeginWithoutModel(a) \/ SettleCompleted(a)
  <2>1. Ended(a) /\ pending' = pending \ {a} /\ UNCHANGED crashed
    BY <1>4, FinishEnds DEF BeginWithoutModel, SettleCompleted, Accept
  <2> QED BY <2>1, RecordFollowsRun DEF Ended
<1>5. CASE Begin(a)
  <2>1. /\ phase' = [phase EXCEPT ![a] = "running"] /\ pending' = pending \cup {a}
        /\ UNCHANGED crashed
    BY <1>5 DEF Begin
  <2> QED BY <2>1, RecordFollowsRun
<1>6. CASE SettleStopped(a) \/ Fails(a)
  <2>1. Ended(a) /\ pending' = pending \ {a} /\ UNCHANGED crashed
    BY <1>6, FinishEnds DEF SettleStopped, Fails, ClearsPending
  <2> QED BY <2>1, RecordFollowsRun DEF Ended
<1>7. CASE Dispose(a)
  <2>1. /\ phase' = [phase EXCEPT ![a] = "none"] /\ phase[a] = "disposing"
        /\ UNCHANGED <<pending, crashed>>
    BY <1>7 DEF Dispose, Release
  <2> QED BY <2>1, NoRecordBefore, RecordFollowsRun
<1>8. CASE SetupThrows(a)
  <2>1. /\ phase' = [phase EXCEPT ![a] = "leaked"] /\ phase[a] # "running"
        /\ UNCHANGED <<pending, crashed>>
    BY <1>8 DEF SetupThrows, Ready
  <2> QED BY <2>1, NoRecordBefore, RecordFollowsRun
<1> QED
  BY <1>1, <1>2, <1>3, <1>4, <1>5, <1>6, <1>7, <1>8 DEF Serve

LEMMA PendingRest ==
  ASSUME Typed, NoStuckPending, Next,
         \A a \in Actions : ~Serve(a) /\ ~Fails(a)
  PROVE  NoStuckPending'
<1> USE DEF Typed, TypeOK, server, store
<1>1. ASSUME NEW a \in Actions, Admit(a) PROVE NoStuckPending'
  <2>1. /\ a \notin pending /\ UNCHANGED <<pending, crashed>>
        /\ \A b \in Actions \ {a} : phase'[b] = phase[b]
    BY <1>1 DEF Admit, Claim, Fresh
  <2> QED BY <2>1, RecordFollowsRun
<1>2. ASSUME NEW a \in Actions, Retry(a) \/ Stop(a) \/ StopForgotten(a)
      PROVE  NoStuckPending'
  BY <1>2 DEF Retry, Stop, StopForgotten, NoStuckPending
<1>3. ASSUME NEW a \in Actions, PiActs(a) PROVE NoStuckPending'
  <2>1. UNCHANGED <<phase, crashed>> /\ pending' \subseteq pending
    BY <1>3 DEF PiActs, PiAdmits, PiAbandons, PiReturns, StepsEnd, RecordsAdmission, Accept
  <2> QED BY <2>1 DEF NoStuckPending
<1>4. ASSUME NEW a \in Actions, PendingExpires(a) PROVE NoStuckPending'
  BY <1>4 DEF PendingExpires, NoStuckPending
<1>5. ASSUME NEW s \in Sessions, OpenSession(s) \/ Foreign(s) PROVE NoStuckPending'
  BY <1>5 DEF OpenSession, Foreign, NoStuckPending
<1>6. ASSUME NEW s \in Sessions, Restart(s) PROVE NoStuckPending'
  BY <1>6 DEF Restart, NoStuckPending
<1>7. CASE Switch \/ SwitchRefused
  BY <1>7 DEF Switch, SwitchRefused, NoStuckPending
<1> QED BY <1>1, <1>2, <1>3, <1>4, <1>5, <1>6, <1>7 DEF Next

\* Unless the server crashed, what answers a retry with "reconnecting" is a run
\* in flight, however its predecessors were refused, stopped or failed.
THEOREM PendingIsInFlight == Spec => []NoStuckPending
<1>1. Init => NoStuckPending
  BY DEF Init, NoStuckPending
<1>2. Typed /\ NoStuckPending /\ [Next]_vars => NoStuckPending'
  <2> SUFFICES ASSUME Typed, NoStuckPending, [Next]_vars
               PROVE  NoStuckPending'
    OBVIOUS
  <2>1. CASE Next
    BY <2>1, PendingServe, PendingRest
  <2>2. CASE UNCHANGED vars
    BY <2>2 DEF NoStuckPending, vars
  <2> QED BY <2>1, <2>2
<1> QED BY <1>1, <1>2, TypedInvariant, PTL DEF Spec

----------------------------------------------------------------------------
(***************************************************************************)
(* Stop.  A Stop that overtook its run waits where no run is in progress:  *)
(* the next run of its action begins with it.                              *)
(***************************************************************************)

Overtaken == \A a \in early : phase[a] = "none"

LEMMA OvertakenKept ==
  ASSUME Typed, Ownership, Overtaken, [Next]_vars
  PROVE  Overtaken'
<1> USE DEF Typed, TypeOK, server, client
<1>1. ASSUME NEW a \in Actions, Admit(a) PROVE Overtaken'
  <2>1. early' = early \ {a} /\ \A b \in Actions \ {a} : phase'[b] = phase[b]
    BY <1>1 DEF Admit, Claim, StartRun
  <2> QED BY <2>1 DEF Overtaken
<1>2. ASSUME NEW a \in Actions, Stop(a) PROVE Overtaken'
  <2>1. registry[Home[a]] # a => phase[a] = "none"
    BY DEF Ownership, RunOwns, Registered
  <2>2. phase' = phase /\ (early' = early \/ (early' = early \cup {a} /\ registry[Home[a]] # a))
    BY <1>2 DEF Stop, Cancel
  <2> QED BY <2>1, <2>2 DEF Overtaken
<1>3. ASSUME NEW a \in Actions, Serve(a) \/ Fails(a) PROVE Overtaken'
  <2>1. phase[a] # "none" /\ early' = early
    BY <1>3 DEF Serve, Lock, LockRefused, SetupFails, BeginStopped, BeginWithoutModel,
       Begin, SettleStopped, SettleCompleted, Dispose, Fails, Ready, Settles,
       SetupThrows
  <2>2. \A b \in Actions \ {a} : phase'[b] = phase[b]
    <3>1. CASE LockRefused(a) \/ SetupFails(a)
      BY <3>1, RejectEnds DEF LockRefused, SetupFails, Ended
    <3>2. CASE BeginStopped(a) \/ BeginWithoutModel(a) \/ SettleStopped(a)
                 \/ SettleCompleted(a) \/ Fails(a)
      BY <3>2, FinishEnds DEF BeginStopped, BeginWithoutModel, SettleStopped,
         SettleCompleted, Fails, Ended
    <3>3. CASE Lock(a) \/ Begin(a) \/ Dispose(a) \/ SetupThrows(a)
      BY <3>3 DEF Lock, Begin, Dispose, Release, SetupThrows
    <3> QED BY <1>3, <3>1, <3>2, <3>3 DEF Serve
  <2> QED BY <2>1, <2>2 DEF Overtaken
<1>4. ASSUME NEW a \in Actions, Retry(a) \/ PiActs(a) \/ PendingExpires(a) \/ StopForgotten(a)
      PROVE  Overtaken'
  <2>1. phase' = phase /\ early' \subseteq early
    BY <1>4 DEF Retry, PiActs, PiAdmits, PiAbandons, PiReturns, StepsEnd, PendingExpires,
       StopForgotten
  <2> QED BY <2>1 DEF Overtaken
<1>5. ASSUME NEW s \in Sessions, OpenSession(s) \/ Foreign(s) PROVE Overtaken'
  BY <1>5 DEF OpenSession, Foreign, Overtaken
<1>6. ASSUME NEW s \in Sessions, Restart(s) PROVE Overtaken'
  BY <1>6 DEF Restart, Overtaken
<1>7. CASE Switch \/ SwitchRefused
  BY <1>7 DEF Switch, SwitchRefused, Overtaken
<1>8. CASE UNCHANGED vars
  BY <1>8 DEF vars, Overtaken
<1> QED BY <1>1, <1>2, <1>3, <1>4, <1>5, <1>6, <1>7, <1>8 DEF Next

\* Only three steps of a run add to the transcript, and each looks at the Stop.
LEMMA StoppedSendsNothing ==
  ASSUME Typed, Overtaken, [Next]_vars, NEW a \in Actions, stopReq[a] \/ a \in early
  PROVE  applied'[a] = applied[a]
<1> USE DEF Typed, TypeOK
<1>1. ASSUME NEW b \in Actions, BeginWithoutModel(b) \/ Begin(b) \/ PiAdmits(b)
      PROVE  applied'[a] = applied[a]
  <2>1. ~stopReq[b] /\ phase[b] # "none"
    BY <1>1 DEF BeginWithoutModel, Begin, PiAdmits, StoppedInSetup, Ready
  <2>2. b # a
    BY <2>1 DEF Overtaken
  <2>3. applied' = applied \/ applied' = [applied EXCEPT ![b] = @ + 1]
    BY <1>1 DEF BeginWithoutModel, Begin, PiAdmits
  <2> QED BY <2>2, <2>3
<1>2. ASSUME ~ \E b \in Actions : BeginWithoutModel(b) \/ Begin(b) \/ PiAdmits(b)
      PROVE  applied' = applied
  <2>1. ASSUME NEW b \in Actions, Serve(b) \/ Fails(b) \/ PiActs(b)
        PROVE  applied' = applied
    BY <1>2, <2>1 DEF Serve, Lock, LockRefused, SetupFails, BeginStopped, SettleStopped,
       SettleCompleted, Dispose, Fails, PiActs, PiAbandons, PiReturns, StepsEnd,
       SetupThrows
  <2>2. ASSUME NEW b \in Actions,
               Admit(b) \/ Retry(b) \/ Stop(b) \/ PendingExpires(b) \/ StopForgotten(b)
        PROVE  applied' = applied
    BY <2>2 DEF Admit, Retry, Stop, PendingExpires, StopForgotten
  <2>3. ASSUME NEW s \in Sessions, OpenSession(s) \/ Foreign(s) \/ Restart(s)
        PROVE  applied' = applied
    BY <2>3 DEF OpenSession, Foreign, Restart
  <2>4. CASE Switch \/ SwitchRefused \/ UNCHANGED vars
    BY <2>4 DEF Switch, SwitchRefused, vars
  <2> QED BY <2>1, <2>2, <2>3, <2>4 DEF Next
<1> QED BY <1>1, <1>2

\* A stopped run adds nothing to the transcript any more, nor does the run a
\* Stop overtook: in setup, in the input hook, or in a command's handler.
THEOREM StopIsHeeded == Spec => StoppedRunsSendNothing
<1>1. Init => Ownership /\ Overtaken
  BY ChatRunAssumption
     DEF Init, Ownership, RunOwns, Registered, Holds, InPlace, Active, Overtaken
<1>2. Typed /\ Ownership /\ Overtaken /\ [Next]_vars => Ownership' /\ Overtaken'
  BY OwnershipKept, OvertakenKept
<1>3. Typed /\ Overtaken /\ [Next]_vars =>
        [\A a \in Actions : stopReq[a] \/ a \in early => applied'[a] = applied[a]]_vars
  BY StoppedSendsNothing
<1> QED BY <1>1, <1>2, <1>3, TypedInvariant, PTL DEF Spec, StoppedRunsSendNothing
=============================================================================
