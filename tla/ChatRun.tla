------------------------------ MODULE ChatRun ------------------------------
(***************************************************************************)
(* Chat runs of one GUI server: the admission, Stop, retry and release of  *)
(* prompts that browsers send to sessions (gui/server/http-routes.ts with  *)
(* local-session-coordinator.ts, run-cancellation.ts, session-actions.ts   *)
(* and src/pi/session-action-dedupe.ts).                                   *)
(*                                                                         *)
(* The server has one current session, whose lock it holds throughout and  *)
(* whose Pi session it shares between runs; a run in any other session     *)
(* takes that session's lock and gets a Pi session of its own.  A step is  *)
(* the JavaScript between two awaits that really wait.  Pi is external.    *)
(***************************************************************************)
EXTENDS Naturals

CONSTANTS
  Sessions,
  Actions,    \* action ids; the same id sent again is a retry
  Home,       \* the session an action is addressed to
  Commands,   \* prompts that begin with "/": Pi may run a handler, no input hook
  Workflows,  \* prompts that the input hook may turn into a workflow's prompts
  None,
  MaxTries    \* bound: how often one action id is admitted

ASSUME ChatRunAssumption ==
  /\ Home \in [Actions -> Sessions]
  /\ Commands \subseteq Actions
  /\ Workflows \subseteq Actions
  /\ None \notin Actions
  /\ None \notin Sessions
  /\ MaxTries \in [Actions -> Nat]

VARIABLES
  current,    \* the server's current session
  switching,  \* the session a browser is opening, between check and switch
  lock,       \* who holds a session's writer lock
  registry,   \* GuiRunRegistry: the run that owns a session
  busy,       \* activeRunSessionIds
  tail,       \* sessionRunTails: the run action being handled in a session
  phase,      \* where the handler of an action is
  own,        \* useCurrentSession of that run
  stopReq,    \* cancelRequested of that run
  early,      \* earlyCancels
  pi,         \* what Pi does with the prompt of an action
  accepted,   \* on disk: acceptedActionIds
  pending,    \* on disk: pendingActionIds
  tries,      \* how often an action was admitted
  applied,    \* how often its prompt entered a transcript
  waiting,    \* actions of which a second request awaits the first
  hung,       \* actions of which a second request was left without answer
  crashed     \* the server has been restarted once

vars == <<current, switching, lock, registry, busy, tail, phase, own, stopReq,
          early, pi, accepted, pending, tries, applied, waiting, hung,
          crashed>>

\* Groups of variables that most actions leave alone.
server == <<current, switching, crashed>>
owners == <<lock, registry, busy>>
store  == <<accepted, pending>>
client == <<tail, waiting, hung>>

Direct == Actions \ (Commands \cup Workflows)

\* "leaked": the handler has thrown, and nothing gives back what the run owns.
Phases ==
  {"none", "starting", "locking", "creating", "running", "disposing", "leaked"}

TypeOK ==
  /\ current \in Sessions
  /\ switching \in Sessions \cup {None}
  /\ lock \in [Sessions -> {"free", "server", "run", "foreign"}]
  /\ registry \in [Sessions -> Actions \cup {None}]
  /\ busy \subseteq Sessions
  /\ tail \in [Sessions -> Actions \cup {None}]
  /\ phase \in [Actions -> Phases]
  /\ own \in [Actions -> BOOLEAN]
  /\ stopReq \in [Actions -> BOOLEAN]
  /\ early \subseteq Actions
  /\ pi \in [Actions -> {"no", "prompt", "turn", "steps", "over"}]
  /\ accepted \subseteq Actions
  /\ pending \subseteq Actions
  /\ tries \in [Actions -> Nat]
  /\ applied \in [Actions -> Nat]
  /\ \A a \in Actions : tries[a] <= MaxTries[a]
  /\ waiting \subseteq Actions
  /\ hung \subseteq Actions
  /\ crashed \in BOOLEAN

Init ==
  /\ current \in Sessions
  /\ switching = None
  /\ lock = [s \in Sessions |-> IF s = current THEN "server" ELSE "free"]
  /\ registry = [s \in Sessions |-> None]
  /\ busy = {}
  /\ tail = [s \in Sessions |-> None]
  /\ phase = [a \in Actions |-> "none"]
  /\ own = [a \in Actions |-> FALSE]
  /\ stopReq = [a \in Actions |-> FALSE]
  /\ early = {}
  /\ pi = [a \in Actions |-> "no"]
  /\ accepted = {}
  /\ pending = {}
  /\ tries = [a \in Actions |-> 0]
  /\ applied = [a \in Actions |-> 0]
  /\ waiting = {}
  /\ hung = {}
  /\ crashed = FALSE

----------------------------------------------------------------------------
(***************************************************************************)
(* How a run ends.                                                         *)
(***************************************************************************)

\* The coordinator's handler returns: the session is open to another run
\* action.  Requests that awaited this one share its result; a handler that
\* did not accept the action throws, and they are answered nothing.
Return(a, ok) ==
  /\ tail' = [tail EXCEPT ![Home[a]] = None]
  /\ waiting' = waiting \ {a}
  /\ hung' = IF a \in waiting /\ ~ok THEN hung \cup {a} ELSE hung

\* releaseRunOwnership: registry entry, busy mark and lock go together.
Release(a) ==
  /\ registry' = [registry EXCEPT ![Home[a]] = None]
  /\ busy' = busy \ {Home[a]}
  /\ lock' = IF lock[Home[a]] = "run"
               THEN [lock EXCEPT ![Home[a]] = "free"] ELSE lock
  /\ phase' = [phase EXCEPT ![a] = "none"]
  /\ stopReq' = [stopReq EXCEPT ![a] = FALSE]

\* A run in a Pi session of its own keeps the session until that is disposed.
ReleasesAtOnce(a) == TRUE
ReleasesNow(a) == own[a]

\* The response ends; ok says whether the action was accepted.
Finish(a, ok) ==
  /\ Return(a, ok)
  /\ IF ReleasesNow(a)
       THEN Release(a)
       ELSE /\ phase' = [phase EXCEPT ![a] = "disposing"]
            /\ UNCHANGED <<owners, stopReq>>

\* Setup was rejected or threw: nothing was prompted.
RejectsOnly(a) ==
  /\ Return(a, FALSE)
  /\ phase' = [phase EXCEPT ![a] = "none"]
  /\ UNCHANGED <<owners, stopReq>>
Reject(a) ==
  /\ Return(a, FALSE)
  /\ Release(a)

Accept(a) ==
  /\ accepted' = accepted \cup {a}
  /\ pending' = pending \ {a}

\* A run that ends without acceptance withdraws its pending record.
KeepsPending(a) == UNCHANGED store
ClearsPending(a) ==
  /\ pending' = pending \ {a}
  /\ UNCHANGED accepted

----------------------------------------------------------------------------
(***************************************************************************)
(* Requests.  One that is answered at once (duplicate, syncing, busy)      *)
(* changes nothing and is no step.                                         *)
(***************************************************************************)

\* Setup in the current session awaits nothing that waits: no request comes
\* in before the prompt is handed to Pi.
Quiet == \A a \in Actions : phase[a] # "starting"

\* The action store knows nothing of the action.
Fresh(a) == a \notin accepted \cup pending

\* GuiRunRegistry.start: a Stop that came first counts for this run.
StartRun(a) ==
  /\ registry[Home[a]] = None
  /\ registry' = [registry EXCEPT ![Home[a]] = a]
  /\ stopReq' = [stopReq EXCEPT ![a] = a \in early]
  /\ early' = early \ {a}

\* The run takes the session, and the Pi session of the current one.
Claim(a) ==
  /\ Home[a] \notin busy
  /\ StartRun(a)
  /\ own' = [own EXCEPT ![a] = Home[a] = current]
  /\ phase' = [phase EXCEPT ![a] =
                 IF Home[a] = current THEN "starting" ELSE "locking"]

Admit(a) ==
  /\ Quiet
  /\ tries[a] < MaxTries[a]
  /\ Fresh(a)
  /\ tail[Home[a]] = None
  /\ Claim(a)
  /\ tail' = [tail EXCEPT ![Home[a]] = a]
  /\ tries' = [tries EXCEPT ![a] = @ + 1]
  /\ UNCHANGED <<server, lock, busy, pi, store, applied, waiting, hung>>

\* The same action again while it is being handled: the coordinator lets the
\* second request await the first.
Retry(a) ==
  /\ Quiet
  /\ tail[Home[a]] = a
  /\ Fresh(a)
  /\ waiting' = waiting \cup {a}
  /\ UNCHANGED <<server, owners, tail, phase, own, stopReq, early, pi, store,
                 tries, applied, hung>>

\* GuiRunRegistry.cancel: it names the run it means.  One that comes before
\* its run is remembered.
Cancel(a) ==
  IF registry[Home[a]] = a
    THEN stopReq' = [stopReq EXCEPT ![a] = TRUE] /\ UNCHANGED early
    ELSE early' = early \cup {a} /\ UNCHANGED stopReq

Stop(a) ==
  /\ Quiet
  /\ Cancel(a)
  /\ UNCHANGED <<server, owners, phase, own, pi, store, tries, applied, client>>

----------------------------------------------------------------------------
(***************************************************************************)
(* Setup.                                                                  *)
(***************************************************************************)

\* The lock of a session that is not the current one.
Lock(a) ==
  /\ phase[a] = "locking"
  /\ lock[Home[a]] = "free"
  /\ lock' = [lock EXCEPT ![Home[a]] = "run"]
  /\ busy' = busy \cup {Home[a]}
  /\ phase' = [phase EXCEPT ![a] = "creating"]
  /\ UNCHANGED <<server, registry, own, stopReq, early, pi, store, tries,
                 applied, client>>

LockRefused(a) ==
  /\ phase[a] = "locking"
  /\ lock[Home[a]] # "free"
  /\ Reject(a)
  /\ UNCHANGED <<server, own, early, pi, store, tries, applied>>

\* The prompt cannot be made, the storage of locks or the new session throws.
SetupFails(a) ==
  /\ phase[a] \in {"starting", "locking", "creating"}
  /\ Reject(a)
  /\ UNCHANGED <<server, own, early, pi, store, tries, applied>>

\* cancelledDuringSetup.
SeenByHookOnly(a) == stopReq[a] /\ a \notin Commands
StoppedInSetup(a) == stopReq[a]

Ready(a) == phase[a] \in {"starting", "creating"}

\* Between the two try blocks, where a new session is given its name on disk,
\* what throws ends the handler without releasing anything.
SetupThrows(a) ==
  /\ Ready(a)
  /\ Return(a, FALSE)
  /\ busy' = busy \cup {Home[a]}
  /\ phase' = [phase EXCEPT ![a] = "leaked"]
  /\ UNCHANGED <<server, lock, registry, own, stopReq, early, pi, store, tries,
                 applied>>

\* A run stopped in setup records the stop and prompts nothing.
BeginStopped(a) ==
  /\ Ready(a)
  /\ StoppedInSetup(a)
  /\ Finish(a, FALSE)
  /\ UNCHANGED <<server, own, early, pi, store, tries, applied>>

\* No model is set up: the prompt is recorded with a notice and no turn runs.
BeginWithoutModel(a) ==
  /\ Ready(a)
  /\ ~StoppedInSetup(a)
  /\ a \notin Commands
  /\ Accept(a)
  /\ applied' = [applied EXCEPT ![a] = @ + 1]
  /\ Finish(a, TRUE)
  /\ UNCHANGED <<server, own, early, pi, tries>>

\* The prompt is handed to Pi.  A command's handler dispatches its workflow
\* before prompt() returns; one that names no command goes to the model.
Begin(a) ==
  /\ Ready(a)
  /\ ~StoppedInSetup(a)
  /\ pending' = pending \cup {a}
  /\ busy' = busy \cup {Home[a]}
  /\ phase' = [phase EXCEPT ![a] = "running"]
  /\ \/ /\ a \in Commands
        /\ pi' = [pi EXCEPT ![a] = "steps"]
        /\ applied' = [applied EXCEPT ![a] = @ + 1]
     \/ pi' = [pi EXCEPT ![a] = "prompt"] /\ UNCHANGED applied
  /\ UNCHANGED <<server, lock, registry, own, stopReq, early, accepted, tries,
                 client>>

----------------------------------------------------------------------------
(***************************************************************************)
(* Pi: the input hook, the turn, the steps of a workflow.                  *)
(***************************************************************************)

\* Another turn is running in the Pi session this run would use.
Occupied(a) ==
  own[a] /\ \E b \in Actions \ {a} :
              own[b] /\ Home[b] = Home[a] /\ pi[b] = "turn"

\* What the run sees of its own prompt: a user message with its very text is
\* the admission, a workflow's prompt is not.
RecordsLater(a) == UNCHANGED store
RecordsAdmission(a) == IF a \in Direct THEN Accept(a) ELSE UNCHANGED store

\* A prompt is sent until Pi has taken it.
UnsentUntilAnswered(a) == pi[a] \in {"prompt", "turn"}
Unsent(a) == pi[a] = "prompt"

\* The hook looks at the run's token once more after routing; then the user
\* message enters the transcript.
PiAdmits(a) ==
  /\ phase[a] = "running"
  /\ Unsent(a)
  /\ ~stopReq[a]
  /\ ~Occupied(a)
  /\ \/ pi' = [pi EXCEPT ![a] = "turn"]
     \/ a \in Workflows /\ pi' = [pi EXCEPT ![a] = "steps"]
  /\ applied' = [applied EXCEPT ![a] = @ + 1]
  /\ RecordsAdmission(a)
  /\ UNCHANGED <<server, owners, phase, own, stopReq, early, tries, client>>

\* A stopped turn is abandoned in the hook.
PiAbandons(a) ==
  /\ pi[a] = "prompt"
  /\ stopReq[a]
  /\ pi' = [pi EXCEPT ![a] = "over"]
  /\ UNCHANGED <<server, owners, phase, own, stopReq, early, store, tries,
                 applied, client>>

\* The turn ends; a workflow goes on with its steps.
PiReturns(a) ==
  /\ pi[a] = "turn"
  /\ \/ pi' = [pi EXCEPT ![a] = "over"]
     \/ a \in Workflows /\ ~stopReq[a] /\ pi' = [pi EXCEPT ![a] = "steps"]
  /\ UNCHANGED <<server, owners, phase, own, stopReq, early, store, tries,
                 applied, client>>

StepsEnd(a) ==
  /\ pi[a] = "steps"
  /\ pi' = [pi EXCEPT ![a] = "over"]
  /\ UNCHANGED <<server, owners, phase, own, stopReq, early, store, tries,
                 applied, client>>

----------------------------------------------------------------------------
(***************************************************************************)
(* The end of a run.                                                       *)
(***************************************************************************)

\* Mutant: the wait ends with an entry of the run's own prompt, which a run that
\* was stopped in the hook never has.
SettlesWithEntry(a) ==
  phase[a] = "running" /\ pi[a] \in {"steps", "over"} /\ applied[a] > 0

\* prompt() has returned and the session was idle for the grace period,
\* between two steps of a workflow perhaps.
Settles(a) == phase[a] = "running" /\ pi[a] \in {"steps", "over"}

SettleStopped(a) ==
  /\ Settles(a)
  /\ stopReq[a]
  /\ ClearsPending(a)
  /\ Finish(a, a \in accepted)
  /\ UNCHANGED <<server, own, early, pi, tries, applied>>

SettleCompleted(a) ==
  /\ Settles(a)
  /\ ~stopReq[a]
  /\ Accept(a)
  /\ Finish(a, TRUE)
  /\ UNCHANGED <<server, own, early, pi, tries, applied>>

\* prompt() rejected, or the wait that follows it timed out.
Fails(a) ==
  /\ phase[a] = "running"
  /\ ClearsPending(a)
  /\ Finish(a, a \in accepted)
  /\ pi' = [pi EXCEPT ![a] = IF @ \in {"prompt", "turn"} THEN "over" ELSE @]
  /\ UNCHANGED <<server, own, early, tries, applied>>

\* The Pi session of its own has settled, or made no progress for too long.
Dispose(a) ==
  /\ phase[a] = "disposing"
  /\ pi' = [pi EXCEPT ![a] = IF @ = "no" THEN @ ELSE "over"]
  /\ Release(a)
  /\ UNCHANGED <<server, own, early, store, tries, applied, client>>

----------------------------------------------------------------------------
(***************************************************************************)
(* Opening another session, other processes, time, and restarts.           *)
(***************************************************************************)

\* isCurrentSessionBusy: a run's token, or Pi streaming.
CurrentIsBusy ==
  \E a \in Actions :
    /\ own[a] /\ Home[a] = current
    /\ phase[a] \in {"starting", "running", "leaked"} \/ pi[a] = "turn"

OpenSession(s) ==
  /\ Quiet
  /\ switching = None
  /\ s # current
  /\ ~CurrentIsBusy
  /\ switching' = s
  /\ UNCHANGED <<current, crashed, owners, phase, own, stopReq, early, pi,
                 store, tries, applied, client>>

\* The runtime tears the Pi session down that its runs used.
TearDown ==
  pi' = [a \in Actions |->
           IF own[a] /\ Home[a] = current /\ pi[a] # "no" THEN "over" ELSE pi[a]]

\* The server takes the lock of the next session before it releases the old.
Switch ==
  /\ switching # None
  /\ lock[switching] = "free"
  /\ Quiet
  /\ current' = switching
  /\ switching' = None
  /\ lock' = [lock EXCEPT ![current] = "free", ![switching] = "server"]
  /\ TearDown
  /\ UNCHANGED <<crashed, registry, busy, phase, own, stopReq, early, store,
                 tries, applied, client>>

SwitchRefused ==
  /\ switching # None
  /\ lock[switching] # "free"
  /\ Quiet
  /\ switching' = None
  /\ TearDown
  /\ UNCHANGED <<current, crashed, owners, phase, own, stopReq, early, store,
                 tries, applied, client>>

\* Another process takes or gives up a session.
Foreign(s) ==
  /\ \/ lock[s] = "free" /\ lock' = [lock EXCEPT ![s] = "foreign"]
     \/ lock[s] = "foreign" /\ lock' = [lock EXCEPT ![s] = "free"]
  /\ UNCHANGED <<server, registry, busy, phase, own, stopReq, early, pi, store,
                 tries, applied, client>>

\* Two minutes after it was written a pending record no longer counts.
PendingExpires(a) ==
  /\ a \in pending
  /\ pending' = pending \ {a}
  /\ UNCHANGED <<server, owners, phase, own, stopReq, early, pi, accepted, tries,
                 applied, client>>

StopForgotten(a) ==
  /\ a \in early
  /\ early' = early \ {a}
  /\ UNCHANGED <<server, owners, phase, own, stopReq, pi, store, tries, applied,
                 client>>

\* The server dies and is started again on some session; only the files of
\* the action store survive.
Restart(s) ==
  /\ ~crashed
  /\ lock[s] # "foreign"
  /\ crashed' = TRUE
  /\ current' = s
  /\ switching' = None
  /\ lock' = [t \in Sessions |->
                IF t = s THEN "server"
                ELSE IF lock[t] = "foreign" THEN "foreign" ELSE "free"]
  /\ registry' = [t \in Sessions |-> None]
  /\ busy' = {}
  /\ tail' = [t \in Sessions |-> None]
  /\ phase' = [a \in Actions |-> "none"]
  /\ own' = [a \in Actions |-> FALSE]
  /\ stopReq' = [a \in Actions |-> FALSE]
  /\ early' = {}
  /\ pi' = [a \in Actions |-> "no"]
  /\ waiting' = {}
  /\ UNCHANGED <<store, tries, applied, hung>>

----------------------------------------------------------------------------
\* What the server does on its own account.
Serve(a) ==
  \/ Lock(a) \/ LockRefused(a) \/ SetupFails(a) \/ SetupThrows(a)
  \/ BeginStopped(a) \/ BeginWithoutModel(a) \/ Begin(a)
  \/ SettleStopped(a) \/ SettleCompleted(a)
  \/ Dispose(a)

PiActs(a) == PiAdmits(a) \/ PiAbandons(a) \/ PiReturns(a) \/ StepsEnd(a)

Next ==
  \/ \E a \in Actions :
       \/ Admit(a) \/ Retry(a) \/ Stop(a)
       \/ Serve(a) \/ Fails(a) \/ PiActs(a)
       \/ PendingExpires(a) \/ StopForgotten(a)
  \/ \E s \in Sessions : OpenSession(s) \/ Foreign(s) \/ Restart(s)
  \/ Switch
  \/ SwitchRefused

Spec == Init /\ [][Next]_vars

\* The server runs.
LiveSpec == Spec /\ \A a \in Actions : WF_vars(Serve(a))

\* What liveness may ask of Pi: that it honours an abort, or that every
\* prompt() returns or throws.
PiHonoursAborts == \A a \in Actions : WF_vars(stopReq[a] /\ PiActs(a))
PromptsReturn == \A a \in Actions : WF_vars(PiActs(a) \/ Fails(a))
----------------------------------------------------------------------------
(***************************************************************************)
(* Safety.                                                                 *)
(***************************************************************************)

\* A prompt that the model answers as it stands enters the transcript at most
\* once, however often its action is sent again, whether the run is stopped,
\* fails or dies with the server, and after its pending record has expired:
\* the run records the acceptance when it sees its own user message.
AppliedOnce == \A a \in Direct : applied[a] <= 1

\* A pending record, which answers every retry with "reconnecting", belongs to
\* a run in flight; only a crash leaves one behind.
NoStuckPending ==
  \A a \in pending : phase[a] = "running" \/ crashed

\* As long as a run with a Pi session of its own may still write to the
\* session - its response may have ended long ago - it holds the session's
\* writer lock, registry entry and busy mark, all three.
DedicatedRunsOwnTheirSession ==
  \A a \in Actions :
    ~own[a] /\ (phase[a] \in {"creating", "running"}
                  \/ pi[a] \in {"prompt", "turn", "steps"})
      => /\ registry[Home[a]] = a
         /\ Home[a] \in busy
         /\ lock[Home[a]] = "run"

\* A stopped run adds no prompt to the transcript, and neither does one whose
\* Stop overtook it: slash commands, which pass no input hook, included.
StoppedRunsSendNothing ==
  [][\A a \in Actions :
       stopReq[a] \/ a \in early => applied'[a] = applied[a]]_vars

(***************************************************************************)
(* Liveness.                                                               *)
(***************************************************************************)

\* Whatever is refused or throws in the setup that the code guards, and whatever
\* goes wrong in the run, the session is released: it is not wedged on "Session
\* already has an active run".  Only what throws between the two, SetupThrows,
\* leaves it so (OwnershipNeverLeaks).
Released ==
  PromptsReturn =>
    \A a \in Actions :
      registry[Home[a]] = a ~> (registry[Home[a]] # a \/ phase[a] = "leaked")

\* A run stopped while it is set up, in the input hook, in its turn or between
\* steps ends and gives its session back, even where a run left alone would go on
\* for ever; but for SetupThrows, as in Released.
StopReleases ==
  PiHonoursAborts =>
    \A a \in Actions : stopReq[a] ~> (~stopReq[a] \/ phase[a] = "leaked")

(***************************************************************************)
(* What the documents and comments say, and the code does not do.          *)
(***************************************************************************)

\* spec.md: a prompt retried with the same action id is applied at most once.
AppliedAtMostOnce == \A a \in Actions : applied[a] <= 1

\* http-routes.ts: any unsuccessful exit after the run was registered, any setup
\* throw included, can never leak ownership and wedge the session.
OwnershipNeverLeaks ==
  \A a \in Actions : registry[Home[a]] = a => phase[a] \notin {"none", "leaked"}

\* session-actions.ts: opening a session must not abort a live run, so a run
\* in the current session never loses it.
RunsKeepTheirSession ==
  \A a \in Actions : own[a] /\ phase[a] = "running" => Home[a] = current

\* spec.md: a retried action is answered with the accepted result.
EveryRetryIsAnswered == hung = {}
=============================================================================
