---------------------------- MODULE TuiEndpoint ----------------------------
(***************************************************************************)
(* One session between two programs: the terminal, whose endpoint runs the *)
(* prompts that are forwarded to it (src/pi/tui-session-coordinator.ts,    *)
(* src/cli-main.ts), and the GUI server, which forwards a prompt to the    *)
(* live owner of the session and otherwise takes the lock and runs it      *)
(* itself (gui/server/http-routes.ts).  They share the session's writer    *)
(* lock and its action store, two files.                                   *)
(*                                                                         *)
(* A step is the JavaScript of one program between two awaits.  Pi is      *)
(* external, as is the fetch between the programs.  The GUI's own side of  *)
(* a run (Stop, early Stops, its current session) is module ChatRun's.     *)
(***************************************************************************)
EXTENDS Naturals, FiniteSets

CONSTANTS
  Direct,       \* prompts the model answers as they stand
  Transformed,  \* prompts that the input hook turns into a workflow's prompts
  MaxTries,     \* bound: how often an action is admitted, all together
  MaxStarts,    \* bound: how often the terminal is started
  MaxSwitches   \* bound: how often the terminal opens another session

ASSUME TuiEndpointAssumption ==
  /\ Direct \cap Transformed = {}
  /\ MaxTries \in Nat /\ MaxStarts \in Nat /\ MaxSwitches \in Nat

Actions == Direct \cup Transformed
Places == {"tui", "gui"}

VARIABLES
  lock,      \* whose the session's lock file is; "dead": of a terminal that died
  life,      \* the terminal
  shown,     \* activeSessionManager is this session's
  loaded,    \* runtime.session is this session's
  moving,    \* the rebind that follows a change of runtime.session is awaited
  typed,     \* the terminal's own user has a turn running or queued
  phase,     \* per program, where the handler of an action is
  pi,        \* per program, what Pi does with its prompt; "no" for a run whose Pi
             \* session is gone
  astray,    \* forwarded runs whose prompt went to another session's Pi
  recorded,  \* per program, actionAccepted of the run
  accepted,  \* on disk: acceptedActionIds
  pending,   \* on disk: pendingActionIds
  asked,     \* actions of which a browser's request awaits the terminal's answer
  tries,     \* how often an action was admitted
  applied,   \* how often its prompt entered this session's transcript
  doubt,     \* history: actions the GUI ran on a look at the store of before a
             \* wait for a dead owner's lock, or while the terminal was leaving
  starts, switches, crashed

terminal == <<life, shown, loaded, moving, typed, starts, switches, crashed>>
store == <<accepted, pending>>
vars == <<lock, terminal, phase, pi, astray, recorded, store, asked, tries, applied,
          doubt>>

TypeOK ==
  /\ lock \in {"free", "tui", "gui", "dead"}
  /\ life \in {"down", "starting", "ready", "leaving"}
  /\ shown \in BOOLEAN /\ loaded \in BOOLEAN /\ moving \in BOOLEAN /\ typed \in BOOLEAN
  /\ phase \in [Places -> [Actions -> {"none", "locking", "prompting", "settling", "disposing"}]]
  /\ pi \in [Places -> [Actions -> {"no", "prompt", "turn", "steps", "over"}]]
  /\ recorded \in [Places -> SUBSET Actions]
  /\ astray \subseteq Actions
  /\ accepted \subseteq Actions /\ pending \subseteq Actions
  /\ asked \subseteq Actions /\ doubt \subseteq Actions
  /\ tries \in 0..MaxTries /\ applied \in [Actions -> Nat]
  /\ starts \in 0..MaxStarts /\ switches \in 0..MaxSwitches /\ crashed \in BOOLEAN

Init ==
  /\ lock = "free" /\ life = "down"
  /\ shown = TRUE /\ loaded = TRUE /\ moving = FALSE /\ typed = FALSE
  /\ phase = [p \in Places |-> [a \in Actions |-> "none"]]
  /\ pi = [p \in Places |-> [a \in Actions |-> "no"]]
  /\ recorded = [p \in Places |-> {}] /\ astray = {}
  /\ accepted = {} /\ pending = {} /\ asked = {} /\ doubt = {}
  /\ tries = 0 /\ applied = [a \in Actions |-> 0]
  /\ starts = 0 /\ switches = 0 /\ crashed = FALSE

To(f, p, a, v) == [f EXCEPT ![p][a] = v]

-----------------------------------------------------------------------------
(***************************************************************************)
(* What both programs do with a run.                                       *)
(***************************************************************************)

Live == {"prompt", "turn", "steps"}

\* The action store knows nothing of the action.
Fresh(a) == a \notin accepted \cup pending

Accept(a) == accepted' = accepted \cup {a} /\ pending' = pending \ {a}

\* A run that ends without having seen its prompt admitted withdraws its record.
KeepsPending(p, a) == UNCHANGED store
Withdraw(p, a) ==
  /\ pending' = IF a \in recorded[p] THEN pending ELSE pending \ {a}
  /\ UNCHANGED accepted

\* A turn is going on in the Pi session this prompt was given to.
Streaming(p) ==
  \/ p = "tui" /\ typed
  \/ \E b \in Actions : pi[p][b] = "turn"

\* What a run sees of its own prompt: a user message with its very text.
RecordsAtTheEnd(p, a) == UNCHANGED <<store, recorded>>
RecordsAdmission(p, a) ==
  IF a \in Direct
    THEN Accept(a) /\ recorded' = [recorded EXCEPT ![p] = @ \cup {a}]
    ELSE UNCHANGED <<store, recorded>>

\* The prompt is not in this session's Pi.
Astray(p, a) == p = "tui" /\ a \in astray

\* The hook has routed the prompt, and its message enters the transcript.
PiAdmits(p, a) ==
  /\ pi[p][a] = "prompt"
  /\ ~Streaming(p)
  /\ pi' = To(pi, p, a, "turn")
  /\ applied' = IF Astray(p, a) THEN applied ELSE [applied EXCEPT ![a] = @ + 1]
  /\ RecordsAdmission(p, a)
  /\ UNCHANGED <<lock, terminal, phase, astray, asked, tries, doubt>>

\* The turn ends; a workflow goes on with its steps, and stops after some.
PiReturns(p, a) ==
  /\ \/ pi[p][a] = "turn" /\ pi' = To(pi, p, a, IF a \in Direct THEN "over" ELSE "steps")
     \/ pi[p][a] = "steps" /\ pi' = To(pi, p, a, "over")
  /\ UNCHANGED <<lock, terminal, phase, astray, recorded, store, asked, tries, applied, doubt>>

\* prompt() returns, and the run waits for the session to be idle.
PromptReturns(p, a) ==
  /\ phase[p][a] = "prompting" /\ pi[p][a] \in {"steps", "over", "no"}
  /\ phase' = To(phase, p, a, "settling")
  /\ UNCHANGED <<lock, terminal, pi, astray, recorded, store, asked, tries, applied, doubt>>

\* The handler returns.  The terminal's answers the request; the GUI's own run
\* keeps the lock until its Pi session is disposed of.
End(p, a) ==
  /\ phase' = To(phase, p, a, IF p = "tui" THEN "none" ELSE "disposing")
  /\ asked' = IF p = "tui" THEN asked \ {a} ELSE asked
  /\ recorded' = [recorded EXCEPT ![p] = @ \ {a}]

\* The run's Pi session is idle, between two steps of a workflow perhaps, or gone.
Settle(p, a) ==
  /\ phase[p][a] = "settling" /\ (pi[p][a] = "no" \/ ~Streaming(p))
  /\ Accept(a)
  /\ End(p, a)
  /\ UNCHANGED <<lock, terminal, pi, astray, tries, applied, doubt>>

\* prompt() is rejected: Pi refuses, is busy with another turn, or was torn down.
Fails(p, a) ==
  /\ phase[p][a] = "prompting" /\ pi[p][a] \in {"prompt", "turn", "no"}
  /\ pi' = To(pi, p, a, IF pi[p][a] = "no" THEN "no" ELSE "over")
  /\ Withdraw(p, a)
  /\ End(p, a)
  /\ UNCHANGED <<lock, terminal, astray, tries, applied, doubt>>

\* The wait is given up, two minutes after prompt() returned.  The turn that
\* is running, of a workflow or of the terminal's user, goes on.
WaitsForEver(p, a) == FALSE
GivesUp(p, a) == pi[p][a] = "steps" \/ (pi[p][a] # "no" /\ Streaming(p))
TimesOut(p, a) ==
  /\ phase[p][a] = "settling" /\ GivesUp(p, a)
  /\ Withdraw(p, a)
  /\ End(p, a)
  /\ UNCHANGED <<lock, terminal, pi, astray, tries, applied, doubt>>

\* Two minutes after it was written a pending record no longer counts.
PendingExpires(a) ==
  /\ a \in pending
  /\ pending' = pending \ {a}
  /\ UNCHANGED <<lock, terminal, phase, pi, astray, recorded, accepted, asked, tries,
                 applied, doubt>>

\* recordPendingSessionAction, then the prompt is handed to Pi.
Prompts(p, a) ==
  /\ pending' = IF a \in accepted THEN pending ELSE pending \cup {a}
  /\ phase' = To(phase, p, a, "prompting")
  /\ pi' = To(pi, p, a, "prompt")

-----------------------------------------------------------------------------
(***************************************************************************)
(* The endpoint.  A request that is answered at once (duplicate, syncing,  *)
(* starting, busy, another session) changes nothing and is no step.        *)
(***************************************************************************)

\* The endpoint is up, of this session, and not at work.
Admits(a) ==
  /\ lock = "tui" /\ life = "ready" /\ shown
  /\ tries < MaxTries
  /\ Fresh(a)
  /\ \A b \in Actions : phase["tui"][b] = "none"
  /\ ~Streaming("tui")

\* The GUI forwards a prompt.  It is handed to the Pi session the terminal's
\* runtime has now.
Forward(a) ==
  /\ Admits(a)
  /\ Prompts("tui", a)
  /\ tries' = tries + 1
  /\ asked' = asked \cup {a}
  /\ astray' = IF loaded THEN astray \ {a} ELSE astray \cup {a}
  /\ UNCHANGED <<lock, terminal, recorded, accepted, applied, doubt>>

\* No model is set up: the prompt is recorded with a notice, and no turn runs.
ForwardWithoutModel(a) ==
  /\ Admits(a)
  /\ tries' = tries + 1
  /\ applied' = [applied EXCEPT ![a] = @ + 1]
  /\ Accept(a)
  /\ UNCHANGED <<lock, terminal, phase, pi, astray, recorded, asked, doubt>>

\* The connection between the programs breaks, or nothing came through it for
\* so long that the GUI's fetch gives up: the terminal's run goes on.
ForwardBreaks(a) ==
  /\ a \in asked
  /\ asked' = asked \ {a}
  /\ UNCHANGED <<lock, terminal, phase, pi, astray, recorded, store, tries, applied, doubt>>

-----------------------------------------------------------------------------
(***************************************************************************)
(* The terminal.                                                           *)
(***************************************************************************)

\* The handlers the terminal is in the middle of are over.
TuiForgets ==
  /\ phase' = [phase EXCEPT !["tui"] = [a \in Actions |-> "none"]]
  /\ pi' = [pi EXCEPT !["tui"] = [a \in Actions |-> "no"]]
  /\ recorded' = [recorded EXCEPT !["tui"] = {}]
  /\ astray' = {}
  /\ asked' = {}

\* It opens the session if nobody alive has its lock, and listens before its
\* runtime is there.
Start ==
  /\ life = "down" /\ starts < MaxStarts
  /\ lock \in {"free", "dead"}
  /\ lock' = "tui"
  /\ life' = "starting" /\ starts' = starts + 1
  /\ shown' = TRUE /\ loaded' = TRUE /\ moving' = FALSE
  /\ UNCHANGED <<typed, switches, crashed, phase, pi, astray, recorded, store, asked, tries,
                 applied, doubt>>

Started ==
  /\ life = "starting"
  /\ life' = "ready"
  /\ UNCHANGED <<lock, shown, loaded, moving, typed, starts, switches, crashed, phase, pi,
                 astray, recorded, store, asked, tries, applied, doubt>>

\* The terminal's own user: a prompt typed during a turn is queued.
UserTypes ==
  /\ life = "ready" /\ ~typed
  /\ typed' = TRUE
  /\ UNCHANGED <<lock, life, shown, loaded, moving, starts, switches, crashed, phase, pi,
                 astray, recorded, store, asked, tries, applied, doubt>>
TypedTurnEnds ==
  /\ typed
  /\ typed' = FALSE
  /\ UNCHANGED <<lock, life, shown, loaded, moving, starts, switches, crashed, phase, pi,
                 astray, recorded, store, asked, tries, applied, doubt>>

\* The user opens another session, or comes back.  Pi ends what ran in the old
\* one and calls the rebind, which awaits the other session's lock.
SwitchSession ==
  /\ life = "ready" /\ ~moving /\ switches < MaxSwitches
  /\ switches' = switches + 1
  /\ loaded' = ~loaded /\ typed' = FALSE
  /\ moving' = TRUE
  /\ pi' = [pi EXCEPT !["tui"] = [a \in Actions |-> "no"]]
  /\ UNCHANGED <<lock, life, shown, starts, crashed, phase, astray, recorded, store, asked,
                 tries, applied, doubt>>

\* The lock of the next session is taken before that of the old one is released.
Rebind ==
  /\ life = "ready" /\ moving
  /\ moving' = FALSE
  /\ \/ loaded = shown /\ UNCHANGED <<lock, shown>>
     \/ ~loaded /\ shown /\ lock' = (IF lock = "tui" THEN "free" ELSE lock) /\ shown' = FALSE
     \/ loaded /\ ~shown /\ lock \in {"free", "dead"} /\ lock' = "tui" /\ shown' = TRUE
  /\ UNCHANGED <<life, loaded, typed, starts, switches, crashed, phase, pi, astray, recorded,
                 store, asked, tries, applied, doubt>>

\* Another program has the next session: the rebind throws, and the runtime has
\* left the old session already.
RebindRefused ==
  /\ life = "ready" /\ moving /\ loaded # shown
  /\ loaded => lock = "gui"
  /\ moving' = FALSE
  /\ UNCHANGED <<lock, life, shown, loaded, typed, starts, switches, crashed, phase, pi, astray,
                 recorded, store, asked, tries, applied, doubt>>

\* The terminal is closed: its lock is released, then the endpoint is closed,
\* which waits for the requests it is serving, then the runtime is disposed of.
Leave ==
  /\ life = "ready" /\ ~moving
  /\ life' = "leaving"
  /\ lock' = IF shown /\ lock = "tui" THEN "free" ELSE lock
  /\ UNCHANGED <<shown, loaded, moving, typed, starts, switches, crashed, phase, pi, astray,
                 recorded, store, asked, tries, applied, doubt>>
Left ==
  /\ life = "leaving"
  /\ \A a \in Actions : phase["tui"][a] = "none"
  /\ life' = "down" /\ typed' = FALSE
  /\ TuiForgets
  /\ UNCHANGED <<lock, shown, loaded, moving, starts, switches, crashed, store, tries, applied,
                 doubt>>

Crash ==
  /\ life # "down"
  /\ life' = "down" /\ typed' = FALSE /\ moving' = FALSE /\ crashed' = TRUE
  /\ lock' = IF lock = "tui" THEN "dead" ELSE lock
  /\ TuiForgets
  /\ UNCHANGED <<shown, loaded, starts, switches, store, tries, applied, doubt>>

-----------------------------------------------------------------------------
(***************************************************************************)
(* The GUI server, where nobody alive owns the session.                    *)
(***************************************************************************)

Doubtful(a) == IF life = "leaving" THEN doubt \cup {a} ELSE doubt

\* The store is looked at, and then the lock of the session is taken: at once if
\* there is none, after the grace period if it is a dead process's.
RunLocally(a) ==
  /\ lock \in {"free", "dead"}
  /\ tries < MaxTries
  /\ Fresh(a)
  /\ \A b \in Actions : phase["gui"][b] = "none"
  /\ tries' = tries + 1
  /\ IF lock = "free"
       THEN /\ lock' = "gui" /\ Prompts("gui", a)
            /\ doubt' = Doubtful(a)
       ELSE /\ phase' = To(phase, "gui", a, "locking")
            /\ UNCHANGED <<lock, pi, pending, doubt>>
  /\ UNCHANGED <<terminal, astray, recorded, accepted, asked, applied>>

LookAgain(a) ==
  /\ phase["gui"][a] = "locking"
  /\ IF lock \in {"free", "dead"}
       THEN /\ lock' = "gui" /\ Prompts("gui", a)
            /\ doubt' = doubt \cup {a}
       ELSE /\ phase' = To(phase, "gui", a, "none")
            /\ UNCHANGED <<lock, pi, pending, doubt>>
  /\ UNCHANGED <<terminal, astray, recorded, accepted, asked, tries, applied>>

\* The run's own Pi session has settled, or made no progress for too long; it is
\* disposed of, and the lock is released.
LeavesPi(a) == UNCHANGED pi
DisposesOfPi(a) == pi' = To(pi, "gui", a, "over")
Dispose(a) ==
  /\ phase["gui"][a] = "disposing"
  /\ DisposesOfPi(a)
  /\ phase' = To(phase, "gui", a, "none")
  /\ lock' = "free"
  /\ UNCHANGED <<terminal, astray, recorded, store, asked, tries, applied, doubt>>

-----------------------------------------------------------------------------
PiActs(p, a) == PiAdmits(p, a) \/ PiReturns(p, a)
Serve(p, a) == PromptReturns(p, a) \/ Settle(p, a) \/ TimesOut(p, a)

Next ==
  \/ \E a \in Actions :
       \/ Forward(a) \/ ForwardWithoutModel(a) \/ ForwardBreaks(a)
       \/ RunLocally(a) \/ LookAgain(a) \/ Dispose(a)
       \/ PendingExpires(a)
       \/ \E p \in Places : PiActs(p, a) \/ Serve(p, a) \/ Fails(p, a)
  \/ Start \/ Started \/ Leave \/ Left \/ Crash
  \/ UserTypes \/ TypedTurnEnds
  \/ SwitchSession \/ Rebind \/ RebindRefused

Spec == Init /\ [][Next]_vars

\* The terminal's timers fire and its callbacks run.
LiveSpec == Spec /\ \A a \in Actions : WF_vars(Serve("tui", a))

\* Asked of Pi: every prompt() returns or throws.  Turns and workflows that go on
\* after it may take for ever.
PromptsReturn ==
  \A a \in Actions :
    WF_vars(phase["tui"][a] = "prompting" /\ (PiActs("tui", a) \/ Fails("tui", a)))
-----------------------------------------------------------------------------
(* Properties *)

\* A prompt sent again with the same action id - forwarded, forwarded again after the
\* connection broke, run by the GUI after the terminal died or left - enters
\* the transcript once, but for the runs the GUI began in doubt.
NotRepeated == \A a \in Direct \ doubt : applied[a] <= 1

\* The program that may still write a run's turns into the session has its lock,
\* whatever the terminal's user opens or is refused meanwhile.  Two kinds of run
\* of the terminal are left out: those of a terminal that is leaving, which gives
\* the lock back before they end (TuiEndpoint_exit.cfg), and those that went
\* astray, which write into the session opened since.
RunsHoldTheirLock ==
  \A a \in Actions :
    /\ pi["gui"][a] \in Live => lock = "gui"
    /\ pi["tui"][a] \in Live /\ ~Astray("tui", a) => lock = "tui" \/ life = "leaving"

\* A pending record, which answers every retry with "reconnecting", belongs to a
\* run in flight in one of the programs, or the terminal died.
NoStuckPending ==
  \A a \in pending : crashed \/ \E p \in Places : phase[p][a] \in {"prompting", "settling"}

\* A forwarded prompt gets its answer even if the session never comes to rest: the
\* terminal's user or a workflow keeps it busy.
ForwardsAreAnswered ==
  PromptsReturn => \A a \in Actions : a \in asked ~> a \notin asked

-----------------------------------------------------------------------------
(* What the documents say, and the code does not do. *)

\* spec.md: an action retried with the same action id is applied at most once.
AppliedOnce == \A a \in Direct : applied[a] <= 1

\* spec.md: forwarding is evaluated against the target session's identity.
PromptsReachTheirSession == astray = {}

\* spec.md: it does not create a competing writer for the same session.
OneProgramRuns ==
  \A a, b \in Actions : ~(pi["gui"][a] \in Live /\ pi["tui"][b] \in Live /\ b \notin astray)
=============================================================================
