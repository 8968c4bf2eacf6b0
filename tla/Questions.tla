----------------------------- MODULE Questions -----------------------------
(***************************************************************************)
(* Questions to the user in a GUI server, and the runs that ask them: chat *)
(* runs, whose tools and tool_result hook ask, and direct tool runs, which *)
(* the user starts without the model (gui/server/invoke-tool.ts).  A       *)
(* question is a promise in the bridge (gui/shared/ask-user-bridge.ts)     *)
(* that an answer, a cancellation or a Stop settles.                       *)
(*                                                                         *)
(* Of a chat run this module keeps what decides when it asks and ends;     *)
(* setup, early Stops, acceptance and retries are module ChatRun's.  A     *)
(* direct run is its own tool call.  A step is the JavaScript between two  *)
(* awaits that really wait.  Pi is external.                               *)
(***************************************************************************)
EXTENDS Naturals

CONSTANTS
  Sessions,
  Chats,       \* chat runs, one per session: what two do to each other is ChatRun's
  Tools,       \* direct tool runs, named by their action ids
  Home,        \* the session a run is addressed to
  Calls,       \* tool calls of the model
  Of,          \* the chat run of a call
  Workflows,   \* chats whose workflow goes on with another turn
  Unrecorded,  \* direct runs that leave no transcript (recordTranscript is false)
  None,
  MaxTries     \* bound: how often a run is admitted

Runs == Chats \cup Tools
Askers == Calls \cup Tools

ASSUME QuestionsAssumption ==
  /\ Chats \cap Tools = {}
  /\ Calls \cap Tools = {}
  /\ Home \in [Runs -> Sessions]
  /\ Of \in [Calls -> Chats]
  /\ Workflows \subseteq Chats
  /\ Unrecorded \subseteq Tools
  /\ \A c, d \in Chats : Home[c] = Home[d] => c = d
  /\ None \notin Runs
  /\ MaxTries \in [Runs -> Nat]

VARIABLES
  current,   \* the server's current session
  lock,      \* who holds a session's writer lock
  tail,      \* sessionRunTails: the run action being handled in a session
  registry,  \* GuiRunRegistry: the chat run that owns a session
  phase,     \* where the handler of a run is
  own,       \* useCurrentSession of that run
  stop,      \* cancelRequested of that chat run; its tools' signal is aborted
  turn,      \* what Pi does for a chat run: its first turn, a later one, or none
             \* between two steps of a workflow ("gap") and after all ("off")
  call,      \* how far a tool call or direct run is; "asking" and "hooking" are
             \* the calls of which the bridge holds a question, of the tool itself
             \* or of the tool_result hook
  late,      \* history: calls whose hook asked after the Stop of their run
  accepted,  \* on disk: acceptedActionIds
  pending,   \* on disk: pendingActionIds
  ran,       \* how often the tool of a direct run was executed
  tries,     \* how often a run was admitted
  crashed    \* the server has been restarted once

chat == <<registry, stop, turn>>
store == <<accepted, pending>>
vars == <<current, lock, tail, phase, own, chat, call, late, store, ran, tries,
          crashed>>

Phases == {"none", "locking", "creating", "prompting", "waiting", "disposing", "running"}
CallStates == {"none", "working", "asking", "resumed", "hooking", "done"}

TypeOK ==
  /\ current \in Sessions
  /\ lock \in [Sessions -> {"free", "server", "run", "foreign"}]
  /\ tail \in [Sessions -> Runs \cup {None}]
  /\ registry \in [Sessions -> Chats \cup {None}]
  /\ phase \in [Runs -> Phases]
  /\ own \in [Runs -> BOOLEAN]
  /\ stop \in [Chats -> BOOLEAN]
  /\ turn \in [Chats -> {"off", "first", "gap", "later"}]
  /\ call \in [Askers -> CallStates]
  /\ late \subseteq Calls
  /\ accepted \subseteq Tools
  /\ pending \subseteq Tools
  /\ ran \in [Tools -> Nat]
  /\ tries \in [Runs -> Nat]
  /\ crashed \in BOOLEAN

Init ==
  /\ current \in Sessions
  /\ lock = [s \in Sessions |-> IF s = current THEN "server" ELSE "free"]
  /\ tail = [s \in Sessions |-> None]
  /\ registry = [s \in Sessions |-> None]
  /\ phase = [r \in Runs |-> "none"]
  /\ own = [r \in Runs |-> FALSE]
  /\ stop = [c \in Chats |-> FALSE]
  /\ turn = [c \in Chats |-> "off"]
  /\ call = [k \in Askers |-> "none"]
  /\ late = {}
  /\ accepted = {}
  /\ pending = {}
  /\ ran = [t \in Tools |-> 0]
  /\ tries = [r \in Runs |-> 0]
  /\ crashed = FALSE

RunOf(k) == IF k \in Tools THEN k ELSE Of[k]
SessionOf(k) == Home[RunOf(k)]

----------------------------------------------------------------------------
(***************************************************************************)
(* Admission, common to both kinds of run: one at a time per session.      *)
(***************************************************************************)
Admit(r) ==
  /\ phase[r] = "none"
  /\ tries[r] < MaxTries[r]
  /\ tail[Home[r]] = None
  /\ tail' = [tail EXCEPT ![Home[r]] = r]
  /\ tries' = [tries EXCEPT ![r] = @ + 1]
  /\ own' = [own EXCEPT ![r] = Home[r] = current]

\* A session that is not the current one is locked for the run; the lock is not
\* given twice to one process.
TakeLock(r, next) ==
  /\ phase[r] = "locking"
  /\ lock[Home[r]] = "free"
  /\ lock' = [lock EXCEPT ![Home[r]] = "run"]
  /\ phase' = [phase EXCEPT ![r] = next]

EndHandling(r) == tail' = [tail EXCEPT ![Home[r]] = None]

GiveLockBack(r) ==
  lock' = IF own[r] THEN lock ELSE [lock EXCEPT ![Home[r]] = "free"]

(***************************************************************************)
(* Chat runs.                                                              *)
(***************************************************************************)
AdmitChat(c) ==
  /\ Admit(c)
  /\ turn[c] = "off"
  /\ registry[Home[c]] = None
  /\ registry' = [registry EXCEPT ![Home[c]] = c]
  /\ IF Home[c] = current
       THEN /\ phase' = [phase EXCEPT ![c] = "prompting"]
            /\ turn' = [turn EXCEPT ![c] = "first"]
       ELSE /\ phase' = [phase EXCEPT ![c] = "locking"]
            /\ UNCHANGED turn
  /\ UNCHANGED <<current, lock, stop, call, late, store, ran, crashed>>

LockChat(c) ==
  /\ TakeLock(c, "creating")
  /\ UNCHANGED <<current, tail, own, chat, call, late, store, ran, tries, crashed>>

\* releaseRunOwnership.
Release(c) ==
  /\ registry' = [registry EXCEPT ![Home[c]] = None]
  /\ stop' = [stop EXCEPT ![c] = FALSE]
  /\ phase' = [phase EXCEPT ![c] = "none"]
  /\ GiveLockBack(c)

ChatLockRefused(c) ==
  /\ phase[c] = "locking"
  /\ lock[Home[c]] # "free"
  /\ EndHandling(c)
  /\ registry' = [registry EXCEPT ![Home[c]] = None]
  /\ stop' = [stop EXCEPT ![c] = FALSE]
  /\ phase' = [phase EXCEPT ![c] = "none"]
  /\ UNCHANGED <<current, lock, own, turn, call, late, store, ran, tries, crashed>>

\* The Pi session of its own exists; a run stopped meanwhile prompts nothing.
Prompt(c) ==
  /\ phase[c] = "creating"
  /\ IF stop[c]
       THEN /\ phase' = [phase EXCEPT ![c] = "disposing"]
            /\ EndHandling(c)
            /\ UNCHANGED turn
       ELSE /\ phase' = [phase EXCEPT ![c] = "prompting"]
            /\ turn' = [turn EXCEPT ![c] = "first"]
            /\ UNCHANGED tail
  /\ UNCHANGED <<current, lock, own, registry, stop, call, late, store, ran, tries,
                 crashed>>

InTurn(c) == turn[c] \in {"first", "later"}
Underway(k) == call[k] \notin {"none", "done"}
CallsOf(c) == {k \in Calls : Of[k] = c}

\* A turn ends when its calls have; prompt() returns with the first one.  The
\* workflow of a stopped run does not go on.
TurnEnds(c) ==
  /\ InTurn(c)
  /\ \A k \in CallsOf(c) : ~Underway(k)
  /\ \/ turn' = [turn EXCEPT ![c] = "off"]
     \/ /\ c \in Workflows /\ turn[c] = "first" /\ ~stop[c]
        /\ turn' = [turn EXCEPT ![c] = "gap"]
  /\ phase' = [phase EXCEPT ![c] = IF @ = "prompting" THEN "waiting" ELSE @]
  /\ UNCHANGED <<current, lock, tail, own, registry, stop, call, late, store, ran,
                 tries, crashed>>

NextStep(c) ==
  /\ turn[c] = "gap"
  /\ turn' = [turn EXCEPT ![c] = "later"]
  /\ UNCHANGED <<current, lock, tail, phase, own, registry, stop, call, late, store,
                 ran, tries, crashed>>

\* No event for two minutes, as while a question is open.  Only the waits that
\* follow prompt() look for it, so not the first turn.
Stalled(c) == turn[c] = "later"

\* A run in the current session is released with its response.
ReleasesAtOnce(c) == TRUE
ReleasesNow(c) == own[c]

\* The wait after prompt() is over: Pi is idle, between two steps perhaps, or
\* has stalled.
HandlerReturns(c) ==
  /\ phase[c] = "waiting"
  /\ ~InTurn(c) \/ Stalled(c)
  /\ EndHandling(c)
  /\ IF ReleasesNow(c)
       THEN Release(c)
       ELSE /\ phase' = [phase EXCEPT ![c] = "disposing"]
            /\ UNCHANGED <<lock, registry, stop>>
  /\ UNCHANGED <<current, own, turn, call, late, store, ran, tries, crashed>>

\* The Pi session of its own is disposed of once the workflow has ended, or
\* stalled; nobody settles the questions that are open then.
Dispose(c) ==
  /\ phase[c] = "disposing"
  /\ turn[c] = "off" \/ Stalled(c)
  /\ turn' = [turn EXCEPT ![c] = "off"]
  /\ Release(c)
  /\ UNCHANGED <<current, tail, own, call, late, store, ran, tries, crashed>>

----------------------------------------------------------------------------
(***************************************************************************)
(* Tool calls and questions.                                               *)
(***************************************************************************)
HasQuestion(k) == call[k] \in {"asking", "hooking"}

CallTool(k) ==
  /\ call[k] = "none"
  /\ InTurn(Of[k]) /\ ~stop[Of[k]]
  /\ call' = [call EXCEPT ![k] = "working"]
  /\ UNCHANGED <<current, lock, tail, phase, own, chat, late, store, ran, tries,
                 crashed>>

\* A tool asks with the signal of its run, which a Stop aborts; a direct run
\* has none.
AsksAnyway(k) == call[k] = "working"
MayAsk(k) == call[k] = "working" /\ (k \in Calls => ~stop[Of[k]])

\* promptUser and the bridge's ask: once per call.  A stopped run's tool is
\* told "cancelled" at once, and that is no step.
Ask(k) ==
  /\ MayAsk(k)
  /\ call' = [call EXCEPT ![k] = "asking"]
  /\ UNCHANGED <<current, lock, tail, phase, own, chat, late, store, ran, tries,
                 crashed>>

\* The tool returns.  If its result asks for a credential or a login, the
\* tool_result hook asks the user, without the signal.
CallReturns(k) ==
  /\ InTurn(Of[k])
  /\ call[k] \in {"working", "resumed"}
  /\ \/ call' = [call EXCEPT ![k] = "done"] /\ UNCHANGED late
     \/ /\ call' = [call EXCEPT ![k] = "hooking"]
        /\ late' = IF stop[Of[k]] THEN late \cup {k} ELSE late
  /\ UNCHANGED <<current, lock, tail, phase, own, chat, store, ran, tries, crashed>>

Settled(k) == IF call[k] = "asking" THEN "resumed" ELSE "done"

\* An answer or a cancellation from a browser.  Unlike run admissions these
\* actions are handled whatever else goes on in the session.
AnswerableInTurn(k) == HasQuestion(k) /\ tail[SessionOf(k)] = None
Answerable(k) == HasQuestion(k)

Answer(k) ==
  /\ Answerable(k)
  /\ call' = [call EXCEPT ![k] = Settled(k)]
  /\ UNCHANGED <<current, lock, tail, phase, own, chat, late, store, ran, tries,
                 crashed>>

\* What a Stop of chat c settles: cancelForSession.
SignalledOnly(c, k) == call[k] = "asking" /\ RunOf(k) = c
StopSettles(c, k) == HasQuestion(k) /\ SessionOf(k) = Home[c]

\* GuiRunRegistry.cancel and applyGuiRunCancellation: token, workflow, abort and
\* questions.  A second Stop is a duplicate and applies nothing.
Stop(c) ==
  /\ registry[Home[c]] = c
  /\ ~stop[c]
  /\ stop' = [stop EXCEPT ![c] = TRUE]
  /\ turn' = [turn EXCEPT ![c] = IF @ = "gap" THEN "off" ELSE @]
  /\ call' = [k \in Askers |-> IF StopSettles(c, k) THEN Settled(k) ELSE call[k]]
  /\ UNCHANGED <<current, lock, tail, phase, own, registry, late, store, ran, tries,
                 crashed>>

----------------------------------------------------------------------------
(***************************************************************************)
(* Direct tool runs.                                                       *)
(***************************************************************************)
Accept(t) ==
  /\ accepted' = accepted \cup {t}
  /\ pending' = pending \ {t}

\* The pending record, and the acceptance with the first line of transcript.
AcceptsLater(t) == pending' = pending \cup {t} /\ UNCHANGED accepted
Records(t) ==
  IF t \in Unrecorded THEN pending' = pending \cup {t} /\ UNCHANGED accepted
                      ELSE Accept(t)

Execute(t) ==
  /\ Records(t)
  /\ call' = [call EXCEPT ![t] = "working"]
  /\ ran' = [ran EXCEPT ![t] = @ + 1]

AdmitTool(t) ==
  /\ Admit(t)
  /\ t \notin accepted \cup pending
  /\ IF Home[t] = current
       THEN /\ phase' = [phase EXCEPT ![t] = "running"]
            /\ Execute(t)
       ELSE /\ phase' = [phase EXCEPT ![t] = "locking"]
            /\ UNCHANGED <<call, store, ran>>
  /\ UNCHANGED <<current, lock, chat, late, crashed>>

LockTool(t) ==
  /\ TakeLock(t, "running")
  /\ Execute(t)
  /\ UNCHANGED <<current, tail, own, chat, late, tries, crashed>>

ToolLockRefused(t) ==
  /\ phase[t] = "locking"
  /\ lock[Home[t]] # "free"
  /\ EndHandling(t)
  /\ phase' = [phase EXCEPT ![t] = "none"]
  /\ UNCHANGED <<current, lock, own, chat, call, late, store, ran, tries, crashed>>

\* The tool has returned or thrown; its result is written to the session.
EndTool(t) ==
  /\ phase[t] = "running"
  /\ call[t] \in {"working", "resumed"}
  /\ call' = [call EXCEPT ![t] = "done"]
  /\ Accept(t)
  /\ EndHandling(t)
  /\ GiveLockBack(t)
  /\ phase' = [phase EXCEPT ![t] = "none"]
  /\ UNCHANGED <<current, own, chat, late, ran, tries, crashed>>

\* Two minutes after it was written a pending record no longer counts.
PendingExpires(t) ==
  /\ t \in pending
  /\ pending' = pending \ {t}
  /\ UNCHANGED <<current, lock, tail, phase, own, chat, call, late, accepted, ran,
                 tries, crashed>>

----------------------------------------------------------------------------
(***************************************************************************)
(* Opening another session, other processes, restarts.                     *)
(***************************************************************************)

\* isCurrentSessionBusy: a chat run's token, or Pi streaming.
CurrentIsBusy ==
  \E c \in Chats : /\ own[c] /\ Home[c] = current
                   /\ phase[c] \in {"prompting", "waiting"} \/ InTurn(c)

\* Check and switch in one: what comes between them is module ChatRun's.
OpenSession(s) ==
  /\ s # current
  /\ lock[s] = "free"
  /\ ~CurrentIsBusy
  /\ current' = s
  /\ lock' = [lock EXCEPT ![current] = "free", ![s] = "server"]
  /\ turn' = [c \in Chats |-> IF own[c] /\ Home[c] = current THEN "off" ELSE turn[c]]
  /\ UNCHANGED <<tail, registry, phase, own, stop, call, late, store, ran, tries,
                 crashed>>

Foreign(s) ==
  /\ \/ lock[s] = "free" /\ lock' = [lock EXCEPT ![s] = "foreign"]
     \/ lock[s] = "foreign" /\ lock' = [lock EXCEPT ![s] = "free"]
  /\ UNCHANGED <<current, tail, phase, own, chat, call, late, store, ran, tries,
                 crashed>>

\* The server dies and is started again on some session: runs and questions are
\* gone, the action store is not.
Restart(s) ==
  /\ ~crashed
  /\ lock[s] # "foreign"
  /\ crashed' = TRUE
  /\ current' = s
  /\ lock' = [x \in Sessions |-> IF x = s THEN "server"
                                 ELSE IF lock[x] = "foreign" THEN "foreign" ELSE "free"]
  /\ tail' = [x \in Sessions |-> None]
  /\ registry' = [x \in Sessions |-> None]
  /\ phase' = [r \in Runs |-> "none"]
  /\ own' = [r \in Runs |-> FALSE]
  /\ stop' = [c \in Chats |-> FALSE]
  /\ turn' = [c \in Chats |-> "off"]
  /\ call' = [k \in Askers |-> IF call[k] = "none" THEN "none" ELSE "done"]
  /\ UNCHANGED <<late, store, ran, tries>>

----------------------------------------------------------------------------
\* What the server does on its own account, per run.
ServeChat(c) ==
  \/ LockChat(c) \/ ChatLockRefused(c) \/ Prompt(c)
  \/ HandlerReturns(c) \/ Dispose(c)
ServeTool(t) == LockTool(t) \/ ToolLockRefused(t)

Next ==
  \/ \E c \in Chats : AdmitChat(c) \/ ServeChat(c) \/ TurnEnds(c) \/ NextStep(c) \/ Stop(c)
  \/ \E k \in Calls : CallTool(k) \/ CallReturns(k)
  \/ \E k \in Askers : Ask(k) \/ Answer(k)
  \/ \E t \in Tools : AdmitTool(t) \/ ServeTool(t) \/ EndTool(t) \/ PendingExpires(t)
  \/ \E s \in Sessions : OpenSession(s) \/ Foreign(s) \/ Restart(s)

Spec == Init /\ [][Next]_vars

\* The server runs.
LiveSpec ==
  /\ Spec
  /\ \A c \in Chats : WF_vars(ServeChat(c))
  /\ \A t \in Tools : WF_vars(ServeTool(t))

\* What liveness may ask of the others: that Pi ends its turns and tools return,
\* and that the user answers or dismisses a question.
PiAndToolsReturn ==
  /\ \A c \in Chats : WF_vars(TurnEnds(c) \/ NextStep(c))
  /\ \A k \in Calls : WF_vars(CallReturns(k))
  /\ \A t \in Tools : WF_vars(EndTool(t))
UserAnswers == \A k \in Askers : WF_vars(Answer(k))
----------------------------------------------------------------------------
(***************************************************************************)
(* Safety.                                                                 *)
(***************************************************************************)

\* A stopped run waits for no answer: its Stop settles every question that is
\* open, of a tool or of the hook, and afterwards its tools open none.  Only the
\* hook, which does not get the signal, still may.
StoppedRunsWaitForNobody ==
  \A k \in Calls : HasQuestion(k) /\ stop[Of[k]] => k \in late

\* The tool of a direct run, which may change a portfolio, is executed once
\* however often its action is sent again, after a crash in the middle of it, too;
\* without a transcript the record is only pending, and a crash and two minutes
\* later the action is new.
ToolRunsOnce ==
  \A t \in Tools : ran[t] > 1 => t \in Unrecorded /\ crashed

\* A direct tool run never writes to a session beside a chat run that the model
\* is answering, not even one whose response has ended and whose workflow goes on
\* in a Pi session of its own; only after a run in the current session, which is
\* released with its response, may it.
ToolsKeepOutOfRuns ==
  \A t \in Tools, c \in Chats :
    phase[t] = "running" /\ Home[t] = Home[c] /\ InTurn(c)
      => own[c] /\ registry[Home[c]] # c

(***************************************************************************)
(* Liveness.                                                               *)
(***************************************************************************)

\* A stopped run gives its session back though the user never answers anything,
\* unless the hook asked after the Stop.
StoppedRunsEnd ==
  PiAndToolsReturn =>
    \A c \in Chats :
      stop[c] ~> ~stop[c] \/ \E k \in CallsOf(c) \cap late : HasQuestion(k)

\* If questions are answered every run ends, chat or direct: no answer waits for
\* the run that waits for it.
AnsweredRunsEnd ==
  PiAndToolsReturn /\ UserAnswers => \A r \in Runs : phase[r] # "none" ~> phase[r] = "none"

(***************************************************************************)
(* What comments say, and the code does not do.                            *)
(***************************************************************************)

\* prompt-user.ts: a stopped run never opens a new question.
StoppedRunsAskNothing == late = {}

\* run-cancellation.ts: a Stop settles any open question, so there must be a run
\* to stop for every question a model's tool has open.
QuestionsCanBeStopped ==
  \A k \in Calls : HasQuestion(k) => registry[SessionOf(k)] = Of[k]

\* invoke-tool.ts: a direct run must not write to a session that another process
\* may own.
DirectRunsOwnTheirSession ==
  \A t \in Tools :
    phase[t] = "running" => lock[Home[t]] = IF own[t] THEN "server" ELSE "run"
=============================================================================
