---------------------------- MODULE WorkflowRun ----------------------------
(***************************************************************************)
(* Multi-step workflow runs of one Pi session: the SessionCoordinator      *)
(* (src/runtime/session-coordinator.ts) that sends each step's prompt and  *)
(* polls the session for its settlement, and the WorkflowRunner            *)
(* (src/runtime/workflow-runner.ts) that keeps run and step status.        *)
(*                                                                         *)
(* JavaScript runs one callback chain to completion.  A run sleeps between *)
(* polls; when a poll ends its wait, everything up to the next sleep is    *)
(* one chain, split here into actions that hold the thread (chain = r), so *)
(* that no event of Pi or the user falls inside it.                        *)
(*                                                                         *)
(* Pi, the agent session, is not in the repository's source; its part here *)
(* is what the coordinator's comments and tests rely on.                   *)
(***************************************************************************)
EXTENDS Naturals, Sequences, FiniteSetsExt

CONSTANTS MaxRuns,     \* workflow runs started in the session
          N,           \* steps of each workflow
          MaxUser,     \* ordinary prompts the user types
          MaxInputs,   \* runs and typed prompts together
          Skippable,   \* steps that declare skippable: true
          Structured,  \* analyst and debate steps, re-prompted once for their format
          Validated,   \* steps with an outputValidation, repaired once
          Consensus,   \* steps shouldSkipRebuttal may skip (debate_rebuttal)
          Host         \* "gui": runs are admitted one at a time and can be stopped;
                       \* "tui": the user may type, abort a turn or start another run

ASSUME RunAssumption ==
    /\ MaxRuns \in Nat \ {0} /\ N \in Nat \ {0} /\ MaxUser \in Nat /\ MaxInputs \in Nat
    /\ Skippable \subseteq 1..N /\ Structured \subseteq 1..N
    /\ Validated \subseteq 1..N \ Skippable /\ Consensus \subseteq Skippable \ {1}
    /\ Host \in {"gui", "tui"}

Runs == 1..MaxRuns
Steps == 1..N

VARIABLES
    \* WorkflowRunner
    activeRun,   \* latest run created (activeRun of the runner), 0 before the first
    status,      \* run.status
    stepStatus,  \* run.steps[k].status
    stepIdx,     \* run.currentStepIndex
    \* SessionCoordinator
    activeRef,   \* run of activeWorkflowRunRef, 0 when null
    active,      \* runRef.active
    reason,      \* runRef.interruptedReason
    ctx,         \* run whose token owns the process-wide run context, 0 when clear
    vfail,       \* outputValidationFailure is set
    capture,     \* run whose step owns activeStepCapture, 0 when null
    seen,        \* owners of the tool events in each run's own step capture
    evidence,    \* owners of the evidence in run.stepOutputs[k]
    before,      \* entriesBeforeActivePrompt, counted in turns
    expect,      \* activePrompt: the text whose answer is awaited
    \* the asynchronous control of each run's executor
    pc, chain,
    rejected,    \* history: runs whose repaired output failed validation again
    \* the transcript and the durable log
    marker, notice, logged,
    \* Pi
    turns,       \* user messages of the transcript, each with its latest outcome
    busy,        \* a turn is being processed (isIdle() is false)
    queue,       \* follow-ups Pi holds (hasPendingMessages())
    outbox,      \* prompts handed to sendUserMessage, not accepted yet
    aborting,    \* abort() was requested for the current turn
    lost,        \* history: runs with a prompt Pi rejected because it was busy
    life         \* of the session: open, closing (session_shutdown), disposed

runnerVars == <<activeRun, status, stepStatus, stepIdx>>
refVars    == <<activeRef, active, reason, ctx>>
stepVars   == <<vfail, capture, seen, evidence, before, expect, rejected>>
outVars    == <<marker, notice, logged>>
piVars     == <<turns, busy, queue, outbox, aborting, lost>>
vars == <<runnerVars, refVars, stepVars, pc, chain, outVars, piVars, life>>

-----------------------------------------------------------------------------
(* An operator stated just before the one it shadows, and used nowhere, is   *)
(* a plausible defect of that one: the properties must tell them apart.      *)

(* Texts and prompts.  A prompt is its text (step and kind, the same for    *)
(* every run of a workflow), the run that sent it and its delivery mode.    *)

Waiting == {"prev", "step", "retry", "repair"}
Outcomes == {"none", "success", "error", "aborted"}
\* The format re-prompt is one fixed text; the user's own messages have none.
Text(k, kind) == IF kind \in {"retry", "user"} THEN <<0, kind>> ELSE <<k, kind>>
Texts == (0..N) \X {"step", "retry", "repair", "user", "any"}
AnyText == <<0, "any">>
Prompt(t, r, followUp) == [text |-> t, run |-> r, followUp |-> followUp]
Turn(p) == [text |-> p.text, run |-> p.run, out |-> "none"]

\* isReadyForNextPrompt: idle and nothing queued.
Ready == ~busy /\ queue = <<>>

\* The turns recorded since the awaited prompt was sent that carry its text.
Answering(r) ==
    {i \in (before[r] + 1)..Len(turns) : expect[r] \in {AnyText, turns[i].text}}

\* terminalAssistantOutcomeAfterPrompt, as waitForPromptSettlement uses it:
\* the latest outcome of the first such turn, unknown while Pi holds messages.
Outcome(r) == IF queue # <<>> \/ Answering(r) = {} THEN "none"
              ELSE turns[Min(Answering(r))].out

\* An abort is final at once, an error only when Pi is idle: it may be retrying.
PromptFailedOnAbortOnly(r) == Outcome(r) = "aborted"
PromptFailed(r) == Outcome(r) = "aborted" \/ (Outcome(r) = "error" /\ Ready)

\* A wait with requireActivity needs the prompt's own answer and an idle Pi; the
\* wait on the previous prompt also ends when Pi has become ready.
SettledOnAnswer(r) == Outcome(r) = "success" \/ (pc[r] = "prev" /\ Ready)
SettledWhenIdle(r) == Ready
Settled(r) == IF pc[r] = "prev" THEN Outcome(r) = "success" \/ Ready
              ELSE Outcome(r) = "success" /\ Ready

-----------------------------------------------------------------------------
(* WorkflowRunner *)

\* cancel(): the pending and running steps of a running run become skipped.
CancelledSteps(r) ==
    [k \in Steps |-> IF k >= stepIdx[r] /\ stepStatus[r][k] \in {"pending", "running"}
                     THEN "skipped" ELSE stepStatus[r][k]]

\* status and stepStatus of every run after runner.cancel().
StatusNotCancelled == status
StatusAfterCancel ==
    [r \in Runs |-> IF r = activeRun /\ status[r] = "running" THEN "cancelled" ELSE status[r]]
StepsAfterCancel ==
    [r \in Runs |-> IF r = activeRun /\ status[r] = "running"
                    THEN CancelledSteps(r) ELSE stepStatus[r]]

\* start(): the run before is cancelled, the first step runs.
RunnerStart(r) ==
    /\ activeRun' = r
    /\ status' = [StatusAfterCancel EXCEPT ![r] = "running"]
    /\ stepStatus' = [StepsAfterCancel EXCEPT ![r][1] = "running"]
    /\ stepIdx' = [stepIdx EXCEPT ![r] = 1]

\* executeSteps leaves the loop; finishWorkflowRun follows in the same chain.
LeaveLoop(r, st) ==
    /\ status' = [status EXCEPT ![r] = st]
    /\ pc' = [pc EXCEPT ![r] = "finish"]
    /\ chain' = r
    /\ UNCHANGED stepIdx

\* The loop's bound, and its check whether the run was cancelled meanwhile.
LastStepOffByOne(r) == stepIdx[r] = N + 1
LastStep(r) == stepIdx[r] = N
NeverRetired(r) == FALSE
Retired(r) == status[r] # "running"

\* Step k of run r ends with status st and the loop goes on: the next step
\* starts with a capture of its own and a wait on the previous prompt, whose
\* first poll belongs to this chain (and ends it: the prompt has an outcome).  cap is activeStepCapture after step k.
NextStep(r, st, cap) ==
    LET k == stepIdx[r] IN
    IF LastStep(r)
    THEN /\ stepStatus' = [stepStatus EXCEPT ![r][k] = st]
         /\ LeaveLoop(r, "completed")
         /\ capture' = cap
         /\ UNCHANGED seen
    ELSE /\ stepStatus' = [stepStatus EXCEPT ![r][k] = st, ![r][k + 1] = "running"]
         /\ stepIdx' = [stepIdx EXCEPT ![r] = k + 1]
         /\ capture' = r
         /\ seen' = [seen EXCEPT ![r] = {}]
         /\ pc' = [pc EXCEPT ![r] = "prev"]
         /\ chain' = r
         /\ UNCHANGED status

\* The executor threw: a run cancelled meanwhile stops, a skippable step is
\* skipped, any other step fails the run.
StepThrew(r) ==
    LET k == stepIdx[r] IN
    /\ IF Retired(r)
       THEN LeaveLoop(r, status[r]) /\ UNCHANGED <<stepStatus, capture, seen>>
       ELSE IF k \in Skippable THEN NextStep(r, "skipped", capture)
       ELSE /\ stepStatus' = [stepStatus EXCEPT ![r][k] = "failed"]
            /\ LeaveLoop(r, "failed")
            /\ UNCHANGED <<capture, seen>>
    /\ UNCHANGED <<activeRun, evidence>>

\* The executor returned: its evidence is stored before the step is completed.
StepReturned(r) ==
    LET cap == IF capture = r THEN 0 ELSE capture IN
    /\ IF Retired(r)
       THEN LeaveLoop(r, status[r]) /\ UNCHANGED <<stepStatus, seen, evidence>> /\ capture' = cap
       ELSE /\ NextStep(r, "completed", cap)
            /\ evidence' = [evidence EXCEPT ![r][stepIdx[r]] = seen[r]]
    /\ UNCHANGED activeRun

-----------------------------------------------------------------------------
(* SessionCoordinator *)

\* Prompts the user typed, for the bound on them.
UserTurns == Cardinality({i \in DOMAIN turns : turns[i].run = 0})
             + Cardinality({i \in DOMAIN queue : queue[i].run = 0})

\* startWorkflowRun: retire the previous run, send the first prompt (or hand it
\* to Pi as the transformed input, whose text is then not compared), own the run
\* context, start the runner, whose first executor waits for the first prompt.
StartWorkflowRun(transform) ==
    LET r == activeRun + 1 IN
    /\ chain = 0 /\ life = "open" /\ r \in Runs
    /\ UserTurns + activeRun < MaxInputs
    /\ Host = "gui" => activeRef = 0 /\ Ready
    /\ RunnerStart(r)
    /\ active' = [i \in Runs |-> IF i = activeRef THEN FALSE ELSE i = r \/ active[i]]
    /\ activeRef' = r
    /\ ctx' = r
    /\ vfail' = FALSE
    /\ capture' = r
    /\ before' = [before EXCEPT ![r] = Len(turns)]
    /\ expect' = [expect EXCEPT ![r] = IF transform THEN AnyText ELSE Text(1, "step")]
    /\ outbox' = Append(outbox, Prompt(Text(1, "step"), r, ~Ready))
    /\ pc' = [pc EXCEPT ![r] = "step"]
    /\ UNCHANGED <<reason, seen, evidence, rejected, chain, outVars, turns, busy,
                   queue, aborting, lost, life>>

\* sendUserMessage without a delivery mode, from the executor of step k.
SendPrompt(r, kind) ==
    LET t == Text(stepIdx[r], kind) IN
    /\ before' = [before EXCEPT ![r] = Len(turns)]
    /\ expect' = [expect EXCEPT ![r] = t]
    /\ outbox' = Append(outbox, Prompt(t, r, FALSE))
    /\ pc' = [pc EXCEPT ![r] = kind]
    /\ chain' = 0

\* markWorkflowInterrupted: the first reason sticks, the polls retire the run.
Interrupt(r, why) ==
    /\ reason' = [reason EXCEPT ![r] = IF @ = "none" THEN why ELSE @]
    /\ active' = [active EXCEPT ![r] = FALSE]
    /\ status' = StatusAfterCancel
    /\ stepStatus' = StepsAfterCancel

\* A poll of run r may happen: the thread is free, or r's chain reached a wait.
Polls(r) == pc[r] \in Waiting /\ chain \in {0, r}

NoticesRetirementWhenIdle(r) == ~active[r] /\ Ready
NoticesRetirement(r) == ~active[r]

\* isCurrentRun() is false: the wait ends unsettled and the executor throws.
RetiredPoll(r) ==
    /\ Polls(r) /\ NoticesRetirement(r)
    /\ StepThrew(r)
    /\ UNCHANGED <<refVars, vfail, before, expect, rejected, outVars, piVars, life>>

\* The session context went stale: the executor's catch retires the run, and the
\* runner finds it cancelled.
StalePoll(r) ==
    /\ Polls(r) /\ active[r] /\ life = "disposed"
    /\ Interrupt(r, "session_replaced")
    /\ pc' = [pc EXCEPT ![r] = "finish"]
    /\ chain' = r
    /\ UNCHANGED <<activeRun, stepIdx, activeRef, ctx, stepVars, outVars, piVars, life>>

ObservesRetired(r) == Polls(r) /\ life # "disposed"
Observes(r) == Polls(r) /\ active[r] /\ life # "disposed"

\* waitForPromptSettlement throws workflow_prompt_failed.
FailedPoll(r) ==
    /\ Observes(r) /\ PromptFailed(r)
    /\ StepThrew(r)
    /\ UNCHANGED <<refVars, vfail, before, expect, rejected, outVars, piVars, life>>

Settles(r) == Observes(r) /\ ~PromptFailed(r) /\ Settled(r)

\* The previous prompt has settled and the analysts agree: analyst_consensus.
SkipRebuttal(r) ==
    /\ Settles(r) /\ pc[r] = "prev" /\ stepIdx[r] \in Consensus
    /\ StepThrew(r)
    /\ UNCHANGED <<refVars, vfail, before, expect, rejected, outVars, piVars, life>>

\* What the settled wait of step k may send next: its prompt, the re-prompt of an
\* analyst that left out its contract, the repair of a rejected output.
MaySend(r, kind) ==
    LET k == stepIdx[r] IN
    \/ kind = "step" /\ pc[r] = "prev"
    \/ kind = "retry" /\ pc[r] = "step" /\ k \in Structured
    \/ kind = "repair" /\ pc[r] \in {"step", "retry"} /\ k \in Validated

SendNext(r, kind) ==
    /\ Settles(r) /\ MaySend(r, kind)
    /\ SendPrompt(r, kind)
    /\ UNCHANGED <<runnerVars, refVars, vfail, capture, seen, evidence, rejected,
                   outVars, turns, busy, queue, aborting, lost, life>>

\* The output is accepted and the executor returns.
AcceptOutput(r) ==
    /\ Settles(r) /\ pc[r] # "prev"
    /\ StepReturned(r)
    /\ UNCHANGED <<refVars, vfail, before, expect, rejected, outVars, piVars, life>>

\* The repaired output is rejected again.
RejectOutput(r) ==
    /\ Settles(r) /\ pc[r] = "repair"
    /\ vfail' = TRUE
    /\ rejected' = rejected \cup {r}
    /\ StepThrew(r)
    /\ UNCHANGED <<refVars, before, expect, outVars, piVars, life>>

\* The status finishWorkflowRun reports: an interrupted run is a failed run.
FinalStatusOfRunner(r) == status[r]
FinalStatus(r) == IF status[r] = "completed" THEN "completed"
                  ELSE IF reason[r] # "none" THEN "failed" ELSE status[r]
Owns(r) == activeRef = r
\* finishWorkflowRun goes as far as the transcript for these runs.
Reports(r) == Owns(r) /\ FinalStatus(r) \in {"completed", "failed"}
ShowsAnyFailure(r) == FinalStatus(r) = "failed" /\ reason[r] = "none"
ShowsNotice(r) == vfail /\ FinalStatus(r) = "failed" /\ reason[r] = "none"
OwnsAnyContext(r) == TRUE
OwnsContext(r) == ctx = r

\* finishWorkflowRun and the .finally after it.
FinishWorkflowRun(r) ==
    /\ pc[r] = "finish" /\ chain = r
    /\ marker' = [marker EXCEPT ![r] =
                    IF Reports(r) /\ life # "disposed" THEN Append(@, FinalStatus(r)) ELSE @]
    /\ notice' = [notice EXCEPT ![r] = @ \/ (Reports(r) /\ life # "disposed" /\ ShowsNotice(r))]
    /\ logged' = [logged EXCEPT ![r] = @ \/ (Reports(r) /\ life = "disposed")]
    /\ vfail' = (vfail /\ ~Owns(r))
    /\ capture' = IF Owns(r) THEN 0 ELSE capture
    /\ ctx' = IF OwnsContext(r) THEN 0 ELSE ctx
    /\ activeRef' = IF Owns(r) THEN 0 ELSE activeRef
    /\ pc' = [pc EXCEPT ![r] = "done"]
    /\ chain' = 0
    /\ UNCHANGED <<runnerVars, active, reason, seen, evidence, before, expect, rejected,
                   piVars, life>>

\* Stop: applyGuiRunCancellation calls cancelActiveWorkflow, drops Pi's queue
\* and aborts its turn.
CancelActiveWorkflow ==
    /\ Host = "gui" /\ chain = 0 /\ life = "open"
    /\ IF activeRef # 0
       THEN /\ Interrupt(activeRef, "stopped")
            /\ ctx' = IF OwnsContext(activeRef) THEN 0 ELSE ctx
       ELSE /\ status' = StatusAfterCancel /\ stepStatus' = StepsAfterCancel
            /\ UNCHANGED <<reason, active, ctx>>
    /\ capture' = 0
    /\ aborting' = busy
    /\ queue' = <<>>
    /\ UNCHANGED <<activeRun, stepIdx, activeRef, vfail, seen, evidence, before, expect,
                   rejected, pc, chain, outVars, turns, busy, outbox, lost, life>>

\* session_shutdown: endActiveWorkflowForSessionShutdown retires the run and Pi
\* waits for it before it disposes the session.
SessionShutdown ==
    /\ chain = 0 /\ life = "open" /\ activeRef # 0
    /\ Interrupt(activeRef, "session_shutdown")
    /\ life' = "closing"
    /\ UNCHANGED <<activeRun, stepIdx, activeRef, ctx, stepVars, pc, chain, outVars, piVars>>
-----------------------------------------------------------------------------
(* Pi and the user *)

\* The awaited handler has returned, or the session goes without the handoff.
Dispose ==
    /\ chain = 0 /\ life # "disposed"
    /\ life = "closing" => activeRef = 0
    /\ life' = "disposed"
    /\ UNCHANGED <<runnerVars, refVars, stepVars, pc, chain, outVars, piVars>>

PiRuns == chain = 0 /\ life # "disposed"
PiUnchanged == UNCHANGED <<runnerVars, refVars, vfail, evidence, before, expect, rejected,
                           pc, chain, outVars, life>>

\* An accepted prompt starts a turn, waits as a follow-up, or, sent to a busy
\* session with no delivery mode, is rejected and swallowed.
PiAccepts ==
    /\ PiRuns /\ outbox # <<>>
    /\ LET p == Head(outbox) IN
       /\ outbox' = Tail(outbox)
       /\ IF ~busy THEN turns' = Append(turns, Turn(p)) /\ busy' = TRUE /\ UNCHANGED <<queue, lost>>
          ELSE IF p.followUp THEN queue' = Append(queue, p) /\ UNCHANGED <<turns, busy, lost>>
          ELSE lost' = lost \cup {p.run} /\ UNCHANGED <<turns, busy, queue>>
    /\ PiUnchanged /\ UNCHANGED <<capture, seen, aborting>>

Current == turns[Len(turns)]

\* tool_execution_end, and the text that streams with it, of the current turn
\* goes to whatever step capture is installed.
PiToolEvent ==
    /\ PiRuns /\ busy /\ Current.out = "none" /\ capture # 0
    /\ seen' = [seen EXCEPT ![capture] = @ \cup {Current.run}]
    /\ PiUnchanged /\ UNCHANGED <<capture, piVars>>

\* A terminal assistant message: aborted when an abort is in flight, otherwise an
\* answer or an error, and after an error possibly the answer of Pi's own retry.
PiAnswers(out) ==
    /\ PiRuns /\ busy /\ out # "none"
    /\ Current.out = "none" \/ (Current.out = "error" /\ out # "error")
    /\ out = "aborted" <=> aborting
    /\ turns' = [turns EXCEPT ![Len(turns)].out = out]
    /\ aborting' = FALSE
    /\ PiUnchanged /\ UNCHANGED <<capture, seen, busy, queue, outbox, lost>>

\* After a terminal message Pi goes on with a follow-up or becomes idle.
PiSettles ==
    /\ PiRuns /\ busy /\ Current.out # "none"
    /\ IF queue # <<>>
       THEN turns' = Append(turns, Turn(Head(queue))) /\ queue' = Tail(queue) /\ UNCHANGED busy
       ELSE busy' = FALSE /\ UNCHANGED <<turns, queue>>
    /\ aborting' = FALSE
    /\ PiUnchanged /\ UNCHANGED <<capture, seen, outbox, lost>>

\* An ordinary prompt typed in the TUI, queued behind a running turn.
UserPrompts ==
    /\ Host = "tui" /\ PiRuns /\ life = "open"
    /\ UserTurns < MaxUser /\ UserTurns + activeRun < MaxInputs
    /\ LET p == Prompt(Text(0, "user"), 0, TRUE) IN
       IF busy THEN queue' = Append(queue, p) /\ UNCHANGED <<turns, busy>>
       ELSE turns' = Append(turns, Turn(p)) /\ busy' = TRUE /\ UNCHANGED queue
    /\ PiUnchanged /\ UNCHANGED <<capture, seen, outbox, aborting, lost>>

\* Escape in the TUI aborts the turn and leaves the coordinator alone.
UserAborts ==
    /\ Host = "tui" /\ PiRuns /\ busy /\ Current.out \in {"none", "error"} /\ ~aborting
    /\ aborting' = TRUE
    /\ PiUnchanged /\ UNCHANGED <<capture, seen, turns, busy, queue, outbox, lost>>

-----------------------------------------------------------------------------
Init ==
    /\ activeRun = 0
    /\ status = [r \in Runs |-> "none"]
    /\ stepStatus = [r \in Runs |-> [k \in Steps |-> "pending"]]
    /\ stepIdx = [r \in Runs |-> 1]
    /\ activeRef = 0
    /\ active = [r \in Runs |-> FALSE]
    /\ reason = [r \in Runs |-> "none"]
    /\ ctx = 0 /\ vfail = FALSE /\ capture = 0
    /\ seen = [r \in Runs |-> {}]
    /\ evidence = [r \in Runs |-> [k \in Steps |-> {}]]
    /\ before = [r \in Runs |-> 0]
    /\ expect = [r \in Runs |-> AnyText]
    /\ pc = [r \in Runs |-> "idle"]
    /\ chain = 0 /\ rejected = {}
    /\ marker = [r \in Runs |-> <<>>]
    /\ notice = [r \in Runs |-> FALSE]
    /\ logged = [r \in Runs |-> FALSE]
    /\ turns = <<>> /\ busy = FALSE /\ queue = <<>> /\ outbox = <<>>
    /\ aborting = FALSE /\ lost = {} /\ life = "open"

PollStep(r) ==
    \/ RetiredPoll(r) \/ StalePoll(r) \/ FailedPoll(r)
    \/ SkipRebuttal(r) \/ AcceptOutput(r) \/ RejectOutput(r)
    \/ \E kind \in {"step", "retry", "repair"} : SendNext(r, kind)

CoordinatorStep(r) == PollStep(r) \/ FinishWorkflowRun(r)

PiStep == PiAccepts \/ PiSettles \/ \E out \in Outcomes : PiAnswers(out)

Next ==
    \/ \E transform \in BOOLEAN : StartWorkflowRun(transform)
    \/ \E r \in Runs : CoordinatorStep(r)
    \/ CancelActiveWorkflow \/ SessionShutdown \/ Dispose
    \/ PiStep \/ PiToolEvent \/ UserPrompts \/ UserAborts

Spec == Init /\ [][Next]_vars

\* The poll timer of every run keeps firing; nothing is assumed of Pi.
TimersFair == \A r \in Runs : WF_vars(CoordinatorStep(r))
CoordinatorSpec == Spec /\ TimersFair

\* Pi takes the prompts it is given and ends every turn it starts.  Not assumed of
\* the system: a premise of the property that needs it.
PiKeepsGoing == WF_vars(PiStep)
-----------------------------------------------------------------------------
(* Properties *)

RunStatuses == {"none", "running", "completed", "failed", "cancelled"}
StepStatuses == {"pending", "running", "completed", "failed", "skipped"}
Reasons == {"none", "stopped", "session_shutdown", "session_replaced"}
Prompts == [text : Texts, run : 0..MaxRuns, followUp : BOOLEAN]
Turns == [text : Texts, run : 0..MaxRuns, out : Outcomes]

RunnerTypes ==
    /\ activeRun \in 0..MaxRuns
    /\ status \in [Runs -> RunStatuses]
    /\ stepStatus \in [Runs -> [Steps -> StepStatuses]]
    /\ stepIdx \in [Runs -> Steps]
ControlTypes ==
    /\ pc \in [Runs -> Waiting \cup {"idle", "finish", "done"}]
    /\ chain \in 0..MaxRuns
RefTypes ==
    /\ activeRef \in 0..MaxRuns /\ ctx \in 0..MaxRuns
    /\ active \in [Runs -> BOOLEAN] /\ reason \in [Runs -> Reasons]
StepTypes ==
    /\ vfail \in BOOLEAN /\ rejected \subseteq Runs
    /\ capture \in 0..MaxRuns
    /\ seen \in [Runs -> SUBSET (0..MaxRuns)]
    /\ evidence \in [Runs -> [Steps -> SUBSET (0..MaxRuns)]]
    /\ before \in [Runs -> Nat] /\ expect \in [Runs -> Texts]
OutTypes ==
    /\ marker \in [Runs -> Seq({"completed", "failed"})]
    /\ notice \in [Runs -> BOOLEAN] /\ logged \in [Runs -> BOOLEAN]
PiTypes ==
    /\ turns \in Seq(Turns) /\ queue \in Seq(Prompts) /\ outbox \in Seq(Prompts)
    /\ busy \in BOOLEAN /\ aborting \in BOOLEAN /\ lost \subseteq 0..MaxRuns
    /\ life \in {"open", "closing", "disposed"}
    /\ busy => turns # <<>>

\* The values the variables of the runner, the coordinator and Pi can take; a
\* busy Pi has a turn to be busy with.
TypeOK == RunnerTypes /\ ControlTypes /\ RefTypes /\ StepTypes /\ OutTypes /\ PiTypes

\* The runner and the coordinator never disagree on which run is going on: the
\* run the WorkflowRunner counts as running is the latest one, its runRef is
\* active and its executor is waiting, and no other run is active.
RunnerAgreesWithRef ==
    \A r \in Runs :
        /\ status[r] = "running" <=> (pc[r] \in Waiting /\ active[r])
        /\ status[r] = "running" => r = activeRun /\ r = activeRef

\* Tools of the current run reach its own provider tracker: the run context is
\* never left to a run that is over and never taken from the current one.
ContextFollowsRun ==
    /\ ctx \in {0, activeRef}
    /\ activeRef # 0 /\ active[activeRef] => ctx = activeRef

\* A finished run leaves exactly one trace: a marker that agrees with how it
\* ended, or, when its session is gone, the record in the event log.  Only a run
\* that a later run replaced ends without one.
OutcomeIsRecorded ==
    \A r \in Runs : pc[r] = "done" =>
        \/ /\ marker[r] = <<FinalStatus(r)>> /\ ~logged[r]
        \/ marker[r] = <<>> /\ logged[r] /\ life = "disposed"
        \/ /\ marker[r] = <<>> /\ ~logged[r]
           /\ status[r] = "cancelled" /\ reason[r] = "none" /\ r < activeRun

\* The notice that a draft was rejected is shown for the runs that failed by a
\* rejected repair, and for no other: the shared outputValidationFailure never
\* passes from one run to another and never outlives an interruption.
NoticeIffRejected ==
    \A r \in Runs : pc[r] = "done" =>
        (notice[r] <=> (r \in rejected /\ marker[r] = <<"failed">> /\ reason[r] = "none"))

Sends(r) == Len(outbox') > Len(outbox) /\ outbox'[Len(outbox')].run = r

\* A run that was stopped, replaced or interrupted does nothing more: it sends no
\* prompt, begins no step, stores no output and takes no step capture.
RetiredRunsAreSilent ==
    [][\A r \in 1..activeRun : ~active[r] =>
          /\ ~Sends(r) /\ stepIdx'[r] = stepIdx[r] /\ evidence'[r] = evidence[r]
          /\ (capture' = r => capture = r)]_vars

\* A prompt other than a run's first is handed to Pi only while Pi is idle with
\* nothing queued: a busy session would reject and swallow it.
PromptsWaitForIdle ==
    [][\A r \in 1..activeRun : Sends(r) => Ready]_vars

\* A run that has ended keeps its status and the status of its steps, whatever
\* its executor still returns; a step that has ended keeps its own.
EndedStaysEnded ==
    [][\A r \in Runs :
          /\ status[r] \in {"completed", "failed", "cancelled"} =>
                status'[r] = status[r] /\ stepStatus'[r] = stepStatus[r]
          /\ \A k \in Steps : stepStatus[r][k] \in {"completed", "failed", "skipped"} =>
                stepStatus'[r][k] = stepStatus[r][k]]_vars

\* Steps run in order: a completed step has Pi's answer to its own prompt in the
\* transcript (the first step of a transformed input takes any message for its
\* own), and every step before one that was begun was completed or skipped.
Answered(k) ==
    \E i \in DOMAIN turns : turns[i].out = "success" /\ (k = 1 \/ turns[i].text = Text(k, "step"))
StepsInOrder ==
    \A r \in Runs : \A k \in Steps :
        /\ stepStatus[r][k] = "completed" => Answered(k)
        /\ k > 1 /\ stepStatus[r][k] \in {"running", "completed", "failed"} =>
              \A j \in 1..(k - 1) : stepStatus[r][j] \in {"completed", "skipped"}

\* openspec/specs/structured-analysts: a step's output includes only the evidence
\* of the tools its own run executed for it.
EvidenceIsOwn == \A r \in Runs : \A k \in Steps : evidence[r][k] \subseteq {r}

\* waitForActiveWorkflow returns: while Pi keeps going, every run that is started
\* is finished, unless Pi swallowed one of its prompts.
RunsEnd ==
    PiKeepsGoing => \A r \in Runs : pc[r] \in Waiting ~> (pc[r] = "done" \/ r \in lost)

\* An interrupted run is finished by its own timer, even if Pi never answers
\* again: session_shutdown and Stop cannot hang on a stuck turn.
InterruptedRunsEnd == \A r \in Runs : reason[r] # "none" ~> pc[r] = "done"
=============================================================================
