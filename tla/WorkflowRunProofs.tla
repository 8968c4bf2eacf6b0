------------------------- MODULE WorkflowRunProofs -------------------------
(***************************************************************************)
(* Proofs about WorkflowRun for every number of runs, steps and user       *)
(* prompts: type correctness, the agreement of the runner with the         *)
(* coordinator's run reference and the ownership of the run context; what  *)
(* a run leaves behind, once; that its steps run in order and its prompts  *)
(* wait for an idle Pi; that a retired run does nothing more, and what has *)
(* ended stays as it ended.                                                *)
(***************************************************************************)
EXTENDS WorkflowRun, WellFoundedInduction, TLAPS

USE RunAssumption


\* What the loop of the runner changes, and the types it keeps.
LoopTypes == RunnerTypes /\ ControlTypes /\ capture \in 0..MaxRuns
             /\ seen \in [Runs -> SUBSET (0..MaxRuns)]

LEMMA RunsAreNumbers == Runs \subseteq 0..MaxRuns /\ 0 \in 0..MaxRuns /\ 1 \in Steps
  BY DEF Runs, Steps

\* cancel() keeps the types of the statuses.
LEMMA CancelTyping ==
    ASSUME RunnerTypes
    PROVE  /\ StatusAfterCancel \in [Runs -> RunStatuses]
           /\ StepsAfterCancel \in [Runs -> [Steps -> StepStatuses]]
<1>1. StatusAfterCancel \in [Runs -> RunStatuses]
  BY DEF RunnerTypes, StatusAfterCancel, RunStatuses
<1>2. ASSUME NEW r \in Runs PROVE CancelledSteps(r) \in [Steps -> StepStatuses]
  BY DEF RunnerTypes, CancelledSteps, StepStatuses
<1>3. StepsAfterCancel \in [Runs -> [Steps -> StepStatuses]]
  BY <1>2 DEF RunnerTypes, StepsAfterCancel
<1> QED BY <1>1, <1>3

\* Leaving the loop keeps the types.
LEMMA LeaveLoopTyping ==
    ASSUME RunnerTypes, ControlTypes, NEW r \in Runs, NEW st \in RunStatuses, LeaveLoop(r, st)
    PROVE  /\ status' \in [Runs -> RunStatuses] /\ stepIdx' \in [Runs -> Steps]
           /\ ControlTypes'
  BY RunsAreNumbers DEF RunnerTypes, ControlTypes, LeaveLoop

\* The status of one step may be overwritten with any step status.
LEMMA StepStatusTyping ==
    ASSUME RunnerTypes, NEW r \in Runs, NEW k \in Steps, NEW st \in StepStatuses
    PROVE  [stepStatus EXCEPT ![r][k] = st] \in [Runs -> [Steps -> StepStatuses]]
<1>1. stepStatus[r] \in [Steps -> StepStatuses]
  BY DEF RunnerTypes
<1>2. [stepStatus[r] EXCEPT ![k] = st] \in [Steps -> StepStatuses]
  BY <1>1
<1> QED BY <1>2 DEF RunnerTypes

\* NextStep keeps the types of what it changes, whatever ending it gives the step.
LEMMA NextStepTyping ==
    ASSUME LoopTypes, NEW r \in Runs, NEW st \in StepStatuses, NEW cap \in 0..MaxRuns,
           NextStep(r, st, cap), UNCHANGED activeRun
    PROVE  LoopTypes'
<1> DEFINE k == stepIdx[r]
<1>1. k \in Steps
  BY DEF LoopTypes, RunnerTypes
<1>2. CASE LastStep(r)
  <2>1. /\ stepStatus' = [stepStatus EXCEPT ![r][k] = st] /\ LeaveLoop(r, "completed")
        /\ capture' = cap /\ seen' = seen
    BY <1>2 DEF NextStep
  <2>2. stepStatus' \in [Runs -> [Steps -> StepStatuses]]
    BY <1>1, <2>1, StepStatusTyping DEF LoopTypes
  <2>3. "completed" \in RunStatuses
    BY DEF RunStatuses
  <2> QED BY <2>1, <2>2, <2>3, LeaveLoopTyping DEF LoopTypes, RunnerTypes
<1>3. CASE ~LastStep(r)
  <2>1. /\ stepStatus' = [stepStatus EXCEPT ![r][k] = st, ![r][k + 1] = "running"]
        /\ stepIdx' = [stepIdx EXCEPT ![r] = k + 1]
        /\ capture' = r /\ seen' = [seen EXCEPT ![r] = {}]
        /\ pc' = [pc EXCEPT ![r] = "prev"] /\ chain' = r /\ status' = status
    BY <1>3 DEF NextStep
  <2>2. k + 1 \in Steps
    BY <1>1, <1>3 DEF LastStep, Steps
  <2>3. [stepStatus[r] EXCEPT ![k] = st, ![k + 1] = "running"] \in [Steps -> StepStatuses]
    BY <1>1, <2>2 DEF LoopTypes, RunnerTypes, StepStatuses
  <2>4. stepStatus' \in [Runs -> [Steps -> StepStatuses]]
    <3>1. stepStatus' = [stepStatus EXCEPT ![r] =
                            [stepStatus[r] EXCEPT ![k] = st, ![k + 1] = "running"]]
      BY <2>1 DEF LoopTypes, RunnerTypes
    <3> QED BY <2>3, <3>1 DEF LoopTypes, RunnerTypes
  <2>5. stepIdx' \in [Runs -> Steps] /\ seen' \in [Runs -> SUBSET (0..MaxRuns)]
    BY <2>1, <2>2 DEF LoopTypes, RunnerTypes
  <2>6. ControlTypes' /\ capture' \in 0..MaxRuns
    BY <2>1, RunsAreNumbers DEF LoopTypes, ControlTypes, Waiting
  <2> QED BY <2>1, <2>4, <2>5, <2>6 DEF LoopTypes, RunnerTypes
<1> QED BY <1>2, <1>3

LEMMA StepThrewTyping ==
    ASSUME LoopTypes, NEW r \in Runs, StepThrew(r)
    PROVE  LoopTypes'
<1>0. UNCHANGED activeRun /\ status[r] \in RunStatuses /\ stepIdx[r] \in Steps
      /\ "failed" \in RunStatuses \cap StepStatuses /\ "skipped" \in StepStatuses
  BY DEF StepThrew, LoopTypes, RunnerTypes, RunStatuses, StepStatuses
<1>1. CASE Retired(r)
  <2>1. LeaveLoop(r, status[r]) /\ UNCHANGED <<stepStatus, capture, seen>>
    BY <1>1 DEF StepThrew
  <2> QED BY <1>0, <2>1, LeaveLoopTyping DEF LoopTypes, RunnerTypes
<1>2. CASE ~Retired(r) /\ stepIdx[r] \in Skippable
  <2>1. NextStep(r, "skipped", capture)
    BY <1>2 DEF StepThrew
  <2> QED BY <1>0, <2>1, NextStepTyping DEF LoopTypes
<1>3. CASE ~Retired(r) /\ stepIdx[r] \notin Skippable
  <2>1. /\ stepStatus' = [stepStatus EXCEPT ![r][stepIdx[r]] = "failed"]
        /\ LeaveLoop(r, "failed") /\ UNCHANGED <<capture, seen>>
    BY <1>3 DEF StepThrew
  <2>2. stepStatus' \in [Runs -> [Steps -> StepStatuses]]
    BY <1>0, <2>1, StepStatusTyping DEF LoopTypes
  <2> QED BY <1>0, <2>1, <2>2, LeaveLoopTyping DEF LoopTypes, RunnerTypes
<1> QED BY <1>1, <1>2, <1>3

LEMMA StepReturnedTyping ==
    ASSUME LoopTypes, evidence \in [Runs -> [Steps -> SUBSET (0..MaxRuns)]],
           NEW r \in Runs, StepReturned(r)
    PROVE  LoopTypes' /\ evidence' \in [Runs -> [Steps -> SUBSET (0..MaxRuns)]]
<1> DEFINE cap == IF capture = r THEN 0 ELSE capture
<1>0. UNCHANGED activeRun /\ status[r] \in RunStatuses /\ cap \in 0..MaxRuns
      /\ "completed" \in StepStatuses
  BY DEF StepReturned, LoopTypes, RunnerTypes, StepStatuses
<1>1. CASE Retired(r)
  <2>1. LeaveLoop(r, status[r]) /\ UNCHANGED <<stepStatus, seen, evidence>> /\ capture' = cap
    BY <1>1 DEF StepReturned
  <2> QED BY <1>0, <2>1, LeaveLoopTyping DEF LoopTypes, RunnerTypes
<1>2. CASE ~Retired(r)
  <2>1. /\ NextStep(r, "completed", cap)
        /\ evidence' = [evidence EXCEPT ![r][stepIdx[r]] = seen[r]]
    BY <1>2 DEF StepReturned
  <2>2. evidence' \in [Runs -> [Steps -> SUBSET (0..MaxRuns)]]
    <3>1. seen[r] \in SUBSET (0..MaxRuns) /\ stepIdx[r] \in Steps
          /\ evidence[r] \in [Steps -> SUBSET (0..MaxRuns)]
      BY DEF LoopTypes, RunnerTypes
    <3>2. [evidence[r] EXCEPT ![stepIdx[r]] = seen[r]] \in [Steps -> SUBSET (0..MaxRuns)]
      BY <3>1
    <3> QED BY <2>1, <3>2
  <2> QED BY <1>0, <2>1, <2>2, NextStepTyping
<1> QED BY <1>1, <1>2

-----------------------------------------------------------------------------
(* Type correctness *)

\* A poll whose executor throws changes nothing but the loop's variables.
LEMMA ThrowingPollTyping ==
    ASSUME TypeOK, NEW r \in Runs, StepThrew(r), rejected' \subseteq Runs, vfail' \in BOOLEAN,
           UNCHANGED <<refVars, before, expect, outVars, piVars, life>>
    PROVE  TypeOK'
<1>1. LoopTypes'
  BY StepThrewTyping DEF TypeOK, LoopTypes, StepTypes
<1>2. evidence' = evidence
  BY DEF StepThrew
<1>3. RefTypes' /\ OutTypes' /\ PiTypes'
  BY DEF TypeOK, RefTypes, OutTypes, PiTypes, refVars, outVars, piVars
<1> QED BY <1>1, <1>2, <1>3 DEF TypeOK, LoopTypes, StepTypes

LEMMA PromptTyping ==
    /\ \A k \in Steps, kind \in {"step", "retry", "repair"} : Text(k, kind) \in Texts
    /\ Text(0, "user") \in Texts /\ AnyText \in Texts
    /\ \A t \in Texts, r \in 0..MaxRuns, b \in BOOLEAN : Prompt(t, r, b) \in Prompts
    /\ \A p \in Prompts : Turn(p) \in Turns
<1>1. \A k \in Steps, kind \in {"step", "retry", "repair"} : Text(k, kind) \in Texts
  BY DEF Steps, Texts, Text
<1>2. Text(0, "user") \in Texts /\ AnyText \in Texts
  BY DEF Texts, Text, AnyText
<1>3. \A t \in Texts, r \in 0..MaxRuns, b \in BOOLEAN : Prompt(t, r, b) \in Prompts
  BY DEF Prompt, Prompts
<1>4. \A p \in Prompts : Turn(p) \in Turns
  BY DEF Prompts, Turns, Turn, Outcomes
<1> QED BY <1>1, <1>2, <1>3, <1>4

LEMMA AppendTyping ==
    ASSUME NEW S, NEW s \in Seq(S), NEW e \in S
    PROVE  Append(s, e) \in Seq(S) /\ Append(s, e) # <<>>
  OBVIOUS

LEMMA InterruptTyping ==
    ASSUME TypeOK, NEW r \in Runs, NEW why \in Reasons, Interrupt(r, why)
    PROVE  /\ reason' \in [Runs -> Reasons] /\ active' \in [Runs -> BOOLEAN]
           /\ status' \in [Runs -> RunStatuses]
           /\ stepStatus' \in [Runs -> [Steps -> StepStatuses]]
<1>1. reason \in [Runs -> Reasons] /\ active \in [Runs -> BOOLEAN]
  BY DEF TypeOK, RefTypes
<1>2. reason' \in [Runs -> Reasons] /\ active' \in [Runs -> BOOLEAN]
  BY <1>1 DEF Interrupt
<1> QED BY <1>2, CancelTyping DEF Interrupt, TypeOK

LEMMA TypeInit == Init => TypeOK
<1> SUFFICES ASSUME Init PROVE TypeOK
  OBVIOUS
<1>1. RunnerTypes /\ ControlTypes
  BY RunsAreNumbers DEF Init, RunnerTypes, ControlTypes, RunStatuses, StepStatuses
<1>2. RefTypes
  BY RunsAreNumbers DEF Init, RefTypes, Reasons
<1>3. StepTypes
  <2>1. evidence \in [Runs -> [Steps -> SUBSET (0..MaxRuns)]] /\ rejected \subseteq Runs
    BY DEF Init
  <2>2. expect \in [Runs -> Texts]
    BY PromptTyping DEF Init
  <2> QED BY <2>1, <2>2, RunsAreNumbers DEF Init, StepTypes
<1>4. OutTypes
  <2>1. <<>> \in Seq({"completed", "failed"})
    OBVIOUS
  <2> QED BY <2>1 DEF Init, OutTypes
<1>5. PiTypes
  <2>1. <<>> \in Seq(Turns) /\ <<>> \in Seq(Prompts)
    OBVIOUS
  <2> QED BY <2>1 DEF Init, PiTypes
<1> QED BY <1>1, <1>2, <1>3, <1>4, <1>5 DEF TypeOK

LEMMA TypeStep == TypeOK /\ [Next]_vars => TypeOK'
<1> SUFFICES ASSUME TypeOK, [Next]_vars PROVE TypeOK'
  OBVIOUS
<1> USE RunsAreNumbers
<1>1. ASSUME NEW transform \in BOOLEAN, StartWorkflowRun(transform) PROVE TypeOK'
  <2> DEFINE r == activeRun + 1
  <2>0. r \in Runs
    BY <1>1 DEF StartWorkflowRun, RunnerStart
  <2>1. RunnerTypes'
    <3>1. /\ StatusAfterCancel \in [Runs -> RunStatuses]
          /\ StepsAfterCancel \in [Runs -> [Steps -> StepStatuses]]
      BY CancelTyping DEF TypeOK
    <3>2. status' \in [Runs -> RunStatuses]
      BY <1>1, <3>1 DEF StartWorkflowRun, RunnerStart, RunStatuses
    <3>3. [StepsAfterCancel[r] EXCEPT ![1] = "running"] \in [Steps -> StepStatuses]
      BY <2>0, <3>1 DEF StepStatuses
    <3>4. stepStatus' = [StepsAfterCancel EXCEPT ![r] =
                            [StepsAfterCancel[r] EXCEPT ![1] = "running"]]
      BY <1>1, <2>0, <3>1 DEF StartWorkflowRun, RunnerStart
    <3>5. stepStatus' \in [Runs -> [Steps -> StepStatuses]]
      BY <3>1, <3>3, <3>4
    <3>6. activeRun' \in 0..MaxRuns /\ stepIdx' \in [Runs -> Steps]
      BY <1>1, <2>0 DEF StartWorkflowRun, RunnerStart, TypeOK, RunnerTypes
    <3> QED BY <3>2, <3>5, <3>6 DEF RunnerTypes
  <2>2. RefTypes'
    <3>1. active' \in [Runs -> BOOLEAN]
      BY <1>1 DEF StartWorkflowRun, RunnerStart, TypeOK, RefTypes
    <3> QED BY <1>1, <2>0, <3>1 DEF StartWorkflowRun, RunnerStart, TypeOK, RefTypes
  <2>3. StepTypes'
    <3>1. expect' \in [Runs -> Texts]
      BY <1>1, PromptTyping DEF StartWorkflowRun, RunnerStart, TypeOK, StepTypes
    <3>2. before' \in [Runs -> Nat]
      BY <1>1 DEF StartWorkflowRun, RunnerStart, TypeOK, StepTypes, PiTypes
    <3> QED BY <1>1, <2>0, <3>1, <3>2 DEF StartWorkflowRun, RunnerStart, TypeOK, StepTypes
  <2>4. ControlTypes' /\ OutTypes'
    BY <1>1 DEF StartWorkflowRun, RunnerStart, TypeOK, ControlTypes, OutTypes, outVars, Waiting
  <2>5. PiTypes'
    <3>1. Prompt(Text(1, "step"), r, ~Ready) \in Prompts
      BY <2>0, PromptTyping DEF Ready
    <3>2. outbox' \in Seq(Prompts)
      BY <1>1, <3>1 DEF StartWorkflowRun, RunnerStart, TypeOK, PiTypes
    <3> QED BY <1>1, <3>2 DEF StartWorkflowRun, RunnerStart, TypeOK, PiTypes
  <2> QED BY <2>1, <2>2, <2>3, <2>4, <2>5 DEF TypeOK
<1>2. ASSUME NEW r \in Runs, RetiredPoll(r) PROVE TypeOK'
  BY <1>2, ThrowingPollTyping DEF RetiredPoll, TypeOK, StepTypes
<1>3. ASSUME NEW r \in Runs, StalePoll(r) PROVE TypeOK'
  <2>1. RunnerTypes' /\ RefTypes'
    BY <1>3, InterruptTyping DEF StalePoll, TypeOK, RunnerTypes, RefTypes, Reasons
  <2>2. ControlTypes'
    BY <1>3 DEF StalePoll, TypeOK, ControlTypes
  <2>3. StepTypes' /\ OutTypes' /\ PiTypes'
    BY <1>3 DEF StalePoll, TypeOK, StepTypes, OutTypes, PiTypes, stepVars, outVars, piVars
  <2> QED BY <2>1, <2>2, <2>3 DEF TypeOK
<1>4. ASSUME NEW r \in Runs, FailedPoll(r) PROVE TypeOK'
  BY <1>4, ThrowingPollTyping DEF FailedPoll, TypeOK, StepTypes
<1>5. ASSUME NEW r \in Runs, SkipRebuttal(r) PROVE TypeOK'
  BY <1>5, ThrowingPollTyping DEF SkipRebuttal, TypeOK, StepTypes
<1>6. ASSUME NEW r \in Runs, RejectOutput(r) PROVE TypeOK'
  BY <1>6, ThrowingPollTyping DEF RejectOutput, TypeOK, StepTypes
<1>7. ASSUME NEW r \in Runs, AcceptOutput(r) PROVE TypeOK'
  <2>1. LoopTypes' /\ evidence' \in [Runs -> [Steps -> SUBSET (0..MaxRuns)]]
    BY <1>7, StepReturnedTyping DEF AcceptOutput, TypeOK, LoopTypes, StepTypes
  <2>2. RefTypes' /\ OutTypes' /\ PiTypes'
    BY <1>7 DEF AcceptOutput, TypeOK, RefTypes, OutTypes, PiTypes, refVars, outVars, piVars
  <2> QED BY <1>7, <2>1, <2>2 DEF AcceptOutput, TypeOK, LoopTypes, StepTypes
<1>8. ASSUME NEW r \in Runs, NEW kind \in {"step", "retry", "repair"}, SendNext(r, kind)
      PROVE  TypeOK'
  <2> DEFINE t == Text(stepIdx[r], kind)
  <2>1. t \in Texts /\ Prompt(t, r, FALSE) \in Prompts
    BY PromptTyping DEF TypeOK, RunnerTypes
  <2>2. PiTypes'
    <3>1. outbox' \in Seq(Prompts)
      BY <1>8, <2>1, AppendTyping DEF SendNext, SendPrompt, TypeOK, PiTypes
    <3> QED BY <1>8, <3>1 DEF SendNext, TypeOK, PiTypes
  <2>3. StepTypes'
    BY <1>8, <2>1 DEF SendNext, SendPrompt, TypeOK, StepTypes, PiTypes
  <2>4. ControlTypes'
    BY <1>8 DEF SendNext, SendPrompt, TypeOK, ControlTypes, Waiting
  <2>5. RunnerTypes' /\ RefTypes' /\ OutTypes'
    BY <1>8 DEF SendNext, TypeOK, RunnerTypes, RefTypes, OutTypes, runnerVars, refVars, outVars
  <2> QED BY <2>2, <2>3, <2>4, <2>5 DEF TypeOK
<1>9. ASSUME NEW r \in Runs, FinishWorkflowRun(r) PROVE TypeOK'
  <2>1. OutTypes'
    <3>1. Reports(r) => FinalStatus(r) \in {"completed", "failed"}
      BY DEF Reports
    <3>2. marker' \in [Runs -> Seq({"completed", "failed"})]
      BY <1>9, <3>1 DEF FinishWorkflowRun, TypeOK, OutTypes
    <3>3. notice' \in [Runs -> BOOLEAN] /\ logged' \in [Runs -> BOOLEAN]
      BY <1>9 DEF FinishWorkflowRun, TypeOK, OutTypes
    <3> QED BY <3>2, <3>3 DEF OutTypes
  <2>2. StepTypes'
    BY <1>9 DEF FinishWorkflowRun, TypeOK, StepTypes
  <2>3. RefTypes'
    BY <1>9 DEF FinishWorkflowRun, TypeOK, RefTypes
  <2>4. ControlTypes'
    BY <1>9 DEF FinishWorkflowRun, TypeOK, ControlTypes
  <2>5. RunnerTypes' /\ PiTypes'
    BY <1>9 DEF FinishWorkflowRun, TypeOK, RunnerTypes, PiTypes, runnerVars, piVars
  <2> QED BY <2>1, <2>2, <2>3, <2>4, <2>5 DEF TypeOK
<1>10. ASSUME CancelActiveWorkflow PROVE TypeOK'
  <2>1. RunnerTypes' /\ RefTypes'
    <3>1. CASE activeRef # 0
      <4>1. activeRef \in Runs /\ "stopped" \in Reasons
        BY <3>1 DEF TypeOK, RefTypes, Runs, Reasons
      <4>2. Interrupt(activeRef, "stopped")
        BY <1>10, <3>1 DEF CancelActiveWorkflow
      <4> QED BY <1>10, <3>1, <4>1, <4>2, InterruptTyping
               DEF CancelActiveWorkflow, TypeOK, RunnerTypes, RefTypes
    <3>2. CASE activeRef = 0
      BY <1>10, <3>2, CancelTyping DEF CancelActiveWorkflow, TypeOK, RunnerTypes, RefTypes
    <3> QED BY <3>1, <3>2
  <2>2. StepTypes' /\ ControlTypes' /\ OutTypes'
    BY <1>10 DEF CancelActiveWorkflow, TypeOK, StepTypes, ControlTypes, OutTypes, outVars
  <2>3. PiTypes'
    BY <1>10 DEF CancelActiveWorkflow, TypeOK, PiTypes
  <2> QED BY <2>1, <2>2, <2>3 DEF TypeOK
<1>11. ASSUME SessionShutdown PROVE TypeOK'
  <2>1. activeRef \in Runs /\ "session_shutdown" \in Reasons
    BY <1>11 DEF SessionShutdown, TypeOK, RefTypes, Runs, Reasons
  <2>2. RunnerTypes' /\ RefTypes'
    BY <1>11, <2>1, InterruptTyping DEF SessionShutdown, TypeOK, RunnerTypes, RefTypes
  <2>3. StepTypes' /\ ControlTypes' /\ OutTypes' /\ PiTypes'
    BY <1>11 DEF SessionShutdown, TypeOK, StepTypes, ControlTypes, OutTypes, PiTypes,
                 stepVars, outVars, piVars
  <2> QED BY <2>2, <2>3 DEF TypeOK
<1>12. ASSUME Dispose PROVE TypeOK'
  BY <1>12 DEF Dispose, TypeOK, RunnerTypes, ControlTypes, RefTypes, StepTypes, OutTypes, PiTypes,
               runnerVars, refVars, stepVars, outVars, piVars
<1>13. ASSUME PiUnchanged, PiTypes', capture' = capture,
              seen' \in [Runs -> SUBSET (0..MaxRuns)]
       PROVE  TypeOK'
  BY <1>13 DEF PiUnchanged, TypeOK, RunnerTypes, ControlTypes, RefTypes, StepTypes, OutTypes,
               runnerVars, refVars, outVars
<1>14. ASSUME PiAccepts PROVE TypeOK'
  <2>1. Head(outbox) \in Prompts /\ Tail(outbox) \in Seq(Prompts)
        /\ Turn(Head(outbox)) \in Turns /\ Head(outbox).run \in 0..MaxRuns
    <3>1. Head(outbox) \in Prompts /\ Tail(outbox) \in Seq(Prompts)
      BY <1>14 DEF PiAccepts, TypeOK, PiTypes
    <3> QED BY <3>1, PromptTyping DEF Prompts
  <2>2. PiTypes'
    <3>1. Append(turns, Turn(Head(outbox))) \in Seq(Turns) /\ turns \in Seq(Turns)
          /\ Append(turns, Turn(Head(outbox))) # <<>>
      BY <2>1, AppendTyping DEF TypeOK, PiTypes
    <3>2. Append(queue, Head(outbox)) \in Seq(Prompts) /\ queue \in Seq(Prompts)
      BY <2>1, AppendTyping DEF TypeOK, PiTypes
    <3>3. turns' \in Seq(Turns) /\ queue' \in Seq(Prompts) /\ outbox' \in Seq(Prompts)
      BY <1>14, <2>1, <3>1, <3>2 DEF PiAccepts
    <3>4. busy' \in BOOLEAN /\ (busy' => turns' # <<>>) /\ lost' \subseteq 0..MaxRuns
      BY <1>14, <2>1, <3>1 DEF PiAccepts, TypeOK, PiTypes
    <3> QED BY <1>14, <3>3, <3>4 DEF PiAccepts, PiUnchanged, TypeOK, PiTypes
  <2> QED BY <1>13, <1>14, <2>2 DEF PiAccepts, TypeOK, StepTypes
<1>15. ASSUME PiToolEvent PROVE TypeOK'
  <2>1. Current \in Turns /\ capture \in Runs
    BY <1>15 DEF PiToolEvent, Current, TypeOK, PiTypes, StepTypes, Runs
  <2>2. seen' \in [Runs -> SUBSET (0..MaxRuns)]
    BY <1>15, <2>1 DEF PiToolEvent, TypeOK, StepTypes, Turns
  <2>3. PiTypes'
    BY <1>15 DEF PiToolEvent, PiUnchanged, TypeOK, PiTypes, piVars
  <2> QED BY <1>13, <1>15, <2>2, <2>3 DEF PiToolEvent
<1>16. ASSUME NEW out \in Outcomes, PiAnswers(out) PROVE TypeOK'
  <2>1. Len(turns) \in DOMAIN turns /\ turns[Len(turns)] \in Turns
    BY <1>16 DEF PiAnswers, TypeOK, PiTypes
  <2>2. [turns[Len(turns)] EXCEPT !.out = out] \in Turns
    BY <2>1 DEF Turns
  <2>3. turns' = [turns EXCEPT ![Len(turns)] = [turns[Len(turns)] EXCEPT !.out = out]]
    BY <1>16, <2>1 DEF PiAnswers, TypeOK, PiTypes
  <2>4. turns' \in Seq(Turns) /\ turns' # <<>>
    BY <2>1, <2>2, <2>3 DEF TypeOK, PiTypes
  <2>5. PiTypes'
    BY <1>16, <2>4 DEF PiAnswers, PiUnchanged, TypeOK, PiTypes
  <2> QED BY <1>13, <1>16, <2>5 DEF PiAnswers, TypeOK, StepTypes
<1>17. ASSUME PiSettles PROVE TypeOK'
  <2>1. CASE queue # <<>>
    <3>1. Turn(Head(queue)) \in Turns /\ Tail(queue) \in Seq(Prompts)
      <4>1. Head(queue) \in Prompts /\ Tail(queue) \in Seq(Prompts)
        BY <2>1 DEF TypeOK, PiTypes
      <4> QED BY <4>1, PromptTyping
    <3>2. PiTypes'
      <4>1. turns' \in Seq(Turns) /\ turns' # <<>>
        <5>1. turns \in Seq(Turns) /\ turns' = Append(turns, Turn(Head(queue)))
          BY <1>17, <2>1 DEF PiSettles, TypeOK, PiTypes
        <5> QED BY <3>1, <5>1, AppendTyping
      <4> QED BY <1>17, <2>1, <3>1, <4>1 DEF PiSettles, PiUnchanged, TypeOK, PiTypes
    <3> QED BY <1>13, <1>17, <3>2 DEF PiSettles, TypeOK, StepTypes
  <2>2. CASE queue = <<>>
    <3>1. PiTypes'
      BY <1>17, <2>2 DEF PiSettles, PiUnchanged, TypeOK, PiTypes
    <3> QED BY <1>13, <1>17, <3>1 DEF PiSettles, TypeOK, StepTypes
  <2> QED BY <2>1, <2>2
<1>18. ASSUME UserPrompts PROVE TypeOK'
  <2> DEFINE p == Prompt(Text(0, "user"), 0, TRUE)
  <2>1. p \in Prompts /\ Turn(p) \in Turns
    BY PromptTyping
  <2>2. PiTypes'
    <3>1. Append(turns, Turn(p)) \in Seq(Turns) /\ Append(turns, Turn(p)) # <<>>
          /\ Append(queue, p) \in Seq(Prompts)
      BY <2>1, AppendTyping DEF TypeOK, PiTypes
    <3> QED BY <1>18, <3>1 DEF UserPrompts, PiUnchanged, TypeOK, PiTypes
  <2> QED BY <1>13, <1>18, <2>2 DEF UserPrompts, TypeOK, StepTypes
<1>19. ASSUME UserAborts PROVE TypeOK'
  <2>1. PiTypes'
    BY <1>19 DEF UserAborts, PiUnchanged, TypeOK, PiTypes
  <2> QED BY <1>13, <1>19, <2>1 DEF UserAborts, TypeOK, StepTypes
<1>20. CASE UNCHANGED vars
  BY <1>20 DEF vars, TypeOK, RunnerTypes, ControlTypes, RefTypes, StepTypes, OutTypes, PiTypes,
               runnerVars, refVars, stepVars, outVars, piVars
<1> QED BY <1>1, <1>2, <1>3, <1>4, <1>5, <1>6, <1>7, <1>8, <1>9, <1>10, <1>11, <1>12, <1>14,
           <1>15, <1>16, <1>17, <1>18, <1>19, <1>20 DEF Next, CoordinatorStep, PollStep, PiStep

\* Every reachable state has the types of TypeOK: a step index never leaves the
\* workflow (executeSteps' loop), a status is always one the code knows.
THEOREM TypeCorrect == Spec => []TypeOK
  BY TypeInit, TypeStep, PTL DEF Spec

-----------------------------------------------------------------------------
(* The runner agrees with the coordinator *)

(* RunnerAgreesWithRef is not inductive: a run may lose its place between    *)
(* the end of its loop and its finish, and a new run may be created.  The    *)
(* strengthening says where a run that is not finished can be.               *)
Unfinished == Waiting \cup {"finish"}
RefInv ==
    /\ \A r \in Runs : r > activeRun => pc[r] = "idle"
    /\ \A r \in Runs : pc[r] = "idle" => status[r] = "none" /\ ~active[r]
    /\ activeRef \in {0, activeRun}
    /\ activeRef # 0 => pc[activeRef] \in Unfinished
    /\ \A r \in Runs : pc[r] \in Unfinished /\ active[r] => r = activeRef
    /\ \A r \in Runs : pc[r] = "finish" => chain = r
    /\ \A r \in Runs : status[r] = "running" <=> (pc[r] \in Waiting /\ active[r])
    /\ ContextFollowsRun
IInv == TypeOK /\ RefInv

THEOREM IInvImpliesAgreement == IInv => RunnerAgreesWithRef /\ ContextFollowsRun
<1> SUFFICES ASSUME IInv PROVE RunnerAgreesWithRef
  BY DEF IInv, RefInv
<1>1. ASSUME NEW r \in Runs, status[r] = "running" PROVE r = activeRun /\ r = activeRef
  BY <1>1 DEF IInv, RefInv, Unfinished, Runs
<1> QED BY <1>1 DEF IInv, RefInv, RunnerAgreesWithRef

\* What a poll that ends the executor does to run r: it leaves the loop, no longer
\* running, or a running run goes on to wait for the next step.
LoopEffect(r) ==
    \/ /\ \E st \in RunStatuses \ {"running"} : status' = [status EXCEPT ![r] = st]
       /\ pc' = [pc EXCEPT ![r] = "finish"] /\ chain' = r
    \/ /\ status[r] = "running" /\ status' = status
       /\ pc' = [pc EXCEPT ![r] = "prev"] /\ chain' = r

LEMMA NextStepEffect ==
    ASSUME NEW r \in Runs, NEW st, NEW cap, NextStep(r, st, cap), status[r] = "running"
    PROVE  LoopEffect(r)
  BY DEF NextStep, LeaveLoop, LoopEffect, RunStatuses

LEMMA ThrowEffect ==
    ASSUME TypeOK, NEW r \in Runs, StepThrew(r)
    PROVE  LoopEffect(r) /\ activeRun' = activeRun
<1>1. CASE Retired(r)
  BY <1>1 DEF StepThrew, LeaveLoop, LoopEffect, Retired, TypeOK, RunnerTypes
<1>2. CASE ~Retired(r) /\ stepIdx[r] \in Skippable
  BY <1>2, NextStepEffect DEF StepThrew, Retired
<1>3. CASE ~Retired(r) /\ stepIdx[r] \notin Skippable
  BY <1>3 DEF StepThrew, LeaveLoop, LoopEffect, RunStatuses
<1> QED BY <1>1, <1>2, <1>3 DEF StepThrew

LEMMA ReturnEffect ==
    ASSUME TypeOK, NEW r \in Runs, StepReturned(r)
    PROVE  LoopEffect(r) /\ activeRun' = activeRun
<1>1. CASE Retired(r)
  BY <1>1 DEF StepReturned, LeaveLoop, LoopEffect, Retired, TypeOK, RunnerTypes
<1>2. CASE ~Retired(r)
  BY <1>2, NextStepEffect DEF StepReturned, Retired
<1> QED BY <1>1, <1>2 DEF StepReturned

\* Such a poll keeps the invariant when the run references stay as they are.
LEMMA LoopEffectKeepsRefInv ==
    ASSUME IInv, NEW r \in Runs, Polls(r), LoopEffect(r), activeRun' = activeRun,
           UNCHANGED refVars
    PROVE  RefInv'
<1>0. pc[r] \in Waiting /\ chain \in {0, r} /\ pc \in [Runs -> Waiting \cup {"idle", "finish", "done"}]
      /\ status \in [Runs -> RunStatuses] /\ UNCHANGED <<activeRef, active, reason, ctx>>
  BY DEF Polls, IInv, TypeOK, ControlTypes, RunnerTypes, refVars
<1>1. chain' = r /\ pc'[r] \in {"finish", "prev"} /\ (pc'[r] = "finish" => status'[r] # "running")
      /\ (pc'[r] = "prev" => status'[r] = "running" /\ status[r] = "running")
      /\ \A q \in Runs \ {r} : pc'[q] = pc[q] /\ status'[q] = status[q]
  BY <1>0 DEF LoopEffect
<1>2. r \in 1..activeRun
  BY <1>0 DEF IInv, RefInv, Runs, Waiting, TypeOK, RunnerTypes
<1>3. \A q \in Runs : pc'[q] = "finish" => q = r
  BY <1>0, <1>1 DEF IInv, RefInv, Runs
<1>4. \A q \in Runs : status'[q] = "running" <=> (pc'[q] \in Waiting /\ active'[q])
  BY <1>0, <1>1 DEF IInv, RefInv, Waiting
<1>5. \A q \in Runs : pc'[q] = "idle" => status'[q] = "none" /\ ~active'[q]
  BY <1>0, <1>1 DEF IInv, RefInv
<1>6. \A q \in Runs : q > activeRun' => pc'[q] = "idle"
  <2>1. ASSUME NEW q \in Runs, q > activeRun PROVE pc'[q] = "idle"
    <3>1. pc[q] = "idle"
      BY <2>1 DEF IInv, RefInv
    <3>2. q # r
      BY <1>0, <3>1 DEF Waiting
    <3> QED BY <1>1, <3>1, <3>2
  <2> QED BY <2>1
<1>7. \A q \in Runs : pc'[q] \in Unfinished /\ active'[q] => q = activeRef'
  BY <1>0, <1>1 DEF IInv, RefInv, Unfinished
<1>8. activeRef' # 0 => pc'[activeRef'] \in Unfinished
  BY <1>0, <1>1 DEF IInv, RefInv, Unfinished, Waiting, TypeOK, RefTypes, Runs
<1>9. ContextFollowsRun' /\ activeRef' \in {0, activeRun'}
  BY <1>0 DEF IInv, RefInv, ContextFollowsRun
<1> QED BY <1>1, <1>3, <1>4, <1>5, <1>6, <1>7, <1>8, <1>9 DEF RefInv

\* Steps of Pi and the user leave everything of RefInv alone.
LEMMA PiKeepsRefInv ==
    ASSUME RefInv, UNCHANGED <<activeRun, status, pc, chain, activeRef, active, ctx>>
    PROVE  RefInv'
  BY DEF RefInv, ContextFollowsRun

\* Retiring the coordinator's current run retires the runner's.
LEMMA InterruptEffect ==
    ASSUME IInv, NEW r \in Runs, NEW why, r = activeRef, Interrupt(r, why)
    PROVE  /\ \A q \in Runs : status'[q] = "running" <=> (pc[q] \in Waiting /\ active'[q])
           /\ \A q \in Runs : status[q] = "none" => status'[q] = "none"
           /\ active' = [active EXCEPT ![r] = FALSE]
<1>1. status' = StatusAfterCancel /\ active' = [active EXCEPT ![r] = FALSE]
  BY DEF Interrupt
<1>2. ASSUME NEW q \in Runs, status[q] = "running" PROVE q = r /\ q = activeRun
  BY <1>2 DEF IInv, RefInv, Unfinished, Runs
<1>3. \A q \in Runs : status'[q] # "running"
  BY <1>1, <1>2 DEF StatusAfterCancel
<1>4. \A q \in Runs : ~(pc[q] \in Waiting /\ active'[q])
  BY <1>1 DEF IInv, RefInv, TypeOK, RefTypes, Unfinished
<1>5. \A q \in Runs : status[q] = "none" => status'[q] = "none"
  BY <1>1 DEF StatusAfterCancel
<1> QED BY <1>1, <1>3, <1>4, <1>5

LEMMA RefInit == Init => RefInv
  BY DEF Init, RefInv, ContextFollowsRun, Unfinished, Waiting

LEMMA RefStep == IInv /\ [Next]_vars => RefInv'
<1> SUFFICES ASSUME IInv, [Next]_vars PROVE RefInv'
  OBVIOUS
<1> USE RunsAreNumbers
<1>a. TypeOK /\ RefInv
  BY DEF IInv
<1>1. ASSUME NEW transform \in BOOLEAN, StartWorkflowRun(transform) PROVE RefInv'
  <2> DEFINE r == activeRun + 1
  <2>1. /\ chain = 0 /\ r \in Runs /\ activeRun' = r /\ activeRef' = r /\ ctx' = r
        /\ active' = [i \in Runs |-> IF i = activeRef THEN FALSE ELSE i = r \/ active[i]]
        /\ status' = [StatusAfterCancel EXCEPT ![r] = "running"]
        /\ pc' = [pc EXCEPT ![r] = "step"] /\ chain' = 0
    BY <1>1 DEF StartWorkflowRun, RunnerStart
  <2>2. /\ pc \in [Runs -> Waiting \cup {"idle", "finish", "done"}] /\ activeRun \in Nat
        /\ pc'[r] = "step" /\ \A q \in Runs \ {r} : pc'[q] = pc[q]
    BY <2>1, <1>a DEF TypeOK, ControlTypes, RunnerTypes
  <2>3. activeRef # r /\ active'[r]
    <3>1. activeRef # r
      BY <1>a, <2>2 DEF RefInv
    <3> QED BY <2>1, <3>1
  <2>4. \A q \in Runs \ {r} : active'[q] = (active[q] /\ q # activeRef)
    BY <2>1, <1>a DEF TypeOK, RefTypes
  <2>5. \A q \in Runs \ {r} : status'[q] # "running"
    <3>1. ASSUME NEW q \in Runs \ {r}, status'[q] = "running" PROVE FALSE
      <4>1. status'[q] = StatusAfterCancel[q]
        BY <2>1 DEF StatusAfterCancel
      <4>2. status[q] = "running" /\ q # activeRun
        BY <3>1, <4>1 DEF StatusAfterCancel
      <4>3. q = activeRef /\ activeRef \in {0, activeRun}
        BY <1>a, <4>2 DEF RefInv, Unfinished
      <4> QED BY <4>2, <4>3 DEF Runs
    <3> QED BY <3>1
  <2>6. \A q \in Runs \ {r} : ~(pc'[q] \in Waiting /\ active'[q])
    BY <1>a, <2>2, <2>4 DEF RefInv, Unfinished
  <2>7. status'[r] = "running"
    BY <2>1 DEF StatusAfterCancel
  <2>8. \A q \in Runs : pc'[q] = "idle" => status'[q] = "none" /\ ~active'[q]
    <3>1. ASSUME NEW q \in Runs \ {r}, pc'[q] = "idle" PROVE status'[q] = "none" /\ ~active'[q]
      <4>1. status[q] = "none" /\ ~active[q]
        BY <1>a, <2>2, <3>1 DEF RefInv
      <4> QED BY <2>1, <2>4, <4>1 DEF StatusAfterCancel
    <3> QED BY <2>2, <3>1
  <2>9. \A q \in Runs : q > activeRun' => pc'[q] = "idle"
    BY <1>a, <2>1, <2>2 DEF RefInv, Runs
  <2>10. \A q \in Runs : pc'[q] # "finish"
    BY <1>a, <2>1, <2>2 DEF RefInv, Runs
  <2>11. \A q \in Runs : pc'[q] \in Unfinished /\ active'[q] => q = activeRef'
    BY <2>1, <2>6, <2>10 DEF Unfinished
  <2>12. ContextFollowsRun' /\ activeRef' \in {0, activeRun'} /\ pc'[activeRef'] \in Unfinished
    BY <2>1, <2>2 DEF ContextFollowsRun, Unfinished, Waiting
  <2>13. \A q \in Runs : status'[q] = "running" <=> (pc'[q] \in Waiting /\ active'[q])
    BY <2>2, <2>3, <2>5, <2>6, <2>7 DEF Waiting
  <2> QED BY <2>8, <2>9, <2>10, <2>11, <2>12, <2>13 DEF RefInv
<1>2. ASSUME NEW r \in Runs, RetiredPoll(r) PROVE RefInv'
  BY <1>2, <1>a, ThrowEffect, LoopEffectKeepsRefInv DEF RetiredPoll
<1>3. ASSUME NEW r \in Runs, StalePoll(r) PROVE RefInv'
  <2>1. r = activeRef /\ pc[r] \in Waiting /\ chain \in {0, r}
    BY <1>3, <1>a DEF StalePoll, Polls, RefInv, Unfinished
  <2>2. /\ \A q \in Runs : status'[q] = "running" <=> (pc[q] \in Waiting /\ active'[q])
        /\ \A q \in Runs : status[q] = "none" => status'[q] = "none"
        /\ active' = [active EXCEPT ![r] = FALSE]
    BY <1>3, <2>1, InterruptEffect DEF StalePoll
  <2>3. /\ pc' = [pc EXCEPT ![r] = "finish"] /\ chain' = r
        /\ UNCHANGED <<activeRun, activeRef, ctx>>
    BY <1>3 DEF StalePoll
  <2>4. /\ pc'[r] = "finish" /\ \A q \in Runs \ {r} : pc'[q] = pc[q]
        /\ ~active'[r] /\ \A q \in Runs \ {r} : active'[q] = active[q]
    BY <1>a, <2>2, <2>3 DEF TypeOK, ControlTypes, RefTypes
  <2>5. \A q \in Runs : pc'[q] = "finish" => q = r
    BY <1>a, <2>1, <2>4 DEF RefInv, Runs
  <2>6. \A q \in Runs : status'[q] = "running" <=> (pc'[q] \in Waiting /\ active'[q])
    BY <2>2, <2>4 DEF Waiting
  <2>7. \A q \in Runs : pc'[q] = "idle" => status'[q] = "none" /\ ~active'[q]
    BY <1>a, <2>2, <2>4 DEF RefInv
  <2>8. \A q \in Runs : q > activeRun' => pc'[q] = "idle"
    BY <1>a, <2>1, <2>3, <2>4 DEF RefInv, Waiting
  <2>9. \A q \in Runs : pc'[q] \in Unfinished /\ active'[q] => q = activeRef'
    BY <1>a, <2>3, <2>4 DEF RefInv
  <2>10. ContextFollowsRun' /\ activeRef' \in {0, activeRun'} /\ pc'[activeRef'] \in Unfinished
    BY <1>a, <2>1, <2>3, <2>4 DEF RefInv, ContextFollowsRun, Unfinished
  <2> QED BY <2>3, <2>5, <2>6, <2>7, <2>8, <2>9, <2>10 DEF RefInv
<1>4. ASSUME NEW r \in Runs, FailedPoll(r) PROVE RefInv'
  BY <1>4, <1>a, ThrowEffect, LoopEffectKeepsRefInv DEF FailedPoll, Observes
<1>5. ASSUME NEW r \in Runs, SkipRebuttal(r) PROVE RefInv'
  BY <1>5, <1>a, ThrowEffect, LoopEffectKeepsRefInv DEF SkipRebuttal, Settles, Observes
<1>6. ASSUME NEW r \in Runs, RejectOutput(r) PROVE RefInv'
  BY <1>6, <1>a, ThrowEffect, LoopEffectKeepsRefInv DEF RejectOutput, Settles, Observes
<1>7. ASSUME NEW r \in Runs, AcceptOutput(r) PROVE RefInv'
  BY <1>7, <1>a, ReturnEffect, LoopEffectKeepsRefInv DEF AcceptOutput, Settles, Observes
<1>8. ASSUME NEW r \in Runs, NEW kind \in {"step", "retry", "repair"}, SendNext(r, kind)
      PROVE  RefInv'
  <2>1. /\ pc[r] \in Waiting /\ chain \in {0, r} /\ active[r]
        /\ pc' = [pc EXCEPT ![r] = kind] /\ chain' = 0
        /\ UNCHANGED <<activeRun, status, activeRef, active, ctx>>
    BY <1>8 DEF SendNext, SendPrompt, Settles, Observes, Polls, runnerVars, refVars
  <2>2. pc'[r] \in Waiting /\ pc'[r] = kind /\ \A q \in Runs \ {r} : pc'[q] = pc[q]
    BY <1>a, <2>1 DEF TypeOK, ControlTypes, Waiting
  <2>3. \A q \in Runs : pc'[q] # "finish"
    BY <1>a, <2>1, <2>2 DEF RefInv, Runs, Waiting
  <2>4. r <= activeRun
    BY <1>a, <2>1 DEF RefInv, Waiting, Runs, TypeOK, RunnerTypes
  <2>5. \A q \in Runs : q > activeRun' => pc'[q] = "idle"
    BY <1>a, <2>1, <2>2, <2>4 DEF RefInv, Runs, TypeOK, RunnerTypes
  <2>6. activeRef' # 0 => pc'[activeRef'] \in Unfinished
    BY <1>a, <2>1, <2>2 DEF RefInv, Unfinished, TypeOK, RefTypes, Runs
  <2>7. \A q \in Runs : pc'[q] \in Unfinished /\ active'[q] => q = activeRef'
    BY <1>a, <2>1, <2>2 DEF RefInv, Unfinished
  <2> QED BY <1>a, <2>1, <2>2, <2>3, <2>5, <2>6, <2>7 DEF RefInv, ContextFollowsRun, Waiting
<1>9. ASSUME NEW r \in Runs, FinishWorkflowRun(r) PROVE RefInv'
  <2>1. /\ pc[r] = "finish" /\ chain = r /\ pc' = [pc EXCEPT ![r] = "done"] /\ chain' = 0
        /\ ctx' = (IF OwnsContext(r) THEN 0 ELSE ctx)
        /\ activeRef' = (IF Owns(r) THEN 0 ELSE activeRef)
        /\ UNCHANGED <<activeRun, status, active>>
    BY <1>9 DEF FinishWorkflowRun, runnerVars
  <2>2. pc'[r] = "done" /\ \A q \in Runs \ {r} : pc'[q] = pc[q] /\ pc[q] # "finish"
    BY <1>a, <2>1 DEF TypeOK, ControlTypes, RefInv, Runs
  <2>3. ContextFollowsRun'
    BY <1>a, <2>1 DEF RefInv, ContextFollowsRun, Owns, OwnsContext
  <2>4. activeRef' \in {0, activeRun'} /\ (activeRef' # 0 => activeRef' # r /\ activeRef' = activeRef)
    BY <1>a, <2>1 DEF RefInv, Owns
  <2>5. activeRef' # 0 => pc'[activeRef'] \in Unfinished
    BY <1>a, <2>1, <2>2, <2>4 DEF RefInv, TypeOK, RefTypes, Runs
  <2>6. \A q \in Runs : pc'[q] \in Unfinished /\ active'[q] => q = activeRef'
    BY <1>a, <2>1, <2>2 DEF RefInv, Unfinished, Owns, Waiting
  <2>7. \A q \in Runs : q > activeRun' => pc'[q] = "idle"
    BY <1>a, <2>1, <2>2 DEF RefInv
  <2>8. \A q \in Runs : status'[q] = "running" <=> (pc'[q] \in Waiting /\ active'[q])
    BY <1>a, <2>1, <2>2 DEF RefInv, Waiting
  <2>9. \A q \in Runs : pc'[q] = "idle" => status'[q] = "none" /\ ~active'[q]
    BY <1>a, <2>1, <2>2 DEF RefInv
  <2> QED BY <2>2, <2>3, <2>4, <2>5, <2>6, <2>7, <2>8, <2>9 DEF RefInv
<1>10. ASSUME NEW r \in Runs, NEW why, r = activeRef, Interrupt(r, why),
              UNCHANGED <<activeRun, pc, chain, activeRef>>,
              ctx' \in {ctx, 0}
       PROVE  RefInv'
  <2>1. /\ \A q \in Runs : status'[q] = "running" <=> (pc[q] \in Waiting /\ active'[q])
        /\ \A q \in Runs : status[q] = "none" => status'[q] = "none"
        /\ active' = [active EXCEPT ![r] = FALSE]
    BY <1>10, InterruptEffect
  <2>2. ~active'[r] /\ \A q \in Runs : active'[q] => active[q]
    BY <1>a, <2>1 DEF TypeOK, RefTypes
  <2>3. ContextFollowsRun'
    BY <1>a, <1>10, <2>2 DEF RefInv, ContextFollowsRun
  <2> QED BY <1>a, <1>10, <2>1, <2>2, <2>3 DEF RefInv
<1>11. ASSUME CancelActiveWorkflow PROVE RefInv'
  <2>0. UNCHANGED <<activeRun, pc, chain, activeRef>>
    BY <1>11 DEF CancelActiveWorkflow
  <2>1. CASE activeRef # 0
    <3>1. activeRef \in Runs /\ Interrupt(activeRef, "stopped") /\ ctx' \in {ctx, 0}
      BY <1>11, <1>a, <2>1 DEF CancelActiveWorkflow, TypeOK, RefTypes, Runs
    <3> QED BY <1>10, <2>0, <3>1
  <2>2. CASE activeRef = 0
    <3>1. status' = StatusAfterCancel /\ UNCHANGED <<active, ctx>>
      BY <1>11, <2>2 DEF CancelActiveWorkflow
    <3>2. \A q \in Runs : status[q] # "running"
      BY <1>a, <2>2 DEF RefInv, Unfinished, Runs
    <3>3. status' = status
      BY <1>a, <3>1, <3>2 DEF StatusAfterCancel, TypeOK, RunnerTypes
    <3> QED BY <1>a, <2>0, <3>1, <3>3, PiKeepsRefInv
  <2> QED BY <2>1, <2>2
<1>12. ASSUME SessionShutdown PROVE RefInv'
  <2>1. activeRef \in Runs /\ Interrupt(activeRef, "session_shutdown")
        /\ UNCHANGED <<activeRun, pc, chain, activeRef, ctx>>
    BY <1>12, <1>a DEF SessionShutdown, TypeOK, RefTypes, Runs
  <2> QED BY <1>10, <2>1
<1>13. ASSUME Dispose PROVE RefInv'
  BY <1>13, <1>a, PiKeepsRefInv DEF Dispose, runnerVars, refVars
<1>14. ASSUME PiUnchanged PROVE RefInv'
  BY <1>14, <1>a, PiKeepsRefInv DEF PiUnchanged, runnerVars, refVars
<1>15. ASSUME PiStep \/ PiToolEvent \/ UserPrompts \/ UserAborts PROVE RefInv'
  BY <1>14, <1>15 DEF PiStep, PiAccepts, PiSettles, PiAnswers, PiToolEvent, UserPrompts, UserAborts
<1>16. CASE UNCHANGED vars
  BY <1>16, <1>a, PiKeepsRefInv DEF vars, runnerVars, refVars
<1> QED BY <1>1, <1>2, <1>3, <1>4, <1>5, <1>6, <1>7, <1>8, <1>9, <1>11, <1>12, <1>13, <1>15,
           <1>16 DEF Next, CoordinatorStep, PollStep

LEMMA IInvariant == Spec => []IInv
<1>1. Init => IInv
  BY TypeInit, RefInit DEF IInv
<1>2. IInv /\ [Next]_vars => IInv'
  BY TypeStep, RefStep DEF IInv
<1> QED BY <1>1, <1>2, PTL DEF Spec

\* The WorkflowRunner and the SessionCoordinator never disagree on the run that is
\* going on, whatever is stopped, replaced, interrupted or left stale.
THEOREM RunnerAgrees == Spec => []RunnerAgreesWithRef
  BY IInvariant, IInvImpliesAgreement, PTL

\* The process-wide run context is the current run's while it is current, and is
\* left to no run that is over.
THEOREM ContextFollows == Spec => []ContextFollowsRun
  BY IInvariant, IInvImpliesAgreement, PTL

-----------------------------------------------------------------------------
(* A retired run does nothing more *)

\* What the end of a step changes for the runs: its own step index, and the step
\* capture goes to it or to nobody.
LEMMA ThrowTouches ==
    ASSUME TypeOK, NEW q \in Runs, StepThrew(q)
    PROVE  /\ evidence' = evidence /\ capture' \in {capture, q}
           /\ \A r \in Runs \ {q} : stepIdx'[r] = stepIdx[r]
           /\ Retired(q) => stepIdx' = stepIdx /\ capture' = capture
  BY DEF StepThrew, NextStep, LeaveLoop, TypeOK, RunnerTypes

LEMMA ReturnTouches ==
    ASSUME TypeOK, NEW q \in Runs, StepReturned(q)
    PROVE  /\ capture' \in {capture, q, 0}
           /\ \A r \in Runs \ {q} : stepIdx'[r] = stepIdx[r] /\ evidence'[r] = evidence[r]
<1>1. capture' \in {capture, q, 0} /\ \A r \in Runs \ {q} : stepIdx'[r] = stepIdx[r]
  BY DEF StepReturned, NextStep, LeaveLoop, TypeOK, RunnerTypes
<1>2. \A r \in Runs \ {q} : evidence'[r] = evidence[r]
  BY DEF StepReturned, TypeOK, StepTypes
<1> QED BY <1>1, <1>2

\* The prompt appended to the outbox is its last.
LEMMA LastAppended ==
    ASSUME NEW S, NEW s \in Seq(S), NEW e \in S
    PROVE  Append(s, e)[Len(Append(s, e))] = e
  OBVIOUS

\* The part of RetiredRunsAreSilent about run r.
Silent(r) ==
    /\ ~Sends(r) /\ stepIdx'[r] = stepIdx[r] /\ evidence'[r] = evidence[r]
    /\ (capture' = r => capture = r)

LEMMA SilentStep ==
    ASSUME IInv, [Next]_vars, NEW r \in 1..activeRun, ~active[r]
    PROVE  Silent(r)
<1>a. TypeOK /\ RefInv
  BY DEF IInv
<1>b. r \in Runs /\ r # 0 /\ activeRun \in Nat
  BY <1>a DEF TypeOK, RunnerTypes, Runs
<1>c. outbox \in Seq(Prompts)
  BY <1>a DEF TypeOK, PiTypes
<1>q. ASSUME UNCHANGED <<stepIdx, evidence, outbox>>, capture' \in {capture, 0}
      PROVE  Silent(r)
  BY <1>b, <1>q DEF Silent, Sends
<1>1. ASSUME NEW transform \in BOOLEAN, StartWorkflowRun(transform) PROVE Silent(r)
  <2> DEFINE q == activeRun + 1
             p == Prompt(Text(1, "step"), q, ~Ready)
  <2>1. /\ q \in Runs /\ outbox' = Append(outbox, p) /\ capture' = q /\ evidence' = evidence
        /\ stepIdx' = [stepIdx EXCEPT ![q] = 1]
    BY <1>1 DEF StartWorkflowRun, RunnerStart
  <2>2. q # r
    BY <1>b
  <2>3. p \in Prompts /\ p.run = q
    <3>1. Text(1, "step") \in Texts /\ (~Ready) \in BOOLEAN
      BY PromptTyping, RunsAreNumbers
    <3> QED BY <2>1, <3>1, PromptTyping, RunsAreNumbers DEF Prompt
  <2>4. outbox'[Len(outbox')] = p
    BY <1>c, <2>1, <2>3, LastAppended
  <2>5. stepIdx'[r] = stepIdx[r]
    BY <1>a, <1>b, <2>1, <2>2 DEF TypeOK, RunnerTypes
  <2> QED BY <2>1, <2>2, <2>3, <2>4, <2>5 DEF Silent, Sends
<1>2. ASSUME NEW q \in Runs, RetiredPoll(q) PROVE Silent(r)
  <2>1. Retired(q)
    BY <1>2, <1>a DEF RetiredPoll, NoticesRetirement, Polls, RefInv, Retired
  <2> QED BY <1>2, <1>a, <1>q, <2>1, ThrowTouches DEF RetiredPoll, piVars
<1>3. ASSUME NEW q \in Runs, StalePoll(q) PROVE Silent(r)
  BY <1>3, <1>q DEF StalePoll, stepVars, piVars
<1>4. ASSUME NEW q \in Runs, StepThrew(q), active[q], outbox' = outbox PROVE Silent(r)
  BY <1>4, <1>a, <1>b, ThrowTouches DEF Silent, Sends
<1>5. ASSUME NEW q \in Runs, FailedPoll(q) \/ SkipRebuttal(q) \/ RejectOutput(q) PROVE Silent(r)
  BY <1>4, <1>5 DEF FailedPoll, SkipRebuttal, RejectOutput, Settles, Observes, piVars
<1>6. ASSUME NEW q \in Runs, AcceptOutput(q) PROVE Silent(r)
  <2>1. active[q] /\ StepReturned(q) /\ outbox' = outbox
    BY <1>6 DEF AcceptOutput, Settles, Observes, piVars
  <2> QED BY <1>a, <1>b, <2>1, ReturnTouches DEF Silent, Sends
<1>7. ASSUME NEW q \in Runs, NEW kind \in {"step", "retry", "repair"}, SendNext(q, kind)
      PROVE  Silent(r)
  <2>1. /\ active[q] /\ UNCHANGED <<stepIdx, capture, evidence>>
        /\ outbox' = Append(outbox, Prompt(Text(stepIdx[q], kind), q, FALSE))
    BY <1>7 DEF SendNext, SendPrompt, Settles, Observes, runnerVars
  <2>2. PICK p \in Prompts : p.run = q /\ outbox' = Append(outbox, p)
    <3>1. Text(stepIdx[q], kind) \in Texts
      BY <1>a, PromptTyping DEF TypeOK, RunnerTypes
    <3> QED BY <2>1, <3>1, PromptTyping, RunsAreNumbers DEF Prompt
  <2>3. outbox'[Len(outbox')] = p
    BY <1>c, <2>2, LastAppended
  <2> QED BY <2>1, <2>2, <2>3 DEF Silent, Sends
<1>8. ASSUME NEW q \in Runs, FinishWorkflowRun(q) PROVE Silent(r)
  BY <1>8, <1>q DEF FinishWorkflowRun, runnerVars, piVars
<1>9. ASSUME CancelActiveWorkflow PROVE Silent(r)
  BY <1>9, <1>q DEF CancelActiveWorkflow
<1>10. ASSUME SessionShutdown \/ Dispose PROVE Silent(r)
  BY <1>10, <1>q DEF SessionShutdown, Dispose, runnerVars, stepVars, piVars
<1>11. ASSUME PiAccepts PROVE Silent(r)
  <2>1. UNCHANGED <<stepIdx, evidence, capture>> /\ outbox' = Tail(outbox) /\ outbox # <<>>
    BY <1>11 DEF PiAccepts, PiUnchanged, runnerVars
  <2>2. Len(outbox') = Len(outbox) - 1 /\ Len(outbox) \in Nat
    BY <1>c, <2>1
  <2> QED BY <2>1, <2>2 DEF Silent, Sends
<1>12. ASSUME PiUnchanged, UNCHANGED <<capture, outbox>> PROVE Silent(r)
  BY <1>12, <1>q DEF PiUnchanged, runnerVars
<1>13. ASSUME PiSettles \/ PiToolEvent \/ UserPrompts \/ UserAborts PROVE Silent(r)
  BY <1>12, <1>13 DEF PiSettles, PiToolEvent, UserPrompts, UserAborts, piVars
<1>14. ASSUME NEW out \in Outcomes, PiAnswers(out) PROVE Silent(r)
  BY <1>12, <1>14 DEF PiAnswers
<1>15. CASE UNCHANGED vars
  BY <1>15, <1>q DEF vars, runnerVars, stepVars, piVars
<1> QED BY <1>1, <1>2, <1>3, <1>5, <1>6, <1>7, <1>8, <1>9, <1>10, <1>11, <1>13,
           <1>14, <1>15 DEF Next, CoordinatorStep, PollStep, PiStep

\* A run that was stopped, replaced or interrupted sends nothing, begins nothing and
\* stores nothing, whatever its executor still receives.
THEOREM RetiredSilent == Spec => RetiredRunsAreSilent
<1>1. IInv /\ [Next]_vars =>
        [\A r \in 1..activeRun : ~active[r] =>
            /\ ~Sends(r) /\ stepIdx'[r] = stepIdx[r] /\ evidence'[r] = evidence[r]
            /\ (capture' = r => capture = r)]_vars
  BY SilentStep DEF Silent
<1> QED BY <1>1, IInvariant, PTL DEF Spec, RetiredRunsAreSilent

-----------------------------------------------------------------------------
(* Every run that ends is reported once, and as what it was *)

(* OutcomeIsRecorded speaks of runs that are done; the strengthening says    *)
(* what makes finishWorkflowRun report the right thing when it comes: a run  *)
(* that is not the coordinator's any more was cancelled by a later run, and  *)
(* the coordinator's own run is cancelled only for a reason.  A rejected     *)
(* draft raises vfail for the run whose chain is on its way to its finish.   *)
Ended == {"completed", "failed", "cancelled"}
Endings ==
    /\ \A r \in Runs : pc[r] # "done" => marker[r] = <<>> /\ ~logged[r] /\ ~notice[r]
    /\ \A r \in Runs : pc[r] \in Waiting => status[r] \in {"running", "cancelled"}
    /\ \A r \in Runs : pc[r] \in {"finish", "done"} => status[r] \in Ended
    /\ \A r \in Runs : pc[r] = "idle" \/ active[r] => reason[r] = "none"
    /\ \A r \in Runs : pc[r] \in Unfinished /\ r # activeRef =>
                          status[r] = "cancelled" /\ reason[r] = "none" /\ r < activeRun
    /\ \A r \in Runs : r = activeRef /\ status[r] = "cancelled" => reason[r] # "none"
    /\ Host = "tui" /\ life = "open" => \A r \in Runs : reason[r] = "none"
Rejections ==
    /\ \A r \in Runs : pc[r] = "repair" => stepIdx[r] \in Validated
    /\ \A r \in rejected : pc[r] \in {"finish", "done"} /\ status[r] = "failed"
    /\ \A r \in rejected : pc[r] = "finish" => vfail
    /\ vfail => chain \in rejected /\ chain = activeRef /\ pc[chain] = "finish"
Recorded == Endings /\ OutcomeIsRecorded
Noticed == Rejections /\ NoticeIffRejected

\* How the loop of the runner ends: a run cancelled meanwhile as it is, a running
\* one completed or failed; or the running run goes on with its next step.
LoopEnds(r) ==
    \/ /\ \E st \in {"completed", "failed", status[r]} :
             /\ (IF status[r] = "running" THEN st \in {"completed", "failed"} ELSE st = status[r])
             /\ status' = [status EXCEPT ![r] = st]
       /\ pc' = [pc EXCEPT ![r] = "finish"] /\ chain' = r
    \/ /\ status[r] = "running" /\ status' = status
       /\ pc' = [pc EXCEPT ![r] = "prev"] /\ chain' = r

LEMMA NextStepEnds ==
    ASSUME NEW r \in Runs, NEW st, NEW cap, NextStep(r, st, cap), status[r] = "running"
    PROVE  LoopEnds(r)
  BY DEF NextStep, LeaveLoop, LoopEnds

LEMMA ThrowEnds ==
    ASSUME NEW r \in Runs, StepThrew(r)
    PROVE  LoopEnds(r) /\ activeRun' = activeRun
<1>1. CASE Retired(r)
  BY <1>1 DEF StepThrew, LeaveLoop, LoopEnds, Retired
<1>2. CASE ~Retired(r) /\ stepIdx[r] \in Skippable
  BY <1>2, NextStepEnds DEF StepThrew, Retired
<1>3. CASE ~Retired(r) /\ stepIdx[r] \notin Skippable
  BY <1>3 DEF StepThrew, LeaveLoop, LoopEnds, Retired
<1> QED BY <1>1, <1>2, <1>3 DEF StepThrew

LEMMA ReturnEnds ==
    ASSUME NEW r \in Runs, StepReturned(r)
    PROVE  LoopEnds(r) /\ activeRun' = activeRun
<1>1. CASE Retired(r)
  BY <1>1 DEF StepReturned, LeaveLoop, LoopEnds, Retired
<1>2. CASE ~Retired(r)
  BY <1>2, NextStepEnds DEF StepReturned, Retired
<1> QED BY <1>1, <1>2 DEF StepReturned

LEMMA LoopEndsRecorded ==
    ASSUME IInv, Recorded, NEW r \in Runs, Polls(r), LoopEnds(r), activeRun' = activeRun,
           UNCHANGED <<refVars, outVars, life>>
    PROVE  Recorded'
<1>1. /\ pc[r] \in Waiting /\ UNCHANGED <<activeRef, active, reason, marker, notice, logged, life>>
      /\ pc \in [Runs -> Waiting \cup {"idle", "finish", "done"}]
      /\ status \in [Runs -> RunStatuses]
  BY DEF Polls, refVars, outVars, IInv, TypeOK, ControlTypes, RunnerTypes
<1>2. /\ \A q \in Runs \ {r} : pc'[q] = pc[q] /\ status'[q] = status[q]
      /\ \/ pc'[r] = "prev" /\ status'[r] = "running" /\ status[r] = "running"
         \/ /\ pc'[r] = "finish" /\ status'[r] \in Ended
            /\ status[r] \in {"running", "cancelled"}
            /\ status[r] = "cancelled" => status'[r] = "cancelled"
            /\ status'[r] = "cancelled" => status[r] = "cancelled"
  BY <1>1 DEF LoopEnds, Recorded, Endings, Ended
<1>3. status[r] = "running" => r = activeRef
  BY <1>1 DEF IInv, RefInv, Unfinished
<1>4. Endings'
  BY <1>1, <1>2, <1>3 DEF Recorded, Endings, Ended, Waiting, Unfinished
<1>5. \A q \in Runs : pc'[q] = "done" => q # r /\ pc[q] = "done" /\ FinalStatus(q)' = FinalStatus(q)
  BY <1>1, <1>2 DEF FinalStatus
<1>6. OutcomeIsRecorded'
  BY <1>1, <1>2, <1>5 DEF Recorded, OutcomeIsRecorded
<1> QED BY <1>4, <1>6 DEF Recorded

LEMMA LoopEndsNoticed ==
    ASSUME IInv, Noticed, NEW r \in Runs, Polls(r), LoopEnds(r),
           \A q \in Runs \ {r} : stepIdx'[q] = stepIdx[q],
           UNCHANGED <<refVars, outVars, vfail, rejected>>
    PROVE  Noticed'
<1>1. /\ pc[r] \in Waiting /\ chain \in {0, r} /\ UNCHANGED <<activeRef, reason, marker, notice>>
      /\ pc \in [Runs -> Waiting \cup {"idle", "finish", "done"}]
      /\ status \in [Runs -> RunStatuses] /\ rejected \subseteq Runs
  BY DEF Polls, refVars, outVars, IInv, TypeOK, ControlTypes, RunnerTypes, StepTypes
<1>2. /\ \A q \in Runs \ {r} : pc'[q] = pc[q] /\ status'[q] = status[q]
      /\ pc'[r] \in {"prev", "finish"}
  BY <1>1 DEF LoopEnds
<1>3. r \notin rejected /\ ~vfail
  BY <1>1 DEF Noticed, Rejections, Waiting, Runs
<1>4. Rejections'
  BY <1>1, <1>2, <1>3 DEF Noticed, Rejections
<1>5. NoticeIffRejected'
  BY <1>1, <1>2 DEF Noticed, NoticeIffRejected
<1> QED BY <1>4, <1>5 DEF Noticed

\* Interrupting the coordinator's run gives it the reason that reports it.
LEMMA InterruptRecorded ==
    ASSUME IInv, Recorded, NEW r \in Runs, NEW why \in Reasons \ {"none"}, r = activeRef,
           Interrupt(r, why), UNCHANGED <<activeRun, activeRef, outVars>>,
           Host = "tui" => life' # "open",
           life = "disposed" => life' = "disposed",
           \/ pc' = pc
           \/ pc[r] \in Waiting /\ active[r] /\ pc' = [pc EXCEPT ![r] = "finish"]
    PROVE  Recorded'
<1>1. /\ UNCHANGED <<marker, notice, logged>>
      /\ pc \in [Runs -> Waiting \cup {"idle", "finish", "done"}]
      /\ status \in [Runs -> RunStatuses] /\ active \in [Runs -> BOOLEAN]
      /\ reason \in [Runs -> Reasons]
  BY DEF outVars, IInv, TypeOK, ControlTypes, RunnerTypes, RefTypes
<1>2. pc[r] \in Unfinished
  BY DEF IInv, RefInv, Runs
<1>3. /\ \A q \in Runs \ {r} : pc'[q] = pc[q] /\ reason'[q] = reason[q] /\ active'[q] = active[q]
      /\ reason'[r] # "none" /\ pc'[r] \in Unfinished /\ ~active'[r]
      /\ pc'[r] \in {pc[r], "finish"}
  BY <1>1, <1>2 DEF Interrupt, Unfinished
<1>4. \A q \in Runs \ {r} : status'[q] = status[q]
  <2>1. \A q \in Runs \ {r} : status[q] # "running"
    BY DEF IInv, RefInv, Unfinished
  <2> QED BY <2>1 DEF Interrupt, StatusAfterCancel
<1>5. status[r] = "running" => r = activeRun
  BY DEF IInv, RefInv, Runs
<1>6. status'[r] = IF status[r] = "running" THEN "cancelled" ELSE status[r]
  BY <1>5 DEF Interrupt, StatusAfterCancel
<1>7. pc[r] \in Waiting => pc'[r] = "finish" \/ pc'[r] = pc[r]
  BY <1>3
<1>8. pc'[r] = "finish" => status'[r] \in Ended
  BY <1>2, <1>6, <1>3 DEF Recorded, Endings, Ended, Unfinished
<1>9. pc'[r] \in Waiting => status'[r] \in {"running", "cancelled"}
  BY <1>3, <1>6 DEF Recorded, Endings, Waiting
<1>10. Endings'
  BY <1>1, <1>2, <1>3, <1>4, <1>8, <1>9 DEF Recorded, Endings, Ended, Waiting, Unfinished
<1>11. \A q \in Runs : pc'[q] = "done" => q # r /\ pc[q] = "done" /\ FinalStatus(q)' = FinalStatus(q)
  BY <1>3, <1>4 DEF FinalStatus, Unfinished, Waiting
<1>12. OutcomeIsRecorded'
  BY <1>1, <1>4, <1>3, <1>11 DEF Recorded, OutcomeIsRecorded
<1> QED BY <1>10, <1>12 DEF Recorded

\* What neither ends, retires nor finishes a run keeps its record.
LEMMA KeepsRecorded ==
    ASSUME Recorded, life = "disposed" => life' = "disposed",
           life # "open" => life' # "open",
           UNCHANGED <<activeRun, status, pc, activeRef, active, reason, marker, notice, logged>>
    PROVE  Recorded'
<1>1. Endings'
  BY DEF Recorded, Endings
<1>2. \A r \in Runs : FinalStatus(r)' = FinalStatus(r)
  BY DEF FinalStatus
<1>3. OutcomeIsRecorded'
  BY <1>2 DEF Recorded, OutcomeIsRecorded
<1> QED BY <1>1, <1>3 DEF Recorded

LEMMA KeepsNoticed ==
    ASSUME Noticed,
           UNCHANGED <<stepIdx, status, pc, chain, activeRef, reason, marker, notice, vfail, rejected>>
    PROVE  Noticed'
  BY DEF Noticed, Rejections, NoticeIffRejected

LEMMA RecordedInit == Init => Recorded /\ Noticed
  BY DEF Init, Recorded, Endings, OutcomeIsRecorded, Noticed, Rejections, NoticeIffRejected,
         Waiting, Unfinished

\* finishWorkflowRun reports the coordinator's own run and no other.
LEMMA FinishRecorded ==
    ASSUME IInv, Recorded, NEW r \in Runs, FinishWorkflowRun(r)
    PROVE  Recorded'
<1>1. /\ pc[r] = "finish" /\ pc' = [pc EXCEPT ![r] = "done"]
      /\ UNCHANGED <<activeRun, status, active, reason, life>>
      /\ activeRef' = IF Owns(r) THEN 0 ELSE activeRef
      /\ \A q \in Runs \ {r} : marker'[q] = marker[q] /\ logged'[q] = logged[q] /\ notice'[q] = notice[q]
  BY DEF FinishWorkflowRun, runnerVars, piVars, IInv, TypeOK, OutTypes
<1>2. pc'[r] = "done" /\ \A q \in Runs \ {r} : pc'[q] = pc[q]
  BY <1>1 DEF IInv, TypeOK, ControlTypes
<1>3. \A q \in Runs : FinalStatus(q)' = FinalStatus(q)
  BY <1>1 DEF FinalStatus
<1>4. marker[r] = <<>> /\ ~logged[r] /\ status[r] \in Ended
  BY <1>1 DEF Recorded, Endings
<1>5. CASE Owns(r)
  <2>1. Reports(r)
    BY <1>4, <1>5 DEF Reports, Owns, FinalStatus, Recorded, Endings, Ended
  <2>2. ASSUME life = "disposed" PROVE marker'[r] = <<>> /\ logged'[r]
    BY <1>4, <2>1, <2>2 DEF FinishWorkflowRun, IInv, TypeOK, OutTypes
  <2>3. ASSUME life # "disposed" PROVE marker'[r] = <<FinalStatus(r)>> /\ ~logged'[r]
    <3>1. marker'[r] = Append(<<>>, FinalStatus(r)) /\ ~logged'[r]
      BY <1>4, <2>1, <2>3 DEF FinishWorkflowRun, IInv, TypeOK, OutTypes
    <3>2. marker'[r] = <<FinalStatus(r)>>
      BY <3>1
    <3> QED BY <3>1, <3>2
  <2>4. \/ marker'[r] = <<FinalStatus(r)>> /\ ~logged'[r]
        \/ marker'[r] = <<>> /\ logged'[r] /\ life = "disposed"
    BY <2>2, <2>3
  <2>5. OutcomeIsRecorded'
    BY <1>1, <1>2, <1>3, <2>4 DEF Recorded, OutcomeIsRecorded
  <2>6. \A q \in Runs \ {r} : q # activeRef
    BY <1>5 DEF Owns
  <2>7. Endings'
    BY <1>1, <1>2, <1>4, <1>5, <2>6 DEF Recorded, Endings, Unfinished, Waiting, Runs
  <2> QED BY <2>5, <2>7 DEF Recorded
<1>6. CASE ~Owns(r)
  <2>1. status[r] = "cancelled" /\ reason[r] = "none" /\ r < activeRun
    BY <1>1, <1>6 DEF Recorded, Endings, Owns, Unfinished
  <2>2. ~Reports(r)
    BY <1>6 DEF Reports
  <2>3. marker'[r] = <<>> /\ ~logged'[r]
    BY <1>4, <2>2 DEF FinishWorkflowRun, IInv, TypeOK, OutTypes
  <2>4. OutcomeIsRecorded'
    BY <1>1, <1>2, <1>3, <2>1, <2>3 DEF Recorded, OutcomeIsRecorded
  <2>5. Endings'
    BY <1>1, <1>2, <1>4, <1>6 DEF Recorded, Endings, Unfinished, Waiting
  <2> QED BY <2>4, <2>5 DEF Recorded
<1> QED BY <1>5, <1>6

\* A new run replaces the one before it: a run that is still polling is cancelled
\* without a reason, and only in the TUI.
LEMMA StartRecorded ==
    ASSUME IInv, Recorded, NEW transform \in BOOLEAN, StartWorkflowRun(transform)
    PROVE  Recorded'
<1> DEFINE r == activeRun + 1
<1>1. /\ chain = 0 /\ life = "open" /\ r \in Runs /\ activeRun' = r /\ activeRef' = r
      /\ active' = [i \in Runs |-> IF i = activeRef THEN FALSE ELSE i = r \/ active[i]]
      /\ status' = [StatusAfterCancel EXCEPT ![r] = "running"]
      /\ pc' = [pc EXCEPT ![r] = "step"]
      /\ UNCHANGED <<reason, marker, notice, logged, life>>
      /\ Host = "gui" => activeRef = 0
  BY DEF StartWorkflowRun, RunnerStart, outVars
<1>2. /\ activeRun \in Nat /\ r # activeRun /\ pc[r] = "idle"
      /\ pc'[r] = "step" /\ \A q \in Runs \ {r} : pc'[q] = pc[q]
      /\ activeRef \in {0, activeRun}
  BY <1>1 DEF IInv, TypeOK, RunnerTypes, ControlTypes, RefInv
<1>3. /\ status'[r] = "running"
      /\ \A q \in Runs \ {r} :
            status'[q] = IF q = activeRun /\ status[q] = "running" THEN "cancelled" ELSE status[q]
  BY <1>1 DEF StatusAfterCancel
<1>4. \A q \in Runs : q # activeRef => ~active[q] \/ pc[q] = "done"
  BY DEF IInv, RefInv, Unfinished, TypeOK, ControlTypes
<1>5. \A q \in Runs : pc[q] # "finish"
  BY <1>1 DEF IInv, RefInv, Runs
<1>6. ASSUME NEW q \in Runs, q # r, pc[q] \in Unfinished
      PROVE  status'[q] = "cancelled" /\ reason[q] = "none" /\ q < r
  <2>1. q <= activeRun
    BY <1>6 DEF IInv, RefInv, Runs, Unfinished, Waiting, TypeOK, RunnerTypes
  <2>2. CASE q = activeRef
    <3>1. Host = "tui" /\ q = activeRun
      BY <1>1, <1>2, <2>2, RunAssumption DEF Runs
    <3>2. reason[q] = "none"
      BY <1>1, <3>1 DEF Recorded, Endings
    <3>3. status[q] = "running"
      BY <1>5, <1>6, <2>2, <3>2 DEF Recorded, Endings, Unfinished
    <3> QED BY <1>2, <1>3, <1>6, <2>1, <3>1, <3>2, <3>3 DEF Runs
  <2>3. CASE q # activeRef
    <3>1. status[q] = "cancelled" /\ reason[q] = "none" /\ q < activeRun
      BY <1>6, <2>3 DEF Recorded, Endings
    <3> QED BY <1>2, <1>3, <1>6, <3>1 DEF Runs
  <2> QED BY <2>2, <2>3
<1>7. \A q \in Runs \ {r} : pc'[q] \in {"idle", "done"} => status'[q] = status[q]
  <2>1. \A q \in Runs : pc[q] \in {"idle", "done"} => status[q] # "running"
    BY DEF IInv, RefInv, Waiting
  <2> QED BY <1>2, <1>3, <2>1
<1>8. \A q \in Runs : pc'[q] = "idle" \/ active'[q] => reason[q] = "none"
  BY <1>1, <1>2 DEF Recorded, Endings
<1>9. \A q \in Runs : pc'[q] # "done" => marker[q] = <<>> /\ ~logged[q] /\ ~notice[q]
  BY <1>2 DEF Recorded, Endings
<1>10. \A q \in Runs : pc'[q] \in Waiting => status'[q] \in {"running", "cancelled"}
  BY <1>2, <1>3, <1>6 DEF Unfinished
<1>11. \A q \in Runs : pc'[q] \in {"finish", "done"} => status'[q] \in Ended
  BY <1>2, <1>5, <1>7 DEF Recorded, Endings
<1>12. Endings'
  BY <1>1, <1>2, <1>3, <1>6, <1>8, <1>9, <1>10, <1>11 DEF Recorded, Endings
<1>13. \A q \in Runs : pc'[q] = "done" =>
          q # r /\ pc[q] = "done" /\ status'[q] = status[q] /\ FinalStatus(q)' = FinalStatus(q)
  BY <1>1, <1>2, <1>7 DEF FinalStatus
<1>14. \A q \in Runs : q < activeRun => q < activeRun'
  BY <1>1, <1>2 DEF Runs
<1>15. OutcomeIsRecorded'
  BY <1>1, <1>13, <1>14 DEF Recorded, OutcomeIsRecorded
<1> QED BY <1>12, <1>15 DEF Recorded

LEMMA RecordedStep == IInv /\ Recorded /\ [Next]_vars => Recorded'
<1> SUFFICES ASSUME IInv, Recorded, [Next]_vars PROVE Recorded'
  OBVIOUS
<1>1. ASSUME NEW r \in Runs, StepThrew(r), Polls(r), UNCHANGED <<refVars, outVars, life>>
      PROVE  Recorded'
  BY <1>1, ThrowEnds, LoopEndsRecorded
<1>2. ASSUME NEW r \in Runs,
             RetiredPoll(r) \/ FailedPoll(r) \/ SkipRebuttal(r) \/ RejectOutput(r)
      PROVE  Recorded'
  BY <1>1, <1>2 DEF RetiredPoll, FailedPoll, SkipRebuttal, RejectOutput, Settles, Observes
<1>3. ASSUME NEW r \in Runs, AcceptOutput(r) PROVE Recorded'
  <2>1. StepReturned(r) /\ Polls(r) /\ UNCHANGED <<refVars, outVars, life>>
    BY <1>3 DEF AcceptOutput, Settles, Observes
  <2> QED BY <2>1, ReturnEnds, LoopEndsRecorded
<1>4. ASSUME NEW r \in Runs, StalePoll(r) PROVE Recorded'
  <2>1. r = activeRef /\ pc[r] \in Waiting
    BY <1>4 DEF StalePoll, Polls, IInv, RefInv, Unfinished
  <2> QED BY <1>4, <2>1, InterruptRecorded DEF StalePoll, Reasons
<1>5. ASSUME NEW r \in Runs, NEW kind \in {"step", "retry", "repair"}, SendNext(r, kind)
      PROVE  Recorded'
  <2>1. /\ pc[r] \in Waiting /\ active[r] /\ pc' = [pc EXCEPT ![r] = kind]
        /\ UNCHANGED <<activeRun, status, activeRef, active, reason, marker, notice, logged, life>>
    BY <1>5 DEF SendNext, SendPrompt, Settles, Observes, Polls, runnerVars, refVars, outVars
  <2>2. pc'[r] \in Waiting /\ \A q \in Runs \ {r} : pc'[q] = pc[q]
    BY <2>1 DEF IInv, TypeOK, ControlTypes, Waiting
  <2>3. Endings'
    BY <2>1, <2>2 DEF Recorded, Endings, Unfinished, Waiting
  <2>4. \A q \in Runs : FinalStatus(q)' = FinalStatus(q)
    BY <2>1 DEF FinalStatus
  <2>5. OutcomeIsRecorded'
    BY <2>1, <2>2, <2>4 DEF Recorded, OutcomeIsRecorded, Waiting
  <2> QED BY <2>3, <2>5 DEF Recorded
<1>6. ASSUME CancelActiveWorkflow PROVE Recorded'
  <2>1. UNCHANGED <<activeRun, activeRef, outVars, pc, life>> /\ Host # "tui"
    BY <1>6 DEF CancelActiveWorkflow
  <2>2. CASE activeRef # 0
    <3>1. activeRef \in Runs /\ Interrupt(activeRef, "stopped")
      BY <1>6, <2>2 DEF CancelActiveWorkflow, IInv, TypeOK, RefTypes, Runs
    <3> QED BY <2>1, <3>1, InterruptRecorded DEF Reasons
  <2>3. CASE activeRef = 0
    <3>1. \A q \in Runs : status[q] # "running"
      BY <2>3 DEF IInv, RefInv, Unfinished, Runs
    <3>2. status' = status /\ UNCHANGED <<active, reason>>
      BY <1>6, <2>3, <3>1 DEF CancelActiveWorkflow, StatusAfterCancel, IInv, TypeOK, RunnerTypes
    <3> QED BY <2>1, <3>2, KeepsRecorded DEF outVars
  <2> QED BY <2>2, <2>3
<1>7. ASSUME SessionShutdown PROVE Recorded'
  <2>1. activeRef \in Runs /\ Interrupt(activeRef, "session_shutdown") /\ life' = "closing"
        /\ life = "open" /\ UNCHANGED <<activeRun, activeRef, outVars, pc>>
    BY <1>7 DEF SessionShutdown, IInv, TypeOK, RefTypes, Runs
  <2> QED BY <2>1, InterruptRecorded DEF Reasons
<1>8. ASSUME Dispose PROVE Recorded'
  BY <1>8, KeepsRecorded DEF Dispose, runnerVars, refVars, outVars
<1>9. ASSUME PiUnchanged PROVE Recorded'
  BY <1>9, KeepsRecorded DEF PiUnchanged, runnerVars, refVars, outVars
<1>10. ASSUME PiStep \/ PiToolEvent \/ UserPrompts \/ UserAborts PROVE Recorded'
  BY <1>9, <1>10 DEF PiStep, PiAccepts, PiSettles, PiAnswers, PiToolEvent, UserPrompts, UserAborts
<1>11. CASE UNCHANGED vars
  BY <1>11, KeepsRecorded DEF vars, runnerVars, refVars, outVars
<1> QED BY <1>2, <1>3, <1>4, <1>5, <1>6, <1>7, <1>8, <1>10, <1>11, StartRecorded, FinishRecorded
        DEF Next, CoordinatorStep, PollStep

\* Every run that ends leaves exactly one record, which says how it ended; only a
\* run that a later one replaced leaves none.
THEOREM OutcomeRecorded == Spec => []OutcomeIsRecorded
<1>1. Recorded => OutcomeIsRecorded
  BY DEF Recorded
<1> QED BY <1>1, RecordedInit, RecordedStep, IInvariant, PTL DEF Spec

\* The repaired output is rejected again: the step may not be skipped, so the run
\* fails, and the failure is flagged while its chain goes on to the finish.
LEMMA RejectNoticed ==
    ASSUME IInv, Noticed, NEW r \in Runs, RejectOutput(r)
    PROVE  Noticed'
<1>1. /\ pc[r] = "repair" /\ active[r] /\ StepThrew(r)
      /\ vfail' = TRUE /\ rejected' = rejected \cup {r}
      /\ UNCHANGED <<activeRef, reason, marker, notice>>
  BY DEF RejectOutput, Settles, Observes, refVars, outVars
<1>2. stepIdx[r] \in Validated /\ status[r] = "running" /\ r = activeRef
  BY <1>1 DEF Noticed, Rejections, IInv, RefInv, Waiting, Unfinished
<1>3. stepIdx[r] \notin Skippable
  BY <1>2, RunAssumption
<1>4. LeaveLoop(r, "failed")
  BY <1>1, <1>2, <1>3 DEF StepThrew, Retired
<1>5. /\ pc'[r] = "finish" /\ status'[r] = "failed" /\ chain' = r /\ stepIdx' = stepIdx
      /\ \A q \in Runs \ {r} : pc'[q] = pc[q] /\ status'[q] = status[q]
  BY <1>4 DEF LeaveLoop, IInv, TypeOK, ControlTypes, RunnerTypes
<1>6. Rejections'
  BY <1>1, <1>2, <1>5 DEF Noticed, Rejections, IInv, TypeOK, StepTypes
<1>7. NoticeIffRejected'
  BY <1>1, <1>5 DEF Noticed, NoticeIffRejected
<1> QED BY <1>6, <1>7 DEF Noticed

\* finishWorkflowRun shows the notice exactly for the run whose flag is up.
LEMMA FinishNoticed ==
    ASSUME IInv, Recorded, Noticed, NEW r \in Runs, FinishWorkflowRun(r)
    PROVE  Noticed'
<1>1. /\ pc[r] = "finish" /\ chain = r /\ pc' = [pc EXCEPT ![r] = "done"]
      /\ vfail' = (vfail /\ ~Owns(r))
      /\ UNCHANGED <<stepIdx, status, reason, rejected>>
      /\ \A q \in Runs \ {r} : marker'[q] = marker[q] /\ notice'[q] = notice[q]
  BY DEF FinishWorkflowRun, runnerVars, IInv, TypeOK, OutTypes
<1>2. pc'[r] = "done" /\ \A q \in Runs \ {r} : pc'[q] = pc[q]
  BY <1>1 DEF IInv, TypeOK, ControlTypes
<1>3. vfail <=> r \in rejected
  BY <1>1 DEF Noticed, Rejections
<1>4. r \in rejected => Owns(r) /\ FinalStatus(r) = "failed" /\ Reports(r)
  <2>1. r \in rejected => Owns(r) /\ status[r] = "failed"
    BY <1>1, <1>3 DEF Noticed, Rejections, Owns
  <2> QED BY <2>1 DEF FinalStatus, Reports
<1>5. marker[r] = <<>> /\ ~notice[r] /\ notice[r] \in BOOLEAN
  BY <1>1 DEF Recorded, Endings, IInv, TypeOK, OutTypes
<1>6. notice'[r] <=> (Reports(r) /\ life # "disposed" /\ ShowsNotice(r))
  BY <1>5 DEF FinishWorkflowRun, IInv, TypeOK, OutTypes
<1>7. marker'[r] = IF Reports(r) /\ life # "disposed" THEN <<FinalStatus(r)>> ELSE <<>>
  <2>1. marker'[r] = IF Reports(r) /\ life # "disposed"
                     THEN Append(<<>>, FinalStatus(r)) ELSE <<>>
    BY <1>5 DEF FinishWorkflowRun, IInv, TypeOK, OutTypes
  <2> QED BY <2>1
<1>8. notice'[r] <=> (r \in rejected /\ marker'[r] = <<"failed">> /\ reason[r] = "none")
  <2>1. CASE r \in rejected
    <3>1. marker'[r] = <<"failed">> <=> life # "disposed"
      BY <1>4, <1>7, <2>1
    <3> QED BY <1>3, <1>4, <1>6, <2>1, <3>1 DEF ShowsNotice
  <2>2. CASE r \notin rejected
    BY <1>3, <1>6, <2>2 DEF ShowsNotice
  <2> QED BY <2>1, <2>2
<1>9. NoticeIffRejected'
  BY <1>1, <1>2, <1>8 DEF Noticed, NoticeIffRejected
<1>10. ~vfail'
  BY <1>1, <1>3, <1>4
<1>11. \A q \in rejected \ {r} : q \in Runs /\ pc[q] = "done"
  BY <1>1 DEF Noticed, Rejections, IInv, RefInv, TypeOK, StepTypes
<1>12. Rejections'
  BY <1>1, <1>2, <1>10, <1>11 DEF Noticed, Rejections
<1> QED BY <1>9, <1>12 DEF Noticed

LEMMA NoticedStep == IInv /\ Recorded /\ Noticed /\ [Next]_vars => Noticed'
<1> SUFFICES ASSUME IInv, Recorded, Noticed, [Next]_vars PROVE Noticed'
  OBVIOUS
<1>a. /\ pc \in [Runs -> Waiting \cup {"idle", "finish", "done"}] /\ rejected \subseteq Runs
      /\ status \in [Runs -> RunStatuses] /\ activeRun \in Nat
      /\ reason \in [Runs -> Reasons] /\ stepIdx \in [Runs -> Steps]
  BY DEF IInv, TypeOK, ControlTypes, StepTypes, RunnerTypes, RefTypes
\* While no chain runs no failure is flagged and the rejected runs are done.
<1>b. chain = 0 => ~vfail /\ \A q \in rejected : pc[q] = "done"
  BY <1>a DEF Noticed, Rejections, IInv, RefInv, Runs
<1>1. ASSUME NEW transform \in BOOLEAN, StartWorkflowRun(transform) PROVE Noticed'
  <2> DEFINE r == activeRun + 1
  <2>1. /\ chain = 0 /\ r \in Runs /\ r # activeRun
        /\ status' = [StatusAfterCancel EXCEPT ![r] = "running"]
        /\ pc' = [pc EXCEPT ![r] = "step"] /\ stepIdx' = [stepIdx EXCEPT ![r] = 1]
        /\ vfail' = FALSE /\ UNCHANGED <<rejected, reason, marker, notice>>
    BY <1>1, <1>a DEF StartWorkflowRun, RunnerStart, outVars
  <2>2. /\ pc[r] = "idle" /\ pc'[r] = "step"
        /\ \A q \in Runs \ {r} : pc'[q] = pc[q] /\ stepIdx'[q] = stepIdx[q]
    BY <1>a, <2>1 DEF IInv, RefInv
  <2>3. \A q \in Runs : pc[q] = "done" => q # r /\ status'[q] = status[q]
    BY <2>1, <2>2 DEF StatusAfterCancel, IInv, RefInv, Waiting
  <2>4. Rejections'
    BY <1>a, <1>b, <2>1, <2>2, <2>3 DEF Noticed, Rejections
  <2>5. NoticeIffRejected'
    BY <2>1, <2>2 DEF Noticed, NoticeIffRejected
  <2> QED BY <2>4, <2>5 DEF Noticed
<1>2. ASSUME NEW r \in Runs, StepThrew(r), Polls(r),
             UNCHANGED <<refVars, outVars, vfail, rejected>>
      PROVE  Noticed'
  BY <1>2, ThrowEnds, ThrowTouches, LoopEndsNoticed DEF IInv
<1>3. ASSUME NEW r \in Runs, RetiredPoll(r) \/ FailedPoll(r) \/ SkipRebuttal(r) PROVE Noticed'
  BY <1>2, <1>3 DEF RetiredPoll, FailedPoll, SkipRebuttal, Settles, Observes
<1>4. ASSUME NEW r \in Runs, AcceptOutput(r) PROVE Noticed'
  <2>1. StepReturned(r) /\ Polls(r) /\ UNCHANGED <<refVars, outVars, vfail, rejected>>
    BY <1>4 DEF AcceptOutput, Settles, Observes
  <2> QED BY <2>1, ReturnEnds, ReturnTouches, LoopEndsNoticed DEF IInv
\* An interruption touches no run that is done, and no chain is on its way to a finish.
<1>5. ASSUME NEW r \in Runs, NEW why, r = activeRef, Interrupt(r, why), chain \in {0, r},
             pc[r] \in Waiting \/ chain = 0,
             pc' = pc \/ pc' = [pc EXCEPT ![r] = "finish"],
             UNCHANGED <<stepIdx, vfail, rejected, marker, notice>>
      PROVE  Noticed'
  <2>1. pc[r] \in Unfinished
    BY <1>5 DEF IInv, RefInv, Runs
  <2>2. \A q \in rejected : pc[q] = "done"
    BY <1>5, <1>a DEF Noticed, Rejections, IInv, RefInv, Waiting, Runs
  <2>3. ~vfail
    BY <1>5, <2>2 DEF Noticed, Rejections
  <2>4. /\ pc'[r] # "done" /\ pc'[r] \in {pc[r], "finish"}
        /\ \A q \in Runs \ {r} : pc'[q] = pc[q] /\ reason'[q] = reason[q]
    BY <1>5, <1>a, <2>1 DEF Interrupt, Unfinished, Waiting
  <2>5. \A q \in Runs : pc[q] = "done" => status'[q] = status[q]
    BY <1>5 DEF Interrupt, StatusAfterCancel, IInv, RefInv, Waiting
  <2>6. Rejections'
    BY <1>5, <1>a, <2>1, <2>2, <2>3, <2>4, <2>5 DEF Noticed, Rejections, Unfinished, Waiting
  <2>7. NoticeIffRejected'
    BY <1>5, <2>4 DEF Noticed, NoticeIffRejected
  <2> QED BY <2>6, <2>7 DEF Noticed
<1>6. ASSUME NEW r \in Runs, StalePoll(r) PROVE Noticed'
  <2>1. /\ r = activeRef /\ pc[r] \in Waiting /\ chain \in {0, r}
        /\ Interrupt(r, "session_replaced") /\ pc' = [pc EXCEPT ![r] = "finish"]
        /\ UNCHANGED <<stepIdx, vfail, rejected, marker, notice>>
    BY <1>6 DEF StalePoll, Polls, IInv, RefInv, Unfinished, stepVars, outVars
  <2> QED BY <1>5, <2>1
<1>7. ASSUME NEW r \in Runs, NEW kind \in {"step", "retry", "repair"}, SendNext(r, kind)
      PROVE  Noticed'
  <2>1. /\ pc[r] \in Waiting /\ chain \in {0, r} /\ pc' = [pc EXCEPT ![r] = kind]
        /\ chain' = 0 /\ (kind = "repair" => stepIdx[r] \in Validated)
        /\ UNCHANGED <<stepIdx, status, activeRef, reason, vfail, rejected, marker, notice>>
    BY <1>7 DEF SendNext, SendPrompt, MaySend, Settles, Observes, Polls, runnerVars, refVars, outVars
  <2>2. pc'[r] = kind /\ \A q \in Runs \ {r} : pc'[q] = pc[q]
    BY <1>a, <2>1
  <2>3. \A q \in rejected : pc[q] = "done"
    BY <1>a, <2>1 DEF Noticed, Rejections, IInv, RefInv, Waiting, Runs
  <2>4. ~vfail
    BY <2>1, <2>3 DEF Noticed, Rejections
  <2>5. Rejections'
    BY <1>a, <2>1, <2>2, <2>3, <2>4 DEF Noticed, Rejections, Waiting
  <2>6. NoticeIffRejected'
    BY <2>1, <2>2 DEF Noticed, NoticeIffRejected
  <2> QED BY <2>5, <2>6 DEF Noticed
<1>8. ASSUME CancelActiveWorkflow PROVE Noticed'
  <2>1. chain = 0 /\ UNCHANGED <<stepIdx, vfail, rejected, marker, notice, pc, chain, activeRef>>
    BY <1>8 DEF CancelActiveWorkflow, outVars
  <2>2. CASE activeRef # 0
    <3>1. activeRef \in Runs /\ Interrupt(activeRef, "stopped")
      BY <1>8, <2>2 DEF CancelActiveWorkflow, IInv, TypeOK, RefTypes, Runs
    <3> QED BY <1>5, <2>1, <3>1
  <2>3. CASE activeRef = 0
    <3>1. \A q \in Runs : status[q] # "running"
      BY <2>3 DEF IInv, RefInv, Unfinished, Runs
    <3>2. status' = status /\ reason' = reason
      BY <1>8, <1>a, <2>3, <3>1 DEF CancelActiveWorkflow, StatusAfterCancel
    <3> QED BY <2>1, <3>2, KeepsNoticed
  <2> QED BY <2>2, <2>3
<1>9. ASSUME SessionShutdown PROVE Noticed'
  <2>1. /\ activeRef \in Runs /\ Interrupt(activeRef, "session_shutdown") /\ chain = 0
        /\ UNCHANGED <<stepIdx, vfail, rejected, marker, notice, pc>>
    BY <1>9 DEF SessionShutdown, IInv, TypeOK, RefTypes, Runs, stepVars, outVars
  <2> QED BY <1>5, <2>1
<1>10. ASSUME Dispose \/ UNCHANGED vars PROVE Noticed'
  BY <1>10, KeepsNoticed DEF Dispose, vars, runnerVars, refVars, stepVars, outVars
<1>11. ASSUME PiUnchanged PROVE Noticed'
  BY <1>11, KeepsNoticed DEF PiUnchanged, runnerVars, refVars, outVars
<1>12. ASSUME PiStep \/ PiToolEvent \/ UserPrompts \/ UserAborts PROVE Noticed'
  BY <1>11, <1>12 DEF PiStep, PiAccepts, PiSettles, PiAnswers, PiToolEvent, UserPrompts, UserAborts
<1> QED BY <1>1, <1>3, <1>4, <1>6, <1>7, <1>8, <1>9, <1>10, <1>12, RejectNoticed, FinishNoticed
        DEF Next, CoordinatorStep, PollStep

\* The notice about a rejected draft is shown for the run whose repaired output was
\* rejected, unless it was interrupted, and never for another run.
THEOREM NoticeShown == Spec => []NoticeIffRejected
<1>1. Noticed => NoticeIffRejected
  BY DEF Noticed
<1> QED BY <1>1, RecordedInit, RecordedStep, NoticedStep, IInvariant, PTL DEF Spec

-----------------------------------------------------------------------------
(* Steps run in order *)

\* The least element of a set of numbers is one of them.
LessThan == {ss \in Nat \X Nat : ss[1] < ss[2]}
LEMMA MinInSet ==
    ASSUME NEW S, S \subseteq Nat, S # {}
    PROVE  Min(S) \in S
<1>1. IsWellFoundedOn(LessThan, Nat)
  BY NatLessThanWellFounded, Zenon DEF OpToRel, LessThan
<1>2. PICK x \in S : \A y \in S : ~(<<y, x>> \in LessThan)
  BY <1>1, WFMin
<1>3. ASSUME NEW y \in S PROVE x <= y
  <2>1. x \in Nat /\ y \in Nat
    OBVIOUS
  <2>2. <<y, x>> \notin {ss \in Nat \X Nat : ss[1] < ss[2]}
    BY <1>2 DEF LessThan
  <2>3. <<y, x>> \in Nat \X Nat /\ <<y, x>>[1] = y /\ <<y, x>>[2] = x
    BY <2>1
  <2>4. ~(y < x)
    BY <2>2, <2>3
  <2> QED BY <2>1, <2>4
<1> QED BY <1>3 DEF Min

(* StepsInOrder follows from where the steps of a run stand around its       *)
(* current one; that a completed step was answered, from what the executor's *)
(* wait has already seen when it goes on.                                    *)
Ordered(r) ==
    /\ \A j \in Steps : j < stepIdx[r] => stepStatus[r][j] \in {"completed", "skipped"}
    /\ \A j \in Steps : j > stepIdx[r] => stepStatus[r][j] \in {"pending", "skipped"}
    /\ pc[r] = "idle" => stepIdx[r] = 1 /\ \A k \in Steps : stepStatus[r][k] = "pending"
    /\ pc[r] = "step" => \/ expect[r] = Text(stepIdx[r], "step")
                         \/ stepIdx[r] = 1 /\ expect[r] = AnyText
    /\ pc[r] \in {"retry", "repair"} => Answered(stepIdx[r])
    /\ \A k \in Steps : stepStatus[r][k] = "completed" => Answered(k)
AllOrdered == \A r \in Runs : Ordered(r)
AnswersKept == \A k \in Steps : Answered(k) => Answered(k)'

LEMMA OrderedImpliesInOrder == TypeOK /\ AllOrdered => StepsInOrder
<1> SUFFICES ASSUME TypeOK, AllOrdered, NEW r \in Runs, NEW k \in Steps
             PROVE  /\ stepStatus[r][k] = "completed" => Answered(k)
                    /\ k > 1 /\ stepStatus[r][k] \in {"running", "completed", "failed"} =>
                          \A j \in 1..(k - 1) : stepStatus[r][j] \in {"completed", "skipped"}
  BY DEF StepsInOrder
<1>1. stepIdx[r] \in Steps
  BY DEF TypeOK, RunnerTypes
<1>2. stepStatus[r][k] \in {"running", "completed", "failed"} => k <= stepIdx[r]
  BY <1>1 DEF AllOrdered, Ordered, Steps
<1>3. \A j \in 1..(k - 1) : j \in Steps /\ (k <= stepIdx[r] => j < stepIdx[r])
  BY <1>1 DEF Steps
<1> QED BY <1>2, <1>3 DEF AllOrdered, Ordered

\* A wait on a step's own prompt settles on an answer to that prompt.
LEMMA SettledIsAnswered ==
    ASSUME TypeOK, NEW r \in Runs, Ordered(r), Settles(r), pc[r] = "step"
    PROVE  Answered(stepIdx[r])
<1>1. Outcome(r) = "success"
  BY DEF Settles, Settled
<1>2. Answering(r) # {} /\ turns[Min(Answering(r))].out = "success"
  BY <1>1 DEF Outcome
<1>3. /\ turns \in Seq(Turns) /\ before[r] \in Nat /\ stepIdx[r] \in Steps
      /\ Answering(r) \subseteq DOMAIN turns
  <2>1. turns \in Seq(Turns) /\ before[r] \in Nat /\ stepIdx[r] \in Steps
    BY DEF TypeOK, PiTypes, StepTypes, RunnerTypes
  <2>2. Answering(r) \subseteq (before[r] + 1)..Len(turns)
    BY DEF Answering
  <2> QED BY <2>1, <2>2
<1>4. Answering(r) \subseteq Nat
  BY <1>3 DEF Turns
<1>5. PICK i \in Answering(r) : turns[i].out = "success"
  BY <1>2, <1>4, MinInSet
<1>6. expect[r] \in {AnyText, turns[i].text}
  BY <1>5 DEF Answering
<1>7. stepIdx[r] = 1 \/ turns[i].text = Text(stepIdx[r], "step")
  <2>1. Text(stepIdx[r], "step") = <<stepIdx[r], "step">> /\ AnyText = <<0, "any">>
    BY DEF Text, AnyText
  <2>2. Text(stepIdx[r], "step") # AnyText
    BY <1>3, <2>1 DEF Steps
  <2> QED BY <1>6, <2>2 DEF Ordered
<1> QED BY <1>3, <1>5, <1>7 DEF Answered

\* What a step leaves of a run in order leaves it in order.
LEMMA OrderedFrame ==
    ASSUME NEW r \in Runs, Ordered(r), AnswersKept, stepIdx[r] \in Steps,
           stepIdx'[r] = stepIdx[r], stepStatus'[r] = stepStatus[r],
           pc'[r] = pc[r] \/ pc'[r] \in {"finish", "done"}, expect'[r] = expect[r]
    PROVE  Ordered(r)'
  BY DEF Ordered, AnswersKept

\* Cancelling a run skips its current and its later steps, and no other.
LEMMA CancelledInOrder ==
    ASSUME TypeOK, NEW r \in Runs
    PROVE  \A k \in Steps : \/ StepsAfterCancel[r][k] = stepStatus[r][k]
                            \/ /\ StepsAfterCancel[r][k] = "skipped" /\ k >= stepIdx[r]
                               /\ status[r] = "running"
  BY DEF StepsAfterCancel, CancelledSteps, TypeOK, RunnerTypes

LEMMA CancelOrdered ==
    ASSUME IInv, NEW r \in Runs, Ordered(r), AnswersKept,
           stepStatus'[r] = StepsAfterCancel[r], stepIdx'[r] = stepIdx[r],
           pc'[r] = pc[r] \/ pc'[r] = "finish", expect'[r] = expect[r]
    PROVE  Ordered(r)'
<1>1. \A k \in Steps : \/ stepStatus'[r][k] = stepStatus[r][k]
                       \/ /\ stepStatus'[r][k] = "skipped" /\ k >= stepIdx[r]
                          /\ status[r] = "running"
  BY CancelledInOrder DEF IInv
<1>2. stepIdx[r] \in Steps /\ (pc[r] = "idle" => status[r] # "running")
  BY DEF IInv, TypeOK, RunnerTypes, RefInv
<1> QED BY <1>1, <1>2 DEF Ordered, AnswersKept, Steps

\* The loop goes on or ends with the current step completed or skipped.
LEMMA NextStepOrdered ==
    ASSUME TypeOK, NEW r \in Runs, Ordered(r), NEW st \in {"completed", "skipped"}, NEW cap,
           NextStep(r, st, cap), AnswersKept,
           st = "completed" => Answered(stepIdx[r])
    PROVE  Ordered(r)'
<1> DEFINE k == stepIdx[r]
<1>1. k \in Steps /\ stepStatus[r] \in [Steps -> StepStatuses]
      /\ stepStatus \in [Runs -> [Steps -> StepStatuses]] /\ stepIdx \in [Runs -> Steps]
      /\ pc \in [Runs -> Waiting \cup {"idle", "finish", "done"}]
  BY DEF TypeOK, RunnerTypes, ControlTypes
<1>2. CASE LastStep(r)
  <2>1. stepStatus' = [stepStatus EXCEPT ![r][k] = st] /\ stepIdx' = stepIdx /\ pc'[r] = "finish"
    BY <1>1, <1>2 DEF NextStep, LeaveLoop
  <2>2. stepStatus'[r][k] = st /\ \A j \in Steps \ {k} : stepStatus'[r][j] = stepStatus[r][j]
    BY <1>1, <2>1
  <2> QED BY <1>1, <2>1, <2>2 DEF Ordered, AnswersKept, Steps
<1>3. CASE ~LastStep(r)
  <2>1. /\ stepStatus' = [stepStatus EXCEPT ![r][k] = st, ![r][k + 1] = "running"]
        /\ stepIdx'[r] = k + 1 /\ pc'[r] = "prev"
    BY <1>1, <1>3 DEF NextStep
  <2>2. k + 1 \in Steps
    BY <1>1, <1>3 DEF LastStep, Steps
  <2>3. /\ stepStatus'[r][k] = st /\ stepStatus'[r][k + 1] = "running"
        /\ \A j \in Steps \ {k, k + 1} : stepStatus'[r][j] = stepStatus[r][j]
    BY <1>1, <2>1, <2>2 DEF Steps
  <2> QED BY <1>1, <2>1, <2>2, <2>3 DEF Ordered, AnswersKept, Steps
<1> QED BY <1>2, <1>3

\* The end of a step changes no other run.
LEMMA LoopTouches ==
    ASSUME TypeOK, NEW q \in Runs, StepThrew(q) \/ StepReturned(q)
    PROVE  \A r \in Runs \ {q} : /\ stepStatus'[r] = stepStatus[r] /\ stepIdx'[r] = stepIdx[r]
                                 /\ pc'[r] = pc[r]
  BY DEF StepThrew, StepReturned, NextStep, LeaveLoop, TypeOK, RunnerTypes, ControlTypes

LEMMA ThrowOrdered ==
    ASSUME IInv, AllOrdered, NEW q \in Runs, StepThrew(q), UNCHANGED <<expect, turns>>
    PROVE  AllOrdered'
<1>0. TypeOK /\ AnswersKept /\ stepIdx \in [Runs -> Steps]
      /\ pc \in [Runs -> Waiting \cup {"idle", "finish", "done"}]
      /\ stepStatus \in [Runs -> [Steps -> StepStatuses]]
  BY DEF IInv, TypeOK, RunnerTypes, ControlTypes, AnswersKept, Answered
<1>1. Ordered(q)'
  <2>1. CASE Retired(q)
    <3>1. stepIdx' = stepIdx /\ stepStatus' = stepStatus /\ pc'[q] = "finish"
      BY <1>0, <2>1 DEF StepThrew, LeaveLoop
    <3> QED BY <1>0, <3>1, OrderedFrame DEF AllOrdered
  <2>2. CASE ~Retired(q) /\ stepIdx[q] \in Skippable
    <3>1. NextStep(q, "skipped", capture)
      BY <2>2 DEF StepThrew
    <3> QED BY <1>0, <3>1, NextStepOrdered DEF AllOrdered
  <2>3. CASE ~Retired(q) /\ stepIdx[q] \notin Skippable
    <3>1. /\ stepStatus' = [stepStatus EXCEPT ![q][stepIdx[q]] = "failed"]
          /\ stepIdx' = stepIdx /\ pc'[q] = "finish"
      BY <1>0, <2>3 DEF StepThrew, LeaveLoop
    <3>2. stepStatus'[q][stepIdx[q]] = "failed"
          /\ \A j \in Steps \ {stepIdx[q]} : stepStatus'[q][j] = stepStatus[q][j]
      BY <1>0, <3>1
    <3> QED BY <1>0, <3>1, <3>2 DEF AllOrdered, Ordered, AnswersKept, Steps
  <2> QED BY <2>1, <2>2, <2>3
<1>2. \A r \in Runs \ {q} : Ordered(r)'
  BY <1>0, LoopTouches, OrderedFrame DEF AllOrdered
<1> QED BY <1>1, <1>2 DEF AllOrdered

LEMMA ReturnOrdered ==
    ASSUME IInv, AllOrdered, NEW q \in Runs, StepReturned(q), UNCHANGED <<expect, turns>>,
           Answered(stepIdx[q])
    PROVE  AllOrdered'
<1>0. TypeOK /\ AnswersKept /\ stepIdx \in [Runs -> Steps]
      /\ pc \in [Runs -> Waiting \cup {"idle", "finish", "done"}]
  BY DEF IInv, TypeOK, RunnerTypes, ControlTypes, AnswersKept, Answered
<1>1. Ordered(q)'
  <2>1. CASE Retired(q)
    <3>1. stepIdx' = stepIdx /\ stepStatus' = stepStatus /\ pc'[q] = "finish"
      BY <1>0, <2>1 DEF StepReturned, LeaveLoop
    <3> QED BY <1>0, <3>1, OrderedFrame DEF AllOrdered
  <2>2. CASE ~Retired(q)
    <3>1. NextStep(q, "completed", IF capture = q THEN 0 ELSE capture)
      BY <2>2 DEF StepReturned
    <3> QED BY <1>0, <3>1, NextStepOrdered DEF AllOrdered
  <2> QED BY <2>1, <2>2
<1>2. \A r \in Runs \ {q} : Ordered(r)'
  BY <1>0, LoopTouches, OrderedFrame DEF AllOrdered
<1> QED BY <1>1, <1>2 DEF AllOrdered

\* What leaves the transcript, the runner's steps and the waits alone.
LEMMA KeepsOrdered ==
    ASSUME TypeOK, AllOrdered, AnswersKept, UNCHANGED <<stepIdx, stepStatus, expect>>,
           \A r \in Runs : pc'[r] = pc[r] \/ pc'[r] \in {"finish", "done"}
    PROVE  AllOrdered'
<1>1. \A r \in Runs : stepIdx[r] \in Steps
  BY DEF TypeOK, RunnerTypes
<1> QED BY <1>1, OrderedFrame DEF AllOrdered

\* The transcript only grows, and a successful answer is never replaced.
LEMMA GrowthKeepsAnswers ==
    ASSUME TypeOK, NEW t \in Turns, turns' = Append(turns, t)
    PROVE  AnswersKept
<1>1. turns \in Seq(Turns)
  BY DEF TypeOK, PiTypes
<1>2. DOMAIN turns \subseteq DOMAIN turns' /\ \A i \in DOMAIN turns : turns'[i] = turns[i]
  BY <1>1
<1> QED BY <1>2 DEF AnswersKept, Answered

LEMMA AnswerKeepsAnswers ==
    ASSUME TypeOK, NEW out \in Outcomes, PiAnswers(out)
    PROVE  AnswersKept
<1>1. turns \in Seq(Turns) /\ turns # <<>>
  BY DEF PiAnswers, TypeOK, PiTypes
<1>2. Len(turns) \in DOMAIN turns /\ turns[Len(turns)].out # "success"
  BY <1>1 DEF PiAnswers, Current
<1>3. turns' = [turns EXCEPT ![Len(turns)].out = out]
  BY DEF PiAnswers
<1>4. DOMAIN turns' = DOMAIN turns
      /\ \A i \in DOMAIN turns : i # Len(turns) => turns'[i] = turns[i]
  BY <1>1, <1>3
<1>5. \A i \in DOMAIN turns : turns[i].out = "success" => turns'[i] = turns[i]
  BY <1>2, <1>4
<1> QED BY <1>4, <1>5 DEF AnswersKept, Answered

LEMMA OrderedInit == Init => AllOrdered
  BY DEF Init, AllOrdered, Ordered, Steps

LEMMA StartOrdered ==
    ASSUME IInv, AllOrdered, NEW transform \in BOOLEAN, StartWorkflowRun(transform)
    PROVE  AllOrdered'
<1>0. activeRun + 1 \in Runs
  BY DEF StartWorkflowRun
<1>r. PICK r \in Runs : r = activeRun + 1
  BY <1>0
<1>1. /\ pc[r] = "idle" /\ r # activeRun
      /\ stepStatus' = [StepsAfterCancel EXCEPT ![r][1] = "running"]
      /\ stepIdx' = [stepIdx EXCEPT ![r] = 1] /\ pc' = [pc EXCEPT ![r] = "step"]
      /\ expect' = [expect EXCEPT ![r] = IF transform THEN AnyText ELSE Text(1, "step")]
      /\ turns' = turns
  BY <1>r DEF StartWorkflowRun, RunnerStart, IInv, RefInv, TypeOK, RunnerTypes
<1>2. /\ stepIdx \in [Runs -> Steps] /\ expect \in [Runs -> Texts]
      /\ pc \in [Runs -> Waiting \cup {"idle", "finish", "done"}]
      /\ StepsAfterCancel \in [Runs -> [Steps -> StepStatuses]]
      /\ AnswersKept /\ 1 \in Steps
  BY <1>1, CancelTyping, RunsAreNumbers DEF IInv, TypeOK, RunnerTypes, ControlTypes, StepTypes, AnswersKept, Answered
<1>3. Ordered(r)'
  <2>1. \A k \in Steps : StepsAfterCancel[r][k] = "pending"
    BY <1>1 DEF StepsAfterCancel, AllOrdered, Ordered
  <2>2. stepStatus'[r][1] = "running" /\ \A k \in Steps \ {1} : stepStatus'[r][k] = "pending"
    BY <1>1, <1>2, <2>1
  <2>3. /\ stepIdx'[r] = 1 /\ pc'[r] = "step"
        /\ expect'[r] = AnyText \/ expect'[r] = Text(1, "step")
    BY <1>1, <1>2
  <2> QED BY <2>2, <2>3 DEF Ordered, Steps
<1>4. ASSUME NEW q \in Runs, q # r PROVE Ordered(q)'
  <2>1. /\ stepStatus'[q] = StepsAfterCancel[q] /\ stepIdx'[q] = stepIdx[q] /\ pc'[q] = pc[q]
        /\ expect'[q] = expect[q]
    BY <1>1, <1>2, <1>4
  <2> QED BY <1>2, <2>1, CancelOrdered DEF AllOrdered
<1> QED BY <1>3, <1>4 DEF AllOrdered

LEMMA SendOrdered ==
    ASSUME IInv, AllOrdered, NEW r \in Runs, NEW kind \in {"step", "retry", "repair"},
           SendNext(r, kind)
    PROVE  AllOrdered'
<1>1. /\ Settles(r) /\ MaySend(r, kind) /\ pc' = [pc EXCEPT ![r] = kind]
      /\ expect' = [expect EXCEPT ![r] = Text(stepIdx[r], kind)]
      /\ UNCHANGED <<stepIdx, stepStatus, turns>>
  BY DEF SendNext, SendPrompt, runnerVars
<1>2. /\ TypeOK /\ stepIdx \in [Runs -> Steps] /\ expect \in [Runs -> Texts]
      /\ pc \in [Runs -> Waiting \cup {"idle", "finish", "done"}] /\ AnswersKept
  BY <1>1 DEF IInv, TypeOK, RunnerTypes, ControlTypes, StepTypes, AnswersKept, Answered
<1>3. pc'[r] = kind /\ expect'[r] = Text(stepIdx[r], kind)
      /\ \A q \in Runs \ {r} : pc'[q] = pc[q] /\ expect'[q] = expect[q]
  BY <1>1, <1>2
<1>4. kind # "step" => Answered(stepIdx[r])
  <2>1. kind # "step" => pc[r] \in {"step", "retry"}
    BY <1>1 DEF MaySend
  <2> QED BY <1>1, <1>2, <2>1, SettledIsAnswered DEF AllOrdered, Ordered
<1>5. Ordered(r)'
  BY <1>1, <1>2, <1>3, <1>4 DEF AllOrdered, Ordered, AnswersKept
<1>6. \A q \in Runs \ {r} : Ordered(q)'
  BY <1>1, <1>2, <1>3, OrderedFrame DEF AllOrdered
<1> QED BY <1>5, <1>6 DEF AllOrdered

LEMMA OrderedStep == IInv /\ AllOrdered /\ [Next]_vars => AllOrdered'
<1> SUFFICES ASSUME IInv, AllOrdered, [Next]_vars PROVE AllOrdered'
  OBVIOUS
<1>a. TypeOK /\ pc \in [Runs -> Waiting \cup {"idle", "finish", "done"}]
  BY DEF IInv, TypeOK, ControlTypes
<1>b. turns' = turns => AnswersKept
  BY DEF AnswersKept, Answered
<1>1. ASSUME NEW r \in Runs,
             RetiredPoll(r) \/ FailedPoll(r) \/ SkipRebuttal(r) \/ RejectOutput(r)
      PROVE  AllOrdered'
  BY <1>1, ThrowOrdered DEF RetiredPoll, FailedPoll, SkipRebuttal, RejectOutput, piVars
<1>2. ASSUME NEW r \in Runs, AcceptOutput(r) PROVE AllOrdered'
  <2>1. /\ Settles(r) /\ pc[r] \in {"step", "retry", "repair"} /\ StepReturned(r)
        /\ UNCHANGED <<expect, turns>>
    BY <1>2 DEF AcceptOutput, Settles, Observes, Polls, Waiting, piVars
  <2>2. Answered(stepIdx[r])
    BY <1>a, <2>1, SettledIsAnswered DEF AllOrdered, Ordered
  <2> QED BY <2>1, <2>2, ReturnOrdered
\* cancel() with the transcript and the waits left alone.
<1>3. ASSUME stepStatus' = StepsAfterCancel, UNCHANGED <<stepIdx, expect, turns>>,
             \A r \in Runs : pc'[r] = pc[r] \/ pc'[r] = "finish"
      PROVE  AllOrdered'
  BY <1>3, <1>b, CancelOrdered DEF AllOrdered
<1>4. ASSUME NEW r \in Runs, StalePoll(r) PROVE AllOrdered'
  <2>1. /\ stepStatus' = StepsAfterCancel /\ pc' = [pc EXCEPT ![r] = "finish"]
        /\ UNCHANGED <<stepIdx, expect, turns>>
    BY <1>4 DEF StalePoll, Interrupt, stepVars, piVars
  <2> QED BY <1>3, <1>a, <2>1
<1>5. ASSUME CancelActiveWorkflow \/ SessionShutdown PROVE AllOrdered'
  BY <1>3, <1>5 DEF CancelActiveWorkflow, SessionShutdown, Interrupt, stepVars, piVars
<1>6. ASSUME NEW r \in Runs, FinishWorkflowRun(r) PROVE AllOrdered'
  <2>1. /\ pc' = [pc EXCEPT ![r] = "done"] /\ UNCHANGED <<stepIdx, stepStatus, expect, turns>>
    BY <1>6 DEF FinishWorkflowRun, runnerVars, piVars
  <2> QED BY <1>a, <1>b, <2>1, KeepsOrdered
<1>7. ASSUME Dispose \/ UNCHANGED vars PROVE AllOrdered'
  BY <1>7, <1>a, <1>b, KeepsOrdered DEF Dispose, vars, runnerVars, stepVars, piVars
<1>8. ASSUME PiUnchanged, AnswersKept PROVE AllOrdered'
  BY <1>8, <1>a, KeepsOrdered DEF PiUnchanged, runnerVars
<1>9. ASSUME PiAccepts PROVE AllOrdered'
  <2>1. Turn(Head(outbox)) \in Turns
    <3>1. Head(outbox) \in Prompts
      BY <1>9, <1>a DEF PiAccepts, TypeOK, PiTypes
    <3> QED BY <3>1, PromptTyping
  <2>2. turns' = turns \/ turns' = Append(turns, Turn(Head(outbox)))
    BY <1>9 DEF PiAccepts
  <2> QED BY <1>8, <1>9, <1>a, <1>b, <2>1, <2>2, GrowthKeepsAnswers DEF PiAccepts
<1>10. ASSUME PiSettles PROVE AllOrdered'
  <2>1. CASE queue # <<>>
    <3>1. Head(queue) \in Prompts
      BY <1>a, <2>1 DEF TypeOK, PiTypes
    <3>2. Turn(Head(queue)) \in Turns /\ turns' = Append(turns, Turn(Head(queue)))
      BY <1>10, <2>1, <3>1, PromptTyping DEF PiSettles
    <3> QED BY <1>8, <1>10, <1>a, <3>2, GrowthKeepsAnswers DEF PiSettles
  <2>2. CASE queue = <<>>
    BY <1>8, <1>10, <1>b, <2>2 DEF PiSettles
  <2> QED BY <2>1, <2>2
<1>11. ASSUME NEW out \in Outcomes, PiAnswers(out) PROVE AllOrdered'
  BY <1>8, <1>11, <1>a, AnswerKeepsAnswers DEF PiAnswers
<1>12. ASSUME UserPrompts PROVE AllOrdered'
  <2>1. Turn(Prompt(Text(0, "user"), 0, TRUE)) \in Turns
    BY PromptTyping, RunsAreNumbers
  <2>2. turns' = turns \/ turns' = Append(turns, Turn(Prompt(Text(0, "user"), 0, TRUE)))
    BY <1>12 DEF UserPrompts
  <2>3. AnswersKept
    BY <1>a, <1>b, <2>1, <2>2, GrowthKeepsAnswers
  <2>4. PiUnchanged
    BY <1>12 DEF UserPrompts
  <2> QED BY <1>8, <2>3, <2>4
<1>13. ASSUME PiToolEvent \/ UserAborts PROVE AllOrdered'
  BY <1>8, <1>13, <1>b DEF PiToolEvent, UserAborts, piVars
<1> QED BY <1>1, <1>2, <1>4, <1>5, <1>6, <1>7, <1>9, <1>10, <1>11, <1>12, <1>13, StartOrdered,
           SendOrdered DEF Next, CoordinatorStep, PollStep, PiStep

\* A step is completed only on an answer to its own prompt, and no step is begun
\* before every step in front of it is completed or skipped.
THEOREM InOrder == Spec => []StepsInOrder
<1>1. IInv /\ AllOrdered => StepsInOrder
  BY OrderedImpliesInOrder DEF IInv
<1> QED BY <1>1, OrderedInit, OrderedStep, IInvariant, PTL DEF Spec

-----------------------------------------------------------------------------
(* Prompts wait for an idle Pi *)

(* A run waits for its previous prompt only inside the chain that began the  *)
(* wait, and was led there by a settled wait, when Pi was idle, or by an     *)
(* aborted turn, whose outcome fails the new wait too.                       *)
PrevWaits ==
    \A r \in Runs : pc[r] = "prev" => chain = r /\ (Ready \/ Outcome(r) = "aborted")

LEMMA ChainTyping == TypeOK => 0 \notin Runs /\ pc \in [Runs -> Waiting \cup {"idle", "finish", "done"}]
  BY DEF Runs, TypeOK, ControlTypes

\* What runs while no chain does, and begins no wait of that kind.
LEMMA IdleKeepsPrevWaits ==
    ASSUME TypeOK, PrevWaits, chain = 0, \A r \in Runs : pc'[r] = "prev" => pc[r] = "prev"
    PROVE  PrevWaits'
  BY ChainTyping DEF PrevWaits

LEMMA EndKeepsPrevWaits ==
    ASSUME TypeOK, PrevWaits, NEW r \in Runs, Polls(r), StepThrew(r) \/ StepReturned(r),
           Retired(r) \/ Ready \/ Outcome(r) = "aborted",
           UNCHANGED <<before, expect, turns, busy, queue>>
    PROVE  PrevWaits'
<1>1. /\ pc'[r] = "prev" => ~Retired(r)
      /\ chain' = r /\ \A q \in Runs \ {r} : pc'[q] = pc[q]
  BY DEF StepThrew, StepReturned, NextStep, LeaveLoop, TypeOK, ControlTypes
<1>2. \A q \in Runs \ {r} : pc[q] # "prev"
  BY ChainTyping DEF PrevWaits, Polls
<1>3. Ready' = Ready /\ Outcome(r)' = Outcome(r)
  BY DEF Ready, Outcome, Answering
<1> QED BY <1>1, <1>2, <1>3 DEF PrevWaits

LEMMA PrevWaitsStep == IInv /\ PrevWaits /\ [Next]_vars => PrevWaits'
<1> SUFFICES ASSUME IInv, PrevWaits, [Next]_vars PROVE PrevWaits'
  OBVIOUS
<1>a. TypeOK /\ RefInv /\ pc \in [Runs -> Waiting \cup {"idle", "finish", "done"}]
  BY ChainTyping DEF IInv
<1>1. ASSUME NEW transform \in BOOLEAN, StartWorkflowRun(transform) PROVE PrevWaits'
  <2>1. chain = 0 /\ pc' = [pc EXCEPT ![activeRun + 1] = "step"]
    BY <1>1 DEF StartWorkflowRun
  <2> QED BY <1>a, <2>1, IdleKeepsPrevWaits
<1>2. ASSUME NEW r \in Runs, RetiredPoll(r) PROVE PrevWaits'
  <2>1. Retired(r)
    BY <1>2, <1>a DEF RetiredPoll, NoticesRetirement, Polls, RefInv, Retired
  <2> QED BY <1>2, <1>a, <2>1, EndKeepsPrevWaits DEF RetiredPoll, piVars
<1>3. ASSUME NEW r \in Runs, FailedPoll(r) PROVE PrevWaits'
  <2>1. Ready \/ Outcome(r) = "aborted"
    BY <1>3 DEF FailedPoll, PromptFailed
  <2> QED BY <1>3, <1>a, <2>1, EndKeepsPrevWaits DEF FailedPoll, Observes, piVars
\* A settled wait leaves Pi idle: the others need it, and this one was idle before.
<1>4. ASSUME NEW r \in Runs, Settles(r) PROVE Ready
  BY <1>4 DEF Settles, Settled, PromptFailed, PrevWaits
<1>5. ASSUME NEW r \in Runs, SkipRebuttal(r) \/ RejectOutput(r) \/ AcceptOutput(r) PROVE PrevWaits'
  <2>1. Ready /\ Polls(r) /\ (StepThrew(r) \/ StepReturned(r))
        /\ UNCHANGED <<before, expect, turns, busy, queue>>
    BY <1>4, <1>5 DEF SkipRebuttal, RejectOutput, AcceptOutput, Settles, Observes, piVars
  <2> QED BY <1>a, <2>1, EndKeepsPrevWaits
<1>6. ASSUME NEW r \in Runs, \/ StalePoll(r)
                             \/ \E kind \in {"step", "retry", "repair"} : SendNext(r, kind)
      PROVE  PrevWaits'
  <2>1. /\ Polls(r) /\ pc'[r] # "prev" /\ \A q \in Runs \ {r} : pc'[q] = pc[q]
    BY <1>6, <1>a DEF StalePoll, SendNext, SendPrompt, Settles, Observes
  <2>2. \A q \in Runs \ {r} : pc[q] # "prev"
    BY <2>1, ChainTyping, <1>a DEF PrevWaits, Polls
  <2> QED BY <2>1, <2>2 DEF PrevWaits
<1>7. ASSUME NEW r \in Runs, FinishWorkflowRun(r) PROVE PrevWaits'
  <2>1. /\ pc[r] = "finish" /\ chain = r /\ pc'[r] = "done" /\ \A q \in Runs \ {r} : pc'[q] = pc[q]
    BY <1>7, <1>a DEF FinishWorkflowRun
  <2> QED BY <2>1 DEF PrevWaits
<1>8. ASSUME CancelActiveWorkflow \/ SessionShutdown \/ Dispose PROVE PrevWaits'
  BY <1>8, <1>a, IdleKeepsPrevWaits DEF CancelActiveWorkflow, SessionShutdown, Dispose
<1>9. ASSUME PiUnchanged, PiRuns PROVE PrevWaits'
  BY <1>9, <1>a, IdleKeepsPrevWaits DEF PiUnchanged, PiRuns
<1>10. ASSUME PiStep \/ PiToolEvent \/ UserPrompts \/ UserAborts PROVE PrevWaits'
  BY <1>9, <1>10 DEF PiStep, PiAccepts, PiSettles, PiAnswers, PiToolEvent, UserPrompts, UserAborts
<1>11. CASE UNCHANGED vars
  <2>1. UNCHANGED <<pc, chain, before, expect, turns, busy, queue>>
    BY <1>11 DEF vars, stepVars, piVars
  <2> QED BY <2>1 DEF PrevWaits, Ready, Outcome, Answering
<1> QED BY <1>1, <1>2, <1>3, <1>5, <1>6, <1>7, <1>8, <1>10, <1>11
        DEF Next, CoordinatorStep, PollStep

LEMMA SendsWhenReady ==
    ASSUME IInv, PrevWaits, [Next]_vars, NEW r \in 1..activeRun, Sends(r)
    PROVE  Ready
<1>a. TypeOK /\ outbox \in Seq(Prompts) /\ r # activeRun + 1
  BY DEF IInv, TypeOK, PiTypes, RunnerTypes
<1>1. ASSUME NEW q \in Runs, Settles(q) PROVE Ready
  BY <1>1 DEF Settles, Settled, PromptFailed, PrevWaits
<1>2. ASSUME NEW q \in Runs, NEW kind \in {"step", "retry", "repair"}, SendNext(q, kind)
      PROVE  Ready
  BY <1>1, <1>2 DEF SendNext
<1>3. ASSUME NEW transform \in BOOLEAN, StartWorkflowRun(transform) PROVE FALSE
  <2>1. Text(1, "step") \in Texts /\ (~Ready) \in BOOLEAN /\ activeRun + 1 \in Runs
    BY <1>3, PromptTyping, RunsAreNumbers DEF StartWorkflowRun
  <2>2. PICK p \in Prompts : p.run = activeRun + 1 /\ outbox' = Append(outbox, p)
    BY <1>3, <2>1, PromptTyping, RunsAreNumbers DEF StartWorkflowRun, Prompt
  <2>3. outbox'[Len(outbox')] = p
    BY <1>a, <2>2, LastAppended
  <2> QED BY <1>a, <2>2, <2>3 DEF Sends
<1>4. ASSUME outbox' = outbox \/ (outbox # <<>> /\ outbox' = Tail(outbox)) PROVE FALSE
  BY <1>a, <1>4 DEF Sends
<1>5. ASSUME NEW q \in Runs,
             \/ RetiredPoll(q) \/ StalePoll(q) \/ FailedPoll(q) \/ SkipRebuttal(q)
             \/ AcceptOutput(q) \/ RejectOutput(q) \/ FinishWorkflowRun(q)
      PROVE  FALSE
  BY <1>4, <1>5 DEF RetiredPoll, StalePoll, FailedPoll, SkipRebuttal, AcceptOutput, RejectOutput,
                    FinishWorkflowRun, piVars
<1>6. ASSUME \/ CancelActiveWorkflow \/ SessionShutdown \/ Dispose \/ PiStep \/ PiToolEvent
             \/ UserPrompts \/ UserAborts \/ UNCHANGED vars
      PROVE  FALSE
  BY <1>4, <1>6 DEF CancelActiveWorkflow, SessionShutdown, Dispose, PiStep, PiAccepts, PiSettles,
                    PiAnswers, PiToolEvent, UserPrompts, UserAborts, vars, piVars
<1> QED BY <1>2, <1>3, <1>5, <1>6 DEF Next, CoordinatorStep, PollStep

\* Every prompt of a run but its first is handed to an idle Pi with nothing queued:
\* a busy session would reject it and the run would wait for an answer for ever.
THEOREM PromptsWait == Spec => PromptsWaitForIdle
<1>1. Init => PrevWaits
  BY DEF Init, PrevWaits
<1>2. IInv /\ PrevWaits /\ [Next]_vars => [\A r \in 1..activeRun : Sends(r) => Ready]_vars
  BY SendsWhenReady
<1> QED BY <1>1, <1>2, PrevWaitsStep, IInvariant, PTL DEF Spec, PromptsWaitForIdle

-----------------------------------------------------------------------------
(* What has ended stays as it ended *)

\* The run that is going on is in its current step, and has begun no later one.
RunningStep(r) ==
    status[r] = "running" =>
        /\ stepStatus[r][stepIdx[r]] = "running"
        /\ \A j \in Steps : j > stepIdx[r] => stepStatus[r][j] = "pending"
AllRunningSteps == \A r \in Runs : RunningStep(r)
EndedSteps == {"completed", "failed", "skipped"}
Kept(r) ==
    /\ status[r] \in Ended => status'[r] = status[r] /\ stepStatus'[r] = stepStatus[r]
    /\ \A k \in Steps : stepStatus[r][k] \in EndedSteps => stepStatus'[r][k] = stepStatus[r][k]

LEMMA SameRunKept ==
    ASSUME NEW r \in Runs, RunningStep(r), status'[r] = status[r], stepStatus'[r] = stepStatus[r],
           stepIdx'[r] = stepIdx[r]
    PROVE  RunningStep(r)' /\ Kept(r)
  BY DEF RunningStep, Kept

LEMMA CancelKeeps ==
    ASSUME IInv, NEW r \in Runs, RunningStep(r), status'[r] = StatusAfterCancel[r],
           stepStatus'[r] = StepsAfterCancel[r], stepIdx'[r] = stepIdx[r]
    PROVE  RunningStep(r)' /\ Kept(r)
<1>0. status[r] = "running" => r = activeRun
  BY IInvImpliesAgreement DEF RunnerAgreesWithRef
<1>1. \/ status[r] = "running" /\ status'[r] = "cancelled"
      \/ status[r] # "running" /\ status'[r] = status[r] /\ stepStatus'[r] = stepStatus[r]
  BY <1>0 DEF StatusAfterCancel, StepsAfterCancel
<1>2. \A k \in Steps : stepStatus[r][k] \in EndedSteps => stepStatus'[r][k] = stepStatus[r][k]
  BY DEF StepsAfterCancel, CancelledSteps, EndedSteps, IInv, TypeOK, RunnerTypes
<1> QED BY <1>1, <1>2 DEF RunningStep, Kept, Ended

\* The end of step k moves a running run on, or ends it.
LEMMA LoopKeeps ==
    ASSUME TypeOK, AllRunningSteps, NEW q \in Runs, StepThrew(q) \/ StepReturned(q)
    PROVE  AllRunningSteps' /\ \A r \in Runs : Kept(r)
<1> DEFINE k == stepIdx[q]
<1>0. /\ stepIdx \in [Runs -> Steps] /\ status \in [Runs -> RunStatuses] /\ RunningStep(q)
      /\ stepStatus \in [Runs -> [Steps -> StepStatuses]] /\ k \in Steps
  BY DEF TypeOK, RunnerTypes, AllRunningSteps
<1>1. \A r \in Runs \ {q} : /\ stepStatus'[r] = stepStatus[r] /\ stepIdx'[r] = stepIdx[r]
                            /\ status'[r] = status[r]
  BY LoopTouches, <1>0 DEF StepThrew, StepReturned, NextStep, LeaveLoop
<1>2. RunningStep(q)' /\ Kept(q)
  <2>1. CASE Retired(q)
    <3>1. stepIdx' = stepIdx /\ stepStatus' = stepStatus /\ status'[q] = status[q]
      BY <1>0, <2>1 DEF StepThrew, StepReturned, LeaveLoop
    <3> QED BY <1>0, <3>1, SameRunKept
  <2>2. ASSUME ~Retired(q), NEW st \in EndedSteps, NEW cap, NextStep(q, st, cap)
        PROVE  RunningStep(q)' /\ Kept(q)
    <3>1. status[q] = "running" /\ stepStatus[q][k] = "running"
          /\ \A j \in Steps : j > k => stepStatus[q][j] = "pending"
      BY <1>0, <2>2 DEF Retired, RunningStep
    <3>2. CASE LastStep(q)
      <4>1. stepStatus' = [stepStatus EXCEPT ![q][k] = st] /\ status'[q] = "completed"
        BY <1>0, <2>2, <3>2 DEF NextStep, LeaveLoop
      <4>2. \A j \in Steps \ {k} : stepStatus'[q][j] = stepStatus[q][j]
        BY <1>0, <4>1
      <4> QED BY <3>1, <4>1, <4>2 DEF RunningStep, Kept, EndedSteps, Ended
    <3>3. CASE ~LastStep(q)
      <4>1. /\ stepStatus' = [stepStatus EXCEPT ![q][k] = st, ![q][k + 1] = "running"]
            /\ stepIdx'[q] = k + 1 /\ status' = status
        BY <1>0, <2>2, <3>3 DEF NextStep
      <4>2. k + 1 \in Steps
        BY <1>0, <3>3 DEF LastStep, Steps
      <4>3. /\ stepStatus'[q][k + 1] = "running"
            /\ \A j \in Steps \ {k, k + 1} : stepStatus'[q][j] = stepStatus[q][j]
        BY <1>0, <4>1, <4>2 DEF Steps
      <4>4. RunningStep(q)'
        BY <1>0, <3>1, <4>1, <4>2, <4>3 DEF RunningStep, Steps
      <4>5. stepStatus[q][k + 1] = "pending"
        BY <1>0, <3>1, <4>2 DEF Steps
      <4>6. Kept(q)
        BY <3>1, <4>3, <4>5 DEF Kept, EndedSteps, Ended
      <4> QED BY <4>4, <4>6
    <3> QED BY <3>2, <3>3
  <2>3. ASSUME ~Retired(q), k \notin Skippable, StepThrew(q)
        PROVE  RunningStep(q)' /\ Kept(q)
    <3>1. stepStatus' = [stepStatus EXCEPT ![q][k] = "failed"] /\ status'[q] = "failed"
      BY <1>0, <2>3 DEF StepThrew, LeaveLoop
    <3>2. status[q] = "running" /\ stepStatus[q][k] = "running"
          /\ \A j \in Steps \ {k} : stepStatus'[q][j] = stepStatus[q][j]
      BY <1>0, <2>3, <3>1 DEF Retired, RunningStep
    <3> QED BY <3>1, <3>2 DEF RunningStep, Kept, EndedSteps, Ended
  <2>4. ASSUME ~Retired(q), StepReturned(q) PROVE RunningStep(q)' /\ Kept(q)
    <3>1. NextStep(q, "completed", IF capture = q THEN 0 ELSE capture)
      BY <2>4 DEF StepReturned
    <3> QED BY <2>2, <2>4, <3>1 DEF EndedSteps
  <2>5. ASSUME ~Retired(q), k \in Skippable, StepThrew(q) PROVE RunningStep(q)' /\ Kept(q)
    <3>1. NextStep(q, "skipped", capture)
      BY <2>5 DEF StepThrew
    <3> QED BY <2>2, <2>5, <3>1 DEF EndedSteps
  <2> QED BY <2>1, <2>3, <2>4, <2>5
<1>3. \A r \in Runs \ {q} : RunningStep(r)' /\ Kept(r)
  BY <1>1, SameRunKept DEF AllRunningSteps
<1> QED BY <1>2, <1>3 DEF AllRunningSteps

LEMMA KeptStep ==
    ASSUME IInv, AllOrdered, AllRunningSteps, [Next]_vars
    PROVE  AllRunningSteps' /\ \A r \in Runs : Kept(r)
<1> DEFINE Goal == AllRunningSteps' /\ \A r \in Runs : Kept(r)
<1>a. TypeOK /\ RefInv
  BY DEF IInv
<1>1. ASSUME NEW transform \in BOOLEAN, StartWorkflowRun(transform) PROVE Goal
  <2>0. activeRun + 1 \in Runs
    BY <1>1 DEF StartWorkflowRun
  <2>r. PICK q \in Runs : q = activeRun + 1
    BY <2>0
  <2>1. /\ pc[q] = "idle" /\ status[q] = "none"
        /\ stepStatus' = [StepsAfterCancel EXCEPT ![q][1] = "running"]
        /\ status' = [StatusAfterCancel EXCEPT ![q] = "running"]
        /\ stepIdx' = [stepIdx EXCEPT ![q] = 1]
    BY <1>1, <1>a, <2>r DEF StartWorkflowRun, RunnerStart, RefInv, TypeOK, RunnerTypes
  <2>2. /\ stepIdx \in [Runs -> Steps] /\ 1 \in Steps
        /\ StepsAfterCancel \in [Runs -> [Steps -> StepStatuses]]
        /\ StatusAfterCancel \in [Runs -> RunStatuses]
    BY <1>a, CancelTyping, RunsAreNumbers DEF TypeOK, RunnerTypes
  <2>3. \A k \in Steps : StepsAfterCancel[q][k] = "pending" /\ stepStatus[q][k] = "pending"
    BY <2>1 DEF StepsAfterCancel, AllOrdered, Ordered
  <2>4. /\ stepStatus'[q][1] = "running" /\ \A k \in Steps \ {1} : stepStatus'[q][k] = "pending"
        /\ stepIdx'[q] = 1
    BY <2>1, <2>2, <2>3
  <2>5. RunningStep(q)' /\ Kept(q)
    BY <2>1, <2>2, <2>3, <2>4 DEF RunningStep, Kept, EndedSteps, Ended, Steps
  <2>6. \A r \in Runs \ {q} : /\ stepStatus'[r] = StepsAfterCancel[r] /\ stepIdx'[r] = stepIdx[r]
                              /\ status'[r] = StatusAfterCancel[r]
    BY <2>1, <2>2
  <2>7. \A r \in Runs \ {q} : RunningStep(r)' /\ Kept(r)
    BY <2>6, CancelKeeps DEF AllRunningSteps
  <2> QED BY <2>5, <2>7 DEF AllRunningSteps
<1>2. ASSUME NEW q \in Runs, StepThrew(q) \/ StepReturned(q) PROVE Goal
  BY <1>2, <1>a, LoopKeeps
<1>3. ASSUME NEW q \in Runs,
             \/ RetiredPoll(q) \/ FailedPoll(q) \/ SkipRebuttal(q) \/ RejectOutput(q)
             \/ AcceptOutput(q)
      PROVE  Goal
  BY <1>2, <1>3 DEF RetiredPoll, FailedPoll, SkipRebuttal, RejectOutput, AcceptOutput
<1>4. ASSUME status' = StatusAfterCancel, stepStatus' = StepsAfterCancel, stepIdx' = stepIdx
      PROVE  Goal
  BY <1>4, CancelKeeps DEF AllRunningSteps
<1>5. ASSUME \/ \E q \in Runs : StalePoll(q)
             \/ CancelActiveWorkflow \/ SessionShutdown
      PROVE  Goal
  BY <1>4, <1>5 DEF StalePoll, CancelActiveWorkflow, SessionShutdown, Interrupt
<1>6. ASSUME UNCHANGED <<status, stepStatus, stepIdx>> PROVE Goal
  BY <1>6, SameRunKept DEF AllRunningSteps
<1>7. ASSUME NEW q \in Runs, \/ FinishWorkflowRun(q)
                             \/ \E kind \in {"step", "retry", "repair"} : SendNext(q, kind)
      PROVE  Goal
  BY <1>6, <1>7 DEF FinishWorkflowRun, SendNext, runnerVars
<1>8. ASSUME PiUnchanged \/ Dispose \/ UNCHANGED vars PROVE Goal
  BY <1>6, <1>8 DEF PiUnchanged, Dispose, vars, runnerVars
<1>9. ASSUME PiStep \/ PiToolEvent \/ UserPrompts \/ UserAborts PROVE Goal
  BY <1>8, <1>9 DEF PiStep, PiAccepts, PiSettles, PiAnswers, PiToolEvent, UserPrompts, UserAborts
<1> QED BY <1>1, <1>3, <1>5, <1>7, <1>8, <1>9 DEF Next, CoordinatorStep, PollStep

\* A run that has ended keeps its status and its steps, whatever its executor still
\* returns, and a step that has ended is never begun again.
THEOREM EndedStays == Spec => EndedStaysEnded
<1>1. Init => AllRunningSteps
  BY DEF Init, AllRunningSteps, RunningStep
<1>2. IInv /\ AllOrdered /\ AllRunningSteps /\ [Next]_vars => AllRunningSteps'
  BY KeptStep
<1>3. IInv /\ AllOrdered /\ AllRunningSteps /\ [Next]_vars =>
        [\A r \in Runs :
            /\ status[r] \in {"completed", "failed", "cancelled"} =>
                  status'[r] = status[r] /\ stepStatus'[r] = stepStatus[r]
            /\ \A k \in Steps : stepStatus[r][k] \in {"completed", "failed", "skipped"} =>
                  stepStatus'[r][k] = stepStatus[r][k]]_vars
  BY KeptStep DEF Kept, Ended, EndedSteps
<1> QED BY <1>1, <1>2, <1>3, OrderedInit, OrderedStep, IInvariant, PTL DEF Spec, EndedStaysEnded
=============================================================================
