-------------------------- MODULE QuestionsProofs --------------------------
(***************************************************************************)
(* Theorems about Questions, for every set of sessions, runs and calls.    *)
(***************************************************************************)
EXTENDS Questions, TLAPS

\* A tool is no call of the model, and its session is its own.
LEMMA RunOfAsker ==
  /\ \A k \in Calls : k \notin Tools /\ RunOf(k) = Of[k] /\ Of[k] \in Chats
  /\ \A t \in Tools : RunOf(t) = t /\ t \notin Calls /\ t \notin Chats
BY QuestionsAssumption DEF RunOf

-----------------------------------------------------------------------------
(***************************************************************************)
(* Types.                                                                  *)
(***************************************************************************)

LEMMA AdmitTyped ==
  ASSUME TypeOK, NEW r \in Runs, Admit(r)
  PROVE  /\ tail' \in [Sessions -> Runs \cup {None}]
         /\ tries' \in [Runs -> Nat]
         /\ own' \in [Runs -> BOOLEAN]
<1>1. own' \in [Runs -> BOOLEAN]
  <2>1. own' = [own EXCEPT ![r] = Home[r] = current]
    BY Zenon DEF Admit
  <2>2. own \in [Runs -> BOOLEAN]
    BY Zenon DEF TypeOK
  <2>3. (Home[r] = current) \in BOOLEAN
    OBVIOUS
  <2> QED BY <2>1, <2>2, <2>3, Zenon
<1>2. tail' \in [Sessions -> Runs \cup {None}]
  BY QuestionsAssumption DEF Admit, TypeOK
<1>3. tries' \in [Runs -> Nat]
  BY DEF Admit, TypeOK
<1> QED BY <1>1, <1>2, <1>3

LEMMA TakeLockTyped ==
  ASSUME TypeOK, NEW r \in Runs, NEW next \in Phases, TakeLock(r, next)
  PROVE  /\ lock' \in [Sessions -> {"free", "server", "run", "foreign"}]
         /\ phase' \in [Runs -> Phases]
BY QuestionsAssumption DEF TakeLock, TypeOK

LEMMA EndHandlingTyped ==
  ASSUME TypeOK, NEW r \in Runs, EndHandling(r)
  PROVE  tail' \in [Sessions -> Runs \cup {None}]
BY QuestionsAssumption DEF EndHandling, TypeOK

LEMMA GiveLockBackTyped ==
  ASSUME TypeOK, NEW r \in Runs, GiveLockBack(r)
  PROVE  lock' \in [Sessions -> {"free", "server", "run", "foreign"}]
BY QuestionsAssumption DEF GiveLockBack, TypeOK

LEMMA ReleaseTyped ==
  ASSUME TypeOK, NEW c \in Chats, Release(c)
  PROVE  /\ registry' \in [Sessions -> Chats \cup {None}]
         /\ stop' \in [Chats -> BOOLEAN]
         /\ phase' \in [Runs -> Phases]
         /\ lock' \in [Sessions -> {"free", "server", "run", "foreign"}]
BY QuestionsAssumption, GiveLockBackTyped DEF Release, TypeOK, Runs, Phases

LEMMA ExecuteTyped ==
  ASSUME TypeOK, NEW t \in Tools, Execute(t)
  PROVE  /\ call' \in [Askers -> CallStates]
         /\ ran' \in [Tools -> Nat]
         /\ accepted' \subseteq Tools
         /\ pending' \subseteq Tools
BY DEF Execute, Records, Accept, TypeOK, Askers, CallStates

LEMMA ChatsAndTools ==
  /\ Chats \subseteq Runs /\ Tools \subseteq Runs
  /\ Calls \subseteq Askers /\ Tools \subseteq Askers
BY DEF Runs, Askers

THEOREM Typing == TypeOK /\ [Next]_vars => TypeOK'
<1> SUFFICES ASSUME TypeOK, [Next]_vars PROVE TypeOK'
  OBVIOUS
<1> USE QuestionsAssumption, ChatsAndTools
<1>1. ASSUME NEW c \in Chats, AdmitChat(c) PROVE TypeOK'
  BY <1>1, AdmitTyped DEF AdmitChat, TypeOK, Phases, store
<1>2. ASSUME NEW c \in Chats, LockChat(c) PROVE TypeOK'
  BY <1>2, TakeLockTyped DEF LockChat, TypeOK, Phases, chat, store
<1>3. ASSUME NEW c \in Chats, ChatLockRefused(c) PROVE TypeOK'
  BY <1>3, EndHandlingTyped DEF ChatLockRefused, TypeOK, Phases, store
<1>4. ASSUME NEW c \in Chats, Prompt(c) PROVE TypeOK'
  BY <1>4, EndHandlingTyped DEF Prompt, TypeOK, Phases, store
<1>5. ASSUME NEW c \in Chats, HandlerReturns(c) PROVE TypeOK'
  BY <1>5, EndHandlingTyped, ReleaseTyped DEF HandlerReturns, TypeOK, Phases, store
<1>6. ASSUME NEW c \in Chats, Dispose(c) PROVE TypeOK'
  BY <1>6, ReleaseTyped DEF Dispose, TypeOK, store
<1>7. ASSUME NEW c \in Chats, TurnEnds(c) PROVE TypeOK'
  BY <1>7 DEF TurnEnds, TypeOK, Phases, store
<1>8. ASSUME NEW c \in Chats, NextStep(c) PROVE TypeOK'
  BY <1>8 DEF NextStep, TypeOK, store
<1>9. ASSUME NEW c \in Chats, Stop(c) PROVE TypeOK'
  BY <1>9 DEF Stop, Settled, TypeOK, CallStates, store
<1>10. ASSUME NEW k \in Calls, CallTool(k) PROVE TypeOK'
  BY <1>10 DEF CallTool, TypeOK, CallStates, chat, store
<1>11. ASSUME NEW k \in Calls, CallReturns(k) PROVE TypeOK'
  BY <1>11 DEF CallReturns, TypeOK, CallStates, chat, store
<1>12. ASSUME NEW k \in Askers, Ask(k) PROVE TypeOK'
  BY <1>12 DEF Ask, TypeOK, CallStates, chat, store
<1>13. ASSUME NEW k \in Askers, Answer(k) PROVE TypeOK'
  BY <1>13 DEF Answer, Settled, TypeOK, CallStates, chat, store
<1>14. ASSUME NEW t \in Tools, AdmitTool(t) PROVE TypeOK'
  BY <1>14, AdmitTyped, ExecuteTyped DEF AdmitTool, TypeOK, Phases, chat, store
<1>15. ASSUME NEW t \in Tools, LockTool(t) PROVE TypeOK'
  BY <1>15, TakeLockTyped, ExecuteTyped DEF LockTool, TypeOK, Phases, chat
<1>16. ASSUME NEW t \in Tools, ToolLockRefused(t) PROVE TypeOK'
  BY <1>16, EndHandlingTyped DEF ToolLockRefused, TypeOK, Phases, chat, store
<1>17. ASSUME NEW t \in Tools, EndTool(t) PROVE TypeOK'
  BY <1>17, EndHandlingTyped, GiveLockBackTyped
     DEF EndTool, Accept, TypeOK, Phases, CallStates, chat
<1>18. ASSUME NEW t \in Tools, PendingExpires(t) PROVE TypeOK'
  BY <1>18 DEF PendingExpires, TypeOK, chat
<1>19. ASSUME NEW s \in Sessions, OpenSession(s) PROVE TypeOK'
  BY <1>19 DEF OpenSession, TypeOK, store
<1>20. ASSUME NEW s \in Sessions, Foreign(s) PROVE TypeOK'
  BY <1>20 DEF Foreign, TypeOK, chat, store
<1>21. ASSUME NEW s \in Sessions, Restart(s) PROVE TypeOK'
  BY <1>21 DEF Restart, TypeOK, Phases, CallStates, store
<1>22. CASE UNCHANGED vars
  BY <1>22 DEF vars, TypeOK, chat, store
<1> QED
  BY <1>1, <1>2, <1>3, <1>4, <1>5, <1>6, <1>7, <1>8, <1>9, <1>10, <1>11, <1>12, <1>13,
     <1>14, <1>15, <1>16, <1>17, <1>18, <1>19, <1>20, <1>21, <1>22
     DEF Next, ServeChat, ServeTool

LEMMA InitTyped == Init => TypeOK
<1> SUFFICES ASSUME Init PROVE TypeOK
  OBVIOUS
<1>1. phase \in [Runs -> Phases] /\ call \in [Askers -> CallStates]
  BY DEF Init, Phases, CallStates
<1>2. own \in [Runs -> BOOLEAN] /\ stop \in [Chats -> BOOLEAN] /\ crashed \in BOOLEAN
  BY Zenon DEF Init
<1>3. lock \in [Sessions -> {"free", "server", "run", "foreign"}]
  BY DEF Init
<1>4. /\ tail \in [Sessions -> Runs \cup {None}]
      /\ registry \in [Sessions -> Chats \cup {None}]
      /\ turn \in [Chats -> {"off", "first", "gap", "later"}]
      /\ ran \in [Tools -> Nat] /\ tries \in [Runs -> Nat]
  BY DEF Init
<1>5. /\ current \in Sessions /\ late \subseteq Calls
      /\ accepted \subseteq Tools /\ pending \subseteq Tools
  BY DEF Init
<1> QED BY <1>1, <1>2, <1>3, <1>4, <1>5 DEF TypeOK

\* Every variable keeps its type.
THEOREM TypeCorrect == Spec => []TypeOK
BY InitTyped, Typing, PTL DEF Spec

-----------------------------------------------------------------------------
(***************************************************************************)
(* A stopped run waits for no answer.                                      *)
(***************************************************************************)

\* Giving a session back forgets the Stop; nothing else but a Stop touches it.
LEMMA SameQuestions ==
  ASSUME TypeOK, StoppedRunsWaitForNobody, UNCHANGED <<call, late>>,
         \A c \in Chats : stop'[c] => stop[c]
  PROVE  StoppedRunsWaitForNobody'
BY RunOfAsker DEF StoppedRunsWaitForNobody, HasQuestion

LEMMA ForgottenStop ==
  ASSUME TypeOK, NEW c \in Chats, stop' = [stop EXCEPT ![c] = FALSE]
  PROVE  \A d \in Chats : stop'[d] => stop[d]
<1> TAKE d \in Chats
<1>1. CASE d = c
  <2>1. stop'[d] = FALSE
    BY <1>1 DEF TypeOK
  <2> QED BY <2>1
<1>2. CASE d # c
  BY <1>2 DEF TypeOK
<1> QED BY <1>1, <1>2

\* One call changes and it has no question, or its run was not stopped.
LEMMA OneCallChanges ==
  ASSUME TypeOK, StoppedRunsWaitForNobody, UNCHANGED stop,
         NEW k \in Askers, NEW x \in CallStates, call' = [call EXCEPT ![k] = x],
         late \subseteq late',
         k \in Calls /\ x \in {"asking", "hooking"} /\ stop[Of[k]] => k \in late'
  PROVE  StoppedRunsWaitForNobody'
<1> SUFFICES ASSUME NEW m \in Calls, HasQuestion(m)', stop'[Of[m]]
             PROVE  m \in late'
  BY DEF StoppedRunsWaitForNobody
<1>1. m \in Askers /\ call \in [Askers -> CallStates]
  BY ChatsAndTools DEF TypeOK
<1>2. CASE m = k
  BY <1>1, <1>2 DEF HasQuestion
<1>3. CASE m # k
  <2>1. HasQuestion(m)
    BY <1>1, <1>3 DEF HasQuestion
  <2> QED BY <2>1 DEF StoppedRunsWaitForNobody
<1> QED BY <1>2, <1>3

THEOREM WaitForNobodyStep ==
  TypeOK /\ StoppedRunsWaitForNobody /\ [Next]_vars => StoppedRunsWaitForNobody'
<1> SUFFICES ASSUME TypeOK, StoppedRunsWaitForNobody, [Next]_vars
             PROVE  StoppedRunsWaitForNobody'
  OBVIOUS
<1>1. ASSUME NEW c \in Chats,
             AdmitChat(c) \/ LockChat(c) \/ Prompt(c) \/ TurnEnds(c) \/ NextStep(c)
      PROVE  StoppedRunsWaitForNobody'
  <2>1. UNCHANGED <<call, late, stop>>
    BY <1>1 DEF AdmitChat, LockChat, Prompt, TurnEnds, NextStep, chat
  <2> QED BY <2>1, SameQuestions
<1>2. ASSUME NEW c \in Chats, ChatLockRefused(c) \/ HandlerReturns(c) \/ Dispose(c)
      PROVE  StoppedRunsWaitForNobody'
  <2>1. UNCHANGED <<call, late>>
    BY <1>2 DEF ChatLockRefused, HandlerReturns, Dispose
  <2>2. UNCHANGED stop \/ stop' = [stop EXCEPT ![c] = FALSE]
    BY <1>2 DEF ChatLockRefused, HandlerReturns, Dispose, Release
  <2> QED BY <2>1, <2>2, ForgottenStop, SameQuestions
<1>3. ASSUME NEW c \in Chats, Stop(c) PROVE StoppedRunsWaitForNobody'
  <2> SUFFICES ASSUME NEW m \in Calls, HasQuestion(m)', stop'[Of[m]]
               PROVE  m \in late'
    BY DEF StoppedRunsWaitForNobody
  <2>1. m \in Askers /\ call'[m] = IF StopSettles(c, m) THEN Settled(m) ELSE call[m]
    BY <1>3, ChatsAndTools DEF Stop
  <2>2. ~StopSettles(c, m) /\ HasQuestion(m)
    BY <2>1 DEF HasQuestion, Settled
  <2>3. Of[m] # c
    BY <2>2, RunOfAsker DEF StopSettles, SessionOf
  <2>4. stop[Of[m]]
    BY <1>3, <2>3, RunOfAsker DEF Stop, TypeOK
  <2> QED BY <1>3, <2>2, <2>4 DEF Stop, StoppedRunsWaitForNobody
<1>4. ASSUME NEW k \in Calls, CallTool(k) PROVE StoppedRunsWaitForNobody'
  BY <1>4, OneCallChanges, ChatsAndTools DEF CallTool, chat, CallStates
<1>5. ASSUME NEW k \in Calls, CallReturns(k) PROVE StoppedRunsWaitForNobody'
  <2>1. UNCHANGED stop
    BY <1>5 DEF CallReturns, chat
  <2>2. CASE call' = [call EXCEPT ![k] = "done"] /\ UNCHANGED late
    BY <2>1, <2>2, OneCallChanges, ChatsAndTools DEF CallStates
  <2>3. CASE /\ call' = [call EXCEPT ![k] = "hooking"]
             /\ late' = IF stop[Of[k]] THEN late \cup {k} ELSE late
    BY <2>1, <2>3, OneCallChanges, ChatsAndTools DEF CallStates
  <2> QED BY <1>5, <2>2, <2>3 DEF CallReturns
<1>6. ASSUME NEW k \in Askers, Ask(k) PROVE StoppedRunsWaitForNobody'
  BY <1>6, OneCallChanges DEF Ask, MayAsk, chat, CallStates
<1>7. ASSUME NEW k \in Askers, Answer(k) PROVE StoppedRunsWaitForNobody'
  BY <1>7, OneCallChanges DEF Answer, Settled, chat, CallStates
<1>8. ASSUME NEW t \in Tools, AdmitTool(t) \/ LockTool(t) \/ EndTool(t)
      PROVE  StoppedRunsWaitForNobody'
  <2>1. UNCHANGED <<stop, late>> /\ t \notin Calls /\ t \in Askers
    BY <1>8, RunOfAsker, ChatsAndTools DEF AdmitTool, LockTool, EndTool, chat
  <2>2. \/ UNCHANGED call
        \/ \E x \in {"working", "done"} : call' = [call EXCEPT ![t] = x]
    BY <1>8 DEF AdmitTool, LockTool, EndTool, Execute
  <2>3. CASE UNCHANGED call
    BY <2>1, <2>3, SameQuestions
  <2>4. ASSUME NEW x \in {"working", "done"}, call' = [call EXCEPT ![t] = x]
        PROVE  StoppedRunsWaitForNobody'
    BY <2>1, <2>4, OneCallChanges DEF CallStates
  <2> QED BY <2>2, <2>3, <2>4
<1>9. ASSUME NEW t \in Tools, ToolLockRefused(t) \/ PendingExpires(t)
      PROVE  StoppedRunsWaitForNobody'
  <2>1. UNCHANGED <<call, late, stop>>
    BY <1>9 DEF ToolLockRefused, PendingExpires, chat
  <2> QED BY <2>1, SameQuestions
<1>10. ASSUME NEW s \in Sessions, OpenSession(s) \/ Foreign(s)
       PROVE  StoppedRunsWaitForNobody'
  <2>1. UNCHANGED <<call, late, stop>>
    BY <1>10 DEF OpenSession, Foreign, chat
  <2> QED BY <2>1, SameQuestions
<1>11. ASSUME NEW s \in Sessions, Restart(s) PROVE StoppedRunsWaitForNobody'
  BY <1>11, RunOfAsker DEF Restart, StoppedRunsWaitForNobody
<1>12. CASE UNCHANGED vars
  BY <1>12, SameQuestions DEF vars, chat
<1> QED
  BY <1>1, <1>2, <1>3, <1>4, <1>5, <1>6, <1>7, <1>8, <1>9, <1>10, <1>11, <1>12
     DEF Next, ServeChat, ServeTool

\* A Stop settles every question of its session, and the tools of a stopped run
\* open none afterwards.
THEOREM WaitsForNobody == Spec => []StoppedRunsWaitForNobody
<1>1. Init => StoppedRunsWaitForNobody
  BY RunOfAsker DEF Init, StoppedRunsWaitForNobody
<1> QED BY <1>1, TypeCorrect, WaitForNobodyStep, PTL DEF Spec

-----------------------------------------------------------------------------
(***************************************************************************)
(* A direct run executes its tool once.  A run that waits for a lock has   *)
(* not been accepted; once it has executed the tool it is accepted, or     *)
(* unrecorded and going on, or unrecorded and the server died.             *)
(***************************************************************************)

Executed(t) ==
  \/ ran[t] = 0
  \/ (ran[t] = 1 /\ t \in accepted)
  \/ t \in Unrecorded /\ (crashed \/ (ran[t] = 1 /\ phase[t] = "running"))

Fresh(t) == phase[t] = "locking" => t \notin accepted

Once == \A t \in Tools : Executed(t) /\ Fresh(t)

LEMMA OnceSuffices == TypeOK /\ Once => ToolRunsOnce
<1> SUFFICES ASSUME TypeOK, Once, NEW t \in Tools, ran[t] > 1
             PROVE  t \in Unrecorded /\ crashed
  BY DEF ToolRunsOnce
<1>1. Executed(t)
  BY DEF Once
<1>2. ran[t] # 0 /\ ran[t] # 1
  BY DEF TypeOK
<1> QED BY <1>1, <1>2, Zenon DEF Executed

\* What another run does leaves a direct run's record alone.
LEMMA OnceKept ==
  ASSUME Once, NEW t \in Tools, Executed(t)', Fresh(t)', crashed' = crashed,
         \A u \in Tools \ {t} : phase'[u] = phase[u],
         \A u \in Tools \ {t} : ran'[u] = ran[u] /\ (u \in accepted' <=> u \in accepted)
  PROVE  Once'
<1> SUFFICES ASSUME NEW u \in Tools PROVE Executed(u)' /\ Fresh(u)'
  BY DEF Once
<1>1. CASE u = t
  BY <1>1
<1>2. CASE u # t
  <2>1. Executed(u) /\ Fresh(u)
    BY DEF Once
  <2>2. /\ phase'[u] = phase[u] /\ ran'[u] = ran[u]
        /\ (u \in accepted' <=> u \in accepted)
    BY <1>2
  <2>3. Executed(u)'
    BY <2>1, <2>2, Zenon DEF Executed
  <2>4. Fresh(u)'
    BY <2>1, <2>2, Zenon DEF Fresh
  <2> QED BY <2>3, <2>4
<1> QED BY <1>1, <1>2

\* The handler of a run changes the phase of that run only.
LEMMA OtherPhases ==
  ASSUME TypeOK, NEW r \in Runs, NEW x \in Phases,
         phase' = phase \/ phase' = [phase EXCEPT ![r] = x]
  PROVE  \A q \in Runs \ {r} : phase'[q] = phase[q]
BY DEF TypeOK

\* Nothing that chat runs do concerns it.
LEMMA ChatPhase ==
  ASSUME TypeOK, NEW c \in Chats,
         AdmitChat(c) \/ ServeChat(c) \/ TurnEnds(c) \/ NextStep(c) \/ Stop(c)
  PROVE  phase' = phase \/ \E x \in Phases : phase' = [phase EXCEPT ![c] = x]
<1>1. CASE AdmitChat(c)
  BY <1>1 DEF AdmitChat, Phases
<1>2. CASE LockChat(c)
  BY <1>2 DEF LockChat, TakeLock, Phases
<1>3. CASE ChatLockRefused(c)
  BY <1>3 DEF ChatLockRefused, Phases
<1>4. CASE Prompt(c)
  BY <1>4 DEF Prompt, Phases
<1>5. CASE HandlerReturns(c)
  BY <1>5 DEF HandlerReturns, Release, Phases
<1>6. CASE Dispose(c)
  BY <1>6 DEF Dispose, Release, Phases
<1>7. CASE TurnEnds(c)
  <2>1. phase' = [phase EXCEPT ![c] = IF phase[c] = "prompting" THEN "waiting" ELSE phase[c]]
    BY <1>7 DEF TurnEnds
  <2>2. CASE phase[c] = "prompting"
    <3>1. phase' = [phase EXCEPT ![c] = "waiting"]
      BY <2>1, <2>2
    <3> QED BY <3>1 DEF Phases
  <2>3. CASE phase[c] # "prompting"
    <3>1. phase' = [phase EXCEPT ![c] = phase[c]]
      BY <2>1, <2>3
    <3>2. phase' = phase
      BY <3>1 DEF TypeOK
    <3> QED BY <3>2
  <2> QED BY <2>2, <2>3
<1>8. CASE NextStep(c) \/ Stop(c)
  BY <1>8 DEF NextStep, Stop
<1> QED BY <1>1, <1>2, <1>3, <1>4, <1>5, <1>6, <1>7, <1>8 DEF ServeChat

LEMMA ChatStore ==
  ASSUME NEW c \in Chats,
         AdmitChat(c) \/ ServeChat(c) \/ TurnEnds(c) \/ NextStep(c) \/ Stop(c)
  PROVE  UNCHANGED <<ran, accepted, crashed>>
BY DEF AdmitChat, ServeChat, LockChat, ChatLockRefused, Prompt, HandlerReturns, Dispose,
       TurnEnds, NextStep, Stop, store

LEMMA ExecutedOnce ==
  ASSUME TypeOK, NEW t \in Tools, Execute(t), Executed(t), t \notin accepted,
         crashed' = crashed, phase'[t] = "running", phase[t] # "running"
  PROVE  Executed(t)' /\ Fresh(t)'
<1>1. ran'[t] = ran[t] + 1 /\ (t \in Unrecorded \/ t \in accepted')
  BY DEF Execute, Records, Accept, TypeOK
<1>2. CASE ran[t] = 0
  <2>1. ran'[t] = 1
    BY <1>1, <1>2
  <2> QED BY <1>1, <2>1, Zenon DEF Executed, Fresh
<1>3. CASE t \in Unrecorded /\ crashed
  BY <1>3, Zenon DEF Executed, Fresh
<1> QED BY <1>2, <1>3 DEF Executed

LEMMA ExecuteOthers ==
  ASSUME TypeOK, NEW t \in Tools, Execute(t)
  PROVE  \A u \in Tools \ {t} : ran'[u] = ran[u] /\ (u \in accepted' <=> u \in accepted)
BY DEF Execute, Records, Accept, TypeOK

THEOREM OnceStep == TypeOK /\ Once /\ [Next]_vars => Once'
<1> SUFFICES ASSUME TypeOK, Once, [Next]_vars PROVE Once'
  OBVIOUS
<1>1. ASSUME NEW c \in Chats,
             AdmitChat(c) \/ ServeChat(c) \/ TurnEnds(c) \/ NextStep(c) \/ Stop(c)
      PROVE  Once'
  <2>1. \A t \in Tools : phase'[t] = phase[t]
    BY <1>1, ChatPhase, OtherPhases, ChatsAndTools, RunOfAsker
  <2>2. UNCHANGED <<ran, accepted, crashed>>
    BY <1>1, ChatStore
  <2> QED BY <2>1, <2>2 DEF Once, Executed, Fresh
<1>2. ASSUME NEW t \in Tools, AdmitTool(t) PROVE Once'
  <2>1. phase[t] = "none" /\ t \notin accepted /\ crashed' = crashed
    BY <1>2 DEF AdmitTool, Admit
  <2>2. \A u \in Tools \ {t} : phase'[u] = phase[u]
    BY <1>2, OtherPhases, ChatsAndTools DEF AdmitTool, Phases
  <2>3. CASE phase' = [phase EXCEPT ![t] = "running"] /\ Execute(t)
    <3>1. phase'[t] = "running"
      BY <2>3, ChatsAndTools DEF TypeOK
    <3>2. Executed(t)' /\ Fresh(t)'
      BY <2>1, <2>3, <3>1, ExecutedOnce DEF Once
    <3> QED BY <2>1, <2>2, <2>3, <3>2, ExecuteOthers, OnceKept
  <2>4. CASE phase' = [phase EXCEPT ![t] = "locking"] /\ UNCHANGED <<accepted, ran>>
    <3>1. Executed(t)' /\ Fresh(t)'
      <4>1. Executed(t)
        BY DEF Once
      <4> QED BY <2>1, <2>4, <4>1 DEF Executed, Fresh
    <3> QED BY <2>1, <2>2, <2>4, <3>1, OnceKept
  <2> QED BY <1>2, <2>3, <2>4 DEF AdmitTool, store
<1>3. ASSUME NEW t \in Tools, LockTool(t) PROVE Once'
  <2>1. phase[t] = "locking" /\ t \notin accepted /\ crashed' = crashed /\ Execute(t)
    BY <1>3 DEF LockTool, TakeLock, Once, Fresh
  <2>2. phase' = [phase EXCEPT ![t] = "running"]
    BY <1>3 DEF LockTool, TakeLock
  <2>3. \A u \in Tools \ {t} : phase'[u] = phase[u]
    BY <2>2, OtherPhases, ChatsAndTools DEF Phases
  <2>4. Executed(t)' /\ Fresh(t)'
    BY <2>1, <2>2, ExecutedOnce, ChatsAndTools DEF Once, TypeOK
  <2> QED BY <2>1, <2>3, <2>4, ExecuteOthers, OnceKept
<1>4. ASSUME NEW t \in Tools, ToolLockRefused(t) PROVE Once'
  <2>1. phase[t] = "locking" /\ phase' = [phase EXCEPT ![t] = "none"]
    BY <1>4 DEF ToolLockRefused
  <2>2. UNCHANGED <<ran, accepted, crashed>>
    BY <1>4 DEF ToolLockRefused, store
  <2>3. \A u \in Tools \ {t} : phase'[u] = phase[u]
    BY <2>1, OtherPhases, ChatsAndTools DEF Phases
  <2>4. Executed(t)' /\ Fresh(t)'
    BY <2>1, <2>2, ChatsAndTools DEF Once, Executed, Fresh, TypeOK
  <2> QED BY <2>2, <2>3, <2>4, OnceKept
<1>5. ASSUME NEW t \in Tools, EndTool(t) PROVE Once'
  <2>1. phase[t] = "running" /\ phase' = [phase EXCEPT ![t] = "none"]
    BY <1>5 DEF EndTool
  <2>2. UNCHANGED <<ran, crashed>> /\ accepted' = accepted \cup {t}
    BY <1>5 DEF EndTool, Accept
  <2>3. \A u \in Tools \ {t} : phase'[u] = phase[u]
    BY <2>1, OtherPhases, ChatsAndTools DEF Phases
  <2>4. Executed(t)' /\ Fresh(t)'
    <3>1. phase'[t] # "locking" /\ t \in accepted' /\ ran'[t] = ran[t] /\ crashed' = crashed
      BY <2>1, <2>2, ChatsAndTools DEF TypeOK
    <3>2. Executed(t)
      BY DEF Once
    <3> QED BY <3>1, <3>2, Zenon DEF Executed, Fresh
  <2> QED BY <2>2, <2>3, <2>4, OnceKept
<1>6. ASSUME NEW s \in Sessions, Restart(s) PROVE Once'
  <2> SUFFICES ASSUME NEW t \in Tools PROVE Executed(t)' /\ Fresh(t)'
    BY DEF Once
  <2>1. UNCHANGED <<ran, accepted>> /\ crashed' = TRUE
    BY <1>6 DEF Restart, store
  <2>2. phase'[t] # "locking"
    BY <1>6, ChatsAndTools DEF Restart
  <2>3. Executed(t)
    BY DEF Once
  <2> QED BY <2>1, <2>2, <2>3, Zenon DEF Executed, Fresh
<1>7. CASE \/ \E k \in Calls : CallTool(k) \/ CallReturns(k)
           \/ \E k \in Askers : Ask(k) \/ Answer(k)
           \/ \E t \in Tools : PendingExpires(t)
           \/ \E s \in Sessions : OpenSession(s) \/ Foreign(s)
           \/ UNCHANGED vars
  <2>1. UNCHANGED <<phase, ran, accepted, crashed>>
    BY <1>7 DEF CallTool, CallReturns, Ask, Answer, PendingExpires, OpenSession, Foreign,
                vars, store
  <2> QED BY <2>1 DEF Once, Executed, Fresh
<1> QED BY <1>1, <1>2, <1>3, <1>4, <1>5, <1>6, <1>7 DEF Next, ServeTool

\* A direct run whose action is sent again, at once or after a crash, does not
\* execute its tool again unless it left no transcript.
THEOREM RunsOnce == Spec => []ToolRunsOnce
<1>1. Init => Once
  BY ChatsAndTools DEF Init, Once, Executed, Fresh
<1> QED BY <1>1, OnceSuffices, TypeCorrect, OnceStep, PTL DEF Spec

-----------------------------------------------------------------------------
(***************************************************************************)
(* Direct runs keep out of chat runs.  A session has one owner at a time:  *)
(* the chat run in its registry, which holds the session's handler until   *)
(* its response ends and its lock until it is disposed of, or the direct   *)
(* run that holds its handler.                                             *)
(***************************************************************************)

OwnsSession(c) ==
  /\ phase[c] \in {"none", "locking", "creating", "prompting", "waiting", "disposing"}
  /\ phase[c] # "none" <=> registry[Home[c]] = c
  /\ phase[c] \in {"locking", "creating", "prompting", "waiting"} => tail[Home[c]] = c
  /\ phase[c] \in {"locking", "creating", "disposing"} => ~own[c]
  /\ phase[c] \notin {"none", "locking"} /\ ~own[c] => lock[Home[c]] = "run"
  /\ turn[c] # "off" =>
       phase[c] \in {"prompting", "waiting", "disposing"} \/ (phase[c] = "none" /\ own[c])

OwnsHandler(t) ==
  /\ phase[t] \in {"none", "locking", "running"}
  /\ phase[t] # "none" => tail[Home[t]] = t
  /\ phase[t] = "locking" => ~own[t]
  /\ phase[t] = "running" /\ ~own[t] => lock[Home[t]] = "run"

Apart(t, c) == phase[t] = "running" /\ Home[t] = Home[c] => phase[c] = "none"

Separate ==
  /\ lock[current] = "server"
  /\ \A c \in Chats : OwnsSession(c)
  /\ \A t \in Tools : OwnsHandler(t)
  /\ \A t \in Tools, c \in Chats : Apart(t, c)

LEMMA SeparateSuffices == Separate => ToolsKeepOutOfRuns
BY ChatsAndTools DEF Separate, OwnsSession, Apart, ToolsKeepOutOfRuns, InTurn

\* The sessions of two chats differ.
LEMMA OneChatPerSession ==
  \A c, d \in Chats : c # d => Home[c] # Home[d]
BY QuestionsAssumption

\* A run uses the current session if it is addressed to it.
LEMMA AdmittedOwn ==
  ASSUME TypeOK, NEW r \in Runs, Admit(r)
  PROVE  own'[r] <=> Home[r] = current
<1>1. own' = [own EXCEPT ![r] = Home[r] = current] /\ own \in [Runs -> BOOLEAN]
  BY Zenon DEF Admit, TypeOK
<1> QED BY <1>1, Zenon

LEMMA Undisturbed ==
  ASSUME Separate, UNCHANGED <<current, lock, tail, registry, phase, own>>,
         \A c \in Chats : turn'[c] # "off" => turn[c] # "off"
  PROVE  Separate'
BY DEF Separate, OwnsSession, OwnsHandler, Apart

THEOREM SeparateStep == TypeOK /\ Separate /\ [Next]_vars => Separate'
<1> SUFFICES ASSUME TypeOK, Separate, [Next]_vars PROVE Separate'
  OBVIOUS
<1> USE QuestionsAssumption, RunOfAsker, ChatsAndTools, OneChatPerSession
<1>1. ASSUME NEW c \in Chats, AdmitChat(c) PROVE Separate'
  <2>1. (lock[current] = "server")'
    BY <1>1 DEF AdmitChat, Admit, Separate, TypeOK, OwnsSession, OwnsHandler
  <2>2. ASSUME NEW d \in Chats PROVE OwnsSession(d)'
    <3>1. CASE d # c
      BY <1>1, <3>1 DEF AdmitChat, Admit, Separate, TypeOK, OwnsSession
    <3>2. CASE d = c /\ Home[c] = current
      <4>1. phase'[c] = "prompting" /\ registry'[Home[c]] = c /\ tail'[Home[c]] = c
        BY <1>1, <3>2 DEF AdmitChat, Admit, TypeOK
      <4>2. own'[c]
        BY <1>1, <3>2, AdmittedOwn DEF AdmitChat
      <4> QED BY <3>2, <4>1, <4>2 DEF OwnsSession
    <3>3. CASE d = c /\ Home[c] # current
      <4>1. /\ phase'[c] = "locking" /\ registry'[Home[c]] = c /\ tail'[Home[c]] = c
            /\ turn'[c] = "off"
        BY <1>1, <3>3 DEF AdmitChat, Admit, TypeOK
      <4>2. ~own'[c]
        BY <1>1, <3>3, AdmittedOwn DEF AdmitChat
      <4> QED BY <3>3, <4>1, <4>2 DEF OwnsSession
    <3> QED BY <3>1, <3>2, <3>3
  <2>3. ASSUME NEW u \in Tools PROVE OwnsHandler(u)'
    BY <1>1 DEF AdmitChat, Admit, Separate, TypeOK, OwnsSession, OwnsHandler, Apart
  <2>4. ASSUME NEW u \in Tools, NEW d \in Chats PROVE Apart(u, d)'
    BY <1>1 DEF AdmitChat, Admit, Separate, TypeOK, OwnsSession, OwnsHandler, Apart
  <2> QED BY <2>1, <2>2, <2>3, <2>4 DEF Separate
<1>2. ASSUME NEW c \in Chats, LockChat(c) PROVE Separate'
  <2>1. (lock[current] = "server")'
    BY <1>2 DEF LockChat, TakeLock, chat, Separate, TypeOK, OwnsSession, OwnsHandler
  <2>2. ASSUME NEW d \in Chats PROVE OwnsSession(d)'
    BY <1>2 DEF LockChat, TakeLock, chat, Separate, TypeOK, OwnsSession, OwnsHandler, Apart
  <2>3. ASSUME NEW u \in Tools PROVE OwnsHandler(u)'
    BY <1>2 DEF LockChat, TakeLock, chat, Separate, TypeOK, OwnsSession, OwnsHandler, Apart
  <2>4. ASSUME NEW u \in Tools, NEW d \in Chats PROVE Apart(u, d)'
    BY <1>2 DEF LockChat, TakeLock, chat, Separate, TypeOK, OwnsSession, OwnsHandler, Apart
  <2> QED BY <2>1, <2>2, <2>3, <2>4 DEF Separate
<1>3. ASSUME NEW c \in Chats, ChatLockRefused(c) PROVE Separate'
  <2>1. (lock[current] = "server")'
    BY <1>3 DEF ChatLockRefused, EndHandling, Separate, TypeOK, OwnsSession, OwnsHandler
  <2>2. ASSUME NEW d \in Chats PROVE OwnsSession(d)'
    BY <1>3 DEF ChatLockRefused, EndHandling, Separate, TypeOK, OwnsSession, OwnsHandler, Apart
  <2>3. ASSUME NEW u \in Tools PROVE OwnsHandler(u)'
    BY <1>3 DEF ChatLockRefused, EndHandling, Separate, TypeOK, OwnsSession, OwnsHandler, Apart
  <2>4. ASSUME NEW u \in Tools, NEW d \in Chats PROVE Apart(u, d)'
    BY <1>3 DEF ChatLockRefused, EndHandling, Separate, TypeOK, OwnsSession, OwnsHandler, Apart
  <2> QED BY <2>1, <2>2, <2>3, <2>4 DEF Separate
<1>4. ASSUME NEW c \in Chats, Prompt(c) PROVE Separate'
  <2>1. (lock[current] = "server")'
    BY <1>4 DEF Prompt, EndHandling, Separate, TypeOK, OwnsSession, OwnsHandler
  <2>2. ASSUME NEW d \in Chats PROVE OwnsSession(d)'
    BY <1>4 DEF Prompt, EndHandling, Separate, TypeOK, OwnsSession, OwnsHandler, Apart
  <2>3. ASSUME NEW u \in Tools PROVE OwnsHandler(u)'
    BY <1>4 DEF Prompt, EndHandling, Separate, TypeOK, OwnsSession, OwnsHandler, Apart
  <2>4. ASSUME NEW u \in Tools, NEW d \in Chats PROVE Apart(u, d)'
    BY <1>4 DEF Prompt, EndHandling, Separate, TypeOK, OwnsSession, OwnsHandler, Apart
  <2> QED BY <2>1, <2>2, <2>3, <2>4 DEF Separate
<1>5. ASSUME NEW c \in Chats, HandlerReturns(c) PROVE Separate'
  <2>1. (lock[current] = "server")'
    BY <1>5 DEF HandlerReturns, EndHandling, Release, GiveLockBack, Separate, TypeOK, OwnsSession, OwnsHandler
  <2>2. ASSUME NEW d \in Chats PROVE OwnsSession(d)'
    <3>1. CASE d # c
      BY <1>5, <3>1
         DEF HandlerReturns, EndHandling, Release, GiveLockBack, Separate, TypeOK, OwnsSession
    <3>2. CASE d = c /\ own[c]
      <4>1. /\ phase'[c] = "none" /\ registry'[Home[c]] = None /\ UNCHANGED own
        BY <1>5, <3>2 DEF HandlerReturns, ReleasesNow, Release, TypeOK
      <4> QED BY <3>2, <4>1 DEF OwnsSession, Runs
    <3>3. CASE d = c /\ ~own[c]
      <4>1. /\ phase'[c] = "disposing" /\ UNCHANGED <<lock, registry, own, turn>>
            /\ phase[c] = "waiting"
        BY <1>5, <3>3 DEF HandlerReturns, ReleasesNow, TypeOK
      <4> QED BY <3>3, <4>1 DEF Separate, OwnsSession
    <3> QED BY <3>1, <3>2, <3>3
  <2>3. ASSUME NEW u \in Tools PROVE OwnsHandler(u)'
    BY <1>5 DEF HandlerReturns, EndHandling, Release, GiveLockBack, Separate, TypeOK, OwnsSession, OwnsHandler, Apart
  <2>4. ASSUME NEW u \in Tools, NEW d \in Chats PROVE Apart(u, d)'
    BY <1>5 DEF HandlerReturns, EndHandling, Release, GiveLockBack, Separate, TypeOK, OwnsSession, OwnsHandler, Apart
  <2> QED BY <2>1, <2>2, <2>3, <2>4 DEF Separate
<1>6. ASSUME NEW c \in Chats, Dispose(c) PROVE Separate'
  <2>1. (lock[current] = "server")'
    BY <1>6 DEF Dispose, Release, GiveLockBack, Separate, TypeOK, OwnsSession, OwnsHandler
  <2>2. ASSUME NEW d \in Chats PROVE OwnsSession(d)'
    BY <1>6 DEF Dispose, Release, GiveLockBack, Separate, TypeOK, OwnsSession, OwnsHandler, Apart
  <2>3. ASSUME NEW u \in Tools PROVE OwnsHandler(u)'
    BY <1>6 DEF Dispose, Release, GiveLockBack, Separate, TypeOK, OwnsSession, OwnsHandler, Apart
  <2>4. ASSUME NEW u \in Tools, NEW d \in Chats PROVE Apart(u, d)'
    BY <1>6 DEF Dispose, Release, GiveLockBack, Separate, TypeOK, OwnsSession, OwnsHandler, Apart
  <2> QED BY <2>1, <2>2, <2>3, <2>4 DEF Separate
<1>7. ASSUME NEW c \in Chats, TurnEnds(c) PROVE Separate'
  <2>1. (lock[current] = "server")'
    BY <1>7 DEF TurnEnds, Separate, TypeOK, OwnsSession, OwnsHandler
  <2>2. ASSUME NEW d \in Chats PROVE OwnsSession(d)'
    BY <1>7 DEF TurnEnds, Separate, TypeOK, OwnsSession, OwnsHandler, Apart
  <2>3. ASSUME NEW u \in Tools PROVE OwnsHandler(u)'
    BY <1>7 DEF TurnEnds, Separate, TypeOK, OwnsSession, OwnsHandler, Apart
  <2>4. ASSUME NEW u \in Tools, NEW d \in Chats PROVE Apart(u, d)'
    BY <1>7 DEF TurnEnds, Separate, TypeOK, OwnsSession, OwnsHandler, Apart
  <2> QED BY <2>1, <2>2, <2>3, <2>4 DEF Separate
<1>8. ASSUME NEW t \in Tools, AdmitTool(t) PROVE Separate'
  <2>1. (lock[current] = "server")'
    BY <1>8 DEF AdmitTool, Admit, chat, Separate, TypeOK, OwnsSession, OwnsHandler
  <2>2. ASSUME NEW d \in Chats PROVE OwnsSession(d)'
    BY <1>8 DEF AdmitTool, Admit, chat, Separate, TypeOK, OwnsSession, OwnsHandler, Apart
  <2>3. ASSUME NEW u \in Tools PROVE OwnsHandler(u)'
    <3>1. CASE u # t
      BY <1>8, <3>1 DEF AdmitTool, Admit, Separate, TypeOK, OwnsHandler
    <3>2. CASE u = t /\ Home[t] = current
      <4>1. phase'[t] = "running" /\ tail'[Home[t]] = t
        BY <1>8, <3>2 DEF AdmitTool, Admit, TypeOK
      <4>2. own'[t]
        BY <1>8, <3>2, AdmittedOwn DEF AdmitTool
      <4> QED BY <3>2, <4>1, <4>2 DEF OwnsHandler
    <3>3. CASE u = t /\ Home[t] # current
      <4>1. phase'[t] = "locking" /\ tail'[Home[t]] = t
        BY <1>8, <3>3 DEF AdmitTool, Admit, TypeOK
      <4>2. ~own'[t]
        BY <1>8, <3>3, AdmittedOwn DEF AdmitTool
      <4> QED BY <3>3, <4>1, <4>2 DEF OwnsHandler
    <3> QED BY <3>1, <3>2, <3>3
  <2>4. ASSUME NEW u \in Tools, NEW d \in Chats PROVE Apart(u, d)'
    BY <1>8 DEF AdmitTool, Admit, chat, Separate, TypeOK, OwnsSession, OwnsHandler, Apart
  <2> QED BY <2>1, <2>2, <2>3, <2>4 DEF Separate
<1>9. ASSUME NEW t \in Tools, LockTool(t) PROVE Separate'
  <2>1. (lock[current] = "server")'
    BY <1>9 DEF LockTool, TakeLock, chat, Separate, TypeOK, OwnsSession, OwnsHandler
  <2>2. ASSUME NEW d \in Chats PROVE OwnsSession(d)'
    BY <1>9 DEF LockTool, TakeLock, chat, Separate, TypeOK, OwnsSession, OwnsHandler, Apart
  <2>3. ASSUME NEW u \in Tools PROVE OwnsHandler(u)'
    BY <1>9 DEF LockTool, TakeLock, chat, Separate, TypeOK, OwnsSession, OwnsHandler, Apart
  <2>4. ASSUME NEW u \in Tools, NEW d \in Chats PROVE Apart(u, d)'
    BY <1>9 DEF LockTool, TakeLock, chat, Separate, TypeOK, OwnsSession, OwnsHandler, Apart
  <2> QED BY <2>1, <2>2, <2>3, <2>4 DEF Separate
<1>10. ASSUME NEW t \in Tools, ToolLockRefused(t) PROVE Separate'
  <2>1. (lock[current] = "server")'
    BY <1>10 DEF ToolLockRefused, EndHandling, chat, Separate, TypeOK, OwnsSession, OwnsHandler
  <2>2. ASSUME NEW d \in Chats PROVE OwnsSession(d)'
    BY <1>10 DEF ToolLockRefused, EndHandling, chat, Separate, TypeOK, OwnsSession, OwnsHandler, Apart
  <2>3. ASSUME NEW u \in Tools PROVE OwnsHandler(u)'
    BY <1>10 DEF ToolLockRefused, EndHandling, chat, Separate, TypeOK, OwnsSession, OwnsHandler, Apart
  <2>4. ASSUME NEW u \in Tools, NEW d \in Chats PROVE Apart(u, d)'
    BY <1>10 DEF ToolLockRefused, EndHandling, chat, Separate, TypeOK, OwnsSession, OwnsHandler, Apart
  <2> QED BY <2>1, <2>2, <2>3, <2>4 DEF Separate
<1>11. ASSUME NEW t \in Tools, EndTool(t) PROVE Separate'
  <2>1. (lock[current] = "server")'
    BY <1>11 DEF EndTool, EndHandling, GiveLockBack, chat, Separate, TypeOK, OwnsSession, OwnsHandler
  <2>2. ASSUME NEW d \in Chats PROVE OwnsSession(d)'
    BY <1>11 DEF EndTool, EndHandling, GiveLockBack, chat, Separate, TypeOK, OwnsSession, OwnsHandler, Apart
  <2>3. ASSUME NEW u \in Tools PROVE OwnsHandler(u)'
    BY <1>11 DEF EndTool, EndHandling, GiveLockBack, chat, Separate, TypeOK, OwnsSession, OwnsHandler, Apart
  <2>4. ASSUME NEW u \in Tools, NEW d \in Chats PROVE Apart(u, d)'
    BY <1>11 DEF EndTool, EndHandling, GiveLockBack, chat, Separate, TypeOK, OwnsSession, OwnsHandler, Apart
  <2> QED BY <2>1, <2>2, <2>3, <2>4 DEF Separate
<1>12. ASSUME NEW s \in Sessions, OpenSession(s) PROVE Separate'
  <2>1. (lock[current] = "server")'
    BY <1>12 DEF OpenSession, Separate, TypeOK, OwnsSession, OwnsHandler
  <2>2. ASSUME NEW d \in Chats PROVE OwnsSession(d)'
    BY <1>12 DEF OpenSession, Separate, TypeOK, OwnsSession, OwnsHandler, Apart
  <2>3. ASSUME NEW u \in Tools PROVE OwnsHandler(u)'
    BY <1>12 DEF OpenSession, Separate, TypeOK, OwnsSession, OwnsHandler, Apart
  <2>4. ASSUME NEW u \in Tools, NEW d \in Chats PROVE Apart(u, d)'
    BY <1>12 DEF OpenSession, Separate, TypeOK, OwnsSession, OwnsHandler, Apart
  <2> QED BY <2>1, <2>2, <2>3, <2>4 DEF Separate
<1>13. ASSUME NEW s \in Sessions, Foreign(s) PROVE Separate'
  <2>1. (lock[current] = "server")'
    BY <1>13 DEF Foreign, chat, Separate, TypeOK, OwnsSession, OwnsHandler
  <2>2. ASSUME NEW d \in Chats PROVE OwnsSession(d)'
    BY <1>13 DEF Foreign, chat, Separate, TypeOK, OwnsSession, OwnsHandler, Apart
  <2>3. ASSUME NEW u \in Tools PROVE OwnsHandler(u)'
    BY <1>13 DEF Foreign, chat, Separate, TypeOK, OwnsSession, OwnsHandler, Apart
  <2>4. ASSUME NEW u \in Tools, NEW d \in Chats PROVE Apart(u, d)'
    BY <1>13 DEF Foreign, chat, Separate, TypeOK, OwnsSession, OwnsHandler, Apart
  <2> QED BY <2>1, <2>2, <2>3, <2>4 DEF Separate
<1>14. ASSUME NEW s \in Sessions, Restart(s) PROVE Separate'
  <2>1. (lock[current] = "server")'
    BY <1>14 DEF Restart, Separate, TypeOK, OwnsSession, OwnsHandler
  <2>2. ASSUME NEW d \in Chats PROVE OwnsSession(d)'
    BY <1>14 DEF Restart, Separate, TypeOK, OwnsSession, OwnsHandler, Apart
  <2>3. ASSUME NEW u \in Tools PROVE OwnsHandler(u)'
    BY <1>14 DEF Restart, Separate, TypeOK, OwnsSession, OwnsHandler, Apart
  <2>4. ASSUME NEW u \in Tools, NEW d \in Chats PROVE Apart(u, d)'
    BY <1>14 DEF Restart, Separate, TypeOK, OwnsSession, OwnsHandler, Apart
  <2> QED BY <2>1, <2>2, <2>3, <2>4 DEF Separate
<1>15. CASE \/ \E c \in Chats : NextStep(c) \/ Stop(c)
            \/ \E k \in Calls : CallTool(k) \/ CallReturns(k)
            \/ \E k \in Askers : Ask(k) \/ Answer(k)
            \/ \E t \in Tools : PendingExpires(t)
            \/ UNCHANGED vars
  <2>1. UNCHANGED <<current, lock, tail, registry, phase, own>>
    BY <1>15 DEF NextStep, Stop, CallTool, CallReturns, Ask, Answer, PendingExpires, vars, chat
  <2>2. \A c \in Chats : turn'[c] # "off" => turn[c] # "off"
    BY <1>15 DEF NextStep, Stop, CallTool, CallReturns, Ask, Answer, PendingExpires, vars, chat, TypeOK
  <2> QED BY <2>1, <2>2, Undisturbed
<1> QED BY <1>1, <1>2, <1>3, <1>4, <1>5, <1>6, <1>7, <1>8, <1>9, <1>10, <1>11, <1>12, <1>13, <1>14, <1>15 DEF Next, ServeChat, ServeTool

\* No direct run writes to a session beside a chat run's turn, unless that run has
\* been released with its response.
THEOREM KeepOut == Spec => []ToolsKeepOutOfRuns
<1>1. ASSUME Init PROVE Separate
  <2>1. lock[current] = "server"
    BY <1>1 DEF Init
  <2>2. ASSUME NEW c \in Chats PROVE OwnsSession(c)
    <3>1. phase[c] = "none" /\ turn[c] = "off" /\ registry[Home[c]] = None /\ c # None
      BY <1>1, QuestionsAssumption, ChatsAndTools DEF Init
    <3> QED BY <3>1 DEF OwnsSession
  <2>3. ASSUME NEW t \in Tools PROVE phase[t] = "none"
    BY <1>1, ChatsAndTools DEF Init
  <2> QED BY <2>1, <2>2, <2>3 DEF Separate, OwnsHandler, Apart
<1> QED BY <1>1, SeparateSuffices, TypeCorrect, SeparateStep, PTL DEF Spec
=============================================================================
