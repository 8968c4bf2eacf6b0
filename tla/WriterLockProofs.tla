------------------------- MODULE WriterLockProofs -------------------------
(***************************************************************************)
(* Theorems about WriterLock, for every set of processes and scopes.       *)
(***************************************************************************)
EXTENDS WriterLock, TLAPS

----------------------------------------------------------------------------
(***************************************************************************)
(* Types.                                                                  *)
(***************************************************************************)

\* A step of one process, continuing or not.
Begin(p) ==
  \/ \E s \in Scopes, m \in BOOLEAN : Acquire(p, s, m)
  \/ LookAgain(p)
  \/ \E s \in Scopes : Heartbeat(p, s) \/ StartRelease(p, s) \/ Migrate(p, s)

\* Next is a step of one process or its death.
LEMMA NextCases ==
  Next <=> \E p \in Procs : Begin(p) \/ Continue(p) \/ Crash(p)
BY DEF Next, Begin

\* The file-system calls keep every lock file a lock file.
LEMMA FileTypes ==
  ASSUME file \in [Scopes -> Locks], NEW p \in Procs, NEW s \in Scopes
  PROVE  /\ CreateFile(p, s) => file' \in [Scopes -> Locks]
         /\ FillFile(p, s) => file' \in [Scopes -> Locks]
         /\ UnlinkFile(s) => file' \in [Scopes -> Locks]
<1>1. /\ [by |-> p, whole |-> FALSE] \in Locks
      /\ [by |-> p, whole |-> TRUE] \in Locks
      /\ Absent \in Locks
  BY DEF Locks, Absent
<1> QED BY <1>1 DEF CreateFile, FillFile, UnlinkFile

\* Moving a program counter keeps its type.
LEMMA GotoTypes ==
  ASSUME pc \in [Procs -> Pcs], at \in [Procs -> Scopes \cup {None}],
         NEW p \in Procs, NEW label \in Pcs, NEW s \in Scopes \cup {None},
         Goto(p, label, s)
  PROVE  pc' \in [Procs -> Pcs] /\ at' \in [Procs -> Scopes \cup {None}]
BY DEF Goto

\* A process that is in the middle of a call is so about a scope.
AtScope == \A p \in Procs : pc[p] # Idle => at[p] \in Scopes

Typed == TypeOK /\ AtScope

LEMMA LabelTypes ==
  /\ Idle \in Pcs /\ "looking" \in Pcs /\ "beat" \in Pcs /\ "releasing" \in Pcs
  /\ "dropping" \in Pcs /\ "moveCreate" \in Pcs /\ "moveRead" \in Pcs
  /\ "moved" \in Pcs /\ "moveLose" \in Pcs /\ "creating" \in Pcs
  /\ "moving" \in Pcs /\ "beating" \in Pcs /\ "unlinking" \in Pcs
  /\ "recreating" \in Pcs
BY DEF Pcs, Idle, Creating, Recovering

LEMMA LoseMainTyped ==
  ASSUME Typed, NEW p \in Procs, LoseMain(p),
         UNCHANGED <<alive, file, wait, forMain, main, slipped>>
  PROVE  Typed'
<1> USE LockAssumption, LabelTypes DEF Typed, TypeOK, AtScope
<1>1. held' \in [Procs -> SUBSET Scopes] /\ lost' \in [Procs -> BOOLEAN]
  BY DEF LoseMain
<1>2. /\ pc' \in [Procs -> Pcs] /\ at' \in [Procs -> Scopes \cup {None}]
      /\ \A q \in Procs : pc'[q] # Idle => at'[q] \in Scopes
  BY DEF LoseMain, Rest, Goto
<1> QED BY <1>1, <1>2

LEMMA BeginTyped ==
  ASSUME Typed, NEW p \in Procs, Begin(p)
  PROVE  Typed'
<1> USE LockAssumption, LabelTypes DEF Typed, TypeOK, AtScope
<1>1. ASSUME NEW s \in Scopes, NEW m \in BOOLEAN, Acquire(p, s, m)
      PROVE  Typed'
  BY <1>1, FileTypes DEF Acquire, Goto, Idle
<1>2. CASE LookAgain(p)
  BY <1>2 DEF LookAgain, Goto, Rest, Idle
<1>3. ASSUME NEW s \in Scopes, Heartbeat(p, s)
      PROVE  Typed'
  BY <1>3 DEF Heartbeat, Goto, Idle
<1>4. ASSUME NEW s \in Scopes, StartRelease(p, s)
      PROVE  Typed'
  BY <1>4 DEF StartRelease, Goto, Idle
<1>5. ASSUME NEW s \in Scopes, Migrate(p, s)
      PROVE  Typed'
  <2>1. CASE LoseMain(p)
    BY <1>5, <2>1, LoseMainTyped DEF Migrate
  <2>2. CASE Goto(p, "moveCreate", s) /\ UNCHANGED <<held, lost>>
    BY <1>5, <2>2 DEF Migrate, Goto, Idle
  <2> QED BY <1>5, <2>1, <2>2 DEF Migrate
<1> QED BY <1>1, <1>2, <1>3, <1>4, <1>5 DEF Begin

LEMMA ContinueTyped ==
  ASSUME Typed, NEW p \in Procs, Continue(p)
  PROVE  Typed'
<1> USE LockAssumption, LabelTypes DEF Typed, TypeOK, AtScope
<1>1. CASE Win(p)
  BY <1>1, FileTypes DEF Win, LeavesScope, Goto, Rest, Idle
<1>2. CASE Look(p)
  BY <1>2 DEF Look, SleepsFor, Goto, Rest, Idle
<1>3. CASE Unlink(p)
  BY <1>3, FileTypes DEF Unlink, Goto, Idle
<1>4. CASE Recreate(p)
  BY <1>4, FileTypes DEF Recreate, Goto, Rest, Idle
<1>5. CASE Truncate(p)
  BY <1>5, FileTypes DEF Truncate, Goto, Idle
<1>6. CASE FinishBeat(p)
  BY <1>6, FileTypes DEF FinishBeat, Goto, Rest, Idle
<1>7. CASE CheckRelease(p)
  BY <1>7 DEF CheckRelease, Goto, Rest, Idle
<1>8. CASE Drop(p)
  BY <1>8, FileTypes DEF Drop, Goto, Rest, Idle
<1>9. CASE MoveCreate(p)
  BY <1>9, FileTypes DEF MoveCreate, Goto, Idle
<1>10. CASE MoveFill(p)
  BY <1>10, FileTypes DEF MoveFill, Goto, Idle
<1>11. CASE MoveRead(p)
  <2>1. CASE LoseMain(p)
    BY <1>11, <2>1, LoseMainTyped DEF MoveRead
  <2>2. CASE /\ Goto(p, IF OwnLock(p, at[p]) THEN "moved" ELSE "moveLose", at[p])
             /\ UNCHANGED <<held, lost>>
    BY <1>11, <2>2 DEF MoveRead, Goto, Idle
  <2> QED BY <1>11, <2>1, <2>2 DEF MoveRead
<1>12. CASE Moved(p)
  BY <1>12, FileTypes DEF Moved, MoveMain, Goto, Rest, Idle
<1>13. CASE MoveLose(p)
  BY <1>13, FileTypes DEF MoveLose, LoseMain, Goto, Rest, Idle
<1> QED
  BY <1>1, <1>2, <1>3, <1>4, <1>5, <1>6, <1>7, <1>8, <1>9, <1>10, <1>11,
     <1>12, <1>13 DEF Continue

LEMMA CrashTyped ==
  ASSUME Typed, NEW p \in Procs, Crash(p)
  PROVE  Typed'
BY LockAssumption, LabelTypes DEF Typed, TypeOK, AtScope, Crash, Idle

LEMMA InitTyped == Init => Typed
<1> SUFFICES ASSUME Init PROVE Typed
  OBVIOUS
<1>1. Absent \in Locks
  BY DEF Absent, Locks
<1>2. slipped \in BOOLEAN
  BY DEF Init
<1> QED BY <1>1, <1>2, LabelTypes DEF Init, Typed, TypeOK, AtScope

LEMMA TypedInvariant == Spec => []Typed
<1>1. Typed /\ [Next]_vars => Typed'
  <2> SUFFICES ASSUME Typed, [Next]_vars PROVE Typed'
    OBVIOUS
  <2>1. CASE Next
    BY <2>1, NextCases, BeginTyped, ContinueTyped, CrashTyped
  <2>2. CASE UNCHANGED vars
    BY <2>2 DEF vars, Typed, TypeOK, AtScope
  <2> QED BY <2>1, <2>2
<1> QED BY InitTyped, <1>1, PTL DEF Spec

\* Every variable keeps its type in every behaviour.
THEOREM TypeCorrect == Spec => []TypeOK
<1>1. Typed => TypeOK
  BY DEF Typed
<1> QED BY TypedInvariant, <1>1, PTL

----------------------------------------------------------------------------
(***************************************************************************)
(* Ownership.  A step is honest when no recovery has removed the lock of a *)
(* live process.  Up to there a process at work can count on the files it  *)
(* owns: nobody else touches them, whatever runs between two of its calls. *)
(***************************************************************************)
Moving == {"moveCreate", "moving", "moveRead", "moved", "moveLose"}

Acquiring == {"looking", "creating"} \cup Recovering

\* The files of a live process: whole wherever it is the writer, unwritten
\* only where it is writing.
Files(p) ==
  /\ \A s \in held[p] :
       /\ file[s].by = p
       /\ file[s].whole \/ (pc[p] = "beating" /\ at[p] = s)
  /\ \A s \in Scopes :
       file[s].by = p /\ ~file[s].whole => pc[p] \in Creating /\ at[p] = s

\* What a live process knows at each point of its code.
Knows(p) ==
  /\ pc[p] \in Creating => file[at[p]] = [by |-> p, whole |-> FALSE]
  /\ pc[p] \in {"beat", "beating"} => at[p] \in held[p]
  /\ pc[p] \in {"dropping", "moved"} => file[at[p]] = [by |-> p, whole |-> TRUE]
  /\ pc[p] \in {"releasing", "dropping", "creating"} \cup Moving => at[p] \notin held[p]
  /\ pc[p] \in Moving => main[p] = Fallback /\ Fallback \in held[p]

\* How its session and its sleeping acquisition relate.
Session(p) ==
  /\ pc[p] \in Acquiring => wait[p] = None /\ at[p] # main[p]
  /\ wait[p] # None /\ wait[p] = main[p] => main[p] \in held[p] /\ main[p] # Fallback
  /\ main[p] # None /\ ~lost[p] => main[p] \in held[p]

Local(p) == Files(p) /\ Knows(p) /\ Session(p)

\* What holds as long as no recovery has slipped, and the inductive invariant.
IInv == Typed /\ \A p \in alive : Local(p)

Sound == slipped \/ IInv

----------------------------------------------------------------------------
\* What a step of q leaves as it is: the other processes, and every lock
\* file of theirs.
Bystanders(q) ==
  /\ alive' = alive
  /\ \A p \in Procs \ {q} :
       /\ pc'[p] = pc[p] /\ at'[p] = at[p] /\ wait'[p] = wait[p]
       /\ main'[p] = main[p] /\ held'[p] = held[p] /\ lost'[p] = lost[p]
  /\ \A s \in Scopes :
       \/ file'[s] = file[s]
       \/ file[s].by \notin alive \ {q} /\ file'[s].by \notin alive \ {q}

\* The file-system calls touch a file only where the caller may.
LEMMA FileFrame ==
  ASSUME Typed, NEW q \in Procs, NEW s \in Scopes, file[s].by \notin alive \ {q},
         CreateFile(q, s) \/ FillFile(q, s) \/ UnlinkFile(s)
  PROVE  \A t \in Scopes :
           \/ file'[t] = file[t]
           \/ file[t].by \notin alive \ {q} /\ file'[t].by \notin alive \ {q}
BY LockAssumption DEF Typed, TypeOK, CreateFile, FillFile, UnlinkFile, Absent

\* Moving a program counter moves nobody else's.
LEMMA GotoFrame ==
  ASSUME Typed, NEW q \in Procs, NEW label, NEW s, Goto(q, label, s)
  PROVE  \A p \in Procs \ {q} : pc'[p] = pc[p] /\ at'[p] = at[p]
BY DEF Goto, Typed, TypeOK

LEMMA BeginBystanders ==
  ASSUME IInv, NEW q \in Procs, Begin(q)
  PROVE  Bystanders(q) /\ q \in alive
<1> USE DEF IInv, Bystanders
<1>1. ASSUME NEW s \in Scopes, NEW m \in BOOLEAN, Acquire(q, s, m)
      PROVE  Bystanders(q) /\ q \in alive
  <2>1. \A t \in Scopes : \/ file'[t] = file[t]
                          \/ /\ file[t].by \notin alive \ {q}
                             /\ file'[t].by \notin alive \ {q}
    <3>1. CASE Free(s) /\ CreateFile(q, s)
      <4>1. file[s].by \notin alive \ {q}
        BY <3>1, LockAssumption DEF Free, Absent, Typed, TypeOK
      <4> QED BY <3>1, <4>1, FileFrame
    <3> QED BY <1>1, <3>1 DEF Acquire
  <2>2. \A p \in Procs \ {q} : pc'[p] = pc[p] /\ at'[p] = at[p]
    BY <1>1, GotoFrame DEF Acquire
  <2> QED BY <1>1, <2>1, <2>2 DEF Acquire
<1>2. CASE LookAgain(q)
  <2>1. \A p \in Procs \ {q} : pc'[p] = pc[p] /\ at'[p] = at[p]
    BY <1>2, GotoFrame DEF LookAgain, Rest
  <2> QED BY <1>2, <2>1 DEF LookAgain, Typed, TypeOK
<1>3. ASSUME NEW s \in Scopes, Heartbeat(q, s)
      PROVE  Bystanders(q) /\ q \in alive
  BY <1>3, GotoFrame DEF Heartbeat
<1>4. ASSUME NEW s \in Scopes, StartRelease(q, s)
      PROVE  Bystanders(q) /\ q \in alive
  <2>1. \A p \in Procs \ {q} : pc'[p] = pc[p] /\ at'[p] = at[p]
    BY <1>4, GotoFrame DEF StartRelease
  <2> QED BY <1>4, <2>1 DEF StartRelease, Typed, TypeOK
<1>5. ASSUME NEW s \in Scopes, Migrate(q, s)
      PROVE  Bystanders(q) /\ q \in alive
  <2>1. \A p \in Procs \ {q} : pc'[p] = pc[p] /\ at'[p] = at[p]
    BY <1>5, GotoFrame DEF Migrate, LoseMain, Rest
  <2> QED BY <1>5, <2>1 DEF Migrate, LoseMain, Typed, TypeOK
<1> QED BY <1>1, <1>2, <1>3, <1>4, <1>5 DEF Begin

\* The files a process is about to touch are its own or a dead owner's.
LEMMA MayTouch ==
  ASSUME IInv, NEW q \in alive
  PROVE  /\ pc[q] \in Creating \cup {"beat", "dropping", "moved"}
              => file[at[q]].by \notin alive \ {q}
         /\ pc[q] \in Moving => file[Fallback].by \notin alive \ {q}
<1>1. Files(q) /\ Knows(q)
  BY DEF IInv, Local
<1>2. pc[q] \in Creating => file[at[q]].by = q
  BY <1>1 DEF Knows
<1>3. pc[q] = "beat" => file[at[q]].by = q
  BY <1>1 DEF Knows, Files
<1>4. pc[q] \in {"dropping", "moved"} => file[at[q]].by = q
  BY <1>1 DEF Knows
<1>5. pc[q] \in Moving => file[Fallback].by = q
  BY <1>1 DEF Knows, Files
<1> QED BY <1>2, <1>3, <1>4, <1>5

LEMMA ContinueBystanders ==
  ASSUME IInv, NEW q \in Procs, Continue(q), ~slipped'
  PROVE  Bystanders(q) /\ q \in alive
<1> USE DEF IInv, Bystanders
<1>1. CASE Win(q)
  <2>1. pc[q] # Idle /\ file[at[q]].by \notin alive \ {q}
    BY <1>1, MayTouch DEF Win, Creating, Idle
  <2>2. \A p \in Procs \ {q} : pc'[p] = pc[p] /\ at'[p] = at[p]
    BY <1>1, GotoFrame DEF Win, Rest
  <2>3. at[q] \in Scopes
    BY <2>1 DEF Typed, AtScope
  <2> QED BY <1>1, <2>1, <2>2, <2>3, FileFrame, LockAssumption
       DEF Win, Typed, TypeOK
<1>2. CASE Look(q)
  <2>1. \A p \in Procs \ {q} : pc'[p] = pc[p] /\ at'[p] = at[p]
    BY <1>2, GotoFrame DEF Look, Rest
  <2> QED BY <1>2, <2>1 DEF Look, Rest, Typed, TypeOK
<1>3. CASE Unlink(q)
  <2>1. pc[q] # Idle /\ file[at[q]].by \notin alive \ {q}
    BY <1>3 DEF Unlink, Idle
  <2>2. \A p \in Procs \ {q} : pc'[p] = pc[p] /\ at'[p] = at[p]
    BY <1>3, GotoFrame DEF Unlink
  <2>3. at[q] \in Scopes
    BY <2>1 DEF Typed, AtScope
  <2> QED BY <1>3, <2>1, <2>2, <2>3, FileFrame, LockAssumption
       DEF Unlink
<1>4. CASE Recreate(q)
  <2>1. at[q] \in Scopes
    BY <1>4 DEF Recreate, Typed, AtScope, Idle
  <2>2. \A t \in Scopes : \/ file'[t] = file[t]
                          \/ /\ file[t].by \notin alive \ {q}
                             /\ file'[t].by \notin alive \ {q}
    <3>1. CASE Free(at[q]) /\ CreateFile(q, at[q])
      <4>1. file[at[q]].by \notin alive \ {q}
        BY <3>1, LockAssumption DEF Free, Absent, Typed, TypeOK
      <4> QED BY <2>1, <3>1, <4>1, FileFrame
    <3> QED BY <1>4, <3>1 DEF Recreate
  <2>3. \A p \in Procs \ {q} : pc'[p] = pc[p] /\ at'[p] = at[p]
    BY <1>4, GotoFrame DEF Recreate, Rest
  <2> QED BY <1>4, <2>2, <2>3 DEF Recreate
<1>5. CASE Truncate(q)
  <2>1. pc[q] # Idle /\ file[at[q]].by \notin alive \ {q}
    BY <1>5, MayTouch DEF Truncate, Creating, Idle
  <2>2. \A p \in Procs \ {q} : pc'[p] = pc[p] /\ at'[p] = at[p]
    BY <1>5, GotoFrame DEF Truncate
  <2>3. at[q] \in Scopes
    BY <2>1 DEF Typed, AtScope
  <2> QED BY <1>5, <2>1, <2>2, <2>3, FileFrame, LockAssumption
       DEF Truncate
<1>6. CASE FinishBeat(q)
  <2>1. pc[q] # Idle /\ file[at[q]].by \notin alive \ {q}
    BY <1>6, MayTouch DEF FinishBeat, Creating, Idle
  <2>2. \A p \in Procs \ {q} : pc'[p] = pc[p] /\ at'[p] = at[p]
    BY <1>6, GotoFrame DEF FinishBeat, Rest
  <2>3. at[q] \in Scopes
    BY <2>1 DEF Typed, AtScope
  <2> QED BY <1>6, <2>1, <2>2, <2>3, FileFrame, LockAssumption
       DEF FinishBeat
<1>7. CASE CheckRelease(q)
  <2>1. \A p \in Procs \ {q} : pc'[p] = pc[p] /\ at'[p] = at[p]
    BY <1>7, GotoFrame DEF CheckRelease, Rest
  <2> QED BY <1>7, <2>1 DEF CheckRelease, Rest, Typed, TypeOK
<1>8. CASE Drop(q)
  <2>1. pc[q] # Idle /\ file[at[q]].by \notin alive \ {q}
    BY <1>8, MayTouch DEF Drop, Creating, Idle
  <2>2. \A p \in Procs \ {q} : pc'[p] = pc[p] /\ at'[p] = at[p]
    BY <1>8, GotoFrame DEF Drop, Rest
  <2>3. at[q] \in Scopes
    BY <2>1 DEF Typed, AtScope
  <2> QED BY <1>8, <2>1, <2>2, <2>3, FileFrame, LockAssumption
       DEF Drop
<1>9. CASE MoveCreate(q)
  <2>1. at[q] \in Scopes
    BY <1>9 DEF MoveCreate, Typed, AtScope, Idle
  <2>2. \A t \in Scopes : \/ file'[t] = file[t]
                          \/ /\ file[t].by \notin alive \ {q}
                             /\ file'[t].by \notin alive \ {q}
    <3>1. CASE Free(at[q]) /\ CreateFile(q, at[q])
      <4>1. file[at[q]].by \notin alive \ {q}
        BY <3>1, LockAssumption DEF Free, Absent, Typed, TypeOK
      <4> QED BY <2>1, <3>1, <4>1, FileFrame
    <3> QED BY <1>9, <3>1 DEF MoveCreate
  <2>3. \A p \in Procs \ {q} : pc'[p] = pc[p] /\ at'[p] = at[p]
    BY <1>9, GotoFrame DEF MoveCreate
  <2> QED BY <1>9, <2>2, <2>3 DEF MoveCreate
<1>10. CASE MoveFill(q)
  <2>1. pc[q] # Idle /\ file[at[q]].by \notin alive \ {q}
    BY <1>10, MayTouch DEF MoveFill, Creating, Idle
  <2>2. \A p \in Procs \ {q} : pc'[p] = pc[p] /\ at'[p] = at[p]
    BY <1>10, GotoFrame DEF MoveFill
  <2>3. at[q] \in Scopes
    BY <2>1 DEF Typed, AtScope
  <2> QED BY <1>10, <2>1, <2>2, <2>3, FileFrame, LockAssumption
       DEF MoveFill
<1>11. CASE MoveRead(q)
  <2>1. \A p \in Procs \ {q} : pc'[p] = pc[p] /\ at'[p] = at[p]
    BY <1>11, GotoFrame DEF MoveRead, LoseMain, Rest
  <2> QED BY <1>11, <2>1 DEF MoveRead, LoseMain, Rest, Typed, TypeOK
<1>12. CASE Moved(q)
  <2>1. pc[q] # Idle /\ file[Fallback].by \notin alive \ {q}
    BY <1>12, MayTouch DEF Moved, Creating, Moving, Idle
  <2>2. \A p \in Procs \ {q} : pc'[p] = pc[p] /\ at'[p] = at[p]
    BY <1>12, GotoFrame DEF Moved, MoveMain, Rest
  <2>3. at[q] \in Scopes
    BY <2>1 DEF Typed, AtScope
  <2> QED BY <1>12, <2>1, <2>2, <2>3, FileFrame, LockAssumption
       DEF Moved, MoveMain, Typed, TypeOK
<1>13. CASE MoveLose(q)
  <2>1. pc[q] # Idle /\ file[Fallback].by \notin alive \ {q}
    BY <1>13, MayTouch DEF MoveLose, Creating, Moving, Idle
  <2>2. \A p \in Procs \ {q} : pc'[p] = pc[p] /\ at'[p] = at[p]
    BY <1>13, GotoFrame DEF MoveLose, LoseMain, Rest
  <2>3. at[q] \in Scopes
    BY <2>1 DEF Typed, AtScope
  <2> QED BY <1>13, <2>1, <2>2, <2>3, FileFrame, LockAssumption
       DEF MoveLose, LoseMain, Typed, TypeOK
<1> QED
  BY <1>1, <1>2, <1>3, <1>4, <1>5, <1>6, <1>7, <1>8, <1>9, <1>10, <1>11,
     <1>12, <1>13 DEF Continue

\* What a process knows survives the steps of the others.
LEMMA OthersKeepLocal ==
  ASSUME IInv, NEW q \in Procs, Bystanders(q), NEW p \in alive, p # q
  PROVE  Local(p)'
<1> USE DEF IInv, Bystanders
<1>1. /\ p \in Procs /\ p \in alive \ {q} /\ Local(p)
      /\ pc'[p] = pc[p] /\ at'[p] = at[p] /\ wait'[p] = wait[p]
      /\ main'[p] = main[p] /\ held'[p] = held[p] /\ lost'[p] = lost[p]
  BY DEF Typed, TypeOK
<1>3. \A s \in Scopes : file[s].by = p => file'[s] = file[s]
  BY <1>1
<1>4. \A s \in Scopes : file'[s].by = p => file'[s] = file[s]
  BY <1>1
<1>5. held[p] \subseteq Scopes /\ (pc[p] # Idle => at[p] \in Scopes)
  BY <1>1 DEF Typed, TypeOK, AtScope
<1>6. Files(p)'
  BY <1>1, <1>3, <1>4, <1>5 DEF Local, Files
<1>7. Knows(p)'
  BY <1>1, <1>3, <1>5 DEF Local, Knows, Files, Creating, Moving, Idle
<1>8. Session(p)'
  BY <1>1 DEF Local, Session
<1> QED BY <1>6, <1>7, <1>8 DEF Local

LEMMA OwnWholeLock ==
  ASSUME NEW q \in Procs, NEW s \in Scopes, q # None,
         file[s] \in Locks, OwnLock(q, s)
  PROVE  file[s] = [by |-> q, whole |-> TRUE]
BY DEF OwnLock, Read, Locks

\* The process that continues still knows what it should.
LEMMA ContinueKeepsLocal ==
  ASSUME IInv, NEW q \in Procs, Continue(q), q \in alive, ~slipped'
  PROVE  Local(q)'
<1>0. /\ Typed /\ Files(q) /\ Knows(q) /\ Session(q) /\ LockAssumption
      /\ q # None
  BY LockAssumption DEF IInv, Local
<1> USE DEF Typed, TypeOK, AtScope, Absent, Locks
<1>1. CASE Win(q)
  <2>1. Files(q)'
    BY <1>1, <1>0 DEF Win, LeavesScope, FillFile, Goto, Rest, Files, Knows, Creating, Recovering, Moving, Idle
  <2>2. Knows(q)'
    <3>1. /\ pc[q] = "creating" /\ at[q] \in Scopes /\ at[q] \notin held[q]
          /\ at[q] # main[q]
      BY <1>1, <1>0 DEF Win, Knows, Session, Acquiring, Idle
    <3>2. CASE forMain[q] /\ main[q] # None
      <4>1. /\ pc'[q] = "releasing" /\ at'[q] = main[q]
            /\ held'[q] = (held[q] \ {main[q]}) \cup {at[q]}
        BY <1>1, <1>0, <3>2 DEF Win, LeavesScope, Goto
      <4> QED BY <3>1, <4>1 DEF Knows, Creating, Moving
    <3>3. CASE ~(forMain[q] /\ main[q] # None)
      <4>1. pc'[q] = "idle"
        BY <1>1, <1>0, <3>3 DEF Win, LeavesScope, Goto, Rest, Idle
      <4> QED BY <4>1 DEF Knows, Creating, Moving
    <3> QED BY <3>2, <3>3
  <2>3. Session(q)'
    BY <1>1, <1>0 DEF Win, LeavesScope, FillFile, Goto, Rest, Knows, Session, Acquiring, Creating, Recovering, Moving, Idle
  <2> QED BY <2>1, <2>2, <2>3 DEF Local
<1>2. CASE Look(q)
  <2>1. Files(q)'
    BY <1>2, <1>0 DEF Look, SleepsFor, Goto, Rest, Files, Knows, Creating, Recovering, Moving, Idle
  <2>2. Knows(q)'
    BY <1>2, <1>0 DEF Look, SleepsFor, Goto, Rest, Files, Knows, Creating, Recovering, Moving, Idle
  <2>3. Session(q)'
    BY <1>2, <1>0 DEF Look, SleepsFor, Goto, Rest, Knows, Session, Acquiring, Creating, Recovering, Moving, Idle
  <2> QED BY <2>1, <2>2, <2>3 DEF Local
<1>3. CASE Unlink(q)
  <2>1. Files(q)'
    BY <1>3, <1>0 DEF Unlink, UnlinkFile, Goto, Files, Knows, Creating, Recovering, Moving, Idle
  <2>2. Knows(q)'
    BY <1>3, <1>0 DEF Unlink, UnlinkFile, Goto, Files, Knows, Creating, Recovering, Moving, Idle
  <2>3. Session(q)'
    BY <1>3, <1>0 DEF Unlink, UnlinkFile, Goto, Knows, Session, Acquiring, Creating, Recovering, Moving, Idle
  <2> QED BY <2>1, <2>2, <2>3 DEF Local
<1>4. CASE Recreate(q)
  <2>0. pc[q] = "recreating" /\ at[q] \in Scopes
    BY <1>4, <1>0 DEF Recreate, Idle
  <2>1. Free(at[q]) => at[q] \notin held[q]
    BY <1>0, <2>0 DEF Free, Files
  <2>2. Files(q)'
    <3>1. CASE Free(at[q])
      BY <1>4, <1>0, <2>0, <2>1, <3>1 DEF Recreate, CreateFile, Goto, Files, Creating
    <3>2. CASE ~Free(at[q])
      BY <1>4, <1>0, <3>2 DEF Recreate, Goto, Rest, Files, Creating
    <3> QED BY <3>1, <3>2
  <2>3. Knows(q)'
    <3>1. CASE Free(at[q])
      BY <1>4, <1>0, <2>0, <2>1, <3>1
         DEF Recreate, CreateFile, Goto, Knows, Creating, Moving
    <3>2. CASE ~Free(at[q])
      BY <1>4, <1>0, <3>2 DEF Recreate, Goto, Rest, Knows, Creating, Moving, Idle
    <3> QED BY <3>1, <3>2
  <2>4. Session(q)'
    BY <1>4, <1>0 DEF Recreate, Free, CreateFile, Goto, Rest, Knows, Session, Acquiring, Creating, Recovering, Moving, Idle
  <2> QED BY <2>2, <2>3, <2>4 DEF Local
<1>5. CASE Truncate(q)
  <2>1. Files(q)'
    BY <1>5, <1>0 DEF Truncate, CreateFile, Goto, Files, Knows, Creating, Recovering, Moving, Idle
  <2>2. Knows(q)'
    BY <1>5, <1>0 DEF Truncate, CreateFile, Goto, Files, Knows, Creating, Recovering, Moving, Idle
  <2>3. Session(q)'
    BY <1>5, <1>0 DEF Truncate, CreateFile, Goto, Knows, Session, Acquiring, Creating, Recovering, Moving, Idle
  <2> QED BY <2>1, <2>2, <2>3 DEF Local
<1>6. CASE FinishBeat(q)
  <2>1. Files(q)'
    BY <1>6, <1>0 DEF FinishBeat, FillFile, Goto, Rest, Files, Knows, Creating, Recovering, Moving, Idle
  <2>2. Knows(q)'
    BY <1>6, <1>0 DEF FinishBeat, FillFile, Goto, Rest, Files, Knows, Creating, Recovering, Moving, Idle
  <2>3. Session(q)'
    BY <1>6, <1>0 DEF FinishBeat, FillFile, Goto, Rest, Knows, Session, Acquiring, Creating, Recovering, Moving, Idle
  <2> QED BY <2>1, <2>2, <2>3 DEF Local
<1>7. CASE CheckRelease(q)
  <2>1. Files(q)'
    BY <1>7, <1>0 DEF CheckRelease, OwnLock, Read, Goto, Rest, Files, Knows, Creating, Recovering, Moving, Idle
  <2>2. Knows(q)'
    <3>1. at[q] \in Scopes /\ file[at[q]] \in Locks /\ at[q] \notin held[q]
      BY <1>7, <1>0 DEF CheckRelease, Knows, Idle
    <3>2. CASE OwnLock(q, at[q])
      <4>1. file[at[q]] = [by |-> q, whole |-> TRUE]
        BY <1>0, <3>1, <3>2, OwnWholeLock
      <4>2. /\ pc'[q] = "dropping" /\ at'[q] = at[q]
            /\ held' = held /\ file' = file
        BY <1>7, <1>0, <3>2 DEF CheckRelease, Goto
      <4> QED BY <3>1, <4>1, <4>2 DEF Knows, Creating, Moving
    <3>3. CASE ~OwnLock(q, at[q])
      BY <1>7, <1>0, <3>3 DEF CheckRelease, Goto, Rest, Knows, Creating, Moving, Idle
    <3> QED BY <3>2, <3>3
  <2>3. Session(q)'
    BY <1>7, <1>0 DEF CheckRelease, OwnLock, Read, Goto, Rest, Knows, Session, Acquiring, Creating, Recovering, Moving, Idle
  <2> QED BY <2>1, <2>2, <2>3 DEF Local
<1>8. CASE Drop(q)
  <2>1. Files(q)'
    BY <1>8, <1>0 DEF Drop, UnlinkFile, Goto, Rest, Files, Knows, Creating, Recovering, Moving, Idle
  <2>2. Knows(q)'
    BY <1>8, <1>0 DEF Drop, UnlinkFile, Goto, Rest, Files, Knows, Creating, Recovering, Moving, Idle
  <2>3. Session(q)'
    BY <1>8, <1>0 DEF Drop, UnlinkFile, Goto, Rest, Knows, Session, Acquiring, Creating, Recovering, Moving, Idle
  <2> QED BY <2>1, <2>2, <2>3 DEF Local
<1>9. CASE MoveCreate(q)
  <2>1. Files(q)'
    BY <1>9, <1>0 DEF MoveCreate, Free, CreateFile, Goto, Files, Knows, Creating, Recovering, Moving, Idle
  <2>2. Knows(q)'
    <3>1. /\ at[q] \in Scopes /\ at[q] \notin held[q] /\ main[q] = Fallback
          /\ Fallback \in held[q] /\ held' = held /\ main' = main
      BY <1>9, <1>0 DEF MoveCreate, Knows, Moving, Idle
    <3>2. CASE Free(at[q]) /\ CreateFile(q, at[q]) /\ Goto(q, "moving", at[q])
      BY <1>0, <3>1, <3>2 DEF CreateFile, Goto, Knows, Creating, Moving
    <3>3. CASE Goto(q, "moveRead", at[q])
      BY <1>0, <3>1, <3>3 DEF Goto, Knows, Creating, Moving
    <3> QED BY <1>9, <3>2, <3>3 DEF MoveCreate
  <2>3. Session(q)'
    BY <1>9, <1>0 DEF MoveCreate, Free, CreateFile, Goto, Knows, Session, Acquiring, Creating, Recovering, Moving, Idle
  <2> QED BY <2>1, <2>2, <2>3 DEF Local
<1>10. CASE MoveFill(q)
  <2>1. Files(q)'
    BY <1>10, <1>0 DEF MoveFill, FillFile, Goto, Files, Knows, Creating, Recovering, Moving, Idle
  <2>2. Knows(q)'
    BY <1>10, <1>0 DEF MoveFill, FillFile, Goto, Files, Knows, Creating, Recovering, Moving, Idle
  <2>3. Session(q)'
    BY <1>10, <1>0 DEF MoveFill, FillFile, Goto, Knows, Session, Acquiring, Creating, Recovering, Moving, Idle
  <2> QED BY <2>1, <2>2, <2>3 DEF Local
<1>11. CASE MoveRead(q)
  <2>1. Files(q)'
    BY <1>11, <1>0 DEF MoveRead, OwnLock, Read, LoseMain, Goto, Rest, Files, Knows, Creating, Recovering, Moving, Idle
  <2>2. Knows(q)'
    <3>1. /\ at[q] \in Scopes /\ at[q] \notin held[q] /\ main[q] = Fallback
          /\ Fallback \in held[q] /\ file[at[q]] \in Locks /\ main' = main
          /\ file' = file
      BY <1>11, <1>0 DEF MoveRead, Knows, Moving, Idle
    <3>2. CASE LoseMain(q)
      BY <1>0, <3>1, <3>2 DEF LoseMain, Goto, Rest, Knows, Creating, Moving, Idle
    <3>3. CASE /\ OwnLock(q, at[q]) /\ Goto(q, "moved", at[q]) /\ held' = held
      <4>1. file[at[q]] = [by |-> q, whole |-> TRUE]
        BY <1>0, <3>1, <3>3, OwnWholeLock
      <4> QED BY <1>0, <3>1, <3>3, <4>1 DEF Goto, Knows, Creating, Moving
    <3>4. CASE Goto(q, "moveLose", at[q]) /\ held' = held
      BY <1>0, <3>1, <3>4 DEF Goto, Knows, Creating, Moving
    <3> QED BY <1>11, <3>2, <3>3, <3>4 DEF MoveRead
  <2>3. Session(q)'
    BY <1>11, <1>0 DEF MoveRead, OwnLock, Read, LoseMain, Goto, Rest, Knows, Session, Acquiring, Creating, Recovering, Moving, Idle
  <2> QED BY <2>1, <2>2, <2>3 DEF Local
<1>12. CASE Moved(q)
  <2>1. Files(q)'
    BY <1>12, <1>0 DEF Moved, UnlinkFile, MoveMain, Goto, Rest, Files, Knows, Creating, Recovering, Moving, Idle
  <2>2. Knows(q)'
    BY <1>12, <1>0 DEF Moved, UnlinkFile, MoveMain, Goto, Rest, Files, Knows, Creating, Recovering, Moving, Idle
  <2>3. Session(q)'
    BY <1>12, <1>0 DEF Moved, UnlinkFile, MoveMain, Goto, Rest, Knows, Session, Acquiring, Creating, Recovering, Moving, Idle
  <2> QED BY <2>1, <2>2, <2>3 DEF Local
<1>13. CASE MoveLose(q)
  <2>1. Files(q)'
    BY <1>13, <1>0 DEF MoveLose, UnlinkFile, LoseMain, Goto, Rest, Files, Knows, Creating, Recovering, Moving, Idle
  <2>2. Knows(q)'
    BY <1>13, <1>0 DEF MoveLose, UnlinkFile, LoseMain, Goto, Rest, Files, Knows, Creating, Recovering, Moving, Idle
  <2>3. Session(q)'
    BY <1>13, <1>0 DEF MoveLose, UnlinkFile, LoseMain, Goto, Rest, Knows, Session, Acquiring, Creating, Recovering, Moving, Idle
  <2> QED BY <2>1, <2>2, <2>3 DEF Local
<1> QED
  BY <1>1, <1>2, <1>3, <1>4, <1>5, <1>6, <1>7, <1>8, <1>9, <1>10, <1>11,
     <1>12, <1>13 DEF Continue

\* So does the process that begins something.
LEMMA BeginKeepsLocal ==
  ASSUME IInv, NEW q \in Procs, Begin(q), q \in alive
  PROVE  Local(q)'
<1>0. /\ Typed /\ Files(q) /\ Knows(q) /\ Session(q) /\ LockAssumption
      /\ q # None
  BY LockAssumption DEF IInv, Local
<1> USE DEF Typed, TypeOK, AtScope, Absent, Locks
<1>1. ASSUME NEW s \in Scopes, NEW m \in BOOLEAN, Acquire(q, s, m)
      PROVE  Local(q)'
  <2>1. CASE Free(s) /\ CreateFile(q, s) /\ Goto(q, "creating", s)
    <3>1. s \notin held[q] /\ s # main[q] /\ pc[q] = "idle"
      BY <1>1, <2>1, <1>0 DEF Acquire, Free, Files, Idle
    <3>2. Files(q)'
      BY <1>1, <2>1, <3>1, <1>0 DEF Acquire, Free, CreateFile, Goto, Files, Creating
    <3>3. Knows(q)'
      BY <1>1, <2>1, <3>1, <1>0 DEF Acquire, CreateFile, Goto, Knows, Creating, Moving
    <3>4. Session(q)'
      BY <1>1, <2>1, <3>1, <1>0 DEF Acquire, Goto, Session
    <3> QED BY <3>2, <3>3, <3>4 DEF Local
  <2>2. CASE Goto(q, "looking", s) /\ UNCHANGED file
    <3>1. Files(q)'
      BY <1>1, <2>2, <1>0 DEF Acquire, Goto, Files, Creating, Idle
    <3>2. Knows(q)'
      BY <1>1, <2>2, <1>0 DEF Acquire, Goto, Knows, Creating, Moving
    <3>3. Session(q)'
      BY <1>1, <2>2, <1>0 DEF Acquire, Goto, Session
    <3> QED BY <3>1, <3>2, <3>3 DEF Local
  <2> QED BY <1>1, <2>1, <2>2 DEF Acquire
<1>2. CASE LookAgain(q)
  <2>1. CASE Recoverable(wait[q])
    <3>1. wait[q] \in Scopes /\ pc[q] = "idle"
      BY <1>2, <1>0 DEF LookAgain, Idle
    \* A lock it is the writer of is whole while it is at rest, and so not
    \* recoverable.
    <3>2. wait[q] \notin held[q]
      BY <2>1, <3>1, <1>0 DEF Files, Recoverable, Read, Creating
    <3>3. wait[q] # main[q]
      BY <1>2, <3>2, <1>0 DEF LookAgain, Session
    <3>4. /\ pc'[q] = "unlinking" /\ at'[q] = wait[q] /\ wait'[q] = None
          /\ main' = main /\ held' = held /\ file' = file /\ alive' = alive
          /\ lost' = lost
      BY <1>2, <2>1, <1>0 DEF LookAgain, Goto
    <3>5. Files(q)'
      BY <3>1, <3>4, <1>0 DEF Files, Creating
    <3>6. Knows(q)'
      BY <3>4 DEF Knows, Creating, Moving
    <3>7. Session(q)'
      BY <3>3, <3>4, <1>0 DEF Session
    <3> QED BY <3>5, <3>6, <3>7 DEF Local
  <2>2. CASE ~Recoverable(wait[q])
    <3>1. Files(q)'
      BY <1>2, <2>2, <1>0 DEF LookAgain, Goto, Rest, Files, Creating, Idle
    <3>2. Knows(q)'
      BY <1>2, <2>2, <1>0 DEF LookAgain, Goto, Rest, Knows, Creating, Moving, Idle
    <3>3. Session(q)'
      BY <1>2, <2>2, <1>0 DEF LookAgain, Goto, Rest, Session, Acquiring, Recovering, Idle
    <3> QED BY <3>1, <3>2, <3>3 DEF Local
  <2> QED BY <2>1, <2>2
<1>3. ASSUME NEW s \in Scopes, Heartbeat(q, s)
      PROVE  Local(q)'
  <2>1. Files(q)'
    BY <1>3, <1>0 DEF Heartbeat, Goto, Files, Creating, Idle
  <2>2. Knows(q)'
    BY <1>3, <1>0 DEF Heartbeat, Goto, Knows, Creating, Moving
  <2>3. Session(q)'
    BY <1>3, <1>0 DEF Heartbeat, Goto, Session, Acquiring, Recovering
  <2> QED BY <2>1, <2>2, <2>3 DEF Local
<1>4. ASSUME NEW s \in Scopes, StartRelease(q, s)
      PROVE  Local(q)'
  <2>1. Files(q)'
    BY <1>4, <1>0 DEF StartRelease, Goto, Files, Creating, Idle
  <2>2. Knows(q)'
    BY <1>4, <1>0 DEF StartRelease, Goto, Knows, Creating, Moving
  <2>3. Session(q)'
    BY <1>4, <1>0 DEF StartRelease, Goto, Session, Acquiring, Recovering
  <2> QED BY <2>1, <2>2, <2>3 DEF Local
<1>5. ASSUME NEW s \in Scopes, Migrate(q, s)
      PROVE  Local(q)'
  <2>1. CASE LoseMain(q)
    <3>1. Files(q)'
      BY <1>5, <2>1, <1>0 DEF Migrate, LoseMain, Goto, Rest, Files, Creating, Idle
    <3>2. Knows(q)'
      BY <1>5, <2>1, <1>0 DEF Migrate, LoseMain, Goto, Rest, Knows, Creating, Moving, Idle
    <3>3. Session(q)'
      BY <1>5, <2>1, <1>0 DEF Migrate, LoseMain, Goto, Rest, Session, Acquiring, Recovering, Idle
    <3> QED BY <3>1, <3>2, <3>3 DEF Local
  <2>2. CASE Goto(q, "moveCreate", s) /\ UNCHANGED <<held, lost>>
    <3>1. main[q] = Fallback /\ Fallback \in held[q] /\ s \notin held[q]
      BY <1>5, <1>0 DEF Migrate, Session
    <3>2. Files(q)'
      BY <1>5, <2>2, <1>0 DEF Migrate, Goto, Files, Creating, Idle
    <3>3. Knows(q)'
      BY <1>5, <2>2, <3>1, <1>0 DEF Migrate, Goto, Knows, Creating, Moving
    <3>4. Session(q)'
      BY <1>5, <2>2, <1>0 DEF Migrate, Goto, Session, Acquiring, Recovering
    <3> QED BY <3>2, <3>3, <3>4 DEF Local
  <2> QED BY <1>5, <2>1, <2>2 DEF Migrate
<1> QED BY <1>1, <1>2, <1>3, <1>4, <1>5 DEF Begin

\* A death takes the dead out of the invariant and changes nothing on disk.
LEMMA CrashKeepsIInv ==
  ASSUME IInv, NEW q \in Procs, Crash(q)
  PROVE  IInv'
<1>1. Typed'
  BY CrashTyped DEF IInv
<1>2. ASSUME NEW p \in alive'
      PROVE  /\ p \in alive /\ p \in Procs /\ pc'[p] = pc[p] /\ at'[p] = at[p]
             /\ wait'[p] = wait[p] /\ main'[p] = main[p] /\ held'[p] = held[p]
             /\ lost'[p] = lost[p] /\ file' = file /\ alive' \subseteq alive
  BY <1>2 DEF Crash, IInv, Typed, TypeOK
<1>4. ASSUME NEW p \in alive'
      PROVE  Local(p)'
  <2>1. Local(p)
    BY <1>2 DEF IInv
  <2>2. Files(p)' /\ Session(p)'
    BY <1>2, <2>1 DEF Local, Files, Session
  <2>3. Knows(p)'
    BY <1>2, <2>1 DEF Local, Knows
  <2> QED BY <2>2, <2>3 DEF Local
<1> QED BY <1>1, <1>4 DEF IInv

LEMMA InitIInv == Init => IInv
BY InitTyped, LockAssumption
   DEF Init, IInv, Local, Files, Knows, Session, Creating,
       Recovering, Moving, Acquiring, Idle, Absent

LEMMA NextKeepsIInv ==
  ASSUME IInv, [Next]_vars, ~slipped'
  PROVE  IInv'
<1>1. ASSUME NEW q \in Procs, Begin(q) \/ Continue(q)
      PROVE  IInv'
  <2>1. Bystanders(q) /\ q \in alive
    BY <1>1, BeginBystanders, ContinueBystanders
  <2>2. alive' = alive
    BY <2>1 DEF Bystanders
  <2>3. Typed'
    BY <1>1, BeginTyped, ContinueTyped DEF IInv
  <2>4. ASSUME NEW p \in alive
        PROVE  Local(p)'
    <3>1. CASE p = q
      BY <1>1, <2>1, <3>1, BeginKeepsLocal, ContinueKeepsLocal
    <3>2. CASE p # q
      BY <2>1, <3>2, OthersKeepLocal
    <3> QED BY <3>1, <3>2
  <2> QED BY <2>2, <2>3, <2>4 DEF IInv
<1>2. CASE UNCHANGED vars
  BY <1>2 DEF vars, IInv, Typed, TypeOK, AtScope, Local, Files, Knows, Session
<1> QED BY <1>1, <1>2, NextCases, CrashKeepsIInv

\* What slipped once has slipped for good.
LEMMA SlippedForGood ==
  ASSUME slipped, [Next]_vars
  PROVE  slipped'
<1>1. ASSUME NEW q \in Procs, Begin(q) PROVE slipped'
  BY <1>1 DEF Begin, Acquire, LookAgain, Heartbeat, StartRelease, Migrate
<1>2. ASSUME NEW q \in Procs, Continue(q) PROVE slipped'
  BY <1>2
     DEF Continue, Win, Look, Unlink, Recreate, Truncate, FinishBeat,
         CheckRelease, Drop, MoveCreate, MoveFill, MoveRead, Moved, MoveLose
<1>3. ASSUME NEW q \in Procs, Crash(q) PROVE slipped'
  BY <1>3 DEF Crash
<1>4. CASE UNCHANGED vars
  BY <1>4 DEF vars
<1> QED BY <1>1, <1>2, <1>3, <1>4, NextCases

LEMMA SoundInvariant == Spec => []Sound
<1>1. Init => Sound
  BY InitIInv DEF Sound
<1>2. Sound /\ [Next]_vars => Sound'
  BY NextKeepsIInv, SlippedForGood DEF Sound
<1> QED BY <1>1, <1>2, PTL DEF Spec

LEMMA IInvImplies ==
  ASSUME IInv
  PROVE  OneWriterEach /\ HoldsItsLock
<1>1. \A p \in alive : Files(p)
  BY DEF IInv, Local
<1>2. \A p \in alive : \A s \in held[p] : file[s].by = p
  BY <1>1 DEF Files
<1>3. HoldsItsLock
  BY <1>1 DEF HoldsItsLock, Files
<1>4. OneWriterEach
  BY <1>2 DEF OneWriterEach, Writers
<1> QED BY <1>3, <1>4

\* Until a recovery removes the lock of a process that is alive, a session has
\* one writer, through any interleaving of crashes, handoffs, moves, recoveries,
\* half-written locks and late heartbeats.
THEOREM OneWriter == Spec => []SingleWriter
<1>1. Sound => SingleWriter
  BY IInvImplies DEF Sound, SingleWriter
<1> QED BY SoundInvariant, <1>1, PTL

\* As long, a writer's lock file always names it.
THEOREM WritersHoldTheirLocks == Spec => []HoldsItsLock
<1>1. Sound => HoldsItsLock
  BY IInvImplies DEF Sound, HoldsItsLock
<1> QED BY SoundInvariant, <1>1, PTL

\* The lock of a live process that the second look of a recovery takes for a
\* dead owner's: it is being written at that moment.
MistakesOnlyUnwritten ==
  \A q \in Procs :
    LookAgain(q) /\ Recoverable(wait[q]) /\ file[wait[q]].by \in alive =>
      slipped \/ pc[file[wait[q]].by] \in Creating

\* Where the removal comes from: the second look takes no written lock of a live
\* process for a dead one's, so what slips was half-written when the recovery
\* looked, or was made between its look and its removal.
THEOREM MistakenWhileWritten == Spec => [][MistakesOnlyUnwritten]_vars
<1>1. Sound => MistakesOnlyUnwritten
  <2> SUFFICES ASSUME IInv, NEW q \in Procs, LookAgain(q), Recoverable(wait[q]),
                      file[wait[q]].by \in alive
               PROVE  pc[file[wait[q]].by] \in Creating
    BY DEF Sound, MistakesOnlyUnwritten
  <2> DEFINE r == file[wait[q]].by
  <2>1. wait[q] \in Scopes /\ r \in Procs /\ Files(r)
    BY DEF IInv, Local, Typed, TypeOK, LookAgain
  <2>2. ~file[wait[q]].whole
    BY DEF Recoverable, Read
  <2> QED BY <2>1, <2>2 DEF Files
<1> QED BY SoundInvariant, <1>1, PTL

----------------------------------------------------------------------------
(***************************************************************************)
(* Every lock file of a live process is accounted for: it is the writer    *)
(* there, it is on its way to becoming or ceasing to be, or it lost its    *)
(* session while it moved.                                                 *)
(***************************************************************************)
Passing == Creating \cup {"moved", "releasing", "dropping"}

Accounted(p) ==
  \A s \in Scopes : file[s].by = p =>
    s \in held[p] \/ (pc[p] \in Passing /\ at[p] = s) \/ (lost[p] /\ s = main[p])

Accounts == \A p \in alive : Accounted(p)

\* A process that only looks, or sleeps, writes nothing.
LEMMA SameAccount ==
  ASSUME NEW q \in Procs, Accounted(q), UNCHANGED <<file, held, main, lost>>,
         pc[q] \notin Passing
  PROVE  Accounted(q)'
BY DEF Accounted

LEMMA BeginAccounts ==
  ASSUME IInv, NEW q \in Procs, Begin(q), Accounted(q)
  PROVE  Accounted(q)'
<1> USE DEF IInv, Typed, TypeOK, Passing, Creating, Idle
<1>1. ASSUME NEW s \in Scopes, NEW m \in BOOLEAN, Acquire(q, s, m)
      PROVE  Accounted(q)'
  <2>1. CASE CreateFile(q, s) /\ Goto(q, "creating", s)
    BY <1>1, <2>1 DEF Acquire, CreateFile, Goto, Accounted
  <2>2. CASE UNCHANGED file
    BY <1>1, <2>2, SameAccount DEF Acquire
  <2> QED BY <1>1, <2>1, <2>2 DEF Acquire
<1>2. CASE LookAgain(q)
  BY <1>2, SameAccount DEF LookAgain
<1>3. ASSUME NEW s \in Scopes, Heartbeat(q, s) PROVE Accounted(q)'
  BY <1>3, SameAccount DEF Heartbeat
<1>4. ASSUME NEW s \in Scopes, StartRelease(q, s) PROVE Accounted(q)'
  BY <1>4 DEF StartRelease, Goto, Accounted
<1>5. ASSUME NEW s \in Scopes, Migrate(q, s) PROVE Accounted(q)'
  <2>1. CASE LoseMain(q)
    BY <1>5, <2>1 DEF Migrate, LoseMain, Accounted
  <2>2. CASE UNCHANGED <<held, lost>>
    BY <1>5, <2>2, SameAccount DEF Migrate
  <2> QED BY <1>5, <2>1, <2>2 DEF Migrate
<1> QED BY <1>1, <1>2, <1>3, <1>4, <1>5 DEF Begin

LEMMA ContinueAccounts ==
  ASSUME IInv, NEW q \in Procs, Continue(q), q \in alive, Accounted(q)
  PROVE  Accounted(q)'
<1>0. /\ Typed /\ Files(q) /\ Knows(q) /\ LockAssumption
      /\ q # None
  BY LockAssumption DEF IInv, Local
<1> USE DEF Typed, TypeOK, AtScope, Passing, Creating, Idle
<1>1. CASE Win(q)
  <2>1. at[q] \in Scopes /\ \A s \in Scopes : file'[s].by = q => file[s].by = q
    BY <1>1, <1>0 DEF Win, FillFile
  <2>2. CASE forMain[q] /\ main[q] # None
    <3>1. /\ pc'[q] = "releasing" /\ at'[q] = main[q] /\ lost' = lost /\ main'[q] = at[q]
          /\ held'[q] = (held[q] \ {main[q]}) \cup {at[q]} /\ pc[q] = "creating"
      BY <1>1, <1>0, <2>2 DEF Win, LeavesScope, Goto
    <3> QED BY <2>1, <3>1 DEF Accounted
  <2>3. CASE forMain[q] /\ main[q] = None
    <3>1. lost' = lost /\ held'[q] = (held[q] \ {None}) \cup {at[q]} /\ pc[q] = "creating"
      BY <1>1, <1>0, <2>3 DEF Win
    <3> QED BY <2>1, <2>3, <3>1, <1>0 DEF Accounted, LockAssumption
  <2>4. CASE ~forMain[q]
    <3>1. /\ lost' = lost /\ main' = main /\ held'[q] = held[q] \cup {at[q]}
          /\ pc[q] = "creating"
      BY <1>1, <1>0, <2>4 DEF Win
    <3> QED BY <2>1, <3>1 DEF Accounted
  <2> QED BY <2>2, <2>3, <2>4
<1>2. CASE Look(q)
  BY <1>2, SameAccount DEF Look
<1>3. CASE Unlink(q)
  BY <1>3, <1>0 DEF Unlink, UnlinkFile, Goto, Accounted, Absent
<1>4. CASE Recreate(q)
  <2>1. CASE CreateFile(q, at[q]) /\ Goto(q, "creating", at[q])
    BY <1>0, <1>4, <2>1 DEF Recreate, CreateFile, Goto, Accounted
  <2>2. CASE UNCHANGED file
    BY <1>4, <2>2, SameAccount DEF Recreate
  <2> QED BY <1>4, <2>1, <2>2 DEF Recreate
<1>5. CASE Truncate(q)
  BY <1>5, <1>0 DEF Truncate, CreateFile, Goto, Accounted
<1>6. CASE FinishBeat(q)
  <2>1. at[q] \in held[q] /\ \A s \in Scopes : file'[s].by = q => file[s].by = q
    BY <1>6, <1>0 DEF FinishBeat, FillFile, Knows
  <2> QED BY <1>6, <2>1 DEF FinishBeat, Accounted
<1>7. CASE CheckRelease(q)
  <2>1. CASE OwnLock(q, at[q])
    BY <1>0, <1>7, <2>1 DEF CheckRelease, Goto, Accounted
  <2>2. CASE ~OwnLock(q, at[q])
    \* A lock that is its own is whole: it would have been found.
    <3>1. at[q] \in Scopes /\ pc[q] = "releasing"
      BY <1>0, <1>7 DEF CheckRelease
    <3>2. file[at[q]].by # q
      BY <1>0, <2>2, <3>1 DEF Files, OwnLock, Read
    <3> QED BY <1>7, <3>1, <3>2 DEF CheckRelease, Accounted
  <2> QED BY <2>1, <2>2
<1>8. CASE Drop(q)
  BY <1>8, <1>0 DEF Drop, UnlinkFile, Accounted, Absent
<1>9. CASE MoveCreate(q)
  <2>1. CASE CreateFile(q, at[q]) /\ Goto(q, "moving", at[q])
    BY <1>0, <1>9, <2>1 DEF MoveCreate, CreateFile, Goto, Accounted
  <2>2. CASE UNCHANGED file
    BY <1>9, <2>2, SameAccount DEF MoveCreate
  <2> QED BY <1>9, <2>1, <2>2 DEF MoveCreate
<1>10. CASE MoveFill(q)
  <2>1. \A s \in Scopes : file'[s].by = q => file[s].by = q
    BY <1>10, <1>0 DEF MoveFill, FillFile
  <2> QED BY <1>10, <1>0, <2>1 DEF MoveFill, Goto, Accounted
<1>11. CASE MoveRead(q)
  <2>1. CASE LoseMain(q)
    BY <1>11, <2>1, <1>0 DEF MoveRead, LoseMain, Accounted
  <2>2. CASE UNCHANGED <<held, lost>>
    BY <1>11, <2>2, SameAccount DEF MoveRead
  <2> QED BY <1>11, <2>1, <2>2 DEF MoveRead
<1>12. CASE Moved(q)
  <2>1. /\ held'[q] = (held[q] \ {Fallback}) \cup {at[q]} /\ lost' = lost
        /\ main[q] = Fallback /\ pc[q] = "moved"
    BY <1>12, <1>0 DEF Moved, MoveMain, Knows, Moving
  <2>2. file' = [file EXCEPT ![Fallback] = Absent]
    BY <1>12 DEF Moved, UnlinkFile
  <2> QED BY <2>1, <2>2, <1>0 DEF Accounted, Absent
<1>13. CASE MoveLose(q)
  <2>1. /\ held'[q] = held[q] \ {Fallback} /\ main' = main
        /\ main[q] = Fallback /\ pc[q] = "moveLose" /\ lost'[q]
    BY <1>13, <1>0 DEF MoveLose, LoseMain, Knows, Moving
  <2>2. file' = [file EXCEPT ![Fallback] = Absent]
    BY <1>13 DEF MoveLose, UnlinkFile
  <2> QED BY <2>1, <2>2, <1>0 DEF Accounted, Absent
<1> QED
  BY <1>1, <1>2, <1>3, <1>4, <1>5, <1>6, <1>7, <1>8, <1>9, <1>10, <1>11,
     <1>12, <1>13 DEF Continue

LEMMA NextKeepsAccounts ==
  ASSUME IInv, Accounts, [Next]_vars, ~slipped'
  PROVE  Accounts'
<1>1. ASSUME NEW q \in Procs, Begin(q) \/ Continue(q)
      PROVE  Accounts'
  <2>1. Bystanders(q) /\ q \in alive
    BY <1>1, BeginBystanders, ContinueBystanders
  <2>2. q \in alive /\ alive' = alive
    BY <2>1 DEF Bystanders
  <2>3. ASSUME NEW p \in alive, p # q
        PROVE  Accounted(p)'
    BY <2>1, <2>3 DEF Accounts, Accounted, Bystanders, IInv, Typed, TypeOK
  <2> QED BY <1>1, <2>2, <2>3, BeginAccounts, ContinueAccounts DEF Accounts
<1>2. ASSUME NEW q \in Procs, Crash(q)
      PROVE  Accounts'
  BY <1>2 DEF Crash, Accounts, Accounted, IInv, Typed, TypeOK
<1>3. CASE UNCHANGED vars
  BY <1>3 DEF vars, Accounts, Accounted
<1> QED BY <1>1, <1>2, <1>3, NextCases

\* As long as no recovery has slipped, a live process leaves no lock behind
\* where it is not the writer: through refused moves, late releases and rebinds,
\* a session is never locked by a process that does not know it.
THEOREM NoOrphans == Spec => []NoOrphanLock
<1>1. Init => slipped \/ Accounts
  BY LockAssumption DEF Init, Accounts, Accounted, Absent
<1>2. Sound /\ (slipped \/ Accounts) /\ [Next]_vars => (slipped \/ Accounts)'
  BY NextKeepsAccounts, SlippedForGood DEF Sound
<1>3. slipped \/ Accounts => NoOrphanLock
  BY DEF Accounts, Accounted, NoOrphanLock, Passing
<1> QED BY SoundInvariant, <1>1, <1>2, <1>3, PTL DEF Spec

----------------------------------------------------------------------------
(***************************************************************************)
(* Implementation of SessionOwnership: what a change of held means there.  *)
(***************************************************************************)
NobodyWrites(s) == \A p \in alive : s \notin held[p]

LEMMA GainIsTake ==
  ASSUME IInv, alive' = alive, NEW q \in alive, NEW s \in Scopes, NobodyWrites(s),
         held' = [held EXCEPT ![q] = @ \cup {s}]
  PROVE  Ownership!Take(q, s)
<1>1. q \in Procs /\ alive \subseteq Procs /\ held \in [Procs -> SUBSET Scopes]
  BY DEF IInv, Typed, TypeOK
<1>2. Writers(s) = {}
  BY DEF Writers, NobodyWrites
<1>3. Writers(s)' = {q}
  BY <1>1 DEF Writers, NobodyWrites
<1>4. \A t \in Scopes \ {s} : Writers(t)' = Writers(t)
  BY <1>1 DEF Writers
<1> QED BY <1>1, <1>2, <1>3, <1>4 DEF Ownership!Take

LEMMA LossIsGive ==
  ASSUME IInv, alive' = alive, NEW q \in alive, NEW s,
         held' = [held EXCEPT ![q] = @ \ {s}]
  PROVE  \/ \E t \in Scopes : Ownership!Give(q, t)
         \/ UNCHANGED Ownership!ownershipVars
<1>1. q \in Procs /\ alive \subseteq Procs /\ held \in [Procs -> SUBSET Scopes]
  BY DEF IInv, Typed, TypeOK
<1>2. CASE s \in held[q]
  <2>1. s \in Scopes
    BY <1>1, <1>2
  <2>2. Writers(s) = {q}
    BY <1>1, <1>2, <2>1, IInvImplies DEF OneWriterEach, Writers
  <2>3. Writers(s)' = {}
    BY <1>1, <2>2 DEF Writers
  <2>4. \A t \in Scopes \ {s} : Writers(t)' = Writers(t)
    BY <1>1 DEF Writers
  <2> QED BY <2>1, <2>2, <2>3, <2>4 DEF Ownership!Give
<1>3. CASE s \notin held[q]
  <2>1. held' = held
    BY <1>1, <1>3
  <2> QED BY <2>1 DEF Ownership!ownershipVars, Writers
<1> QED BY <1>2, <1>3

LEMMA MoveIsHandOrTake ==
  ASSUME IInv, alive' = alive, NEW q \in alive, NEW s, NEW t \in Scopes,
         s # t, NobodyWrites(t),
         held' = [held EXCEPT ![q] = (@ \ {s}) \cup {t}]
  PROVE  \/ s \in Scopes /\ Ownership!Hand(q, s, t)
         \/ Ownership!Take(q, t)
<1>1. q \in Procs /\ alive \subseteq Procs /\ held \in [Procs -> SUBSET Scopes]
  BY DEF IInv, Typed, TypeOK
<1>2. CASE s \in held[q]
  <2>1. s \in Scopes
    BY <1>1, <1>2
  <2>2. Writers(s) = {q} /\ Writers(t) = {}
    BY <1>1, <1>2, <2>1, IInvImplies DEF OneWriterEach, Writers, NobodyWrites
  <2>3. Writers(s)' = {} /\ Writers(t)' = {q}
    BY <1>1, <2>2 DEF Writers
  <2>4. \A u \in Scopes \ {s, t} : Writers(u)' = Writers(u)
    BY <1>1 DEF Writers
  <2> QED BY <2>1, <2>2, <2>3, <2>4 DEF Ownership!Hand
<1>3. CASE s \notin held[q]
  <2>1. held' = [held EXCEPT ![q] = @ \cup {t}]
    BY <1>1, <1>3
  <2> QED BY <2>1, GainIsTake
<1> QED BY <1>2, <1>3

LEMMA CrashIsDie ==
  ASSUME IInv, NEW q \in Procs, Crash(q)
  PROVE  Ownership!Die(q)
<1>1. alive \subseteq Procs /\ held \in [Procs -> SUBSET Scopes]
  BY DEF IInv, Typed, TypeOK
<1>2. \A s \in Scopes : Writers(s)' = Writers(s) \ {q}
  BY <1>1 DEF Crash, Writers
<1> QED BY <1>2 DEF Crash, Ownership!Die

\* The actions that leave held and alive alone are stuttering steps.
LEMMA SameHeldIsStutter ==
  ASSUME held' = held, alive' = alive
  PROVE  UNCHANGED Ownership!ownershipVars
BY DEF Ownership!ownershipVars, Writers

LEMMA BeginRefines ==
  ASSUME IInv, NEW q \in alive, Begin(q)
  PROVE  [Ownership!Next]_(Ownership!ownershipVars)
<1>0. q \in Procs
  BY DEF IInv, Typed, TypeOK
<1>1. CASE held' = held
  <2>1. alive' = alive
    BY DEF Begin, Acquire, LookAgain, Heartbeat, StartRelease, Migrate
  <2> QED BY <1>1, <2>1, SameHeldIsStutter
<1>2. ASSUME NEW s \in Scopes, StartRelease(q, s)
      PROVE  [Ownership!Next]_(Ownership!ownershipVars)
  <2>1. alive' = alive /\ held' = [held EXCEPT ![q] = @ \ {s}]
    BY <1>2 DEF StartRelease
  <2> QED BY <1>0, <2>1, LossIsGive DEF Ownership!Next
<1>3. ASSUME NEW s \in Scopes, Migrate(q, s), LoseMain(q)
      PROVE  [Ownership!Next]_(Ownership!ownershipVars)
  <2>1. alive' = alive /\ held' = [held EXCEPT ![q] = @ \ {main[q]}]
    BY <1>3 DEF Migrate, LoseMain
  <2> QED BY <1>0, <2>1, LossIsGive DEF Ownership!Next
<1> QED
  BY <1>1, <1>2, <1>3 DEF Begin, Acquire, LookAgain, Heartbeat, Migrate

LEMMA ContinueRefines ==
  ASSUME IInv, NEW q \in alive, Continue(q)
  PROVE  [Ownership!Next]_(Ownership!ownershipVars)
<1>0. /\ q \in Procs /\ Typed /\ Files(q) /\ Knows(q) /\ Session(q)
      /\ \A p \in alive : Files(p)
  BY DEF IInv, Typed, TypeOK, Local
<1>1. alive' = alive
  BY DEF Continue, Win, Look, Unlink, Recreate, Truncate, FinishBeat,
         CheckRelease, Drop, MoveCreate, MoveFill, MoveRead, Moved, MoveLose
<1>2. CASE held' = held
  BY <1>1, <1>2, SameHeldIsStutter
<1>3. CASE Win(q)
  <2>1. /\ pc[q] = "creating" /\ at[q] \in Scopes /\ at[q] # main[q]
        /\ file[at[q]].by = q /\ at[q] \notin held[q]
    BY <1>0, <1>3
       DEF Win, Knows, Session, Creating, Acquiring, Typed, AtScope, Idle
  <2>2. NobodyWrites(at[q])
    BY <1>0, <2>1 DEF Files, NobodyWrites
  <2>3. CASE held' = [held EXCEPT ![q] = (@ \ {main[q]}) \cup {at[q]}]
    BY <1>0, <1>1, <2>1, <2>2, <2>3, MoveIsHandOrTake DEF Ownership!Next
  <2>4. CASE held' = [held EXCEPT ![q] = @ \cup {at[q]}]
    BY <1>0, <1>1, <2>1, <2>2, <2>4, GainIsTake DEF Ownership!Next
  <2> QED BY <1>3, <2>3, <2>4 DEF Win
<1>4. CASE Moved(q)
  <2>1. /\ pc[q] = "moved" /\ at[q] \in Scopes /\ file[at[q]].by = q
        /\ at[q] \notin held[q] /\ main[q] = Fallback /\ Fallback \in held[q]
    BY <1>0, <1>4 DEF Moved, Knows, Moving, Typed, AtScope, Idle
  <2>2. NobodyWrites(at[q])
    BY <1>0, <2>1 DEF Files, NobodyWrites
  <2>3. held' = [held EXCEPT ![q] = (@ \ {main[q]}) \cup {at[q]}]
    BY <1>4 DEF Moved, MoveMain
  <2>4. main[q] # at[q]
    BY <2>1
  <2> QED BY <1>0, <1>1, <2>1, <2>2, <2>3, <2>4, MoveIsHandOrTake
       DEF Ownership!Next
<1>5. CASE LoseMain(q)
  BY <1>0, <1>1, <1>5, LossIsGive DEF LoseMain, Ownership!Next
<1> QED
  BY <1>2, <1>3, <1>4, <1>5
     DEF Continue, Look, Unlink, Recreate, Truncate, FinishBeat, CheckRelease,
         Drop, MoveCreate, MoveFill, MoveRead, MoveLose

LEMMA InitRefines == Init => Ownership!Init
BY DEF Init, Ownership!Init, Writers

\* As long as no recovery has slipped, the lock files implement session
\* ownership: each step of each process is a take, a hand-over, a give, a death
\* or nothing.
THEOREM Implements == Spec => ImplementsOwnership
<1>1. Sound /\ [Next]_vars =>
        [slipped' \/ Ownership!Next]_(Ownership!ownershipVars)
  <2> SUFFICES ASSUME IInv, [Next]_vars, ~slipped'
               PROVE  [Ownership!Next]_(Ownership!ownershipVars)
    BY SlippedForGood DEF Sound
  <2>1. ASSUME NEW q \in Procs, Begin(q) \/ Continue(q)
        PROVE  [Ownership!Next]_(Ownership!ownershipVars)
    <3>1. q \in alive
      BY <2>1, BeginBystanders, ContinueBystanders
    <3> QED BY <2>1, <3>1, BeginRefines, ContinueRefines
  <2>2. ASSUME NEW q \in Procs, Crash(q)
        PROVE  [Ownership!Next]_(Ownership!ownershipVars)
    BY <2>2, CrashIsDie DEF Ownership!Next
  <2>3. CASE UNCHANGED vars
    BY <2>3, SameHeldIsStutter DEF vars
  <2> QED BY <2>1, <2>2, <2>3, NextCases
<1> QED BY InitRefines, SoundInvariant, <1>1, PTL
     DEF Spec, ImplementsOwnership
=============================================================================
