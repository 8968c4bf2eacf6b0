---------------------------- MODULE WriterLock ----------------------------
(***************************************************************************)
(* Who may write a session: the lock file beside a session's transcript    *)
(* (src/src/pi/session-writer-lock.ts), as the terminal program            *)
(* (cli-main.ts), the GUI server (gui/server/server.ts) and the chat runs  *)
(* of the GUI server (gui/server/http-routes.ts) use it.                   *)
(*                                                                         *)
(* A process is one incarnation: a restarted program is another member of  *)
(* Procs, with another pid and ownerId.  Inside a process everything up to *)
(* the next await is one uninterrupted piece of JavaScript (pc), while one *)
(* acquisition may sleep out its grace period (wait) beside it.  Between   *)
(* processes only single file-system calls are atomic: others run between  *)
(* the second look at a dead owner's lock and its removal, and see a lock  *)
(* file while its owner is writing it.  Both windows let a recovery remove *)
(* the lock of a process that is alive; slipped remembers that it did.     *)
(***************************************************************************)
CONSTANTS
  Procs,     \* process incarnations
  Scopes,    \* lock scopes: session files and the session directory
  Fallback,  \* the session directory, used until the session has a file
  None

ASSUME LockAssumption ==
  /\ Fallback \in Scopes
  /\ None \notin Procs
  /\ None \notin Scopes

VARIABLES
  alive,    \* processes that process.kill(pid, 0) finds
  file,     \* the lock files: who wrote it, and whether it is complete
  pc,       \* the next file-system call of a process's running piece of code
  at,       \* the scope that call is about
  wait,     \* the scope whose grace period a process is sleeping out
  forMain,  \* an acquisition under way is for the process's session, not for
            \* a chat run
  main,     \* activeWriterLockScope
  held,     \* scopes for which the process believes it is the writer
  lost,     \* currentWriterLockLost
  slipped   \* whether a recovery has removed the lock of a live process

vars == <<alive, file, pc, at, wait, forMain, main, held, lost, slipped>>

Absent == [by |-> None, whole |-> FALSE]

Locks == [by : Procs \cup {None}, whole : BOOLEAN]

Idle == "idle"

Creating == {"creating", "moving", "beating"}  \* the file exists, unwritten

Recovering == {"unlinking", "recreating"}

Pcs == {Idle, "looking", "beat", "releasing", "dropping", "moveCreate",
        "moveRead", "moved", "moveLose"} \cup Creating \cup Recovering

TypeOK ==
  /\ alive \subseteq Procs
  /\ file \in [Scopes -> Locks]
  /\ pc \in [Procs -> Pcs]
  /\ at \in [Procs -> Scopes \cup {None}]
  /\ wait \in [Procs -> Scopes \cup {None}]
  /\ forMain \in [Procs -> BOOLEAN]
  /\ main \in [Procs -> Scopes \cup {None}]
  /\ held \in [Procs -> SUBSET Scopes]
  /\ lost \in [Procs -> BOOLEAN]
  /\ slipped \in BOOLEAN

Init ==
  /\ alive = Procs
  /\ file = [s \in Scopes |-> Absent]
  /\ pc = [p \in Procs |-> Idle]
  /\ at = [p \in Procs |-> None]
  /\ wait = [p \in Procs |-> None]
  /\ forMain = [p \in Procs |-> FALSE]
  /\ main = [p \in Procs |-> None]
  /\ held = [p \in Procs |-> {}]
  /\ lost = [p \in Procs |-> FALSE]
  /\ slipped = FALSE

----------------------------------------------------------------------------
(***************************************************************************)
(* File-system calls and the reading of a lock.                            *)
(***************************************************************************)

\* readWriterLock: the owner a reader finds, None for a missing file and for
\* one whose JSON does not parse.
Read(s) == IF file[s].whole THEN file[s].by ELSE None

\* open(path, "wx") succeeded: the file is there and still empty.
CreateFile(p, s) == file' = [file EXCEPT ![s] = [by |-> p, whole |-> FALSE]]

\* Write through the open descriptor: without effect on the path when the
\* file has been unlinked meanwhile.
FillFile(p, s) ==
  file' = IF file[s].by = p
            THEN [file EXCEPT ![s] = [by |-> p, whole |-> TRUE]] ELSE file

UnlinkFile(s) == file' = [file EXCEPT ![s] = Absent]

\* isSameLockOwner of the lock a process reads.
AnyLock(p, s) == Read(s) # None
OwnLock(p, s) == Read(s) = p

\* Whether open(path, "wx") can succeed.
AlwaysFree(s) == TRUE
Free(s) == file[s] = Absent

\* classifyLock: only a lock whose recorded pid is gone may be recovered.  A
\* late heartbeat changes the label given to the user, never the role.
RecoverableWhenLate(s) == TRUE
RecoverableWhenReadable(s) == Read(s) # None /\ Read(s) \notin alive
Recoverable(s) == Read(s) \notin alive

Goto(p, label, s) ==
  /\ pc' = [pc EXCEPT ![p] = label]
  /\ at' = [at EXCEPT ![p] = s]

Rest(p) == Goto(p, Idle, None)

----------------------------------------------------------------------------
(***************************************************************************)
(* Acquiring: at start and when the process moves to another session       *)
(* (main), or for one chat run in a session that is not the current one.   *)
(***************************************************************************)

Acquire(p, s, m) ==
  /\ p \in alive
  /\ pc[p] = Idle
  /\ wait[p] = None
  /\ s # main[p]
  /\ forMain' = [forMain EXCEPT ![p] = m]
  /\ \/ /\ Free(s)
        /\ CreateFile(p, s)
        /\ Goto(p, "creating", s)
     \/ /\ ~Free(s)
        /\ Goto(p, "looking", s)
        /\ UNCHANGED file
  /\ UNCHANGED <<alive, wait, main, held, lost, slipped>>

\* What an acquisition that won releases: the scope its process leaves.
LeavesNothing(p) == FALSE
LeavesScope(p) == main[p] # None

\* The lock is written and the acquisition answers "writer".  A process that
\* changes its session releases the scope it leaves in the same breath.
Win(p) ==
  /\ p \in alive
  /\ pc[p] = "creating"
  /\ FillFile(p, at[p])
  /\ IF forMain[p]
       THEN /\ main' = [main EXCEPT ![p] = at[p]]
            /\ held' = [held EXCEPT ![p] = (@ \ {main[p]}) \cup {at[p]}]
            /\ IF LeavesScope(p) THEN Goto(p, "releasing", main[p]) ELSE Rest(p)
       ELSE /\ held' = [held EXCEPT ![p] = @ \cup {at[p]}]
            /\ Rest(p)
            /\ UNCHANGED main
  /\ forMain' = [forMain EXCEPT ![p] = FALSE]
  /\ UNCHANGED <<alive, wait, lost, slipped>>

\* The scope to sleep for, if any.
SleepsIfRecoverable(s) == Recoverable(s)
SleepsFor(s) == IF Recoverable(s) THEN s ELSE None

\* First look: a follower of a live owner, or asleep for the grace period.
Look(p) ==
  /\ p \in alive
  /\ pc[p] = "looking"
  /\ wait' = [wait EXCEPT ![p] = SleepsFor(at[p])]
  /\ forMain' = [forMain EXCEPT ![p] = @ /\ SleepsFor(at[p]) # None]
  /\ Rest(p)
  /\ UNCHANGED <<alive, file, main, held, lost, slipped>>

\* Second look, after the grace period.
LookAgain(p) ==
  /\ p \in alive
  /\ pc[p] = Idle
  /\ wait[p] # None
  /\ IF Recoverable(wait[p]) THEN Goto(p, "unlinking", wait[p]) ELSE Rest(p)
  /\ wait' = [wait EXCEPT ![p] = None]
  /\ forMain' = [forMain EXCEPT ![p] = @ /\ Recoverable(wait[p])]
  /\ UNCHANGED <<alive, file, main, held, lost, slipped>>

Unlink(p) ==
  /\ p \in alive
  /\ pc[p] = "unlinking"
  /\ UnlinkFile(at[p])
  /\ slipped' = (slipped \/ file[at[p]].by \in alive)
  /\ Goto(p, "recreating", at[p])
  /\ UNCHANGED <<alive, wait, forMain, main, held, lost>>

\* The next create decides; whoever loses it follows the winner.
Recreate(p) ==
  /\ p \in alive
  /\ pc[p] = "recreating"
  /\ IF Free(at[p])
       THEN CreateFile(p, at[p]) /\ Goto(p, "creating", at[p])
       ELSE Rest(p) /\ UNCHANGED file
  /\ forMain' = [forMain EXCEPT ![p] = @ /\ Free(at[p])]
  /\ UNCHANGED <<alive, wait, main, held, lost, slipped>>

----------------------------------------------------------------------------
(***************************************************************************)
(* Keeping and giving up a lock.                                           *)
(***************************************************************************)

\* refreshWriterLock reads, and rewrites only what is its own.  The timer of
\* the process's session stops for good once that lock is lost.
Heartbeat(p, s) ==
  /\ p \in alive
  /\ pc[p] = Idle
  /\ s \in held[p]
  /\ ~(lost[p] /\ s = main[p])
  /\ OwnLock(p, s)
  /\ Goto(p, "beat", s)
  /\ UNCHANGED <<alive, file, wait, forMain, main, held, lost, slipped>>

\* writeFileSync truncates (or creates) the file, then fills it.
Truncate(p) ==
  /\ p \in alive
  /\ pc[p] = "beat"
  /\ CreateFile(p, at[p])
  /\ Goto(p, "beating", at[p])
  /\ UNCHANGED <<alive, wait, forMain, main, held, lost, slipped>>

FinishBeat(p) ==
  /\ p \in alive
  /\ pc[p] = "beating"
  /\ FillFile(p, at[p])
  /\ Rest(p)
  /\ UNCHANGED <<alive, wait, forMain, main, held, lost, slipped>>

\* A chat run is over, or the process shuts down: it stops using the session,
\* then releases.
StartRelease(p, s) ==
  /\ p \in alive
  /\ pc[p] = Idle
  /\ s \in held[p] \cup {main[p]}
  /\ s # None
  /\ main' = [main EXCEPT ![p] = IF @ = s THEN None ELSE @]
  /\ held' = [held EXCEPT ![p] = @ \ {s}]
  /\ Goto(p, "releasing", s)
  /\ UNCHANGED <<alive, file, wait, forMain, lost, slipped>>

\* releaseWriterLock: read, and go on only when the lock is its own.
CheckRelease(p) ==
  /\ p \in alive
  /\ pc[p] = "releasing"
  /\ IF OwnLock(p, at[p]) THEN Goto(p, "dropping", at[p]) ELSE Rest(p)
  /\ UNCHANGED <<alive, file, wait, forMain, main, held, lost, slipped>>

Drop(p) ==
  /\ p \in alive
  /\ pc[p] = "dropping"
  /\ UnlinkFile(at[p])
  /\ Rest(p)
  /\ UNCHANGED <<alive, wait, forMain, main, held, lost, slipped>>

----------------------------------------------------------------------------
(***************************************************************************)
(* Migration: a new session starts under the directory's lock and moves to *)
(* its own file's lock once it has a file (syncCurrentWriterLockScope).    *)
(***************************************************************************)

LoseMain(p) ==
  /\ lost' = [lost EXCEPT ![p] = TRUE]
  /\ held' = [held EXCEPT ![p] = @ \ {main[p]}]
  /\ Rest(p)

MoveMain(p, s) ==
  /\ main' = [main EXCEPT ![p] = s]
  /\ held' = [held EXCEPT ![p] = (@ \ {main[p]}) \cup {s}]
  /\ Rest(p)

\* The session's file is new, so none of the process's chat runs is in it.
Migrate(p, s) ==
  /\ p \in alive
  /\ pc[p] = Idle
  /\ ~lost[p]
  /\ main[p] = Fallback
  /\ s \notin held[p] \cup {Fallback}
  /\ IF OwnLock(p, Fallback)
       THEN Goto(p, "moveCreate", s) /\ UNCHANGED <<held, lost>>
       ELSE LoseMain(p)
  /\ UNCHANGED <<alive, file, wait, forMain, main, slipped>>

MoveCreate(p) ==
  /\ p \in alive
  /\ pc[p] = "moveCreate"
  /\ \/ /\ Free(at[p])
        /\ CreateFile(p, at[p])
        /\ Goto(p, "moving", at[p])
     \/ /\ ~Free(at[p])
        /\ Goto(p, "moveRead", at[p])
        /\ UNCHANGED file
  /\ UNCHANGED <<alive, wait, forMain, main, held, lost, slipped>>

MoveFill(p) ==
  /\ p \in alive
  /\ pc[p] = "moving"
  /\ FillFile(p, at[p])
  /\ Goto(p, "moved", at[p])
  /\ UNCHANGED <<alive, wait, forMain, main, held, lost, slipped>>

\* The destination exists: its own lock means the move is done, another's
\* that the session is taken; an unreadable one keeps the fallback's file.
MoveRead(p) ==
  /\ p \in alive
  /\ pc[p] = "moveRead"
  /\ IF Read(at[p]) = None
       THEN LoseMain(p)
       ELSE /\ Goto(p, IF OwnLock(p, at[p]) THEN "moved" ELSE "moveLose", at[p])
            /\ UNCHANGED <<held, lost>>
  /\ UNCHANGED <<alive, file, wait, forMain, main, slipped>>

Moved(p) ==
  /\ p \in alive
  /\ pc[p] = "moved"
  /\ UnlinkFile(Fallback)
  /\ MoveMain(p, at[p])
  /\ UNCHANGED <<alive, wait, forMain, lost, slipped>>

MoveLose(p) ==
  /\ p \in alive
  /\ pc[p] = "moveLose"
  /\ UnlinkFile(Fallback)
  /\ LoseMain(p)
  /\ UNCHANGED <<alive, wait, forMain, main, slipped>>

----------------------------------------------------------------------------
\* A process dies between any two calls; what it left on disk stays.
Crash(p) ==
  /\ p \in alive
  /\ alive' = alive \ {p}
  /\ pc' = [pc EXCEPT ![p] = Idle]
  /\ at' = [at EXCEPT ![p] = None]
  /\ wait' = [wait EXCEPT ![p] = None]
  /\ forMain' = [forMain EXCEPT ![p] = FALSE]
  /\ main' = [main EXCEPT ![p] = None]
  /\ held' = [held EXCEPT ![p] = {}]
  /\ lost' = [lost EXCEPT ![p] = FALSE]
  /\ UNCHANGED <<file, slipped>>

\* The steps that only continue what a process has begun.
Continue(p) ==
  \/ Win(p) \/ Look(p) \/ Unlink(p) \/ Recreate(p)
  \/ Truncate(p) \/ FinishBeat(p)
  \/ CheckRelease(p) \/ Drop(p)
  \/ MoveCreate(p) \/ MoveFill(p) \/ MoveRead(p) \/ Moved(p) \/ MoveLose(p)

Next ==
  \E p \in Procs :
    \/ \E s \in Scopes, m \in BOOLEAN : Acquire(p, s, m)
    \/ LookAgain(p)
    \/ \E s \in Scopes : Heartbeat(p, s) \/ StartRelease(p, s) \/ Migrate(p, s)
    \/ Continue(p)
    \/ Crash(p)

Spec == Init /\ [][Next]_vars

\* A process that is alive runs the code it has begun, and its event loop
\* reaches the timer that ends a grace period however often others fire.
FairSpec ==
  Spec /\ \A p \in Procs : WF_vars(Continue(p)) /\ SF_vars(LookAgain(p))

----------------------------------------------------------------------------
(***************************************************************************)
(* Properties.                                                             *)
(***************************************************************************)

Writers(s) == {p \in alive : s \in held[p]}

OneWriterEach == \A s \in Scopes : \A p, q \in Writers(s) : p = q

\* Two live processes never both believe that they are the writer of a
\* session, as long as no recovery has removed the lock of a live process.
SingleWriter == ~slipped => OneWriterEach

\* As long, a writer's belief is backed by the disk: the lock file of a session
\* it holds names it, except for the moment in which it rewrites that file.
HoldsItsLock ==
  ~slipped => \A p \in alive : \A s \in held[p] :
    /\ file[s].by = p
    /\ file[s].whole \/ (pc[p] = "beating" /\ at[p] = s)

\* As long, a live process leaves no lock behind that it is not using: other
\* surfaces would be told forever that the session is busy elsewhere.  The
\* exception is the fallback of a process that lost its session to an
\* unreadable lock.
NoOrphanLock ==
  ~slipped => \A s \in Scopes : file[s].by \in alive =>
    LET p == file[s].by IN
      \/ s \in held[p]
      \/ pc[p] \in Creating \cup {"moved", "releasing", "dropping"} /\ at[p] = s
      \/ lost[p] /\ s = main[p]

\* The lock files implement the ownership of sessions they stand for.
Ownership == INSTANCE SessionOwnership
               WITH live <- alive, writers <- [s \in Scopes |-> Writers(s)]

\* As long, every step of every process, crashes included, is a step of the
\* abstract specification or leaves ownership as it was.
ImplementsOwnership ==
  /\ Ownership!Init
  /\ [][slipped' \/ Ownership!Next]_(Ownership!ownershipVars)


\* An acquisition that found a lock in its way.
Asks(p, s) == (pc[p] = "looking" /\ at[p] = s) \/ wait[p] = s

\* A lock nobody alive stands behind, readable or not, never locks the last
\* process out: after the grace period it becomes the writer.
SoleSurvivorAcquires ==
  \A s \in Scopes :
    (\E p \in Procs : alive = {p} /\ Asks(p, s) /\ file[s].by # p)
      ~> (alive = {} \/ Writers(s) # {})
=============================================================================
