---------------------------- MODULE HostedRuntime ----------------------------
(***************************************************************************)
(* The runtime of the hosted web app in the tab that may run it, and what  *)
(* it leaves on disk: the host (gui/hosted/src/runtime/                    *)
(* browser-runtime-host.js), its data store (browser-data-store.js), the   *)
(* process in the WebContainer (gui/hosted/runtime/server.ts) and the GUI  *)
(* runtime in that process (browser-hosted-gui-runtime.ts).                *)
(*                                                                         *)
(* The process works on copies; the only thing that outlives it is the     *)
(* archive of the last checkpoint that was written.  A snapshot is reduced *)
(* to the action markers in it: what was done, and which runs are pending. *)
(***************************************************************************)
EXTENDS Naturals, FiniteSets, Sequences, SequencesExt

CONSTANTS
  Reads,   \* reads that answer with a bootstrap
  Tools,   \* direct tool calls: answered in the step that takes the snapshot
  Edits,   \* other changes (a rename, a deleted preference, ...): answered later
  Runs,    \* chat runs, streamed
  Empty,   \* BOOLEAN: nothing is saved yet when the model starts
  Faults,  \* what may go wrong, each kind once: "stop", "reload", "failure",
           \* "timeout" and, not a fault, "import"
  MaxAsks, MaxFaults   \* bounds of the model

ASSUME HostedRuntimeAssumption ==
  /\ MaxAsks \in Nat /\ MaxFaults \in Nat
  /\ Empty \in BOOLEAN
  /\ Reads \cap (Tools \cup Edits \cup Runs) = {}
  /\ Tools \cap (Edits \cup Runs) = {} /\ Edits \cap Runs = {}

Saved == Tools \cup Edits \cup Runs
Actions == Reads \cup Saved

VARIABLES
  archive, backup, \* the checkpoint file and its backup
  queue,    \* the store's jobs: checkpoints to write
  host,     \* "down", "booting" or "ready"
  seeded,   \* hasDurableCheckpoint
  recovery, \* preserveRecoveryBackupUntilBoot
  import,   \* the import in progress: "no", "stored" or "booted" with it
  request,  \* the request of an action in the host
  view,     \* what its user was told last; "over" when its id is not used again
  mem,      \* the markers in the process
  held,     \* answers the process is still putting together
  run,      \* chat runs in the process
  out,      \* frames from the process to the host
  paid,     \* history: how often a run went to the model
  spoiled,  \* history: the actions whose marker an older snapshot may have taken
            \* out of the archive, or an import that was cut off
  faults    \* history: what has gone wrong so far

disk == <<archive, backup, queue>>
process == <<mem, held, run, out>>
histories == <<paid, spoiled, faults>>
vars == <<disk, host, seeded, recovery, import, request, view, process, histories>>

Nothing == [a \in Saved |-> "none"]
NoArchive == [data |-> Nothing, state |-> "none"]
NoRun == [phase |-> "none", try |-> 0, for |-> 0]
NoRequest == [phase |-> "none", try |-> 0]

Fault(what) ==
  /\ what \in Faults \ faults /\ Cardinality(faults) < MaxFaults
  /\ faults' = faults \cup {what}

TypeOK ==
  /\ \A f \in {archive, backup} :
       f.data \in [Saved -> {"none", "pending", "done"}] /\ f.state \in {"none", "good", "bad"}
  /\ host \in {"down", "booting", "ready"} /\ {seeded, recovery} \subseteq BOOLEAN /\ spoiled \subseteq Saved
  /\ import \in {"no", "stored", "booted"}
  /\ \A a \in Actions :
       /\ request[a].phase \in {"none", "boot", "sent", "cancelled", "saving", "ending"}
       /\ view[a] \in {"idle", "waiting", "ok", "failed", "over"}
       /\ view[a] = "waiting" <=> request[a].phase \in {"boot", "sent", "saving", "ending"}
  /\ \A r \in Runs :
       run[r].phase \in {"none", "admitting", "prompting", "running", "accepting", "failing"}
  /\ host # "ready" => out = <<>> /\ DOMAIN held = {} /\ \A r \in Runs : run[r] = NoRun

Init ==
  /\ archive = [NoArchive EXCEPT !.state = IF Empty THEN "none" ELSE "good"]
  /\ backup = NoArchive /\ queue = <<>>
  /\ host = "down" /\ seeded = FALSE /\ recovery = FALSE /\ import = "no"
  /\ request = [a \in Actions |-> NoRequest] /\ view = [a \in Actions |-> "idle"]
  /\ mem = Nothing /\ held = <<>> /\ run = [r \in Runs |-> NoRun] /\ out = <<>>
  /\ paid = [r \in Runs |-> 0] /\ spoiled = {}
  /\ faults = {}

-----------------------------------------------------------------------------
(* Asking. *)

Asks == FoldFunction(LAMBDA q, n : q.try + n, 0, request)

\* A tool call or a change has an id of its own; a run whose stream broke may
\* be retried under its id.  The page does nothing else while it imports.
Ask(a) ==
  /\ \/ view[a] = "idle"
     \/ a \in Runs /\ view[a] = "failed"
  /\ Asks < MaxAsks
  /\ import = "no"
  /\ view' = [view EXCEPT ![a] = "waiting"]
  /\ request' = [request EXCEPT ![a] = [phase |-> "boot", try |-> @.try + 1]]
  /\ UNCHANGED <<disk, host, seeded, recovery, import, process, histories>>

\* ensureBooted
StartBoot ==
  /\ host = "down"
  /\ import = "stored" \/ \E a \in Actions : request[a].phase = "boot"
  /\ host' = "booting"
  /\ UNCHANGED <<disk, seeded, recovery, import, request, view, process, histories>>

\* boot: the backup is refreshed, unless an import waits for its first start.
BackedUp == IF archive.state # "none" /\ ~recovery THEN archive ELSE backup

Ready ==
  /\ host = "booting" /\ queue = <<>> /\ archive.state # "bad"
  /\ host' = "ready"
  /\ seeded' = (archive.state # "none")
  /\ backup' = BackedUp
  /\ mem' = archive.data
  /\ import' = IF import = "stored" THEN "booted" ELSE import
  /\ UNCHANGED <<archive, queue, recovery, request, view, held, run, out, histories>>

-----------------------------------------------------------------------------
(* Stopping. *)

\* Mutant: a stream that waits for its last bootstrap is forgotten.
RejectsAsked(a) == request[a].phase \in {"boot", "sent", "cancelled"}

\* What a stopped host rejects; an answer that is being saved is not among it.
Rejects(a) == request[a].phase \in {"boot", "sent", "cancelled", "ending"}

RejectAll ==
  /\ request' = [a \in Actions |->
       IF Rejects(a) THEN [request[a] EXCEPT !.phase = "none"] ELSE request[a]]
  /\ view' = [a \in Actions |->
       IF Rejects(a) /\ view[a] = "waiting" THEN "failed" ELSE view[a]]

\* Mutant: the runs of the old process are taken for the new one's.
ProcessEndsLater ==
  host' = "down" /\ mem' = Nothing /\ held' = <<>> /\ out' = <<>> /\ UNCHANGED run

ProcessEnds ==
  /\ host' = "down" /\ mem' = Nothing /\ held' = <<>> /\ out' = <<>>
  /\ run' = [r \in Runs |-> NoRun]

\* The import fails: the archive it replaced comes back.
Restored ==
  /\ import' = "no"
  /\ IF import # "no" /\ backup.state # "none"
       THEN archive' = backup /\ recovery' = FALSE
       ELSE UNCHANGED <<archive, recovery>>

\* A network failure, an archive the process cannot open: before or after the
\* backup was refreshed.
BootFails ==
  /\ host = "booting" /\ queue = <<>>
  /\ \/ archive.state = "bad" /\ backup' = BackedUp /\ UNCHANGED faults
     \/ /\ archive.state # "bad" /\ Fault("failure")
        /\ backup' \in {backup, BackedUp}
  /\ RejectAll /\ ProcessEnds
  /\ Restored
  /\ UNCHANGED <<queue, seeded, paid, spoiled>>

\* stopRuntime (secrets cleared, a provider key saved, the page yields), or the
\* process exits: what is queued is still written.
StopOrExit ==
  /\ host # "down" /\ Fault("stop")
  /\ RejectAll /\ ProcessEnds
  /\ Restored
  /\ UNCHANGED <<backup, queue, seeded, paid, spoiled>>

\* The page is closed or reloaded: the queue is gone, a new host knows nothing
\* of an import, and a new page nothing of the ids in use.
Reload ==
  /\ Fault("reload")
  /\ request' = [a \in Actions |-> [request[a] EXCEPT !.phase = "none"]]
  /\ view' = [a \in Actions |-> IF view[a] \in {"waiting", "failed"} THEN "over" ELSE view[a]]
  /\ ProcessEnds
  /\ queue' = <<>> /\ seeded' = FALSE /\ recovery' = FALSE /\ import' = "no"
  /\ spoiled' = IF import = "no" THEN spoiled ELSE Saved
  /\ UNCHANGED <<archive, backup, paid>>

-----------------------------------------------------------------------------
(* The process. *)

Frame(type, a, try, ok) ==
  [type |-> type, action |-> a, try |-> try, ok |-> ok, data |-> mem']

Say(frame) == out' = Append(out, frame)

Sent(a) == host = "ready" /\ request[a].phase = "boot"
IsSent(a) == request' = [request EXCEPT ![a].phase = "sent"]

\* A read, or a change: the snapshot is taken, then sessions are listed.
Capture(a) ==
  /\ a \in Reads \cup Edits /\ Sent(a) /\ IsSent(a)
  /\ mem' = IF a \in Edits THEN [mem EXCEPT ![a] = "done"] ELSE mem
  /\ held' = [x \in DOMAIN held \cup {a} |-> IF x = a THEN mem' ELSE held[x]]
  /\ UNCHANGED <<disk, host, seeded, recovery, import, view, run, out, histories>>

Answer(a) ==
  /\ a \in DOMAIN held
  /\ held' = [x \in DOMAIN held \ {a} |-> held[x]]
  /\ UNCHANGED mem
  /\ Say([Frame("response", a, request[a].try, TRUE) EXCEPT !.data = held[a]])
  /\ UNCHANGED <<disk, host, seeded, recovery, import, request, view, run, histories>>

\* invokeTool
Invoke(a) ==
  /\ a \in Tools /\ Sent(a) /\ IsSent(a)
  /\ mem' = [mem EXCEPT ![a] = "done"]
  /\ Say(Frame("response", a, request[a].try, TRUE))
  /\ UNCHANGED <<disk, host, seeded, recovery, import, view, held, run, histories>>

\* chatRun: a retry joins the run in flight, a completed run is acknowledged, a
\* pending one refused, and a new one recorded before anything is paid for.
Admit(r) ==
  /\ r \in Runs /\ Sent(r) /\ IsSent(r)
  /\ mem' = IF run[r] = NoRun /\ mem[r] = "none" THEN [mem EXCEPT ![r] = "pending"] ELSE mem
  /\ LET try == request[r].try IN
     IF run[r] # NoRun THEN run' = [run EXCEPT ![r].for = try] /\ UNCHANGED out
     ELSE IF mem[r] # "none"
       THEN /\ Say(Frame(IF mem[r] = "done" THEN "end" ELSE "refused", r, try, mem[r] = "done"))
            /\ UNCHANGED run
     ELSE /\ run' = [run EXCEPT ![r] = [phase |-> "admitting", try |-> try, for |-> try]]
          /\ Say(Frame("checkpoint", r, try, TRUE))
  /\ UNCHANGED <<disk, host, seeded, recovery, import, view, held, histories>>

\* Pi has written the user message, and asks the model.
Prompt(r) ==
  /\ run[r].phase = "prompting"
  /\ run' = [run EXCEPT ![r].phase = "running"]
  /\ paid' = [paid EXCEPT ![r] = @ + 1]
  /\ UNCHANGED <<disk, host, seeded, recovery, import, request, view, mem, held, out,
                 spoiled, faults>>

\* acceptAction, and its checkpoint.
Accept(r) ==
  /\ run[r].phase = "running"
  /\ run' = [run EXCEPT ![r].phase = "accepting"]
  /\ mem' = [mem EXCEPT ![r] = "done"]
  /\ Say(Frame("checkpoint", r, run[r].try, TRUE))
  /\ UNCHANGED <<disk, host, seeded, recovery, import, request, view, held, histories>>

\* Mutant: a failed run is cleared, paid or not.
Cleared(r) == IF run[r].phase = "accepting" THEN {mem[r]} ELSE {"none"}

\* What the failed run leaves: an unpaid run may be retried, a paid one is
\* accepted, and one that cannot be inspected stays pending.
Left(r) ==
  CASE run[r].phase = "admitting" -> {"none"}
    [] run[r].phase = "prompting" -> {"none", "pending"}
    [] run[r].phase = "running" -> {"done", "pending"}
    [] OTHER -> {mem[r]}

\* The error path of executeChatRun, up to its last checkpoint.
Failing(r) ==
  /\ \E left \in Left(r) : mem' = [mem EXCEPT ![r] = left]
  /\ run' = [run EXCEPT ![r].phase = "failing"]
  /\ Say(Frame("checkpoint", r, run[r].try, TRUE))

\* run.failed goes to the request that started it; one that joined is refused.
EndsFailed(r) ==
  /\ run' = [run EXCEPT ![r] = NoRun]
  /\ UNCHANGED mem
  /\ Say(Frame(IF run[r].for = run[r].try THEN "end" ELSE "refused", r, run[r].for, FALSE))

Unsuccessful(r) == IF run[r].phase = "failing" THEN EndsFailed(r) ELSE Failing(r)

RunFails(r) ==
  /\ run[r].phase \in {"prompting", "running"}
  /\ Fault("failure")
  /\ Failing(r)
  /\ UNCHANGED <<disk, host, seeded, recovery, import, request, view, held, paid, spoiled>>

\* Nobody acknowledges a checkpoint: the host has given the request up.
AckTimesOut(r) ==
  /\ run[r].phase \in {"admitting", "accepting", "failing"}
  /\ ~(request[r].phase \in {"sent", "cancelled"} /\ request[r].try = run[r].try)
  /\ Unsuccessful(r)
  /\ UNCHANGED <<disk, host, seeded, recovery, import, request, view, held, histories>>

-----------------------------------------------------------------------------
(* The host. *)

Waits(a, try) == request[a].phase \in {"sent", "cancelled"} /\ request[a].try = try

Enqueue(frame) == queue' = Append(queue, frame)

Newest == IF queue # <<>> THEN Last(queue).data ELSE archive.data

\* What the newest snapshot says of an action and this one does not.
Older(a, data) ==
  \/ Newest[a] = "done" /\ data[a] # "done"
  \/ Newest[a] = "pending" /\ data[a] = "none"

\* Mutant: every snapshot is saved.
PersistsAll(a) == TRUE

\* Only changes are saved, and the first read of a new archive.
Persists(a) == a \notin Reads \/ ~seeded

\* handleRuntimeMessage
Receive ==
  /\ out # <<>> /\ out' = Tail(out)
  /\ LET f == Head(out)
         a == f.action IN
     /\ IF ~Waits(a, f.try) THEN UNCHANGED <<queue, request, view, spoiled>>
        ELSE IF f.type = "checkpoint" THEN Enqueue(f) /\ UNCHANGED <<request, view, spoiled>>
        ELSE IF f.type = "response"
          THEN /\ IF Persists(a) THEN Enqueue(f) ELSE UNCHANGED queue
               /\ request' = [request EXCEPT ![a].phase = IF Persists(a) THEN "saving" ELSE "none"]
               /\ view' = [view EXCEPT ![a] = IF Persists(a) THEN @ ELSE "ok"]
               /\ spoiled' = IF a \in Edits \/ ~seeded
                              THEN spoiled \cup {x \in Saved : Older(x, f.data)} ELSE spoiled
        ELSE /\ request' = [request EXCEPT ![a].phase =
                  IF f.ok /\ @ = "sent" THEN "ending" ELSE "none"]
             /\ view' = [view EXCEPT ![a] =
                  IF f.ok \/ @ # "waiting" THEN @ ELSE IF f.type = "end" THEN "over" ELSE "failed"]
             /\ UNCHANGED <<queue, spoiled>>
  /\ UNCHANGED <<archive, backup, host, seeded, recovery, import, mem, held, run, paid, faults>>

\* finishStreamRequest: a bootstrap, then the completion is shown.
EndStream(r) ==
  /\ host = "ready" /\ request[r].phase = "ending"
  /\ request' = [request EXCEPT ![r].phase = "none"]
  /\ view' = [view EXCEPT ![r] = "ok"]
  /\ UNCHANGED <<disk, host, seeded, recovery, import, process, histories>>

\* The answer to a checkpoint: none when the request is over.
Acknowledge(r, try, ok) ==
  IF ~(Waits(r, try) /\ run[r].try = try) THEN UNCHANGED <<mem, run, out>>
  ELSE IF ~ok THEN Unsuccessful(r)
  ELSE CASE run[r].phase = "admitting" ->
              run' = [run EXCEPT ![r].phase = "prompting"] /\ UNCHANGED <<mem, out>>
         [] run[r].phase = "accepting" ->
              /\ run' = [run EXCEPT ![r] = NoRun] /\ UNCHANGED mem
              /\ Say(Frame("end", r, run[r].for, TRUE))
         [] run[r].phase = "failing" -> EndsFailed(r)
         [] OTHER -> UNCHANGED <<mem, run, out>>

\* persistCheckpoint: the archive, and after an import the backup, is replaced.
Write ==
  /\ queue # <<>> /\ queue' = Tail(queue)
  /\ archive' = [data |-> Head(queue).data, state |-> "good"]
  /\ backup' = IF recovery THEN archive' ELSE backup
  /\ recovery' = FALSE /\ seeded' = TRUE
  /\ LET a == Head(queue).action IN
     IF Head(queue).type = "checkpoint"
       THEN Acknowledge(a, Head(queue).try, TRUE) /\ UNCHANGED <<request, view>>
       ELSE /\ request' = [request EXCEPT ![a].phase = "none"]
            /\ view' = [view EXCEPT ![a] = "ok"]
            /\ UNCHANGED <<mem, run, out>>
  /\ UNCHANGED <<host, import, held, histories>>

WriteFails ==
  /\ queue # <<>> /\ queue' = Tail(queue)
  /\ Fault("failure")
  /\ LET a == Head(queue).action IN
     IF Head(queue).type = "checkpoint"
       THEN Acknowledge(a, Head(queue).try, FALSE) /\ UNCHANGED <<request, view>>
       ELSE /\ request' = [request EXCEPT ![a].phase = "none"]
            /\ view' = [view EXCEPT ![a] = "failed"]
            /\ UNCHANGED <<mem, run, out>>
  /\ UNCHANGED <<archive, backup, host, seeded, recovery, import, held, paid, spoiled>>

\* The process is told to cancel: a run fails, whatever it waits for.
Cancelled(a) ==
  IF a \in Runs /\ run[a].phase # "none" /\ run[a].try = request[a].try
    THEN Unsuccessful(a) ELSE UNCHANGED <<mem, run, out>>

\* No answer, or no event of the stream, in time.
TimesOut(a) ==
  /\ request[a].phase \in {"sent", "cancelled"}
  /\ Fault("timeout")
  /\ request' = [request EXCEPT ![a].phase = "none"]
  /\ view' = [view EXCEPT ![a] = IF @ = "waiting" THEN "failed" ELSE @]
  /\ Cancelled(a)
  /\ UNCHANGED <<disk, host, seeded, recovery, import, held, paid, spoiled>>

\* The user stops a run: its request stays until the run has settled.
Stop(r) ==
  /\ request[r].phase = "sent"
  /\ request' = [request EXCEPT ![r].phase = "cancelled"]
  /\ view' = [view EXCEPT ![r] = "over"]
  /\ Cancelled(r)
  /\ UNCHANGED <<disk, host, seeded, recovery, import, held, histories>>

-----------------------------------------------------------------------------
(* hosted.data.import *)

\* A validated archive, which a process may still be unable to open.  The
\* runtime stops, and what is queued is written before the import is.
Import(state) ==
  /\ import = "no" /\ queue = <<>>
  /\ Fault("import")
  /\ RejectAll /\ ProcessEnds
  /\ backup' = IF archive.state = "none" THEN backup ELSE archive
  /\ archive' = [data |-> Nothing, state |-> state]
  /\ recovery' = TRUE /\ import' = "stored"
  /\ UNCHANGED <<queue, seeded, paid, spoiled>>

\* Its first bootstrap has arrived: from now on this is the user's data.
Imported ==
  /\ import = "booted" /\ host = "ready"
  /\ import' = "no"
  /\ view' = [a \in Actions |-> IF view[a] \in {"ok", "failed"} THEN "over" ELSE view[a]]
  /\ UNCHANGED <<disk, host, seeded, recovery, request, process, histories>>

-----------------------------------------------------------------------------
ProcessStep ==
  \/ \E a \in Actions : Capture(a) \/ Answer(a) \/ Invoke(a) \/ Admit(a)
  \/ \E r \in Runs : Prompt(r) \/ Accept(r) \/ AckTimesOut(r)

HostStep == StartBoot \/ Ready \/ Receive \/ \E r \in Runs : EndStream(r)

Next ==
  \/ ProcessStep \/ HostStep \/ Write \/ Imported
  \/ \E a \in Actions : Ask(a) \/ TimesOut(a)
  \/ \E r \in Runs : RunFails(r) \/ Stop(r)
  \/ BootFails \/ StopOrExit \/ Reload \/ WriteFails
  \/ \E state \in {"good", "bad"} : Import(state)

\* The process and the host go on, writes end, a boot ends one way or the other.
Fairness ==
  WF_vars(ProcessStep) /\ WF_vars(HostStep) /\ WF_vars(Write \/ BootFails) /\ WF_vars(Imported)

Spec == Init /\ [][Next]_vars /\ Fairness

-----------------------------------------------------------------------------
(* Properties. *)

\* A change whose user was told it is done is in the archive, whatever stops,
\* fails or is imported after it, unless the answer to another one was on its
\* way since before it and wrote over it, or the page was reloaded in the
\* middle of an import.
ChangesAreSaved ==
  \A a \in (Tools \cup Edits) \ spoiled : view[a] = "ok" =>
    (IF import = "no" THEN archive ELSE backup).data[a] = "done"

\* A run that goes to the model a second time under its id, whatever stopped,
\* failed or timed out and wherever the page was closed, is one whose marker
\* the late answer to an edit, or to the first read, has written over, or the
\* reload in the middle of an import.  Then the code does pay twice (PaidAtMostOnce).
PaidOnce == \A r \in Runs : paid[r] > 1 => r \in spoiled

\* browser-hosted-gui-runtime.ts:404, "OpenCandle will not replay paid work
\* automatically".  A snapshot of before the run was recorded may be written after
\* it (1028): the archive has lost the marker when the run is sent again.
PaidAtMostOnce == \A r \in Runs : paid[r] <= 1

\* Whatever is asked is answered or reported as failed: once the users stop
\* asking (MaxAsks), nobody waits for ever.
RequestsEnd == []<>(\A a \in Actions : view[a] # "waiting")

\* openspec/specs/browser-persistence/spec.md:50, "The hosted runtime SHALL
\* report a Pi entry or state mutation as durable only after the matching
\* runtime bytes have been checkpointed to OPFS".
CompletionIsSaved ==
  \A r \in Runs : view[r] = "ok" => archive.data[r] = "done"
=============================================================================
