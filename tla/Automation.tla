----------------------------- MODULE Automation -----------------------------
(***************************************************************************)
(* The heartbeat of the local automations around the alert check           *)
(* (src/src/market-state/local-automation-service.ts): the scheduled daily *)
(* report, which a heartbeat claims by moving next_run_at and gives back   *)
(* when it fails; the records of check runs, marked lost when nobody       *)
(* closes them; and the delivery of notifications to a webhook             *)
(* (notification-delivery.ts).  The alert check itself is Alerts: here it  *)
(* is a wait that may record one notification.                             *)
(*                                                                         *)
(* Slots are the times at which the report is due, one every Day ticks.    *)
(* A step ends at a wait: what a process does between two waits is one     *)
(* action, but for the claim, which another process may come before.       *)
(***************************************************************************)
EXTENDS RunnerLease, Sequences, SequencesExt

CONSTANTS
  Day,         \* ticks between two slots
  Grace,       \* ticks after which a running check is lost
  MaxPerCall,  \* attempts of one delivery call (5 in the code)
  Poison,      \* notifications the receiver rejects every time
  MaxCheckRuns, MaxFailures, MaxManual, MaxRestarts \* bounds of the model

ASSUME AutomationAssumption ==
  /\ {Grace, MaxCheckRuns, MaxFailures, MaxManual, MaxRestarts} \subseteq Nat
  /\ {Day, MaxPerCall} \subseteq Nat \ {0}
  /\ Poison \subseteq Nat

VARIABLES
  nextRun,   \* report_templates.next_run_at, None before it is configured
  reports,   \* report_runs of slots: the slot and how it ended
  checks,    \* alert_check_runs
  notes,     \* notification_events, in the order of their ids
  delivered, \* notifications with a successful attempt
  tried,     \* those with failed attempts only, by their last attempt
  duty,      \* what each process is doing
  manual, failures, restarts  \* how often they happened

sent == <<delivered, tried>>
automationVars ==
  <<now, lease, nextRun, reports, checks, notes, sent, duty, manual, failures, restarts>>

\* No more notifications than this are made.
MaxNotes == MaxNow \div Day + 1 + MaxFailures + MaxCheckRuns + MaxManual

NoDuty == [pc |-> "idle", at |-> 0, slot |-> None, run |-> 0, queue |-> <<>>]

Note(kind, slot) == [kind |-> kind, slot |-> slot]

Running == {k \in DOMAIN checks : checks[k].status = "running"}

AutomationTypeOK ==
  /\ LeaseTypeOK
  /\ nextRun \in Nat \cup {None}
  /\ \A r \in reports : r.slot \in Times /\ r.status \in {"completed", "failed"}
  /\ \A k \in DOMAIN checks :
       /\ checks[k].status \in {"running", "completed", "failed", "lost"}
       /\ checks[k].started \in Times
  /\ \A n \in DOMAIN notes :
       /\ notes[n].kind \in {"report", "failure", "alert"}
       /\ notes[n].slot \in Times \cup {None}
  /\ Len(notes) <= MaxNotes
  /\ delivered \subseteq DOMAIN notes
  /\ ToSet(tried) \subseteq DOMAIN notes \ delivered
  /\ \A p \in Runners :
       /\ duty[p].pc \in {"idle", "listed", "report", "checking", "posting"}
       /\ duty[p].at \in Times /\ duty[p].slot \in Times \cup {None}
       /\ duty[p].run \in 0 .. Len(checks)
       /\ ToSet(duty[p].queue) \subseteq DOMAIN notes

AutomationInit ==
  /\ now = 0 /\ lease = NoLease
  /\ nextRun \in {None, 0}
  /\ reports = {} /\ checks = <<>> /\ notes = <<>>
  /\ delivered = {} /\ tried = <<>>
  /\ duty = [p \in Runners |-> NoDuty]
  /\ manual = 0 /\ failures = 0 /\ restarts = 0

-----------------------------------------------------------------------------
(* What follows the due reports: the check, then the deliveries. *)

\* Mutant: the oldest notifications first, whatever came of their attempts.
OldestFirst(ns) == SelectSeq([n \in DOMAIN ns |-> n], LAMBDA n : n \notin delivered)

\* Never attempted first, then by the last attempt.
Pending(ns) ==
  SelectSeq([n \in DOMAIN ns |-> n], LAMBDA n : n \notin delivered \cup ToSet(tried))
    \o tried

\* The pending notifications are read once, and some of them taken up.
BeginDelivery(p, ns) ==
  duty' = [duty EXCEPT ![p] =
    [NoDuty EXCEPT !.pc = "posting",
       !.queue = SubSeq(Pending(ns), 1,
                   IF Len(Pending(ns)) < MaxPerCall THEN Len(Pending(ns)) ELSE MaxPerCall)]]

OpenCheckRun(p, at) ==
  /\ Len(checks) < MaxCheckRuns
  /\ checks' = Append(checks, [status |-> "running", started |-> at])
  /\ duty' = [duty EXCEPT ![p] =
               [NoDuty EXCEPT !.pc = "checking", !.run = Len(checks) + 1]]

\* Some alert is due, or none is.
Proceed(p, ns) ==
  \/ OpenCheckRun(p, duty[p].at)
  \/ BeginDelivery(p, ns) /\ UNCHANGED checks

-----------------------------------------------------------------------------
(* The heartbeat and its report. *)

\* Mutant: nothing is ever marked.
NeverStale == checks

\* markStaleAutomationRunsLost
MarkStale ==
  [k \in DOMAIN checks |->
     IF k \in Running /\ checks[k].started < now - Grace
       THEN [checks[k] EXCEPT !.status = "lost"] ELSE checks[k]]

\* nextDailyReportRunAt
NextSlot(t) == (t \div Day + 1) * Day

\* runLocalAutomationHeartbeat up to the list of the due reports.
Heartbeat(p) ==
  /\ duty[p].pc = "idle"
  /\ checks' = MarkStale
  /\ AcquireLease(p)
  /\ duty' = [duty EXCEPT ![p] =
       [NoDuty EXCEPT !.pc = "listed", !.at = now,
          !.slot = IF nextRun # None /\ nextRun <= now THEN nextRun ELSE None]]
  /\ UNCHANGED <<now, nextRun, reports, notes, sent, manual, failures, restarts>>

\* Somebody else holds the lease: stale runs are marked all the same.
StandBy(p) ==
  /\ duty[p].pc = "idle" /\ HeldByOther(p)
  /\ checks' = MarkStale
  /\ UNCHANGED <<now, lease, nextRun, reports, notes, sent, duty, manual, failures, restarts>>

\* Mutant: the claim moves next_run_at on without comparing it.
ClaimsAnyway(p) == duty[p].slot # None

\* The WHERE of claimDueReportTemplateRun: whoever moves next_run_at on has
\* the slot.
Claims(p) == duty[p].slot # None /\ nextRun = duty[p].slot

Claim(p) ==
  /\ duty[p].pc = "listed" /\ Claims(p)
  /\ nextRun' = NextSlot(duty[p].at)
  /\ duty' = [duty EXCEPT ![p].pc = "report"]
  /\ UNCHANGED <<now, lease, reports, checks, notes, sent, manual, failures, restarts>>

\* No report is due, or another process claimed it.
NothingToReport(p) ==
  /\ duty[p].pc = "listed" /\ ~Claims(p)
  /\ Proceed(p, notes)
  /\ UNCHANGED <<now, lease, nextRun, reports, notes, sent, manual, failures, restarts>>

\* recordDailyWatchlistReportRun: the run, then its notification.
ReportDone(p) ==
  /\ duty[p].pc = "report" /\ duty[p].slot # None
  /\ reports' = reports \cup {[slot |-> duty[p].slot, status |-> "completed"]}
  /\ notes' = Append(notes, Note("report", duty[p].slot))
  /\ Proceed(p, notes')
  /\ UNCHANGED <<now, lease, nextRun, sent, manual, failures, restarts>>

\* Mutant: the slot of a failed report is not given back.
KeepsTheClaim(p) == nextRun

GivesBack(p) == duty[p].slot

\* Generating the report threw, or writing its notification after the run was
\* written: a failed run and its notification, and the slot is due again.
ReportFailed(p) ==
  /\ duty[p].pc = "report" /\ duty[p].slot # None /\ failures < MaxFailures
  /\ \E ended \in {{"failed"}, {"completed", "failed"}} :
       reports' = reports \cup {[slot |-> duty[p].slot, status |-> s] : s \in ended}
  /\ notes' = Append(notes, Note("failure", duty[p].slot))
  /\ nextRun' = GivesBack(p)
  /\ failures' = failures + 1
  /\ Proceed(p, notes')
  /\ UNCHANGED <<now, lease, sent, manual, restarts>>

-----------------------------------------------------------------------------
(* The check of the alerts, as its run record sees it. *)

\* completeAlertCheckRun writes its status whatever the run's status is now.
Close(p, status) == checks' = [checks EXCEPT ![duty[p].run].status = status]

CheckDone(p) ==
  /\ duty[p].pc = "checking"
  /\ Close(p, "completed")
  /\ notes' \in {notes, Append(notes, Note("alert", None))}
  /\ BeginDelivery(p, notes')
  /\ UNCHANGED <<now, lease, nextRun, reports, sent, manual, failures, restarts>>

EndHeartbeat(p) ==
  /\ duty' = [duty EXCEPT ![p] = NoDuty]
  /\ KeepOrReleaseLease(p)

\* A rule deleted meanwhile makes the check throw, and the heartbeat with it.
CheckFailed(p) ==
  /\ duty[p].pc = "checking"
  /\ Close(p, "failed")
  /\ EndHeartbeat(p)
  /\ UNCHANGED <<now, nextRun, reports, notes, sent, manual, failures, restarts>>

-----------------------------------------------------------------------------
(* Deliveries. *)

\* Mutant: a success leaves the earlier failures in charge of the order.
KeepTried(n) == tried

Untried(n) == Remove(tried, n)

\* The receiver answers with success.
PostAccepted(p) ==
  /\ duty[p].pc = "posting" /\ duty[p].queue # <<>>
  /\ LET n == Head(duty[p].queue) IN
       /\ n \notin Poison
       /\ delivered' = delivered \cup {n}
       /\ tried' = Untried(n)
  /\ duty' = [duty EXCEPT ![p].queue = Tail(@)]
  /\ UNCHANGED <<now, lease, nextRun, reports, checks, notes, manual, failures, restarts>>

\* It rejects, or answers late: always what it does not take, and a bounded
\* number of times anything else.
PostFailed(p) ==
  /\ duty[p].pc = "posting" /\ duty[p].queue # <<>>
  /\ LET n == Head(duty[p].queue) IN
       /\ n \notin Poison => failures < MaxFailures
       /\ failures' = IF n \in Poison THEN failures ELSE failures + 1
       /\ tried' = IF n \in delivered THEN tried ELSE Append(Untried(n), n)
  /\ duty' = [duty EXCEPT ![p].queue = Tail(@)]
  /\ UNCHANGED <<now, lease, nextRun, reports, checks, notes, delivered, manual, restarts>>

Delivered(p) ==
  /\ duty[p].pc = "posting" /\ duty[p].queue = <<>>
  /\ EndHeartbeat(p)
  /\ UNCHANGED <<now, nextRun, reports, checks, notes, sent, manual, failures, restarts>>

-----------------------------------------------------------------------------
(* The tools, in the process of a runner, without the lease. *)

BeginManual(p) ==
  /\ duty[p].pc = "idle" /\ p \notin Monitors /\ manual < MaxManual
  /\ manual' = manual + 1

\* The alerts tool's "check".
CheckByTool(p) ==
  /\ BeginManual(p)
  /\ OpenCheckRun(p, now)
  /\ UNCHANGED <<now, lease, nextRun, reports, notes, sent, failures, restarts>>

\* The report tool's "run": its report belongs to no slot.
ReportByTool(p) ==
  /\ BeginManual(p)
  /\ duty' = [duty EXCEPT ![p].pc = "report"]
  /\ UNCHANGED <<now, lease, nextRun, reports, checks, notes, sent, failures, restarts>>

ReportByToolDone(p) ==
  /\ duty[p].pc = "report" /\ duty[p].slot = None
  /\ notes' = Append(notes, Note("report", None))
  /\ BeginDelivery(p, notes')
  /\ UNCHANGED <<now, lease, nextRun, reports, checks, sent, manual, failures, restarts>>

\* Its "configure" schedules the next slot.
Configure ==
  /\ manual < MaxManual
  /\ manual' = manual + 1
  /\ nextRun' = NextSlot(now)
  /\ UNCHANGED <<now, lease, reports, checks, notes, sent, duty, failures, restarts>>

\* The process ends and a new one takes its place.
RestartRunner(p) ==
  /\ duty[p] # NoDuty /\ restarts < MaxRestarts
  /\ restarts' = restarts + 1
  /\ EndHeartbeat(p)
  /\ UNCHANGED <<now, nextRun, reports, checks, notes, sent, manual, failures>>

TimePasses ==
  /\ now < MaxNow
  /\ now' = now + 1
  /\ UNCHANGED <<lease, nextRun, reports, checks, notes, sent, duty, manual, failures, restarts>>

RunnerStep(p) ==
  \/ Heartbeat(p) \/ StandBy(p) \/ Claim(p) \/ NothingToReport(p)
  \/ ReportDone(p) \/ ReportFailed(p)
  \/ CheckDone(p) \/ CheckFailed(p)
  \/ PostAccepted(p) \/ PostFailed(p) \/ Delivered(p) \/ ReportByToolDone(p)

AutomationNext ==
  \/ \E p \in Runners :
       RunnerStep(p) \/ CheckByTool(p) \/ ReportByTool(p) \/ RestartRunner(p)
  \/ Configure
  \/ TimePasses

\* Timers fire, waits end, the clock goes on.
Fairness ==
  /\ WF_automationVars(TimePasses)
  /\ \A p \in Runners : WF_automationVars(RunnerStep(p))

AutomationSpec == AutomationInit /\ [][AutomationNext]_automationVars /\ Fairness

-----------------------------------------------------------------------------
(* Properties. *)

\* The user is told of at most one report of a slot, though both of two runners
\* found it due and it failed before.  (A third runner, held up between listing
\* and claiming, could claim again a slot that was given back.)
OneReportPerSlot ==
  \A m, n \in DOMAIN notes :
    /\ notes[m].kind = "report" /\ notes[n] = notes[m] /\ notes[m].slot # None
    => m = n

\* A slot that is due is reported, however often that fails, unless the user
\* schedules the report anew or a process ends (next_run_at is all that
\* remembers the slot).
DueReportIsMade ==
  (nextRun = 0) ~>
    \/ [slot |-> 0, status |-> "completed"] \in reports
    \/ manual > 0 \/ restarts > 0

\* A check whose process is gone does not look running for ever.
RunsAreNotRunningForEver ==
  []<>(\A k \in Running : checks[k].started >= MaxNow - Grace)

\* Every notification is delivered in the end, although the receiver rejects
\* others every time and a call attempts only some of those pending.
NotificationsAreDelivered == []<>(DOMAIN notes \ Poison \subseteq delivered)
=============================================================================
