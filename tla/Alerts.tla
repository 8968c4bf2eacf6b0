------------------------------- MODULE Alerts -------------------------------
(***************************************************************************)
(* Alert rules and the checks that evaluate them: the rows of SQLite       *)
(* (src/src/market-state/service.ts), the check itself (alert-runner.ts),  *)
(* the lease under which the GUI writer and the monitor run it             *)
(* (local-automation-service.ts, gui/server/automation-heartbeat.ts,       *)
(* src/src/monitor.ts), and the alerts tool, which edits rules and checks  *)
(* them on request (src/src/tools/portfolio/alerts.ts).                    *)
(*                                                                         *)
(* A check reads the rules once, waits for the providers, and then records *)
(* one rule per transaction from what it read: between its transactions    *)
(* the user edits rules and other processes run checks of their own.       *)
(* Deviations from the code are named in the README.                       *)
(***************************************************************************)
EXTENDS RunnerLease, FiniteSets, FiniteSetsExt, Functions

CONSTANTS
  Rules,         \* rule ids, in creation order
  HistoryRules,  \* rules on an indicator: observed when they are recorded
  InitRules,     \* rules stored before the model starts, last observed
  InitSeen,      \*   with this value, on the false side of the threshold
  Checkers,      \* calls of the alerts tool's "check"
  Values,        \* observations of a provider
  Threshold,     \* the threshold of every rule
  Cooldown, BucketTicks,  \* in ticks of the clock
  MaxChecks, MaxEdits     \* bounds of the model

ASSUME AlertsAssumption ==
  /\ Rules \subseteq Nat /\ {HistoryRules, InitRules} \subseteq SUBSET Rules
  /\ Values \subseteq Int /\ Threshold \in Int
  /\ InitSeen \in Values /\ InitSeen < Threshold
  /\ {Cooldown, MaxChecks, MaxEdits} \subseteq Nat
  /\ BucketTicks \in Nat \ {0}

VARIABLES
  rule,    \* alert_rules
  fired,   \* the triggered rows of alert_events, with the row's arming
  started, \* checks started so far
  job,     \* what each process is doing
  edits    \* edits made so far

vars == <<now, rule, fired, lease, started, job, edits>>

Procs == Runners \cup Checkers
Directions == {"above", "below"}
Observed == Values \cup {None}

Row == [exists : BOOLEAN, enabled : BOOLEAN, once : BOOLEAN, status : {"active", "completed"},
        dir : Directions, prev : Observed, state : {"unknown", "true", "false"},
        rev : Nat, arm : Nat, last : Times \cup {None}]

\* retrigger_mode "once" or "recurring"
NewRow(dir, once) ==
  [exists |-> TRUE, enabled |-> TRUE, once |-> once, status |-> "active", dir |-> dir,
   prev |-> None, state |-> "unknown", rev |-> 1, arm |-> 1, last |-> None]

\* A rule not created yet.
NoRow == [NewRow("above", FALSE) EXCEPT !.exists = FALSE, !.rev = 0]

StoredRow(once) == [NewRow("above", once) EXCEPT !.prev = InitSeen, !.state = "false"]

IdleJob == [pc |-> "idle", at |-> 0, kind |-> "manual", snap |-> <<>>,
            obs |-> <<>>, seen |-> 0]

-----------------------------------------------------------------------------
(* The condition of a rule. *)

ConditionIsTrue(dir, v) == IF dir = "above" THEN v > Threshold ELSE v < Threshold

Crosses(dir, prev, v) ==
  /\ ConditionIsTrue(dir, v)
  /\ IF dir = "above" THEN prev <= Threshold ELSE prev >= Threshold

OutsideCooldown(row, t) == row.last = None \/ t - row.last >= Cooldown

IsOn(row) == row.exists /\ row.enabled /\ row.status = "active"

OnRules == {r \in Rules : IsOn(rule[r])}

\* Mutant: a key without the arming.
DedupeKeyWithoutArming(r, row, kind, bucket, v) == <<r, row.rev, kind, bucket, v>>

DedupeKey(r, row, kind, bucket, v) == <<r, row.rev, row.arm, kind, bucket, v>>

Set(p, j) == job' = [job EXCEPT ![p] = j]

EndBeat(p) == Set(p, IdleJob) /\ KeepOrReleaseLease(p)

-----------------------------------------------------------------------------
TypeOK ==
  /\ LeaseTypeOK
  /\ DOMAIN rule = Rules /\ \A r \in Rules : rule[r] \in Row
  /\ \A e \in fired : e.rule \in Rules /\ e.arm \in Nat /\ e.rev \in Nat /\ e.at \in Times
  /\ started \in 0 .. MaxChecks
  /\ DOMAIN job = Procs
  /\ \A p \in Procs :
       /\ job[p].pc \in {"idle", "reports", "quotes", "recording"}
       /\ job[p].kind \in {"manual", "heartbeat", "resume"}
       /\ job[p].at \in Times /\ job[p].seen \in Nat
       /\ DOMAIN job[p].snap \subseteq Rules
       /\ \A r \in DOMAIN job[p].snap : job[p].snap[r] \in Row
       /\ \A r \in DOMAIN job[p].obs : job[p].obs[r] \in Observed
  /\ edits \in 0 .. MaxEdits

Init ==
  /\ now = 0
  /\ \E once \in [InitRules -> BOOLEAN] :
       rule = [r \in Rules |-> IF r \in InitRules THEN StoredRow(once[r]) ELSE NoRow]
  /\ fired = {}
  /\ lease = NoLease
  /\ started = 0
  /\ job = [p \in Procs |-> IdleJob]
  /\ edits = 0

-----------------------------------------------------------------------------
(* The heartbeat; its reports, deliveries and run records are Automation's. *)

\* runLocalAutomationHeartbeat up to its first wait.  A check that follows is a
\* resume unless somebody held a current lease just before.
Beat(p) ==
  /\ p \in Runners /\ job[p].pc = "idle"
  /\ AcquireLease(p)
  /\ Set(p, [IdleJob EXCEPT !.pc = "reports", !.at = now,
               !.kind = IF LeaseIsCurrent THEN "heartbeat" ELSE "resume"])
  /\ UNCHANGED <<now, rule, fired, started, edits>>

\* startAlertCheckRun and the one read of the rules, after the due reports.
StartCheck(p, at, kind) ==
  /\ OnRules # {} /\ started < MaxChecks
  /\ started' = started + 1
  /\ Set(p, [IdleJob EXCEPT !.pc = "quotes", !.at = at, !.kind = kind,
               !.snap = [r \in OnRules |-> rule[r]]])

BeginCheck(p) ==
  /\ job[p].pc = "reports"
  /\ StartCheck(p, job[p].at, job[p].kind)
  /\ UNCHANGED <<now, rule, fired, lease, edits>>

\* No rule is on (or the bound on checks is reached): the heartbeat ends.
NothingDue(p) ==
  /\ job[p].pc = "reports"
  /\ OnRules = {} \/ started = MaxChecks
  /\ EndBeat(p)
  /\ UNCHANGED <<now, rule, fired, started, edits>>

\* The alerts tool's "check" asks nobody for the lease.
ManualCheck(p) ==
  /\ p \in Checkers /\ job[p].pc = "idle"
  /\ StartCheck(p, now, "manual")
  /\ UNCHANGED <<now, rule, fired, lease, edits>>

-----------------------------------------------------------------------------
(* The check: what is left of the rules it read, in their order. *)

Todo(p) == DOMAIN job[p].snap

NextRule(p) == Min(Todo(p))

\* The quotes of all price rules arrive, or fail to.
LoadQuotes(p) ==
  /\ job[p].pc = "quotes"
  /\ \E o \in [Todo(p) \ HistoryRules -> Observed] :
       Set(p, [job[p] EXCEPT !.pc = "recording", !.obs = o,
                 !.seen = now \div BucketTicks])
  /\ UNCHANGED <<now, rule, fired, lease, started, edits>>

ObservationsOf(p, r) == IF r \in HistoryRules THEN Observed ELSE {job[p].obs[r]}

\* The minute of the observation: a quote's is the one it was fetched in.
SeenIn(p, r) == IF r \in HistoryRules THEN job[p].at \div BucketTicks ELSE job[p].seen

Recorded(p) ==
  LET left == Todo(p) \ {NextRule(p)} IN
  [job[p] EXCEPT !.snap = Restrict(@, left), !.obs = Restrict(@, left \ HistoryRules)]

\* What the check concludes from the row it read at its start.
WantsTrigger(p, r, v) ==
  LET read == job[p].snap[r] IN
  /\ read.prev # None
  /\ Crosses(read.dir, read.prev, v)
  /\ OutsideCooldown(read, job[p].at)

KeyOf(p, r, v) == DedupeKey(r, job[p].snap[r], job[p].kind, SeenIn(p, r), v)

Inserts(p, r, v) ==
  WantsTrigger(p, r, v) /\ \A e \in fired : e.key # KeyOf(p, r, v)

\* Mutants: an insert that does not look at the condition state, and one that
\* does not look at whether the rule is still on.
TriggersAgain(p, r, v) == Inserts(p, r, v) /\ IsOn(rule[r])

TriggersWhenOff(p, r, v) == Inserts(p, r, v) /\ rule[r].state # "true"

\* INSERT OR IGNORE, on a row that is still on and not already true.
Triggers(p, r, v) ==
  Inserts(p, r, v) /\ IsOn(rule[r]) /\ rule[r].state # "true"

\* Mutant: the time of the check in the place of the observation.
CheckedSwapped(p, r, v) == [rule[r] EXCEPT !.prev = job[p].at, !.last = v]

\* recordAlertEvaluationResult's UPDATE of the row.
Checked(p, r, v) ==
  LET cond == IF ConditionIsTrue(job[p].snap[r].dir, v) THEN "true" ELSE "false" IN
  [rule[r] EXCEPT !.prev = v, !.state = cond,
     !.arm = IF cond = "false" /\ rule[r].state = "true" THEN @ + 1 ELSE @,
     !.last = IF Triggers(p, r, v) THEN job[p].at ELSE @]

Evaluated(p, r, v) ==
  IF Triggers(p, r, v) /\ rule[r].once
    THEN [Checked(p, r, v) EXCEPT !.enabled = FALSE, !.status = "completed"]
    ELSE Checked(p, r, v)

Evaluate(p) ==
  /\ job[p].pc = "recording" /\ Todo(p) # {}
  /\ LET r == NextRule(p) IN
       /\ rule[r].exists
       /\ \E v \in ObservationsOf(p, r) \ {None} :
            /\ rule' = [rule EXCEPT ![r] = Evaluated(p, r, v)]
            /\ fired' = IF Triggers(p, r, v)
                 THEN fired \cup {[rule |-> r, arm |-> rule[r].arm, rev |-> rule[r].rev,
                                   at |-> job[p].at, key |-> KeyOf(p, r, v)]}
                 ELSE fired
  /\ Set(p, Recorded(p))
  /\ UNCHANGED <<now, lease, started, edits>>

\* recordAlertUnavailable leaves the observation and the condition as they are.
Unavailable(p) ==
  /\ job[p].pc = "recording" /\ Todo(p) # {}
  /\ rule[NextRule(p)].exists /\ None \in ObservationsOf(p, NextRule(p))
  /\ Set(p, Recorded(p))
  /\ UNCHANGED <<now, rule, fired, lease, started, edits>>

CompleteCheck(p) ==
  /\ job[p].pc = "recording" /\ Todo(p) = {}
  /\ EndBeat(p)
  /\ UNCHANGED <<now, rule, fired, started, edits>>

\* The rule was deleted meanwhile: recording it throws, and the rest of the
\* check and the deliveries are given up with it.
FailCheck(p) ==
  /\ job[p].pc = "recording" /\ Todo(p) # {}
  /\ ~rule[NextRule(p)].exists
  /\ EndBeat(p)
  /\ UNCHANGED <<now, rule, fired, started, edits>>

\* The process ends and a new one takes its place.
Restart(p) ==
  /\ job[p] # IdleJob
  /\ EndBeat(p)
  /\ UNCHANGED <<now, rule, fired, started, edits>>

-----------------------------------------------------------------------------
(* The alerts tool's edits. *)

Edit(r, row) ==
  /\ edits < MaxEdits
  /\ edits' = edits + 1
  /\ rule' = [rule EXCEPT ![r] = row]
  /\ UNCHANGED <<now, fired, lease, started, job>>

\* The tool's rules are recurring.
CreateRule(r) ==
  /\ rule[r] = NoRow
  /\ \E d \in Directions : Edit(r, NewRow(d, FALSE))

SetEnabled(r) ==
  /\ rule[r].exists
  /\ \E b \in BOOLEAN : Edit(r, [rule[r] EXCEPT !.enabled = b])

\* A new condition starts over: nothing observed, a new revision and arming.
UpdateRule(r) ==
  /\ rule[r].exists
  /\ \E d \in Directions, b \in {TRUE, rule[r].enabled} :
       Edit(r, [rule[r] EXCEPT !.dir = d, !.enabled = b, !.status = "active",
                  !.prev = None, !.state = "unknown", !.last = None,
                  !.rev = @ + 1, !.arm = @ + 1])

DeleteRule(r) ==
  /\ rule[r].exists
  /\ Edit(r, [rule[r] EXCEPT !.exists = FALSE])

Tick ==
  /\ now < MaxNow
  /\ now' = now + 1
  /\ UNCHANGED <<rule, fired, lease, started, job, edits>>

Work(p) ==
  \/ Beat(p) \/ BeginCheck(p) \/ NothingDue(p)
  \/ LoadQuotes(p) \/ Evaluate(p) \/ Unavailable(p)
  \/ CompleteCheck(p) \/ FailCheck(p)

Next ==
  \/ \E p \in Procs : Work(p) \/ Restart(p)
  \/ \E p \in Checkers : ManualCheck(p)
  \/ \E r \in Rules : CreateRule(r) \/ SetEnabled(r) \/ UpdateRule(r) \/ DeleteRule(r)
  \/ Tick

Spec == Init /\ [][Next]_vars

-----------------------------------------------------------------------------
(* Properties. *)

\* Two announcements of a rule belong to different armings, whichever
\* processes made the checks and however stale what they had read.
OneTriggerPerArming ==
  \A e, f \in fired : e.rule = f.rule /\ e.arm = f.arm => e = f

\* A one-shot rule announces once per revision: enabling it again does not
\* bring it back, only an edit does.
OneShotFiresOnce ==
  \A e, f \in fired : e.rule = f.rule /\ rule[e.rule].once /\ e.rev = f.rev => e = f

Arming == INSTANCE AlertArming WITH
  on    <- OnRules,
  cycle <- [r \in Rules |-> rule[r].arm],
  told  <- {<<e.rule, e.arm>> : e \in fired}

\* The rules' rows and the checks of all processes implement AlertArming.
ArmingSpec == Arming!Spec

Records(p, r) == r \in Todo(p) /\ Todo(p) \ Todo(p)' = {r}

\* The check's observation crosses the threshold from the row's last one.
CrossesNow(p, r) ==
  /\ Records(p, r) /\ job'[p].pc = "recording"
  /\ IsOn(rule[r]) /\ rule[r].prev # None
  /\ Crosses(rule[r].dir, rule[r].prev, rule'[r].prev)
  /\ OutsideCooldown(rule[r], job[p].at)

Announced(r) == \E e \in fired' \ fired : e.rule = r

\* Nobody wrote the row since the check read it.
Untouched(p, r) == job[p].snap[r] = rule[r]

\* The row's condition state is the one its condition gives its observation.
Consistent(r) ==
  rule[r].state = IF ConditionIsTrue(rule[r].dir, rule[r].prev) THEN "true" ELSE "false"

\* A crossing that a check sees on a rule nobody touched meanwhile is
\* announced: neither the condition state nor the dedupe key swallows it.
UntouchedCrossingFires ==
  [][\A p \in Procs : \A r \in Rules :
       CrossesNow(p, r) /\ Untouched(p, r) /\ Consistent(r) => Announced(r)]_vars

\* openspec/specs/market-alerts-and-reports/spec.md:43-44, "WHEN an enabled
\* alert condition evaluates from false to true THEN OpenCandle records an
\* alert event": also for a rule that was edited while a check was waiting.
CrossingFires ==
  [][\A p \in Procs : \A r \in Rules :
       CrossesNow(p, r) /\ Untouched(p, r) => Announced(r)]_vars
=============================================================================
