----------------------- MODULE LocalAutomationProofs -----------------------
(***************************************************************************)
(* Theorems about Alerts, for every set of rules and of processes, and     *)
(* about Automation.  The two share the lease and the clock.               *)
(***************************************************************************)
EXTENDS Alerts, Automation, TLAPS, WellFoundedInduction, SequenceTheorems

-----------------------------------------------------------------------------
(***************************************************************************)
(* Types.  A check has an observation for every rule it has left, except   *)
(* those it observes only when it records them.                            *)
(***************************************************************************)

Partial(T) == UNION {[S -> T] : S \in SUBSET Rules}

Job == [pc : {"idle", "reports", "quotes", "recording"}, at : Times,
        kind : {"manual", "heartbeat", "resume"}, snap : Partial(Row),
        obs : Partial(Observed), seen : Nat]

Announcement(e) == e.rule \in Rules /\ e.arm \in Nat /\ e.rev \in Nat /\ e.at \in Times

Shape ==
  \A p \in Procs : job[p].pc = "recording" =>
    DOMAIN job[p].obs = DOMAIN job[p].snap \ HistoryRules

Typed ==
  /\ LeaseTypeOK
  /\ rule \in [Rules -> Row]
  /\ \A e \in fired : Announcement(e)
  /\ started \in 0 .. MaxChecks
  /\ job \in [Procs -> Job]
  /\ edits \in 0 .. MaxEdits
  /\ Shape

LEMMA MinIn ==
  ASSUME NEW S \in SUBSET Nat, S # {}
  PROVE  Min(S) \in S
<1>1. PICK x \in S : \A y \in S : ~(<<y, x>> \in OpToRel(<, Nat))
  BY NatLessThanWellFounded, WFMin
<1>2. \A y \in S : x =< y
  <2> TAKE y \in S
  <2>1. x \in Nat /\ y \in Nat
    OBVIOUS
  <2>2. ~(y < x)
    BY <1>1, <2>1 DEF OpToRel
  <2> QED BY <2>1, <2>2
<1> QED BY <1>2 DEF Min

LEMMA DivIsNat ==
  ASSUME NEW n \in Nat, NEW b \in Nat \ {0}
  PROVE  n \div b \in Nat
OBVIOUS

LEMMA PartialIntro ==
  ASSUME NEW T, NEW S \in SUBSET Rules, NEW f \in [S -> T]
  PROVE  f \in Partial(T)
BY DEF Partial

LEMMA PartialElim ==
  ASSUME NEW T, NEW f \in Partial(T)
  PROVE  /\ DOMAIN f \in SUBSET Rules
         /\ f \in [DOMAIN f -> T]
BY DEF Partial

LEMMA EmptyPartial ==
  ASSUME NEW T
  PROVE  <<>> \in Partial(T)
<1>1. <<>> \in [{} -> T]
  OBVIOUS
<1> QED BY <1>1, PartialIntro

LEMMA IdleJobTyped == IdleJob \in Job
<1>1. IdleJob.snap \in Partial(Row) /\ IdleJob.obs \in Partial(Observed)
  BY EmptyPartial DEF IdleJob
<1>2. 0 \in Times
  BY RunnerLeaseAssumption DEF Times
<1> QED BY <1>1, <1>2 DEF IdleJob, Job


LEMMA RowsTyped ==
  /\ \A d \in Directions, once \in BOOLEAN : NewRow(d, once) \in Row
  /\ NoRow \in Row
  /\ \A once \in BOOLEAN : StoredRow(once) \in Row
<1>1. \A d \in Directions, once \in BOOLEAN : NewRow(d, once) \in Row
  BY DEF Directions, NewRow, Row, Observed
<1>2. \A x \in Row : [x EXCEPT !.exists = FALSE, !.rev = 0] \in Row
  BY DEF Row
<1>3. \A x \in Row : [x EXCEPT !.prev = InitSeen, !.state = "false"] \in Row
  BY AlertsAssumption DEF Row, Observed
<1>4. NoRow \in Row
  BY <1>1, <1>2 DEF NoRow, Directions
<1>5. \A once \in BOOLEAN : StoredRow(once) \in Row
  BY <1>1, <1>3 DEF StoredRow, Directions
<1> QED BY <1>1, <1>4, <1>5

LEMMA InitTyped == Init => Typed
<1> SUFFICES ASSUME Init PROVE Typed
  OBVIOUS
<1> USE AlertsAssumption, RunnerLeaseAssumption
<1>1. LeaseTypeOK
  BY DEF Init, LeaseTypeOK, NoLease, Times
<1>2. NoRow \in Row
  BY RowsTyped
<1>3. \A once \in BOOLEAN : StoredRow(once) \in Row
  BY RowsTyped
<1>4. rule \in [Rules -> Row]
  BY <1>2, <1>3 DEF Init
<1>5. job \in [Procs -> Job]
  BY IdleJobTyped DEF Init
<1>6. Shape
  BY DEF Init, Shape, IdleJob
<1> QED BY <1>1, <1>4, <1>5, <1>6 DEF Init, Typed

(***************************************************************************)
(* A step that gives one process a well-formed job keeps all jobs so.      *)
(***************************************************************************)
WellFormed(j) ==
  j \in Job /\ (j.pc = "recording" => DOMAIN j.obs = DOMAIN j.snap \ HistoryRules)

LEMMA SetTyped ==
  ASSUME Typed, NEW p \in Procs, NEW j, WellFormed(j), Set(p, j)
  PROVE  job' \in [Procs -> Job] /\ Shape'
BY DEF Typed, Shape, Set, WellFormed

LEMMA IdleWellFormed == WellFormed(IdleJob)
BY IdleJobTyped DEF WellFormed, IdleJob

LEMMA EndBeatTyped ==
  ASSUME Typed, NEW p \in Procs, EndBeat(p)
  PROVE  /\ job' \in [Procs -> Job] /\ Shape'
         /\ lease'.owner \in Runners \cup {None} /\ lease'.expires \in Nat
<1>1. job' \in [Procs -> Job] /\ Shape'
  BY SetTyped, IdleWellFormed DEF EndBeat
<1>2. lease'.owner \in Runners \cup {None} /\ lease'.expires \in Nat
  BY DEF EndBeat, KeepOrReleaseLease, ReleaseLease, NoLease, Typed, LeaseTypeOK
<1> QED BY <1>1, <1>2

(* What is left of a check once its next rule is recorded. *)
LEMMA RecordedTyped ==
  ASSUME Typed, NEW p \in Procs, job[p].pc = "recording", Todo(p) # {}
  PROVE  /\ NextRule(p) \in Todo(p) /\ NextRule(p) \in Rules
         /\ WellFormed(Recorded(p))
<1> DEFINE left == Todo(p) \ {NextRule(p)}
           s == Restrict(job[p].snap, left)
           o == Restrict(job[p].obs, left \ HistoryRules)
<1>1. job[p] \in Job
  BY DEF Typed
<1>2. Todo(p) \in SUBSET Rules /\ job[p].snap \in [Todo(p) -> Row]
  BY <1>1, PartialElim DEF Job, Todo
<1>3. NextRule(p) \in Todo(p) /\ NextRule(p) \in Rules
  BY <1>2, MinIn, AlertsAssumption DEF NextRule
<1>4. DOMAIN job[p].obs = Todo(p) \ HistoryRules
  BY DEF Typed, Shape, Todo
<1>5. job[p].obs \in [Todo(p) \ HistoryRules -> Observed]
  BY <1>1, <1>4, PartialElim DEF Job
<1>6. s \in [left -> Row]
  BY <1>2 DEF Restrict
<1>7. o \in [left \ HistoryRules -> Observed]
  BY <1>5 DEF Restrict
<1>8. s \in Partial(Row) /\ o \in Partial(Observed)
  BY <1>2, <1>6, <1>7, PartialIntro
<1>9. Recorded(p) = [job[p] EXCEPT !.snap = s, !.obs = o]
  BY DEF Recorded
<1>10. Recorded(p) \in Job
  <2> HIDE DEF s, o
  <2> QED BY <1>1, <1>8, <1>9 DEF Job
<1>11. Recorded(p).snap = s /\ Recorded(p).obs = o
  <2> HIDE DEF s, o
  <2> QED BY <1>1, <1>9 DEF Job
<1>12. DOMAIN s = left /\ DOMAIN o = left \ HistoryRules
  BY <1>6, <1>7
<1> QED BY <1>3, <1>10, <1>11, <1>12 DEF WellFormed

LEMMA ObservationTyped ==
  ASSUME Typed, NEW p \in Procs, job[p].pc = "recording", NEW r \in Todo(p)
  PROVE  ObservationsOf(p, r) \subseteq Observed
<1>1. job[p] \in Job
  BY DEF Typed
<1>2. job[p].obs \in [Todo(p) \ HistoryRules -> Observed]
  BY <1>1, PartialElim DEF Job, Typed, Shape, Todo
<1> QED BY <1>2 DEF ObservationsOf


(***************************************************************************)
(* The row a check leaves behind.                                          *)
(***************************************************************************)
LEMMA RowEnded ==
  ASSUME NEW x \in Row, NEW y,
         y = [x EXCEPT !.enabled = FALSE, !.status = "completed"]
  PROVE  /\ y \in Row /\ y.rev = x.rev /\ y.once = x.once /\ y.exists = x.exists
         /\ y.arm = x.arm /\ y.state = x.state /\ ~y.enabled /\ y.status = "completed"
BY DEF Row

LEMMA CheckedFacts ==
  ASSUME Typed, NEW p \in Procs, NEW r \in Rules, NEW v \in Observed
  PROVE  /\ Checked(p, r, v) \in Row
         /\ Checked(p, r, v).rev = rule[r].rev
         /\ Checked(p, r, v).once = rule[r].once
         /\ Checked(p, r, v).exists = rule[r].exists
         /\ Checked(p, r, v).enabled = rule[r].enabled
         /\ Checked(p, r, v).status = rule[r].status
         /\ Checked(p, r, v).arm \in {rule[r].arm, rule[r].arm + 1}
         /\ Checked(p, r, v).arm = rule[r].arm =>
              \/ Checked(p, r, v).state = "true"
              \/ rule[r].state # "true"
         /\ Triggers(p, r, v) =>
              Checked(p, r, v).arm = rule[r].arm /\ Checked(p, r, v).state = "true"
<1>1. rule[r] \in Row /\ job[p] \in Job
  BY DEF Typed
<1>2. job[p].at \in Times
  BY <1>1 DEF Job
<1> DEFINE T == Triggers(p, r, v)
           C == ConditionIsTrue(job[p].snap[r].dir, v)
           cond == IF C THEN "true" ELSE "false"
           arm == IF cond = "false" /\ rule[r].state = "true"
                    THEN rule[r].arm + 1 ELSE rule[r].arm
           last == IF T THEN job[p].at ELSE rule[r].last
<1>3. T => C
  BY DEF Triggers, Inserts, WantsTrigger, Crosses
<1>4. T => rule[r].state # "true"
  BY DEF Triggers
<1>5. Checked(p, r, v) = [rule[r] EXCEPT !.prev = v, !.state = cond, !.arm = arm,
                            !.last = last]
  BY DEF Checked
<1> HIDE DEF T, C
<1>6. cond \in {"true", "false"} /\ arm \in Nat /\ last \in Times \cup {None}
  BY <1>1, <1>2 DEF Row
<1>8. /\ arm \in {rule[r].arm, rule[r].arm + 1}
      /\ arm = rule[r].arm => cond = "true" \/ rule[r].state # "true"
      /\ T => arm = rule[r].arm /\ cond = "true"
  BY <1>1, <1>3, <1>4 DEF Row
<1> HIDE DEF cond, arm, last
<1>9. /\ Checked(p, r, v) \in Row
      /\ Checked(p, r, v).state = cond /\ Checked(p, r, v).arm = arm
      /\ Checked(p, r, v).rev = rule[r].rev /\ Checked(p, r, v).once = rule[r].once
      /\ Checked(p, r, v).exists = rule[r].exists
      /\ Checked(p, r, v).enabled = rule[r].enabled
      /\ Checked(p, r, v).status = rule[r].status
  <2> DEFINE x == rule[r]
             y == Checked(p, r, v)
  <2>1. y = [x EXCEPT !.prev = v, !.state = cond, !.arm = arm, !.last = last]
    BY <1>5
  <2>2. x \in Row
    BY <1>1
  <2> HIDE DEF x, y
  <2>3. /\ y \in Row /\ y.state = cond /\ y.arm = arm /\ y.rev = x.rev /\ y.once = x.once
        /\ y.exists = x.exists /\ y.enabled = x.enabled /\ y.status = x.status
    BY <1>6, <2>1, <2>2 DEF Row
  <2> QED BY <2>3 DEF x, y
<1>10. Triggers(p, r, v) => arm = rule[r].arm /\ cond = "true"
  BY <1>8 DEF T
<1> QED BY <1>8, <1>9, <1>10

LEMMA EvaluatedFacts ==
  ASSUME Typed, NEW p \in Procs, NEW r \in Rules, NEW v \in Observed
  PROVE  /\ Evaluated(p, r, v) \in Row
         /\ Evaluated(p, r, v).rev = rule[r].rev
         /\ Evaluated(p, r, v).once = rule[r].once
         /\ Evaluated(p, r, v).exists = rule[r].exists
         /\ Evaluated(p, r, v).arm = Checked(p, r, v).arm
         /\ Evaluated(p, r, v).state = Checked(p, r, v).state
         /\ IsOn(Evaluated(p, r, v)) <=>
              IsOn(rule[r]) /\ ~(Triggers(p, r, v) /\ rule[r].once)
         /\ rule[r].status = "completed" => Evaluated(p, r, v).status = "completed"
         /\ Triggers(p, r, v) /\ rule[r].once => Evaluated(p, r, v).status = "completed"
<1>1. Checked(p, r, v) \in Row
  BY CheckedFacts
<1>3. CASE Triggers(p, r, v) /\ rule[r].once
  <2>1. Evaluated(p, r, v)
          = [Checked(p, r, v) EXCEPT !.enabled = FALSE, !.status = "completed"]
    BY <1>3 DEF Evaluated
  <2> DEFINE x == Checked(p, r, v)
             y == Evaluated(p, r, v)
  <2>2. /\ y \in Row /\ y.rev = x.rev /\ y.once = x.once /\ y.exists = x.exists
        /\ y.arm = x.arm /\ y.state = x.state /\ ~y.enabled /\ y.status = "completed"
    BY <1>1, <2>1, RowEnded, Zenon
  <2> QED BY <1>3, <2>2, CheckedFacts DEF IsOn
<1>4. CASE ~(Triggers(p, r, v) /\ rule[r].once)
  <2>1. Evaluated(p, r, v) = Checked(p, r, v)
    BY <1>4 DEF Evaluated
  <2> QED BY <2>1, <1>4, CheckedFacts DEF IsOn
<1> QED BY <1>3, <1>4


(***************************************************************************)
(* The rows the user's edits leave behind.                                 *)
(***************************************************************************)
UpdatedRow(x, d, b) ==
  [x EXCEPT !.dir = d, !.enabled = b, !.status = "active", !.prev = None,
            !.state = "unknown", !.last = None, !.rev = @ + 1, !.arm = @ + 1]

LEMMA UpdatedFacts ==
  ASSUME NEW x \in Row, NEW d \in Directions, NEW b \in BOOLEAN
  PROVE  /\ UpdatedRow(x, d, b) \in Row
         /\ UpdatedRow(x, d, b).rev = x.rev + 1 /\ UpdatedRow(x, d, b).arm = x.arm + 1
         /\ UpdatedRow(x, d, b).once = x.once /\ UpdatedRow(x, d, b).exists = x.exists
<1>1. None \in Observed
  BY DEF Observed
<1> DEFINE n == x.rev + 1
           a == x.arm + 1
<1>2. n \in Nat /\ a \in Nat
  BY DEF Row
<1>3. UpdatedRow(x, d, b)
        = [x EXCEPT !.dir = d, !.enabled = b, !.status = "active", !.prev = None,
                    !.state = "unknown", !.last = None, !.rev = n, !.arm = a]
  BY DEF UpdatedRow
<1> HIDE DEF n, a
<1>4. /\ UpdatedRow(x, d, b) \in Row
      /\ UpdatedRow(x, d, b).rev = n /\ UpdatedRow(x, d, b).arm = a
      /\ UpdatedRow(x, d, b).once = x.once /\ UpdatedRow(x, d, b).exists = x.exists
  BY <1>1, <1>2, <1>3 DEF Row
<1> QED BY <1>4 DEF n, a

LEMMA EditTyped ==
  ASSUME Typed, NEW r \in Rules, NEW row \in Row, Edit(r, row)
  PROVE  /\ Typed'
         /\ rule' = [rule EXCEPT ![r] = row]
         /\ UNCHANGED fired
<1>1. edits' \in 0 .. MaxEdits
  BY AlertsAssumption DEF Typed, Edit
<1> QED BY <1>1 DEF Typed, Edit, LeaseTypeOK, Announcement, Shape

LEMMA EvaluateTyped ==
  ASSUME Typed, NEW p \in Procs, Evaluate(p)
  PROVE  Typed'
<1> DEFINE r == NextRule(p)
<1>1. job[p].pc = "recording" /\ Todo(p) # {} /\ Set(p, Recorded(p))
  BY DEF Evaluate
<1>2. r \in Todo(p) /\ r \in Rules /\ WellFormed(Recorded(p))
  BY <1>1, RecordedTyped
<1>3. job' \in [Procs -> Job] /\ Shape'
  BY <1>1, <1>2, SetTyped
<1>4. PICK v \in ObservationsOf(p, r) \ {None} :
        /\ rule' = [rule EXCEPT ![r] = Evaluated(p, r, v)]
        /\ fired' = IF Triggers(p, r, v)
                     THEN fired \cup {[rule |-> r, arm |-> rule[r].arm,
                            rev |-> rule[r].rev, at |-> job[p].at, key |-> KeyOf(p, r, v)]}
                     ELSE fired
  BY DEF Evaluate
<1>5. v \in Observed
  BY <1>1, <1>2, ObservationTyped
<1>6. Evaluated(p, r, v) \in Row
  BY <1>2, <1>5, EvaluatedFacts
<1>7. rule' \in [Rules -> Row]
  BY <1>4, <1>6 DEF Typed
<1>8. rule[r].arm \in Nat /\ rule[r].rev \in Nat /\ job[p].at \in Times
  <2>1. rule[r] \in Row /\ job[p] \in Job
    BY <1>2 DEF Typed
  <2> QED BY <2>1 DEF Row, Job
<1>9. \A e \in fired' : Announcement(e)
  <2> HIDE DEF r
  <2> QED BY <1>2, <1>4, <1>8 DEF Typed, Announcement
<1>10. UNCHANGED <<now, lease, started, edits>>
  BY DEF Evaluate
<1>11. (\A e \in fired : Announcement(e))'
  BY <1>9 DEF Announcement
<1> QED BY <1>3, <1>7, <1>10, <1>11 DEF Typed, LeaseTypeOK

LEMMA StartCheckTyped ==
  ASSUME Typed, NEW p \in Procs, NEW at \in Times,
         NEW kind \in {"manual", "heartbeat", "resume"}, StartCheck(p, at, kind)
  PROVE  job' \in [Procs -> Job] /\ Shape' /\ started' \in 0 .. MaxChecks
<1> DEFINE s == [r \in OnRules |-> rule[r]]
           j == [IdleJob EXCEPT !.pc = "quotes", !.at = at, !.kind = kind, !.snap = s]
<1>1. s \in [OnRules -> Row] /\ OnRules \in SUBSET Rules
  BY DEF Typed, OnRules
<1>2. s \in Partial(Row)
  BY <1>1, PartialIntro
<1>3. WellFormed(j)
  <2> HIDE DEF s
  <2> QED BY <1>2, IdleJobTyped DEF WellFormed, Job
<1>4. Set(p, j)
  BY DEF StartCheck
<1>5. started' \in 0 .. MaxChecks
  BY AlertsAssumption DEF StartCheck, Typed
<1> HIDE DEF j
<1> QED BY <1>3, <1>4, <1>5, SetTyped

LEMMA LoadQuotesTyped ==
  ASSUME Typed, NEW p \in Procs, LoadQuotes(p)
  PROVE  job' \in [Procs -> Job] /\ Shape'
<1>1. PICK o \in [Todo(p) \ HistoryRules -> Observed] :
        Set(p, [job[p] EXCEPT !.pc = "recording", !.obs = o, !.seen = now \div BucketTicks])
  BY DEF LoadQuotes
<1> DEFINE n == now \div BucketTicks
           j == [job[p] EXCEPT !.pc = "recording", !.obs = o, !.seen = n]
<1>2. n \in Nat
  <2>1. now \in Nat
    BY RunnerLeaseAssumption DEF Typed, LeaseTypeOK, Times
  <2> QED BY <2>1, DivIsNat, AlertsAssumption
<1>3. job[p] \in Job
  BY DEF Typed
<1>4. Todo(p) \in SUBSET Rules
  BY <1>3, PartialElim DEF Job, Todo
<1>5. o \in Partial(Observed)
  BY <1>4, PartialIntro
<1>6. DOMAIN o = DOMAIN job[p].snap \ HistoryRules
  BY DEF Todo
<1>7. WellFormed(j)
  <2> HIDE DEF n
  <2> QED BY <1>2, <1>3, <1>5, <1>6 DEF WellFormed, Job
<1> HIDE DEF j
<1> QED BY <1>1, <1>7, SetTyped DEF j

(***************************************************************************)
(* Every step but Evaluate's keeps the announcements.                      *)
(***************************************************************************)
LEMMA StepTyped == Typed /\ [Next]_vars => Typed'
<1> SUFFICES ASSUME Typed, [Next]_vars PROVE Typed'
  OBVIOUS
<1> USE DEF Typed
<1>1. ASSUME NEW p \in Procs, Beat(p) PROVE Typed'
  <2> DEFINE k == IF LeaseIsCurrent THEN "heartbeat" ELSE "resume"
             j == [IdleJob EXCEPT !.pc = "reports", !.at = now, !.kind = k]
  <2>1. k \in {"manual", "heartbeat", "resume"} /\ now \in Times
    BY DEF LeaseTypeOK
  <2>2. WellFormed(j)
    <3> HIDE DEF k
    <3> QED BY <2>1, IdleJobTyped DEF WellFormed, Job
  <2>3. Set(p, j)
    BY <1>1 DEF Beat
  <2> HIDE DEF j
  <2>4. job' \in [Procs -> Job] /\ Shape'
    BY <2>2, <2>3, SetTyped
  <2>5. lease'.owner \in Runners \cup {None} /\ lease'.expires \in Nat
    <3>1. now + Ttl \in Nat
      BY RunnerLeaseAssumption DEF LeaseTypeOK, Times
    <3> QED BY <1>1, <3>1 DEF Beat, AcquireLease
  <2> QED BY <1>1, <2>4, <2>5 DEF Beat, LeaseTypeOK, Announcement
<1>2. ASSUME NEW p \in Procs, BeginCheck(p) PROVE Typed'
  <2>1. job[p].at \in Times /\ job[p].kind \in {"manual", "heartbeat", "resume"}
    <3>1. job[p] \in Job
      OBVIOUS
    <3> QED BY <3>1 DEF Job
  <2>2. job' \in [Procs -> Job] /\ Shape' /\ started' \in 0 .. MaxChecks
    BY <1>2, <2>1, StartCheckTyped DEF BeginCheck
  <2> QED BY <1>2, <2>2 DEF BeginCheck, LeaseTypeOK, Announcement
<1>3. ASSUME NEW p \in Procs, ManualCheck(p) PROVE Typed'
  <2>1. now \in Times
    BY DEF LeaseTypeOK
  <2>2. job' \in [Procs -> Job] /\ Shape' /\ started' \in 0 .. MaxChecks
    BY <1>3, <2>1, StartCheckTyped DEF ManualCheck
  <2> QED BY <1>3, <2>2 DEF ManualCheck, LeaseTypeOK, Announcement
<1>4. ASSUME NEW p \in Procs, LoadQuotes(p) PROVE Typed'
  BY <1>4, LoadQuotesTyped DEF LoadQuotes, LeaseTypeOK, Announcement
<1>5. ASSUME NEW p \in Procs, Unavailable(p) PROVE Typed'
  <2>1. job' \in [Procs -> Job] /\ Shape'
    BY <1>5, RecordedTyped, SetTyped DEF Unavailable
  <2> QED BY <1>5, <2>1 DEF Unavailable, LeaseTypeOK, Announcement
<1>6. ASSUME NEW p \in Procs, NothingDue(p) \/ CompleteCheck(p) \/ FailCheck(p) \/ Restart(p)
      PROVE  Typed'
  <2>1. EndBeat(p) /\ UNCHANGED <<now, rule, fired, started, edits>>
    BY <1>6 DEF NothingDue, CompleteCheck, FailCheck, Restart
  <2> QED BY <2>1, EndBeatTyped DEF LeaseTypeOK, Announcement
<1>7. ASSUME NEW r \in Rules, CreateRule(r) \/ SetEnabled(r) \/ UpdateRule(r) \/ DeleteRule(r)
      PROVE  Typed'
  <2>1. rule[r] \in Row
    OBVIOUS
  <2>2. rule[r].enabled \in BOOLEAN
    BY <2>1 DEF Row
  <2>3. CASE CreateRule(r)
    BY <2>3, RowsTyped, EditTyped DEF CreateRule
  <2>4. CASE SetEnabled(r)
    <3>1. PICK b \in BOOLEAN : Edit(r, [rule[r] EXCEPT !.enabled = b])
      BY <2>4 DEF SetEnabled
    <3>2. [rule[r] EXCEPT !.enabled = b] \in Row
      BY <2>1 DEF Row
    <3> QED BY <3>1, <3>2, EditTyped
  <2>5. CASE UpdateRule(r)
    <3>1. PICK d \in Directions, b \in {TRUE, rule[r].enabled} :
            Edit(r, UpdatedRow(rule[r], d, b))
      BY <2>5 DEF UpdateRule, UpdatedRow
    <3> QED BY <2>1, <2>2, <3>1, UpdatedFacts, EditTyped
  <2>6. CASE DeleteRule(r)
    <3>1. [rule[r] EXCEPT !.exists = FALSE] \in Row
      BY <2>1 DEF Row
    <3> QED BY <2>6, <3>1, EditTyped DEF DeleteRule
  <2> QED BY <1>7, <2>3, <2>4, <2>5, <2>6
<1>8. CASE Tick
  BY <1>8, RunnerLeaseAssumption DEF Tick, LeaseTypeOK, Times, Announcement, Shape
<1>9. CASE UNCHANGED vars
  BY <1>9 DEF vars, LeaseTypeOK, Announcement, Shape
<1> QED BY <1>1, <1>2, <1>3, <1>4, <1>5, <1>6, <1>7, <1>8, <1>9, EvaluateTyped
        DEF Next, Work, Procs


LEMMA TypedCorrect == Spec => []Typed
<1>1. Init => Typed
  BY InitTyped
<1>2. Typed /\ [Next]_vars => Typed'
  BY StepTyped
<1> QED BY <1>1, <1>2, PTL DEF Spec

LEMMA TypedTypeOK == Typed => TypeOK
<1> SUFFICES ASSUME Typed PROVE TypeOK
  OBVIOUS
<1>1. ASSUME NEW p \in Procs
      PROVE  /\ job[p].pc \in {"idle", "reports", "quotes", "recording"}
             /\ job[p].kind \in {"manual", "heartbeat", "resume"}
             /\ job[p].at \in Times /\ job[p].seen \in Nat
             /\ DOMAIN job[p].snap \subseteq Rules
             /\ \A r \in DOMAIN job[p].snap : job[p].snap[r] \in Row
             /\ \A r \in DOMAIN job[p].obs : job[p].obs[r] \in Observed
  <2>1. job[p] \in Job
    BY DEF Typed
  <2>2. job[p].snap \in Partial(Row) /\ job[p].obs \in Partial(Observed)
    BY <2>1 DEF Job
  <2>3. /\ DOMAIN job[p].snap \subseteq Rules
        /\ \A r \in DOMAIN job[p].snap : job[p].snap[r] \in Row
        /\ \A r \in DOMAIN job[p].obs : job[p].obs[r] \in Observed
    BY <2>2, PartialElim
  <2> QED BY <2>1, <2>3 DEF Job
<1> QED BY <1>1 DEF Typed, TypeOK, Announcement

\* Rows, events and jobs keep their types, whatever the rules and processes.
THEOREM TypeCorrect == Spec => []TypeOK
BY TypedCorrect, TypedTypeOK, PTL

-----------------------------------------------------------------------------
(***************************************************************************)
(* What an announcement leaves in its rule's row.  The two properties are  *)
(* not inductive: that a second event cannot share the arming of a first   *)
(* is because the row says "true" for as long as it keeps that arming.     *)
(***************************************************************************)

Trace(e) ==
  LET row == rule[e.rule] IN
  /\ 1 <= e.rev /\ e.rev <= row.rev /\ e.arm <= row.arm
  /\ e.arm = row.arm => row.state = "true"
  /\ row.once /\ e.rev = row.rev => row.status = "completed"

History ==
  /\ \A r \in Rules : rule[r].exists => 1 <= rule[r].rev
  /\ \A e \in fired : Trace(e)
  /\ OneTriggerPerArming
  /\ OneShotFiresOnce

(* How a row may change in a step that announces nothing. *)
Later(x, y) ==
  \/ x = NoRow
  \/ /\ x.rev <= y.rev /\ x.arm <= y.arm /\ y.once = x.once
     /\ y.arm = x.arm /\ x.state = "true" => y.state = "true"
     /\ y.rev = x.rev /\ x.status = "completed" => y.status = "completed"

LEMMA SilentStep ==
  ASSUME Typed, Typed', History, UNCHANGED fired,
         \A r \in Rules : Later(rule[r], rule'[r]),
         \A r \in Rules : rule'[r].exists => 1 <= rule'[r].rev
  PROVE  History'
<1>1. ASSUME NEW e \in fired
      PROVE  /\ Trace(e)' /\ rule'[e.rule].once = rule[e.rule].once
  <2> DEFINE x == rule[e.rule]
             y == rule'[e.rule]
  <2>1. e.rule \in Rules /\ e.arm \in Nat /\ e.rev \in Nat /\ x \in Row /\ y \in Row
    BY DEF Typed, Announcement
  <2>2. /\ x.rev \in Nat /\ x.arm \in Nat /\ y.rev \in Nat /\ y.arm \in Nat
    BY <2>1 DEF Row
  <2>3. /\ 1 <= e.rev /\ e.rev <= x.rev /\ e.arm <= x.arm
        /\ e.arm = x.arm => x.state = "true"
        /\ x.once /\ e.rev = x.rev => x.status = "completed"
    BY DEF History, Trace
  <2>4. x # NoRow
    <3>1. NoRow.rev = 0
      BY DEF NoRow, NewRow
    <3> QED BY <2>2, <2>3, <2>1, <3>1
  <2>5. Later(x, y)
    BY <2>1
  <2>6. /\ x.rev <= y.rev /\ x.arm <= y.arm /\ y.once = x.once
        /\ y.arm = x.arm /\ x.state = "true" => y.state = "true"
        /\ y.rev = x.rev /\ x.status = "completed" => y.status = "completed"
    BY <2>4, <2>5 DEF Later
  <2> HIDE DEF x, y
  <2>7. /\ 1 <= e.rev /\ e.rev <= y.rev /\ e.arm <= y.arm
        /\ e.arm = y.arm => y.state = "true"
        /\ y.once /\ e.rev = y.rev => y.status = "completed"
    BY <2>1, <2>2, <2>3, <2>6
  <2> QED BY <2>6, <2>7 DEF Trace, x, y
<1>2. OneTriggerPerArming'
  BY DEF History, OneTriggerPerArming
<1>3. OneShotFiresOnce'
  BY <1>1 DEF History, OneShotFiresOnce
<1> QED BY <1>1, <1>2, <1>3 DEF History

LEMMA LaterRefl ==
  ASSUME NEW x \in Row PROVE Later(x, x)
BY DEF Later, Row

(* A check that announces nothing moves the row on; one that announces     *)
(* takes the arming the row still has.                                     *)
LEMMA EvaluateHistory ==
  ASSUME Typed, Typed', History, NEW p \in Procs, Evaluate(p)
  PROVE  History'
<1> DEFINE r == NextRule(p)
<1>1. job[p].pc = "recording" /\ Todo(p) # {} /\ rule[r].exists
  BY DEF Evaluate
<1>2. r \in Todo(p) /\ r \in Rules
  BY <1>1, RecordedTyped
<1>3. PICK v \in ObservationsOf(p, r) \ {None} :
        /\ rule' = [rule EXCEPT ![r] = Evaluated(p, r, v)]
        /\ fired' = IF Triggers(p, r, v)
                     THEN fired \cup {[rule |-> r, arm |-> rule[r].arm,
                            rev |-> rule[r].rev, at |-> job[p].at, key |-> KeyOf(p, r, v)]}
                     ELSE fired
  BY DEF Evaluate
<1>4. v \in Observed
  BY <1>1, <1>2, ObservationTyped
<1> HIDE DEF r
<1> DEFINE x == rule[r]
           y == Evaluated(p, r, v)
<1>5. /\ x \in Row /\ y \in Row /\ y.rev = x.rev /\ y.once = x.once
      /\ y.arm \in {x.arm, x.arm + 1}
      /\ y.arm = x.arm => y.state = "true" \/ x.state # "true"
      /\ x.status = "completed" => y.status = "completed"
      /\ Triggers(p, r, v) => y.arm = x.arm /\ y.state = "true"
      /\ Triggers(p, r, v) /\ x.once => y.status = "completed"
  BY <1>2, <1>4, CheckedFacts, EvaluatedFacts DEF Typed
<1>6. rule'[r] = y /\ \A q \in Rules \ {r} : rule'[q] = rule[q]
  BY <1>2, <1>3 DEF Typed
<1> HIDE DEF y
<1>7. \A q \in Rules : Later(rule[q], rule'[q])
  <2>1. Later(x, y)
    <3>1. x.rev \in Nat /\ x.arm \in Nat
      BY <1>5 DEF Row
    <3> HIDE DEF x
    <3> QED BY <1>5, <3>1 DEF Later
  <2>2. \A q \in Rules \ {r} : Later(rule[q], rule'[q])
    BY <1>6, LaterRefl DEF Typed
  <2> QED BY <1>6, <2>1, <2>2
<1>8. \A q \in Rules : rule'[q].exists => 1 <= rule'[q].rev
  <2>1. 1 <= rule'[r].rev
    BY <1>1, <1>2, <1>5, <1>6 DEF History, r
  <2> QED BY <1>6, <2>1 DEF History
<1>9. CASE ~Triggers(p, r, v)
  BY <1>3, <1>7, <1>8, <1>9, SilentStep
<1>10. CASE Triggers(p, r, v)
  <2> DEFINE n == [rule |-> r, arm |-> x.arm, rev |-> x.rev, at |-> job[p].at,
                   key |-> KeyOf(p, r, v)]
  <2>1. fired' = fired \cup {n}
    BY <1>3, <1>10
  <2>2. x.state # "true" /\ x.status = "active"
    BY <1>10 DEF Triggers, IsOn
  <2>3. n.rule = r /\ n.arm = x.arm /\ n.rev = x.rev
    OBVIOUS
  <2>4. x.rev \in Nat /\ x.arm \in Nat /\ 1 <= x.rev
    BY <1>1, <1>2, <1>5 DEF Row, History, r
  <2> HIDE DEF n
  <2>5. \A e \in fired : e.rule = r => e.arm < x.arm /\ (x.once => e.rev # x.rev)
    <3> SUFFICES ASSUME NEW e \in fired, e.rule = r
                 PROVE  e.arm < x.arm /\ (x.once => e.rev # x.rev)
      OBVIOUS
    <3>1. e.arm \in Nat /\ Trace(e)
      BY DEF Typed, Announcement, History
    <3>2. /\ e.arm <= x.arm /\ (e.arm = x.arm => x.state = "true")
          /\ x.once /\ e.rev = x.rev => x.status = "completed"
      BY <3>1 DEF Trace
    <3> QED BY <2>2, <2>4, <3>1, <3>2
  <2>7. ASSUME NEW e \in fired
        PROVE  Trace(e)' /\ rule'[e.rule].once = rule[e.rule].once
    <3>1. CASE e.rule # r
      BY <1>6, <3>1 DEF Typed, Announcement, History, Trace
    <3>2. CASE e.rule = r
      <4>1. e.arm \in Nat /\ Trace(e)
        BY DEF Typed, Announcement, History
      <4>2. /\ 1 <= e.rev /\ e.rev <= x.rev /\ e.arm < x.arm
            /\ x.once => e.rev # x.rev
        BY <2>5, <3>2, <4>1 DEF Trace
      <4>3. y.arm = x.arm
        BY <1>5, <1>10
      <4>4. /\ 1 <= e.rev /\ e.rev <= y.rev /\ e.arm <= y.arm /\ e.arm # y.arm
            /\ y.once => e.rev # y.rev
        BY <1>5, <2>4, <4>1, <4>2, <4>3
      <4> QED BY <1>5, <1>6, <3>2, <4>4 DEF Trace
    <3> QED BY <3>1, <3>2
  <2>8. ASSUME NEW e, e = n PROVE Trace(e)'
    <3>1. rule'[e.rule] = y
      BY <1>6, <2>3, <2>8
    <3>2. y.rev = e.rev /\ y.arm = e.arm /\ y.state = "true"
          /\ (y.once => y.status = "completed")
      BY <1>5, <1>10, <2>3, <2>8
    <3>3. e.rev \in Nat /\ e.arm \in Nat /\ 1 <= e.rev
      BY <2>3, <2>4, <2>8
    <3>4. 1 <= e.rev /\ e.rev <= y.rev /\ e.arm <= y.arm
      BY <3>2, <3>3
    <3> QED BY <3>1, <3>2, <3>4 DEF Trace
  <2>9. OneTriggerPerArming'
    <3> SUFFICES ASSUME NEW e \in fired', NEW f \in fired', e.rule = f.rule, e.arm = f.arm
                 PROVE  e = f
      BY DEF OneTriggerPerArming
    <3>1. \A g \in fired : g.rule = r => g.arm # x.arm
      <4> SUFFICES ASSUME NEW g \in fired, g.rule = r PROVE g.arm # x.arm
        OBVIOUS
      <4>1. g.arm < x.arm /\ g.arm \in Nat
        BY <2>5 DEF Typed, Announcement
      <4> QED BY <2>4, <4>1
    <3>2. e \in fired \/ e = n
      BY <2>1
    <3>3. f \in fired \/ f = n
      BY <2>1
    <3> QED BY <2>3, <3>1, <3>2, <3>3 DEF History, OneTriggerPerArming
  <2>10. OneShotFiresOnce'
    <3> SUFFICES ASSUME NEW e \in fired', NEW f \in fired', e.rule = f.rule,
                        rule'[e.rule].once, e.rev = f.rev
                 PROVE  e = f
      BY DEF OneShotFiresOnce
    <3>1. e \in fired \/ e = n
      BY <2>1
    <3>2. f \in fired \/ f = n
      BY <2>1
    <3>3. rule'[r].once = x.once
      BY <1>5, <1>6
    <3>4. \A g \in fired : ~(g.rule = r /\ x.once /\ g.rev = x.rev)
      BY <2>5
    <3>5. CASE e \in fired /\ f \in fired
      BY <2>7, <3>5 DEF History, OneShotFiresOnce
    <3>6. CASE e = n /\ f \in fired
      BY <2>3, <3>3, <3>4, <3>6
    <3>7. CASE e \in fired /\ f = n
      BY <2>3, <3>3, <3>4, <3>7
    <3> QED BY <3>1, <3>2, <3>5, <3>6, <3>7
  <2>11. \A e \in fired' : Trace(e)'
    BY <2>1, <2>7, <2>8
  <2> QED BY <1>8, <2>9, <2>10, <2>11 DEF History
<1> QED BY <1>9, <1>10


LEMMA EditHistory ==
  ASSUME Typed, Typed', History, NEW r \in Rules, NEW row \in Row, Edit(r, row),
         Later(rule[r], row), row.exists => 1 <= row.rev
  PROVE  History'
<1>1. rule' = [rule EXCEPT ![r] = row] /\ UNCHANGED fired
  BY DEF Edit
<1>2. rule'[r] = row /\ \A q \in Rules \ {r} : rule'[q] = rule[q]
  BY <1>1 DEF Typed
<1>3. \A q \in Rules : Later(rule[q], rule'[q])
  BY <1>2, LaterRefl DEF Typed
<1>4. \A q \in Rules : rule'[q].exists => 1 <= rule'[q].rev
  BY <1>2 DEF History
<1> QED BY <1>1, <1>3, <1>4, SilentStep

LEMMA EditsHistory ==
  ASSUME Typed, Typed', History, NEW r \in Rules,
         CreateRule(r) \/ SetEnabled(r) \/ UpdateRule(r) \/ DeleteRule(r)
  PROVE  History'
<1> DEFINE x == rule[r]
<1>1. x \in Row /\ (x.exists => 1 <= x.rev)
  BY DEF Typed, History
<1>2. x.rev \in Nat /\ x.arm \in Nat /\ x.enabled \in BOOLEAN
  BY <1>1 DEF Row
<1>3. CASE CreateRule(r)
  <2>1. PICK d \in Directions : Edit(r, NewRow(d, FALSE))
    BY <1>3 DEF CreateRule
  <2>2. Later(x, NewRow(d, FALSE))
    <3>1. x = NoRow
      BY <1>3 DEF CreateRule
    <3> QED BY <3>1 DEF Later
  <2>3. NewRow(d, FALSE) \in Row /\ NewRow(d, FALSE).rev = 1
    BY RowsTyped DEF NewRow
  <2> DEFINE y == NewRow(d, FALSE)
  <2>4. y \in Row /\ y.rev = 1 /\ Later(x, y) /\ Edit(r, y)
    BY <2>1, <2>2, <2>3
  <2> HIDE DEF y
  <2> QED BY <2>4, EditHistory
<1>4. CASE SetEnabled(r)
  <2>1. PICK b \in BOOLEAN : Edit(r, [x EXCEPT !.enabled = b])
    BY <1>4 DEF SetEnabled
  <2> DEFINE y == [x EXCEPT !.enabled = b]
  <2>4. Edit(r, y)
    BY <2>1
  <2> HIDE DEF x
  <2>2. /\ y \in Row /\ y.rev = x.rev /\ y.arm = x.arm /\ y.once = x.once
        /\ y.state = x.state /\ y.status = x.status /\ y.exists = x.exists
    BY <1>1 DEF Row
  <2> HIDE DEF y
  <2>3. Later(x, y)
    BY <1>2, <2>2 DEF Later
  <2> QED BY <1>1, <2>2, <2>3, <2>4, EditHistory DEF x
<1>5. CASE UpdateRule(r)
  <2>1. PICK d \in Directions, b \in {TRUE, rule[r].enabled} :
          Edit(r, UpdatedRow(x, d, b))
    BY <1>5 DEF UpdateRule, UpdatedRow
  <2> DEFINE y == UpdatedRow(x, d, b)
  <2>2. /\ y \in Row /\ y.rev = x.rev + 1 /\ y.arm = x.arm + 1 /\ y.once = x.once
    <3>1. b \in BOOLEAN
      BY <1>2
    <3> HIDE DEF x
    <3> QED BY <1>1, <3>1, UpdatedFacts
  <2> HIDE DEF y
  <2>3. Later(x, y) /\ 1 <= y.rev
    BY <1>2, <2>2 DEF Later
  <2>4. Edit(r, y)
    BY <2>1 DEF y
  <2> QED BY <2>2, <2>3, <2>4, EditHistory
<1>6. CASE DeleteRule(r)
  <2> DEFINE y == [x EXCEPT !.exists = FALSE]
  <2>1. Edit(r, y)
    BY <1>6 DEF DeleteRule
  <2> HIDE DEF x
  <2>2. /\ y \in Row /\ y.rev = x.rev /\ y.arm = x.arm /\ y.once = x.once
        /\ y.state = x.state /\ y.status = x.status /\ ~y.exists
    BY <1>1 DEF Row
  <2> HIDE DEF y
  <2>3. Later(x, y)
    BY <1>2, <2>2 DEF Later
  <2> QED BY <2>1, <2>2, <2>3, EditHistory DEF x
<1> QED BY <1>3, <1>4, <1>5, <1>6

LEMMA StepHistory == Typed /\ Typed' /\ History /\ [Next]_vars => History'
<1> SUFFICES ASSUME Typed, Typed', History, [Next]_vars PROVE History'
  OBVIOUS
<1>1. ASSUME UNCHANGED <<rule, fired>> PROVE History'
  BY <1>1, SilentStep, LaterRefl DEF Typed, History
<1>2. ASSUME NEW p \in Procs, Work(p) \/ Restart(p) \/ ManualCheck(p) PROVE History'
  <2>1. CASE Evaluate(p)
    BY <2>1, EvaluateHistory
  <2>2. CASE ~Evaluate(p)
    <3>1. UNCHANGED <<rule, fired>>
      BY <1>2, <2>2 DEF Work, Restart, ManualCheck, Beat, BeginCheck, NothingDue,
         LoadQuotes, Unavailable, CompleteCheck, FailCheck
    <3> QED BY <1>1, <3>1
  <2> QED BY <2>1, <2>2
<1>3. ASSUME NEW r \in Rules, CreateRule(r) \/ SetEnabled(r) \/ UpdateRule(r) \/ DeleteRule(r)
      PROVE  History'
  BY <1>3, EditsHistory
<1>4. CASE Tick \/ UNCHANGED vars
  BY <1>1, <1>4 DEF Tick, vars
<1> QED BY <1>2, <1>3, <1>4 DEF Next, Procs

LEMMA InitHistory == Init => History
<1> SUFFICES ASSUME Init PROVE History
  OBVIOUS
<1>1. NoRow.exists = FALSE
  BY DEF NoRow, NewRow
<1>2. \A once \in BOOLEAN : StoredRow(once).rev = 1
  BY DEF StoredRow, NewRow
<1>3. \A r \in Rules : rule[r].exists => 1 <= rule[r].rev
  BY <1>1, <1>2 DEF Init
<1> QED BY <1>3 DEF Init, History, OneTriggerPerArming, OneShotFiresOnce

LEMMA HistoryCorrect == Spec => [](Typed /\ History)
<1>1. Init => Typed /\ History
  BY InitTyped, InitHistory
<1>2. Typed /\ History /\ [Next]_vars => Typed' /\ History'
  BY StepTyped, StepHistory
<1> QED BY <1>1, <1>2, PTL DEF Spec

\* A rule announces at most once in each of its armings, however many
\* processes check it and however old the rows they had read.
THEOREM TriggerOnce == Spec => []OneTriggerPerArming
<1>1. History => OneTriggerPerArming
  BY DEF History
<1> QED BY <1>1, HistoryCorrect, PTL

\* A one-shot rule announces at most once in each revision: switching it on
\* again does not bring it back.
THEOREM OneShotOnce == Spec => []OneShotFiresOnce
<1>1. History => OneShotFiresOnce
  BY DEF History
<1> QED BY <1>1, HistoryCorrect, PTL


-----------------------------------------------------------------------------
(***************************************************************************)
(* The refinement: a check's record of a rule announces it, arms it again  *)
(* or changes nothing AlertArming sees; an edit switches rules on and off  *)
(* or arms one again.                                                      *)
(***************************************************************************)
Cycle == [r \in Rules |-> rule[r].arm]

Told == {<<e.rule, e.arm>> : e \in fired}

LEMMA RowChange ==
  ASSUME Typed, NEW r \in Rules, NEW y \in Row, rule' = [rule EXCEPT ![r] = y]
  PROVE  /\ OnRules' = IF IsOn(y) THEN OnRules \cup {r} ELSE OnRules \ {r}
         /\ Cycle' = [Cycle EXCEPT ![r] = y.arm]
<1>1. rule'[r] = y /\ \A q \in Rules \ {r} : rule'[q] = rule[q]
  BY DEF Typed
<1>2. OnRules' = {q \in Rules : IsOn(rule'[q])}
  BY DEF OnRules, IsOn
<1>3. OnRules' = IF IsOn(y) THEN OnRules \cup {r} ELSE OnRules \ {r}
  <2>1. \A q \in Rules \ {r} : q \in OnRules' <=> q \in OnRules
    BY <1>1, <1>2 DEF OnRules
  <2>2. r \in OnRules' <=> IsOn(y)
    BY <1>1, <1>2
  <2>3. OnRules' \subseteq Rules /\ OnRules \subseteq Rules
    BY <1>2 DEF OnRules
  <2> QED BY <2>1, <2>2, <2>3
<1>4. Cycle' = [Cycle EXCEPT ![r] = y.arm]
  <2>1. Cycle' = [q \in Rules |-> rule'[q].arm]
    BY DEF Cycle
  <2>2. [Cycle EXCEPT ![r] = y.arm]
          = [q \in Rules |-> IF q = r THEN y.arm ELSE rule[q].arm]
    BY DEF Cycle
  <2>3. \A q \in Rules : rule'[q].arm = IF q = r THEN y.arm ELSE rule[q].arm
    BY <1>1
  <2> QED BY <2>1, <2>2, <2>3
<1> QED BY <1>3, <1>4

LEMMA ToldKept == ASSUME UNCHANGED fired PROVE Told' = Told
BY DEF Told

LEMMA AnnounceStep ==
  ASSUME NEW r \in Rules, r \in OnRules, <<r, Cycle[r]>> \notin Told,
         Told' = Told \cup {<<r, Cycle[r]>>}, Cycle' = Cycle,
         OnRules' \in {OnRules, OnRules \ {r}}
  PROVE  Arming!Next
BY DEF Arming!Next, Arming!Announce, Cycle, Told

LEMMA RearmStep ==
  ASSUME NEW r \in Rules, Cycle' = [Cycle EXCEPT ![r] = @ + 1], Told' = Told,
         OnRules' \in {OnRules, OnRules \cup {r}, OnRules \ {r}}
  PROVE  Arming!Next
BY DEF Arming!Next, Arming!Rearm, Cycle, Told

LEMMA SwitchStep ==
  ASSUME NEW r \in Rules, Cycle' = Cycle, Told' = Told,
         OnRules' \in {OnRules \cup {r}, OnRules \ {r}}
  PROVE  Arming!Next
BY DEF Arming!Next, Arming!Switch, Cycle, Told

LEMMA ArmingStutters ==
  ASSUME UNCHANGED <<rule, fired>>
  PROVE  UNCHANGED Arming!armingVars
BY DEF Arming!armingVars, OnRules, IsOn

LEMMA EvaluateArming ==
  ASSUME Typed, History, NEW p \in Procs, Evaluate(p)
  PROVE  Arming!Next
<1> DEFINE r == NextRule(p)
<1>1. job[p].pc = "recording" /\ Todo(p) # {}
  BY DEF Evaluate
<1>2. r \in Todo(p) /\ r \in Rules
  BY <1>1, RecordedTyped
<1>3. PICK v \in ObservationsOf(p, r) \ {None} :
        /\ rule' = [rule EXCEPT ![r] = Evaluated(p, r, v)]
        /\ fired' = IF Triggers(p, r, v)
                     THEN fired \cup {[rule |-> r, arm |-> rule[r].arm,
                            rev |-> rule[r].rev, at |-> job[p].at, key |-> KeyOf(p, r, v)]}
                     ELSE fired
  BY DEF Evaluate
<1>4. v \in Observed
  BY <1>1, <1>2, ObservationTyped
<1> HIDE DEF r
<1> DEFINE x == rule[r]
           y == Evaluated(p, r, v)
<1>5. /\ y \in Row /\ y.arm \in {x.arm, x.arm + 1}
      /\ IsOn(y) <=> IsOn(x) /\ ~(Triggers(p, r, v) /\ x.once)
      /\ Triggers(p, r, v) => y.arm = x.arm /\ IsOn(x) /\ x.state # "true"
  <2>1. Triggers(p, r, v) => IsOn(x) /\ x.state # "true"
    BY DEF Triggers
  <2> QED BY <1>2, <1>4, <2>1, CheckedFacts, EvaluatedFacts
<1>6. /\ OnRules' = IF IsOn(y) THEN OnRules \cup {r} ELSE OnRules \ {r}
      /\ Cycle' = [Cycle EXCEPT ![r] = y.arm]
  BY <1>2, <1>3, <1>5, RowChange
<1>7. Cycle[r] = x.arm /\ Cycle \in [Rules -> Nat] /\ (r \in OnRules <=> IsOn(x))
  <2>1. \A q \in Rules : rule[q].arm \in Nat
    BY DEF Typed, Row
  <2> QED BY <1>2, <2>1 DEF Cycle, OnRules
<1> HIDE DEF y
<1>8. CASE Triggers(p, r, v)
  <2>1. Told' = Told \cup {<<r, x.arm>>}
    <3> DEFINE n == [rule |-> r, arm |-> x.arm, rev |-> x.rev, at |-> job[p].at,
                     key |-> KeyOf(p, r, v)]
    <3>1. fired' = fired \cup {n} /\ n.rule = r /\ n.arm = x.arm
      BY <1>3, <1>8
    <3> HIDE DEF n
    <3> QED BY <3>1 DEF Told
  <2>2. <<r, x.arm>> \notin Told
    <3>1. \A e \in fired : e.rule = r => e.arm # x.arm
      BY <1>5, <1>8 DEF History, Trace
    <3> QED BY <3>1 DEF Told
  <2>3. Cycle' = Cycle
    BY <1>5, <1>6, <1>7, <1>8
  <2>4. OnRules' \in {OnRules, OnRules \ {r}}
    BY <1>5, <1>6, <1>7, <1>8
  <2> QED BY <1>2, <1>5, <1>7, <1>8, <2>1, <2>2, <2>3, <2>4, AnnounceStep
<1>9. CASE ~Triggers(p, r, v)
  <2>1. Told' = Told
    BY <1>3, <1>9, ToldKept
  <2>2. CASE y.arm = x.arm
    <3>1. Cycle' = Cycle
      BY <1>6, <1>7, <2>2
    <3> QED BY <1>2, <1>6, <2>1, <3>1, SwitchStep
  <2>3. CASE y.arm = x.arm + 1
    <3>1. Cycle' = [Cycle EXCEPT ![r] = @ + 1]
      BY <1>2, <1>6, <1>7, <2>3
    <3> QED BY <1>2, <1>6, <2>1, <3>1, RearmStep
  <2> QED BY <1>5, <2>2, <2>3
<1> QED BY <1>8, <1>9

LEMMA EditsArming ==
  ASSUME Typed, NEW r \in Rules,
         CreateRule(r) \/ SetEnabled(r) \/ UpdateRule(r) \/ DeleteRule(r)
  PROVE  Arming!Next
<1> DEFINE x == rule[r]
<1>1. x \in Row /\ x.arm \in Nat /\ x.enabled \in BOOLEAN
  BY DEF Typed, Row
<1>2. Cycle \in [Rules -> Nat] /\ Cycle[r] = x.arm
  <2>1. \A q \in Rules : rule[q].arm \in Nat
    BY DEF Typed, Row
  <2> QED BY <2>1 DEF Cycle
<1>3. ASSUME NEW y \in Row, Edit(r, y), y.arm = x.arm PROVE Arming!Next
  <2>1. /\ OnRules' = IF IsOn(y) THEN OnRules \cup {r} ELSE OnRules \ {r}
        /\ Cycle' = [Cycle EXCEPT ![r] = y.arm] /\ Told' = Told
    BY <1>3, RowChange, ToldKept DEF Edit
  <2>2. Cycle' = Cycle
    BY <1>2, <1>3, <2>1
  <2> QED BY <2>1, <2>2, SwitchStep
<1>4. CASE CreateRule(r)
  <2>1. PICK d \in Directions : Edit(r, NewRow(d, FALSE))
    BY <1>4 DEF CreateRule
  <2> DEFINE y == NewRow(d, FALSE)
  <2>2. y \in Row /\ y.arm = 1
    BY RowsTyped DEF NewRow
  <2>3. x.arm = 1
    BY <1>4 DEF CreateRule, NoRow, NewRow
  <2>4. Edit(r, y)
    BY <2>1
  <2> HIDE DEF y
  <2> QED BY <1>3, <2>2, <2>3, <2>4
<1>5. CASE SetEnabled(r)
  <2>1. PICK b \in BOOLEAN : Edit(r, [x EXCEPT !.enabled = b])
    BY <1>5 DEF SetEnabled
  <2> DEFINE y == [x EXCEPT !.enabled = b]
  <2>2. Edit(r, y)
    BY <2>1
  <2>3. y \in Row /\ y.arm = x.arm
    <3> HIDE DEF x
    <3> QED BY <1>1 DEF Row
  <2> HIDE DEF y
  <2> QED BY <1>3, <2>2, <2>3
<1>6. CASE DeleteRule(r)
  <2> DEFINE y == [x EXCEPT !.exists = FALSE]
  <2>2. Edit(r, y)
    BY <1>6 DEF DeleteRule
  <2>3. y \in Row /\ y.arm = x.arm
    <3> HIDE DEF x
    <3> QED BY <1>1 DEF Row
  <2> HIDE DEF y
  <2> QED BY <1>3, <2>2, <2>3
<1>7. CASE UpdateRule(r)
  <2>1. PICK d \in Directions, b \in {TRUE, rule[r].enabled} :
          Edit(r, UpdatedRow(x, d, b))
    BY <1>7 DEF UpdateRule, UpdatedRow
  <2> DEFINE y == UpdatedRow(x, d, b)
  <2>2. y \in Row /\ y.arm = x.arm + 1
    <3>1. b \in BOOLEAN
      BY <1>1
    <3> HIDE DEF x
    <3> QED BY <1>1, <3>1, UpdatedFacts
  <2>3. Edit(r, y)
    BY <2>1
  <2> HIDE DEF y
  <2>4. /\ OnRules' = IF IsOn(y) THEN OnRules \cup {r} ELSE OnRules \ {r}
        /\ Cycle' = [Cycle EXCEPT ![r] = y.arm] /\ Told' = Told
    BY <2>2, <2>3, RowChange, ToldKept DEF Edit
  <2>5. Cycle' = [Cycle EXCEPT ![r] = @ + 1]
    BY <1>2, <2>2, <2>4
  <2> QED BY <2>4, <2>5, RearmStep
<1> QED BY <1>4, <1>5, <1>6, <1>7

LEMMA StepArming == Typed /\ History /\ [Next]_vars => [Arming!Next]_Arming!armingVars
<1> SUFFICES ASSUME Typed, History, [Next]_vars
             PROVE  Arming!Next \/ UNCHANGED Arming!armingVars
  OBVIOUS
<1>1. ASSUME NEW p \in Procs, Work(p) \/ Restart(p) \/ ManualCheck(p)
      PROVE  Arming!Next \/ UNCHANGED Arming!armingVars
  <2>1. CASE Evaluate(p)
    BY <2>1, EvaluateArming
  <2>2. CASE ~Evaluate(p)
    <3>1. UNCHANGED <<rule, fired>>
      BY <1>1, <2>2 DEF Work, Restart, ManualCheck, Beat, BeginCheck, NothingDue,
         LoadQuotes, Unavailable, CompleteCheck, FailCheck
    <3> QED BY <3>1, ArmingStutters
  <2> QED BY <2>1, <2>2
<1>2. CASE Tick \/ UNCHANGED vars
  BY <1>2, ArmingStutters DEF Tick, vars
<1> QED BY <1>1, <1>2, EditsArming DEF Next, Procs

LEMMA InitArming == Init => Arming!Init
<1> SUFFICES ASSUME Init PROVE Arming!Init
  OBVIOUS
<1>1. \A once \in BOOLEAN : StoredRow(once).arm = 1
  BY DEF StoredRow, NewRow
<1>2. NoRow.arm = 1
  BY DEF NoRow, NewRow
<1>3. \A r \in Rules : rule[r].arm = 1
  BY <1>1, <1>2 DEF Init
<1>4. OnRules \subseteq Rules
  BY DEF OnRules
<1> QED BY <1>3, <1>4 DEF Init, Arming!Init

\* The stored rules and the checks of all processes implement AlertArming: a
\* rule announces only while it is on, once per arming, and is armed again by
\* nothing but a false condition or an edit.
THEOREM ImplementsArming == Spec => ArmingSpec
<1>1. Init => Arming!Init
  BY InitArming
<1>2. Typed /\ History /\ [Next]_vars => [Arming!Next]_Arming!armingVars
  BY StepArming
<1> QED BY <1>1, <1>2, HistoryCorrect, PTL DEF Spec, ArmingSpec, Arming!Spec


-----------------------------------------------------------------------------
(***************************************************************************)
(* Crossings.  What a check has read of a rule is of the arming the row is *)
(* in or of an earlier one, since armings only grow.                       *)
(***************************************************************************)
LEMMA ArmGrows ==
  ASSUME Typed, History, [Next]_vars, NEW r \in Rules
  PROVE  rule[r].arm \in Nat /\ rule'[r].arm \in {rule[r].arm, rule[r].arm + 1}
<1>1. \A q \in Rules : rule[q].arm \in Nat
  BY DEF Typed, Row
<1>2. Cycle[r] = rule[r].arm /\ Cycle'[r] = rule'[r].arm /\ Cycle \in [Rules -> Nat]
  BY <1>1 DEF Cycle
<1>3. Arming!Next \/ UNCHANGED Arming!armingVars
  BY StepArming
<1>4. ASSUME UNCHANGED Arming!armingVars PROVE Cycle' = Cycle
  BY <1>4 DEF Arming!armingVars, Cycle
<1>5. ASSUME NEW q \in Rules, Arming!Announce(q) PROVE Cycle' = Cycle
  BY <1>5 DEF Arming!Announce, Cycle
<1>6. ASSUME NEW q \in Rules, Arming!Switch(q) PROVE Cycle' = Cycle
  BY <1>6 DEF Arming!Switch, Cycle
<1>7. ASSUME NEW q \in Rules, Arming!Rearm(q) PROVE Cycle' = [Cycle EXCEPT ![q] = @ + 1]
  BY <1>7 DEF Arming!Rearm, Cycle
<1>8. Cycle' = Cycle \/ \E q \in Rules : Cycle' = [Cycle EXCEPT ![q] = @ + 1]
  BY <1>3, <1>4, <1>5, <1>6, <1>7 DEF Arming!Next
<1> QED BY <1>1, <1>2, <1>8

(* What a process has read of the rules it has yet to record. *)
NotAhead(p) == \A r \in DOMAIN job[p].snap : job[p].snap[r].arm <= rule[r].arm

LEMMA ReadKept ==
  ASSUME Typed, Typed', History, [Next]_vars, NEW p \in Procs, NotAhead(p),
         job'[p].snap = job[p].snap
  PROVE  NotAhead(p)'
<1>1. job[p] \in Job
  BY DEF Typed
<1>2. DOMAIN job[p].snap \subseteq Rules /\ job[p].snap \in [DOMAIN job[p].snap -> Row]
  BY <1>1, PartialElim DEF Job
<1> SUFFICES ASSUME NEW r \in DOMAIN job[p].snap PROVE job[p].snap[r].arm <= rule'[r].arm
  BY DEF NotAhead
<1>3. job[p].snap[r].arm \in Nat
  BY <1>2 DEF Row
<1> QED BY <1>2, <1>3, ArmGrows DEF NotAhead

LEMMA ReadIdle == ASSUME NEW p \in Procs, job'[p] = IdleJob PROVE NotAhead(p)'
<1>1. DOMAIN IdleJob.snap = {}
  BY DEF IdleJob
<1> QED BY <1>1 DEF NotAhead

LEMMA SetSets ==
  ASSUME Typed, NEW p \in Procs, NEW j, Set(p, j)
  PROVE  job'[p] = j /\ \A q \in Procs \ {p} : job'[q] = job[q]
BY DEF Set, Typed

LEMMA ReadStart ==
  ASSUME Typed, NEW p \in Procs, NEW at, NEW kind, StartCheck(p, at, kind), UNCHANGED rule
  PROVE  NotAhead(p)'
<1> DEFINE s == [r \in OnRules |-> rule[r]]
<1>1. job'[p] = [IdleJob EXCEPT !.pc = "quotes", !.at = at, !.kind = kind, !.snap = s]
  BY SetSets DEF StartCheck
<1>2. job'[p].snap = s
  <2> HIDE DEF s
  <2> QED BY <1>1 DEF IdleJob
<1>3. OnRules \subseteq Rules /\ \A r \in Rules : rule[r].arm \in Nat
  BY DEF OnRules, Typed, Row
<1> QED BY <1>2, <1>3 DEF NotAhead

LEMMA ReadRecorded ==
  ASSUME Typed, Typed', History, [Next]_vars, NEW p \in Procs, NotAhead(p),
         job[p].pc = "recording", Todo(p) # {}, Set(p, Recorded(p))
  PROVE  NotAhead(p)'
<1> DEFINE left == Todo(p) \ {NextRule(p)}
           s == Restrict(job[p].snap, left)
           o == Restrict(job[p].obs, left \ HistoryRules)
<1>1. job[p] \in Job
  BY DEF Typed
<1>2. DOMAIN job[p].snap \subseteq Rules /\ job[p].snap \in [DOMAIN job[p].snap -> Row]
  BY <1>1, PartialElim DEF Job
<1>3. job'[p] = [job[p] EXCEPT !.snap = s, !.obs = o]
  BY SetSets DEF Recorded
<1>4. job'[p].snap = s
  <2> HIDE DEF s, o
  <2> QED BY <1>1, <1>3 DEF Job
<1>5. DOMAIN s = left /\ \A r \in left : s[r] = job[p].snap[r]
  BY DEF Restrict
<1> SUFFICES ASSUME NEW r \in left PROVE job[p].snap[r].arm <= rule'[r].arm
  BY <1>4, <1>5 DEF NotAhead
<1>6. r \in DOMAIN job[p].snap /\ r \in Rules /\ job[p].snap[r].arm \in Nat
  BY <1>2 DEF Todo, Row
<1> QED BY <1>6, ArmGrows DEF NotAhead

(* Every announcement bears the arming its check had read, which was the   *)
(* row's or an earlier one.                                                *)
Keyed(e) == e.key[1] = e.rule /\ e.key[3] \in Nat /\ e.key[3] <= e.arm

LEMMA EvaluateKeyed ==
  ASSUME Typed, NEW p \in Procs, NotAhead(p), \A e \in fired : Keyed(e), Evaluate(p)
  PROVE  \A e \in fired' : Keyed(e)
<1> DEFINE r == NextRule(p)
<1>1. job[p].pc = "recording" /\ Todo(p) # {}
  BY DEF Evaluate
<1>2. r \in Todo(p) /\ r \in Rules
  BY <1>1, RecordedTyped
<1>3. PICK v \in ObservationsOf(p, r) \ {None} :
        fired' = IF Triggers(p, r, v)
                   THEN fired \cup {[rule |-> r, arm |-> rule[r].arm,
                            rev |-> rule[r].rev, at |-> job[p].at, key |-> KeyOf(p, r, v)]}
                   ELSE fired
  BY DEF Evaluate
<1>4. job[p] \in Job
  BY DEF Typed
<1>5. job[p].snap \in [Todo(p) -> Row]
  BY <1>4, PartialElim DEF Job, Todo
<1>6. job[p].snap[r].arm \in Nat /\ job[p].snap[r].arm <= rule[r].arm
  BY <1>2, <1>5 DEF Row, NotAhead, Todo
<1> DEFINE n == [rule |-> r, arm |-> rule[r].arm, rev |-> rule[r].rev, at |-> job[p].at,
                 key |-> KeyOf(p, r, v)]
<1> HIDE DEF r
<1>7. KeyOf(p, r, v)[1] = r /\ KeyOf(p, r, v)[3] = job[p].snap[r].arm
  BY DEF KeyOf, DedupeKey
<1>8. Keyed(n)
  BY <1>6, <1>7 DEF Keyed
<1>9. fired' = fired \cup {n} \/ fired' = fired
  BY <1>3
<1> HIDE DEF n
<1> QED BY <1>8, <1>9

Readings == (\A e \in fired : Keyed(e)) /\ (\A p \in Procs : NotAhead(p))

LEMMA InitReadings == Init => Readings
<1>1. DOMAIN IdleJob.snap = {}
  BY DEF IdleJob
<1> QED BY <1>1 DEF Init, Readings, NotAhead

LEMMA StepReadings == Typed /\ Typed' /\ History /\ Readings /\ [Next]_vars => Readings'
<1> SUFFICES ASSUME Typed, Typed', History, Readings, [Next]_vars PROVE Readings'
  OBVIOUS
<1>1. \A p \in Procs : job'[p] = job[p] => NotAhead(p)'
  BY ReadKept DEF Readings
<1>2. ASSUME UNCHANGED fired PROVE (\A e \in fired : Keyed(e))'
  BY <1>2 DEF Readings, Keyed
<1>3. ASSUME UNCHANGED job PROVE \A p \in Procs : NotAhead(p)'
  BY <1>1, <1>3
<1>4. ASSUME NEW p \in Procs, Work(p) \/ Restart(p) \/ ManualCheck(p)
      PROVE  Readings'
  <2>1. \A q \in Procs \ {p} : job'[q] = job[q]
    BY <1>4, SetSets DEF Work, Restart, ManualCheck, Beat, BeginCheck, NothingDue, EndBeat,
       LoadQuotes, Evaluate, Unavailable, CompleteCheck, FailCheck, StartCheck
  <2>2. (\A e \in fired : Keyed(e))'
    <3>1. CASE Evaluate(p)
      BY <3>1, EvaluateKeyed DEF Readings, Keyed
    <3>2. CASE ~Evaluate(p)
      <4>1. UNCHANGED fired
        BY <1>4, <3>2 DEF Work, Restart, ManualCheck, Beat, BeginCheck, NothingDue,
           LoadQuotes, Unavailable, CompleteCheck, FailCheck
      <4> QED BY <1>2, <4>1
    <3> QED BY <3>1, <3>2
  <2>3. NotAhead(p)
    BY DEF Readings
  <2>4. ASSUME EndBeat(p) PROVE NotAhead(p)'
    BY <2>4, SetSets, ReadIdle DEF EndBeat
  <2>5. CASE Restart(p) \/ NothingDue(p) \/ CompleteCheck(p) \/ FailCheck(p)
    BY <1>4, <2>1, <2>2, <2>4, <2>5, <1>1 DEF Restart, NothingDue, CompleteCheck, FailCheck, Readings
  <2>6. CASE ManualCheck(p)
    <3>1. NotAhead(p)'
      BY <2>6, ReadStart DEF ManualCheck
    <3> QED BY <3>1, <2>1, <2>2, <1>1 DEF Readings
  <2>7. CASE BeginCheck(p)
    <3>1. NotAhead(p)'
      BY <2>7, ReadStart DEF BeginCheck
    <3> QED BY <3>1, <2>1, <2>2, <1>1 DEF Readings
  <2>8. CASE Evaluate(p) \/ Unavailable(p)
    <3>1. NotAhead(p)'
      BY <2>8, <2>3, ReadRecorded DEF Evaluate, Unavailable
    <3> QED BY <3>1, <2>1, <2>2, <1>1 DEF Readings
  <2>9. CASE Beat(p)
    <3> DEFINE kind == IF LeaseIsCurrent THEN "heartbeat" ELSE "resume"
    <3>1. job'[p] = [IdleJob EXCEPT !.pc = "reports", !.at = now, !.kind = kind]
      BY <2>9, SetSets DEF Beat
    <3> HIDE DEF kind
    <3>2. job'[p].snap = <<>>
      BY <3>1 DEF IdleJob
    <3>3. NotAhead(p)'
      BY <3>2 DEF NotAhead
    <3> QED BY <3>3, <2>1, <2>2, <1>1 DEF Readings
  <2>10. CASE LoadQuotes(p)
    <3>1. job[p] \in Job
      BY DEF Typed
    <3>2. \E o \in [Todo(p) \ HistoryRules -> Observed] :
            job'[p] = [job[p] EXCEPT !.pc = "recording", !.obs = o, !.seen = now \div BucketTicks]
      BY <2>10, SetSets DEF LoadQuotes
    <3>3. job'[p].snap = job[p].snap
      BY <3>1, <3>2 DEF Job
    <3>4. NotAhead(p)'
      BY <3>3, <2>3, ReadKept
    <3> QED BY <3>4, <2>1, <2>2, <1>1 DEF Readings
  <2> QED BY <1>4, <2>5, <2>6, <2>7, <2>8, <2>9, <2>10 DEF Work
<1>5. ASSUME NEW r \in Rules, CreateRule(r) \/ SetEnabled(r) \/ UpdateRule(r) \/ DeleteRule(r)
      PROVE  Readings'
  <2>1. UNCHANGED <<fired, job>>
    BY <1>5 DEF CreateRule, SetEnabled, UpdateRule, DeleteRule, Edit
  <2> QED BY <2>1, <1>2, <1>3 DEF Readings
<1>6. CASE Tick \/ UNCHANGED vars
  <2>1. UNCHANGED <<fired, job>>
    BY <1>6 DEF Tick, vars
  <2> QED BY <2>1, <1>2, <1>3 DEF Readings
<1> QED BY <1>4, <1>5, <1>6 DEF Next, Procs

(***************************************************************************)
(* The check that reads an untouched row and sees a crossing inserts its   *)
(* event: the row's state is "false", and an event with the same key would *)
(* be of the row's own arming, in which nothing has been announced.        *)
(***************************************************************************)
LEMMA NotCrossingItself ==
  ASSUME NEW x \in Row, x.prev # None PROVE ~Crosses(x.dir, x.prev, x.prev)
<1>1. x.prev \in Int /\ x.dir \in {"above", "below"}
  BY AlertsAssumption DEF Row, Observed, Directions
<1> QED BY <1>1, AlertsAssumption DEF Crosses, ConditionIsTrue

LEMMA CrossesFromFalse ==
  ASSUME NEW x \in Row, x.prev # None, NEW v, Crosses(x.dir, x.prev, v)
  PROVE  ~ConditionIsTrue(x.dir, x.prev)
<1>1. x.prev \in Int /\ x.dir \in {"above", "below"}
  BY AlertsAssumption DEF Row, Observed, Directions
<1> QED BY <1>1, AlertsAssumption DEF Crosses, ConditionIsTrue

LEMMA EvaluateAnnounces ==
  ASSUME Typed, History, Readings, NEW p \in Procs, Evaluate(p), NEW r \in Rules,
         r = NextRule(p), CrossesNow(p, r), Untouched(p, r), Consistent(r)
  PROVE  Announced(r)
<1> DEFINE x == rule[r]
<1>1. job[p].pc = "recording" /\ Todo(p) # {} /\ r \in Todo(p)
  BY RecordedTyped DEF Evaluate
<1>2. PICK v \in ObservationsOf(p, r) \ {None} :
        /\ rule' = [rule EXCEPT ![r] = Evaluated(p, r, v)]
        /\ fired' = IF Triggers(p, r, v)
                     THEN fired \cup {[rule |-> r, arm |-> rule[r].arm,
                            rev |-> rule[r].rev, at |-> job[p].at, key |-> KeyOf(p, r, v)]}
                     ELSE fired
  BY DEF Evaluate
<1>3. x \in Row /\ job[p].snap[r] = x
  BY DEF Typed, Untouched
<1>4. v \in Observed
  BY <1>1, <1>2, ObservationTyped
<1>5. rule'[r].prev = v
  <2>1. rule'[r] = Evaluated(p, r, v)
    BY <1>2 DEF Typed
  <2>2. Evaluated(p, r, v).prev = Checked(p, r, v).prev
    <3>1. Checked(p, r, v) \in Row
      BY <1>4, CheckedFacts
    <3> DEFINE c == Checked(p, r, v)
    <3>2. Evaluated(p, r, v) \in {c, [c EXCEPT !.enabled = FALSE, !.status = "completed"]}
      BY DEF Evaluated
    <3>3. c \in Row
      BY <3>1
    <3> HIDE DEF c
    <3>4. Evaluated(p, r, v).prev = c.prev
      BY <3>2, <3>3 DEF Row
    <3> QED BY <3>4 DEF c
  <2>3. Checked(p, r, v).prev = v
    <3>1. \E s, a, l : Checked(p, r, v)
            = [x EXCEPT !.prev = v, !.state = s, !.arm = a, !.last = l]
      BY DEF Checked
    <3> HIDE DEF x
    <3> QED BY <1>3, <3>1 DEF Row
  <2> QED BY <2>1, <2>2, <2>3
<1>6. /\ IsOn(x) /\ x.prev # None /\ Crosses(x.dir, x.prev, v)
      /\ OutsideCooldown(x, job[p].at)
  BY <1>5 DEF CrossesNow
<1>7. x.state = "false"
  BY <1>3, <1>6, CrossesFromFalse DEF Consistent
<1>8. \A e \in fired : e.key # KeyOf(p, r, v)
  <2> SUFFICES ASSUME NEW e \in fired, e.key = KeyOf(p, r, v) PROVE FALSE
    OBVIOUS
  <2>1. KeyOf(p, r, v)[1] = r /\ KeyOf(p, r, v)[3] = x.arm
    BY <1>3 DEF KeyOf, DedupeKey
  <2>2. e.rule = r /\ x.arm <= e.arm
    BY <2>1 DEF Readings, Keyed
  <2>3. e.arm <= x.arm /\ (e.arm = x.arm => x.state = "true")
    BY <2>2 DEF History, Trace
  <2>4. e.arm \in Nat /\ x.arm \in Nat
    BY <1>3 DEF Typed, Announcement, Row
  <2> QED BY <1>7, <2>2, <2>3, <2>4
<1>9. Triggers(p, r, v)
  BY <1>3, <1>6, <1>7, <1>8 DEF Triggers, Inserts, WantsTrigger
<1> DEFINE n == [rule |-> r, arm |-> rule[r].arm, rev |-> rule[r].rev, at |-> job[p].at,
                 key |-> KeyOf(p, r, v)]
<1>10. n \in fired' /\ n.rule = r
  BY <1>2, <1>9
<1>11. n \notin fired
  <2>1. n.key = KeyOf(p, r, v)
    OBVIOUS
  <2> HIDE DEF n
  <2> QED BY <1>8, <2>1
<1> HIDE DEF n
<1> QED BY <1>10, <1>11 DEF Announced

(* Only a check records a rule, the next one of those it has left. *)
LEMMA RecordsNext ==
  ASSUME Typed, NEW p \in Procs, NEW r \in Rules, Records(p, r), [Next]_vars,
         job'[p].pc = "recording"
  PROVE  r = NextRule(p) /\ (Evaluate(p) \/ Unavailable(p))
<1>1. job'[p].snap # job[p].snap
  BY DEF Records, Todo
<1>2. job' # job
  BY <1>1
<1>3. PICK q \in Procs : Work(q) \/ Restart(q) \/ (q \in Checkers /\ ManualCheck(q))
  BY <1>2 DEF Next, vars, Tick, CreateRule, SetEnabled, UpdateRule, DeleteRule, Edit, Procs
<1>4. \A q1 \in Procs \ {q} : job'[q1] = job[q1]
  BY <1>3, SetSets DEF Work, Restart, ManualCheck, Beat, BeginCheck, NothingDue, EndBeat,
     LoadQuotes, Evaluate, Unavailable, CompleteCheck, FailCheck, StartCheck
<1>5. q = p
  BY <1>1, <1>4
<1>6. \A j : Set(p, j) => job'[p] = j
  BY SetSets
<1>7. ~EndBeat(p)
  BY <1>6 DEF EndBeat, IdleJob
<1>8. \A at, kind : ~StartCheck(p, at, kind)
  <2> SUFFICES ASSUME NEW at, NEW kind, StartCheck(p, at, kind) PROVE FALSE
    OBVIOUS
  <2> DEFINE s == [r1 \in OnRules |-> rule[r1]]
  <2>1. job'[p] = [IdleJob EXCEPT !.pc = "quotes", !.at = at, !.kind = kind, !.snap = s]
    BY <1>6 DEF StartCheck
  <2>2. job'[p].pc = "quotes"
    <3> HIDE DEF s
    <3> QED BY <2>1 DEF IdleJob
  <2> QED BY <2>2
<1>9. ~Beat(p)
  <2> SUFFICES ASSUME Beat(p) PROVE FALSE
    OBVIOUS
  <2> DEFINE kind == IF LeaseIsCurrent THEN "heartbeat" ELSE "resume"
  <2>1. job'[p] = [IdleJob EXCEPT !.pc = "reports", !.at = now, !.kind = kind]
    BY <1>6 DEF Beat
  <2>2. job'[p].pc = "reports"
    <3> HIDE DEF kind
    <3> QED BY <2>1 DEF IdleJob
  <2> QED BY <2>2
<1>10. ~LoadQuotes(p)
  <2> SUFFICES ASSUME LoadQuotes(p) PROVE FALSE
    OBVIOUS
  <2>1. job[p] \in Job
    BY DEF Typed
  <2>2. \E o, n : job'[p] = [job[p] EXCEPT !.pc = "recording", !.obs = o, !.seen = n]
    BY <1>6 DEF LoadQuotes
  <2>3. job'[p].snap = job[p].snap
    BY <2>1, <2>2 DEF Job
  <2> QED BY <1>1, <2>3
<1>11. Evaluate(p) \/ Unavailable(p)
  BY <1>3, <1>5, <1>7, <1>8, <1>9, <1>10
     DEF Work, Restart, ManualCheck, BeginCheck, NothingDue, CompleteCheck, FailCheck
<1>12. r = NextRule(p)
  <2> DEFINE left == Todo(p) \ {NextRule(p)}
             s == Restrict(job[p].snap, left)
             o == Restrict(job[p].obs, left \ HistoryRules)
  <2>1. job[p] \in Job
    BY DEF Typed
  <2>2. job'[p] = [job[p] EXCEPT !.snap = s, !.obs = o]
    BY <1>6, <1>11 DEF Evaluate, Unavailable, Recorded
  <2>3. job'[p].snap = s
    <3> HIDE DEF s, o
    <3> QED BY <2>1, <2>2 DEF Job
  <2>4. DOMAIN s = left
    BY DEF Restrict
  <2>5. Todo(p)' = left
    BY <2>3, <2>4 DEF Todo
  <2>6. NextRule(p) \in Todo(p)
    BY <1>11, RecordedTyped DEF Evaluate, Unavailable
  <2> QED BY <2>5, <2>6 DEF Records
<1> QED BY <1>11, <1>12

LEMMA CrossingStep ==
  ASSUME Typed, History, Readings, [Next]_vars, NEW p \in Procs, NEW r \in Rules,
         CrossesNow(p, r), Untouched(p, r), Consistent(r)
  PROVE  Announced(r)
<1>1. r = NextRule(p) /\ (Evaluate(p) \/ Unavailable(p))
  BY RecordsNext DEF CrossesNow
<1>2. ~Unavailable(p)
  <2> SUFFICES ASSUME Unavailable(p) PROVE FALSE
    OBVIOUS
  <2>1. rule' = rule
    BY DEF Unavailable
  <2>2. Crosses(rule[r].dir, rule[r].prev, rule[r].prev) /\ rule[r].prev # None
    BY <2>1 DEF CrossesNow
  <2>3. rule[r] \in Row
    BY DEF Typed
  <2> QED BY <2>2, <2>3, NotCrossingItself
<1> QED BY <1>1, <1>2, EvaluateAnnounces

\* A crossing that a check sees on a row nobody has written since it was read is
\* announced, whatever was announced before and by whomever.
THEOREM CrossingIsAnnounced == Spec => UntouchedCrossingFires
<1>1. Init => Typed /\ History /\ Readings
  BY InitTyped, InitHistory, InitReadings
<1>2. Typed /\ History /\ Readings /\ [Next]_vars => Typed' /\ History' /\ Readings'
  BY StepTyped, StepHistory, StepReadings
<1>3. Typed /\ History /\ Readings /\ [Next]_vars =>
        [\A p \in Procs : \A r \in Rules :
           CrossesNow(p, r) /\ Untouched(p, r) /\ Consistent(r) => Announced(r)]_vars
  BY CrossingStep
<1> QED BY <1>1, <1>2, <1>3, PTL DEF Spec, UntouchedCrossingFires


-----------------------------------------------------------------------------
(***************************************************************************)
(* Automation: the slots of the daily report.  A slot is due, held by the  *)
(* process that claimed it, or reported, never two of these.               *)
(***************************************************************************)
IsDuty(d) ==
  /\ d = [pc |-> d.pc, at |-> d.at, slot |-> d.slot, run |-> d.run, queue |-> d.queue]
  /\ d.pc \in {"idle", "listed", "report", "checking", "posting"}
  /\ d.at \in Nat /\ d.slot \in Nat \cup {None}

Notice == [kind : {"report", "failure", "alert"}, slot : Nat \cup {None}]

(* What the slots need of the types. *)
SlotsTyped ==
  /\ now \in Nat /\ nextRun \in Nat \cup {None}
  /\ notes \in Seq(Notice)
  /\ duty = [p \in Runners |-> duty[p]]
  /\ \A p \in Runners : IsDuty(duty[p])

Holds(p, s) == duty[p].pc = "report" /\ duty[p].slot = s

Lists(p, s) == duty[p].pc = "listed" /\ duty[p].slot = s

\* A process is at a slot from listing it to the end of its report.
AtSlot(p) == duty[p].pc \in {"listed", "report"} /\ duty[p].slot # None

\* However many runners there are, no three are at a slot at the same moment.
NoThird == \A p, q, r \in Runners :
  AtSlot(p) /\ AtSlot(q) /\ AtSlot(r) => p = q \/ q = r \/ p = r

LEMMA SlotOf ==
  ASSUME NEW p \in Runners, NEW s \in Nat, Lists(p, s) \/ Holds(p, s)
  PROVE  AtSlot(p)
BY RunnerLeaseAssumption DEF Lists, Holds, AtSlot

Reported(s) == \E n \in DOMAIN notes : notes[n] = Note("report", s)

(* Only slots that have come are listed, claimed or reported. *)
Punctual ==
  /\ \A p \in Runners :
       /\ duty[p].at <= now
       /\ duty[p].slot # None => duty[p].pc \in {"listed", "report"} /\ duty[p].slot <= duty[p].at
  /\ \A s \in Nat : Reported(s) => s <= now

Owned ==
  \A p \in Runners : \A s \in Nat : Holds(p, s) =>
    ~Reported(s) /\ nextRun # s /\ \A q \in Runners : Holds(q, s) => q = p

Upcoming == nextRun \in Nat => ~Reported(nextRun)

Free(s) == ~Reported(s) /\ \A p \in Runners : ~Holds(p, s)

(* A slot that a process listed may still be claimed by it while it is due *)
(* or another process may give it back: then the next one is free.         *)
Successor ==
  \A p \in Runners : \A s, x \in Nat :
    /\ Lists(p, s) /\ x = NextSlot(duty[p].at)
    /\ nextRun = s \/ \E q \in Runners : Holds(q, s)
    => Free(x)

(* Of two lists the older one is out of date. *)
Overtaken ==
  \A p, q \in Runners : \A s, t \in Nat :
    Lists(p, s) /\ Lists(q, t) /\ duty[q].at < s => nextRun # t

SlotsInvariant ==
  SlotsTyped /\ Punctual /\ OneReportPerSlot /\ Owned /\ Upcoming /\ Successor /\ Overtaken

LEMMA NextSlotLater ==
  ASSUME NEW t \in Nat
  PROVE  NextSlot(t) \in Nat /\ t < NextSlot(t)
<1>1. Day \in Nat /\ Day >= 1
  BY AutomationAssumption
<1> DEFINE q == t \div Day
<1>2. q \in Nat /\ t < (q + 1) * Day
  BY <1>1
<1> HIDE DEF q
<1>3. (q + 1) * Day \in Nat
  BY <1>1, <1>2
<1> QED BY <1>2, <1>3 DEF NextSlot, q

LEMMA NoDutyTyped == IsDuty(NoDuty)
BY DEF IsDuty, NoDuty

\* What a process turns to from rest.
LEMMA Turns ==
  \A at, slot, run, queue :
    /\ [NoDuty EXCEPT !.pc = "checking", !.run = run]
         = [pc |-> "checking", at |-> 0, slot |-> None, run |-> run, queue |-> <<>>]
    /\ [NoDuty EXCEPT !.pc = "posting", !.queue = queue]
         = [pc |-> "posting", at |-> 0, slot |-> None, run |-> 0, queue |-> queue]
    /\ [NoDuty EXCEPT !.pc = "listed", !.at = at, !.slot = slot]
         = [pc |-> "listed", at |-> at, slot |-> slot, run |-> 0, queue |-> <<>>]
<1> DEFINE empty == <<>>
           idle == NoDuty
<1>1. idle = [pc |-> "idle", at |-> 0, slot |-> None, run |-> 0, queue |-> empty]
  BY DEF NoDuty
<1> HIDE DEF empty, idle
<1>2. ASSUME NEW run, NEW d, d = [idle EXCEPT !.pc = "checking", !.run = run]
      PROVE  d = [pc |-> "checking", at |-> 0, slot |-> None, run |-> run, queue |-> empty]
  BY <1>1, <1>2
<1>3. ASSUME NEW queue, NEW d, d = [idle EXCEPT !.pc = "posting", !.queue = queue]
      PROVE  d = [pc |-> "posting", at |-> 0, slot |-> None, run |-> 0, queue |-> queue]
  BY <1>1, <1>3
<1>4. ASSUME NEW at, NEW slot, NEW d, d = [idle EXCEPT !.pc = "listed", !.at = at, !.slot = slot]
      PROVE  d = [pc |-> "listed", at |-> at, slot |-> slot, run |-> 0, queue |-> empty]
  BY <1>1, <1>4
<1> QED BY <1>2, <1>3, <1>4, Zenon DEF idle, empty

LEMMA DutyIs ==
  ASSUME NEW pc \in {"idle", "listed", "report", "checking", "posting"}, NEW at \in Nat,
         NEW slot \in Nat \cup {None}, NEW run, NEW queue, NEW d,
         d = [pc |-> pc, at |-> at, slot |-> slot, run |-> run, queue |-> queue]
  PROVE  IsDuty(d) /\ d.pc = pc /\ d.at = at /\ d.slot = slot
BY DEF IsDuty

\* The duties after a step of one process.
LEMMA DutySet ==
  ASSUME SlotsTyped, NEW p \in Runners, NEW d, IsDuty(d), duty' = [duty EXCEPT ![p] = d]
  PROVE  /\ duty'[p] = d /\ \A q \in Runners \ {p} : duty'[q] = duty[q]
         /\ duty' = [q \in Runners |-> duty'[q]]
         /\ \A q \in Runners : IsDuty(duty'[q])
BY DEF SlotsTyped

LEMMA PcSet ==
  ASSUME NEW d, IsDuty(d), NEW pc \in {"idle", "listed", "report", "checking", "posting"},
         NEW e, e = [d EXCEPT !.pc = pc]
  PROVE  IsDuty(e) /\ e.pc = pc /\ e.slot = d.slot /\ e.at = d.at
<1> DEFINE a == d.at
           s == d.slot
           r == d.run
           u == d.queue
<1>1. d = [pc |-> d.pc, at |-> a, slot |-> s, run |-> r, queue |-> u]
      /\ a \in Nat /\ s \in Nat \cup {None}
  BY DEF IsDuty
<1> HIDE DEF a, s, r, u
<1>2. e = [pc |-> pc, at |-> a, slot |-> s, run |-> r, queue |-> u]
  BY <1>1
<1>3. IsDuty(e) /\ e.pc = pc /\ e.slot = s /\ e.at = a
  BY <1>1, <1>2 DEF IsDuty
<1> QED BY <1>3 DEF s, a

\* What follows the reports has no slot.
LEMMA ProceedDuty ==
  ASSUME SlotsTyped, NEW p \in Runners, NEW ns, Proceed(p, ns) \/ BeginDelivery(p, ns)
  PROVE  \E d : /\ IsDuty(d) /\ d.pc \in {"checking", "posting"} /\ d.slot = None /\ d.at = 0
                /\ duty' = [duty EXCEPT ![p] = d]
<1>1. ASSUME OpenCheckRun(p, duty[p].at)
      PROVE  \E d : /\ IsDuty(d) /\ d.pc \in {"checking", "posting"} /\ d.slot = None /\ d.at = 0
                    /\ duty' = [duty EXCEPT ![p] = d]
  <2> DEFINE n == Len(checks) + 1
             d == [pc |-> "checking", at |-> 0, slot |-> None, run |-> n, queue |-> <<>>]
  <2>1. duty' = [duty EXCEPT ![p] = d]
    BY <1>1, Turns, Zenon DEF OpenCheckRun
  <2>2. IsDuty(d) /\ d.pc = "checking" /\ d.slot = None /\ d.at = 0
    <3> HIDE DEF n
    <3> QED BY DutyIs
  <2> HIDE DEF d
  <2> QED BY <2>1, <2>2
<1>2. ASSUME BeginDelivery(p, ns)
      PROVE  \E d : /\ IsDuty(d) /\ d.pc \in {"checking", "posting"} /\ d.slot = None /\ d.at = 0
                    /\ duty' = [duty EXCEPT ![p] = d]
  <2> DEFINE u == SubSeq(Pending(ns), 1,
                    IF Len(Pending(ns)) < MaxPerCall THEN Len(Pending(ns)) ELSE MaxPerCall)
             d == [pc |-> "posting", at |-> 0, slot |-> None, run |-> 0, queue |-> u]
  <2>1. duty' = [duty EXCEPT ![p] = d]
    BY <1>2, Turns, Zenon DEF BeginDelivery
  <2>2. IsDuty(d) /\ d.pc = "posting" /\ d.slot = None /\ d.at = 0
    <3> HIDE DEF u
    <3> QED BY DutyIs
  <2> HIDE DEF d
  <2> QED BY <2>1, <2>2
<1> QED BY <1>1, <1>2 DEF Proceed

\* A notification more.
LEMMA NoteAdded ==
  ASSUME SlotsTyped, NEW k \in {"report", "failure", "alert"}, NEW s \in Nat \cup {None},
         notes' = Append(notes, Note(k, s))
  PROVE  /\ notes' \in Seq(Notice)
         /\ \A t : Reported(t)' <=> Reported(t) \/ Note(k, s) = Note("report", t)
         /\ (\A m \in DOMAIN notes : notes[m] # Note(k, s)) \/ k # "report" \/ s = None =>
              (OneReportPerSlot => OneReportPerSlot')
<1> DEFINE x == Note(k, s)
<1>1. x \in Notice /\ notes \in Seq(Notice) /\ x.kind = k /\ x.slot = s
  BY DEF Note, Notice, SlotsTyped
<1>3. notes' = Append(notes, x)
  OBVIOUS
<1> HIDE DEF x
<1>2. /\ notes' \in Seq(Notice) /\ DOMAIN notes' = DOMAIN notes \cup {Len(notes) + 1}
      /\ Len(notes) + 1 \notin DOMAIN notes
      /\ notes'[Len(notes) + 1] = x
      /\ \A m \in DOMAIN notes : notes'[m] = notes[m]
  BY <1>1, <1>3
<1> DEFINE l == Len(notes) + 1
<1>4. /\ DOMAIN notes' = DOMAIN notes \cup {l} /\ notes'[l] = x /\ l \notin DOMAIN notes
      /\ \A m \in DOMAIN notes : notes'[m] = notes[m]
  BY <1>2
<1> HIDE DEF l
<1>5. \A t : Reported(t)' <=> Reported(t) \/ x = Note("report", t)
  <2> SUFFICES ASSUME NEW t PROVE Reported(t)' <=> Reported(t) \/ x = Note("report", t)
    OBVIOUS
  <2> DEFINE y == Note("report", t)
  <2>1. Reported(t)' <=> \E n \in DOMAIN notes' : notes'[n] = y
    BY DEF Reported, Note
  <2>2. Reported(t) <=> \E n \in DOMAIN notes : notes[n] = y
    BY DEF Reported
  <2> HIDE DEF y
  <2>3. Reported(t)' <=> Reported(t) \/ x = y
    BY <1>4, <2>1, <2>2
  <2> QED BY <2>3 DEF y
<1>6. ASSUME (\A m \in DOMAIN notes : notes[m] # x) \/ k # "report" \/ s = None, OneReportPerSlot
      PROVE  OneReportPerSlot'
  <2> SUFFICES ASSUME NEW m \in DOMAIN notes', NEW n \in DOMAIN notes',
                      notes'[m].kind = "report", notes'[n] = notes'[m], notes'[m].slot # None
               PROVE  m = n
    BY DEF OneReportPerSlot
  <2>1. CASE m \in DOMAIN notes /\ n \in DOMAIN notes
    BY <1>4, <1>6, <2>1 DEF OneReportPerSlot
  <2>2. CASE m = l /\ n \in DOMAIN notes
    BY <1>1, <1>4, <1>6, <2>2
  <2>3. CASE n = l /\ m \in DOMAIN notes
    BY <1>1, <1>4, <1>6, <2>3
  <2> QED BY <1>4, <2>1, <2>2, <2>3
<1> QED BY <1>2, <1>5, <1>6 DEF x

LEMMA NoteIs ==
  ASSUME NEW k, NEW s, NEW t PROVE Note(k, s) = Note("report", t) <=> k = "report" /\ s = t
<1>1. Note(k, s).kind = k /\ Note(k, s).slot = s /\ Note("report", t).kind = "report"
      /\ Note("report", t).slot = t
  BY DEF Note
<1> QED BY <1>1

(* A step of p after which p is at rest, and nothing else is changed that  *)
(* matters to a slot.                                                      *)
LEMMA RestStep ==
  ASSUME SlotsInvariant, SlotsTyped', NEW p \in Runners,
         \A q \in Runners \ {p} : duty'[q] = duty[q],
         duty'[p].slot = None, duty'[p].at <= now', UNCHANGED nextRun,
         now <= now', \A s \in Nat : Reported(s)' <=> Reported(s), OneReportPerSlot'
  PROVE  SlotsInvariant'
<1>1. \A q \in Runners : \A s \in Nat :
        q # p => (Holds(q, s)' <=> Holds(q, s)) /\ (Lists(q, s)' <=> Lists(q, s))
  BY DEF Holds, Lists
<1>2. \A s \in Nat : ~Holds(p, s)' /\ ~Lists(p, s)'
  BY RunnerLeaseAssumption DEF Holds, Lists
<1>3. nextRun' = nextRun /\ now \in Nat /\ now' \in Nat
  BY DEF SlotsInvariant, SlotsTyped
<1>4. \A q \in Runners : duty[q].at \in Nat /\ duty'[q].at \in Nat
  BY DEF SlotsInvariant, SlotsTyped, IsDuty
<1>5. Punctual'
  <2>1. \A q \in Runners : duty'[q].at <= now' /\ (duty'[q].slot # None =>
          duty'[q].pc \in {"listed", "report"} /\ duty'[q].slot <= duty'[q].at)
    BY <1>3, <1>4 DEF SlotsInvariant, Punctual
  <2>2. \A s \in Nat : Reported(s)' => s <= now'
    BY <1>3 DEF SlotsInvariant, Punctual
  <2> QED BY <2>1, <2>2 DEF Punctual
<1>6. Owned'
  <2>1. Owned
    BY DEF SlotsInvariant
  <2> QED BY <1>1, <1>2, <1>3, <2>1 DEF Owned
<1>7. Upcoming'
  BY <1>3 DEF SlotsInvariant, Upcoming
<1>8. Successor'
  <2>1. Successor
    BY DEF SlotsInvariant
  <2> SUFFICES ASSUME NEW q \in Runners, NEW s \in Nat, NEW x \in Nat, Lists(q, s)',
                      x = NextSlot(duty'[q].at),
                      nextRun' = s \/ \E o \in Runners : Holds(o, s)'
               PROVE  Free(x)'
    BY DEF Successor, NextSlot
  <2>2. q # p /\ Lists(q, s) /\ x = NextSlot(duty[q].at)
    BY <1>1, <1>2
  <2>3. nextRun = s \/ \E o \in Runners : Holds(o, s)
    BY <1>1, <1>2, <1>3
  <2>4. Free(x)
    BY <2>1, <2>2, <2>3 DEF Successor
  <2> QED BY <1>1, <1>2, <2>4 DEF Free
<1>9. Overtaken'
  <2>1. Overtaken
    BY DEF SlotsInvariant
  <2> SUFFICES ASSUME NEW q \in Runners, NEW o \in Runners, NEW s \in Nat, NEW t \in Nat,
                      Lists(q, s)', Lists(o, t)', duty'[o].at < s
               PROVE  nextRun' # t
    BY DEF Overtaken
  <2>2. q # p /\ o # p /\ Lists(q, s) /\ Lists(o, t)
    BY <1>1, <1>2
  <2> QED BY <1>3, <2>1, <2>2 DEF Overtaken
<1> QED BY <1>5, <1>6, <1>7, <1>8, <1>9 DEF SlotsInvariant

\* Nothing but the clock.
LEMMA ClockStep ==
  ASSUME SlotsInvariant, UNCHANGED <<nextRun, notes, duty>>, now' \in Nat, now <= now'
  PROVE  SlotsInvariant'
<1>1. SlotsTyped /\ SlotsTyped'
  BY DEF SlotsInvariant, SlotsTyped, IsDuty
<1>2. (\A q \in Runners : \A s \in Nat : (Holds(q, s)' <=> Holds(q, s)) /\ (Lists(q, s)' <=> Lists(q, s)))
      /\ (\A s \in Nat : Reported(s)' <=> Reported(s))
  BY DEF Holds, Lists, Reported, Note
<1>3. Punctual'
  <2>1. Punctual /\ now \in Nat /\ \A q \in Runners : duty[q].at \in Nat
    BY <1>1 DEF SlotsInvariant, SlotsTyped, IsDuty
  <2> QED BY <1>2, <2>1 DEF Punctual
<1>4. OneReportPerSlot' /\ Owned' /\ Upcoming'
  <2>1. OneReportPerSlot /\ Owned /\ Upcoming
    BY DEF SlotsInvariant
  <2> QED BY <1>2, <2>1 DEF OneReportPerSlot, Owned, Upcoming
<1>5. Successor' /\ Overtaken'
  <2>1. Successor /\ Overtaken
    BY DEF SlotsInvariant
  <2> QED BY <1>2, <2>1 DEF Successor, Overtaken, Free, NextSlot
<1> QED BY <1>1, <1>3, <1>4, <1>5 DEF SlotsInvariant

\* A heartbeat lists the slot that is due.
LEMMA HeartbeatStep ==
  ASSUME SlotsInvariant, NEW p \in Runners, Heartbeat(p)
  PROVE  SlotsInvariant'
<1> DEFINE due == IF nextRun # None /\ nextRun <= now THEN nextRun ELSE None
           empty == <<>>
           d == [pc |-> "listed", at |-> now, slot |-> due, run |-> 0, queue |-> empty]
<1>1. SlotsTyped
  BY DEF SlotsInvariant
<1>2. now \in Nat /\ nextRun \in Nat \cup {None} /\ due \in Nat \cup {None}
  BY <1>1 DEF SlotsTyped
<1>3. due # None => due = nextRun /\ due \in Nat /\ due <= now
  BY <1>2, RunnerLeaseAssumption
<1>4. duty' = [duty EXCEPT ![p] = d] /\ UNCHANGED <<now, nextRun, notes>>
  BY Turns, Zenon DEF Heartbeat
<1> HIDE DEF due, empty
<1>5. IsDuty(d) /\ d.pc = "listed" /\ d.at = now /\ d.slot = due
  BY <1>2, DutyIs
<1> HIDE DEF d
<1>6. /\ duty'[p] = d /\ \A q \in Runners \ {p} : duty'[q] = duty[q]
      /\ SlotsTyped'
  BY <1>1, <1>4, <1>5, DutySet DEF SlotsTyped
<1>7. CASE due = None
  BY <1>1, <1>2, <1>4, <1>5, <1>6, <1>7, RestStep DEF SlotsInvariant, Reported, OneReportPerSlot
<1>8. CASE due # None
  <2>1. due = nextRun /\ due \in Nat /\ due <= now
    BY <1>3, <1>8
  <2>2. \A q \in Runners : \A s \in Nat :
          q # p => (Holds(q, s)' <=> Holds(q, s)) /\ (Lists(q, s)' <=> Lists(q, s))
    BY <1>6 DEF Holds, Lists
  <2>3. \A s \in Nat : ~Holds(p, s)' /\ (Lists(p, s)' <=> s = due)
    BY <1>5, <1>6 DEF Holds, Lists
  <2>4. \A s : Reported(s)' <=> Reported(s)
    BY <1>4 DEF Reported, Note
  <2>5. \A q \in Runners : duty[q].at \in Nat /\ duty[q].at <= now
    BY <1>1 DEF SlotsTyped, IsDuty, SlotsInvariant, Punctual
  <2>6. Punctual'
    <3>1. Punctual
      BY DEF SlotsInvariant
    <3>2. \A q \in Runners : duty'[q].at <= now' /\ (duty'[q].slot # None =>
            duty'[q].pc \in {"listed", "report"} /\ duty'[q].slot <= duty'[q].at)
      BY <1>2, <1>4, <1>5, <1>6, <2>1, <3>1 DEF Punctual
    <3>3. \A s \in Nat : Reported(s)' => s <= now'
      BY <1>4, <2>4, <3>1 DEF Punctual
    <3> QED BY <3>2, <3>3 DEF Punctual
  <2>7. OneReportPerSlot' /\ Owned' /\ Upcoming'
    <3>1. OneReportPerSlot /\ Owned /\ Upcoming
      BY DEF SlotsInvariant
    <3>2. Owned'
      BY <1>4, <2>2, <2>3, <2>4, <3>1 DEF Owned
    <3> QED BY <1>4, <2>4, <3>1, <3>2 DEF OneReportPerSlot, Upcoming
  <2>8. Successor'
    <3>1. Successor /\ Punctual
      BY DEF SlotsInvariant
    <3> SUFFICES ASSUME NEW q \in Runners, NEW s \in Nat, NEW x \in Nat, Lists(q, s)',
                        x = NextSlot(duty'[q].at),
                        nextRun' = s \/ \E o \in Runners : Holds(o, s)'
                 PROVE  Free(x)'
      BY DEF Successor, NextSlot
    <3>2. CASE q # p
      <4>1. Lists(q, s) /\ x = NextSlot(duty[q].at)
        BY <1>6, <2>2, <3>2
      <4>2. nextRun = s \/ \E o \in Runners : Holds(o, s)
        BY <1>4, <2>2, <2>3
      <4>3. Free(x)
        BY <3>1, <4>1, <4>2 DEF Successor
      <4> QED BY <2>2, <2>3, <2>4, <4>3 DEF Free
    <3>3. CASE q = p
      <4>1. now < x
        BY <1>2, <1>5, <1>6, <3>3, NextSlotLater
      <4>2. ~Reported(x)
        BY <1>2, <3>1, <4>1 DEF Punctual
      <4>3. \A o \in Runners : ~Holds(o, x)
        BY <1>2, <2>5, <3>1, <4>1, RunnerLeaseAssumption DEF Punctual, Holds
      <4> QED BY <2>2, <2>3, <2>4, <4>2, <4>3 DEF Free
    <3> QED BY <3>2, <3>3
  <2>9. Overtaken'
    <3>1. Overtaken /\ Punctual
      BY DEF SlotsInvariant
    <3> SUFFICES ASSUME NEW q \in Runners, NEW o \in Runners, NEW s \in Nat, NEW t \in Nat,
                        Lists(q, s)', Lists(o, t)', duty'[o].at < s
                 PROVE  nextRun' # t
      BY DEF Overtaken
    <3>2. CASE q # p /\ o # p
      BY <1>4, <1>6, <2>2, <3>1, <3>2 DEF Overtaken
    <3>3. CASE o = p
      <4>1. now < s
        BY <1>5, <1>6, <3>3
      <4>2. q # p
        BY <1>2, <2>1, <2>3, <4>1
      <4>3. Lists(q, s)
        BY <2>2, <4>2
      <4>4. s <= duty[q].at
        BY <3>1, <4>3, RunnerLeaseAssumption DEF Punctual, Lists
      <4> QED BY <1>2, <2>5, <4>1, <4>4
    <3>4. CASE q = p /\ o # p
      <4>1. s = nextRun /\ Lists(o, t) /\ duty[o].at < s
        BY <1>6, <2>1, <2>2, <2>3, <3>4
      <4>2. t <= duty[o].at
        BY <3>1, <4>1, RunnerLeaseAssumption DEF Punctual, Lists
      <4> QED BY <1>4, <2>5, <4>1, <4>2
    <3> QED BY <3>2, <3>3, <3>4
  <2> QED BY <1>6, <2>6, <2>7, <2>8, <2>9 DEF SlotsInvariant
<1> QED BY <1>7, <1>8

\* The slot that is due is claimed by the process that listed it.
LEMMA ClaimStep ==
  ASSUME NoThird, SlotsInvariant, NEW p \in Runners, Claim(p)
  PROVE  SlotsInvariant'
<1> DEFINE slot == duty[p].slot
           next == NextSlot(duty[p].at)
           d == [duty[p] EXCEPT !.pc = "report"]
<1>1. SlotsTyped /\ Punctual /\ OneReportPerSlot /\ Owned /\ Upcoming /\ Successor /\ Overtaken
  BY DEF SlotsInvariant
<1>2. duty[p].pc = "listed" /\ slot # None /\ nextRun = slot /\ nextRun' = next
  BY DEF Claim, Claims
<1>3. IsDuty(duty[p]) /\ slot \in Nat /\ duty[p].at \in Nat /\ now \in Nat
  BY <1>1, <1>2 DEF SlotsTyped, IsDuty
<1>4. duty' = [duty EXCEPT ![p] = d] /\ UNCHANGED <<now, notes>>
  BY DEF Claim
<1>5. IsDuty(d) /\ d.pc = "report" /\ d.slot = slot /\ d.at = duty[p].at
  BY <1>3, PcSet
<1>6. next \in Nat /\ duty[p].at < next /\ slot <= duty[p].at /\ duty[p].at <= now
  BY <1>1, <1>2, <1>3, NextSlotLater DEF Punctual
<1> HIDE DEF d
<1>7. /\ duty'[p] = d /\ \A q \in Runners \ {p} : duty'[q] = duty[q]
      /\ duty' = [q \in Runners |-> duty'[q]] /\ \A q \in Runners : IsDuty(duty'[q])
  BY <1>1, <1>4, <1>5, DutySet
<1>8. \A q \in Runners : duty'[q].at = duty[q].at /\ duty'[q].slot = duty[q].slot
                         /\ duty[q].at \in Nat /\ duty[q].at <= now
  BY <1>1, <1>5, <1>7 DEF SlotsTyped, IsDuty, Punctual
<1> HIDE DEF slot, next
<1>9. SlotsTyped'
  BY <1>1, <1>2, <1>4, <1>6, <1>7 DEF SlotsTyped
<1>10. \A s : Reported(s)' <=> Reported(s)
  BY <1>4 DEF Reported, Note
<1>11. /\ \A q \in Runners : \A s \in Nat : Holds(q, s)' <=> Holds(q, s) \/ (q = p /\ s = slot)
       /\ \A q \in Runners : \A s \in Nat : Lists(q, s)' <=> Lists(q, s) /\ q # p
  BY <1>2, <1>5, <1>7 DEF Holds, Lists, slot
<1>12. Lists(p, slot) /\ \A s : ~Holds(p, s)
  BY <1>2 DEF Lists, Holds, slot
<1>13. ~Reported(slot) /\ \A q \in Runners : ~Holds(q, slot)
  BY <1>1, <1>2, <1>3 DEF Owned, Upcoming
<1>14. Free(next)
  BY <1>1, <1>2, <1>3, <1>6, <1>12 DEF Successor, next
<1>15. \A q \in Runners : \A s \in Nat : Lists(q, s) => s <= duty[q].at
  BY <1>1, RunnerLeaseAssumption DEF Punctual, Lists
<1>16. Punctual'
  <2>1. \A q \in Runners : duty'[q].slot # None => duty'[q].pc \in {"listed", "report"}
    BY <1>1, <1>5, <1>7 DEF Punctual
  <2> QED BY <1>1, <1>4, <1>8, <1>10, <2>1 DEF Punctual
<1>17. OneReportPerSlot' /\ Upcoming'
  BY <1>1, <1>2, <1>4, <1>10, <1>14 DEF OneReportPerSlot, Upcoming, Free
<1>18. Owned'
  <2> SUFFICES ASSUME NEW q \in Runners, NEW s \in Nat, Holds(q, s)'
               PROVE  ~Reported(s) /\ next # s /\ \A o \in Runners : Holds(o, s)' => o = q
    BY <1>2, <1>10 DEF Owned
  <2>1. CASE Holds(q, s)
    BY <1>1, <1>11, <1>13, <1>14, <2>1 DEF Owned, Free
  <2>2. CASE q = p /\ s = slot
    BY <1>3, <1>6, <1>11, <1>13, <2>2
  <2> QED BY <1>11, <2>1, <2>2
<1>19. Successor'
  <2> SUFFICES ASSUME NEW q \in Runners, NEW s \in Nat, NEW x \in Nat, Lists(q, s)',
                      x = NextSlot(duty'[q].at),
                      nextRun' = s \/ \E o \in Runners : Holds(o, s)'
               PROVE  Free(x)'
    BY DEF Successor, NextSlot
  <2>1. q # p /\ Lists(q, s) /\ x = NextSlot(duty[q].at)
    BY <1>8, <1>11
  <2>2. nextRun # s => next # s
    <3> SUFFICES ASSUME nextRun # s, next = s PROVE FALSE
      OBVIOUS
    <3>1. duty[p].at < s
      BY <1>6
    <3> QED BY <1>1, <1>2, <1>3, <1>12, <2>1, <3>1 DEF Overtaken
  <2>3. nextRun = s \/ \E o \in Runners : Holds(o, s)
    BY <1>2, <1>11, <2>2
  <2>4. Free(x)
    BY <1>1, <2>1, <2>3 DEF Successor
  <2>5. s = slot
    <3>1. ASSUME nextRun' = s PROVE s = slot
      BY <1>2, <2>2, <3>1
    <3>2. ASSUME NEW o \in Runners, Holds(o, s)', s # slot PROVE FALSE
      <4>1. Holds(o, s) /\ o # p /\ o # q
        BY <1>11, <1>12, <2>1, <3>2 DEF Holds, Lists
      <4>2. AtSlot(p) /\ AtSlot(q) /\ AtSlot(o)
        BY <1>3, <1>12, <2>1, <4>1, SlotOf DEF slot
      <4> QED BY <2>1, <4>1, <4>2 DEF NoThird
    <3> QED BY <3>1, <3>2
  <2>6. x # slot
    BY <1>3, <1>8, <1>15, <2>1, <2>5, NextSlotLater
  <2> QED BY <1>10, <1>11, <2>4, <2>6 DEF Free
<1>20. Overtaken'
  <2> SUFFICES ASSUME NEW q \in Runners, NEW o \in Runners, NEW s \in Nat, NEW t \in Nat,
                      Lists(q, s)', Lists(o, t)', duty'[o].at < s
               PROVE  nextRun' # t
    BY DEF Overtaken
  <2>1. q # p /\ o # p /\ Lists(q, s) /\ Lists(o, t) /\ duty[o].at < s
    BY <1>8, <1>11
  <2>2. q # o
    BY <1>8, <1>15, <2>1
  <2>3. AtSlot(p) /\ AtSlot(q) /\ AtSlot(o)
    BY <1>3, <1>12, <2>1, SlotOf DEF slot
  <2> QED BY <2>1, <2>2, <2>3 DEF NoThird
<1> QED BY <1>9, <1>16, <1>17, <1>18, <1>19, <1>20 DEF SlotsInvariant

(* A report that ends leaves its process at rest; what it held is no       *)
(* longer held.                                                            *)
LEMMA Released ==
  ASSUME SlotsInvariant, NEW p \in Runners, duty[p].pc = "report", duty[p].slot # None,
         Proceed(p, notes'), now' = now
  PROVE  /\ duty[p].slot \in Nat /\ Holds(p, duty[p].slot) /\ duty[p].slot <= now
         /\ duty[p].slot <= duty[p].at
         /\ duty' = [q \in Runners |-> duty'[q]] /\ \A q \in Runners : IsDuty(duty'[q])
         /\ \A q \in Runners \ {p} : duty'[q] = duty[q]
         /\ duty'[p].slot = None
         /\ \A q \in Runners : duty[q].at \in Nat /\ duty'[q].at \in Nat /\ duty'[q].at <= now'
         /\ \A q \in Runners : duty'[q].slot # None =>
              duty'[q].pc \in {"listed", "report"} /\ duty'[q].slot <= duty'[q].at
         /\ \A q \in Runners : \A s \in Nat : Holds(q, s)' <=> Holds(q, s) /\ q # p
         /\ \A q \in Runners : \A s \in Nat : Lists(q, s)' <=> Lists(q, s)
<1>1. SlotsTyped /\ Punctual
  BY DEF SlotsInvariant
<1>2. IsDuty(duty[p]) /\ now \in Nat
  BY <1>1 DEF SlotsTyped
<1>3. duty[p].slot \in Nat /\ duty[p].slot <= duty[p].at /\ duty[p].at <= now /\ duty[p].at \in Nat
  BY <1>1, <1>2 DEF IsDuty, Punctual
<1>4. \E d : /\ IsDuty(d) /\ d.pc \in {"checking", "posting"} /\ d.slot = None /\ d.at = 0
             /\ duty' = [duty EXCEPT ![p] = d]
  BY <1>1, ProceedDuty
<1>5. PICK d : /\ IsDuty(d) /\ d.pc \in {"checking", "posting"} /\ d.slot = None /\ d.at = 0
               /\ duty' = [duty EXCEPT ![p] = d]
  BY <1>4
<1>6. /\ duty'[p] = d /\ \A q \in Runners \ {p} : duty'[q] = duty[q]
      /\ duty' = [q \in Runners |-> duty'[q]] /\ \A q \in Runners : IsDuty(duty'[q])
  BY <1>1, <1>5, DutySet
<1>7. \A q \in Runners : duty[q].at \in Nat /\ duty'[q].at \in Nat /\ duty'[q].at <= now'
  BY <1>1, <1>2, <1>5, <1>6 DEF SlotsTyped, Punctual, IsDuty
<1>8. \A q \in Runners : duty'[q].slot # None =>
        duty'[q].pc \in {"listed", "report"} /\ duty'[q].slot <= duty'[q].at
  BY <1>1, <1>5, <1>6 DEF Punctual
<1>9. /\ \A q \in Runners : \A s \in Nat : Holds(q, s)' <=> Holds(q, s) /\ q # p
      /\ \A q \in Runners : \A s \in Nat : Lists(q, s)' <=> Lists(q, s)
  BY <1>5, <1>6 DEF Holds, Lists
<1>10. Holds(p, duty[p].slot) /\ duty[p].slot <= now /\ duty'[p].slot = None
  BY <1>2, <1>3, <1>5, <1>6 DEF Holds
<1> QED BY <1>3, <1>6, <1>7, <1>8, <1>9, <1>10, Zenon

LEMMA ReportDoneStep ==
  ASSUME SlotsInvariant, NEW p \in Runners, ReportDone(p)
  PROVE  SlotsInvariant'
<1> DEFINE slot == duty[p].slot
<1>1. SlotsTyped /\ Punctual /\ OneReportPerSlot /\ Owned /\ Upcoming /\ Successor /\ Overtaken
  BY DEF SlotsInvariant
<1>2. /\ duty[p].pc = "report" /\ slot # None /\ Proceed(p, notes')
      /\ notes' = Append(notes, Note("report", slot)) /\ nextRun' = nextRun /\ now' = now
  BY DEF ReportDone
<1>3. /\ slot \in Nat /\ Holds(p, slot) /\ slot <= now
      /\ duty' = [q \in Runners |-> duty'[q]] /\ \A q \in Runners : IsDuty(duty'[q])
      /\ \A q \in Runners \ {p} : duty'[q] = duty[q]
      /\ \A q \in Runners : duty'[q].at \in Nat /\ duty'[q].at <= now'
      /\ \A q \in Runners : duty'[q].slot # None =>
           duty'[q].pc \in {"listed", "report"} /\ duty'[q].slot <= duty'[q].at
      /\ \A q \in Runners : \A s \in Nat : Holds(q, s)' <=> Holds(q, s) /\ q # p
      /\ \A q \in Runners : \A s \in Nat : Lists(q, s)' <=> Lists(q, s)
  BY <1>2, Released, Zenon
<1> HIDE DEF slot
<1>4. ~Reported(slot) /\ nextRun # slot /\ \A q \in Runners : Holds(q, slot) => q = p
  BY <1>1, <1>3 DEF Owned
<1>5. /\ notes' \in Seq(Notice)
      /\ \A s : Reported(s)' <=> Reported(s) \/ s = slot
      /\ OneReportPerSlot'
  <2>1. \A m \in DOMAIN notes : notes[m] # Note("report", slot)
    BY <1>4 DEF Reported
  <2>2. /\ notes' \in Seq(Notice)
        /\ \A t : Reported(t)' <=> Reported(t) \/ Note("report", slot) = Note("report", t)
        /\ OneReportPerSlot'
    BY <1>1, <1>2, <1>3, <2>1, NoteAdded
  <2>3. \A t : Note("report", slot) = Note("report", t) <=> slot = t
    BY NoteIs
  <2> QED BY <2>2, <2>3
<1>6. SlotsTyped'
  BY <1>1, <1>2, <1>3, <1>5 DEF SlotsTyped
<1>7. Punctual'
  <2>1. now \in Nat
    BY <1>1 DEF SlotsTyped
  <2> QED BY <1>1, <1>2, <1>3, <1>5, <2>1 DEF Punctual
<1>8. Owned'
  BY <1>1, <1>2, <1>3, <1>4, <1>5 DEF Owned
<1>9. Upcoming'
  BY <1>1, <1>2, <1>4, <1>5 DEF Upcoming
<1>10. Successor'
  <2> SUFFICES ASSUME NEW q \in Runners, NEW s \in Nat, NEW x \in Nat, Lists(q, s)',
                      x = NextSlot(duty'[q].at),
                      nextRun' = s \/ \E o \in Runners : Holds(o, s)'
               PROVE  Free(x)'
    BY DEF Successor, NextSlot
  <2>1. Lists(q, s) /\ q # p
    BY <1>3 DEF Lists, Holds
  <2>2. x = NextSlot(duty[q].at)
    BY <1>3, <2>1
  <2>3. nextRun = s \/ \E o \in Runners : Holds(o, s)
    BY <1>2, <1>3
  <2>4. Free(x)
    BY <1>1, <2>1, <2>2, <2>3 DEF Successor
  <2>5. x # slot
    BY <1>3, <2>4 DEF Free
  <2> QED BY <1>3, <1>5, <2>4, <2>5 DEF Free
<1>11. Overtaken'
  <2> SUFFICES ASSUME NEW q \in Runners, NEW o \in Runners, NEW s \in Nat, NEW t \in Nat,
                      Lists(q, s)', Lists(o, t)', duty'[o].at < s
               PROVE  nextRun' # t
    BY DEF Overtaken
  <2>1. Lists(q, s) /\ Lists(o, t) /\ o # p
    BY <1>3 DEF Lists, Holds
  <2> QED BY <1>1, <1>2, <1>3, <2>1 DEF Overtaken
<1> QED BY <1>5, <1>6, <1>7, <1>8, <1>9, <1>10, <1>11 DEF SlotsInvariant

LEMMA ReportFailedStep ==
  ASSUME NoThird, SlotsInvariant, NEW p \in Runners, ReportFailed(p)
  PROVE  SlotsInvariant'
<1> DEFINE slot == duty[p].slot
<1>1. SlotsTyped /\ Punctual /\ OneReportPerSlot /\ Owned /\ Upcoming /\ Successor /\ Overtaken
  BY DEF SlotsInvariant
<1>2. /\ duty[p].pc = "report" /\ slot # None /\ Proceed(p, notes')
      /\ notes' = Append(notes, Note("failure", slot)) /\ nextRun' = slot /\ now' = now
  BY DEF ReportFailed, GivesBack
<1>3. /\ slot \in Nat /\ Holds(p, slot) /\ slot <= now
      /\ duty' = [q \in Runners |-> duty'[q]] /\ \A q \in Runners : IsDuty(duty'[q])
      /\ \A q \in Runners \ {p} : duty'[q] = duty[q]
      /\ \A q \in Runners : duty'[q].at \in Nat /\ duty'[q].at <= now'
      /\ \A q \in Runners : duty'[q].slot # None =>
           duty'[q].pc \in {"listed", "report"} /\ duty'[q].slot <= duty'[q].at
      /\ \A q \in Runners : \A s \in Nat : Holds(q, s)' <=> Holds(q, s) /\ q # p
      /\ \A q \in Runners : \A s \in Nat : Lists(q, s)' <=> Lists(q, s)
  BY <1>2, Released, Zenon
<1> HIDE DEF slot
<1>4. ~Reported(slot) /\ \A q \in Runners : Holds(q, slot) => q = p
  BY <1>1, <1>3 DEF Owned
<1>5. /\ notes' \in Seq(Notice)
      /\ \A s : Reported(s)' <=> Reported(s)
      /\ OneReportPerSlot'
  <2>1. /\ notes' \in Seq(Notice)
        /\ \A t : Reported(t)' <=> Reported(t) \/ Note("failure", slot) = Note("report", t)
        /\ OneReportPerSlot'
    BY <1>1, <1>2, <1>3, NoteAdded
  <2>2. \A t : Note("failure", slot) # Note("report", t)
    BY NoteIs
  <2> QED BY <2>1, <2>2
<1>6. SlotsTyped'
  BY <1>1, <1>2, <1>3, <1>5 DEF SlotsTyped
<1>7. Punctual'
  BY <1>1, <1>2, <1>3, <1>5 DEF Punctual
<1>8. Owned'
  BY <1>1, <1>2, <1>3, <1>4, <1>5 DEF Owned
<1>9. Upcoming'
  BY <1>2, <1>4, <1>5 DEF Upcoming
<1>10. Successor'
  <2> SUFFICES ASSUME NEW q \in Runners, NEW s \in Nat, NEW x \in Nat, Lists(q, s)',
                      x = NextSlot(duty'[q].at),
                      nextRun' = s \/ \E o \in Runners : Holds(o, s)'
               PROVE  Free(x)'
    BY DEF Successor, NextSlot
  <2>1. Lists(q, s) /\ q # p
    BY <1>3 DEF Lists, Holds
  <2>2. x = NextSlot(duty[q].at)
    BY <1>3, <2>1
  <2>3. \E o \in Runners : Holds(o, s)
    BY <1>2, <1>3
  <2>4. Free(x)
    BY <1>1, <2>1, <2>2, <2>3 DEF Successor
  <2> QED BY <1>3, <1>5, <2>4 DEF Free
<1>11. Overtaken'
  <2> SUFFICES ASSUME NEW q \in Runners, NEW o \in Runners, NEW s \in Nat, NEW t \in Nat,
                      Lists(q, s)', Lists(o, t)', duty'[o].at < s
               PROVE  FALSE
    BY DEF Overtaken
  <2>1. Lists(q, s) /\ Lists(o, t) /\ o # p /\ q # p
    BY <1>3 DEF Lists, Holds
  <2>2. q # o
    <3>1. s <= duty[q].at
      BY <1>1, <2>1, RunnerLeaseAssumption DEF Punctual, Lists
    <3> QED BY <1>3, <2>1, <3>1
  <2>3. AtSlot(p) /\ AtSlot(q) /\ AtSlot(o)
    BY <1>3, <2>1, SlotOf
  <2> QED BY <2>1, <2>2, <2>3 DEF NoThird
<1> QED BY <1>5, <1>6, <1>7, <1>8, <1>9, <1>10, <1>11 DEF SlotsInvariant

\* The user schedules the report anew, for a slot that has not come.
LEMMA ConfigureStep ==
  ASSUME SlotsInvariant, Configure
  PROVE  SlotsInvariant'
<1> DEFINE next == NextSlot(now)
<1>1. SlotsTyped /\ Punctual /\ OneReportPerSlot /\ Owned /\ Upcoming /\ Successor /\ Overtaken
  BY DEF SlotsInvariant
<1>2. nextRun' = next /\ UNCHANGED <<now, notes, duty>>
  BY DEF Configure
<1>3. now \in Nat /\ next \in Nat /\ now < next
  BY <1>1, NextSlotLater DEF SlotsTyped
<1> HIDE DEF next
<1>4. SlotsTyped'
  BY <1>1, <1>2, <1>3 DEF SlotsTyped, IsDuty
<1>5. /\ \A q \in Runners : \A s \in Nat : (Holds(q, s)' <=> Holds(q, s)) /\ (Lists(q, s)' <=> Lists(q, s))
      /\ \A s : Reported(s)' <=> Reported(s)
  BY <1>2 DEF Holds, Lists, Reported, Note
<1>6. \A q \in Runners : duty[q].at \in Nat
  BY <1>1 DEF SlotsTyped, IsDuty
<1>7. \A q \in Runners : \A s \in Nat : Holds(q, s) \/ Lists(q, s) => s < next
  BY <1>1, <1>3, <1>6, RunnerLeaseAssumption DEF Punctual, Holds, Lists
<1>8. Punctual' /\ OneReportPerSlot'
  BY <1>1, <1>2, <1>5 DEF Punctual, OneReportPerSlot
<1>9. Owned'
  BY <1>1, <1>2, <1>3, <1>5, <1>7 DEF Owned
<1>10. Upcoming'
  BY <1>1, <1>2, <1>3, <1>5 DEF Upcoming, Punctual
<1>11. Successor'
  <2> SUFFICES ASSUME NEW q \in Runners, NEW s \in Nat, NEW x \in Nat, Lists(q, s)',
                      x = NextSlot(duty'[q].at),
                      nextRun' = s \/ \E o \in Runners : Holds(o, s)'
               PROVE  Free(x)'
    BY DEF Successor, NextSlot
  <2>1. Lists(q, s) /\ x = NextSlot(duty[q].at) /\ \E o \in Runners : Holds(o, s)
    BY <1>2, <1>3, <1>5, <1>7
  <2>2. Free(x)
    BY <1>1, <2>1 DEF Successor
  <2> QED BY <1>5, <2>2 DEF Free
<1>12. Overtaken'
  BY <1>2, <1>3, <1>5, <1>7 DEF Overtaken
<1> QED BY <1>4, <1>8, <1>9, <1>10, <1>11, <1>12 DEF SlotsInvariant

\* A step of p that has no slot before or after, with at most a notification
\* that reports no slot.
LEMMA OtherStep ==
  ASSUME SlotsInvariant, NEW p \in Runners, NEW d, duty' = [duty EXCEPT ![p] = d],
         IsDuty(d), d.slot = None, d.at <= now, UNCHANGED <<now, nextRun>>,
         notes' = notes \/ \E k \in {"report", "alert"} : notes' = Append(notes, Note(k, None))
  PROVE  SlotsInvariant'
<1>1. SlotsTyped /\ OneReportPerSlot
  BY DEF SlotsInvariant
<1>2. /\ duty'[p] = d /\ \A q \in Runners \ {p} : duty'[q] = duty[q]
      /\ duty' = [q \in Runners |-> duty'[q]] /\ \A q \in Runners : IsDuty(duty'[q])
  BY <1>1, DutySet
<1>3. /\ notes' \in Seq(Notice) /\ OneReportPerSlot'
      /\ \A s \in Nat : Reported(s)' <=> Reported(s)
  <2>1. CASE notes' = notes
    BY <1>1, <2>1 DEF SlotsTyped, OneReportPerSlot, Reported, Note, Notice
  <2>2. ASSUME NEW k \in {"report", "alert"}, notes' = Append(notes, Note(k, None))
        PROVE  /\ notes' \in Seq(Notice) /\ OneReportPerSlot'
               /\ \A s \in Nat : Reported(s)' <=> Reported(s)
    <3>1. /\ notes' \in Seq(Notice) /\ OneReportPerSlot'
          /\ \A t : Reported(t)' <=> Reported(t) \/ Note(k, None) = Note("report", t)
      BY <1>1, <2>2, NoteAdded
    <3>2. \A t \in Nat : Note(k, None) # Note("report", t)
      BY NoteIs, RunnerLeaseAssumption
    <3> QED BY <3>1, <3>2
  <2> QED BY <2>1, <2>2
<1>4. SlotsTyped'
  BY <1>1, <1>2, <1>3 DEF SlotsTyped
<1>5. now \in Nat
  BY <1>1 DEF SlotsTyped
<1> QED BY <1>2, <1>3, <1>4, <1>5, RestStep

LEMMA EndStep ==
  ASSUME SlotsInvariant, NEW p \in Runners, EndHeartbeat(p), UNCHANGED <<now, nextRun, notes>>
  PROVE  SlotsInvariant'
<1> DEFINE d == NoDuty
<1>1. duty' = [duty EXCEPT ![p] = d]
  BY DEF EndHeartbeat
<1>2. IsDuty(d) /\ d.slot = None /\ d.at = 0
  BY NoDutyTyped DEF NoDuty
<1>3. now \in Nat
  BY DEF SlotsInvariant, SlotsTyped
<1> HIDE DEF d
<1>4. d.at <= now /\ notes' = notes /\ UNCHANGED <<now, nextRun>>
  BY <1>1, <1>2, <1>3
<1> QED BY <1>1, <1>2, <1>4, OtherStep

LEMMA ProceedStep ==
  ASSUME SlotsInvariant, NEW p \in Runners, Proceed(p, notes) \/ BeginDelivery(p, notes'),
         UNCHANGED <<now, nextRun>>,
         notes' = notes \/ \E k \in {"report", "alert"} : notes' = Append(notes, Note(k, None))
  PROVE  SlotsInvariant'
<1>1. SlotsTyped
  BY DEF SlotsInvariant
<1>2. \E d : /\ IsDuty(d) /\ d.pc \in {"checking", "posting"} /\ d.slot = None /\ d.at = 0
             /\ duty' = [duty EXCEPT ![p] = d]
  BY <1>1, ProceedDuty
<1>3. now \in Nat
  BY <1>1 DEF SlotsTyped
<1>4. PICK d : /\ IsDuty(d) /\ d.slot = None /\ d.at = 0 /\ duty' = [duty EXCEPT ![p] = d]
  BY <1>2
<1>5. d.at <= now
  BY <1>3, <1>4
<1> QED BY <1>4, <1>5, OtherStep

LEMMA QueueStep ==
  ASSUME SlotsInvariant, NEW p \in Runners, duty[p].pc = "posting",
         duty' = [duty EXCEPT ![p].queue = Tail(@)], UNCHANGED <<now, nextRun, notes>>
  PROVE  SlotsInvariant'
<1> DEFINE t == Tail(duty[p].queue)
           e == duty[p]
           d == [e EXCEPT !.queue = t]
<1>1. SlotsTyped /\ Punctual
  BY DEF SlotsInvariant
<1>2. IsDuty(e) /\ e.slot = None /\ e.at <= now
  BY <1>1 DEF SlotsTyped, Punctual
<1>3. duty' = [duty EXCEPT ![p] = d]
  OBVIOUS
<1> HIDE DEF t, e
<1>4. d = [pc |-> e.pc, at |-> e.at, slot |-> e.slot, run |-> e.run, queue |-> t]
  BY <1>2 DEF IsDuty
<1> HIDE DEF d
<1>5. IsDuty(d) /\ d.slot = e.slot /\ d.at = e.at
  BY <1>2, <1>4 DEF IsDuty
<1> QED BY <1>2, <1>3, <1>5, OtherStep

LEMMA CheckByToolStep ==
  ASSUME SlotsInvariant, NEW p \in Runners, CheckByTool(p)
  PROVE  SlotsInvariant'
<1> DEFINE n == Len(checks) + 1
           d == [pc |-> "checking", at |-> 0, slot |-> None, run |-> n, queue |-> <<>>]
<1>1. duty' = [duty EXCEPT ![p] = d] /\ UNCHANGED <<now, nextRun, notes>>
  BY Turns, Zenon DEF CheckByTool, OpenCheckRun
<1>2. IsDuty(d) /\ d.slot = None /\ d.at = 0
  <2> DEFINE empty == <<>>
  <2>1. d = [pc |-> "checking", at |-> 0, slot |-> None, run |-> n, queue |-> empty]
    OBVIOUS
  <2> HIDE DEF n, d, empty
  <2> QED BY <2>1, DutyIs
<1>3. now \in Nat
  BY DEF SlotsInvariant, SlotsTyped
<1> HIDE DEF d
<1>4. d.at <= now /\ notes' = notes /\ UNCHANGED <<now, nextRun>>
  BY <1>1, <1>2, <1>3
<1> QED BY <1>1, <1>2, <1>4, OtherStep

LEMMA ReportByToolStep ==
  ASSUME SlotsInvariant, NEW p \in Runners, ReportByTool(p)
  PROVE  SlotsInvariant'
<1> DEFINE e == duty[p]
           d == [e EXCEPT !.pc = "report"]
<1>1. SlotsTyped /\ Punctual
  BY DEF SlotsInvariant
<1>2. e.pc = "idle" /\ duty' = [duty EXCEPT ![p] = d] /\ UNCHANGED <<now, nextRun, notes>>
  BY DEF ReportByTool, BeginManual
<1>3. IsDuty(e) /\ e.slot = None /\ e.at <= now
  BY <1>1, <1>2 DEF SlotsTyped, Punctual
<1>4. IsDuty(d) /\ d.slot = e.slot /\ d.at = e.at
  <2> HIDE DEF e
  <2> QED BY <1>3, PcSet
<1> HIDE DEF d
<1> QED BY <1>2, <1>3, <1>4, OtherStep

LEMMA SlotsInit == AutomationInit => SlotsInvariant
<1> SUFFICES ASSUME AutomationInit PROVE SlotsInvariant
  OBVIOUS
<1>1. /\ now = 0 /\ nextRun \in {None, 0} /\ notes = <<>>
      /\ duty = [p \in Runners |-> NoDuty]
  BY DEF AutomationInit
<1>2. \A p \in Runners : IsDuty(duty[p]) /\ duty[p].pc = "idle" /\ duty[p].slot = None /\ duty[p].at = 0
  BY <1>1, NoDutyTyped DEF NoDuty
<1>3. notes \in Seq(Notice) /\ DOMAIN notes = {}
  BY <1>1
<1>4. SlotsTyped
  BY <1>1, <1>2, <1>3 DEF SlotsTyped
<1>5. \A s : ~Reported(s)
  BY <1>3 DEF Reported
<1>6. \A p \in Runners : \A s : ~Holds(p, s) /\ ~Lists(p, s)
  BY <1>2 DEF Holds, Lists
<1>7. Punctual
  BY <1>1, <1>2, <1>5 DEF Punctual
<1>8. OneReportPerSlot /\ Owned /\ Upcoming /\ Successor /\ Overtaken
  BY <1>3, <1>5, <1>6 DEF OneReportPerSlot, Owned, Upcoming, Successor, Overtaken
<1> QED BY <1>4, <1>7, <1>8 DEF SlotsInvariant

LEMMA SlotsStep ==
  ASSUME NoThird, SlotsInvariant, [AutomationNext]_automationVars
  PROVE  SlotsInvariant'
<1>1. now \in Nat
  BY DEF SlotsInvariant, SlotsTyped
<1>2. ASSUME NEW p \in Runners, RunnerStep(p) PROVE SlotsInvariant'
  <2>1. CASE Heartbeat(p)
    BY <2>1, HeartbeatStep
  <2>2. CASE StandBy(p)
    BY <1>1, <2>2, ClockStep DEF StandBy
  <2>3. CASE Claim(p)
    BY <2>3, ClaimStep
  <2>4. CASE NothingToReport(p)
    BY <2>4, ProceedStep DEF NothingToReport
  <2>5. CASE ReportDone(p)
    BY <2>5, ReportDoneStep
  <2>6. CASE ReportFailed(p)
    BY <2>6, ReportFailedStep
  <2>7. CASE CheckDone(p)
    BY <2>7, ProceedStep DEF CheckDone
  <2>8. CASE CheckFailed(p)
    BY <2>8, EndStep DEF CheckFailed
  <2>9. CASE PostAccepted(p)
    BY <2>9, QueueStep DEF PostAccepted
  <2>10. CASE PostFailed(p)
    BY <2>10, QueueStep DEF PostFailed
  <2>11. CASE Delivered(p)
    BY <2>11, EndStep DEF Delivered
  <2>12. CASE ReportByToolDone(p)
    BY <2>12, ProceedStep DEF ReportByToolDone
  <2> QED BY <1>2, <2>1, <2>2, <2>3, <2>4, <2>5, <2>6, <2>7, <2>8, <2>9, <2>10, <2>11, <2>12
          DEF RunnerStep
<1>3. ASSUME NEW p \in Runners, CheckByTool(p) \/ ReportByTool(p) \/ RestartRunner(p)
      PROVE  SlotsInvariant'
  BY <1>3, CheckByToolStep, ReportByToolStep, EndStep DEF RestartRunner
<1>4. CASE Configure
  BY <1>4, ConfigureStep
<1>5. CASE TimePasses \/ UNCHANGED automationVars
  BY <1>1, <1>5, ClockStep DEF TimePasses, automationVars
<1> QED BY <1>2, <1>3, <1>4, <1>5 DEF AutomationNext

\* With any number of runners the user is told of at most one report of a slot,
\* as long as no three of them are at a slot at once: whoever claims a slot, it
\* is one that was neither reported nor is held, although a failed report gives
\* its slot back at any time.  (A third comes in when the lease of a process
\* runs out at its slot, and so does the next one's; see the README.)
THEOREM ReportsOnce == AutomationSpec /\ []NoThird => []OneReportPerSlot
<1>1. AutomationInit => SlotsInvariant
  BY SlotsInit
<1>2. NoThird /\ SlotsInvariant /\ [AutomationNext]_automationVars => SlotsInvariant'
  BY SlotsStep
<1>3. SlotsInvariant => OneReportPerSlot
  BY DEF SlotsInvariant
<1> QED BY <1>1, <1>2, <1>3, PTL DEF AutomationSpec
=============================================================================
