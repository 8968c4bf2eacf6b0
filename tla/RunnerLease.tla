---------------------------- MODULE RunnerLease ----------------------------
(***************************************************************************)
(* The lease under which a process runs the local automations              *)
(* (automation_runner_leases, one row at most; MarketStateService).  Alerts *)
(* and Automation extend this module.  The lease is taken at the start of  *)
(* a heartbeat and not looked at again before the next one.                *)
(***************************************************************************)
EXTENDS Integers

CONSTANTS
  Runners,   \* processes with a heartbeat: the GUI writer, monitors
  Monitors,  \* the runners that are monitors
  Ttl,       \* in ticks of the clock
  MaxNow,    \* bound on the clock
  None

ASSUME RunnerLeaseAssumption ==
  /\ Monitors \subseteq Runners
  /\ {Ttl, MaxNow} \subseteq Nat
  /\ None \notin Int /\ None \notin Runners

VARIABLES
  now,   \* the clock the processes share
  lease  \* who holds the lease, and until when

Times == 0 .. MaxNow

NoLease == [owner |-> None, expires |-> 0]

LeaseTypeOK ==
  /\ now \in Times
  /\ lease.owner \in Runners \cup {None} /\ lease.expires \in Nat

\* getAutomationRunnerLease
LeaseIsCurrent == lease.owner # None /\ lease.expires > now

HeldByOther(p) == LeaseIsCurrent /\ lease.owner # p

\* acquireAutomationRunnerLease, when it succeeds
AcquireLease(p) ==
  /\ ~HeldByOther(p)
  /\ lease' = [owner |-> p, expires |-> now + Ttl]

\* releaseAutomationRunnerLease
ReleaseLease(p) == lease' = IF lease.owner = p THEN NoLease ELSE lease

\* A monitor gives the lease back when it is stopped, and after every heartbeat
\* when it was started with --once; other processes leave it to expire.
KeepOrReleaseLease(p) == UNCHANGED lease \/ (p \in Monitors /\ ReleaseLease(p))
=============================================================================
