------------------------- MODULE SessionOwnership -------------------------
(***************************************************************************)
(* What the writer lock promises (openspec/specs/local-session-            *)
(* coordination): a session is written by at most one live process, which  *)
(* keeps it until it gives it up, hands it from the startup scope to the   *)
(* session's own, or dies.  WriterLock implements this specification, and  *)
(* so do the tabs of HostedTabs, with one scope and a first writer.        *)
(***************************************************************************)
CONSTANTS Procs, Scopes

VARIABLES
  live,    \* the processes that are running
  writers  \* for every scope, the live processes that may write it

ownershipVars == <<live, writers>>

Init ==
  /\ live = Procs
  /\ writers = [s \in Scopes |-> {}]

\* A session nobody writes gets a writer.
Take(p, s) ==
  /\ p \in live
  /\ writers[s] = {}
  /\ writers' = [writers EXCEPT ![s] = {p}]
  /\ UNCHANGED live

\* Its writer lets it go.
Give(p, s) ==
  /\ writers[s] = {p}
  /\ writers' = [writers EXCEPT ![s] = {}]
  /\ UNCHANGED live

\* A writer moves from one scope to another that is free, in one step.
Hand(p, s, t) ==
  /\ s # t
  /\ writers[s] = {p}
  /\ writers[t] = {}
  /\ writers' = [writers EXCEPT ![s] = {}, ![t] = {p}]
  /\ UNCHANGED live

\* A process ends, and with it everything it wrote.
Die(p) ==
  /\ p \in live
  /\ live' = live \ {p}
  /\ writers' = [s \in Scopes |-> writers[s] \ {p}]

Next ==
  \E p \in Procs :
    \/ \E s \in Scopes : Take(p, s) \/ Give(p, s)
    \/ \E s, t \in Scopes : Hand(p, s, t)
    \/ Die(p)

Spec == Init /\ [][Next]_ownershipVars

\* Every session has its writer already.
HeldInit ==
  /\ live = Procs
  /\ writers \in [Scopes -> {{p} : p \in Procs}]

HeldSpec == HeldInit /\ [][Next]_ownershipVars
=============================================================================
