---------------------------- MODULE AlertArming ----------------------------
(***************************************************************************)
(* What an alert promises (openspec/specs/local-market-automations,        *)
(* "Cooldown And Retrigger Semantics"): a rule that is on announces its    *)
(* condition at most once per arming, and is armed again only by a check   *)
(* that saw the condition false or by an edit.  Alerts implements this     *)
(* specification.                                                          *)
(***************************************************************************)
EXTENDS Naturals

CONSTANT Rules

VARIABLES
  on,     \* rules that are stored, enabled and not completed
  cycle,  \* for every rule, the number of its arming
  told    \* the announcements made: pairs of a rule and an arming

armingVars == <<on, cycle, told>>

Init ==
  /\ on \subseteq Rules
  /\ cycle = [r \in Rules |-> 1]
  /\ told = {}

\* A rule that is on announces, once in this arming; a one-shot rule is off
\* from then on.
Announce(r) ==
  /\ r \in on
  /\ <<r, cycle[r]>> \notin told
  /\ told' = told \cup {<<r, cycle[r]>>}
  /\ on' \in {on, on \ {r}}
  /\ UNCHANGED cycle

\* The condition was seen false, or the rule was edited.
Rearm(r) ==
  /\ cycle' = [cycle EXCEPT ![r] = @ + 1]
  /\ on' \in {on, on \cup {r}, on \ {r}}
  /\ UNCHANGED told

\* The user creates, enables, disables or deletes rules.
Switch(r) ==
  /\ on' \in {on \cup {r}, on \ {r}}
  /\ UNCHANGED <<cycle, told>>

Next == \E r \in Rules : Announce(r) \/ Rearm(r) \/ Switch(r)

Spec == Init /\ [][Next]_armingVars
=============================================================================
