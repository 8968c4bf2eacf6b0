----------------------------- MODULE MCChatRun -----------------------------
(***************************************************************************)
(* Instances of ChatRun: two sessions, and actions of which two share one  *)
(* session.                                                                *)
(***************************************************************************)
EXTENDS ChatRun

CONSTANTS s1, s2, d1, c1, w1

\* The prompt and the command go to one session, the workflow to the other.
MCHome == [a \in Actions |-> IF a = w1 THEN s2 ELSE s1]

\* Bounds on how often an action is sent: the prompt again, everything once,
\* everything again.
MCPromptTwice == [a \in Actions |-> IF a = d1 THEN 2 ELSE 1]
MCOnce == [a \in Actions |-> 1]
MCTwice == [a \in Actions |-> 2]
=============================================================================
