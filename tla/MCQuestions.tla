---------------------------- MODULE MCQuestions ----------------------------
(***************************************************************************)
(* An instance of Questions: two sessions, a chat run and direct tool runs *)
(* that are addressed to one of them.                                      *)
(***************************************************************************)
EXTENDS Questions

CONSTANTS s1, c1, k1

MCHome == [r \in Runs |-> s1]
MCOf == [k \in Calls |-> c1]

\* Bounds: a chat is admitted once, a direct run is sent again.
MCTries == [r \in Runs |-> IF r \in Chats THEN 1 ELSE 2]
=============================================================================
