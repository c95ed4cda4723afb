---------------------------- MODULE MCLlmClient ----------------------------
(* Constants for the TLC run of LlmClient: an agent with calls of its own,   *)
(* and a batch of three agents, two of them in one room.                     *)
EXTENDS LlmClient

CONSTANTS ann, bob, cid, dan, hall, attic

People == {bob, cid, dan}
Whereabouts == [e \in People |-> IF e = dan THEN attic ELSE hall]
=============================================================================
