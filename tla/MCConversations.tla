--------------------------- MODULE MCConversations ---------------------------
(* Constants for the TLC runs of Conversations.                              *)
EXTENDS Conversations, TLC

CONSTANTS ann, bob, kitchen, garden, nowhere

Two == {ann, bob}
OneRoom  == {kitchen}
TwoRooms == {kitchen, garden}

\* Agents are interchangeable; used with invariants only.
AgentSymmetry == Permutations(Agents)

\* A save nobody can load any more within the bound makes no difference to
\* what follows; used with invariants that do not speak of it.
LoadableView ==
  <<agentVars, convVars, bonusVars, notes, draft, strayed, spent,
    IF spent.restarts + spent.loads < MaxLoads THEN saved ELSE NoSave>>
=============================================================================
