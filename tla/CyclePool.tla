------------------------------ MODULE CyclePool ------------------------------
(* What the scheduler promises, whatever its agents, services and handlers   *)
(* do: a pool of at most Limit cycles.  One pass of the scheduler may start  *)
(* several cycles, at most one of each agent; cycles end one at a time, each *)
(* exactly once.                                                             *)
EXTENDS Naturals, FiniteSets

CONSTANTS Agents, Limit

VARIABLE running        \* the cycles in flight: pairs of an agent and a number

Cycles == Agents \X (1..Limit)

PoolInit == running = {}

StartSome ==
  /\ running' \subseteq Cycles
  /\ running \subseteq running'
  /\ Cardinality(running') <= Limit
  /\ \A c, d \in running' \ running : c[1] = d[1] => c = d

EndOne == \E c \in running : running' = running \ {c}

PoolSpec == PoolInit /\ [][StartSome \/ EndOne]_running
==============================================================================
