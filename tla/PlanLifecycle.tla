---------------------------- MODULE PlanLifecycle ----------------------------
(* What becomes of an agent's plan, as the agent's own next prompt will tell *)
(* it: a plan is adopted only when there is none, is worked off one step at  *)
(* a time, and leaves either complete and reported as a success or abandoned *)
(* and reported as superseded.  A deviation is reported as a failure of the  *)
(* plan, which stays.                                                        *)
EXTENDS Naturals

CONSTANT Agents

VARIABLES
  phase,     \* "none", "working" or "complete"
  left,      \* the number of steps still to be done
  verdict    \* what was last reported: "none", "success", "failure", "superseded"

LifecycleInit ==
  /\ phase = [a \in Agents |-> "none"]
  /\ left = [a \in Agents |-> 0]
  /\ verdict = [a \in Agents |-> "none"]

MoveOn(a, p, n, v) ==
  /\ phase' = [phase EXCEPT ![a] = p]
  /\ left' = [left EXCEPT ![a] = n]
  /\ verdict' = [verdict EXCEPT ![a] = v]

Adopt(a) ==
  /\ phase[a] = "none" /\ left'[a] > 0
  /\ MoveOn(a, "working", left'[a], verdict[a])

WorkOff(a) ==
  /\ phase[a] = "working"
  /\ MoveOn(a, IF left[a] = 1 THEN "complete" ELSE "working", left[a] - 1, verdict[a])

Deviate(a) == phase[a] = "working" /\ MoveOn(a, "working", left[a], "failure")

Abandon(a) == phase[a] = "working" /\ MoveOn(a, "none", 0, "superseded")

\* Reported, and put away unless the reflection itself goes wrong.
Conclude(a) ==
  /\ phase[a] = "complete"
  /\ \E p \in {"none", "complete"} : MoveOn(a, p, 0, "success")

LifecycleSpec ==
  LifecycleInit /\
  [][\E a \in Agents : Adopt(a) \/ WorkOff(a) \/ Deviate(a) \/ Abandon(a) \/ Conclude(a)]_<<
     phase, left, verdict>>
==============================================================================
