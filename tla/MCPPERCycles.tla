---------------------------- MODULE MCPPERCycles ----------------------------
(* Constants for the TLC runs of PPERCycles.  A step is a walk, an action of  *)
(* one of two kinds, or an intentional wait; "talk" and "use" are told apart  *)
(* by the answers they can get, "use" and "walk" by nothing the guard sees    *)
(* when an LLM describes both with the same words.                            *)
EXTENDS PPERCycles

CONSTANTS a1, a2, fetch, chat, none

OneAgent    == {a1}
TwoAgents   == {a1, a2}

PopulationOfOne   == <<a1>>
PopulationOfTwo   == <<a1, a2>>

TextsMC == {fetch, chat}

\* Every step, every answer.
StepsAll == {"walk", "use", "talk", "wait"}
TextOfAll == [step \in StepsAll |-> IF step \in {"walk", "use"} THEN fetch ELSE chat]
OutcomesOfAll ==
  [step \in StepsAll |->
     CASE step = "walk" -> MoveOutcomes
       [] step = "use"  -> {"stale", "blocked", "relocated", "unmet", "done", "failed"}
       [] step = "talk" -> {"unresolvable", "threw", "compoundDone", "compoundAborted"}
       [] step = "wait" -> {"idle"}]
PlansAll == {<<"walk", "use">>, <<"use", "talk">>, <<"wait">>}

\* The branches that end a plan or feed the step-skip guard.
StepsFew == {"use", "wait"}
TextOfFew == [step \in StepsFew |-> IF step = "use" THEN fetch ELSE chat]
OutcomesOfFew ==
  [step \in StepsFew |-> IF step = "use" THEN {"stale", "blocked", "done", "failed"} ELSE {"idle"}]
PlansFew == {<<"use">>, <<"use", "wait">>}

PlansWait == {<<"wait">>}

\* A world in which no step ever succeeds, in all the ways there are: what the
\* step-skip guard counts, what it does not, and a walk that never arrives.
StepsFailing == {"use"}
TextOfFailing == [step \in StepsFailing |-> fetch]
OutcomesOfFailing ==
  [step \in StepsFailing |->
     {"walking", "unreachable", "unmet", "blocked", "failed",
      "relocated", "threw", "compoundAborted"}]
PlansFailing == {<<"use", "use">>}

AnyPlanAnswer    == {"valid", "allWait", "unbound", "malformed", "error"}
NeverAPlan       == {"malformed", "unbound"}
SomePlanAnswer   == {"valid", "error"}
AnyReflectAnswer == {"remember", "nothing", "invalid"}
PlainReflect     == {"nothing", "invalid"}
BriefReflect     == {"nothing"}
=============================================================================
