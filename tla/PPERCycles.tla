----------------------------- MODULE PPERCycles -----------------------------
(***************************************************************************)
(* The agent loop of evol-hive: the round-robin PPER scheduler, the        *)
(* orchestrator that carries one agent through Perceive, Plan, Execute and *)
(* Reflect, the services of those phases, and the part of the agent table  *)
(* they share with the scene mutations that despawn and respawn agents.    *)
(*                                                                         *)
(* The program is one thread.  A handler runs without interruption until   *)
(* it awaits something that is answered in a later turn of the event loop  *)
(* (the affordance classifier, an LLM, a memory store); those waits are    *)
(* the program counters of a cycle, and whatever runs between two of them  *)
(* is one action, or a chain of actions that nothing may interleave        *)
(* (Quiet).  A cycle touches no state of another agent but activeCycles,   *)
(* so the order in which chains of two agents mix is immaterial.           *)
(***************************************************************************)
EXTENDS Naturals, Sequences, FiniteSets

CONSTANTS
  Agents,           \* agent identifiers
  Population,       \* the agents loaded with the scene, in loading order
  MaxConcurrent,    \* maxConcurrentCycles of the scheduler
  MaxFailures,      \* maxConsecutiveFailures of the orchestrator
  FloorAfter,       \* PLAN_FLOOR_AFTER_FAILURES (0 disables the floor plan)
  MaxStepFailures,  \* MAX_STEP_FAILURES of the execute service
  Steps,            \* the plan steps an LLM may write
  Texts, NoText,    \* step descriptions, and "no description"
  TextOf,           \* the description of each step
  OutcomesOf,       \* what the world can answer to each step
  Plans,            \* the step lists an LLM may return
  FloorSteps,       \* the bindings the floor plan may find in the room
  FloorMayFail,     \* may the room offer no binding for a floor plan?
  PlanAnswers,      \* what the LLM can answer to a plan request
  ReflectAnswers,   \* what can come of a reflect request
  PerceiveMayFail,  \* may the affordance classifier reject?
  MaxPlanId,        \* plan identifiers are recycled from 1..MaxPlanId
  HandlersSuspend,  \* may an affordance handler wait for another turn?
  Gated,            \* is the System 1 gate wired into the scheduler?
  MaxChurn          \* bound on the number of spawns and despawns

\* What the world answers to a step, by how the execute service settles it.
MoveOutcomes    == {"walking", "arrived", "unreachable"}
CheckOutcomes   == {"idle", "stale", "blocked", "relocated", "unresolvable", "unmet"}
HandlerOutcomes == {"done", "failed", "threw", "compoundDone", "compoundAborted"}
Outcomes        == MoveOutcomes \cup CheckOutcomes \cup HandlerOutcomes

ASSUME AgentsAssumption ==
  /\ IsFiniteSet(Agents)
  /\ Population \in Seq(Agents)
  /\ \A i, j \in DOMAIN Population : Population[i] = Population[j] => i = j

ASSUME LimitsAssumption ==
  /\ MaxConcurrent \in Nat \ {0}
  /\ MaxFailures \in Nat \ {0}
  /\ MaxStepFailures \in Nat \ {0}
  /\ FloorAfter \in Nat
  /\ MaxPlanId \in Nat /\ MaxPlanId > MaxConcurrent + 5   \* always one unused
  /\ MaxChurn \in Nat

ASSUME DataAssumption ==
  /\ NoText \notin Texts
  /\ TextOf \in [Steps -> Texts]
  /\ OutcomesOf \in [Steps -> SUBSET Outcomes]
  /\ Plans \subseteq Seq(Steps) /\ <<>> \notin Plans    \* an empty plan is malformed
  /\ FloorSteps \subseteq Steps
  /\ FloorMayFail \in BOOLEAN
  /\ PlanAnswers \subseteq {"valid", "allWait", "unbound", "malformed", "error"}
  /\ ReflectAnswers \subseteq {"remember", "nothing", "invalid"}
  /\ PerceiveMayFail \in BOOLEAN
  /\ HandlersSuspend \in BOOLEAN
  /\ Gated \in BOOLEAN

VARIABLES
  (* AgentManagerImpl: the active agents in Map insertion order, their state *)
  order, thinking, plan, outcome,
  (* PPERSchedulerImpl *)
  activeCycles, rrCursor,
  (* the in-flight runCycle calls of each agent, one record per call *)
  cycle,
  (* PPEROrchestratorImpl: consecutiveFailures and the age of the cooldown *)
  failures, cooldown,
  (* PlanServiceImpl and ExecuteServiceImpl *)
  planFailures, stepFailures, planSkips,
  (* the DormantAgentStore, and the number of spawns and despawns so far *)
  dormant, churn

agentVars   == <<order, thinking, plan, outcome>>
serviceVars == <<planFailures, stepFailures, planSkips>>
churnVars   == <<dormant, churn>>
vars == <<agentVars, activeCycles, rrCursor, cycle, failures, cooldown,
          serviceVars, churnVars>>
-----------------------------------------------------------------------------
(* Plans.  pos is currentStepIndex counted from 1.  tries and skipped are    *)
(* history: the failed executions of the current step since it became the   *)
(* current one (counted up to MaxStepFailures), and the steps the step-skip *)
(* guard has passed over.                                                    *)

Plan == [id : 0..MaxPlanId, steps : Seq(Steps), pos : Nat \ {0},
         tries : 0..MaxStepFailures, skipped : Nat]

NoPlan == [id |-> 0, steps |-> <<>>, pos |-> 1, tries |-> 0, skipped |-> 0]

NewPlan(id, steps) == [NoPlan EXCEPT !.id = id, !.steps = steps]

\* A missing plan counts as complete, as in PlanManagerImpl.isComplete.
Complete(p) == p.pos > Len(p.steps)

Advance(p) == IF Complete(p) THEN p ELSE [p EXCEPT !.pos = @ + 1, !.tries = 0]

Tried(p) == IF p.id = 0 \/ p.tries = MaxStepFailures THEN p ELSE [p EXCEPT !.tries = @ + 1]

SkipOver(p) == IF Complete(p) THEN p ELSE [Advance(p) EXCEPT !.skipped = @ + 1]

(* The last plan outcome: which plan, and how it ended. *)
Outcome == [id : 0..MaxPlanId, success : BOOLEAN, superseded : BOOLEAN, skips : Nat]

NoOutcome == [id |-> 0, success |-> FALSE, superseded |-> FALSE, skips |-> 0]

\* Mistake: the plan is abandoned without a word.
SupersededSilently(p, o) == o

\* stampSupersededOutcome: only a plan still in flight is stamped.
Superseded(p, o) ==
  IF Complete(p) THEN o
  ELSE [id |-> p.id, success |-> FALSE, superseded |-> TRUE, skips |-> 0]
-----------------------------------------------------------------------------
(* In-flight cycles.  pc names what the cycle waits for; "execute" and, when *)
(* handlers do not suspend, "handling" are never waited at: see Quiet.       *)

Slots == 1..MaxConcurrent

Phases == {"free", "perceiving", "planning", "retrying", "execute", "handling",
           "reflecting", "storing"}

\* entry: the plan captured when Execute or Reflect began; ok and skips: the
\* success and stepsSkipped of the execute result that Reflect was given.
Cycle == [pc : Phases, entry : Plan, ok : BOOLEAN, skips : Nat]

Free == [pc |-> "free", entry |-> NoPlan, ok |-> FALSE, skips |-> 0]

At(pc) == [Free EXCEPT !.pc = pc]

Active(a) == \E i \in DOMAIN order : order[i] = a

InFlight == {c \in Agents \X Slots : cycle[c[1]][c[2]].pc # "free"}

Running(a) == {s \in Slots : cycle[a][s].pc # "free"}

FreeSlot(a) == CHOOSE s \in Slots : cycle[a][s].pc = "free"

Quiet ==
  LET runnable == {"execute"} \cup (IF HandlersSuspend THEN {} ELSE {"handling"})
  IN \A a \in Agents, s \in Slots : cycle[a][s].pc \notin runnable

\* Identifiers are unique for as long as anything still names the old plan.
UnusedIds(a) ==
  (1..MaxPlanId) \ ({plan[a].id, outcome[a].id, planSkips[a].id,
                     dormant[a].plan.id, dormant[a].outcome.id}
                    \cup {cycle[a][s].entry.id : s \in Slots})

FreshId(a, id) == id \in UnusedIds(a) /\ \A i \in UnusedIds(a) : id <= i

Asleep == [stored : BOOLEAN, plan : Plan, outcome : Outcome]

NotDormant == [stored |-> FALSE, plan |-> NoPlan, outcome |-> NoOutcome]
-----------------------------------------------------------------------------
Init ==
  /\ order = Population
  /\ thinking = [a \in Agents |-> FALSE]
  /\ plan = [a \in Agents |-> NoPlan]
  /\ outcome = [a \in Agents |-> NoOutcome]
  /\ activeCycles = 0
  /\ rrCursor = 0
  /\ cycle = [a \in Agents |-> [s \in Slots |-> Free]]
  /\ failures = [a \in Agents |-> 0]
  /\ cooldown = [a \in Agents |-> "none"]
  /\ planFailures = [a \in Agents |-> 0]
  /\ stepFailures = [a \in Agents |-> [text |-> NoText, count |-> 0]]
  /\ planSkips = [a \in Agents |-> [id |-> 0, count |-> 0]]
  /\ dormant = [a \in Agents |-> NotDormant]
  /\ churn = 0
-----------------------------------------------------------------------------
(* PPERSchedulerImpl.update: one pass over the active agents, starting at    *)
(* the cursor, until the pass is complete or the cycle limit is reached.     *)

\* The agent at the p-th position of the pass.
Scanned(p) == order[((rrCursor + p - 1) % Len(order)) + 1]

\* Mistakes: the scheduler does not look at isThinking; the limit is off by
\* one; the cursor is not kept.
WillingAnyway(idled) == {p \in 1..Len(order) : Scanned(p) \notin idled}

ReachedOneMore(idled) ==
  {p \in 1..Len(order) :
     activeCycles + Cardinality({q \in 1..(p - 1) : ~thinking[Scanned(q)]}) <= MaxConcurrent}

CursorStays(idled) == rrCursor

\* Positions of agents that may start: not thinking, not idled by the gate.
Willing(idled) ==
  {p \in 1..Len(order) : ~thinking[Scanned(p)] /\ Scanned(p) \notin idled}

Before(idled, p) == {q \in Willing(idled) : q < p}

\* The loop's break: every start before p has already taken a place.
Reached(idled) ==
  {p \in 1..Len(order) : activeCycles + Cardinality(Before(idled, p)) < MaxConcurrent}

\* runCycle of an agent in cooldown returns at once: its place counts during
\* the pass and is free again before anything else runs.
Cooling(a) == failures[a] >= MaxFailures /\ cooldown[a] = "running"

Starters(idled) ==
  {a \in {Scanned(p) : p \in Willing(idled) \cap Reached(idled)} : ~Cooling(a)}

\* The cursor moves past the last agent looked at; no agents, no pass.
NextCursor(idled) ==
  IF order = <<>> THEN rrCursor
  ELSE (rrCursor + Cardinality(Reached(idled))) % Len(order)

Tick(idled) ==
  /\ Quiet
  /\ rrCursor' = NextCursor(idled)
  /\ LET started == Starters(idled)
         revived == {a \in started : failures[a] >= MaxFailures}
     IN /\ activeCycles' = activeCycles + Cardinality(started)
        /\ thinking' = [a \in Agents |-> thinking[a] \/ a \in started]
        /\ cycle' = [a \in Agents |->
                       IF a \in started
                         THEN [cycle[a] EXCEPT ![FreeSlot(a)] = At("perceiving")]
                         ELSE cycle[a]]
        /\ failures' = [a \in Agents |-> IF a \in revived THEN 0 ELSE failures[a]]
        /\ cooldown' = [a \in Agents |-> IF a \in revived THEN "none" ELSE cooldown[a]]
  /\ UNCHANGED <<order, plan, outcome, serviceVars, churnVars>>

\* failureCooldownMs pass by the wall clock.
CooldownElapses(a) ==
  /\ cooldown[a] = "running"
  /\ cooldown' = [cooldown EXCEPT ![a] = "expired"]
  /\ UNCHANGED <<agentVars, activeCycles, rrCursor, cycle, failures,
                 serviceVars, churnVars>>
-----------------------------------------------------------------------------
(* How a cycle ends.  Every ending runs the scheduler's settle handler.      *)

\* Mistake: nothing is counted for an agent that is gone.
SettleUnlessGone(a, s) ==
  /\ activeCycles' = IF Active(a) THEN activeCycles - 1 ELSE activeCycles
  /\ thinking' = [thinking EXCEPT ![a] = FALSE]
  /\ cycle' = [cycle EXCEPT ![a][s] = Free]
  /\ UNCHANGED <<order, rrCursor, churnVars>>

\* The settle handler; an agent that is no longer active is left alone.
Settle(a, s) ==
  /\ activeCycles' = activeCycles - 1
  /\ thinking' = [thinking EXCEPT ![a] = FALSE]
  /\ cycle' = [cycle EXCEPT ![a][s] = Free]
  /\ UNCHANGED <<order, rrCursor, churnVars>>

\* Mistake: one failure too many before the cooldown.
RecordFailureLate(a) ==
  /\ failures' = [failures EXCEPT ![a] = @ + 1]
  /\ cooldown' = [cooldown EXCEPT
                    ![a] = IF failures[a] + 1 > MaxFailures THEN "running" ELSE @]

\* recordFailure: the cooldown starts (again) once the threshold is reached.
RecordFailure(a) ==
  /\ failures' = [failures EXCEPT ![a] = @ + 1]
  /\ cooldown' = [cooldown EXCEPT
                    ![a] = IF failures[a] + 1 >= MaxFailures THEN "running" ELSE @]

ResetFailures(a) ==
  /\ failures' = [failures EXCEPT ![a] = 0]
  /\ cooldown' = [cooldown EXCEPT ![a] = "none"]

FailCycle(a, s) == Settle(a, s) /\ RecordFailure(a)

\* Mistake: updating the state of an agent that is gone brings it back.
AwaitUnchecked(a, s, next, t) ==
  /\ cycle' = [cycle EXCEPT ![a][s] = next]
  /\ thinking' = [thinking EXCEPT ![a] = t]
  /\ UNCHANGED <<order, activeCycles, rrCursor, failures, cooldown, churnVars>>

\* The cycle goes on to wait at next; t is isThinking of its agent from now on.
Await(a, s, next, t) ==
  /\ cycle' = [cycle EXCEPT ![a][s] = next]
  /\ thinking' = [thinking EXCEPT ![a] = Active(a) /\ t]
  /\ UNCHANGED <<order, activeCycles, rrCursor, failures, cooldown, churnVars>>
-----------------------------------------------------------------------------
(* Perceive and Plan.                                                        *)

\* The classifier answers.  A plan the agent already has is kept: the cycle
\* goes straight on to Execute.
Perceived(a, s) ==
  /\ Quiet
  /\ cycle[a][s].pc = "perceiving"
  /\ \/ plan[a].id # 0 /\ Await(a, s, At("execute"), thinking[a])
     \/ plan[a].id = 0 /\ Await(a, s, At("planning"), TRUE)
  /\ UNCHANGED <<plan, outcome, serviceVars>>

\* The classifier throws: the cycle is rejected, and no failure is recorded.
PerceiveRejected(a, s) ==
  /\ PerceiveMayFail /\ Quiet
  /\ cycle[a][s].pc = "perceiving"
  /\ Settle(a, s)
  /\ UNCHANGED <<plan, outcome, failures, cooldown, serviceVars>>

\* storePlan, for an agent that is still active; then on to Execute.
StorePlan(a, s, steps) ==
  /\ \E id \in 1..MaxPlanId :
       /\ FreshId(a, id)
       /\ IF Active(a)
            THEN /\ plan' = [plan EXCEPT ![a] = NewPlan(id, steps)]
                 /\ outcome' = [outcome EXCEPT ![a] = Superseded(plan[a], @)]
            ELSE UNCHANGED <<plan, outcome>>
  /\ planFailures' = [planFailures EXCEPT ![a] = 0]
  /\ Await(a, s, At("execute"), FALSE)
  /\ UNCHANGED <<stepFailures, planSkips>>

\* Mistake: every formation failure starts the count anew.
MiscountedAnew(a) == IF FloorAfter > 1 THEN 1 ELSE FloorAfter

\* failFormation counts towards the floor plan (a count beyond FloorAfter is
\* as good as FloorAfter); the floor fails when the room offers no binding.
Miscounted(a) == IF planFailures[a] < FloorAfter THEN planFailures[a] + 1 ELSE FloorAfter

FloorDue(a) == FloorAfter > 0 /\ Miscounted(a) >= FloorAfter

FailFormation(a, s) ==
  \/ /\ FloorDue(a)
     /\ \E f \in FloorSteps : StorePlan(a, s, <<f>>)
  \/ /\ FloorDue(a) => FloorMayFail
     /\ planFailures' = [planFailures EXCEPT ![a] = Miscounted(a)]
     /\ FailCycle(a, s)
     /\ UNCHANGED <<plan, outcome, stepFailures, planSkips>>

\* The LLM answers a plan request, or the retry of one.
PlanAnswered(a, s, answer) ==
  /\ Quiet
  /\ cycle[a][s].pc \in {"planning", "retrying"}
  /\ \/ /\ answer = "valid"
        /\ \E steps \in Plans : StorePlan(a, s, steps)
     \/ /\ answer = "unbound" /\ cycle[a][s].pc = "planning"
        /\ Await(a, s, At("retrying"), thinking[a])
        /\ UNCHANGED <<plan, outcome, serviceVars>>
     \/ /\ answer = "malformed" \/ (answer = "unbound" /\ cycle[a][s].pc = "retrying")
        /\ FailFormation(a, s)
     \/ /\ answer \in {"allWait", "error"}
        /\ FailCycle(a, s)
        /\ UNCHANGED <<plan, outcome, serviceVars>>
-----------------------------------------------------------------------------
(* Execute.  An attempt is one pass of executeImpl over the current step; the *)
(* world's answer decides which of its branches it takes.                    *)

CurrentStep(p) == p.steps[p.pos]

\* syncPlanSkipCount, which every attempt runs first.
SkipsSoFar(a) == IF planSkips[a].id = plan[a].id THEN planSkips[a].count ELSE 0

SyncSkips(a, n) == planSkips' = [planSkips EXCEPT ![a] = [id |-> plan[a].id, count |-> n]]

\* Mistake: the reflect service does not set isThinking.
ToReflectUnlocked(a, s, ok, skips, p) ==
  /\ plan' = [plan EXCEPT ![a] = p]
  /\ \/ /\ Active(a)
        /\ Await(a, s, [pc |-> "reflecting", entry |-> p, ok |-> ok, skips |-> skips], FALSE)
     \/ /\ ~Active(a)
        /\ FailCycle(a, s)

\* A cycle hands its execute result to Reflect, which captures the plan it
\* finds.  For an agent despawned meanwhile Reflect fails, and the cycle too.
ToReflect(a, s, ok, skips, p) ==
  /\ plan' = [plan EXCEPT ![a] = p]
  /\ \/ /\ Active(a)
        /\ Await(a, s, [pc |-> "reflecting", entry |-> p, ok |-> ok, skips |-> skips], TRUE)
     \/ /\ ~Active(a)
        /\ FailCycle(a, s)

\* Mistake: failures of one step do not add up.
FailureCountOnce(a, text) == 1

\* registerStepFailure: the count goes by the step's description.
FailureCount(a, text) ==
  IF stepFailures[a].text = text THEN stepFailures[a].count + 1 ELSE 1

ForgetStepFailures(a) ==
  stepFailures' = [stepFailures EXCEPT ![a] = [text |-> NoText, count |-> 0]]

\* Below the threshold the failure is only counted ...
CountStepFailure(a, text) ==
  /\ FailureCount(a, text) < MaxStepFailures
  /\ stepFailures' = [stepFailures EXCEPT
                        ![a] = [text |-> text, count |-> FailureCount(a, text)]]

\* Mistake: the result carries the skip total of before the skip.
StepSkipUncounted(a, s, text, skips) ==
  /\ FailureCount(a, text) >= MaxStepFailures
  /\ ForgetStepFailures(a)
  /\ ToReflect(a, s, TRUE, skips, SkipOver(plan[a]))

\* ... and at the threshold the plan moves past the step, as a success.
StepSkip(a, s, text, skips) ==
  /\ FailureCount(a, text) >= MaxStepFailures
  /\ ForgetStepFailures(a)
  /\ ToReflect(a, s, TRUE, skips + 1, SkipOver(plan[a]))

\* An attempt on the current step, which the world answers with o.
Attempt(a, s, o) ==
  /\ cycle[a][s].pc = "execute"
  /\ Active(a) /\ ~Complete(plan[a])
  /\ o \in OutcomesOf[CurrentStep(plan[a])]

ExecuteAbsent(a, s) ==
  /\ cycle[a][s].pc = "execute"
  /\ ~Active(a)
  /\ FailCycle(a, s)
  /\ UNCHANGED <<plan, outcome, serviceVars>>

\* A completed plan that no Reflect has cleared yet.
ExecuteComplete(a, s) ==
  /\ cycle[a][s].pc = "execute"
  /\ Active(a) /\ Complete(plan[a])
  /\ SyncSkips(a, SkipsSoFar(a))
  /\ ToReflect(a, s, TRUE, SkipsSoFar(a), plan[a])
  /\ UNCHANGED <<outcome, planFailures, stepFailures>>

\* Still under way to the target area: the step stays current.
ExecuteWalking(a, s) ==
  /\ Attempt(a, s, "walking")
  /\ SyncSkips(a, SkipsSoFar(a))
  /\ ToReflect(a, s, TRUE, SkipsSoFar(a), plan[a])
  /\ UNCHANGED <<outcome, planFailures, stepFailures>>

\* A navigation step whose area is reached, an intentional no-op, and a step
\* that nothing here can bind: the plan advances and the counter is kept.
ExecuteAdvance(a, s) ==
  /\ \E o \in {"arrived", "idle", "unresolvable"} : Attempt(a, s, o)
  /\ SyncSkips(a, SkipsSoFar(a))
  /\ ToReflect(a, s, TRUE, SkipsSoFar(a), Advance(plan[a]))
  /\ UNCHANGED <<outcome, planFailures, stepFailures>>

\* No route, a refused action or unmet preconditions: the step-skip guard.
\* A refused action ("blocked") goes to Reflect as a deviation.
ExecuteFailure(a, s, o) ==
  LET text == TextOf[CurrentStep(plan[a])]
  IN /\ o \in {"unreachable", "blocked", "unmet"}
     /\ Attempt(a, s, o)
     /\ \/ /\ StepSkip(a, s, text, SkipsSoFar(a))
           /\ SyncSkips(a, SkipsSoFar(a) + 1)
        \/ /\ CountStepFailure(a, text)
           /\ SyncSkips(a, SkipsSoFar(a))
           /\ IF o = "blocked"
                THEN ToReflect(a, s, FALSE, SkipsSoFar(a), Tried(plan[a]))
                ELSE plan' = [plan EXCEPT ![a] = Tried(@)] /\ FailCycle(a, s)
     /\ UNCHANGED <<outcome, planFailures>>

\* The target is gone for good: the whole plan is invalidated.
ExecuteStale(a, s) ==
  /\ Attempt(a, s, "stale")
  /\ SyncSkips(a, SkipsSoFar(a))
  /\ outcome' = [outcome EXCEPT ![a] = Superseded(plan[a], @)]
  /\ ForgetStepFailures(a)
  /\ ToReflect(a, s, FALSE, SkipsSoFar(a), NoPlan)
  /\ UNCHANGED planFailures

\* The object has moved to another room: a failure the guard does not count.
ExecuteRelocated(a, s) ==
  /\ Attempt(a, s, "relocated")
  /\ SyncSkips(a, SkipsSoFar(a))
  /\ plan' = [plan EXCEPT ![a] = Tried(@)]
  /\ FailCycle(a, s)
  /\ UNCHANGED <<outcome, planFailures, stepFailures>>

\* The affordance handler is called; the plan it was called for is captured.
CallHandler(a, s) ==
  /\ \E o \in HandlerOutcomes : Attempt(a, s, o)
  /\ SyncSkips(a, SkipsSoFar(a))
  /\ Await(a, s, [At("handling") EXCEPT !.entry = plan[a]], thinking[a])
  /\ UNCHANGED <<plan, outcome, planFailures, stepFailures>>

\* The handler answers o.  Only a plain success forgets the step's failures;
\* a compound that aborts and a handler that throws are not counted.
HandlerAnswered(a, s, o) ==
  LET step == CurrentStep(cycle[a][s].entry)
      skips == planSkips[a].count
  IN /\ HandlersSuspend => Quiet
     /\ cycle[a][s].pc = "handling"
     /\ o \in OutcomesOf[step] \cap HandlerOutcomes
     /\ \/ /\ o = "done"
           /\ ForgetStepFailures(a)
           /\ ToReflect(a, s, TRUE, skips, Advance(plan[a]))
           /\ UNCHANGED planSkips
        \/ /\ o = "compoundDone"
           /\ ToReflect(a, s, TRUE, skips, Advance(plan[a]))
           /\ UNCHANGED <<stepFailures, planSkips>>
        \/ /\ o = "failed"
           /\ StepSkip(a, s, TextOf[step], skips)
           /\ planSkips' = [planSkips EXCEPT ![a].count = @ + 1]
        \/ /\ o = "failed"
           /\ CountStepFailure(a, TextOf[step])
           /\ plan' = [plan EXCEPT ![a] = Tried(@)]
           /\ FailCycle(a, s)
           /\ UNCHANGED planSkips
        \/ /\ o \in {"threw", "compoundAborted"}
           /\ plan' = [plan EXCEPT ![a] = Tried(@)]
           /\ FailCycle(a, s)
           /\ UNCHANGED <<stepFailures, planSkips>>
     /\ UNCHANGED <<outcome, planFailures>>
-----------------------------------------------------------------------------
(* Reflect.                                                                  *)

\* stampPlanOutcome, in the finally block: a plan that was complete when
\* Reflect began, or an execute result that had failed, is an outcome.
Stamp(a, c) ==
  IF Active(a) /\ c.entry.id # 0 /\ (Complete(c.entry) \/ ~c.ok)
    THEN outcome' = [outcome EXCEPT ![a] =
           [id |-> c.entry.id, success |-> c.ok, superseded |-> FALSE, skips |-> c.skips]]
    ELSE UNCHANGED outcome

\* Mistake: the plan is cleared whether it is complete or not.
ReflectDoneClears(a, s) ==
  /\ plan' = [plan EXCEPT ![a] = NoPlan]
  /\ Stamp(a, cycle[a][s])
  /\ Settle(a, s)
  /\ ResetFailures(a)

\* Reflect succeeds: clearPlanIfComplete, then the orchestrator's reset.
ReflectDone(a, s) ==
  /\ plan' = [plan EXCEPT ![a] = IF Complete(@) THEN NoPlan ELSE @]
  /\ Stamp(a, cycle[a][s])
  /\ Settle(a, s)
  /\ ResetFailures(a)

\* Reflect fails: the plan stays; after a deviation it is no failure.
ReflectFailed(a, s) ==
  /\ Stamp(a, cycle[a][s])
  /\ Settle(a, s)
  /\ IF cycle[a][s].ok THEN RecordFailure(a) ELSE UNCHANGED <<failures, cooldown>>
  /\ UNCHANGED plan

\* Whether there is something to remember is for the LLM and the execute
\* result to say; storing it waits for the memory store.
ReflectAnswered(a, s, answer) ==
  /\ Quiet
  /\ cycle[a][s].pc = "reflecting"
  /\ \/ /\ answer = "remember"
        /\ Await(a, s, [cycle[a][s] EXCEPT !.pc = "storing"], thinking[a])
        /\ UNCHANGED <<plan, outcome>>
     \/ answer = "nothing" /\ ReflectDone(a, s)
     \/ answer = "invalid" /\ ReflectFailed(a, s)
  /\ UNCHANGED serviceVars

MemoryStored(a, s) ==
  /\ Quiet
  /\ cycle[a][s].pc = "storing"
  /\ ReflectDone(a, s)
  /\ UNCHANGED serviceVars

MemoryRefused(a, s) ==
  /\ Quiet
  /\ cycle[a][s].pc = "storing"
  /\ ReflectFailed(a, s)
  /\ UNCHANGED serviceVars
-----------------------------------------------------------------------------
(* Spawning and despawning (SceneMutationServiceImpl.apply, between two      *)
(* turns).  Neither looks at the cycles in flight.  A proposal is validated  *)
(* while its agent is not active, and the queue is drained in one turn, so   *)
(* an agent that already has cycles of this life is never spawned again.     *)

Churn(a) ==
  /\ Quiet
  /\ churn < MaxChurn
  /\ churn' = churn + 1
  /\ thinking' = [thinking EXCEPT ![a] = FALSE]
  /\ UNCHANGED <<activeCycles, rrCursor, cycle, failures, cooldown, serviceVars>>

Despawn(a) ==
  /\ \E i \in DOMAIN order :
       /\ order[i] = a
       /\ order' = SubSeq(order, 1, i - 1) \o SubSeq(order, i + 1, Len(order))
  /\ dormant' = [dormant EXCEPT
                   ![a] = [stored |-> TRUE, plan |-> plan[a], outcome |-> outcome[a]]]
  /\ plan' = [plan EXCEPT ![a] = NoPlan]
  /\ outcome' = [outcome EXCEPT ![a] = NoOutcome]
  /\ Churn(a)

SpawnFresh(a) ==
  /\ ~Active(a)
  /\ order' = Append(order, a)
  /\ plan' = [plan EXCEPT ![a] = NoPlan]
  /\ outcome' = [outcome EXCEPT ![a] = NoOutcome]
  /\ Churn(a)
  /\ UNCHANGED dormant

SpawnDormant(a) ==
  /\ dormant[a].stored /\ ~Active(a)
  /\ order' = Append(order, a)
  /\ plan' = [plan EXCEPT ![a] = dormant[a].plan]
  /\ outcome' = [outcome EXCEPT ![a] = dormant[a].outcome]
  /\ dormant' = [dormant EXCEPT ![a] = NotDormant]
  /\ Churn(a)
-----------------------------------------------------------------------------
ExecuteStep(a, s) ==
  \/ ExecuteAbsent(a, s)
  \/ ExecuteComplete(a, s)
  \/ ExecuteWalking(a, s)
  \/ ExecuteAdvance(a, s)
  \/ \E o \in Outcomes : ExecuteFailure(a, s, o)
  \/ ExecuteStale(a, s)
  \/ ExecuteRelocated(a, s)
  \/ CallHandler(a, s)
  \/ \E o \in HandlerOutcomes : HandlerAnswered(a, s, o)

CycleStep(a, s) ==
  \/ Perceived(a, s)
  \/ PerceiveRejected(a, s)
  \/ \E answer \in PlanAnswers : PlanAnswered(a, s, answer)
  \/ ExecuteStep(a, s)
  \/ \E answer \in ReflectAnswers : ReflectAnswered(a, s, answer)
  \/ MemoryStored(a, s)
  \/ MemoryRefused(a, s)

TickStep == \E idled \in IF Gated THEN SUBSET Agents ELSE {{}} : Tick(idled)

Next ==
  \/ TickStep
  \/ \E a \in Agents :
       \/ CooldownElapses(a)
       \/ \E s \in Slots : CycleStep(a, s)
       \/ Despawn(a)
       \/ SpawnFresh(a)
       \/ SpawnDormant(a)

Spec == Init /\ [][Next]_vars

(* The game loop keeps ticking, the clock passes every cooldown, and every   *)
(* answer a cycle waits for arrives: LLM requests are aborted on a timeout,  *)
(* the classifier and the memory store settle their promises.  The event     *)
(* loop serves each of these in a turn of its own, and no chain of the       *)
(* others can keep it from that turn for ever: hence strong fairness, for    *)
(* actions that a chain under way (not Quiet) disables again and again.      *)
FairSpec ==
  /\ Spec
  /\ SF_vars(TickStep)
  /\ \A a \in Agents : WF_vars(CooldownElapses(a))
  /\ \A a \in Agents, s \in Slots : SF_vars(CycleStep(a, s))
-----------------------------------------------------------------------------
(* What must hold.                                                           *)

TypeOK ==
  /\ order \in Seq(Agents)
  /\ thinking \in [Agents -> BOOLEAN]
  /\ plan \in [Agents -> Plan]
  /\ outcome \in [Agents -> Outcome]
  /\ activeCycles \in Nat
  /\ rrCursor \in Nat
  /\ cycle \in [Agents -> [Slots -> Cycle]]
  /\ failures \in [Agents -> Nat]
  /\ cooldown \in [Agents -> {"none", "running", "expired"}]
  /\ planFailures \in [Agents -> 0..FloorAfter]
  /\ stepFailures \in [Agents -> [text : Texts \cup {NoText}, count : 0..MaxStepFailures]]
  /\ planSkips \in [Agents -> [id : 0..MaxPlanId, count : Nat]]
  /\ dormant \in [Agents -> Asleep]
  /\ churn \in 0..MaxChurn

(* activeCycles is the number of runCycle calls in flight, neither leaked by *)
(* an error path nor settled twice, and never more than the limit: whatever  *)
(* is spawned, despawned or rejected meanwhile.                              *)
ActiveCyclesExact ==
  /\ activeCycles = Cardinality(InFlight)
  /\ activeCycles <= MaxConcurrent

(* isThinking never outlives the work it stands for: an agent frozen by a    *)
(* flag that no cycle of it will ever clear would be skipped by every tick.  *)
ThinkingHasOwner == \A a \in Agents : thinking[a] => Active(a) /\ Running(a) # {}

(* The scheduler never starts a second cycle of an agent that has one in     *)
(* flight (spec 008, 7.3): isThinking is off while a plan executes and is    *)
(* set by four different services, yet it must work as the agent's lock.     *)
OneCyclePerAgent == \A a \in Agents : Cardinality(Running(a)) <= 1

(* The converse of ThinkingHasOwner: whenever the scheduler can look, an     *)
(* agent with a cycle in flight is thinking.                                 *)
ThinkingGuardsCycle == Quiet => \A a \in Agents : Running(a) # {} => thinking[a]

(* isThinking works as the lock of its agent, as long as nobody is           *)
(* despawned: it is on when it is looked at, and lets no second cycle in.    *)
LockHolds == OneCyclePerAgent /\ ThinkingGuardsCycle

(* The failure count and the cooldown tell the same story, and an agent that *)
(* cools down has no cycle at work: a cooldown is set by the last failure    *)
(* and lifted by the cycle that starts next.                                 *)
CooldownConsistent ==
  \A a \in Agents :
    /\ failures[a] >= MaxFailures <=> cooldown[a] # "none"
    /\ cooldown[a] # "none" => Running(a) = {}

(* The execute service's skip total for the plan under way is the number of  *)
(* steps the guard skipped in it, however cycles, plans and resets mix ...   *)
SkipsHonest ==
  \A a \in Agents : planSkips[a].id = plan[a].id => planSkips[a].count = plan[a].skipped

(* ... so that the outcome stamped for a plan that completes reports exactly *)
(* those skips (spec 057).                                                   *)
OutcomeReportsSkips ==
  [][\A a \in Agents :
       (outcome'[a] # outcome[a] /\ outcome'[a].success) =>
          /\ outcome'[a].id = plan[a].id
          /\ Complete(plan[a])
          /\ outcome'[a].skips = plan[a].skipped]_vars

(* A plan never just disappears: when an active agent's plan is cleared or   *)
(* replaced, the last outcome names it, and calls it a success only if every *)
(* step of it was done with.                                                 *)
PlanEndsWithOutcome ==
  [][\A a \in Agents :
       (plan[a].id # 0 /\ plan'[a].id # plan[a].id) =>
          /\ outcome'[a].id = plan[a].id
          /\ outcome'[a].success <=> Complete(plan[a])]_vars

(* What the next plan prompt is told of the last plan is what became of it:  *)
(* every plan leaves an outcome, and one that succeeds counts its skips.     *)
OutcomesTrue == OutcomeReportsSkips /\ PlanEndsWithOutcome

(* No step is executed and failed MaxStepFailures times while its plan stays *)
(* put (comment at execute-service.ts:280): the guard moves the plan on.     *)
BoundedRetry == \A a \in Agents : plan[a].tries < MaxStepFailures

(* Every agent gets its turn for ever, although one cycle runs at a time     *)
(* and cycles fail, are rejected or cool down.                               *)
NoStarvation == \A a \in Agents : []<>(Running(a) # {})

(* A cycle in which the step comes to nothing and the step-skip guard hears  *)
(* of no failure: the classifier threw before it, the agent is still walking, *)
(* the object has moved to another room, the handler threw, a compound was   *)
(* aborted.                                                                  *)
Unheard(a) ==
  \E s \in Slots :
    \/ PerceiveRejected(a, s)
    \/ ExecuteWalking(a, s)
    \/ ExecuteRelocated(a, s)
    \/ \E o \in {"threw", "compoundAborted"} : HandlerAnswered(a, s, o)

(* A failure that the guard counts.                                          *)
Heard(a) ==
  \E s \in Slots :
    \/ \E o \in {"unreachable", "blocked", "unmet"} : ExecuteFailure(a, s, o)
    \/ HandlerAnswered(a, s, "failed")

(* Whatever the LLM makes of its reflections, a plan whose steps keep        *)
(* failing is worked off or given up.  It holds its agent for ever only if   *)
(* from some time on the guard hears of no failure, while cycles go on: then *)
(* the same walk, relocation (execute-service.ts:317), exception (:412) or   *)
(* abort (:450) is repeated, and the code has no way out of it.              *)
PlanProgress ==
  \A a \in Agents :
    \/ []<>Complete(plan[a])
    \/ []<><<plan'[a].id # plan[a].id>>_vars
    \/ []<><<Unheard(a)>>_vars /\ <>[][~Heard(a)]_vars

(* An agent without a plan gets one in the end, even from an LLM that never  *)
(* returns a plan the validator accepts: the floor plan engages.             *)
FloorEngages == \A a \in Agents : plan[a].id = 0 ~> plan[a].id # 0
-----------------------------------------------------------------------------
(* What the components promise, and what this specification makes of it.     *)

(* The scheduler's pool of cycles.                                           *)
Pool == INSTANCE CyclePool WITH Limit <- MaxConcurrent, running <- InFlight

(* Every behaviour of the cycles is a behaviour of the pool.                 *)
ImplementsPool == Pool!PoolSpec

(* The plan of each agent, seen through phase, steps left and verdict.       *)
PlanPhase(p) == IF p.id = 0 THEN "none" ELSE IF Complete(p) THEN "complete" ELSE "working"

Verdict(o) ==
  CASE o.id = 0     -> "none"
    [] o.superseded -> "superseded"
    [] o.success    -> "success"
    [] OTHER        -> "failure"

Lifecycle == INSTANCE PlanLifecycle WITH
  phase   <- [a \in Agents |-> PlanPhase(plan[a])],
  left    <- [a \in Agents |-> Len(plan[a].steps) + 1 - plan[a].pos],
  verdict <- [a \in Agents |-> Verdict(outcome[a])]

(* While no agent is spawned or despawned, plans live the life the plan      *)
(* prompt tells of: four services and the orchestrator together lose none,   *)
(* finish none early and report each.                                        *)
ImplementsLifecycle == Lifecycle!LifecycleSpec
=============================================================================
