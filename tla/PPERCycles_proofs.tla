-------------------------- MODULE PPERCycles_proofs --------------------------
(***************************************************************************)
(* Proofs about PPERCycles for every population, every limit, every plan   *)
(* and every answer of the world: type correctness, the exactness of the   *)
(* cycle counter, the ownership of isThinking, and the refinement of       *)
(* CyclePool.  Each step of a cycle either ends it or leaves it waiting    *)
(* (StepShape); these arguments look at nothing else.                      *)
(*                                                                         *)
(* For agents that nobody despawns, and handlers that answer in the turn   *)
(* they are called in: that isThinking works as a lock, that the cooldown  *)
(* agrees with the failures, that outcomes are true, and the refinement of *)
(* PlanLifecycle.                                                          *)
(***************************************************************************)
EXTENDS PPERCycles, FiniteSetTheorems, SequenceTheorems, TLAPS

-----------------------------------------------------------------------------
(* Plans and outcomes.                                                       *)

LEMMA NoPlanIsPlan == NoPlan \in Plan
BY LimitsAssumption DEF NoPlan, Plan

LEMMA NoOutcomeIsOutcome == NoOutcome \in Outcome
BY LimitsAssumption DEF NoOutcome, Outcome

LEMMA AdvanceIsPlan == \A p \in Plan : Advance(p) \in Plan
<1> SUFFICES ASSUME NEW p \in Plan PROVE Advance(p) \in Plan
  OBVIOUS
<1>1. p.pos + 1 \in Nat \ {0} /\ 0 \in 0..MaxStepFailures
  BY LimitsAssumption DEF Plan
<1>2. [p EXCEPT !.pos = @ + 1, !.tries = 0] \in Plan
  BY <1>1 DEF Plan
<1>3. QED
  BY <1>2 DEF Advance

LEMMA TriedIsPlan == \A p \in Plan : Tried(p) \in Plan
<1> SUFFICES ASSUME NEW p \in Plan PROVE Tried(p) \in Plan
  OBVIOUS
<1>1. CASE p.id = 0 \/ p.tries = MaxStepFailures
  BY <1>1 DEF Tried
<1>2. CASE ~(p.id = 0 \/ p.tries = MaxStepFailures)
  <2>1. p.tries + 1 \in 0..MaxStepFailures
    BY <1>2, LimitsAssumption DEF Plan
  <2>2. [p EXCEPT !.tries = @ + 1] \in Plan
    BY <2>1 DEF Plan
  <2>3. QED
    BY <1>2, <2>2 DEF Tried
<1>3. QED
  BY <1>1, <1>2

LEMMA SkipOverIsPlan == \A p \in Plan : SkipOver(p) \in Plan
<1> SUFFICES ASSUME NEW p \in Plan PROVE SkipOver(p) \in Plan
  OBVIOUS
<1>1. Advance(p) \in Plan
  BY AdvanceIsPlan
<1>2. Advance(p).skipped + 1 \in Nat
  BY <1>1 DEF Plan
<1>3. [Advance(p) EXCEPT !.skipped = @ + 1] \in Plan
  BY <1>1, <1>2 DEF Plan
<1>4. QED
  BY <1>3 DEF SkipOver

LEMMA NewPlanIsPlan ==
  ASSUME NEW id \in 1..MaxPlanId, NEW steps \in Seq(Steps)
  PROVE  NewPlan(id, steps) \in Plan
<1>1. id \in 0..MaxPlanId
  BY LimitsAssumption
<1>2. QED
  BY <1>1, NoPlanIsPlan DEF NewPlan, Plan

\* The step an incomplete plan is at is a step.
LEMMA CurrentStepIsStep ==
  ASSUME NEW p \in Plan, ~Complete(p)
  PROVE  CurrentStep(p) \in Steps
BY DEF CurrentStep, Complete, Plan

LEMMA SupersededIsOutcome ==
  \A p \in Plan, o \in Outcome : Superseded(p, o) \in Outcome
BY DEF Superseded, Plan, Outcome

LEMMA FreeIsCycle == Free \in Cycle
BY NoPlanIsPlan DEF Free, Cycle, Phases

LEMMA AtIsCycle == \A pc \in Phases : At(pc) \in Cycle /\ At(pc).pc = pc
BY NoPlanIsPlan DEF At, Free, Cycle

LEMMA NotDormantIsAsleep == NotDormant \in Asleep
BY NoPlanIsPlan, NoOutcomeIsOutcome DEF NotDormant, Asleep
-----------------------------------------------------------------------------
(* The inductive invariant.                                                  *)

\* TypeOK without the counter, whose type follows from its exactness.
FrameOK ==
  /\ order \in Seq(Agents)
  /\ thinking \in [Agents -> BOOLEAN]
  /\ rrCursor \in Nat
  /\ cycle \in [Agents -> [Slots -> Cycle]]
  /\ dormant \in [Agents -> Asleep]
  /\ churn \in 0..MaxChurn

CountersOK ==
  /\ failures \in [Agents -> Nat]
  /\ cooldown \in [Agents -> {"none", "running", "expired"}]

PlansOK ==
  /\ plan \in [Agents -> Plan]
  /\ outcome \in [Agents -> Outcome]

ServicesOK ==
  /\ planFailures \in [Agents -> 0..FloorAfter]
  /\ stepFailures \in [Agents -> [text : Texts \cup {NoText}, count : 0..MaxStepFailures]]
  /\ planSkips \in [Agents -> [id : 0..MaxPlanId, count : Nat]]

\* A cycle that waits for a handler was at a step when it called it.
HandlingHasStep ==
  \A a \in Agents, s \in Slots :
    cycle[a][s].pc = "handling" => ~Complete(cycle[a][s].entry)

DataOK == FrameOK /\ CountersOK /\ PlansOK /\ ServicesOK /\ HandlingHasStep

IInv == DataOK /\ ActiveCyclesExact /\ ThinkingHasOwner

\* The two things a step of a cycle can do to it.
Ends(a, s) == Settle(a, s)

Waits(a, s) ==
  \E next \in Cycle, t \in BOOLEAN :
    /\ next.pc # "free"
    /\ next.pc = "handling" => ~Complete(next.entry)
    /\ Await(a, s, next, t)

\* Every step of a cycle does one of them, to a cycle in flight, and keeps
\* the data well formed.
Moves(a, s) ==
  /\ cycle[a][s].pc # "free"
  /\ Waits(a, s) \/ Ends(a, s)
  /\ DataOK'
-----------------------------------------------------------------------------
(* What the common parts of the actions keep.                                *)

LEMMA EndsKeeps ==
  ASSUME DataOK, NEW a \in Agents, NEW s \in Slots, Ends(a, s)
  PROVE  FrameOK' /\ HandlingHasStep'
<1>1. FrameOK'
  BY FreeIsCycle DEF DataOK, FrameOK, Ends, Settle, churnVars
<1>2. \A b \in Agents, r \in Slots : cycle'[b][r] = IF b = a /\ r = s THEN Free ELSE cycle[b][r]
  BY DEF DataOK, FrameOK, Ends, Settle
<1>3. Free.pc # "handling"
  BY DEF Free
<1>4. QED
  BY <1>1, <1>2, <1>3 DEF DataOK, HandlingHasStep

LEMMA WaitsKeeps ==
  ASSUME DataOK, NEW a \in Agents, NEW s \in Slots, Waits(a, s)
  PROVE  FrameOK' /\ CountersOK' /\ HandlingHasStep'
<1>1. PICK next \in Cycle, t \in BOOLEAN :
        /\ next.pc = "handling" => ~Complete(next.entry)
        /\ Await(a, s, next, t)
  BY DEF Waits
<1>2. (Active(a) /\ t) \in BOOLEAN
  BY DEF Active
<1>3. FrameOK'
  BY <1>1, <1>2 DEF DataOK, FrameOK, Await, churnVars
<1>4. CountersOK'
  BY <1>1 DEF DataOK, CountersOK, Await
<1>5. \A b \in Agents, r \in Slots : cycle'[b][r] = IF b = a /\ r = s THEN next ELSE cycle[b][r]
  BY <1>1 DEF DataOK, FrameOK, Await
<1>6. QED
  BY <1>1, <1>3, <1>4, <1>5 DEF DataOK, HandlingHasStep

LEMMA RecordFailureKeeps ==
  ASSUME DataOK, NEW a \in Agents, RecordFailure(a)
  PROVE  CountersOK'
BY DEF DataOK, CountersOK, RecordFailure

\* Waiting at a plain phase, thinking or not.
LEMMA AwaitPhase ==
  ASSUME NEW a, NEW s, NEW pc \in Phases \ {"free", "handling"}, NEW t \in BOOLEAN,
         Await(a, s, At(pc), t)
  PROVE  Waits(a, s)
<1>1. At(pc) \in Cycle /\ At(pc).pc = pc
  BY AtIsCycle
<1>2. QED
  BY <1>1 DEF Waits

\* A cycle that fails, its agent's plan and services being well formed.
LEMMA FailCycleMoves ==
  ASSUME DataOK, NEW a \in Agents, NEW s \in Slots, cycle[a][s].pc # "free",
         FailCycle(a, s), PlansOK', ServicesOK'
  PROVE  Moves(a, s)
<1>1. Ends(a, s) /\ RecordFailure(a)
  BY DEF FailCycle, Ends
<1>2. FrameOK' /\ HandlingHasStep'
  BY <1>1, EndsKeeps
<1>3. CountersOK'
  BY <1>1, RecordFailureKeeps
<1>4. QED
  BY <1>1, <1>2, <1>3 DEF Moves, DataOK

LEMMA WaitsMoves ==
  ASSUME DataOK, NEW a \in Agents, NEW s \in Slots, cycle[a][s].pc # "free",
         Waits(a, s), PlansOK', ServicesOK'
  PROVE  Moves(a, s)
BY WaitsKeeps DEF Moves, DataOK

LEMMA ToReflectMoves ==
  ASSUME DataOK, NEW a \in Agents, NEW s \in Slots, cycle[a][s].pc # "free",
         NEW ok \in BOOLEAN, NEW skips \in Nat, NEW p \in Plan,
         ToReflect(a, s, ok, skips, p), outcome' \in [Agents -> Outcome], ServicesOK'
  PROVE  Moves(a, s)
<1>1. PlansOK'
  BY DEF ToReflect, PlansOK, DataOK
<1>2. CASE Active(a) /\ Await(a, s, [pc |-> "reflecting", entry |-> p, ok |-> ok,
                                     skips |-> skips], TRUE)
  <2>1. [pc |-> "reflecting", entry |-> p, ok |-> ok, skips |-> skips] \in Cycle
    BY DEF Cycle, Phases
  <2>2. Waits(a, s)
    BY <1>2, <2>1 DEF Waits
  <2>3. QED
    BY <1>1, <2>2, WaitsMoves
<1>3. CASE ~Active(a) /\ FailCycle(a, s)
  BY <1>1, <1>3, FailCycleMoves
<1>4. QED
  BY <1>2, <1>3 DEF ToReflect
-----------------------------------------------------------------------------
(* Perceive and Plan.                                                        *)

LEMMA PerceivedMoves ==
  ASSUME DataOK, NEW a \in Agents, NEW s \in Slots, Perceived(a, s)
  PROVE  Moves(a, s)
<1>1. PlansOK' /\ ServicesOK' /\ thinking[a] \in BOOLEAN
  BY DEF Perceived, DataOK, FrameOK, PlansOK, ServicesOK, serviceVars
<1>2. Waits(a, s)
  BY <1>1, AwaitPhase DEF Perceived, Phases
<1>3. QED
  BY <1>1, <1>2, WaitsMoves DEF Perceived

LEMMA PerceiveRejectedMoves ==
  ASSUME DataOK, NEW a \in Agents, NEW s \in Slots, PerceiveRejected(a, s)
  PROVE  Moves(a, s)
<1>1. PlansOK' /\ ServicesOK' /\ CountersOK'
  BY DEF PerceiveRejected, DataOK, CountersOK, PlansOK, ServicesOK, serviceVars
<1>2. Ends(a, s) /\ cycle[a][s].pc # "free"
  BY DEF PerceiveRejected, Ends
<1>3. QED
  BY <1>1, <1>2, EndsKeeps DEF Moves, DataOK

LEMMA StorePlanMoves ==
  ASSUME DataOK, NEW a \in Agents, NEW s \in Slots, cycle[a][s].pc # "free",
         NEW steps \in Seq(Steps), StorePlan(a, s, steps)
  PROVE  Moves(a, s)
<1>1. PlansOK'
  <2>1. CASE Active(a)
    <3>1. PICK id \in 1..MaxPlanId :
            /\ plan' = [plan EXCEPT ![a] = NewPlan(id, steps)]
            /\ outcome' = [outcome EXCEPT ![a] = Superseded(plan[a], @)]
      BY <2>1 DEF StorePlan
    <3>2. NewPlan(id, steps) \in Plan
      BY NewPlanIsPlan
    <3>3. Superseded(plan[a], outcome[a]) \in Outcome
      BY SupersededIsOutcome DEF DataOK, PlansOK
    <3>4. QED
      BY <3>1, <3>2, <3>3 DEF DataOK, PlansOK
  <2>2. CASE ~Active(a)
    BY <2>2 DEF StorePlan, DataOK, PlansOK
  <2>3. QED
    BY <2>1, <2>2
<1>2. ServicesOK'
  BY LimitsAssumption DEF StorePlan, DataOK, ServicesOK
<1>3. Waits(a, s)
  BY AwaitPhase DEF StorePlan, Phases
<1>4. QED
  BY <1>1, <1>2, <1>3, WaitsMoves

LEMMA FailFormationMoves ==
  ASSUME DataOK, NEW a \in Agents, NEW s \in Slots, cycle[a][s].pc # "free",
         FailFormation(a, s)
  PROVE  Moves(a, s)
<1>1. CASE \E f \in FloorSteps : StorePlan(a, s, <<f>>)
  <2>1. PICK f \in FloorSteps : StorePlan(a, s, <<f>>)
    BY <1>1
  <2>2. <<f>> \in Seq(Steps)
    BY DataAssumption
  <2>3. QED
    BY <2>1, <2>2, StorePlanMoves
<1>2. CASE /\ planFailures' = [planFailures EXCEPT ![a] = Miscounted(a)]
           /\ FailCycle(a, s)
           /\ UNCHANGED <<plan, outcome, stepFailures, planSkips>>
  <2>1. Miscounted(a) \in 0..FloorAfter
    BY LimitsAssumption DEF Miscounted, DataOK, ServicesOK
  <2>2. PlansOK' /\ ServicesOK'
    BY <1>2, <2>1 DEF DataOK, PlansOK, ServicesOK
  <2>3. QED
    BY <1>2, <2>2, FailCycleMoves
<1>3. QED
  BY <1>1, <1>2 DEF FailFormation

LEMMA PlanAnsweredMoves ==
  ASSUME DataOK, NEW a \in Agents, NEW s \in Slots, NEW answer, PlanAnswered(a, s, answer)
  PROVE  Moves(a, s)
<1>1. cycle[a][s].pc # "free"
  BY DEF PlanAnswered
<1>2. CASE \E steps \in Plans : StorePlan(a, s, steps)
  BY <1>1, <1>2, StorePlanMoves, DataAssumption
<1>3. CASE /\ Await(a, s, At("retrying"), thinking[a])
           /\ UNCHANGED <<plan, outcome, serviceVars>>
  <2>1. PlansOK' /\ ServicesOK' /\ thinking[a] \in BOOLEAN
    BY <1>3 DEF DataOK, FrameOK, PlansOK, ServicesOK, serviceVars
  <2>2. Waits(a, s)
    BY <1>3, <2>1, AwaitPhase DEF Phases
  <2>3. QED
    BY <1>1, <2>1, <2>2, WaitsMoves
<1>4. CASE FailFormation(a, s)
  BY <1>1, <1>4, FailFormationMoves
<1>5. CASE FailCycle(a, s) /\ UNCHANGED <<plan, outcome, serviceVars>>
  <2>1. PlansOK' /\ ServicesOK'
    BY <1>5 DEF DataOK, PlansOK, ServicesOK, serviceVars
  <2>2. QED
    BY <1>1, <1>5, <2>1, FailCycleMoves
<1>6. QED
  BY <1>2, <1>3, <1>4, <1>5 DEF PlanAnswered
-----------------------------------------------------------------------------
(* Execute.                                                                  *)

\* What the bookkeeping of an attempt keeps.
LEMMA SyncSkipsKeeps ==
  ASSUME DataOK, NEW a \in Agents, NEW n \in Nat, SyncSkips(a, n)
  PROVE  planSkips' \in [Agents -> [id : 0..MaxPlanId, count : Nat]]
<1>1. plan[a].id \in 0..MaxPlanId
  BY DEF DataOK, PlansOK, Plan
<1>2. QED
  BY <1>1 DEF DataOK, ServicesOK, SyncSkips

LEMMA SkipsSoFarIsNat ==
  ASSUME DataOK, NEW a \in Agents
  PROVE  SkipsSoFar(a) \in Nat /\ planSkips[a].count \in Nat
BY DEF DataOK, ServicesOK, SkipsSoFar

LEMMA ForgetKeeps ==
  ASSUME DataOK, NEW a \in Agents, ForgetStepFailures(a)
  PROVE  stepFailures' \in [Agents -> [text : Texts \cup {NoText}, count : 0..MaxStepFailures]]
<1>1. 0 \in 0..MaxStepFailures
  BY LimitsAssumption
<1>2. QED
  BY <1>1 DEF DataOK, ServicesOK, ForgetStepFailures

LEMMA CountKeeps ==
  ASSUME DataOK, NEW a \in Agents, NEW text \in Texts, CountStepFailure(a, text)
  PROVE  stepFailures' \in [Agents -> [text : Texts \cup {NoText}, count : 0..MaxStepFailures]]
<1>1. FailureCount(a, text) \in 0..MaxStepFailures
  BY LimitsAssumption DEF CountStepFailure, FailureCount, DataOK, ServicesOK
<1>2. QED
  BY <1>1 DEF DataOK, ServicesOK, CountStepFailure

\* An attempt that hands its result to Reflect and counts no failure.
LEMMA QuietAttemptMoves ==
  ASSUME DataOK, NEW a \in Agents, NEW s \in Slots, cycle[a][s].pc = "execute",
         NEW p \in Plan, SyncSkips(a, SkipsSoFar(a)),
         ToReflect(a, s, TRUE, SkipsSoFar(a), p),
         UNCHANGED <<outcome, planFailures, stepFailures>>
  PROVE  Moves(a, s)
<1>1. SkipsSoFar(a) \in Nat
  BY SkipsSoFarIsNat
<1>2. ServicesOK' /\ outcome' \in [Agents -> Outcome]
  BY <1>1, SyncSkipsKeeps DEF DataOK, ServicesOK, PlansOK
<1>3. QED
  BY <1>1, <1>2, ToReflectMoves

LEMMA ExecuteQuietlyMoves ==
  ASSUME DataOK, NEW a \in Agents, NEW s \in Slots,
         ExecuteComplete(a, s) \/ ExecuteWalking(a, s) \/ ExecuteAdvance(a, s)
  PROVE  Moves(a, s)
<1>1. plan[a] \in Plan /\ Advance(plan[a]) \in Plan
  BY AdvanceIsPlan DEF DataOK, PlansOK
<1>2. CASE ExecuteComplete(a, s)
  BY <1>1, <1>2, QuietAttemptMoves DEF ExecuteComplete
<1>3. CASE ExecuteWalking(a, s)
  BY <1>1, <1>3, QuietAttemptMoves DEF ExecuteWalking, Attempt
<1>4. CASE ExecuteAdvance(a, s)
  BY <1>1, <1>4, QuietAttemptMoves DEF ExecuteAdvance, Attempt
<1>5. QED
  BY <1>2, <1>3, <1>4

LEMMA ExecuteAbsentMoves ==
  ASSUME DataOK, NEW a \in Agents, NEW s \in Slots, ExecuteAbsent(a, s)
  PROVE  Moves(a, s)
<1>1. PlansOK' /\ ServicesOK'
  BY DEF ExecuteAbsent, DataOK, PlansOK, ServicesOK, serviceVars
<1>2. QED
  BY <1>1, FailCycleMoves DEF ExecuteAbsent

\* An attempt that fails the cycle, or the skip of a step that failed.
LEMMA TriedMoves ==
  ASSUME DataOK, NEW a \in Agents, NEW s \in Slots, cycle[a][s].pc # "free",
         plan' = [plan EXCEPT ![a] = Tried(@)], FailCycle(a, s),
         UNCHANGED outcome, ServicesOK'
  PROVE  Moves(a, s)
<1>1. PlansOK'
  BY TriedIsPlan DEF DataOK, PlansOK
<1>2. QED
  BY <1>1, FailCycleMoves

LEMMA StepSkipMoves ==
  ASSUME DataOK, NEW a \in Agents, NEW s \in Slots, cycle[a][s].pc # "free",
         NEW text, NEW skips \in Nat, StepSkip(a, s, text, skips),
         planSkips' \in [Agents -> [id : 0..MaxPlanId, count : Nat]],
         UNCHANGED <<outcome, planFailures>>
  PROVE  Moves(a, s)
<1>1. SkipOver(plan[a]) \in Plan
  BY SkipOverIsPlan DEF DataOK, PlansOK
<1>2. ServicesOK' /\ outcome' \in [Agents -> Outcome]
  BY ForgetKeeps DEF StepSkip, DataOK, ServicesOK, PlansOK
<1>3. ToReflect(a, s, TRUE, skips + 1, SkipOver(plan[a]))
  BY DEF StepSkip
<1>4. skips + 1 \in Nat
  OBVIOUS
<1>5. QED
  BY <1>1, <1>2, <1>3, <1>4, ToReflectMoves

LEMMA ExecuteFailureMoves ==
  ASSUME DataOK, NEW a \in Agents, NEW s \in Slots, NEW o, ExecuteFailure(a, s, o)
  PROVE  Moves(a, s)
<1> DEFINE text == TextOf[CurrentStep(plan[a])]
<1>1. cycle[a][s].pc # "free" /\ ~Complete(plan[a])
  BY DEF ExecuteFailure, Attempt
<1>2. plan[a] \in Plan
  BY DEF DataOK, PlansOK
<1>3. text \in Texts
  BY <1>1, <1>2, CurrentStepIsStep, DataAssumption
<1>4. SkipsSoFar(a) \in Nat /\ SkipsSoFar(a) + 1 \in Nat
  BY SkipsSoFarIsNat
<1>5. UNCHANGED <<outcome, planFailures>>
  BY DEF ExecuteFailure
<1>6. CASE StepSkip(a, s, text, SkipsSoFar(a)) /\ SyncSkips(a, SkipsSoFar(a) + 1)
  BY <1>1, <1>4, <1>5, <1>6, SyncSkipsKeeps, StepSkipMoves
<1>7. CASE /\ CountStepFailure(a, text)
           /\ SyncSkips(a, SkipsSoFar(a))
           /\ IF o = "blocked"
                THEN ToReflect(a, s, FALSE, SkipsSoFar(a), Tried(plan[a]))
                ELSE plan' = [plan EXCEPT ![a] = Tried(@)] /\ FailCycle(a, s)
  <2>1. ServicesOK' /\ outcome' \in [Agents -> Outcome]
    BY <1>3, <1>4, <1>5, <1>7, SyncSkipsKeeps, CountKeeps DEF DataOK, ServicesOK, PlansOK
  <2>2. Tried(plan[a]) \in Plan
    BY <1>2, TriedIsPlan
  <2>3. CASE o = "blocked"
    BY <1>1, <1>4, <1>7, <2>1, <2>2, <2>3, ToReflectMoves
  <2>4. CASE o # "blocked"
    BY <1>1, <1>5, <1>7, <2>1, <2>4, TriedMoves
  <2>5. QED
    BY <2>3, <2>4
<1>8. QED
  BY <1>6, <1>7 DEF ExecuteFailure

LEMMA ExecuteStaleMoves ==
  ASSUME DataOK, NEW a \in Agents, NEW s \in Slots, ExecuteStale(a, s)
  PROVE  Moves(a, s)
<1>1. SkipsSoFar(a) \in Nat
  BY SkipsSoFarIsNat
<1>2. ServicesOK'
  BY <1>1, SyncSkipsKeeps, ForgetKeeps DEF ExecuteStale, DataOK, ServicesOK
<1>3. Superseded(plan[a], outcome[a]) \in Outcome
  BY SupersededIsOutcome DEF DataOK, PlansOK
<1>4. outcome' \in [Agents -> Outcome]
  BY <1>3 DEF ExecuteStale, DataOK, PlansOK
<1>5. cycle[a][s].pc # "free"
  BY DEF ExecuteStale, Attempt
<1>6. ToReflect(a, s, FALSE, SkipsSoFar(a), NoPlan)
  BY DEF ExecuteStale
<1>7. QED
  BY <1>1, <1>2, <1>4, <1>5, <1>6, NoPlanIsPlan, ToReflectMoves

LEMMA ExecuteRelocatedMoves ==
  ASSUME DataOK, NEW a \in Agents, NEW s \in Slots, ExecuteRelocated(a, s)
  PROVE  Moves(a, s)
<1>1. ServicesOK'
  BY SkipsSoFarIsNat, SyncSkipsKeeps DEF ExecuteRelocated, DataOK, ServicesOK
<1>2. QED
  BY <1>1, TriedMoves DEF ExecuteRelocated, Attempt

LEMMA CallHandlerMoves ==
  ASSUME DataOK, NEW a \in Agents, NEW s \in Slots, CallHandler(a, s)
  PROVE  Moves(a, s)
<1> DEFINE next == [At("handling") EXCEPT !.entry = plan[a]]
<1>1. PlansOK' /\ thinking[a] \in BOOLEAN /\ plan[a] \in Plan
  BY DEF CallHandler, DataOK, FrameOK, PlansOK
<1>2. ServicesOK'
  BY SkipsSoFarIsNat, SyncSkipsKeeps DEF CallHandler, DataOK, ServicesOK
<1>3. cycle[a][s].pc # "free" /\ ~Complete(plan[a])
  BY DEF CallHandler, Attempt
<1>4. next \in Cycle /\ next.pc = "handling" /\ next.entry = plan[a]
  BY <1>1, AtIsCycle DEF Cycle, Phases
<1>5. Waits(a, s)
  BY <1>1, <1>3, <1>4 DEF Waits, CallHandler
<1>6. QED
  BY <1>1, <1>2, <1>3, <1>5, WaitsMoves

LEMMA HandlerAnsweredMoves ==
  ASSUME DataOK, NEW a \in Agents, NEW s \in Slots, NEW o, HandlerAnswered(a, s, o)
  PROVE  Moves(a, s)
<1> DEFINE text  == TextOf[CurrentStep(cycle[a][s].entry)]
           skips == planSkips[a].count
<1>1. cycle[a][s].pc # "free" /\ UNCHANGED <<outcome, planFailures>>
  BY DEF HandlerAnswered
<1>2. text \in Texts
  <2>1. cycle[a][s].entry \in Plan
    BY DEF DataOK, FrameOK, Cycle
  <2>2. ~Complete(cycle[a][s].entry)
    BY DEF HandlerAnswered, DataOK, HandlingHasStep
  <2>3. QED
    BY <2>1, <2>2, CurrentStepIsStep, DataAssumption
<1>3. skips \in Nat /\ outcome' \in [Agents -> Outcome] /\ Advance(plan[a]) \in Plan
  BY <1>1, SkipsSoFarIsNat, AdvanceIsPlan DEF DataOK, PlansOK
<1>4. CASE /\ ForgetStepFailures(a)
           /\ ToReflect(a, s, TRUE, skips, Advance(plan[a]))
           /\ UNCHANGED planSkips
  <2>1. ServicesOK'
    BY <1>1, <1>4, ForgetKeeps DEF DataOK, ServicesOK
  <2>2. QED
    BY <1>1, <1>3, <1>4, <2>1, ToReflectMoves
<1>5. CASE /\ ToReflect(a, s, TRUE, skips, Advance(plan[a]))
           /\ UNCHANGED <<stepFailures, planSkips>>
  <2>1. ServicesOK'
    BY <1>1, <1>5 DEF DataOK, ServicesOK
  <2>2. QED
    BY <1>1, <1>3, <1>5, <2>1, ToReflectMoves
<1>6. CASE /\ StepSkip(a, s, text, skips)
           /\ planSkips' = [planSkips EXCEPT ![a].count = @ + 1]
  <2>1. planSkips' \in [Agents -> [id : 0..MaxPlanId, count : Nat]]
    BY <1>6 DEF DataOK, ServicesOK
  <2>2. QED
    BY <1>1, <1>3, <1>6, <2>1, StepSkipMoves
<1>7. CASE /\ CountStepFailure(a, text)
           /\ plan' = [plan EXCEPT ![a] = Tried(@)]
           /\ FailCycle(a, s)
           /\ UNCHANGED planSkips
  <2>1. ServicesOK'
    BY <1>1, <1>2, <1>7, CountKeeps DEF DataOK, ServicesOK
  <2>2. QED
    BY <1>1, <1>7, <2>1, TriedMoves
<1>8. CASE /\ plan' = [plan EXCEPT ![a] = Tried(@)]
           /\ FailCycle(a, s)
           /\ UNCHANGED <<stepFailures, planSkips>>
  <2>1. ServicesOK'
    BY <1>1, <1>8 DEF DataOK, ServicesOK
  <2>2. QED
    BY <1>1, <1>8, <2>1, TriedMoves
<1>9. QED
  BY <1>4, <1>5, <1>6, <1>7, <1>8 DEF HandlerAnswered

LEMMA ExecuteStepMoves ==
  ASSUME DataOK, NEW a \in Agents, NEW s \in Slots, ExecuteStep(a, s)
  PROVE  Moves(a, s)
BY ExecuteAbsentMoves, ExecuteQuietlyMoves, ExecuteFailureMoves, ExecuteStaleMoves,
   ExecuteRelocatedMoves, CallHandlerMoves, HandlerAnsweredMoves DEF ExecuteStep
-----------------------------------------------------------------------------
(* Reflect.                                                                  *)

LEMMA StampKeeps ==
  ASSUME DataOK, NEW a \in Agents, NEW s \in Slots, Stamp(a, cycle[a][s])
  PROVE  outcome' \in [Agents -> Outcome]
<1> DEFINE c == cycle[a][s]
           new == [id |-> c.entry.id, success |-> c.ok, superseded |-> FALSE,
                   skips |-> c.skips]
<1>1. c \in Cycle /\ outcome \in [Agents -> Outcome]
  BY DEF DataOK, FrameOK, PlansOK
<1>2. new \in Outcome
  BY <1>1 DEF Cycle, Plan, Outcome
<1>3. outcome' = [outcome EXCEPT ![a] = new] \/ outcome' = outcome
  BY DEF Stamp
<1>4. QED
  BY <1>1, <1>2, <1>3

LEMMA ReflectDoneMoves ==
  ASSUME DataOK, NEW a \in Agents, NEW s \in Slots, cycle[a][s].pc # "free",
         ReflectDone(a, s), UNCHANGED serviceVars
  PROVE  Moves(a, s)
<1>1. PlansOK'
  BY StampKeeps, NoPlanIsPlan DEF ReflectDone, DataOK, PlansOK
<1>2. ServicesOK' /\ CountersOK'
  BY DEF ReflectDone, ResetFailures, DataOK, ServicesOK, CountersOK, serviceVars
<1>3. Ends(a, s)
  BY DEF ReflectDone, Ends
<1>4. QED
  BY <1>1, <1>2, <1>3, EndsKeeps DEF Moves, DataOK

LEMMA ReflectFailedMoves ==
  ASSUME DataOK, NEW a \in Agents, NEW s \in Slots, cycle[a][s].pc # "free",
         ReflectFailed(a, s), UNCHANGED serviceVars
  PROVE  Moves(a, s)
<1>1. PlansOK' /\ ServicesOK'
  BY StampKeeps DEF ReflectFailed, DataOK, PlansOK, ServicesOK, serviceVars
<1>2. CountersOK'
  BY RecordFailureKeeps DEF ReflectFailed, DataOK, CountersOK
<1>3. Ends(a, s)
  BY DEF ReflectFailed, Ends
<1>4. QED
  BY <1>1, <1>2, <1>3, EndsKeeps DEF Moves, DataOK

LEMMA ReflectAnsweredMoves ==
  ASSUME DataOK, NEW a \in Agents, NEW s \in Slots, NEW answer,
         ReflectAnswered(a, s, answer)
  PROVE  Moves(a, s)
<1> DEFINE next == [cycle[a][s] EXCEPT !.pc = "storing"]
<1>1. cycle[a][s].pc # "free" /\ UNCHANGED serviceVars
  BY DEF ReflectAnswered
<1>2. CASE Await(a, s, next, thinking[a]) /\ UNCHANGED <<plan, outcome>>
  <2>1. cycle[a][s] \in Cycle /\ thinking[a] \in BOOLEAN
    BY DEF DataOK, FrameOK
  <2>2. next \in Cycle /\ next.pc = "storing"
    BY <2>1 DEF Cycle, Phases
  <2>3. Waits(a, s)
    BY <1>2, <2>1, <2>2 DEF Waits
  <2>4. PlansOK' /\ ServicesOK'
    BY <1>1, <1>2 DEF DataOK, PlansOK, ServicesOK, serviceVars
  <2>5. QED
    BY <1>1, <2>3, <2>4, WaitsMoves
<1>3. CASE ReflectDone(a, s)
  BY <1>1, <1>3, ReflectDoneMoves
<1>4. CASE ReflectFailed(a, s)
  BY <1>1, <1>4, ReflectFailedMoves
<1>5. QED
  BY <1>2, <1>3, <1>4 DEF ReflectAnswered

\* Whatever a cycle in flight does, it waits again or it ends.
LEMMA StepShape ==
  ASSUME DataOK, NEW a \in Agents, NEW s \in Slots, CycleStep(a, s)
  PROVE  Moves(a, s)
<1>1. CASE MemoryStored(a, s)
  BY <1>1, ReflectDoneMoves DEF MemoryStored
<1>2. CASE MemoryRefused(a, s)
  BY <1>2, ReflectFailedMoves DEF MemoryRefused
<1>3. QED
  BY <1>1, <1>2, PerceivedMoves, PerceiveRejectedMoves, PlanAnsweredMoves,
     ExecuteStepMoves, ReflectAnsweredMoves DEF CycleStep
-----------------------------------------------------------------------------
(* The scheduler's pass.                                                     *)

\* Of a set of positions, at most k have fewer than k positions before them.
LEMMA FirstFew ==
  ASSUME NEW n \in Nat, NEW W \in SUBSET (1..n), NEW k \in Nat
  PROVE  LET few == {p \in W : Cardinality({q \in W : q < p}) < k}
         IN IsFiniteSet(few) /\ Cardinality(few) <= k
<1> DEFINE below(p) == {q \in W : q < p}
           few  == {p \in W : Cardinality(below(p)) < k}
           rank == [p \in few |-> Cardinality(below(p))]
<1>1. IsFiniteSet(1..n)
  BY FS_Interval
<1>2. \A p \in W : IsFiniteSet(below(p)) /\ Cardinality(below(p)) \in Nat
  <2>1. \A p \in W : below(p) \in SUBSET (1..n)
    OBVIOUS
  <2>2. QED
    BY <1>1, <2>1, FS_Subset, FS_CardinalityType
<1>3. \A p, q \in W : p < q => Cardinality(below(p)) < Cardinality(below(q))
  <2> SUFFICES ASSUME NEW p \in W, NEW q \in W, p < q
               PROVE  Cardinality(below(p)) < Cardinality(below(q))
    OBVIOUS
  <2>0. p \in Nat /\ q \in Nat /\ \A r \in W : r \in Nat
    OBVIOUS
  <2>1. p \notin below(p) /\ below(p) \cup {p} \in SUBSET below(q)
    <3>1. p \notin below(p) /\ p \in below(q)
      BY <2>0
    <3>2. \A r \in below(p) : r \in below(q)
      BY <2>0
    <3>3. QED
      BY <3>1, <3>2
  <2>2. Cardinality(below(p) \cup {p}) = Cardinality(below(p)) + 1
    BY <1>2, <2>1, FS_AddElement
  <2>3. Cardinality(below(p) \cup {p}) <= Cardinality(below(q))
    BY <1>2, <2>1, FS_Subset
  <2>4. QED
    BY <1>2, <2>2, <2>3
<1>4. rank \in [few -> 0..(k - 1)]
  <2>1. \A p \in few : Cardinality(below(p)) \in Nat /\ Cardinality(below(p)) < k
    BY <1>2
  <2>2. \A c \in Nat : c < k => c \in 0..(k - 1)
    OBVIOUS
  <2>3. \A p \in few : Cardinality(below(p)) \in 0..(k - 1)
    BY <2>1, <2>2
  <2>4. QED
    BY <2>3
<1>5. \A p, q \in few : rank[p] = rank[q] => p = q
  <2> SUFFICES ASSUME NEW p \in few, NEW q \in few, p # q
               PROVE  rank[p] # rank[q]
    OBVIOUS
  <2>1. p \in W /\ q \in W /\ (p < q \/ q < p)
    OBVIOUS
  <2>2. QED
    BY <1>2, <1>3, <2>1
<1>6. rank \in Injection(few, 0..(k - 1))
  BY <1>4, <1>5 DEF Injection, IsInjective
<1>7. IsFiniteSet(0..(k - 1)) /\ Cardinality(0..(k - 1)) = k
  BY FS_Interval
<1>8. IsFiniteSet(few) /\ Cardinality(few) <= k
  BY <1>6, <1>7, FS_Injection
<1>9. QED
  BY <1>8

LEMMA InFlightFinite == IsFiniteSet(InFlight) /\ Cardinality(InFlight) \in Nat
<1>1. IsFiniteSet(Slots)
  BY FS_Interval, LimitsAssumption DEF Slots
<1>2. IsFiniteSet(Agents \X Slots)
  BY <1>1, FS_Product, AgentsAssumption
<1>3. InFlight \in SUBSET (Agents \X Slots)
  BY DEF InFlight
<1>4. QED
  BY <1>2, <1>3, FS_Subset, FS_CardinalityType

LEMMA CounterType ==
  ASSUME ActiveCyclesExact
  PROVE  activeCycles \in 0..MaxConcurrent
BY InFlightFinite, LimitsAssumption DEF ActiveCyclesExact

\* While the limit is not reached, no agent has all its slots taken.
LEMMA FreeSlotIsFree ==
  ASSUME ActiveCyclesExact, activeCycles < MaxConcurrent, NEW a \in Agents
  PROVE  FreeSlot(a) \in Slots /\ cycle[a][FreeSlot(a)].pc = "free"
<1>1. SUFFICES ASSUME \A s \in Slots : cycle[a][s].pc # "free" PROVE FALSE
  BY DEF FreeSlot
<1> DEFINE pair == [s \in Slots |-> <<a, s>>]
<1>2. pair \in Injection(Slots, InFlight)
  BY <1>1 DEF Injection, IsInjective, InFlight
<1>3. Cardinality(Slots) <= Cardinality(InFlight)
  BY <1>2, InFlightFinite, FS_Injection
<1>4. Cardinality(Slots) = MaxConcurrent
  BY FS_Interval, LimitsAssumption DEF Slots
<1>5. QED
  BY <1>3, <1>4, InFlightFinite, LimitsAssumption DEF ActiveCyclesExact

\* A pass looks at active agents only and starts no more than there is room for.
LEMMA StartersFit ==
  ASSUME DataOK, ActiveCyclesExact, NEW idled
  PROVE  /\ \A a \in Starters(idled) : a \in Agents /\ Active(a)
         /\ IsFiniteSet(Starters(idled))
         /\ Cardinality(Starters(idled)) \in Nat
         /\ Cardinality(Starters(idled)) <= MaxConcurrent - activeCycles
<1> DEFINE n == Len(order)
           W == Willing(idled)
           room == MaxConcurrent - activeCycles
           few == W \cap Reached(idled)
           image == {Scanned(p) : p \in few}
           scan == [p \in few |-> Scanned(p)]
<1>1. n \in Nat /\ W \in SUBSET (1..n) /\ room \in Nat
  BY CounterType, LimitsAssumption DEF DataOK, FrameOK, Willing
<1>2. \A p \in W : Cardinality(Before(idled, p)) \in Nat
  <2>1. \A p \in W : Before(idled, p) \in SUBSET (1..n)
    BY <1>1 DEF Before
  <2>2. IsFiniteSet(1..n)
    BY <1>1, FS_Interval
  <2>3. \A p \in W : IsFiniteSet(Before(idled, p))
    BY <2>1, <2>2, FS_Subset
  <2>4. QED
    BY <2>3, FS_CardinalityType
<1>3. few = {p \in W : Cardinality({q \in W : q < p}) < room}
  BY <1>1, <1>2, CounterType, LimitsAssumption DEF Reached, Before
<1>4. IsFiniteSet(few) /\ Cardinality(few) <= room
  BY <1>1, <1>3, FirstFew
<1>5. scan \in Surjection(few, image)
  BY DEF Surjection
<1>6. IsFiniteSet(image) /\ Cardinality(image) <= Cardinality(few)
  BY <1>4, <1>5, FS_Surjection
<1>7. Starters(idled) \in SUBSET image
  BY DEF Starters
<1>8. IsFiniteSet(Starters(idled)) /\ Cardinality(Starters(idled)) <= Cardinality(image)
  BY <1>6, <1>7, FS_Subset
<1>9. /\ Cardinality(Starters(idled)) \in Nat
      /\ Cardinality(few) \in Nat
      /\ Cardinality(image) \in Nat
  BY <1>4, <1>6, <1>8, FS_CardinalityType
<1>10. \A p \in few : Scanned(p) \in Agents /\ Active(Scanned(p))
  <2> SUFFICES ASSUME NEW p \in few PROVE Scanned(p) \in Agents /\ Active(Scanned(p))
    OBVIOUS
  <2> DEFINE i == ((rrCursor + p - 1) % Len(order)) + 1
  <2>1. p \in 1..n /\ rrCursor \in Nat /\ order \in Seq(Agents)
    BY <1>1 DEF DataOK, FrameOK
  <2>2. i \in 1..n
    BY <1>1, <2>1
  <2>3. QED
    BY <2>1, <2>2 DEF Scanned, Active
<1>11. QED
  BY <1>1, <1>4, <1>6, <1>7, <1>8, <1>9, <1>10

\* What a pass does to the cycles: each starter gets one more, in a free slot.
LEMMA TickStarts ==
  ASSUME DataOK, ActiveCyclesExact, NEW idled, Tick(idled)
  PROVE  /\ \A a \in Starters(idled) :
              /\ a \in Agents /\ Active(a)
              /\ FreeSlot(a) \in Slots /\ cycle[a][FreeSlot(a)].pc = "free"
         /\ \A a \in Agents, s \in Slots :
              cycle'[a][s] = IF a \in Starters(idled) /\ s = FreeSlot(a)
                               THEN At("perceiving") ELSE cycle[a][s]
         /\ FrameOK' /\ HandlingHasStep'
<1> DEFINE S == Starters(idled)
<1>1. /\ \A a \in S : a \in Agents /\ Active(a)
      /\ IsFiniteSet(S) /\ Cardinality(S) \in Nat
      /\ Cardinality(S) <= MaxConcurrent - activeCycles
  BY StartersFit
<1>2. \A a \in S : FreeSlot(a) \in Slots /\ cycle[a][FreeSlot(a)].pc = "free"
  <2> SUFFICES ASSUME NEW a \in S
               PROVE  FreeSlot(a) \in Slots /\ cycle[a][FreeSlot(a)].pc = "free"
    OBVIOUS
  <2>1. Cardinality(S) # 0
    BY <1>1, FS_EmptySet
  <2>2. activeCycles < MaxConcurrent
    BY <1>1, <2>1, CounterType, LimitsAssumption
  <2>3. QED
    BY <1>1, <2>2, FreeSlotIsFree
<1>3. At("perceiving") \in Cycle /\ At("perceiving").pc = "perceiving"
  BY AtIsCycle DEF Phases
<1>4. cycle' = [a \in Agents |->
                  IF a \in S THEN [cycle[a] EXCEPT ![FreeSlot(a)] = At("perceiving")]
                             ELSE cycle[a]]
  BY DEF Tick
<1>5. cycle \in [Agents -> [Slots -> Cycle]]
  BY DEF DataOK, FrameOK
<1>6. cycle' \in [Agents -> [Slots -> Cycle]]
  BY <1>3, <1>4, <1>5
<1>7. \A a \in Agents, s \in Slots :
        cycle'[a][s] = IF a \in S /\ s = FreeSlot(a) THEN At("perceiving") ELSE cycle[a][s]
  BY <1>2, <1>4, <1>5
<1>8. rrCursor' \in Nat
  <2>1. CASE order = <<>>
    BY <2>1 DEF Tick, NextCursor, DataOK, FrameOK
  <2>2. CASE order # <<>>
    <3>1. Len(order) \in Nat /\ Len(order) > 0
      BY <2>2 DEF DataOK, FrameOK
    <3>2. Reached(idled) \in SUBSET (1..Len(order))
      BY DEF Reached
    <3>3. Cardinality(Reached(idled)) \in Nat
      <4>1. IsFiniteSet(1..Len(order))
        BY <3>1, FS_Interval
      <4>2. IsFiniteSet(Reached(idled))
        BY <3>2, <4>1, FS_Subset
      <4>3. QED
        BY <4>2, FS_CardinalityType
    <3>4. (rrCursor + Cardinality(Reached(idled))) % Len(order) \in Nat
      BY <3>1, <3>3 DEF DataOK, FrameOK
    <3>5. QED
      BY <2>2, <3>4 DEF Tick, NextCursor
  <2>3. QED
    BY <2>1, <2>2
<1>9. thinking' \in [Agents -> BOOLEAN]
  BY DEF Tick, DataOK, FrameOK
<1>10. FrameOK'
  BY <1>6, <1>8, <1>9 DEF Tick, DataOK, FrameOK, churnVars
<1>11. HandlingHasStep'
  BY <1>3, <1>7 DEF DataOK, HandlingHasStep
<1>12. QED
  BY <1>1, <1>2, <1>7, <1>10, <1>11

\* The pool counts as this specification does.
LEMMA PoolCardinality == ASSUME NEW S PROVE Pool!Cardinality(S) = Cardinality(S)
BY DEF Pool!Cardinality, Cardinality

\* A pass keeps the counter exact and within the limit: it is the pool's
\* StartSome.
LEMMA TickCounts ==
  ASSUME DataOK, ActiveCyclesExact, NEW idled, Tick(idled)
  PROVE  ActiveCyclesExact' /\ Pool!StartSome
<1> DEFINE S == Starters(idled)
           pair == [a \in S |-> <<a, FreeSlot(a)>>]
           New == {<<a, FreeSlot(a)>> : a \in S}
<1>1. /\ IsFiniteSet(S) /\ Cardinality(S) \in Nat
      /\ Cardinality(S) <= MaxConcurrent - activeCycles
  BY StartersFit
<1>2. \A a \in S : /\ a \in Agents /\ FreeSlot(a) \in Slots
                   /\ cycle[a][FreeSlot(a)].pc = "free"
  BY TickStarts
<1>3. \A a \in Agents, s \in Slots :
        cycle'[a][s].pc # "free" <=> cycle[a][s].pc # "free" \/ <<a, s>> \in New
  <2> SUFFICES ASSUME NEW a \in Agents, NEW s \in Slots
               PROVE  cycle'[a][s].pc # "free"
                        <=> cycle[a][s].pc # "free" \/ <<a, s>> \in New
    OBVIOUS
  <2>1. cycle'[a][s] = IF a \in S /\ s = FreeSlot(a) THEN At("perceiving") ELSE cycle[a][s]
    BY TickStarts
  <2>2. <<a, s>> \in New <=> a \in S /\ s = FreeSlot(a)
    OBVIOUS
  <2>3. At("perceiving").pc = "perceiving"
    BY AtIsCycle DEF Phases
  <2>4. QED
    BY <2>1, <2>2, <2>3
<1>4. New \in SUBSET (Agents \X Slots) /\ New \cap InFlight = {}
  BY <1>2 DEF InFlight
<1>5. InFlight' = InFlight \cup New
  <2>1. InFlight' = {c \in Agents \X Slots : cycle'[c[1]][c[2]].pc # "free"}
    BY DEF InFlight
  <2>2. \A c \in Agents \X Slots : c \in InFlight' <=> c \in InFlight \cup New
    BY <1>3, <2>1 DEF InFlight
  <2>3. InFlight' \in SUBSET (Agents \X Slots) /\ InFlight \in SUBSET (Agents \X Slots)
    BY <2>1 DEF InFlight
  <2>4. QED
    BY <1>4, <2>2, <2>3
<1>6. pair \in Surjection(S, New) /\ pair \in Injection(S, New)
  BY DEF Surjection, Injection, IsInjective
<1>7. IsFiniteSet(New) /\ Cardinality(New) = Cardinality(S)
  BY <1>1, <1>6, FS_Surjection
<1>8. Cardinality(InFlight') = Cardinality(InFlight) + Cardinality(S)
  <2>1. Cardinality(New \cap InFlight) = 0
    BY <1>4, FS_EmptySet
  <2>2. Cardinality(InFlight \cup New)
          = Cardinality(InFlight) + Cardinality(New) - Cardinality(InFlight \cap New)
    BY <1>7, InFlightFinite, FS_Union
  <2>3. InFlight \cap New = New \cap InFlight
    OBVIOUS
  <2>4. Cardinality(InFlight') = Cardinality(InFlight \cup New)
    BY <1>5
  <2>5. Cardinality(InFlight \cup New) = Cardinality(InFlight) + Cardinality(S)
    <3>1. Cardinality(InFlight \cap New) = 0
      BY <2>1, <2>3
    <3>2. Cardinality(InFlight) \in Nat
      BY InFlightFinite
    <3>3. QED
      BY <1>1, <1>7, <2>2, <3>1, <3>2
  <2>6. QED
    BY <2>4, <2>5
<1>9. activeCycles' = activeCycles + Cardinality(S)
  BY DEF Tick
<1>10. activeCycles' = Cardinality(InFlight') /\ Cardinality(InFlight') <= MaxConcurrent
  BY <1>1, <1>8, <1>9, CounterType, LimitsAssumption DEF ActiveCyclesExact
<1>11. ActiveCyclesExact'
  BY <1>10 DEF ActiveCyclesExact
<1>12. \A c, d \in InFlight' \ InFlight : c[1] = d[1] => c = d
  BY <1>5
<1>13. InFlight' \subseteq Agents \X (1..MaxConcurrent) /\ InFlight \subseteq InFlight'
  BY <1>4, <1>5 DEF InFlight, Slots
<1>14. Pool!StartSome
  <2>1. Pool!Cardinality(InFlight') <= MaxConcurrent
    BY <1>10, PoolCardinality
  <2>2. QED
    BY <1>12, <1>13, <2>1 DEF Pool!StartSome, Pool!Cycles
<1>15. QED
  BY <1>11, <1>14

LEMMA TickOwners ==
  ASSUME DataOK, ActiveCyclesExact, ThinkingHasOwner, NEW idled, Tick(idled)
  PROVE  ThinkingHasOwner'
<1> SUFFICES ASSUME NEW a \in Agents, thinking'[a]
             PROVE  Active(a)' /\ Running(a)' # {}
  BY DEF ThinkingHasOwner
<1>1. Active(a)' <=> Active(a)
  BY DEF Tick, Active
<1>2. At("perceiving").pc = "perceiving"
  BY AtIsCycle DEF Phases
<1>3. CASE a \in Starters(idled)
  <2>1. Active(a) /\ FreeSlot(a) \in Slots /\ cycle'[a][FreeSlot(a)].pc = "perceiving"
    BY <1>2, <1>3, TickStarts
  <2>2. QED
    BY <1>1, <2>1 DEF Running
<1>4. CASE a \notin Starters(idled)
  <2>1. thinking[a]
    BY <1>4 DEF Tick
  <2>2. Active(a) /\ Running(a) # {}
    BY <2>1 DEF ThinkingHasOwner
  <2>3. \A s \in Slots : cycle'[a][s] = cycle[a][s]
    BY <1>4, TickStarts
  <2>4. QED
    BY <1>1, <2>2, <2>3 DEF Running
<1>5. QED
  BY <1>3, <1>4

LEMMA TickKeepsData ==
  ASSUME DataOK, ActiveCyclesExact, NEW idled, Tick(idled)
  PROVE  DataOK'
<1>1. FrameOK' /\ HandlingHasStep'
  BY TickStarts
<1>2. CountersOK'
  BY DEF Tick, DataOK, CountersOK
<1>3. PlansOK' /\ ServicesOK'
  BY DEF Tick, DataOK, PlansOK, ServicesOK, serviceVars
<1>4. QED
  BY <1>1, <1>2, <1>3 DEF DataOK
-----------------------------------------------------------------------------
(* The steps of a cycle.                                                     *)

\* A cycle that waits again leaves the cycles in flight and the counter alone.
LEMMA WaitsCounts ==
  ASSUME DataOK, ActiveCyclesExact, NEW a \in Agents, NEW s \in Slots,
         cycle[a][s].pc # "free", Waits(a, s)
  PROVE  InFlight' = InFlight /\ ActiveCyclesExact'
<1>1. PICK next \in Cycle, t \in BOOLEAN : next.pc # "free" /\ Await(a, s, next, t)
  BY DEF Waits
<1>2. cycle' = [cycle EXCEPT ![a][s] = next] /\ activeCycles' = activeCycles
  BY <1>1 DEF Await
<1>3. \A b \in Agents, r \in Slots : cycle'[b][r] = IF b = a /\ r = s THEN next ELSE cycle[b][r]
  BY <1>2 DEF DataOK, FrameOK
<1>4. \A c \in Agents \X Slots :
        cycle'[c[1]][c[2]].pc # "free" <=> cycle[c[1]][c[2]].pc # "free"
  BY <1>1, <1>3
<1>5. InFlight' = InFlight
  BY <1>4 DEF InFlight
<1>6. Cardinality(InFlight') = Cardinality(InFlight)
  BY <1>5
<1>7. QED
  BY <1>2, <1>5, <1>6 DEF ActiveCyclesExact

\* A cycle that ends takes exactly itself off the counter: the pool's EndOne.
LEMMA EndsCounts ==
  ASSUME DataOK, ActiveCyclesExact, NEW a \in Agents, NEW s \in Slots,
         cycle[a][s].pc # "free", Ends(a, s)
  PROVE  ActiveCyclesExact' /\ Pool!EndOne
<1>1. \A b \in Agents, r \in Slots : cycle'[b][r] = IF b = a /\ r = s THEN Free ELSE cycle[b][r]
  BY DEF DataOK, FrameOK, Ends, Settle
<1>2. Free.pc = "free"
  BY DEF Free
<1>3. \A c \in Agents \X Slots :
        cycle'[c[1]][c[2]].pc # "free" <=> cycle[c[1]][c[2]].pc # "free" /\ c # <<a, s>>
  BY <1>1, <1>2
<1>4. InFlight' = InFlight \ {<<a, s>>} /\ <<a, s>> \in InFlight
  BY <1>3 DEF InFlight
<1>5. Cardinality(InFlight \ {<<a, s>>}) = Cardinality(InFlight) - 1
  BY <1>4, InFlightFinite, FS_RemoveElement
<1>6. Cardinality(InFlight') = Cardinality(InFlight) - 1
  BY <1>4, <1>5
<1>7. activeCycles' = activeCycles - 1
  BY DEF Ends, Settle
<1>8. ActiveCyclesExact'
  BY <1>6, <1>7, CounterType, InFlightFinite, LimitsAssumption DEF ActiveCyclesExact
<1>9. Pool!EndOne
  BY <1>4 DEF Pool!EndOne
<1>10. QED
  BY <1>8, <1>9

LEMMA MovesOwners ==
  ASSUME DataOK, ThinkingHasOwner, NEW a \in Agents, NEW s \in Slots, Moves(a, s)
  PROVE  ThinkingHasOwner'
<1> SUFFICES ASSUME NEW b \in Agents, thinking'[b]
             PROVE  Active(b)' /\ Running(b)' # {}
  BY DEF ThinkingHasOwner
<1>1. order' = order
  BY DEF Moves, Waits, Ends, Await, Settle
<1>2. Active(b)' <=> Active(b)
  BY <1>1 DEF Active
<1>3. CASE b # a
  <2>1. thinking'[b] = thinking[b] /\ \A r \in Slots : cycle'[b][r] = cycle[b][r]
    BY <1>3 DEF Moves, Waits, Ends, Await, Settle, DataOK, FrameOK
  <2>2. Active(b) /\ Running(b) # {}
    BY <2>1 DEF ThinkingHasOwner
  <2>3. QED
    BY <1>2, <2>1, <2>2 DEF Running
<1>4. CASE b = a /\ Ends(a, s)
  BY <1>4 DEF Ends, Settle, DataOK, FrameOK
<1>5. CASE b = a /\ Waits(a, s)
  <2>1. PICK next \in Cycle, t \in BOOLEAN : next.pc # "free" /\ Await(a, s, next, t)
    BY <1>5 DEF Waits
  <2>2. thinking'[a] = (Active(a) /\ t)
    BY <2>1 DEF Await, DataOK, FrameOK
  <2>3. cycle'[a][s] = next
    BY <2>1 DEF Await, DataOK, FrameOK
  <2>4. s \in Running(a)'
    BY <2>1, <2>3 DEF Running
  <2>5. QED
    BY <1>2, <1>5, <2>2, <2>4
<1>6. QED
  BY <1>3, <1>4, <1>5 DEF Moves
-----------------------------------------------------------------------------
(* The clock, and the agents that come and go.                               *)

LEMMA CooldownKeeps ==
  ASSUME IInv, NEW a \in Agents, CooldownElapses(a)
  PROVE  IInv' /\ InFlight' = InFlight
<1>1. /\ order' = order /\ cycle' = cycle /\ thinking' = thinking
      /\ activeCycles' = activeCycles
  BY DEF CooldownElapses, agentVars
<1>2. DataOK'
  <2>1. FrameOK' /\ HandlingHasStep'
    BY <1>1 DEF CooldownElapses, churnVars, IInv, DataOK, FrameOK, HandlingHasStep
  <2>2. CountersOK'
    BY DEF CooldownElapses, IInv, DataOK, CountersOK
  <2>3. PlansOK' /\ ServicesOK'
    BY DEF CooldownElapses, agentVars, serviceVars, IInv, DataOK, PlansOK, ServicesOK
  <2>4. QED
    BY <2>1, <2>2, <2>3 DEF DataOK
<1>3. InFlight' = InFlight
  BY <1>1 DEF InFlight
<1>4. ActiveCyclesExact'
  BY <1>1, <1>3 DEF IInv, ActiveCyclesExact
<1>5. ThinkingHasOwner'
  BY <1>1 DEF IInv, ThinkingHasOwner, Active, Running
<1>6. QED
  BY <1>2, <1>3, <1>4, <1>5 DEF IInv

\* A spawn or despawn leaves every cycle alone: the table of agents stays well
\* formed, and of the other agents none is lost.
LEMMA ChurnKeeps ==
  ASSUME IInv, NEW a \in Agents, Churn(a), PlansOK',
         order' \in Seq(Agents), dormant' \in [Agents -> Asleep],
         \A b \in Agents : b # a /\ Active(b) => Active(b)'
  PROVE  IInv' /\ InFlight' = InFlight
<1>1. cycle' = cycle /\ activeCycles' = activeCycles
  BY DEF Churn
<1>2. thinking' = [thinking EXCEPT ![a] = FALSE]
  BY DEF Churn
<1>3. churn' \in 0..MaxChurn
  BY LimitsAssumption DEF Churn, IInv, DataOK, FrameOK
<1>4. FrameOK'
  BY <1>1, <1>2, <1>3 DEF Churn, IInv, DataOK, FrameOK
<1>5. HandlingHasStep' /\ CountersOK' /\ ServicesOK'
  BY <1>1 DEF Churn, serviceVars, IInv, DataOK, HandlingHasStep, CountersOK, ServicesOK
<1>6. InFlight' = InFlight
  BY <1>1 DEF InFlight
<1>7. ActiveCyclesExact'
  BY <1>1, <1>6 DEF IInv, ActiveCyclesExact
<1>8. ThinkingHasOwner'
  <2> SUFFICES ASSUME NEW b \in Agents, thinking'[b]
               PROVE  Active(b)' /\ Running(b)' # {}
    BY DEF ThinkingHasOwner
  <2>1. b # a /\ thinking[b]
    BY <1>2 DEF IInv, DataOK, FrameOK
  <2>2. Active(b) /\ Running(b) # {}
    BY <2>1 DEF IInv, ThinkingHasOwner
  <2>3. QED
    BY <1>1, <2>1, <2>2 DEF Running
<1>9. QED
  BY <1>4, <1>5, <1>6, <1>7, <1>8 DEF IInv, DataOK

LEMMA DespawnKeeps ==
  ASSUME IInv, NEW a \in Agents, Despawn(a)
  PROVE  IInv' /\ InFlight' = InFlight
<1>1. order \in Seq(Agents) /\ plan \in [Agents -> Plan] /\ outcome \in [Agents -> Outcome]
  BY DEF IInv, DataOK, FrameOK, PlansOK
<1>2. PICK i \in DOMAIN order :
        /\ order[i] = a
        /\ order' = SubSeq(order, 1, i - 1) \o SubSeq(order, i + 1, Len(order))
  BY DEF Despawn
<1> DEFINE n == Len(order)
           front == SubSeq(order, 1, i - 1)
           back == SubSeq(order, i + 1, n)
<1>3. n \in Nat /\ i \in 1..n /\ \A j \in 1..n : order[j] \in Agents
  BY <1>1, <1>2
<1>4. /\ front \in Seq(Agents) /\ Len(front) = i - 1
      /\ \A j \in 1..(i - 1) : front[j] = order[j]
  BY <1>3, SubSeqProperties
<1>5. /\ back \in Seq(Agents) /\ Len(back) = n - i
      /\ \A j \in 1..(n - i) : back[j] = order[i + j]
  <2>1. /\ back \in Seq(Agents)
        /\ Len(back) = IF i + 1 <= n THEN n - (i + 1) + 1 ELSE 0
        /\ \A j \in 1..(n - (i + 1) + 1) : back[j] = order[i + 1 + j - 1]
    BY <1>3, SubSeqProperties
  <2>2. n - (i + 1) + 1 = n - i /\ \A j \in 1..(n - i) : i + 1 + j - 1 = i + j
    BY <1>3
  <2>3. QED
    BY <1>3, <2>1, <2>2
<1>6. /\ order' \in Seq(Agents) /\ Len(order') = n - 1
      /\ \A j \in 1..(n - 1) : order'[j] = IF j <= i - 1 THEN front[j] ELSE back[j - (i - 1)]
  <2>1. /\ front \o back \in Seq(Agents) /\ Len(front \o back) = Len(front) + Len(back)
        /\ \A j \in 1..(Len(front) + Len(back)) :
             (front \o back)[j] = IF j <= Len(front) THEN front[j] ELSE back[j - Len(front)]
    BY <1>4, <1>5, ConcatProperties
  <2>2. Len(front) + Len(back) = n - 1
    <3>1. (i - 1) + (n - i) = n - 1
      BY <1>3
    <3>2. Len(front) = i - 1 /\ Len(back) = n - i
      BY <1>4, <1>5
    <3>3. QED
      BY <3>1, <3>2
  <2>3. order' = front \o back
    BY <1>2
  <2>4. Len(front) = i - 1
    BY <1>4
  <2> HIDE DEF front, back, n
  <2>5. QED
    BY <2>1, <2>2, <2>3, <2>4
<1>61. DOMAIN order' = 1..(n - 1)
  BY <1>6
<1>7. \A b \in Agents : b # a /\ Active(b) => Active(b)'
  <2> SUFFICES ASSUME NEW b \in Agents, b # a, Active(b) PROVE Active(b)'
    OBVIOUS
  <2>1. PICK j \in 1..n : order[j] = b /\ j # i
    <3>1. PICK k \in DOMAIN order : order[k] = b
      BY DEF Active
    <3>2. k \in 1..n /\ k # i
      BY <1>1, <1>2, <3>1
    <3>3. QED
      BY <3>1, <3>2
  <2>2. CASE j < i
    <3>1. j \in 1..(n - 1) /\ j \in 1..(i - 1)
      BY <1>3, <2>2
    <3>2. front[j] = b
      BY <1>4, <2>1, <3>1
    <3>3. order'[j] = front[j]
      <4>1. j <= i - 1
        BY <1>3, <3>1
      <4>2. QED
        BY <1>6, <3>1, <4>1
    <3>4. QED
      BY <1>61, <3>1, <3>2, <3>3 DEF Active
  <2>3. CASE j > i
    <3>1. j - 1 \in 1..(n - 1) /\ ~(j - 1 <= i - 1) /\ j - i \in 1..(n - i)
      BY <1>3, <2>3
    <3>2. (j - 1) - (i - 1) = j - i /\ i + (j - i) = j
      BY <1>3
    <3>3. back[j - i] = b
      BY <1>5, <2>1, <3>1, <3>2
    <3>4. order'[j - 1] = back[j - i]
      BY <1>6, <3>1, <3>2
    <3>5. QED
      BY <1>61, <3>1, <3>3, <3>4 DEF Active
  <2>4. QED
    BY <1>3, <2>1, <2>2, <2>3
<1>8. PlansOK'
  BY <1>1, NoPlanIsPlan, NoOutcomeIsOutcome DEF Despawn, PlansOK
<1>9. dormant' \in [Agents -> Asleep]
  <2>1. [stored |-> TRUE, plan |-> plan[a], outcome |-> outcome[a]] \in Asleep
    BY <1>1 DEF Asleep
  <2>2. QED
    BY <2>1 DEF Despawn, IInv, DataOK, FrameOK
<1>10. QED
  BY <1>6, <1>7, <1>8, <1>9, ChurnKeeps DEF Despawn

LEMMA SpawnKeeps ==
  ASSUME IInv, NEW a \in Agents, SpawnFresh(a) \/ SpawnDormant(a)
  PROVE  IInv' /\ InFlight' = InFlight
<1>1. order \in Seq(Agents) /\ dormant \in [Agents -> Asleep]
  BY DEF IInv, DataOK, FrameOK
<1>2. order' = Append(order, a)
  BY DEF SpawnFresh, SpawnDormant
<1>3. /\ order' \in Seq(Agents) /\ Len(order') = Len(order) + 1
      /\ \A j \in 1..Len(order) : order'[j] = order[j]
  BY <1>1, <1>2, AppendProperties
<1>4. \A b \in Agents : b # a /\ Active(b) => Active(b)'
  BY <1>1, <1>3 DEF Active
<1>5. PlansOK'
  <2>1. dormant[a].plan \in Plan /\ dormant[a].outcome \in Outcome
    BY <1>1 DEF Asleep
  <2>2. QED
    BY <2>1, NoPlanIsPlan, NoOutcomeIsOutcome
      DEF SpawnFresh, SpawnDormant, IInv, DataOK, PlansOK
<1>6. dormant' \in [Agents -> Asleep]
  BY <1>1, NotDormantIsAsleep DEF SpawnFresh, SpawnDormant
<1>7. Churn(a)
  BY DEF SpawnFresh, SpawnDormant
<1>8. QED
  BY <1>3, <1>4, <1>5, <1>6, <1>7, ChurnKeeps
-----------------------------------------------------------------------------
(* The invariant, and what follows from it.                                  *)

LEMMA InitIInv == Init => IInv
<1> SUFFICES ASSUME Init PROVE IInv
  OBVIOUS
<1>1. \A a \in Agents, s \in Slots : cycle[a][s] = Free
  BY DEF Init
<1>2. Free.pc = "free"
  BY DEF Free
<1>3. InFlight = {}
  BY <1>1, <1>2 DEF InFlight
<1>4. FrameOK
  BY AgentsAssumption, LimitsAssumption, FreeIsCycle, NotDormantIsAsleep DEF Init, FrameOK
<1>5. CountersOK /\ PlansOK
  BY NoPlanIsPlan, NoOutcomeIsOutcome DEF Init, CountersOK, PlansOK
<1>6. ServicesOK
  BY LimitsAssumption DEF Init, ServicesOK
<1>7. HandlingHasStep
  BY <1>1, <1>2 DEF HandlingHasStep
<1>8. ActiveCyclesExact
  BY <1>3, FS_EmptySet, LimitsAssumption DEF Init, ActiveCyclesExact
<1>9. ThinkingHasOwner
  BY DEF Init, ThinkingHasOwner
<1>10. QED
  BY <1>4, <1>5, <1>6, <1>7, <1>8, <1>9 DEF IInv, DataOK

\* Every step keeps the invariant, and is a step of the pool or none.
LEMMA NextKeeps ==
  ASSUME IInv, [Next]_vars
  PROVE  IInv' /\ (Pool!StartSome \/ Pool!EndOne \/ InFlight' = InFlight)
<1>1. CASE TickStep
  <2>1. PICK idled : Tick(idled)
    BY <1>1 DEF TickStep
  <2>2. QED
    BY <2>1, TickKeepsData, TickCounts, TickOwners DEF IInv
<1>2. ASSUME NEW a \in Agents, CooldownElapses(a)
      PROVE  IInv' /\ InFlight' = InFlight
  BY <1>2, CooldownKeeps
<1>3. ASSUME NEW a \in Agents, NEW s \in Slots, CycleStep(a, s)
      PROVE  IInv' /\ (Pool!EndOne \/ InFlight' = InFlight)
  <2>1. Moves(a, s)
    BY <1>3, StepShape DEF IInv
  <2>2. cycle[a][s].pc # "free" /\ DataOK' /\ (Waits(a, s) \/ Ends(a, s))
    BY <2>1 DEF Moves
  <2>3. ThinkingHasOwner'
    BY <2>1, MovesOwners DEF IInv
  <2>4. ActiveCyclesExact' /\ (Pool!EndOne \/ InFlight' = InFlight)
    BY <2>2, WaitsCounts, EndsCounts DEF IInv
  <2>5. QED
    BY <2>2, <2>3, <2>4 DEF IInv
<1>4. ASSUME NEW a \in Agents, Despawn(a) \/ SpawnFresh(a) \/ SpawnDormant(a)
      PROVE  IInv' /\ InFlight' = InFlight
  BY <1>4, DespawnKeeps, SpawnKeeps
<1>5. CASE UNCHANGED vars
  <2>1. /\ FrameOK' /\ CountersOK' /\ PlansOK' /\ ServicesOK' /\ HandlingHasStep'
    BY <1>5 DEF vars, agentVars, serviceVars, churnVars, IInv, DataOK, FrameOK,
                CountersOK, PlansOK, ServicesOK, HandlingHasStep
  <2>2. InFlight' = InFlight
    BY <1>5 DEF vars, InFlight
  <2>3. ActiveCyclesExact'
    BY <1>5, <2>2 DEF vars, IInv, ActiveCyclesExact
  <2>4. ThinkingHasOwner'
    BY <1>5 DEF vars, agentVars, IInv, ThinkingHasOwner, Active, Running
  <2>5. QED
    BY <2>1, <2>2, <2>3, <2>4 DEF IInv, DataOK
<1>6. QED
  BY <1>1, <1>2, <1>3, <1>4, <1>5 DEF Next

LEMMA Invariance == Spec => []IInv
<1>1. Init => IInv
  BY InitIInv
<1>2. IInv /\ [Next]_vars => IInv'
  BY NextKeeps
<1>3. QED
  BY <1>1, <1>2, PTL DEF Spec

(* Whatever the population, the limits, the plans and the answers, every     *)
(* variable keeps its type.                                                  *)
THEOREM TypeCorrect == Spec => []TypeOK
<1>1. IInv => TypeOK
  BY CounterType, LimitsAssumption
    DEF IInv, DataOK, FrameOK, CountersOK, PlansOK, ServicesOK, TypeOK
<1>2. QED
  BY <1>1, Invariance, PTL

(* The scheduler's counter is exact, and its limit kept, on every path of    *)
(* every cycle, through any interleaving with spawns and despawns.           *)
THEOREM CounterCorrect == Spec => []ActiveCyclesExact
<1>1. IInv => ActiveCyclesExact
  BY DEF IInv
<1>2. QED
  BY <1>1, Invariance, PTL

(* isThinking always has an owner: an active agent with a cycle in flight    *)
(* that will clear it.                                                       *)
THEOREM ThinkingCorrect == Spec => []ThinkingHasOwner
<1>1. IInv => ThinkingHasOwner
  BY DEF IInv
<1>2. QED
  BY <1>1, Invariance, PTL

(* The agent loop implements the pool of cycles: each pass starts at most    *)
(* one cycle of each agent, within the limit, and each cycle ends once.      *)
THEOREM PoolImplemented == Spec => ImplementsPool
<1>1. Init => Pool!PoolInit
  BY DEF Init, InFlight, Free, Pool!PoolInit
<1>2. IInv /\ [Next]_vars => [Pool!StartSome \/ Pool!EndOne]_InFlight
  BY NextKeeps
<1>3. QED
  BY <1>1, <1>2, Invariance, PTL DEF Spec, ImplementsPool, Pool!PoolSpec
-----------------------------------------------------------------------------
(* The lock of an agent.  isThinking is switched by four services, goes off  *)
(* while a plan executes, and still lets no second cycle in: as long as the  *)
(* handlers answer in the turn they are called in and nobody is despawned.   *)

\* The phases a cycle of an undisturbed agent can be found in by the scheduler.
LockPhases == {"perceiving", "planning", "retrying", "reflecting", "storing"}

Solo ==
  \A a \in Agents, s, t \in Slots :
    cycle[a][s].pc # "free" /\ cycle[a][t].pc # "free" => s = t

Locked == \A a \in Agents, s \in Slots : cycle[a][s].pc \in LockPhases => thinking[a]

Present == \A a \in Agents, s \in Slots : cycle[a][s].pc # "free" => Active(a)

LockInv == Solo /\ Locked /\ Present /\ CooldownConsistent

\* A sharper view of a cycle's step than Moves: where it waits next it leaves
\* the flag on, and where it ends its failures are counted, reset or kept.
WaitsLocked(a, s) ==
  \E next \in Cycle, t \in BOOLEAN :
    /\ next.pc # "free"
    /\ next.pc \in LockPhases => t
    /\ Await(a, s, next, t)

EndsCounted(a, s) ==
  /\ Settle(a, s)
  /\ RecordFailure(a) \/ ResetFailures(a) \/ UNCHANGED <<failures, cooldown>>

LEMMA FailCycleCounted ==
  ASSUME NEW a, NEW s, FailCycle(a, s)
  PROVE  EndsCounted(a, s)
BY DEF FailCycle, EndsCounted

LEMMA AwaitLocked ==
  ASSUME NEW a, NEW s, NEW pc \in Phases \ {"free"}, NEW t \in BOOLEAN,
         pc \in LockPhases => t, Await(a, s, At(pc), t)
  PROVE  WaitsLocked(a, s)
<1>1. At(pc) \in Cycle /\ At(pc).pc = pc
  BY AtIsCycle
<1>2. QED
  BY <1>1 DEF WaitsLocked

LEMMA ToReflectLocked ==
  ASSUME NEW a, NEW s, NEW ok \in BOOLEAN, NEW skips \in Nat, NEW p \in Plan,
         ToReflect(a, s, ok, skips, p)
  PROVE  WaitsLocked(a, s) \/ EndsCounted(a, s)
<1> DEFINE next == [pc |-> "reflecting", entry |-> p, ok |-> ok, skips |-> skips]
<1>1. next \in Cycle /\ next.pc = "reflecting"
  BY DEF Cycle, Phases
<1>2. CASE Await(a, s, next, TRUE)
  BY <1>1, <1>2 DEF WaitsLocked
<1>3. CASE FailCycle(a, s)
  BY <1>3, FailCycleCounted
<1>4. QED
  BY <1>2, <1>3 DEF ToReflect

LEMMA PlanningLocked ==
  ASSUME DataOK, Locked, NEW a \in Agents, NEW s \in Slots, NEW answer,
         Perceived(a, s) \/ PlanAnswered(a, s, answer)
  PROVE  WaitsLocked(a, s) \/ EndsCounted(a, s)
<1>1. thinking[a] \in BOOLEAN
  BY DEF DataOK, FrameOK
<1>2. CASE Perceived(a, s)
  <2>1. CASE Await(a, s, At("execute"), thinking[a])
    BY <1>1, <2>1, AwaitLocked DEF Phases, LockPhases
  <2>2. CASE Await(a, s, At("planning"), TRUE)
    BY <2>2, AwaitLocked DEF Phases
  <2>3. QED
    BY <1>2, <2>1, <2>2 DEF Perceived
<1>3. CASE \E steps : StorePlan(a, s, steps)
  <2>1. Await(a, s, At("execute"), FALSE)
    BY <1>3 DEF StorePlan
  <2>2. QED
    BY <2>1, AwaitLocked DEF Phases, LockPhases
<1>4. CASE cycle[a][s].pc = "planning" /\ Await(a, s, At("retrying"), thinking[a])
  <2>1. thinking[a]
    BY <1>4 DEF Locked, LockPhases
  <2>2. QED
    BY <1>1, <1>4, <2>1, AwaitLocked DEF Phases
<1>5. CASE FailCycle(a, s)
  BY <1>5, FailCycleCounted
<1>6. QED
  BY <1>2, <1>3, <1>4, <1>5 DEF PlanAnswered, FailFormation

LEMMA ExecutingLocked ==
  ASSUME DataOK, NEW a \in Agents, NEW s \in Slots, ExecuteStep(a, s)
  PROVE  WaitsLocked(a, s) \/ EndsCounted(a, s)
<1>1. /\ plan[a] \in Plan /\ Advance(plan[a]) \in Plan /\ Tried(plan[a]) \in Plan
      /\ SkipOver(plan[a]) \in Plan /\ NoPlan \in Plan
  BY AdvanceIsPlan, TriedIsPlan, SkipOverIsPlan, NoPlanIsPlan DEF DataOK, PlansOK
<1>2. /\ SkipsSoFar(a) \in Nat /\ SkipsSoFar(a) + 1 \in Nat
      /\ planSkips[a].count \in Nat /\ planSkips[a].count + 1 \in Nat
  BY SkipsSoFarIsNat
<1>3. CASE \E ok \in BOOLEAN, skips \in Nat, p \in Plan : ToReflect(a, s, ok, skips, p)
  BY <1>3, ToReflectLocked
<1>4. CASE FailCycle(a, s)
  BY <1>4, FailCycleCounted
<1>5. CASE ExecuteAbsent(a, s) \/ ExecuteRelocated(a, s)
  BY <1>4, <1>5 DEF ExecuteAbsent, ExecuteRelocated
<1>6. CASE ExecuteComplete(a, s) \/ ExecuteWalking(a, s) \/ ExecuteAdvance(a, s)
            \/ ExecuteStale(a, s)
  BY <1>1, <1>2, <1>3, <1>6
    DEF ExecuteComplete, ExecuteWalking, ExecuteAdvance, ExecuteStale
<1>7. CASE \E o \in Outcomes : ExecuteFailure(a, s, o)
  BY <1>1, <1>2, <1>3, <1>4, <1>7 DEF ExecuteFailure, StepSkip
<1>8. CASE CallHandler(a, s)
  <2> DEFINE next == [At("handling") EXCEPT !.entry = plan[a]]
  <2>1. next \in Cycle /\ next.pc = "handling"
    BY <1>1, AtIsCycle DEF Cycle, Phases
  <2>2. Await(a, s, next, thinking[a]) /\ thinking[a] \in BOOLEAN
    BY <1>8 DEF CallHandler, DataOK, FrameOK
  <2>3. QED
    BY <2>1, <2>2 DEF WaitsLocked, LockPhases
<1>9. CASE \E o \in HandlerOutcomes : HandlerAnswered(a, s, o)
  BY <1>1, <1>2, <1>3, <1>4, <1>9 DEF HandlerAnswered, StepSkip
<1>10. QED
  BY <1>5, <1>6, <1>7, <1>8, <1>9 DEF ExecuteStep

LEMMA ReflectingLocked ==
  ASSUME DataOK, Locked, NEW a \in Agents, NEW s \in Slots, NEW answer,
         ReflectAnswered(a, s, answer) \/ MemoryStored(a, s) \/ MemoryRefused(a, s)
  PROVE  WaitsLocked(a, s) \/ EndsCounted(a, s)
<1>1. CASE ReflectDone(a, s) \/ ReflectFailed(a, s)
  BY <1>1 DEF ReflectDone, ReflectFailed, EndsCounted
<1>2. CASE /\ cycle[a][s].pc = "reflecting"
           /\ Await(a, s, [cycle[a][s] EXCEPT !.pc = "storing"], thinking[a])
  <2>1. thinking[a] /\ cycle[a][s] \in Cycle
    BY <1>2 DEF Locked, LockPhases, DataOK, FrameOK
  <2>2. /\ [cycle[a][s] EXCEPT !.pc = "storing"] \in Cycle
        /\ [cycle[a][s] EXCEPT !.pc = "storing"].pc = "storing"
    BY <2>1 DEF Cycle, Phases
  <2>3. thinking[a] \in BOOLEAN
    BY DEF DataOK, FrameOK
  <2>4. QED
    BY <1>2, <2>1, <2>2, <2>3 DEF WaitsLocked
<1>3. QED
  BY <1>1, <1>2 DEF ReflectAnswered, MemoryStored, MemoryRefused

LEMMA LockShape ==
  ASSUME DataOK, Locked, NEW a \in Agents, NEW s \in Slots, CycleStep(a, s)
  PROVE  WaitsLocked(a, s) \/ EndsCounted(a, s)
<1>1. CASE PerceiveRejected(a, s)
  BY <1>1 DEF PerceiveRejected, EndsCounted
<1>2. QED
  BY <1>1, PlanningLocked, ExecutingLocked, ReflectingLocked DEF CycleStep

\* A cycle that waits again keeps its place, its lock and its agent's record.
LEMMA WaitsKeepsLock ==
  ASSUME DataOK, LockInv, NEW a \in Agents, NEW s \in Slots,
         cycle[a][s].pc # "free", WaitsLocked(a, s)
  PROVE  LockInv'
<1>1. PICK next \in Cycle, t \in BOOLEAN :
        /\ next.pc # "free"
        /\ next.pc \in LockPhases => t
        /\ Await(a, s, next, t)
  BY DEF WaitsLocked
<1>2. \A b \in Agents, r \in Slots : cycle'[b][r] = IF b = a /\ r = s THEN next ELSE cycle[b][r]
  BY <1>1 DEF Await, DataOK, FrameOK
<1>3. \A b \in Agents, r \in Slots : cycle'[b][r].pc # "free" <=> cycle[b][r].pc # "free"
  BY <1>1, <1>2
<1>4. Active(a) /\ \A b \in Agents : Active(b)' <=> Active(b)
  BY <1>1 DEF Await, Active, LockInv, Present
<1>5. \A b \in Agents : thinking'[b] = IF b = a THEN t ELSE thinking[b]
  BY <1>1, <1>4 DEF Await, DataOK, FrameOK
<1>6. Solo' /\ Present'
  BY <1>3, <1>4 DEF LockInv, Solo, Present
<1>7. Locked'
  <2> SUFFICES ASSUME NEW b \in Agents, NEW r \in Slots, cycle'[b][r].pc \in LockPhases
               PROVE  thinking'[b]
    BY DEF Locked
  <2>1. CASE b = a /\ r = s
    BY <1>1, <1>2, <1>5, <2>1
  <2>2. CASE b = a /\ r # s
    <3>1. cycle[a][r].pc # "free"
      BY <1>2, <2>2 DEF LockPhases
    <3>2. QED
      BY <2>2, <3>1 DEF LockInv, Solo
  <2>3. CASE b # a
    BY <1>2, <1>5, <2>3 DEF LockInv, Locked
  <2>4. QED
    BY <2>1, <2>2, <2>3
<1>8. CooldownConsistent'
  <2>1. \A b \in Agents : Running(b)' = Running(b)
    BY <1>3 DEF Running
  <2>2. failures' = failures /\ cooldown' = cooldown
    BY <1>1 DEF Await
  <2>3. QED
    BY <2>1, <2>2 DEF LockInv, CooldownConsistent
<1>9. QED
  BY <1>6, <1>7, <1>8 DEF LockInv

\* A cycle that ends was its agent's only one, and found no cooldown.
LEMMA EndsKeepsLock ==
  ASSUME DataOK, LockInv, NEW a \in Agents, NEW s \in Slots,
         cycle[a][s].pc # "free", EndsCounted(a, s)
  PROVE  LockInv'
<1>1. \A b \in Agents, r \in Slots : cycle'[b][r] = IF b = a /\ r = s THEN Free ELSE cycle[b][r]
  BY DEF EndsCounted, Settle, DataOK, FrameOK
<1>2. Free.pc = "free"
  BY DEF Free
<1>3. \A r \in Slots : cycle'[a][r].pc = "free"
  BY <1>1, <1>2 DEF LockInv, Solo
<1>4. \A b \in Agents : b # a => /\ thinking'[b] = thinking[b]
                                 /\ \A r \in Slots : cycle'[b][r] = cycle[b][r]
  BY <1>1 DEF EndsCounted, Settle, DataOK, FrameOK
<1>5. \A b \in Agents : Active(b)' <=> Active(b)
  BY DEF EndsCounted, Settle, Active
<1>6. Solo'
  BY <1>1, <1>2 DEF LockInv, Solo
<1>7. Present'
  BY <1>3, <1>4, <1>5 DEF LockInv, Present
<1>8. Locked'
  BY <1>3, <1>4 DEF LockInv, Locked, LockPhases
<1>9. CooldownConsistent'
  <2> SUFFICES ASSUME NEW b \in Agents
               PROVE  /\ failures'[b] >= MaxFailures <=> cooldown'[b] # "none"
                      /\ cooldown'[b] # "none" => Running(b)' = {}
    BY DEF CooldownConsistent
  <2>1. CASE b # a
    <3>1. failures'[b] = failures[b] /\ cooldown'[b] = cooldown[b]
      BY <2>1 DEF EndsCounted, RecordFailure, ResetFailures, DataOK, CountersOK
    <3>2. Running(b)' = Running(b)
      BY <1>4, <2>1 DEF Running
    <3>3. QED
      BY <3>1, <3>2 DEF LockInv, CooldownConsistent
  <2>2. CASE b = a
    <3>1. Running(a)' = {}
      BY <1>3 DEF Running
    <3>2. s \in Running(a)
      BY DEF Running
    <3>3. cooldown[a] = "none" /\ failures[a] \in Nat /\ ~(failures[a] >= MaxFailures)
      BY <3>2 DEF LockInv, CooldownConsistent, DataOK, CountersOK
    <3>4. failures'[a] >= MaxFailures <=> cooldown'[a] # "none"
      <4>1. CASE RecordFailure(a)
        BY <3>3, <4>1, LimitsAssumption DEF RecordFailure, DataOK, CountersOK
      <4>2. CASE ResetFailures(a)
        BY <4>2, LimitsAssumption DEF ResetFailures, DataOK, CountersOK
      <4>3. CASE UNCHANGED <<failures, cooldown>>
        BY <3>3, <4>3
      <4>4. QED
        BY <4>1, <4>2, <4>3 DEF EndsCounted
    <3>5. QED
      BY <2>2, <3>1, <3>4
  <2>3. QED
    BY <2>1, <2>2
<1>10. QED
  BY <1>6, <1>7, <1>8, <1>9 DEF LockInv

\* An agent the pass starts has nothing in flight.
LEMMA StarterIsIdle ==
  ASSUME DataOK, Locked, HandlersSuspend = FALSE, NEW idled, Tick(idled),
         NEW a \in Starters(idled), a \in Agents
  PROVE  \A s \in Slots : cycle[a][s].pc = "free"
<1> SUFFICES ASSUME NEW s \in Slots PROVE cycle[a][s].pc = "free"
  OBVIOUS
<1>1. ~thinking[a]
  BY DEF Starters, Willing
<1>2. cycle[a][s].pc \notin {"execute", "handling"}
  BY DEF Tick, Quiet
<1>3. cycle[a][s].pc \in Phases
  BY DEF DataOK, FrameOK, Cycle
<1>4. cycle[a][s].pc \notin LockPhases
  BY <1>1 DEF Locked
<1>5. QED
  BY <1>2, <1>3, <1>4 DEF Phases, LockPhases

LEMMA TickKeepsLock ==
  ASSUME IInv, LockInv, HandlersSuspend = FALSE, NEW idled, Tick(idled)
  PROVE  LockInv'
<1> DEFINE S == Starters(idled)
<1>1. DataOK /\ ActiveCyclesExact
  BY DEF IInv
<1>2. /\ \A a \in S : a \in Agents /\ Active(a) /\ FreeSlot(a) \in Slots
      /\ \A a \in Agents, s \in Slots :
           cycle'[a][s] = IF a \in S /\ s = FreeSlot(a) THEN At("perceiving") ELSE cycle[a][s]
  BY <1>1, TickStarts
<1>3. \A a \in S : \A s \in Slots : cycle[a][s].pc = "free"
  BY <1>1, <1>2, StarterIsIdle DEF LockInv
<1>4. At("perceiving").pc = "perceiving"
  BY AtIsCycle DEF Phases
<1>5. \A a \in Agents : thinking'[a] = (thinking[a] \/ a \in S)
  BY DEF Tick
<1>6. \A a \in Agents : Active(a)' <=> Active(a)
  BY DEF Tick, Active
<1>7. Solo'
  BY <1>2, <1>3 DEF LockInv, Solo
<1>8. Locked'
  BY <1>2, <1>4, <1>5 DEF LockInv, Locked
<1>9. Present'
  BY <1>2, <1>6 DEF LockInv, Present
<1>10. CooldownConsistent'
  <2> SUFFICES ASSUME NEW a \in Agents
               PROVE  /\ failures'[a] >= MaxFailures <=> cooldown'[a] # "none"
                      /\ cooldown'[a] # "none" => Running(a)' = {}
    BY DEF CooldownConsistent
  <2>1. /\ failures[a] \in Nat /\ cooldown[a] \in {"none", "running", "expired"}
        /\ failures[a] >= MaxFailures <=> cooldown[a] # "none"
        /\ cooldown[a] # "none" => Running(a) = {}
    BY <1>1 DEF DataOK, CountersOK, LockInv, CooldownConsistent
  <2>2. /\ failures'[a] = IF a \in S /\ failures[a] >= MaxFailures THEN 0 ELSE failures[a]
        /\ cooldown'[a] = IF a \in S /\ failures[a] >= MaxFailures THEN "none" ELSE cooldown[a]
    BY DEF Tick
  <2>3. CASE a \in S
    BY <2>1, <2>2, <2>3, LimitsAssumption
  <2>4. CASE a \notin S
    <3>1. Running(a)' = Running(a)
      BY <1>2, <2>4 DEF Running
    <3>2. QED
      BY <2>1, <2>2, <2>4, <3>1
  <2>5. QED
    BY <2>3, <2>4
<1>11. QED
  BY <1>7, <1>8, <1>9, <1>10 DEF LockInv

LEMMA InitLock == Init => LockInv
<1> SUFFICES ASSUME Init PROVE LockInv
  OBVIOUS
<1>1. \A a \in Agents, s \in Slots : cycle[a][s].pc = "free"
  BY DEF Init, Free
<1>2. Solo /\ Present /\ Locked
  BY <1>1 DEF Solo, Present, Locked, LockPhases
<1>3. CooldownConsistent
  BY LimitsAssumption DEF Init, CooldownConsistent
<1>4. QED
  BY <1>2, <1>3 DEF LockInv

LEMMA NextKeepsLock ==
  ASSUME MaxChurn = 0, HandlersSuspend = FALSE, IInv, LockInv, [Next]_vars
  PROVE  LockInv'
<1>1. CASE TickStep
  BY <1>1, TickKeepsLock DEF TickStep
<1>2. ASSUME NEW a \in Agents, CooldownElapses(a)
      PROVE  LockInv'
  <2>1. order' = order /\ cycle' = cycle /\ thinking' = thinking /\ failures' = failures
    BY <1>2 DEF CooldownElapses, agentVars
  <2>2. \A b \in Agents : cooldown'[b] # "none" <=> cooldown[b] # "none"
    BY <1>2 DEF CooldownElapses, IInv, DataOK, CountersOK
  <2>3. Solo' /\ Locked' /\ Present'
    BY <2>1 DEF LockInv, Solo, Locked, Present, Active
  <2>4. CooldownConsistent'
    BY <2>1, <2>2 DEF LockInv, CooldownConsistent, Running
  <2>5. QED
    BY <2>3, <2>4 DEF LockInv
<1>3. ASSUME NEW a \in Agents, NEW s \in Slots, CycleStep(a, s)
      PROVE  LockInv'
  <2>1. DataOK /\ Locked
    BY DEF IInv, LockInv
  <2>2. cycle[a][s].pc # "free"
    BY <1>3, <2>1, StepShape DEF Moves
  <2>3. WaitsLocked(a, s) \/ EndsCounted(a, s)
    BY <1>3, <2>1, LockShape
  <2>4. QED
    BY <2>1, <2>2, <2>3, WaitsKeepsLock, EndsKeepsLock
<1>4. ASSUME NEW a \in Agents, Despawn(a) \/ SpawnFresh(a) \/ SpawnDormant(a)
      PROVE  FALSE
  <2>1. Churn(a)
    BY <1>4 DEF Despawn, SpawnFresh, SpawnDormant
  <2>2. QED
    BY <2>1 DEF Churn, IInv, DataOK, FrameOK
<1>5. CASE UNCHANGED vars
  BY <1>5 DEF vars, agentVars, LockInv, Solo, Locked, Present, Active,
              CooldownConsistent, Running
<1>6. QED
  BY <1>1, <1>2, <1>3, <1>4, <1>5 DEF Next

LEMMA LockInvariance ==
  ASSUME MaxChurn = 0, HandlersSuspend = FALSE
  PROVE  Spec => []LockInv
<1>1. Init => LockInv
  BY InitLock
<1>2. IInv /\ LockInv /\ [Next]_vars => LockInv'
  BY NextKeepsLock
<1>3. QED
  BY <1>1, <1>2, Invariance, PTL DEF Spec

(* As long as nobody is despawned and handlers answer at once, isThinking is *)
(* a sound lock: no agent ever has two cycles in flight, and the flag is on  *)
(* whenever the scheduler can look at an agent that has one.                 *)
THEOREM LockCorrect ==
  ASSUME MaxChurn = 0, HandlersSuspend = FALSE
  PROVE  Spec => []LockHolds
<1>1. IInv /\ LockInv => OneCyclePerAgent
  <2> SUFFICES ASSUME IInv, LockInv, NEW a \in Agents
               PROVE  Cardinality(Running(a)) <= 1
    BY DEF OneCyclePerAgent
  <2>1. CASE Running(a) = {}
    BY <2>1, FS_EmptySet
  <2>2. CASE Running(a) # {}
    <3>1. PICK s : s \in Running(a)
      BY <2>2
    <3>2. Running(a) = {s}
      BY <3>1 DEF Running, LockInv, Solo
    <3>3. QED
      BY <3>2, FS_Singleton
  <2>3. QED
    BY <2>1, <2>2
<1>2. IInv /\ LockInv => ThinkingGuardsCycle
  <2> SUFFICES ASSUME IInv, LockInv, Quiet, NEW a \in Agents, Running(a) # {}
               PROVE  thinking[a]
    BY DEF ThinkingGuardsCycle
  <2>1. PICK s \in Slots : cycle[a][s].pc # "free"
    BY DEF Running
  <2>2. cycle[a][s].pc \notin {"execute", "handling"} /\ cycle[a][s].pc \in Phases
    BY DEF Quiet, IInv, DataOK, FrameOK, Cycle
  <2>3. cycle[a][s].pc \in LockPhases
    BY <2>1, <2>2 DEF Phases, LockPhases
  <2>4. QED
    BY <2>3 DEF LockInv, Locked
<1>3. IInv /\ LockInv => LockHolds
  BY <1>1, <1>2 DEF LockHolds
<1>4. QED
  BY <1>3, Invariance, LockInvariance, PTL

(* Under the same assumptions the failure count and the cooldown agree, and  *)
(* an agent that cools down has no cycle at work.                            *)
THEOREM CooldownCorrect ==
  ASSUME MaxChurn = 0, HandlersSuspend = FALSE
  PROVE  Spec => []CooldownConsistent
<1>1. LockInv => CooldownConsistent
  BY DEF LockInv
<1>2. QED
  BY <1>1, LockInvariance, PTL
-----------------------------------------------------------------------------
(* The life of a plan.  While the lock holds, whatever a waiting cycle has   *)
(* captured is still what its agent's plan is when the cycle goes on.        *)

\* What the plan of an agent and the skip total of the execute service are.
PlanFits(a) ==
  /\ plan[a].id = 0 => plan[a] = NoPlan
  /\ plan[a].pos <= Len(plan[a].steps) + 1
  /\ SkipsSoFar(a) = plan[a].skipped
  /\ planSkips[a].id = 0 => planSkips[a].count = 0

\* What a cycle knows of it.  A cycle that reflects on a deviation (not ok)
\* has its plan before it, or lost it.
Knows(c, p, k) ==
  /\ c.pc \in {"planning", "retrying"} => p.id = 0
  /\ c.pc \in {"execute", "handling"} => p.id # 0
  /\ c.pc = "handling" => c.entry = p /\ k.id = p.id
  /\ c.pc \in {"reflecting", "storing"} =>
       /\ c.entry = p
       /\ IF c.ok THEN c.skips = p.skipped ELSE p.id = 0 \/ ~Complete(p)

CyclesFit(a) == \A s \in Slots : Knows(cycle[a][s], plan[a], planSkips[a])

PlanInv == \A a \in Agents : PlanFits(a) /\ CyclesFit(a)

\* What can become of a plan and of its outcome.
Stays(a) ==
  /\ plan' = [plan EXCEPT ![a] = plan'[a]]
  /\ plan'[a] \in {plan[a], Tried(plan[a])}
  /\ UNCHANGED outcome

Adopts(a) ==
  /\ plan[a] = NoPlan
  /\ \E id \in 1..MaxPlanId, steps \in Seq(Steps) \ {<<>>} :
       plan' = [plan EXCEPT ![a] = NewPlan(id, steps)]
  /\ UNCHANGED outcome

Advances(a) ==
  /\ ~Complete(plan[a])
  /\ \E p \in {Advance(plan[a]), SkipOver(plan[a])} : plan' = [plan EXCEPT ![a] = p]
  /\ UNCHANGED outcome

Abandons(a) ==
  /\ plan[a].id # 0 /\ ~Complete(plan[a])
  /\ plan' = [plan EXCEPT ![a] = NoPlan]
  /\ outcome' = [outcome EXCEPT ![a] = Superseded(plan[a], @)]

Reports(a) ==
  /\ plan[a].id # 0
  /\ \/ UNCHANGED plan
     \/ Complete(plan[a]) /\ plan' = [plan EXCEPT ![a] = NoPlan]
  /\ \E k \in Nat :
       /\ Complete(plan[a]) => k = plan[a].skipped
       /\ outcome' = [outcome EXCEPT ![a] =
            [id |-> plan[a].id, success |-> Complete(plan[a]), superseded |-> FALSE, skips |-> k]]

Fate(a) == Stays(a) \/ Adopts(a) \/ Advances(a) \/ Abandons(a) \/ Reports(a)

\* A step of an agent's cycle: one of these fates, and the invariant is kept.
Lives(a) ==
  /\ Fate(a)
  /\ PlanFits(a)' /\ CyclesFit(a)'
  /\ \A b \in Agents : b # a => /\ plan'[b] = plan[b] /\ planSkips'[b] = planSkips[b]
                                /\ cycle'[b] = cycle[b]

\* What the operators on plans leave alone.
LEMMA TriedSame ==
  \A p \in Plan : /\ Tried(p).id = p.id /\ Tried(p).skipped = p.skipped
                  /\ Tried(p).steps = p.steps /\ Tried(p).pos = p.pos
BY DEF Tried, Plan

LEMMA AdvanceSame ==
  \A p \in Plan : ~Complete(p) =>
    /\ Advance(p).id = p.id /\ Advance(p).skipped = p.skipped
    /\ Advance(p).steps = p.steps /\ Advance(p).pos = p.pos + 1
BY DEF Advance, Plan

LEMMA SkipOverSame ==
  \A p \in Plan : ~Complete(p) =>
    /\ SkipOver(p).id = p.id /\ SkipOver(p).skipped = p.skipped + 1
    /\ SkipOver(p).steps = p.steps /\ SkipOver(p).pos = p.pos + 1
<1> SUFFICES ASSUME NEW p \in Plan, ~Complete(p)
             PROVE  /\ SkipOver(p).id = p.id /\ SkipOver(p).skipped = p.skipped + 1
                    /\ SkipOver(p).steps = p.steps /\ SkipOver(p).pos = p.pos + 1
  OBVIOUS
<1>1. Advance(p) \in Plan
  BY AdvanceIsPlan
<1>2. SkipOver(p) = [Advance(p) EXCEPT !.skipped = @ + 1]
  BY DEF SkipOver
<1>3. QED
  BY <1>1, <1>2, AdvanceSame DEF Plan

LEMMA NoPlanIsComplete ==
  Complete(NoPlan) /\ NoPlan.id = 0 /\ NoPlan.skipped = 0 /\ NoPlan.pos <= Len(NoPlan.steps) + 1
BY DEF Complete, NoPlan

\* The skip total and the plan after an attempt that syncs the two.
LEMMA SyncFits ==
  ASSUME DataOK, NEW a \in Agents, plan[a].id # 0, NEW p \in Plan,
         p.id = plan[a].id, p.pos <= Len(p.steps) + 1,
         plan' = [plan EXCEPT ![a] = p], SyncSkips(a, p.skipped)
  PROVE  /\ PlanFits(a)'
         /\ planSkips'[a].id = p.id /\ planSkips'[a].count = p.skipped
         /\ planSkips' = [planSkips EXCEPT ![a] = planSkips'[a]]
<1>1. plan'[a] = p
  BY DEF DataOK, PlansOK
<1>2. planSkips'[a] = [id |-> p.id, count |-> p.skipped]
  BY DEF SyncSkips, DataOK, ServicesOK
<1>3. planSkips' = [planSkips EXCEPT ![a] = planSkips'[a]]
  BY DEF SyncSkips, DataOK, ServicesOK
<1>4. SkipsSoFar(a)' = p.skipped
  BY <1>1, <1>2 DEF SkipsSoFar
<1>5. QED
  BY <1>1, <1>2, <1>3, <1>4 DEF PlanFits

\* The plan moves, and the skip total is left alone.
LEMMA KeptFits ==
  ASSUME DataOK, NEW a \in Agents, PlanFits(a), NEW p \in Plan,
         plan' = [plan EXCEPT ![a] = p], planSkips' = planSkips,
         p.id = plan[a].id, p.skipped = plan[a].skipped, p.pos <= Len(p.steps) + 1,
         p.id = 0 => p = NoPlan
  PROVE  PlanFits(a)'
<1>1. plan'[a] = p
  BY DEF DataOK, PlansOK
<1>2. SkipsSoFar(a)' = p.skipped
  BY <1>1 DEF SkipsSoFar, PlanFits
<1>3. QED
  BY <1>1, <1>2 DEF PlanFits

\* A cleared plan has no skips, whatever was counted for the last one.
LEMMA ClearedFits ==
  ASSUME DataOK, NEW a \in Agents,
         plan' = [plan EXCEPT ![a] = NoPlan], planSkips'[a].id = 0 => planSkips'[a].count = 0
  PROVE  PlanFits(a)'
<1>1. plan'[a] = NoPlan
  BY DEF DataOK, PlansOK
<1>2. SkipsSoFar(a)' = 0
  BY <1>1, NoPlanIsComplete DEF SkipsSoFar
<1>3. QED
  BY <1>1, <1>2, NoPlanIsComplete DEF PlanFits

\* The frame of a fate: the other agents' plans, and their cycles.
LEMMA FateFrame ==
  ASSUME DataOK, NEW a \in Agents, Fate(a)
  PROVE  \A b \in Agents : b # a => plan'[b] = plan[b]
BY DEF DataOK, PlansOK, Fate, Stays, Adopts, Advances, Abandons, Reports

LEMMA WaitingLives ==
  ASSUME DataOK, Solo, NEW a \in Agents, NEW s \in Slots, cycle[a][s].pc # "free",
         NEW next, NEW t, Await(a, s, next, t), Knows(next, plan'[a], planSkips'[a]),
         Fate(a), PlanFits(a)', planSkips' = [planSkips EXCEPT ![a] = planSkips'[a]]
  PROVE  Lives(a)
<1>1. \A b \in Agents : b # a => cycle'[b] = cycle[b] /\ planSkips'[b] = planSkips[b]
  BY DEF Await, DataOK, FrameOK, ServicesOK
<1>2. cycle'[a][s] = next /\ \A r \in Slots : r # s => cycle'[a][r] = cycle[a][r]
  BY DEF Await, DataOK, FrameOK
<1>3. \A r \in Slots : r # s => cycle'[a][r].pc = "free"
  BY <1>2 DEF Solo
<1>4. CyclesFit(a)'
  BY <1>2, <1>3 DEF CyclesFit, Knows
<1>5. QED
  BY <1>1, <1>4, FateFrame DEF Lives

LEMMA EndingLives ==
  ASSUME DataOK, Solo, NEW a \in Agents, NEW s \in Slots, cycle[a][s].pc # "free",
         Settle(a, s), Fate(a), PlanFits(a)', planSkips' = [planSkips EXCEPT ![a] = planSkips'[a]]
  PROVE  Lives(a)
<1>1. \A b \in Agents : b # a => cycle'[b] = cycle[b] /\ planSkips'[b] = planSkips[b]
  BY DEF Settle, DataOK, FrameOK, ServicesOK
<1>2. cycle'[a][s] = Free /\ \A r \in Slots : r # s => cycle'[a][r] = cycle[a][r]
  BY DEF Settle, DataOK, FrameOK
<1>3. Free.pc = "free"
  BY DEF Free
<1>4. \A r \in Slots : cycle'[a][r].pc = "free"
  BY <1>2, <1>3 DEF Solo
<1>5. CyclesFit(a)'
  BY <1>4 DEF CyclesFit, Knows
<1>6. QED
  BY <1>1, <1>5, FateFrame DEF Lives

LEMMA ToReflectLives ==
  ASSUME DataOK, Solo, NEW a \in Agents, NEW s \in Slots, cycle[a][s].pc # "free",
         NEW ok \in BOOLEAN, NEW skips, NEW p \in Plan, ToReflect(a, s, ok, skips, p),
         IF ok THEN skips = p.skipped ELSE p.id = 0 \/ ~Complete(p),
         Fate(a), PlanFits(a)', planSkips' = [planSkips EXCEPT ![a] = planSkips'[a]]
  PROVE  Lives(a)
<1> DEFINE next == [pc |-> "reflecting", entry |-> p, ok |-> ok, skips |-> skips]
<1>1. plan'[a] = p
  BY DEF ToReflect, DataOK, PlansOK
<1>2. CASE Await(a, s, next, TRUE)
  <2>1. Knows(next, plan'[a], planSkips'[a])
    BY <1>1 DEF Knows
  <2> HIDE DEF next
  <2>2. QED
    BY <1>2, <2>1, WaitingLives
<1>3. CASE FailCycle(a, s)
  BY <1>3, EndingLives DEF FailCycle
<1>4. QED
  BY <1>2, <1>3 DEF ToReflect

\* Nothing becomes of the plan.
LEMMA UntouchedStays ==
  ASSUME DataOK, NEW a \in Agents, PlanFits(a), UNCHANGED <<plan, outcome, planSkips>>
  PROVE  /\ Fate(a) /\ PlanFits(a)' /\ plan'[a] = plan[a] /\ planSkips'[a] = planSkips[a]
         /\ planSkips' = [planSkips EXCEPT ![a] = planSkips'[a]]
<1>1. plan' = [plan EXCEPT ![a] = plan'[a]]
  BY DEF DataOK, PlansOK
<1>2. planSkips' = [planSkips EXCEPT ![a] = planSkips'[a]]
  BY DEF DataOK, ServicesOK
<1>3. Fate(a)
  BY <1>1 DEF Fate, Stays
<1>4. PlanFits(a)'
  BY DEF PlanFits, SkipsSoFar
<1>5. QED
  BY <1>2, <1>3, <1>4

LEMMA UntouchedWaits ==
  ASSUME DataOK, Solo, NEW a \in Agents, NEW s \in Slots, cycle[a][s].pc # "free",
         PlanFits(a), NEW next, NEW t, Await(a, s, next, t),
         Knows(next, plan[a], planSkips[a]), UNCHANGED <<plan, outcome, planSkips>>
  PROVE  Lives(a)
BY UntouchedStays, WaitingLives

LEMMA UntouchedEnds ==
  ASSUME DataOK, Solo, NEW a \in Agents, NEW s \in Slots, cycle[a][s].pc # "free",
         PlanFits(a), Settle(a, s), UNCHANGED <<plan, outcome, planSkips>>
  PROVE  Lives(a)
BY UntouchedStays, EndingLives

\* A cycle at a plain phase knows whether there is a plan.
LEMMA AtKnows ==
  ASSUME NEW pc \in Phases, NEW p, NEW k,
         pc \in {"perceiving", "planning", "retrying", "execute"},
         pc \in {"planning", "retrying"} => p.id = 0, pc = "execute" => p.id # 0
  PROVE  Knows(At(pc), p, k)
<1>1. At(pc).pc = pc
  BY AtIsCycle
<1>2. QED
  BY <1>1 DEF Knows

LEMMA PerceivingLives ==
  ASSUME DataOK, Solo, NEW a \in Agents, NEW s \in Slots, PlanFits(a),
         Perceived(a, s) \/ PerceiveRejected(a, s)
  PROVE  Lives(a)
<1>1. cycle[a][s].pc # "free" /\ UNCHANGED <<plan, outcome, planSkips>>
  BY DEF Perceived, PerceiveRejected, serviceVars
<1>2. CASE plan[a].id # 0 /\ Await(a, s, At("execute"), thinking[a])
  <2>1. Knows(At("execute"), plan[a], planSkips[a])
    BY <1>2, AtKnows DEF Phases
  <2>2. QED
    BY <1>1, <1>2, <2>1, UntouchedWaits
<1>3. CASE plan[a].id = 0 /\ Await(a, s, At("planning"), TRUE)
  <2>1. Knows(At("planning"), plan[a], planSkips[a])
    BY <1>3, AtKnows DEF Phases
  <2>2. QED
    BY <1>1, <1>3, <2>1, UntouchedWaits
<1>4. CASE Settle(a, s)
  BY <1>1, <1>4, UntouchedEnds
<1>5. QED
  BY <1>2, <1>3, <1>4 DEF Perceived, PerceiveRejected

\* A fresh identifier is none that the skip total still names.
LEMMA StorePlanLives ==
  ASSUME DataOK, Solo, NEW a \in Agents, NEW s \in Slots, PlanFits(a), CyclesFit(a),
         cycle[a][s].pc \in {"planning", "retrying"}, Active(a),
         NEW steps \in Seq(Steps) \ {<<>>}, StorePlan(a, s, steps)
  PROVE  Lives(a)
<1>1. plan[a] = NoPlan
  BY DEF PlanFits, CyclesFit, Knows
<1>2. PICK id \in 1..MaxPlanId :
        /\ FreshId(a, id)
        /\ plan' = [plan EXCEPT ![a] = NewPlan(id, steps)]
        /\ outcome' = [outcome EXCEPT ![a] = Superseded(plan[a], @)]
  BY DEF StorePlan
<1>3. outcome' = outcome
  <2>1. Superseded(plan[a], outcome[a]) = outcome[a]
    BY <1>1, NoPlanIsComplete DEF Superseded
  <2>2. QED
    BY <1>2, <2>1 DEF DataOK, PlansOK
<1>4. Fate(a)
  BY <1>1, <1>2, <1>3 DEF Fate, Adopts
<1>5. plan'[a] = NewPlan(id, steps)
  BY <1>2 DEF DataOK, PlansOK
<1>6. /\ plan'[a].id = id /\ plan'[a].skipped = 0 /\ plan'[a].pos = 1
      /\ plan'[a].steps = steps
  BY <1>5 DEF NewPlan, NoPlan
<1>7. id # 0 /\ id # planSkips[a].id
  BY <1>2, LimitsAssumption DEF FreshId, UnusedIds
<1>8. planSkips' = planSkips
  BY DEF StorePlan
<1>9. PlanFits(a)'
  <2>1. SkipsSoFar(a)' = 0
    BY <1>6, <1>7, <1>8 DEF SkipsSoFar
  <2>2. plan'[a].pos <= Len(plan'[a].steps) + 1
    BY <1>6
  <2>3. QED
    BY <1>6, <1>7, <1>8, <2>1, <2>2 DEF PlanFits
<1>10. Knows(At("execute"), plan'[a], planSkips'[a])
  BY <1>6, <1>7, AtKnows DEF Phases
<1>11. planSkips' = [planSkips EXCEPT ![a] = planSkips'[a]]
  BY <1>8 DEF DataOK, ServicesOK
<1>12. Await(a, s, At("execute"), FALSE)
  BY DEF StorePlan
<1>13. QED
  BY <1>4, <1>9, <1>10, <1>11, <1>12, WaitingLives

LEMMA PlanningLives ==
  ASSUME DataOK, Solo, NEW a \in Agents, NEW s \in Slots, PlanFits(a), CyclesFit(a),
         Active(a), NEW answer, PlanAnswered(a, s, answer)
  PROVE  Lives(a)
<1>1. cycle[a][s].pc \in {"planning", "retrying"} /\ plan[a].id = 0
  BY DEF PlanAnswered, CyclesFit, Knows
<1>2. CASE \E steps \in Seq(Steps) \ {<<>>} : StorePlan(a, s, steps)
  BY <1>1, <1>2, StorePlanLives
<1>3. CASE \E steps \in Plans : StorePlan(a, s, steps)
  BY <1>2, <1>3, DataAssumption
<1>4. CASE \E f \in FloorSteps : StorePlan(a, s, <<f>>)
  <2>1. PICK f \in FloorSteps : StorePlan(a, s, <<f>>)
    BY <1>4
  <2>2. <<f>> \in Seq(Steps) \ {<<>>}
    BY DataAssumption
  <2>3. QED
    BY <1>2, <2>1, <2>2
<1>5. CASE FailCycle(a, s) /\ UNCHANGED <<plan, outcome, planSkips>>
  BY <1>1, <1>5, UntouchedEnds DEF FailCycle
<1>6. CASE Await(a, s, At("retrying"), thinking[a]) /\ UNCHANGED <<plan, outcome, serviceVars>>
  <2>1. Knows(At("retrying"), plan[a], planSkips[a])
    BY <1>1, AtKnows DEF Phases
  <2>2. QED
    BY <1>1, <1>6, <2>1, UntouchedWaits DEF serviceVars
<1>7. QED
  BY <1>3, <1>4, <1>5, <1>6 DEF PlanAnswered, FailFormation, serviceVars

\* The positions an attempt may leave a plan at.
MovesTo(p, q) ==
  \/ q \in {p, Tried(p)}
  \/ ~Complete(p) /\ q \in {Advance(p), SkipOver(p)}

\* An attempt of Execute that moves the plan to p and syncs the skip total.
LEMMA AttemptLives ==
  ASSUME DataOK, Solo, NEW a \in Agents, NEW s \in Slots,
         cycle[a][s].pc # "free", PlanFits(a), plan[a].id # 0,
         NEW ok \in BOOLEAN, NEW p \in Plan, p.id = plan[a].id,
         p.pos <= Len(p.steps) + 1, ok \/ ~Complete(p),
         MovesTo(plan[a], p),
         \/ ToReflect(a, s, ok, p.skipped, p)
         \/ plan' = [plan EXCEPT ![a] = p] /\ Settle(a, s),
         SyncSkips(a, p.skipped), UNCHANGED outcome
  PROVE  Lives(a)
<1>1. plan' = [plan EXCEPT ![a] = p]
  BY DEF ToReflect
<1>2. plan'[a] = p
  BY <1>1 DEF DataOK, PlansOK
<1>3. Fate(a)
  BY <1>1, <1>2 DEF MovesTo, Fate, Stays, Advances
<1>4. PlanFits(a)' /\ planSkips' = [planSkips EXCEPT ![a] = planSkips'[a]]
  BY <1>1, SyncFits
<1>5. CASE ToReflect(a, s, ok, p.skipped, p)
  BY <1>3, <1>4, <1>5, ToReflectLives
<1>6. CASE Settle(a, s)
  BY <1>3, <1>4, <1>6, EndingLives
<1>7. QED
  BY <1>5, <1>6

\* What an attempt finds.
LEMMA AttemptFinds ==
  ASSUME DataOK, NEW a \in Agents, NEW s \in Slots, PlanFits(a), CyclesFit(a),
         cycle[a][s].pc = "execute"
  PROVE  /\ plan[a] \in Plan /\ plan[a].id # 0
         /\ plan[a].pos <= Len(plan[a].steps) + 1 /\ SkipsSoFar(a) = plan[a].skipped
BY DEF DataOK, PlansOK, PlanFits, CyclesFit, Knows

\* The positions an incomplete plan may move to are positions of it.
LEMMA NextPositions ==
  ASSUME NEW p \in Plan, ~Complete(p)
  PROVE  /\ Advance(p) \in Plan /\ Advance(p).pos <= Len(Advance(p).steps) + 1
         /\ SkipOver(p) \in Plan /\ SkipOver(p).pos <= Len(SkipOver(p).steps) + 1
         /\ Tried(p) \in Plan /\ Tried(p).pos <= Len(Tried(p).steps) + 1
         /\ ~Complete(Tried(p))
<1>1. p.pos <= Len(p.steps) /\ Len(p.steps) \in Nat /\ p.pos \in Nat
  BY DEF Complete, Plan
<1>2. /\ Advance(p).steps = p.steps /\ Advance(p).pos = p.pos + 1
      /\ SkipOver(p).steps = p.steps /\ SkipOver(p).pos = p.pos + 1
      /\ Tried(p).steps = p.steps /\ Tried(p).pos = p.pos
  BY AdvanceSame, SkipOverSame, TriedSame
<1>3. Advance(p) \in Plan /\ SkipOver(p) \in Plan /\ Tried(p) \in Plan
  BY AdvanceIsPlan, SkipOverIsPlan, TriedIsPlan
<1>4. QED
  BY <1>1, <1>2, <1>3 DEF Complete

LEMMA ExecuteOnLives ==
  ASSUME DataOK, Solo, NEW a \in Agents, NEW s \in Slots, PlanFits(a), CyclesFit(a),
         ExecuteComplete(a, s) \/ ExecuteWalking(a, s) \/ ExecuteAdvance(a, s)
  PROVE  Lives(a)
<1>1. cycle[a][s].pc = "execute" /\ UNCHANGED outcome
  BY DEF ExecuteComplete, ExecuteWalking, ExecuteAdvance, Attempt
<1>2. /\ plan[a] \in Plan /\ plan[a].id # 0
      /\ plan[a].pos <= Len(plan[a].steps) + 1 /\ SkipsSoFar(a) = plan[a].skipped
  BY <1>1, AttemptFinds
<1>3. CASE ExecuteComplete(a, s) \/ ExecuteWalking(a, s)
  <2>1. SyncSkips(a, plan[a].skipped) /\ ToReflect(a, s, TRUE, plan[a].skipped, plan[a])
    BY <1>2, <1>3 DEF ExecuteComplete, ExecuteWalking
  <2> DEFINE p == plan[a]
  <2>2. /\ p \in Plan /\ p.pos <= Len(p.steps) + 1 /\ p.id = plan[a].id
        /\ MovesTo(plan[a], p)
    BY <1>2 DEF MovesTo
  <2>3. SyncSkips(a, p.skipped) /\ ToReflect(a, s, TRUE, p.skipped, p)
    BY <2>1
  <2> HIDE DEF p
  <2>4. QED
    BY <1>1, <1>2, <2>2, <2>3, AttemptLives
<1>4. CASE ExecuteAdvance(a, s)
  <2> DEFINE p == Advance(plan[a])
  <2>1. ~Complete(plan[a])
    BY <1>4 DEF ExecuteAdvance, Attempt
  <2>2. /\ p \in Plan /\ p.pos <= Len(p.steps) + 1
        /\ p.id = plan[a].id /\ p.skipped = plan[a].skipped
        /\ MovesTo(plan[a], p)
    BY <1>2, <2>1, NextPositions, AdvanceSame DEF MovesTo
  <2>3. SyncSkips(a, p.skipped) /\ ToReflect(a, s, TRUE, p.skipped, p)
    BY <1>2, <1>4, <2>2 DEF ExecuteAdvance
  <2> HIDE DEF p
  <2>4. QED
    BY <1>1, <1>2, <2>2, <2>3, AttemptLives
<1>5. QED
  BY <1>3, <1>4

LEMMA ExecuteFailureLives ==
  ASSUME DataOK, Solo, NEW a \in Agents, NEW s \in Slots, PlanFits(a), CyclesFit(a),
         NEW o, ExecuteFailure(a, s, o) \/ ExecuteRelocated(a, s)
  PROVE  Lives(a)
<1> DEFINE text == TextOf[CurrentStep(plan[a])]
           tried == Tried(plan[a])
           over == SkipOver(plan[a])
<1>1. cycle[a][s].pc = "execute" /\ ~Complete(plan[a]) /\ UNCHANGED outcome
  BY DEF ExecuteFailure, ExecuteRelocated, Attempt
<1>2. /\ plan[a] \in Plan /\ plan[a].id # 0
      /\ plan[a].pos <= Len(plan[a].steps) + 1 /\ SkipsSoFar(a) = plan[a].skipped
  BY <1>1, AttemptFinds
<1>3. /\ tried \in Plan /\ tried.pos <= Len(tried.steps) + 1 /\ ~Complete(tried)
      /\ tried.id = plan[a].id /\ tried.skipped = plan[a].skipped
  BY <1>1, <1>2, NextPositions, TriedSame
<1>4. /\ over \in Plan /\ over.pos <= Len(over.steps) + 1
      /\ over.id = plan[a].id /\ over.skipped = plan[a].skipped + 1
  BY <1>1, <1>2, NextPositions, SkipOverSame
<1>5. CASE /\ SyncSkips(a, SkipsSoFar(a))
           /\ \/ ToReflect(a, s, FALSE, SkipsSoFar(a), tried)
              \/ plan' = [plan EXCEPT ![a] = tried] /\ FailCycle(a, s)
  <2>1. SyncSkips(a, tried.skipped)
    BY <1>2, <1>3, <1>5
  <2>2. \/ ToReflect(a, s, FALSE, tried.skipped, tried)
        \/ plan' = [plan EXCEPT ![a] = tried] /\ Settle(a, s)
    BY <1>2, <1>3, <1>5 DEF FailCycle
  <2>3. MovesTo(plan[a], tried)
    BY DEF MovesTo
  <2> HIDE DEF tried
  <2>4. CASE ToReflect(a, s, FALSE, tried.skipped, tried)
    BY <1>1, <1>2, <1>3, <2>1, <2>3, <2>4, AttemptLives
  <2>5. CASE plan' = [plan EXCEPT ![a] = tried] /\ Settle(a, s)
    BY <1>1, <1>2, <1>3, <2>1, <2>3, <2>5, AttemptLives
  <2>6. QED
    BY <2>2, <2>4, <2>5
<1>6. CASE StepSkip(a, s, text, SkipsSoFar(a)) /\ SyncSkips(a, SkipsSoFar(a) + 1)
  <2>1. SyncSkips(a, over.skipped) /\ ToReflect(a, s, TRUE, over.skipped, over)
    BY <1>2, <1>4, <1>6 DEF StepSkip
  <2>2. MovesTo(plan[a], over)
    BY <1>1 DEF MovesTo
  <2> HIDE DEF over
  <2>3. QED
    BY <1>1, <1>2, <1>4, <2>1, <2>2, AttemptLives
<1>7. QED
  BY <1>5, <1>6 DEF ExecuteFailure, ExecuteRelocated

LEMMA ExecuteStaleLives ==
  ASSUME DataOK, Solo, NEW a \in Agents, NEW s \in Slots, PlanFits(a), CyclesFit(a),
         ExecuteStale(a, s)
  PROVE  Lives(a)
<1>1. cycle[a][s].pc = "execute" /\ ~Complete(plan[a])
  BY DEF ExecuteStale, Attempt
<1>2. plan[a].id # 0 /\ SkipsSoFar(a) = plan[a].skipped
  BY <1>1, AttemptFinds
<1>3. plan' = [plan EXCEPT ![a] = NoPlan]
  BY DEF ExecuteStale, ToReflect
<1>4. Fate(a)
  BY <1>1, <1>2, <1>3 DEF ExecuteStale, Fate, Abandons
<1>5. planSkips' = [planSkips EXCEPT ![a] = planSkips'[a]] /\ planSkips'[a].id # 0
  BY <1>2 DEF ExecuteStale, SyncSkips, DataOK, ServicesOK
<1>6. PlanFits(a)'
  BY <1>3, <1>5, ClearedFits
<1>7. ToReflect(a, s, FALSE, SkipsSoFar(a), NoPlan)
  BY DEF ExecuteStale
<1>8. QED
  BY <1>1, <1>4, <1>5, <1>6, <1>7, NoPlanIsComplete, NoPlanIsPlan, ToReflectLives

LEMMA CallHandlerLives ==
  ASSUME DataOK, Solo, NEW a \in Agents, NEW s \in Slots, PlanFits(a), CyclesFit(a),
         CallHandler(a, s)
  PROVE  Lives(a)
<1> DEFINE next == [At("handling") EXCEPT !.entry = plan[a]]
<1>1. cycle[a][s].pc = "execute" /\ ~Complete(plan[a]) /\ plan' = plan /\ outcome' = outcome
  BY DEF CallHandler, Attempt
<1>2. /\ plan[a] \in Plan /\ plan[a].id # 0
      /\ plan[a].pos <= Len(plan[a].steps) + 1 /\ SkipsSoFar(a) = plan[a].skipped
  BY <1>1, AttemptFinds
<1>3. plan' = [plan EXCEPT ![a] = plan[a]] /\ plan'[a] = plan[a]
  BY <1>1 DEF DataOK, PlansOK
<1>4. SyncSkips(a, plan[a].skipped)
  BY <1>2 DEF CallHandler
<1>5. /\ PlanFits(a)' /\ planSkips'[a].id = plan[a].id
      /\ planSkips' = [planSkips EXCEPT ![a] = planSkips'[a]]
  BY <1>2, <1>3, <1>4, SyncFits
<1>6. Fate(a)
  BY <1>1, <1>3 DEF Fate, Stays
<1>7. next.pc = "handling" /\ next.entry = plan[a]
  BY DEF At, Free
<1>8. Knows(next, plan'[a], planSkips'[a])
  BY <1>2, <1>3, <1>5, <1>7 DEF Knows
<1>9. Await(a, s, next, thinking[a])
  BY DEF CallHandler
<1> HIDE DEF next
<1>10. QED
  BY <1>1, <1>5, <1>6, <1>8, <1>9, WaitingLives

\* The answer of a handler that left the skip total alone.
LEMMA AnswerLives ==
  ASSUME DataOK, Solo, NEW a \in Agents, NEW s \in Slots,
         cycle[a][s].pc # "free", PlanFits(a), plan[a].id # 0, planSkips' = planSkips,
         NEW p \in Plan, p.id = plan[a].id, p.skipped = plan[a].skipped,
         p.pos <= Len(p.steps) + 1, MovesTo(plan[a], p),
         \/ ToReflect(a, s, TRUE, p.skipped, p)
         \/ plan' = [plan EXCEPT ![a] = p] /\ Settle(a, s),
         UNCHANGED outcome
  PROVE  Lives(a)
<1>1. plan' = [plan EXCEPT ![a] = p]
  BY DEF ToReflect
<1>2. plan'[a] = p
  BY <1>1 DEF DataOK, PlansOK
<1>3. Fate(a)
  BY <1>1, <1>2 DEF MovesTo, Fate, Stays, Advances
<1>4. PlanFits(a)'
  BY <1>1, KeptFits
<1>5. planSkips' = [planSkips EXCEPT ![a] = planSkips'[a]]
  BY DEF DataOK, ServicesOK
<1>6. CASE ToReflect(a, s, TRUE, p.skipped, p)
  BY <1>3, <1>4, <1>5, <1>6, ToReflectLives
<1>7. CASE Settle(a, s)
  BY <1>3, <1>4, <1>5, <1>7, EndingLives
<1>8. QED
  BY <1>6, <1>7

LEMMA HandlerAnsweredLives ==
  ASSUME DataOK, Solo, NEW a \in Agents, NEW s \in Slots, PlanFits(a), CyclesFit(a),
         NEW o, HandlerAnswered(a, s, o)
  PROVE  Lives(a)
<1> DEFINE text == TextOf[CurrentStep(cycle[a][s].entry)]
           skips == planSkips[a].count
           tried == Tried(plan[a])
           next == Advance(plan[a])
           over == SkipOver(plan[a])
<1>1. cycle[a][s].pc = "handling" /\ outcome' = outcome
  BY DEF HandlerAnswered
<1>2. /\ plan[a] \in Plan /\ plan[a].id # 0 /\ ~Complete(plan[a])
      /\ planSkips[a].id = plan[a].id /\ skips = plan[a].skipped
  BY <1>1 DEF DataOK, PlansOK, HandlingHasStep, CyclesFit, Knows, PlanFits, SkipsSoFar
<1>3. /\ tried \in Plan /\ tried.pos <= Len(tried.steps) + 1
      /\ tried.id = plan[a].id /\ tried.skipped = plan[a].skipped /\ MovesTo(plan[a], tried)
  BY <1>2, NextPositions, TriedSame DEF MovesTo
<1>4. /\ next \in Plan /\ next.pos <= Len(next.steps) + 1
      /\ next.id = plan[a].id /\ next.skipped = plan[a].skipped /\ MovesTo(plan[a], next)
  BY <1>2, NextPositions, AdvanceSame DEF MovesTo
<1>5. /\ over \in Plan /\ over.pos <= Len(over.steps) + 1
      /\ over.id = plan[a].id /\ over.skipped = plan[a].skipped + 1
  BY <1>2, NextPositions, SkipOverSame
<1>6. CASE planSkips' = planSkips /\ ToReflect(a, s, TRUE, skips, next)
  <2>1. ToReflect(a, s, TRUE, next.skipped, next)
    BY <1>2, <1>4, <1>6
  <2> HIDE DEF next
  <2>2. QED
    BY <1>1, <1>2, <1>4, <1>6, <2>1, AnswerLives
<1>7. CASE planSkips' = planSkips /\ plan' = [plan EXCEPT ![a] = tried] /\ FailCycle(a, s)
  <2>1. Settle(a, s)
    BY <1>7 DEF FailCycle
  <2> HIDE DEF tried
  <2>2. QED
    BY <1>1, <1>2, <1>3, <1>7, <2>1, AnswerLives
<1>8. CASE /\ StepSkip(a, s, text, skips)
           /\ planSkips' = [planSkips EXCEPT ![a].count = @ + 1]
  <2>1. ToReflect(a, s, TRUE, over.skipped, over)
    BY <1>2, <1>5, <1>8 DEF StepSkip
  <2>2. plan' = [plan EXCEPT ![a] = over]
    BY <2>1 DEF ToReflect
  <2>3. Fate(a)
    BY <1>1, <1>2, <2>2 DEF Fate, Advances
  <2>4. /\ planSkips'[a].id = plan[a].id /\ planSkips'[a].count = over.skipped
        /\ planSkips' = [planSkips EXCEPT ![a] = planSkips'[a]]
    BY <1>2, <1>5, <1>8 DEF DataOK, ServicesOK
  <2>5. plan'[a] = over
    BY <2>2 DEF DataOK, PlansOK
  <2>6. PlanFits(a)'
    BY <1>2, <1>5, <2>4, <2>5 DEF PlanFits, SkipsSoFar
  <2> HIDE DEF over
  <2>7. QED
    BY <1>1, <1>5, <2>1, <2>3, <2>4, <2>6, ToReflectLives
<1>9. QED
  BY <1>6, <1>7, <1>8 DEF HandlerAnswered, Tried

LEMMA ExecutingLives ==
  ASSUME DataOK, Solo, NEW a \in Agents, NEW s \in Slots, PlanFits(a), CyclesFit(a),
         ExecuteStep(a, s)
  PROVE  Lives(a)
<1>1. CASE ExecuteAbsent(a, s)
  BY <1>1, UntouchedEnds DEF ExecuteAbsent, FailCycle, serviceVars
<1>2. QED
  BY <1>1, ExecuteOnLives, ExecuteFailureLives, ExecuteStaleLives, CallHandlerLives,
     HandlerAnsweredLives DEF ExecuteStep

\* The stamp of a cycle that reflects: the plan of its agent, if it is done
\* with or deviated from, with the skips counted for it.
LEMMA StampReports ==
  ASSUME DataOK, NEW a \in Agents, NEW s \in Slots, CyclesFit(a), Active(a),
         cycle[a][s].pc \in {"reflecting", "storing"}, Stamp(a, cycle[a][s])
  PROVE  \/ plan[a].id = 0 /\ outcome' = outcome
         \/ ~Complete(plan[a]) /\ outcome' = outcome
         \/ /\ plan[a].id # 0
            /\ \E k \in Nat :
                 /\ Complete(plan[a]) => k = plan[a].skipped
                 /\ outcome' = [outcome EXCEPT ![a] =
                      [id |-> plan[a].id, success |-> Complete(plan[a]),
                       superseded |-> FALSE, skips |-> k]]
<1> DEFINE c == cycle[a][s]
<1>1. /\ c.entry = plan[a] /\ c.ok \in BOOLEAN /\ c.skips \in Nat
      /\ IF c.ok THEN c.skips = plan[a].skipped ELSE plan[a].id = 0 \/ ~Complete(plan[a])
  BY DEF CyclesFit, Knows, DataOK, FrameOK, Cycle
<1>2. CASE plan[a].id # 0 /\ (Complete(plan[a]) \/ ~c.ok)
  <2>1. outcome' = [outcome EXCEPT ![a] =
          [id |-> plan[a].id, success |-> c.ok, superseded |-> FALSE, skips |-> c.skips]]
    BY <1>1, <1>2 DEF Stamp
  <2>2. c.ok = Complete(plan[a])
    BY <1>1, <1>2 DEF Complete
  <2>3. QED
    BY <1>1, <1>2, <2>1, <2>2
<1>3. CASE ~(plan[a].id # 0 /\ (Complete(plan[a]) \/ ~c.ok))
  BY <1>1, <1>3 DEF Stamp
<1>4. QED
  BY <1>2, <1>3

LEMMA ReflectingEndsLives ==
  ASSUME DataOK, Solo, NEW a \in Agents, NEW s \in Slots, PlanFits(a), CyclesFit(a),
         Active(a), cycle[a][s].pc \in {"reflecting", "storing"},
         ReflectDone(a, s) \/ ReflectFailed(a, s), UNCHANGED serviceVars
  PROVE  Lives(a)
<1>1. Stamp(a, cycle[a][s]) /\ Settle(a, s) /\ planSkips' = planSkips
  BY DEF ReflectDone, ReflectFailed, serviceVars
<1>2. \/ plan' = plan
      \/ Complete(plan[a]) /\ plan' = [plan EXCEPT ![a] = NoPlan]
  BY DEF ReflectDone, ReflectFailed, DataOK, PlansOK
<1>3. PlanFits(a)'
  <2>1. CASE plan' = plan
    BY <1>1, <2>1 DEF PlanFits, SkipsSoFar
  <2>2. CASE plan' = [plan EXCEPT ![a] = NoPlan]
    BY <1>1, <2>2, ClearedFits DEF PlanFits
  <2>3. QED
    BY <1>2, <2>1, <2>2
<1>4. Fate(a)
  <2>1. plan' = plan => plan' = [plan EXCEPT ![a] = plan'[a]] /\ plan'[a] = plan[a]
    BY DEF DataOK, PlansOK
  <2>2. CASE outcome' = outcome /\ plan[a].id = 0
    <3>1. plan[a] = NoPlan
      BY <2>2 DEF PlanFits
    <3>2. plan' = plan
      BY <1>2, <3>1 DEF DataOK, PlansOK
    <3>3. QED
      BY <2>1, <2>2, <3>2 DEF Fate, Stays
  <2>3. CASE outcome' = outcome /\ ~Complete(plan[a])
    BY <1>2, <2>1, <2>3 DEF Fate, Stays
  <2>4. CASE /\ plan[a].id # 0
             /\ \E k \in Nat :
                  /\ Complete(plan[a]) => k = plan[a].skipped
                  /\ outcome' = [outcome EXCEPT ![a] =
                       [id |-> plan[a].id, success |-> Complete(plan[a]),
                        superseded |-> FALSE, skips |-> k]]
    BY <1>2, <2>4 DEF Fate, Reports
  <2>5. QED
    BY <1>1, <2>2, <2>3, <2>4, StampReports
<1>5. planSkips' = [planSkips EXCEPT ![a] = planSkips'[a]]
  BY <1>1 DEF DataOK, ServicesOK
<1>6. cycle[a][s].pc # "free"
  OBVIOUS
<1>7. QED
  BY <1>1, <1>3, <1>4, <1>5, <1>6, EndingLives

LEMMA ReflectingLives ==
  ASSUME DataOK, Solo, NEW a \in Agents, NEW s \in Slots, PlanFits(a), CyclesFit(a),
         Active(a), NEW answer,
         ReflectAnswered(a, s, answer) \/ MemoryStored(a, s) \/ MemoryRefused(a, s)
  PROVE  Lives(a)
<1> DEFINE next == [cycle[a][s] EXCEPT !.pc = "storing"]
<1>1. cycle[a][s].pc \in {"reflecting", "storing"} /\ UNCHANGED serviceVars
  BY DEF ReflectAnswered, MemoryStored, MemoryRefused
<1>2. CASE ReflectDone(a, s) \/ ReflectFailed(a, s)
  BY <1>1, <1>2, ReflectingEndsLives
<1>3. CASE Await(a, s, next, thinking[a]) /\ UNCHANGED <<plan, outcome>>
  <2>1. cycle[a][s] \in Cycle
    BY DEF DataOK, FrameOK
  <2>2. /\ next.pc = "storing" /\ next.entry = cycle[a][s].entry
        /\ next.ok = cycle[a][s].ok /\ next.skips = cycle[a][s].skips
    BY <2>1 DEF Cycle
  <2>3. Knows(next, plan[a], planSkips[a])
    BY <1>1, <2>2 DEF CyclesFit, Knows
  <2>4. UNCHANGED <<plan, outcome, planSkips>> /\ cycle[a][s].pc # "free"
    BY <1>1, <1>3 DEF serviceVars
  <2> HIDE DEF next
  <2>5. QED
    BY <1>3, <2>3, <2>4, UntouchedWaits
<1>4. QED
  BY <1>2, <1>3 DEF ReflectAnswered, MemoryStored, MemoryRefused

\* Whatever a cycle does, its agent's plan has one of the fates.
LEMMA StepLives ==
  ASSUME DataOK, LockInv, PlanInv, NEW a \in Agents, NEW s \in Slots, CycleStep(a, s)
  PROVE  Lives(a)
<1>1. PlanFits(a) /\ CyclesFit(a) /\ Solo
  BY DEF PlanInv, LockInv
<1>2. Active(a)
  BY StepShape DEF Moves, LockInv, Present
<1>3. QED
  BY <1>1, <1>2, PerceivingLives, PlanningLives, ExecutingLives, ReflectingLives DEF CycleStep

LEMMA InitPlans == Init => PlanInv
<1> SUFFICES ASSUME Init, NEW a \in Agents PROVE PlanFits(a) /\ CyclesFit(a)
  BY DEF PlanInv
<1>1. plan[a] = NoPlan /\ planSkips[a] = [id |-> 0, count |-> 0]
  BY DEF Init
<1>2. \A s \in Slots : cycle[a][s].pc = "free"
  BY DEF Init, Free
<1>3. SkipsSoFar(a) = 0
  BY <1>1, NoPlanIsComplete DEF SkipsSoFar
<1>4. PlanFits(a)
  BY <1>1, <1>3, NoPlanIsComplete DEF PlanFits
<1>5. CyclesFit(a)
  BY <1>2 DEF CyclesFit, Knows
<1>6. QED
  BY <1>4, <1>5

\* A step that leaves the plans alone, and starts cycles at most.
LEMMA PlansUntouched ==
  ASSUME PlanInv, UNCHANGED <<plan, planSkips>>,
         \A a \in Agents, s \in Slots : cycle'[a][s] \in {cycle[a][s], At("perceiving")}
  PROVE  PlanInv'
<1> SUFFICES ASSUME NEW a \in Agents PROVE PlanFits(a)' /\ CyclesFit(a)'
  BY DEF PlanInv
<1>1. PlanFits(a)'
  BY DEF PlanInv, PlanFits, SkipsSoFar
<1>2. Knows(At("perceiving"), plan[a], planSkips[a])
  BY AtKnows DEF Phases
<1>3. CyclesFit(a)'
  BY <1>2 DEF PlanInv, CyclesFit
<1>4. QED
  BY <1>1, <1>3

LEMMA NextLives ==
  ASSUME MaxChurn = 0, HandlersSuspend = FALSE, IInv, LockInv, PlanInv, [Next]_vars
  PROVE  PlanInv' /\ ((\E a \in Agents : Fate(a)) \/ UNCHANGED <<plan, outcome>>)
<1>1. DataOK
  BY DEF IInv
<1>2. CASE TickStep
  <2>1. PICK idled : Tick(idled)
    BY <1>2 DEF TickStep
  <2>2. \A a \in Agents, s \in Slots : cycle'[a][s] \in {cycle[a][s], At("perceiving")}
    BY <1>1, <2>1, TickStarts DEF IInv
  <2>3. UNCHANGED <<plan, outcome, planSkips>>
    BY <2>1 DEF Tick, serviceVars
  <2>4. QED
    BY <2>2, <2>3, PlansUntouched
<1>3. ASSUME NEW a \in Agents, CooldownElapses(a)
      PROVE  PlanInv' /\ UNCHANGED <<plan, outcome>>
  <2>1. UNCHANGED <<plan, outcome, planSkips, cycle>>
    BY <1>3 DEF CooldownElapses, agentVars, serviceVars
  <2>2. QED
    BY <2>1, PlansUntouched
<1>4. ASSUME NEW a \in Agents, NEW s \in Slots, CycleStep(a, s)
      PROVE  PlanInv' /\ Fate(a)
  <2>1. Lives(a)
    BY <1>1, <1>4, StepLives
  <2>2. \A b \in Agents : b # a => PlanFits(b)' /\ CyclesFit(b)'
    BY <2>1 DEF Lives, PlanInv, PlanFits, SkipsSoFar, CyclesFit
  <2>3. QED
    BY <2>1, <2>2 DEF Lives, PlanInv
<1>5. ASSUME NEW a \in Agents, Despawn(a) \/ SpawnFresh(a) \/ SpawnDormant(a)
      PROVE  FALSE
  <2>1. Churn(a)
    BY <1>5 DEF Despawn, SpawnFresh, SpawnDormant
  <2>2. QED
    BY <2>1 DEF Churn, IInv, DataOK, FrameOK
<1>6. CASE UNCHANGED vars
  <2>1. UNCHANGED <<plan, outcome, planSkips, cycle>>
    BY <1>6 DEF vars, agentVars, serviceVars
  <2>2. QED
    BY <2>1, PlansUntouched
<1>7. QED
  BY <1>2, <1>3, <1>4, <1>5, <1>6 DEF Next

LEMMA PlanInvariance ==
  ASSUME MaxChurn = 0, HandlersSuspend = FALSE
  PROVE  Spec => [](IInv /\ LockInv /\ PlanInv)
<1>1. Init => PlanInv
  BY InitPlans
<1>2. IInv /\ LockInv /\ PlanInv /\ [Next]_vars => PlanInv'
  BY NextLives
<1>3. QED
  BY <1>1, <1>2, Invariance, LockInvariance, PTL DEF Spec

\* What a fate says of outcomes that are new, and of plans that are gone.
LEMMA FateTells ==
  ASSUME DataOK, PlanInv, NEW a \in Agents, Fate(a), NEW b \in Agents
  PROVE  /\ (outcome'[b] # outcome[b] /\ outcome'[b].success) =>
              /\ outcome'[b].id = plan[b].id
              /\ Complete(plan[b])
              /\ outcome'[b].skips = plan[b].skipped
         /\ (plan[b].id # 0 /\ plan'[b].id # plan[b].id) =>
              /\ outcome'[b].id = plan[b].id
              /\ outcome'[b].success <=> Complete(plan[b])
<1>1. plan[a] \in Plan /\ plan \in [Agents -> Plan] /\ outcome \in [Agents -> Outcome]
  BY DEF DataOK, PlansOK
<1>2. CASE b # a
  BY <1>1, <1>2 DEF Fate, Stays, Adopts, Advances, Abandons, Reports
<1>3. CASE b = a /\ Stays(a)
  BY <1>1, <1>3, TriedSame DEF Stays
<1>4. CASE b = a /\ Adopts(a)
  BY <1>1, <1>4, NoPlanIsComplete DEF Adopts
<1>5. CASE b = a /\ Advances(a)
  <2>1. plan'[a] \in {Advance(plan[a]), SkipOver(plan[a])} /\ ~Complete(plan[a])
    BY <1>1, <1>5 DEF Advances
  <2>2. plan'[a].id = plan[a].id
    BY <1>1, <2>1, AdvanceSame, SkipOverSame
  <2>3. QED
    BY <1>5, <2>2 DEF Advances
<1>6. CASE b = a /\ Abandons(a)
  <2>1. outcome'[a] = [id |-> plan[a].id, success |-> FALSE, superseded |-> TRUE, skips |-> 0]
    BY <1>1, <1>6 DEF Abandons, Superseded
  <2>2. ~Complete(plan[a])
    BY <1>6 DEF Abandons
  <2>3. QED
    BY <1>6, <2>1, <2>2
<1>7. CASE b = a /\ Reports(a)
  <2>1. PICK k \in Nat :
          /\ Complete(plan[a]) => k = plan[a].skipped
          /\ outcome' = [outcome EXCEPT ![a] =
               [id |-> plan[a].id, success |-> Complete(plan[a]),
                superseded |-> FALSE, skips |-> k]]
    BY <1>7 DEF Reports
  <2>2. /\ outcome'[a].id = plan[a].id /\ outcome'[a].skips = k
        /\ outcome'[a].success = Complete(plan[a])
    BY <1>1, <2>1
  <2>3. QED
    BY <1>7, <2>1, <2>2
<1>8. QED
  BY <1>2, <1>3, <1>4, <1>5, <1>6, <1>7 DEF Fate

(* What the next plan prompt is told of the last plan is what became of it:  *)
(* no plan of an undisturbed agent is cleared or replaced without an outcome *)
(* that names it, and a success means all its steps, with the skips counted. *)
THEOREM OutcomesCorrect ==
  ASSUME MaxChurn = 0, HandlersSuspend = FALSE
  PROVE  Spec => OutcomesTrue
<1>1. ASSUME IInv, LockInv, PlanInv, [Next]_vars, NEW b \in Agents
      PROVE  /\ (outcome'[b] # outcome[b] /\ outcome'[b].success) =>
                  /\ outcome'[b].id = plan[b].id
                  /\ Complete(plan[b])
                  /\ outcome'[b].skips = plan[b].skipped
             /\ (plan[b].id # 0 /\ plan'[b].id # plan[b].id) =>
                  /\ outcome'[b].id = plan[b].id
                  /\ outcome'[b].success <=> Complete(plan[b])
  <2>1. DataOK
    BY <1>1 DEF IInv
  <2>2. (\E a \in Agents : Fate(a)) \/ UNCHANGED <<plan, outcome>>
    BY <1>1, NextLives
  <2>3. QED
    BY <1>1, <2>1, <2>2, FateTells
<1>2. IInv /\ LockInv /\ PlanInv /\ [Next]_vars =>
        [\A a \in Agents :
           (outcome'[a] # outcome[a] /\ outcome'[a].success) =>
              /\ outcome'[a].id = plan[a].id
              /\ Complete(plan[a])
              /\ outcome'[a].skips = plan[a].skipped]_vars
  BY <1>1
<1>3. IInv /\ LockInv /\ PlanInv /\ [Next]_vars =>
        [\A a \in Agents :
           (plan[a].id # 0 /\ plan'[a].id # plan[a].id) =>
              /\ outcome'[a].id = plan[a].id
              /\ outcome'[a].success <=> Complete(plan[a])]_vars
  BY <1>1
<1>4. QED
  BY <1>2, <1>3, PlanInvariance, PTL
    DEF Spec, OutcomesTrue, OutcomeReportsSkips, PlanEndsWithOutcome
-----------------------------------------------------------------------------
(* The refinement of PlanLifecycle: each fate is a step of a plan's life.    *)

StepsLeft(p) == Len(p.steps) + 1 - p.pos

Phase    == [a \in Agents |-> PlanPhase(plan[a])]
Left     == [a \in Agents |-> StepsLeft(plan[a])]
Reported == [a \in Agents |-> Verdict(outcome[a])]

LifeStep ==
  \E a \in Agents : \/ Lifecycle!Adopt(a) \/ Lifecycle!WorkOff(a) \/ Lifecycle!Deviate(a)
                    \/ Lifecycle!Abandon(a) \/ Lifecycle!Conclude(a)

\* One agent's plan and outcome move: what that is to the abstract state.
LEMMA MovesOnOne ==
  ASSUME DataOK, NEW a \in Agents,
         plan' = [plan EXCEPT ![a] = plan'[a]], outcome' = [outcome EXCEPT ![a] = outcome'[a]],
         NEW p, PlanPhase(plan'[a]) = p, NEW n, StepsLeft(plan'[a]) = n,
         NEW v, Verdict(outcome'[a]) = v
  PROVE  /\ Phase' = [Phase EXCEPT ![a] = p]
         /\ Left' = [Left EXCEPT ![a] = n]
         /\ Reported' = [Reported EXCEPT ![a] = v]
<1>1. \A b \in Agents : b # a => plan'[b] = plan[b] /\ outcome'[b] = outcome[b]
  BY DEF DataOK, PlansOK
<1>2. Phase' = [Phase EXCEPT ![a] = p]
  BY <1>1 DEF Phase
<1>3. Left' = [Left EXCEPT ![a] = n]
  BY <1>1 DEF Left
<1>4. Reported' = [Reported EXCEPT ![a] = v]
  BY <1>1 DEF Reported
<1>5. QED
  BY <1>2, <1>3, <1>4

LEMMA PhaseOf ==
  \A p \in Plan :
    /\ PlanPhase(p) = "none" <=> p.id = 0
    /\ PlanPhase(p) = "working" <=> p.id # 0 /\ ~Complete(p)
    /\ PlanPhase(p) = "complete" <=> p.id # 0 /\ Complete(p)
BY DEF PlanPhase

\* The steps left of a plan, before and after it moves on.
LEMMA LeftOf ==
  ASSUME NEW p \in Plan, p.pos <= Len(p.steps) + 1
  PROVE  /\ Complete(p) => StepsLeft(p) = 0
         /\ ~Complete(p) =>
              \A q \in {Advance(p), SkipOver(p)} :
                /\ StepsLeft(q) = StepsLeft(p) - 1
                /\ q.id = p.id
                /\ Complete(q) <=> StepsLeft(p) = 1
<1>1. Len(p.steps) \in Nat /\ p.pos \in Nat
  BY DEF Plan
<1>2. ASSUME ~Complete(p), NEW q \in {Advance(p), SkipOver(p)}
      PROVE  /\ StepsLeft(q) = StepsLeft(p) - 1
             /\ q.id = p.id
             /\ Complete(q) <=> StepsLeft(p) = 1
  <2>1. q.steps = p.steps /\ q.pos = p.pos + 1 /\ q.id = p.id
    BY <1>2, AdvanceSame, SkipOverSame
  <2>2. p.pos <= Len(p.steps)
    BY <1>1, <1>2 DEF Complete
  <2>3. QED
    BY <1>1, <2>1, <2>2 DEF StepsLeft, Complete
<1>3. Complete(p) => StepsLeft(p) = 0
  BY <1>1 DEF StepsLeft, Complete
<1>4. QED
  BY <1>2, <1>3

LEMMA FateIsLife ==
  ASSUME DataOK, PlanInv, NEW a \in Agents, Fate(a)
  PROVE  LifeStep \/ UNCHANGED <<Phase, Left, Reported>>
<1>1. /\ plan[a] \in Plan /\ plan \in [Agents -> Plan] /\ outcome \in [Agents -> Outcome]
      /\ plan[a].pos <= Len(plan[a].steps) + 1
      /\ plan[a].id = 0 => plan[a] = NoPlan
  BY DEF DataOK, PlansOK, PlanInv, PlanFits
<1>2. /\ Phase[a] = PlanPhase(plan[a]) /\ Left[a] = StepsLeft(plan[a])
      /\ Left'[a] = StepsLeft(plan'[a]) /\ Reported[a] = Verdict(outcome[a])
  BY DEF Phase, Left, Reported
<1>3. CASE Stays(a)
  <2>1. \A b \in Agents : b # a => plan'[b] = plan[b]
    BY <1>1, <1>3 DEF Stays
  <2>2. PlanPhase(plan'[a]) = PlanPhase(plan[a]) /\ StepsLeft(plan'[a]) = StepsLeft(plan[a])
    <3>1. /\ plan'[a].id = plan[a].id /\ plan'[a].steps = plan[a].steps
          /\ plan'[a].pos = plan[a].pos
      BY <1>1, <1>3, TriedSame DEF Stays
    <3>2. QED
      BY <3>1 DEF PlanPhase, Complete, StepsLeft
  <2>3. Phase' = Phase /\ Left' = Left
    BY <2>1, <2>2 DEF Phase, Left
  <2>4. Reported' = Reported
    BY <1>3 DEF Stays, Reported
  <2>5. QED
    BY <2>3, <2>4
<1>4. ASSUME outcome' = outcome, plan' = [plan EXCEPT ![a] = plan'[a]]
      PROVE  /\ Phase' = [Phase EXCEPT ![a] = PlanPhase(plan'[a])]
             /\ Left' = [Left EXCEPT ![a] = Left'[a]]
             /\ Reported' = [Reported EXCEPT ![a] = Reported[a]]
  <2>1. outcome' = [outcome EXCEPT ![a] = outcome'[a]]
    BY <1>1, <1>4
  <2>2. QED
    BY <1>2, <1>4, <2>1, MovesOnOne
<1>5. CASE Adopts(a)
  <2>1. PICK id \in 1..MaxPlanId, steps \in Seq(Steps) \ {<<>>} :
          plan' = [plan EXCEPT ![a] = NewPlan(id, steps)]
    BY <1>5 DEF Adopts
  <2>2. plan'[a] = NewPlan(id, steps) /\ plan' = [plan EXCEPT ![a] = plan'[a]]
    BY <1>1, <2>1
  <2>3. plan'[a].id = id /\ plan'[a].steps = steps /\ plan'[a].pos = 1
    BY <2>2 DEF NewPlan, NoPlan
  <2>4. Len(steps) \in Nat /\ Len(steps) > 0 /\ id # 0
    BY LimitsAssumption
  <2>5. PlanPhase(plan'[a]) = "working" /\ StepsLeft(plan'[a]) > 0
    BY <2>3, <2>4 DEF PlanPhase, Complete, StepsLeft
  <2>6. PlanPhase(plan[a]) = "none"
    BY <1>5, NoPlanIsComplete DEF Adopts, PlanPhase
  <2>7. /\ Phase' = [Phase EXCEPT ![a] = "working"]
        /\ Left' = [Left EXCEPT ![a] = Left'[a]]
        /\ Reported' = [Reported EXCEPT ![a] = Reported[a]]
    BY <1>4, <1>5, <2>2, <2>5 DEF Adopts
  <2>8. Phase[a] = "none" /\ Left'[a] > 0
    BY <1>2, <2>5, <2>6
  <2>9. Lifecycle!Adopt(a)
    BY <2>7, <2>8 DEF Lifecycle!Adopt, Lifecycle!MoveOn, Phase, Left, Reported, StepsLeft
  <2>10. QED
    BY <2>9 DEF LifeStep
<1>6. CASE Advances(a)
  <2>1. /\ plan' = [plan EXCEPT ![a] = plan'[a]] /\ ~Complete(plan[a])
        /\ plan'[a] \in {Advance(plan[a]), SkipOver(plan[a])}
    BY <1>1, <1>6 DEF Advances
  <2>2. /\ StepsLeft(plan'[a]) = StepsLeft(plan[a]) - 1 /\ plan'[a].id = plan[a].id
        /\ Complete(plan'[a]) <=> StepsLeft(plan[a]) = 1
    <3> DEFINE q == plan'[a]
    <3>1. q \in {Advance(plan[a]), SkipOver(plan[a])}
      BY <2>1
    <3> HIDE DEF q
    <3>2. /\ StepsLeft(q) = StepsLeft(plan[a]) - 1 /\ q.id = plan[a].id
          /\ Complete(q) <=> StepsLeft(plan[a]) = 1
      BY <1>1, <2>1, <3>1, LeftOf
    <3>3. QED
      BY <3>2 DEF q
  <2>3. plan[a].id # 0
    BY <1>1, <2>1, NoPlanIsComplete
  <2>4. PlanPhase(plan[a]) = "working"
    BY <2>1, <2>3 DEF PlanPhase
  <2>5. PlanPhase(plan'[a]) = IF StepsLeft(plan[a]) = 1 THEN "complete" ELSE "working"
    BY <2>2, <2>3 DEF PlanPhase
  <2>6. /\ Phase' = [Phase EXCEPT ![a] = IF Left[a] = 1 THEN "complete" ELSE "working"]
        /\ Left' = [Left EXCEPT ![a] = Left[a] - 1]
        /\ Reported' = [Reported EXCEPT ![a] = Reported[a]]
    BY <1>2, <1>4, <1>6, <2>1, <2>2, <2>5 DEF Advances
  <2>7. Phase[a] = "working"
    BY <1>2, <2>4
  <2>8. Lifecycle!WorkOff(a)
    BY <2>6, <2>7 DEF Lifecycle!WorkOff, Lifecycle!MoveOn, Phase, Left, Reported, StepsLeft
  <2>9. QED
    BY <2>8 DEF LifeStep
<1>7. CASE Abandons(a)
  <2>1. /\ plan' = [plan EXCEPT ![a] = plan'[a]] /\ plan'[a] = NoPlan
        /\ outcome' = [outcome EXCEPT ![a] = outcome'[a]]
        /\ outcome'[a] = [id |-> plan[a].id, success |-> FALSE, superseded |-> TRUE, skips |-> 0]
    BY <1>1, <1>7 DEF Abandons, Superseded
  <2>2. PlanPhase(plan[a]) = "working" /\ PlanPhase(NoPlan) = "none"
    BY <1>1, <1>7, PhaseOf, NoPlanIsPlan, NoPlanIsComplete DEF Abandons
  <2>3. StepsLeft(NoPlan) = 0
    BY DEF NoPlan, StepsLeft
  <2>4. Verdict(outcome'[a]) = "superseded"
    BY <1>7, <2>1 DEF Abandons, Verdict
  <2>5. /\ Phase' = [Phase EXCEPT ![a] = "none"]
        /\ Left' = [Left EXCEPT ![a] = 0]
        /\ Reported' = [Reported EXCEPT ![a] = "superseded"]
    BY <2>1, <2>2, <2>3, <2>4, MovesOnOne
  <2>6. Phase[a] = "working"
    BY <1>2, <2>2
  <2>7. Lifecycle!Abandon(a)
    BY <2>5, <2>6 DEF Lifecycle!Abandon, Lifecycle!MoveOn, Phase, Left, Reported, StepsLeft
  <2>8. QED
    BY <2>7 DEF LifeStep
<1>8. CASE Reports(a)
  <2>1. PICK k \in Nat :
          outcome' = [outcome EXCEPT ![a] =
            [id |-> plan[a].id, success |-> Complete(plan[a]), superseded |-> FALSE, skips |-> k]]
    BY <1>8 DEF Reports
  <2>2. /\ outcome' = [outcome EXCEPT ![a] = outcome'[a]]
        /\ outcome'[a].id = plan[a].id /\ ~outcome'[a].superseded
        /\ outcome'[a].success = Complete(plan[a])
    BY <1>1, <2>1
  <2>3. /\ plan' = [plan EXCEPT ![a] = plan'[a]]
        /\ \/ plan'[a] = plan[a]
           \/ Complete(plan[a]) /\ plan'[a] = NoPlan
    <3>1. CASE UNCHANGED plan
      <4>1. plan' = [plan EXCEPT ![a] = plan[a]]
        BY <1>1, <3>1
      <4>2. QED
        BY <3>1, <4>1
    <3>2. CASE Complete(plan[a]) /\ plan' = [plan EXCEPT ![a] = NoPlan]
      BY <1>1, <3>2
    <3>3. QED
      BY <1>8, <3>1, <3>2 DEF Reports
  <2>4. plan[a].id # 0
    BY <1>8 DEF Reports
  <2>5. CASE Complete(plan[a])
    <3>1. Verdict(outcome'[a]) = "success"
      BY <2>2, <2>4, <2>5 DEF Verdict
    <3>2. StepsLeft(plan[a]) = 0 /\ StepsLeft(NoPlan) = 0
      BY <1>1, <2>5, LeftOf DEF NoPlan, StepsLeft
    <3>3. PlanPhase(plan[a]) = "complete" /\ PlanPhase(NoPlan) = "none"
      BY <1>1, <2>4, <2>5, PhaseOf, NoPlanIsPlan, NoPlanIsComplete
    <3>4. PlanPhase(plan'[a]) \in {"none", "complete"} /\ StepsLeft(plan'[a]) = 0
      BY <2>3, <3>2, <3>3
    <3>5. /\ Phase' = [Phase EXCEPT ![a] = PlanPhase(plan'[a])]
          /\ Left' = [Left EXCEPT ![a] = 0]
          /\ Reported' = [Reported EXCEPT ![a] = "success"]
      BY <2>2, <2>3, <3>1, <3>4, MovesOnOne
    <3>6. Phase[a] = "complete"
      BY <1>2, <3>3
    <3>7. Lifecycle!Conclude(a)
      BY <3>4, <3>5, <3>6
        DEF Lifecycle!Conclude, Lifecycle!MoveOn, Phase, Left, Reported, StepsLeft
    <3>8. QED
      BY <3>7 DEF LifeStep
  <2>6. CASE ~Complete(plan[a])
    <3>1. Verdict(outcome'[a]) = "failure"
      BY <2>2, <2>4, <2>6 DEF Verdict
    <3>2. plan'[a] = plan[a] /\ PlanPhase(plan[a]) = "working"
      BY <1>1, <2>3, <2>4, <2>6, PhaseOf
    <3>3. /\ Phase' = [Phase EXCEPT ![a] = "working"]
          /\ Left' = [Left EXCEPT ![a] = Left[a]]
          /\ Reported' = [Reported EXCEPT ![a] = "failure"]
      BY <1>2, <2>2, <2>3, <3>1, <3>2, MovesOnOne
    <3>4. Phase[a] = "working"
      BY <1>2, <3>2
    <3>5. Lifecycle!Deviate(a)
      BY <3>3, <3>4
        DEF Lifecycle!Deviate, Lifecycle!MoveOn, Phase, Left, Reported, StepsLeft
    <3>6. QED
      BY <3>5 DEF LifeStep
  <2>7. QED
    BY <2>5, <2>6
<1>9. QED
  BY <1>3, <1>5, <1>6, <1>7, <1>8 DEF Fate

(* While nobody is spawned or despawned and handlers answer at once, four    *)
(* services and the orchestrator together let every plan live the life of    *)
(* PlanLifecycle: adopted only when there is none, worked off step by step,  *)
(* and reported as what it was.                                              *)
THEOREM LifecycleImplemented ==
  ASSUME MaxChurn = 0, HandlersSuspend = FALSE
  PROVE  Spec => ImplementsLifecycle
<1>1. Init => Lifecycle!LifecycleInit
  <2> SUFFICES ASSUME Init PROVE Lifecycle!LifecycleInit
    OBVIOUS
  <2>1. \A a \in Agents : plan[a] = NoPlan /\ outcome[a] = NoOutcome
    BY DEF Init
  <2>2. /\ PlanPhase(NoPlan) = "none" /\ Verdict(NoOutcome) = "none"
        /\ Len(NoPlan.steps) + 1 - NoPlan.pos = 0
    BY DEF PlanPhase, Verdict, NoPlan, NoOutcome
  <2>3. QED
    BY <2>1, <2>2 DEF Lifecycle!LifecycleInit
<1>2. IInv /\ LockInv /\ PlanInv /\ [Next]_vars => [LifeStep]_<<Phase, Left, Reported>>
  <2> SUFFICES ASSUME IInv, LockInv, PlanInv, [Next]_vars
               PROVE  LifeStep \/ UNCHANGED <<Phase, Left, Reported>>
    OBVIOUS
  <2>1. CASE \E a \in Agents : Fate(a)
    BY <2>1, FateIsLife DEF IInv
  <2>2. CASE UNCHANGED <<plan, outcome>>
    BY <2>2 DEF Phase, Left, Reported
  <2>3. QED
    BY <2>1, <2>2, NextLives
<1>3. IInv /\ LockInv /\ PlanInv /\ [Next]_vars =>
        [\E a \in Agents :
           Lifecycle!Adopt(a) \/ Lifecycle!WorkOff(a) \/ Lifecycle!Deviate(a)
             \/ Lifecycle!Abandon(a) \/ Lifecycle!Conclude(a)]_<<
           [a \in Agents |-> PlanPhase(plan[a])],
           [a \in Agents |-> Len(plan[a].steps) + 1 - plan[a].pos],
           [a \in Agents |-> Verdict(outcome[a])]>>
  BY <1>2 DEF LifeStep, Phase, Left, Reported, StepsLeft
<1>4. QED
  BY <1>1, <1>3, PlanInvariance, PTL
    DEF Spec, ImplementsLifecycle, Lifecycle!LifecycleSpec
=============================================================================
