----------------------------- MODULE LlmAnswers -----------------------------
(***************************************************************************)
(* What is asked of the LLM and what is made of its answers, whatever they *)
(* are: which plans it is asked for, which are stored, what is stored when *)
(* it keeps failing, which steps the guardrail lets pass; and which        *)
(* drives, memories and scene mutations come of the rest.                  *)
(*                                                                         *)
(* A text is empty or not: described says that it is not, "" stands for an *)
(* identifier that is empty or missing.  The guardrail engine is wired, as *)
(* it is by default.                                                       *)
(***************************************************************************)
EXTENDS PlanPrompt

CONSTANTS
  Areas,         \* rooms and anchors
  Movements,     \* affordances that lead through a doorway (go_to_...)
  MaxSteps,      \* PLAN_MAX_STEPS
  FloorAfter,    \* PLAN_FLOOR_AFTER_FAILURES
  MaxProposals   \* maxSceneMutationsPerCycle

ASSUME AnswerAssumption ==
  /\ "" \notin Areas
  /\ MaxSteps \in Nat \ {0} /\ FloorAfter \in Nat /\ MaxProposals \in Nat
-----------------------------------------------------------------------------
(* Plans.  A situation is what one request for a plan is made from: the    *)
(* drives, the affordances after pruning, the known areas.  No affordance  *)
(* has the name of the pause.                                              *)

Wait == "wait"

Affordances == [id : STRING \ {"", Wait}, restores : STRING, progresses : STRING]
Situations ==
  [drives : [Drives -> Int], areas : SUBSET Areas,
   affordances : Seq(Affordances)]

Steps == [described : BOOLEAN, target : STRING, area : Areas \cup {""}]
PlanAnswers == [described : BOOLEAN, steps : Seq(Steps)]
NoPlan == [described |-> FALSE, steps |-> <<>>]

Offered(s) == {s.affordances[i].id : i \in DOMAIN s.affordances}
TargetEnum(s) == Offered(s) \cup {Wait}

\* What the tool's schema allows: neither the target nor the area is required.
InSchema(answer, s) ==
  /\ Len(answer.steps) =< MaxSteps
  /\ \A i \in DOMAIN answer.steps : /\ answer.steps[i].target \in TargetEnum(s) \cup {""}
                                    /\ answer.steps[i].area \in s.areas \cup {""}

WellShaped(answer) ==
  /\ answer.described
  /\ answer.steps # <<>>
  /\ \A i \in DOMAIN answer.steps : answer.steps[i].described

\* A step goes to an area the agent knows, or stays and uses what is listed.
Bound(step, s) == step.area \in s.areas \/ (step.area = "" /\ step.target \in TargetEnum(s))

\* With nothing to offer nothing is checked.
AllBound(answer, s) ==
  Offered(s) = {} \/ \A i \in DOMAIN answer.steps : Bound(answer.steps[i], s)

Acceptable(answer, s) == WellShaped(answer) /\ Len(answer.steps) =< MaxSteps /\ AllBound(answer, s)
Retryable(answer, s) == WellShaped(answer) /\ ~Acceptable(answer, s)

OnlyWaits(answer) ==
  answer.steps # <<>> /\ \A i \in DOMAIN answer.steps : answer.steps[i].target = Wait /\ answer.steps[i].area = ""
Refused(answer, s) == OnlyWaits(answer) /\ WaitRefused(s.drives, s.affordances)

\* The floor plan: observe, or else the first remedy of the first critical
\* drive, or else wait.
Remedies(s, drive) == {i \in DOMAIN s.affordances : s.affordances[i].restores = drive}
Starving(s) ==
  {i \in DOMAIN DriveKeys : /\ DriveKeys[i] \in HintableDrives
                            /\ s.drives[DriveKeys[i]] < Critical
                            /\ Remedies(s, DriveKeys[i]) # {}}
OneStep(target) ==
  [described |-> TRUE, steps |-> <<[described |-> TRUE, target |-> target, area |-> ""]>>]
FloorTarget(s) ==
  IF "observe" \in Offered(s) THEN "observe"
  ELSE IF Starving(s) # {} THEN s.affordances[First(Remedies(s, DriveKeys[First(Starving(s))]))].id
  ELSE IF ~Refused(OneStep(Wait), s) THEN Wait
  ELSE ""
FloorPlan(s) ==
  LET plan == OneStep(FloorTarget(s))
  IN  IF FloorTarget(s) = "" \/ ~Acceptable(plan, s) \/ Refused(plan, s) THEN NoPlan ELSE plan

\* What plan() stores, given the model's answer, its answer to the one
\* correction, and how many formations have failed before in a row.
Formed(first, second, failures, s) ==
  LET answer == IF Retryable(first, s) THEN second ELSE first
  IN  IF Acceptable(answer, s) THEN (IF Refused(answer, s) THEN NoPlan ELSE answer)
      ELSE IF FloorAfter > 0 /\ failures + 1 >= FloorAfter THEN FloorPlan(s)
      ELSE NoPlan

\* An answer that leaves no step without a target or an area.
Complete(answer) ==
  \A i \in DOMAIN answer.steps : answer.steps[i].target # "" \/ answer.steps[i].area # ""
-----------------------------------------------------------------------------
(* Guardrails.  here: which doors block the way, what the agent may do in  *)
(* its room now.                                                           *)

AlwaysValid ==
  {"formulate_plan", "query_memory", "update_internal_state", "update_self_model", "talk_to",
   "observe_agent", "help", "ignore", "modify_scene"}

Objection(action, step, here) ==
  IF action \in AlwaysValid THEN "none"
  ELSE IF action \in here.blocked THEN "movement-blocked"
  ELSE IF action \notin Movements \cup here.eligible THEN "stale-target"
  ELSE IF step.target = action THEN "none"
  ELSE "deviation"

\* Steps that are carried out where their agent is, after asking the guardrail.
Consulted(step) == step.area = "" /\ step.target \notin {"", Wait}
-----------------------------------------------------------------------------
(* Reflections.  A content is missing, empty, blank or a text.             *)

MemoryTypes == {"observation", "reflection", "action", "interaction"}
Contents == {"missing", "empty", "blank", "text"}
Entries == [content : Contents, importance : Int, type : STRING]
Nothing == [content |-> "missing", importance |-> 0, type |-> ""]

\* The arguments of the reflect tool: memoryContent with its companions, and
\* a nested entry; whole says that its fields are all there.
ReflectCalls == {call \in [own : Entries, nested : Entries, whole : BOOLEAN] :
                   call.whole => call.nested.content # "missing"}

OrElse(condition, value, default) == IF condition THEN value ELSE default
Importance(n, default) == OrElse(n \in 1..10, n, default)
TypeOf(t, default) == OrElse(t \in MemoryTypes, t, default)

\* completeReflect: what is missing or out of range gets a default, a nested
\* entry stands in for a missing content; if it is whole it is also handed on
\* as it is.
Completed(call) ==
  LET own == [content |-> call.own.content, importance |-> Importance(call.own.importance, 5),
              type |-> TypeOf(call.own.type, "observation")]
      nested == [content |-> call.nested.content,
                 importance |-> Importance(call.nested.importance, own.importance),
                 type |-> TypeOf(call.nested.type, own.type)]
  IN  IF call.own.content # "missing" THEN own ELSE nested

\* A mistake in the nested entry fails the reflection, whatever else it says.
Invalid(call) ==
  call.whole /\ \/ call.nested.content = "empty"
                \/ call.nested.importance \notin 1..10
                \/ call.nested.type \notin MemoryTypes

Fallback(done) ==
  [content |-> "text", importance |-> 3, type |-> IF done.success THEN "action" ELSE "observation"]

\* The model's memory, nothing after an intentional pause, or a memory made
\* up from the outcome.
MemoryOf(call, done) ==
  IF Completed(call).content = "text" THEN Completed(call)
  ELSE IF call.whole THEN call.nested
  ELSE IF done.skipped THEN Nothing
  ELSE Fallback(done)
-----------------------------------------------------------------------------
(* Drives.  An override is a number or is not; what is not is dropped.     *)

MaxMagnitude == 50
Overrides(keys) == [keys -> [finite : BOOLEAN, amount : Int]]
Usable(overrides) == {k \in DOMAIN overrides : overrides[k].finite}
Sanitized(overrides) ==
  [k \in Usable(overrides) |-> Within(-MaxMagnitude, overrides[k].amount, MaxMagnitude)]
Overridden(drives, overrides) ==
  [k \in DOMAIN drives |->
     IF k \in Usable(overrides) THEN Within(0, drives[k] + Sanitized(overrides)[k], 100) ELSE drives[k]]

\* Reflect refuses the answer as a whole, or applies the overrides and then
\* stores a memory, which the store may reject.
Reflected(drives, call, overrides, done, stores) ==
  IF Invalid(call) THEN [drives |-> drives, memory |-> Nothing]
  ELSE [drives |-> Overridden(drives, overrides),
        memory |-> IF stores THEN MemoryOf(call, done) ELSE Nothing]

\* update_internal_state: a goal and overrides, each of which may be missing
\* or fail; what it tells the model of it.
Report(goal, overrides, fails) ==
  LET wanted  == OrElse(goal, {"goal"}, {}) \cup OrElse(Usable(overrides) # {}, {"drives"}, {})
      updated == wanted \ fails
  IN  [updated |-> updated, success |-> wanted \cap fails = {} \/ updated # {}]
-----------------------------------------------------------------------------
(* modify_scene: the arguments each operation needs, any of the sets will  *)
(* do; a proposal counts against the budget if it is taken.                *)

Needs(op) ==
  CASE op = "add_object"    -> {{"object"}}
    [] op = "remove_object" -> {{"objectId"}}
    [] op = "move_object"   -> {{"objectId", "toRoomId"}}
    [] op = "spawn_agent"   -> {{"dormantAgentId"}, {"profile"}}
    [] op = "despawn_agent" -> {{"agentId"}}
    [] op = "set_connection_state" -> {{"roomA", "roomB", "action"}}
    [] OTHER -> {}

Proposed(used, op, given, accepted) ==
  used < MaxProposals /\ (\E needed \in Needs(op) : needed \subseteq given) /\ accepted
UsedAfter(used, op, given, accepted) == IF Proposed(used, op, given, accepted) THEN used + 1 ELSE used
=============================================================================
