SPECIFICATION Spec
CONSTANTS
  a1 = a1
  a2 = a2
  fetch = fetch
  chat = chat
  none = none
  NoText = none
  Texts <- TextsMC
  Agents <- TwoAgents
  Population <- PopulationOfTwo
  MaxConcurrent = 2
  Steps <- StepsFew
  TextOf <- TextOfFew
  OutcomesOf <- OutcomesOfFew
  Plans <- PlansWait
  FloorSteps = {"wait"}
  PlanAnswers <- SomePlanAnswer
  ReflectAnswers <- BriefReflect
  MaxStepFailures = 2
  MaxFailures = 1
  FloorAfter = 2
  HandlersSuspend = FALSE
  Gated = TRUE
  FloorMayFail = TRUE
  PerceiveMayFail = TRUE
  MaxChurn = 2
  MaxPlanId = 8
INVARIANTS
  ActiveCyclesExact
  ThinkingHasOwner
PROPERTIES
  ImplementsPool
