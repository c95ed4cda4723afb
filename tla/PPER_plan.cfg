SPECIFICATION FairSpec
CONSTANTS
  a1 = a1
  a2 = a2
  fetch = fetch
  chat = chat
  none = none
  NoText = none
  Texts <- TextsMC
  Agents <- OneAgent
  Population <- PopulationOfOne
  MaxConcurrent = 2
  Steps <- StepsAll
  TextOf <- TextOfAll
  OutcomesOf <- OutcomesOfAll
  Plans <- PlansAll
  FloorSteps = {"wait"}
  PlanAnswers <- AnyPlanAnswer
  ReflectAnswers <- AnyReflectAnswer
  MaxStepFailures = 2
  MaxFailures = 2
  FloorAfter = 2
  HandlersSuspend = FALSE
  Gated = FALSE
  FloorMayFail = TRUE
  PerceiveMayFail = TRUE
  MaxChurn = 0
  MaxPlanId = 8
INVARIANTS
  CooldownConsistent
  LockHolds
PROPERTIES
  OutcomesTrue
  PlanProgress
  ImplementsLifecycle
