SPECIFICATION FairSpec
CONSTANTS
  a1 = a1
  a2 = a2
  fetch = fetch
  chat = chat
  none = none
  NoText = none
  Texts <- TextsMC
  Agents <- TwoAgents
  Population <- PopulationOfTwo
  MaxConcurrent = 1
  Steps <- StepsFailing
  TextOf <- TextOfFailing
  OutcomesOf <- OutcomesOfFailing
  Plans <- PlansFailing
  FloorSteps = {"use"}
  PlanAnswers <- NeverAPlan
  ReflectAnswers <- PlainReflect
  MaxStepFailures = 2
  MaxFailures = 2
  FloorAfter = 2
  HandlersSuspend = FALSE
  Gated = FALSE
  FloorMayFail = FALSE
  PerceiveMayFail = FALSE
  MaxChurn = 0
  MaxPlanId = 8
PROPERTIES
  NoStarvation
  FloorEngages
