---------------------------- MODULE MCSocialLife ----------------------------
(* Two agents for SocialLife: one has much to say in little room, the     *)
(* other is in an empty one.  And samples of situations and answers, on    *)
(* which TLC evaluates what SocialLife_proofs proves for all of them.      *)
EXTENDS SocialLife, LlmAnswers, TLC

MCName == [a \in Agents |-> IF a = "ann" THEN "Ann" ELSE "Sam"]
MCHome == [a \in Agents |-> "kitchen"]
MCSeed == [a \in Agents |-> 800]
MCDrives == [k \in Drives |-> IF k = "social" THEN 30 ELSE IF k = "energy" THEN 35
                                                 ELSE IF k = "hunger" THEN 5 ELSE 90]
MCChars == [b \in BlockIds |-> CASE b = "system-feedback" -> 40
                                 [] b \in {"social-messages", "known-areas"} -> 9
                                 [] OTHER -> 4]
Affordance(id, restores, progresses) == [id |-> id, restores |-> restores, progresses |-> progresses]
MCCircumstances ==
  [a \in Agents |->
    IF a = "ann"
    THEN {[affordances |-> <<Affordance("plant", "", "hunger"), Affordance("eat", "hunger", "")>>,
           lastPlan |-> TRUE, reflected |-> TRUE, feedback |-> FALSE, compounds |-> TRUE,
           areas |-> TRUE, doors |-> TRUE]}
    ELSE {[affordances |-> <<>>, lastPlan |-> FALSE, reflected |-> FALSE, feedback |-> TRUE,
           compounds |-> FALSE, areas |-> TRUE, doors |-> FALSE]}]
-----------------------------------------------------------------------------
Eat    == Affordance("eat", "hunger", "")
Sing   == Affordance("sing", "", "")
SampleSituations ==
  {[drives |-> [MCDrives EXCEPT !["hunger"] = h, !["comfort"] = 5], affordances |-> offers, areas |-> {"garden"}] :
     h \in {5, 50}, offers \in {<<>>, <<Sing>>, <<Sing, Eat>>, <<Sing, Affordance("observe", "", "")>>}}
SampleSteps ==
  [described : BOOLEAN, target : {"", Wait, "eat", "sing", "fly"}, area : {"", "garden", "attic"}]
SampleAnswers(n) ==
  [described : BOOLEAN, steps : {<<>>} \cup UNION {[1..m -> {t \in SampleSteps : m = 1 \/ t.described}] : m \in 1..n}]
Sample == SampleAnswers(1) \cup {[described |-> TRUE, steps |-> [i \in 1..(MaxSteps + 1) |-> OneStep("sing").steps[1]]]}

\* Whatever is within the schema and complete is accepted.
ASSUME SchemaSufficesOnSamples ==
  \A s \in SampleSituations : \A answer \in SampleAnswers(2) :
    InSchema(answer, s) /\ WellShaped(answer) /\ Complete(answer) => Acceptable(answer, s)

\* After enough failures a plan is stored, unless the answer is to do nothing.
ASSUME FloorHoldsOnSamples ==
  \A s \in SampleSituations : \A first, second \in Sample :
    Formed(first, second, FloorAfter - 1, s) = NoPlan =>
      \E answer \in {first, second} : Acceptable(answer, s) /\ Refused(answer, s)

\* Steps of a stored plan are carried out while the room is as it was offered.
ASSUME StoredStepsRunOnSamples ==
  \A s \in {t \in SampleSituations : Offered(t) # {}} : \A first, second \in Sample :
    LET plan == Formed(first, second, 0, s)
    IN  \A i \in DOMAIN plan.steps :
          Consulted(plan.steps[i]) =>
            Objection(plan.steps[i].target, plan.steps[i], [blocked |-> {}, eligible |-> Offered(s)]) = "none"

SampleEntries ==
  [content : Contents, importance : {0, 1, 10, 11}, type : {"", "action", "gossip"}]

\* What a reflection leaves in the store is fit for it.
ASSUME MemoriesFitOnSamples ==
  \A call \in [own : SampleEntries, nested : SampleEntries, whole : BOOLEAN],
     done \in [success : BOOLEAN, skipped : BOOLEAN] :
    (call.whole => call.nested.content # "missing") /\ ~Invalid(call) /\ MemoryOf(call, done) # Nothing =>
      MemoryOf(call, done).importance \in 1..10 /\ MemoryOf(call, done).type \in MemoryTypes

\* Overrides keep drives on their scale.
ASSUME OverridesBoundedOnSamples ==
  \A from \in {0, 40, 100} : \A by \in {-500, -50, 7, 51} : \A finite \in BOOLEAN :
    Overridden([energy |-> from], [energy |-> [finite |-> finite, amount |-> by]])["energy"]
      \in {n \in 0..100 : n - from \in (-MaxMagnitude)..MaxMagnitude}

\* The budget of scene mutations is kept, and only complete proposals use it.
ASSUME BudgetKeptOnSamples ==
  \A used \in 0..MaxProposals : \A op \in {"move_object", "spawn_agent", "explode"} :
  \A given \in SUBSET {"objectId", "toRoomId", "profile", "dormantAgentId"} :
    LET after == UsedAfter(used, op, given, TRUE)
    IN  /\ after =< MaxProposals
        /\ after # used => given # {} /\ op # "explode"
=============================================================================
