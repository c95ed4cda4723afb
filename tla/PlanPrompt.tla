----------------------------- MODULE PlanPrompt -----------------------------
(***************************************************************************)
(* What the LLM is shown and offered when it is asked for a plan: blocks   *)
(* of text in a fixed order, cut to a budget tier by tier, and tools.      *)
(*                                                                         *)
(* A prompt is computed from what Perceive found: the agents present, what *)
(* the agent thinks of them, its drives, whether messages came in, and the *)
(* circumstances (reads): the affordances after pruning, in order, and     *)
(* whether there is a last plan, feedback, a compound action, an area.     *)
(***************************************************************************)
EXTENDS SocialUrge

CONSTANTS
  Chars,        \* length of each block
  MaxChars,     \* PLAN_PROMPT_MAX_CHARS
  SystemChars,  \* length of the system prompt
  ToolChars     \* length of the definition of a tool
-----------------------------------------------------------------------------
(* Drives and affordances.                                                 *)

DriveKeys == <<"energy", "hunger", "social", "comfort", "curiosity">>
Drives == {DriveKeys[i] : i \in DOMAIN DriveKeys}
HintableDrives == Drives \ {"social"}
Urgent == 40    \* DRIVE_URGENCY_THRESHOLD
Critical == 10  \* DRIVE_CRITICAL_THRESHOLD
MaxMentions == 3

First(positions) == CHOOSE i \in positions : \A j \in positions : i =< j

\* The first of the lowest drives.
Primary(drives) ==
  DriveKeys[First({i \in DOMAIN DriveKeys : \A k \in Drives : drives[DriveKeys[i]] =< drives[k]})]

\* Which affordances restore a drive, and which others progress it, up to a number of each.
FirstOf(positions) ==
  {i \in positions : Cardinality({j \in positions : j < i}) < MaxMentions}
Restoring(affordances, drive) ==
  FirstOf({i \in DOMAIN affordances : affordances[i].restores = drive})
Chain(affordances, drive) ==
  FirstOf({i \in DOMAIN affordances \ Restoring(affordances, drive) :
             affordances[i].progresses = drive})

\* What the hints of the plan prompt name: the first affordance of each kind.
Mentions(drives, affordances) ==
  LET urgent == {k \in HintableDrives : drives[k] < Urgent}
  IN  {Restoring(affordances, d) : d \in urgent} \cup {Chain(affordances, d) : d \in urgent}
Hinted(drives, affordances) ==
  {affordances[First(positions)].id : positions \in Mentions(drives, affordances) \ {{}}}

\* What the hints of the perception prompt name: all of them.
Suggested(drives, affordances) ==
  {affordances[i].id : i \in UNION Mentions(drives, affordances)}

\* A plan that only waits is refused if a critical drive could be restored at once.
WaitRefused(drives, affordances) ==
  \E d \in HintableDrives : /\ drives[d] < Critical
                            /\ \E i \in DOMAIN affordances : affordances[i].restores = d
-----------------------------------------------------------------------------
(* Whom and what the model may call.                                       *)

\* A plausible mistake: the enum still names those who have just reached the cap.
TalkEnumLoose(p) == {b \in p.present : Gap(Relation(p.rels, b)) =< TalkCap}

TalkEnum(p) == {b \in p.present : ~Capped(Relation(p.rels, b))}
TalkOffered(p) == TalkEnum(p) # {}
IsSocialPrimary(p) == p.present # {} /\ p.primary = "social"

TalkTool(p) == IF TalkOffered(p) THEN <<"talk_to">> ELSE <<>>
SocialTools(p) == IF p.present = {} THEN <<>> ELSE TalkTool(p) \o <<"observe_agent", "help", "ignore">>
CognitiveTools == <<"query_memory", "update_internal_state">>
AffordanceTools(affordances) == [i \in DOMAIN affordances |-> affordances[i].id]
PlanTools(p) ==
  LET others == CognitiveTools \o AffordanceTools(p.reads.affordances)
  IN  IF IsSocialPrimary(p) THEN SocialTools(p) \o others \o <<"formulate_plan">>
      ELSE SocialTools(p) \o <<"formulate_plan">> \o others
-----------------------------------------------------------------------------
(* Blocks of the plan prompt.                                              *)

Order ==
  <<"room", "objects", "agents-present", "relationships", "compound-actions",
    "object-dependencies", "separator", "primary-drive", "drives", "last-plan",
    "last-plan-reflection", "social-messages", "social-primary-hint", "social-directive",
    "drive-hints", "known-areas", "known-areas-directive", "unexplored-areas", "horizon",
    "system-feedback", "stuck-warning">>
BlockIds == {Order[i] : i \in DOMAIN Order}

ASSUME PlanPromptAssumption ==
  /\ Chars \in [BlockIds -> Nat]
  /\ MaxChars \in Nat /\ SystemChars \in Nat /\ ToolChars \in Nat

Position == [b \in BlockIds |-> CHOOSE i \in DOMAIN Order : Order[i] = b]

Required == {"room", "objects", "separator", "primary-drive", "drives", "social-primary-hint",
             "social-directive", "drive-hints", "system-feedback", "stuck-warning"}
\* Of the optional blocks; the highest tier goes first.
Tier == [b \in BlockIds |->
           CASE b = "horizon" -> 5
             [] b \in {"social-messages", "relationships", "compound-actions", "object-dependencies"} -> 4
             [] b \in {"last-plan", "last-plan-reflection"} -> 3
             [] b \in {"known-areas", "known-areas-directive", "unexplored-areas", "agents-present"} -> 2
             [] OTHER -> 0]

Only(b, condition) == IF condition THEN b ELSE {}
Blocks(p) ==
  {"room", "objects", "separator", "primary-drive", "drives", "horizon"}
  \cup Only({"agents-present", "social-directive"}, p.present # {})
  \cup Only({"relationships"}, p.present \cap DOMAIN p.rels # {})
  \cup Only({"compound-actions", "object-dependencies"}, p.reads.compounds)
  \cup Only({"last-plan"}, p.reads.lastPlan)
  \cup Only({"last-plan-reflection"}, p.reads.lastPlan /\ p.reads.reflected)
  \cup Only({"social-messages"}, p.heard)
  \cup Only({"social-primary-hint"}, IsSocialPrimary(p))
  \cup Only({"drive-hints"}, Hinted(p.drives, p.reads.affordances) # {})
  \cup Only({"known-areas", "known-areas-directive"}, p.reads.areas)
  \cup Only({"unexplored-areas"}, p.reads.doors)
  \cup Only({"system-feedback"}, p.reads.feedback)
  \cup Only({"stuck-warning"}, p.reads.affordances = <<>>)

\* What to plan after a failure: the same words whatever failed and wherever.
Advice == {"harvest", "eat"}

\* A plausible mistake: the directive is the same in every cycle.
NamesTalkAlways(p, b) ==
  CASE b = "agents-present" -> {"observe_agent", "help", "ignore"}
    [] b \in {"social-primary-hint", "social-directive"} -> {"observe_agent", "help", "talk_to"}
    [] b = "drive-hints" -> Hinted(p.drives, p.reads.affordances)
    [] b = "system-feedback" -> Advice
    [] OTHER -> {}

\* The tools and affordances the text of a block tells the model to use.
Names(p, b) ==
  CASE b = "agents-present" -> {"observe_agent", "help", "ignore"}
    [] b = "social-primary-hint" -> {"observe_agent", "help"} \cup Only({"talk_to"}, TalkOffered(p))
    [] b = "social-directive" ->
         {"observe_agent", "help", "formulate_plan"} \cup Only({"talk_to"}, TalkOffered(p))
    [] b = "drive-hints" -> Hinted(p.drives, p.reads.affordances)
    [] b = "system-feedback" -> Advice
    [] OTHER -> {}
-----------------------------------------------------------------------------
(* The budget.                                                             *)

\* Blocks are joined by line breaks.
JoinedLength(blocks) ==
  LET upTo[i \in 0..Len(Order)] ==
        IF i = 0 THEN 0
        ELSE upTo[i - 1] + (IF Order[i] \in blocks THEN Chars[Order[i]] + 1 ELSE 0)
  IN  IF blocks = {} THEN 0 ELSE upTo[Len(Order)] - 1

Headroom(p) == Within(0, MaxChars - SystemChars - ToolChars * Len(PlanTools(p)), MaxChars)

\* A plausible mistake: within a tier the first blocks go first.
GoesFirst(b, c) == Tier[b] > Tier[c] \/ (Tier[b] = Tier[c] /\ Position[b] < Position[c])

GoesBefore(b, c) == Tier[b] > Tier[c] \/ (Tier[b] = Tier[c] /\ Position[b] > Position[c])

\* A block goes if what is left once all before it have gone is still too long.
DroppedBlocks(blocks, ceiling) ==
  LET optional == blocks \ Required
  IN  {b \in optional : JoinedLength(blocks \ {c \in optional : GoesBefore(c, b)}) > ceiling}
Kept(p) == Blocks(p) \ DroppedBlocks(Blocks(p), Headroom(p))

\* If even the required blocks are too long, the last of them is cut.
Truncated(p) == JoinedLength(Kept(p)) > Headroom(p)
-----------------------------------------------------------------------------
(* The prompt of the perception builder, which hides affordances from an   *)
(* agent without a plan and weighs whom it feels like talking to.          *)

UrgeOf(p, b) == Urge(p.seed, p.drives["social"], p.age, Relation(p.rels, b))
FeelsLikeTalking(p) ==
  {b \in p.present : UrgeOf(p, b) >= Surface /\ ~Capped(Relation(p.rels, b))}
Decayed(p, b) ==
  LET r == Relation(p.rels, b) IN Counted(r.sent) > 0 /\ ReciprocityFactor(r) < Decay
RarelyAnswers(p) == {b \in p.present \ FeelsLikeTalking(p) : Decayed(p, b)}
NoSocialOutlet(p) == p.present # {} /\ \A b \in p.present : Decayed(p, b)

DefaultCognitiveTools ==
  <<"formulate_plan", "query_memory", "update_internal_state", "update_self_model", "talk_to",
    "observe_agent", "help", "ignore", "modify_scene">>
MoveTalkToFirst(tools) ==
  LET found == {i \in DOMAIN tools : tools[i] = "talk_to"}
  IN  IF found = {} THEN tools
      ELSE <<"talk_to">> \o SubSeq(tools, 1, First(found) - 1)
             \o SubSeq(tools, First(found) + 1, Len(tools))
Without(tool, tools) ==
  LET upTo[i \in 0..Len(tools)] ==
        IF i = 0 THEN <<>>
        ELSE IF tools[i] = tool THEN upTo[i - 1] ELSE Append(upTo[i - 1], tools[i])
  IN  upTo[Len(tools)]
\* What the builder is told: whether the agent has a plan, what the guardrails
\* are set to, and whether Perceive had masked the affordances it hands over.
Options == [hasPlan : BOOLEAN, masking : BOOLEAN, forcing : BOOLEAN, masked : BOOLEAN]
HandedOver(p, o) == IF o.masked THEN <<>> ELSE p.reads.affordances
PerceptionTools(p, o) ==
  LET own == IF ~o.hasPlan /\ o.masking THEN DefaultCognitiveTools
             ELSE CognitiveTools \o AffordanceTools(HandedOver(p, o))
      tools == SocialTools(p) \o own
      ranked == IF FeelsLikeTalking(p) # {} /\ ~NoSocialOutlet(p) THEN MoveTalkToFirst(tools) ELSE tools
  IN  IF o.hasPlan THEN Without("formulate_plan", ranked) ELSE ranked

\* The directive to plan first is in the system prompt; the hints come from
\* what was handed over, not from what is left of it among the tools.
PerceptionNames(p, o) ==
  Only({"observe_agent", "help", "ignore"}, p.present # {})
  \cup Only({"talk_to"}, p.present # {} /\ ~NoSocialOutlet(p) /\ TalkOffered(p))
  \cup Only({"talk_to"}, FeelsLikeTalking(p) # {})
  \cup Suggested(p.drives, HandedOver(p, o))
  \cup Only({"formulate_plan"}, ~o.hasPlan /\ o.forcing)
=============================================================================
