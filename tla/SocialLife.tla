----------------------------- MODULE SocialLife -----------------------------
(***************************************************************************)
(* What the agents of evol-hive do to each other through the social tools: *)
(* messages, relationships with their reciprocity counters, help.  A cycle *)
(* looks around, waits for the classifier, weighs what it knows into a     *)
(* prompt, waits for the LLM, and carries out the calls the LLM makes, to  *)
(* whom it likes, one after the other, with awaits in between.             *)
(*                                                                         *)
(* The rest of a cycle is in PPERCycles, conversations in Conversations.   *)
(* One cycle of an agent at a time; it may outlive its agent.              *)
(***************************************************************************)
EXTENDS PlanPrompt

CONSTANTS
  Agents,
  DisplayName,    \* of the profile; two agents may have the same
  Rooms,
  Home,
  Talkativeness,  \* seed of the persona, in thousandths
  StartDrives,
  Circumstances,  \* what else Perceive of an agent may find
  Ages,           \* ticks since the agent's spawn
  MaxCalls,       \* bound on the tool calls
  MaxChurn        \* bound on walks and despawns

ASSUME SocialLifeAssumption ==
  /\ IsFiniteSet(Agents)
  /\ Home \in [Agents -> Rooms]
  /\ StartDrives \in [Drives -> 0..100]
  /\ \A a \in Agents : \A c \in Circumstances[a] :
       /\ c.affordances \in Seq([id : STRING, restores : STRING, progresses : STRING])
       /\ \A i \in DOMAIN c.affordances : \A k \in DOMAIN DefaultCognitiveTools :
            c.affordances[i].id # DefaultCognitiveTools[k]
  /\ MaxCalls \in Nat /\ MaxChurn \in Nat

VARIABLES
  active,  \* agents with a state
  room,    \* location of an agent
  rel,     \* relationships of an agent; of a dormant one, those in the store
  drives,
  queue,   \* messages that wait for an agent, by sender
  cycle,
  calls,   \* tool calls so far
  churn,   \* walks and despawns so far
  taken,   \* messages an agent has taken out of its queue, by sender
  fresh    \* agents that were ever spawned anew, their relationships forgotten

vars == <<active, room, rel, drives, queue, cycle, calls, churn, taken, fresh>>

Nobody == [b \in {} |-> Strangers]
None == [b \in Agents |-> 0]
Resting == [pc |-> "idle"]

Init ==
  /\ active = Agents
  /\ room = Home
  /\ rel = [a \in Agents |-> Nobody]
  /\ drives = [a \in Agents |-> StartDrives]
  /\ queue = [a \in Agents |-> None]
  /\ cycle = [a \in Agents |-> Resting]
  /\ calls = 0
  /\ churn = 0
  /\ taken = [a \in Agents |-> None]
  /\ fresh = {}
-----------------------------------------------------------------------------
(* The social manager.                                                     *)

AgentsInRoom(a) == {b \in active \ {a} : room[b] = room[a]}

\* A plausible mistake: counters that are not named start again.
MergedAnew(r, d) ==
  [trust |-> Within(0, r.trust + d.trust, 100),
   familiarity |-> Within(0, r.familiarity + d.familiarity, 100),
   sent |-> IF d.sent = 0 THEN Untracked ELSE Counted(r.sent) + d.sent,
   received |-> IF d.received = 0 THEN Untracked ELSE Counted(r.received) + d.received]

Merged(r, d) ==
  [trust |-> Within(0, r.trust + d.trust, 100),
   familiarity |-> Within(0, r.familiarity + d.familiarity, 100),
   sent |-> IF d.sent = 0 THEN r.sent ELSE Counted(r.sent) + d.sent,
   received |-> IF d.received = 0 THEN r.received ELSE Counted(r.received) + d.received]

\* Nothing is written for an agent without a state.
Updated(rels, a, b, d) ==
  IF a \notin active THEN rels
  ELSE [rels EXCEPT ![a] = [c \in DOMAIN @ \cup {b} |-> IF c = b THEN Merged(Relation(@, b), d)
                                                                ELSE @[c]]]
Delta(familiarity, trust) == [familiarity |-> familiarity, trust |-> trust, sent |-> 0, received |-> 0]

Gained(ds, a, k, n) ==
  IF a \notin active THEN ds ELSE [ds EXCEPT ![a][k] = Within(0, @ + n, 100)]

\* An active agent's id is itself; a name is one agent's here, or else one agent's elsewhere.
Resolve(a, target) ==
  IF target \in active THEN {target}
  ELSE LET called == {b \in active : DisplayName[b] = target}
           near == {b \in called : a \in active /\ room[b] = room[a]}
           best == IF near # {} THEN near ELSE called
       IN  IF Cardinality(best) = 1 THEN best ELSE {}

EnumerateTalkTargets(a) ==
  IF a \notin active THEN {} ELSE {b \in AgentsInRoom(a) : ~Capped(Relation(rel[a], b))}
-----------------------------------------------------------------------------
(* The cycle.                                                              *)

\* Before the await: the messages are out of the queue.
Look(a) ==
  /\ a \in active
  /\ cycle[a].pc = "idle"
  /\ cycle' = [cycle EXCEPT ![a] =
                 [pc |-> "looked", present |-> AgentsInRoom(a), drives |-> drives[a],
                  primary |-> Primary(drives[a]), heard |-> queue[a] # None]]
  /\ taken' = [taken EXCEPT ![a] = [b \in Agents |-> @[b] + queue[a][b]]]
  /\ queue' = [queue EXCEPT ![a] = None]
  /\ UNCHANGED <<active, room, rel, drives, calls, churn, fresh>>

\* After it: what the agent thinks of those who were there.
Weigh(a) ==
  /\ cycle[a].pc = "looked"
  /\ \E c \in Circumstances[a], age \in Ages :
       cycle' = [cycle EXCEPT ![a] =
         [pc |-> "asking", talked |-> {},
          prompt |-> [present |-> @.present, drives |-> @.drives, primary |-> @.primary,
                      heard |-> @.heard, seed |-> Talkativeness[a], age |-> age, reads |-> c,
                      awake |-> a \in active, rels |-> IF a \in active THEN rel[a] ELSE Nobody]]]
  /\ UNCHANGED <<active, room, rel, drives, queue, calls, churn, taken, fresh>>

\* The classifier or the LLM fails, or the plan is made: the tools are done.
Ends(a) ==
  /\ cycle[a].pc \in {"looked", "asking"}
  /\ cycle' = [cycle EXCEPT ![a] = Resting]
  /\ UNCHANGED <<active, room, rel, drives, queue, calls, churn, taken, fresh>>
-----------------------------------------------------------------------------
(* Tool calls.  A target nobody can be found for, or who may not be talked *)
(* to, is answered with an error and nothing is written.                   *)

Targets == Agents \cup {DisplayName[b] : b \in Agents}
Calls(a) ==
  /\ cycle[a].pc = "asking"
  /\ calls < MaxCalls
  /\ calls' = calls + 1
  /\ UNCHANGED <<active, room, churn, taken, fresh>>

MonologueReward == 2
ExchangeBonus == 8

\* What is said, and to whom the exchange bonus goes, is decided in Conversations.
TalkTo(a) ==
  /\ Calls(a)
  /\ \E target \in Targets : \E b \in Resolve(a, target) \cap EnumerateTalkTargets(a) :
       \E said \in {Delta(5, 2), Delta(1, 0)}, paid \in {{}, {b}} :
         /\ queue' = [queue EXCEPT ![b][a] = @ + 1]
         /\ rel' = Updated(Updated(rel, a, b, [said EXCEPT !.sent = 1]), b, a, [said EXCEPT !.received = 1])
         /\ drives' = Gained(IF paid = {} THEN drives ELSE Gained(drives, b, "social", ExchangeBonus),
                             a, "social", MonologueReward)
         /\ cycle' = [cycle EXCEPT ![a].talked = @ \cup {b}]

ObserveAgent(a) ==
  /\ Calls(a)
  /\ \E target \in Targets : \E b \in Resolve(a, target) : rel' = Updated(rel, a, b, Delta(1, 0))
  /\ UNCHANGED <<drives, queue, cycle>>

\* The boost goes to the target as it was named: a display name is nobody's id.
Help(a) ==
  /\ Calls(a)
  /\ \E target \in Targets : \E b \in Resolve(a, target) :
       /\ rel' = Updated(Updated(rel, a, b, Delta(10, 5)), b, a, Delta(10, 5))
       /\ LET helped == Gained(drives, a, "social", 15)
          IN  drives' = IF target \in Agents THEN Gained(helped, target, Primary(helped[b]), 10) ELSE helped
  /\ UNCHANGED <<queue, cycle>>

Ignore(a) ==
  /\ Calls(a)
  /\ \E target \in Targets : \E b \in Resolve(a, target) : rel' = Updated(rel, a, b, Delta(-2, -1))
  /\ drives' = Gained(drives, a, "social", -5)
  /\ UNCHANGED <<queue, cycle>>
-----------------------------------------------------------------------------
(* Meanwhile.                                                              *)

Churns == churn < MaxChurn /\ churn' = churn + 1

Walk(a) ==
  /\ Churns
  /\ a \in active
  /\ \E r \in Rooms : r # room[a] /\ room' = [room EXCEPT ![a] = r]
  /\ UNCHANGED <<active, rel, drives, queue, cycle, calls, taken, fresh>>

\* The queue of the agent stays.
Despawn(a) ==
  /\ Churns
  /\ a \in active
  /\ active' = active \ {a}
  /\ UNCHANGED <<room, rel, drives, queue, cycle, calls, taken, fresh>>

Wake(a) ==
  /\ a \notin active
  /\ active' = active \cup {a}
  /\ \E r \in Rooms : room' = [room EXCEPT ![a] = r]
  /\ UNCHANGED <<rel, drives, queue, cycle, calls, churn, taken, fresh>>

SpawnFresh(a) ==
  /\ a \notin active
  /\ active' = active \cup {a}
  /\ room' = [room EXCEPT ![a] = Home[a]]
  /\ rel' = [rel EXCEPT ![a] = Nobody]
  /\ drives' = [drives EXCEPT ![a] = StartDrives]
  /\ fresh' = fresh \cup {a}
  /\ UNCHANGED <<queue, cycle, calls, churn, taken>>
-----------------------------------------------------------------------------
Next ==
  \E a \in Agents :
    \/ Look(a) \/ Weigh(a) \/ Ends(a)
    \/ TalkTo(a) \/ ObserveAgent(a) \/ Help(a) \/ Ignore(a)
    \/ Walk(a) \/ Despawn(a) \/ Wake(a) \/ SpawnFresh(a)

Spec == Init /\ [][Next]_vars
-----------------------------------------------------------------------------
(* Properties.                                                             *)

Sent(a, b) == Counted(Relation(rel[a], b).sent)
Received(a, b) == Counted(Relation(rel[a], b).received)
NewPrompts == {cycle'[a].prompt : a \in {b \in Agents : cycle[b].pc = "looked" /\ cycle'[b].pc = "asking"}}

\* Two agents keep the same account of their exchange, through sleep and
\* whatever else they do to each other: what one has sent is what the other
\* has received, and is in the other's queue or was taken out of it.  Nobody
\* is ever more than SOCIAL_TALK_CAP messages ahead, however many calls one
\* answer of the LLM contains.
\* (packages/engine/src/social/social-manager.ts:126-167,256-269)
LedgerAgrees ==
  /\ \A a, b \in Agents : (a # b /\ {a, b} \cap fresh = {}) =>
       /\ Sent(a, b) = Received(b, a)
       /\ Received(b, a) = queue[b][a] + taken[b][a]
  /\ \A a, b \in Agents : Sent(a, b) =< Received(a, b) + TalkCap

\* Whom the prompt offers as a target of talk_to can be talked to when the
\* call is made, as long as that agent is still in the room and was not
\* talked to meanwhile: what Perceive read on two sides of an await and what
\* the engine reads at the call lead to the same answer.  An agent that was
\* despawned when it weighed took everyone for a stranger.
\* (packages/cognition/src/pper/talk-enum.ts:50-66)
OfferStands ==
  \A a \in active : (cycle[a].pc = "asking" /\ cycle[a].prompt.awake) =>
    TalkEnum(cycle[a].prompt) \cap (AgentsInRoom(a) \ cycle[a].talked) \subseteq EnumerateTalkTargets(a)

\* Every tool and affordance that a text of a prompt tells the model to use
\* is among its tools, whatever was dropped or hidden, and whom it says the
\* agent feels like talking to is a target it offers.  Three texts are put
\* together without a look at the tools, and miss exactly this: the advice
\* after a failure, what is not to be done here; to an agent without a plan,
\* the hints of the perception prompt, all of them if affordances are hidden,
\* and its directive to plan first, formulate_plan if they are not.
\* (packages/cognition/src/pper/plan-builder.ts:230-340,
\* packages/cognition/src/pper/perception-builder.ts:195-375)
NamesOffered ==
  [][\A p \in NewPrompts :
    LET Listed(tools) == {tools[i] : i \in DOMAIN tools}
    IN  /\ \A b \in Kept(p) :
             Names(p, b) \ Listed(PlanTools(p)) =
               Only(Advice \ Listed(AffordanceTools(p.reads.affordances)), b = "system-feedback")
        /\ \A o \in Options :
             PerceptionNames(p, o) \ Listed(PerceptionTools(p, o)) =
               Only(IF o.masking THEN Suggested(p.drives, HandedOver(p, o))
                    ELSE Only({"formulate_plan"}, o.forcing), ~o.hasPlan)
        /\ FeelsLikeTalking(p) \subseteq TalkEnum(p)]_vars

\* A prompt that is cut to its budget still makes sense: what must be in it
\* is, it fits unless only that is left, no text refers to one that was
\* dropped, and a wait that would be refused is warned of.
\* (packages/cognition/src/pper/plan-context-budget.ts:147-244)
NothingDangles ==
  [][\A p \in NewPrompts :
    LET kept == Kept(p)
    IN  /\ Blocks(p) \cap Required \subseteq kept
        /\ Truncated(p) => kept \subseteq Required
        /\ "known-areas-directive" \in kept => "known-areas" \in kept
        /\ "last-plan-reflection" \in kept => "last-plan" \in kept
        /\ WaitRefused(p.drives, p.reads.affordances) => "drive-hints" \in kept]_vars
=============================================================================
