---------------------------- MODULE Conversations ----------------------------
(***************************************************************************)
(* Conversations of evol-hive: the conversation manager with its idle and  *)
(* co-location sweep, the talk tool with its reciprocity counters and the  *)
(* cap on unanswered talk, the mirrors of conversations in the smart-      *)
(* object registry, the notes they leave in the memory store, and what a   *)
(* save, a restart and the dormancy of agents make of all that.            *)
(*                                                                         *)
(* A tool call, a handler of an affordance and a sweep run without giving  *)
(* up the thread.  Two things do not: a note is written to the memory      *)
(* store later (storing), and a save awaits the memory store between       *)
(* reading the world and reading the conversations (draft).                *)
(***************************************************************************)
EXTENDS Integers, Sequences, FiniteSets

CONSTANTS
  Agents,        \* agent identifiers
  Population,    \* the agents the scene starts with
  Rooms,         \* room identifiers
  Nowhere,       \* the place of an agent that is not active
  Cap,           \* SOCIAL_TALK_CAP
  Window,        \* CONVERSATION_TURN_WINDOW
  Floor,         \* idleTimeoutTicks
  ReplyWindows,  \* what twice the mean cycle interval of an agent can be
  WritesFail,    \* may the memory store reject a note?
  LoadWays,      \* how a save is loaded: by a new process, into the running one
  MaxOpened,     \* bound on the number of conversations
  MaxChurn,      \* bound on the number of spawns and despawns
  MaxSaves,      \* bound on the number of saves
  MaxLoads       \* bound on the number of restarts and loads

ASSUME WorldAssumption ==
  /\ IsFiniteSet(Agents) /\ Population \subseteq Agents
  /\ Rooms # {} /\ Nowhere \notin Rooms

ASSUME LimitAssumption ==
  /\ Cap \in Nat \ {0}
  /\ Window \in Nat \ {0}
  /\ Floor \in Nat /\ ReplyWindows \subseteq Nat /\ ReplyWindows # {}
  /\ WritesFail \in BOOLEAN /\ LoadWays \subseteq {"restart", "inPlace"}
  /\ MaxOpened \in Nat /\ MaxChurn \in Nat /\ MaxSaves \in Nat /\ MaxLoads \in Nat

VARIABLES
  (* AgentManagerImpl: where each agent is, and sentCount - receivedCount    *)
  (* towards each other agent; the DormantAgentStore                         *)
  room, gap, dormant,
  (* ConversationManagerImpl: the conversations, the last identifier, and    *)
  (* exchangeRestored; SmartObjectRegistryImpl: the mirrors                  *)
  convs, opened, granted, mirrors,
  (* the drive system and the memory store: exchange bonuses paid, notes     *)
  (* stored (both counted up to 2), and notes on their way                   *)
  paid, notes, storing,
  (* SceneMutationServiceImpl.hasDynamicState                                *)
  mutated,
  (* a save in flight, and the last one finished                             *)
  draft, saved,
  (* history: who has moved since the last sweep; and the bounds used up     *)
  strayed, spent

agentVars == <<room, gap, dormant, mutated>>
convVars  == <<convs, opened, mirrors, storing>>
bonusVars == <<granted, paid>>
saveVars  == <<draft, saved>>
vars == <<agentVars, convVars, bonusVars, notes, saveVars, strayed, spent>>
-----------------------------------------------------------------------------
Ids == 1..MaxOpened
Key == Ids \X Agents

Count == 0..2
UpTo2(n) == IF n > 2 THEN 2 ELSE n

\* turned: the participants whose turnCount is not 0; voices is history: who
\* has ever spoken, be he still a participant or not.
Turns == {s \in Seq(Agents) : Len(s) <= Window}

Conversation == [status : {"none", "open", "active", "closed"}, room : Rooms \cup {Nowhere},
                 members : SUBSET Agents, turned : SUBSET Agents,
                 said : Turns, idle : Nat, voices : SUBSET Agents]

NoConversation == [status |-> "none", room |-> Nowhere, members |-> {}, turned |-> {},
                   said |-> <<>>, idle |-> 0, voices |-> {}]

Live(c) == c.status \in {"open", "active"}

LastOf(s, n) == IF Len(s) > n THEN SubSeq(s, Len(s) - n + 1, Len(s)) ELSE s

\* appendTurn: the turn, the speaker's count, the status, the clock.
AppendTurn(c, a) ==
  [c EXCEPT !.turned = @ \cup {a}, !.said = LastOf(Append(@, a), Window),
            !.status = "active", !.idle = 0, !.voices = @ \cup {a}]

Closed(c) == [c EXCEPT !.status = "closed"]

Staying(c, who) == [c EXCEPT !.members = @ \cap who, !.turned = @ \cap who]

\* Mistake: the last to go leaves an empty conversation.
DepartOnly(c, a) == Staying(c, c.members \ {a})

\* The last to go does not leave an empty conversation: it closes with him.
Depart(c, a) == IF c.members = {a} THEN Closed(c) ELSE Staying(c, c.members \ {a})

Strangers == [b \in Agents |-> 0]

Asleep == [stored : BOOLEAN, room : Rooms \cup {Nowhere}, gap : [Agents -> Int]]
NotDormant == [stored |-> FALSE, room |-> Nowhere, gap |-> Strangers]

Draft == [valid : BOOLEAN, room : [Agents -> Rooms \cup {Nowhere}],
          gap : [Agents -> [Agents -> Int]], mirrors : SUBSET Ids,
          paid : [Key -> Count], notes : [Key -> Count]]
Save == [valid : BOOLEAN, world : Draft, convs : [Ids -> Conversation],
         dormant : [Agents -> Asleep], mutated : BOOLEAN, strayed : SUBSET Agents]

NoDraft == [valid |-> FALSE, room |-> [a \in Agents |-> Nowhere],
            gap |-> [a \in Agents |-> Strangers], mirrors |-> {},
            paid |-> [k \in Key |-> 0], notes |-> [k \in Key |-> 0]]
NoSave == [valid |-> FALSE, world |-> NoDraft, convs |-> [i \in Ids |-> NoConversation],
           dormant |-> [a \in Agents |-> NotDormant], mutated |-> FALSE, strayed |-> {}]

Active(a) == room[a] # Nowhere

\* The memory store of the program answers within the turn of the event loop,
\* so that a save in flight is finished before the next tick.
BetweenTurns == ~draft.valid
-----------------------------------------------------------------------------
Init ==
  /\ \E start \in [Population -> Rooms] :
       room = [a \in Agents |-> IF a \in Population THEN start[a] ELSE Nowhere]
  /\ gap = [a \in Agents |-> Strangers]
  /\ dormant = [a \in Agents |-> NotDormant]
  /\ convs = [i \in Ids |-> NoConversation]
  /\ opened = 0 /\ granted = {} /\ mirrors = {}
  /\ paid = [k \in Key |-> 0]
  /\ notes = [k \in Key |-> 0]
  /\ storing = {}
  /\ mutated = FALSE
  /\ draft = NoDraft /\ saved = NoSave
  /\ strayed = {}
  /\ spent = [churn |-> 0, saves |-> 0, restarts |-> 0, loads |-> 0]
-----------------------------------------------------------------------------
(* Every change of conversations goes through commit or close.               *)

\* syncMirror of the conversations in changed; the others keep their mirrors.
Mirrored(ms, changed, cs) ==
  (ms \cup {i \in changed : Live(cs[i])}) \ {i \in changed : ~Live(cs[i])}

\* Mistake: a note only for those who spoke.
NotesDueToSpeakers(cs) ==
  {k \in Key : Live(convs[k[1]]) /\ ~Live(cs[k[1]])
                /\ k[2] \in cs[k[1]].members \cap cs[k[1]].voices}

\* close leaves a note to everybody who is in the conversation at the end.
NotesDue(cs) ==
  {k \in Key : Live(convs[k[1]]) /\ ~Live(cs[k[1]]) /\ k[2] \in cs[k[1]].members}

Commit(changed, cs) ==
  /\ convs' = cs
  /\ mirrors' = Mirrored(mirrors, changed, cs)
  /\ storing' = storing \cup NotesDue(cs)
-----------------------------------------------------------------------------
(* The talk tool.                                                            *)

\* Mistake: the executor trusts the list of targets the LLM was shown.
TalkTargetsUncapped(a) == {b \in Agents \ {a} : Active(a) /\ room[b] = room[a]}

\* enumerateTalkTargets: who is here and not owed an answer to too much.
TalkTargets(a) ==
  {b \in Agents \ {a} : Active(a) /\ room[b] = room[a] /\ gap[a][b] < Cap}

\* getOpenConversationBetween takes the oldest.
Between(a, b) == {i \in Ids : Live(convs[i]) /\ {a, b} \subseteq convs[i].members}

\* Mistake: a bonus for everybody who hears an answer.
BonusDueToListeners(i, c, a) == {k \in {i} \X (c.members \ {a}) : k \notin granted}

\* A bonus is due to everybody else who has spoken, once for a conversation.
BonusDue(i, c, a) ==
  {k \in {i} \X (c.members \ {a}) :
     k \notin granted /\ (k[2] \in c.turned \/ \E m \in DOMAIN c.said : c.said[m] = k[2])}

\* Mistake: the grant is not remembered.
GrantForgotten(due) ==
  /\ granted' = granted
  /\ paid' = [k \in Key |-> IF k \in due THEN UpTo2(paid[k] + 1) ELSE paid[k]]

Grant(due) ==
  /\ granted' = granted \cup due
  /\ paid' = [k \in Key |-> IF k \in due THEN UpTo2(paid[k] + 1) ELSE paid[k]]

OpenConversation(a, b) ==
  /\ opened < MaxOpened
  /\ opened' = opened + 1
  /\ LET base == [NoConversation EXCEPT !.room = room[a], !.members = {a, b}]
         c == [AppendTurn(base, a) EXCEPT !.status = "open"]
     IN Commit({opened + 1}, [convs EXCEPT ![opened + 1] = c])
  /\ UNCHANGED bonusVars

\* Who is not in the room of the conversation is taken out of it instead.
Contribute(a, i) ==
  LET c == convs[i]
  IN /\ UNCHANGED opened
     /\ \/ /\ room[a] # c.room
           /\ Commit({i}, [convs EXCEPT ![i] = Depart(c, a)])
           /\ UNCHANGED bonusVars
        \/ /\ room[a] = c.room
           /\ Commit({i}, [convs EXCEPT ![i] = AppendTurn(c, a)])
           /\ Grant(BonusDue(i, AppendTurn(c, a), a))

\* updateRelationship for both sides, whatever became of the contribution.
CountTalk(a, b) == gap' = [gap EXCEPT ![a][b] = @ + 1, ![b][a] = @ - 1]

Talk(a, b) ==
  /\ b \in TalkTargets(a)
  /\ \/ Between(a, b) = {} /\ OpenConversation(a, b)
     \/ \E i \in Between(a, b) :
          (\A j \in Between(a, b) : i <= j) /\ Contribute(a, i)
  /\ CountTalk(a, b)
  /\ UNCHANGED <<room, dormant, mutated, notes, saveVars, strayed, spent>>
-----------------------------------------------------------------------------
(* The affordances of a mirror, offered to whoever is in its room.           *)

Join(a, i) ==
  LET c == convs[i]
  IN /\ i \in mirrors /\ Live(c)
     /\ room[a] = c.room /\ a \notin c.members
     /\ Commit({i}, [convs EXCEPT ![i].members = @ \cup {a}, ![i].idle = 0])
     /\ UNCHANGED <<agentVars, opened, bonusVars, notes, saveVars, strayed, spent>>

Leave(a, i) ==
  LET c == convs[i]
      d == Depart(c, a)
  IN /\ i \in mirrors /\ c.status # "none"
     /\ room[a] = c.room /\ a \in c.members
     /\ Commit({i}, [convs EXCEPT ![i] = IF Live(d) THEN [d EXCEPT !.idle = 0] ELSE d])
     /\ UNCHANGED <<agentVars, opened, bonusVars, notes, saveVars, strayed, spent>>

\* Walking or being taken to another room; no conversation is told.
Move(a, r) ==
  /\ Active(a) /\ r # room[a]
  /\ room' = [room EXCEPT ![a] = r]
  /\ strayed' = strayed \cup {a}
  /\ UNCHANGED <<gap, dormant, mutated, convVars, bonusVars, notes, saveVars, spent>>
-----------------------------------------------------------------------------
(* The sweep of every tick.                                                  *)

Stayers(c) == {a \in c.members : room[a] = c.room}

\* participantsOwingReply: all but the last speaker.
Owing(c) == c.members \ {c.said[n] : n \in {Len(c.said)} \cap DOMAIN c.said}

\* Idle for longer than the timeout and than the window of all who owe a reply.
Expired(c, window) ==
  c.idle + 1 > Floor /\ \A a \in Owing(c) : c.idle + 1 > window[a]

\* Whoever is in another room is taken out, which counts as activity.
Swept(c, window) ==
  CASE Stayers(c) = {} -> Closed(c)
    [] Stayers(c) # {} /\ Stayers(c) # c.members -> [Staying(c, Stayers(c)) EXCEPT !.idle = 0]
    [] Stayers(c) # {} /\ Stayers(c) = c.members ->
         IF Expired(c, window) THEN Closed(c) ELSE [c EXCEPT !.idle = @ + 1]

Sweep(window) ==
  LET live == {i \in Ids : Live(convs[i])}
      cs == [i \in Ids |-> IF i \in live THEN Swept(convs[i], window) ELSE convs[i]]
  IN /\ BetweenTurns
     /\ Commit({i \in live : cs[i].members # convs[i].members \/ ~Live(cs[i])}, cs)
     /\ strayed' = {}
     /\ UNCHANGED <<agentVars, opened, bonusVars, notes, saveVars, spent>>

\* The memory store takes a note, or its promise is rejected and ignored.
NoteWritten(k) ==
  /\ k \in storing
  /\ storing' = storing \ {k}
  /\ notes' = [notes EXCEPT ![k] = UpTo2(@ + 1)]
  /\ UNCHANGED <<agentVars, convs, opened, mirrors, bonusVars, saveVars, strayed, spent>>

NoteLost(k) ==
  /\ WritesFail /\ k \in storing
  /\ storing' = storing \ {k}
  /\ UNCHANGED <<agentVars, convs, opened, mirrors, bonusVars, notes, saveVars, strayed, spent>>
-----------------------------------------------------------------------------
(* Spawning and despawning, between two turns of the event loop.             *)

Churn ==
  /\ BetweenTurns
  /\ spent.churn < MaxChurn
  /\ spent' = [spent EXCEPT !.churn = @ + 1]
  /\ mutated' = TRUE
  /\ UNCHANGED <<opened, bonusVars, notes, saveVars, strayed>>

\* Mistake: a despawn leaves the conversations alone.
DespawnQuietly(a) ==
  /\ Active(a)
  /\ dormant' = [dormant EXCEPT ![a] = [stored |-> TRUE, room |-> room[a], gap |-> gap[a]]]
  /\ room' = [room EXCEPT ![a] = Nowhere]
  /\ gap' = [gap EXCEPT ![a] = Strangers]
  /\ Churn
  /\ UNCHANGED <<convs, mirrors, storing>>

\* removeAgentEverywhere, between the copy into the store and the despawn.
Despawn(a) ==
  LET his == {i \in Ids : Live(convs[i]) /\ a \in convs[i].members}
  IN /\ Active(a)
     /\ Commit(his, [i \in Ids |-> IF i \in his THEN Depart(convs[i], a) ELSE convs[i]])
     /\ dormant' = [dormant EXCEPT ![a] = [stored |-> TRUE, room |-> room[a], gap |-> gap[a]]]
     /\ room' = [room EXCEPT ![a] = Nowhere]
     /\ gap' = [gap EXCEPT ![a] = Strangers]
     /\ Churn

SpawnFresh(a, r) ==
  /\ ~Active(a)
  /\ room' = [room EXCEPT ![a] = r]
  /\ gap' = [gap EXCEPT ![a] = Strangers]
  /\ Churn
  /\ UNCHANGED <<dormant, convs, mirrors, storing>>

SpawnDormant(a) ==
  /\ ~Active(a) /\ dormant[a].stored
  /\ room' = [room EXCEPT ![a] = dormant[a].room]
  /\ gap' = [gap EXCEPT ![a] = dormant[a].gap]
  /\ dormant' = [dormant EXCEPT ![a] = NotDormant]
  /\ Churn
  /\ UNCHANGED <<convs, mirrors, storing>>
-----------------------------------------------------------------------------
(* Saving and loading.                                                       *)

\* Up to the await: agents, objects, and the memories as they are now.
SaveBegins ==
  /\ BetweenTurns /\ spent.saves < MaxSaves
  /\ spent' = [spent EXCEPT !.saves = @ + 1]
  /\ draft' = [valid |-> TRUE, room |-> room, gap |-> gap, mirrors |-> mirrors,
               paid |-> paid, notes |-> notes]
  /\ UNCHANGED <<agentVars, convVars, bonusVars, notes, saved, strayed>>

\* After it: conversations, dormant agents and the mutation log.
SaveEnds ==
  /\ draft.valid
  /\ saved' = [valid |-> TRUE, world |-> draft, convs |-> convs, dormant |-> dormant,
               mutated |-> mutated, strayed |-> strayed]
  /\ draft' = NoDraft
  /\ UNCHANGED <<agentVars, convVars, bonusVars, notes, strayed, spent>>

Restore ==
  /\ saved.valid /\ spent.restarts + spent.loads < MaxLoads
  /\ room' = saved.world.room
  /\ gap' = saved.world.gap
  /\ paid' = saved.world.paid
  /\ notes' = saved.world.notes
  /\ strayed' = saved.strayed
  /\ UNCHANGED saved

Existing(cs) == {i \in Ids : cs[i].status # "none"}

\* Mistake: the mirrors are taken from the saved objects alone.
SavedMirrorsAlone == saved.world.mirrors

\* restoreConversations: the objects of the save, then every mirror synced.
SavedMirrors == Mirrored(saved.world.mirrors, Existing(saved.convs), saved.convs)

\* The process dies; a new one loads the save.  What a save without
\* conversations or dormant agents leaves out is then what a new process has.
Restart ==
  /\ "restart" \in LoadWays /\ Restore
  /\ spent' = [spent EXCEPT !.restarts = @ + 1]
  /\ convs' = saved.convs
  /\ opened' \in 0..MaxOpened /\ Existing(saved.convs) \subseteq 1..opened'
  /\ opened' = 0 \/ opened' \in Existing(saved.convs)
  /\ mirrors' = SavedMirrors
  /\ dormant' = saved.dormant
  /\ mutated' = saved.mutated
  /\ granted' = {} /\ storing' = {} /\ draft' = NoDraft

\* Into a running process: what the save leaves out stays as it is.
Load ==
  LET talked  == Existing(saved.convs) # {}
      dynamic == saved.mutated \/ talked
  IN /\ "inPlace" \in LoadWays /\ BetweenTurns
     /\ Restore
     /\ spent' = [spent EXCEPT !.loads = @ + 1]
     /\ convs' = IF talked THEN saved.convs ELSE convs
     /\ mirrors' = IF talked THEN SavedMirrors ELSE saved.world.mirrors
     /\ dormant' = IF dynamic THEN saved.dormant ELSE dormant
     /\ mutated' = IF dynamic THEN saved.mutated ELSE mutated
     /\ UNCHANGED <<opened, granted, storing, draft>>
-----------------------------------------------------------------------------
SweepStep == \E window \in [Agents -> ReplyWindows] : Sweep(window)

Social(a) ==
  \/ \E b \in Agents : Talk(a, b)
  \/ \E i \in Ids : Join(a, i) \/ Leave(a, i)

Next ==
  \/ SweepStep
  \/ \E a \in Agents :
       \/ Social(a)
       \/ \E r \in Rooms : Move(a, r) \/ SpawnFresh(a, r)
       \/ Despawn(a)
       \/ SpawnDormant(a)
  \/ \E k \in Key : NoteWritten(k) \/ NoteLost(k)
  \/ SaveBegins \/ SaveEnds
  \/ Restart \/ Load

Spec == Init /\ [][Next]_vars

\* The game loop ticks for ever, and the memory store answers.
FairSpec ==
  /\ Spec
  /\ WF_vars(SweepStep)
  /\ \A k \in Key : WF_vars(NoteWritten(k))
-----------------------------------------------------------------------------
TypeOK ==
  /\ room \in [Agents -> Rooms \cup {Nowhere}]
  /\ gap \in [Agents -> [Agents -> Int]]
  /\ dormant \in [Agents -> Asleep]
  /\ convs \in [Ids -> Conversation]
  /\ opened \in 0..MaxOpened
  /\ granted \subseteq Key
  /\ mirrors \subseteq Ids
  /\ paid \in [Key -> Count]
  /\ notes \in [Key -> Count]
  /\ storing \subseteq Key
  /\ mutated \in BOOLEAN
  /\ draft \in Draft /\ saved \in Save
  /\ strayed \subseteq Agents
  /\ spent \in [churn : 0..MaxChurn, saves : 0..MaxSaves,
               restarts : 0..MaxLoads, loads : 0..MaxLoads]

(* The registry shows no dead conversation (issue #224: dead mirrors piled    *)
(* up), and, unless a save was loaded into the running process, every live   *)
(* one: through closing, despawning, saving and restarting.                  *)
MirrorsExact ==
  LET live == {i \in Ids : Live(convs[i])}
  IN mirrors \subseteq live /\ (spent.loads = 0 => mirrors = live)

(* Two agents never silence each other: if neither could talk to the other,  *)
(* no reply could ever lift the cap, whose only way back is the reply.  Lost *)
(* or restored counters of respawned agents must not lead there either.      *)
NoMutualSilence ==
  \A a, b \in Agents : a # b => gap[a][b] < Cap \/ gap[b][a] < Cap

(* Who takes part in a conversation of another room has moved since the last *)
(* sweep: despawned and respawned agents do not linger in old threads.       *)
StrayersSwept ==
  \A i \in Ids : Live(convs[i]) =>
    \A a \in convs[i].members : room[a] # convs[i].room => a \in strayed

(* The exchange bonus goes to agents who said something and were answered.   *)
NoRewardForMonologue ==
  \A k \in Key : paid[k] > 0 =>
    k[2] \in convs[k[1]].voices /\ convs[k[1]].voices \ {k[2]} # {}

(* The exchange bonus is paid once for an agent and a conversation, however  *)
(* often the agent leaves and joins again (doc of onExchangeRestore).        *)
BonusOnce == \A k \in Key : paid[k] <= 1

(* The exchange bonus is the reward of an exchange, and of one only.         *)
FairBonus == NoRewardForMonologue /\ BonusOnce

(* A conversation nobody touches any more comes to its end, and everybody    *)
(* who stayed in it has a note of it.                                        *)
AbandonedIsNoted ==
  \A i \in Ids, a \in Agents :
    (Live(convs[i]) /\ convs[i].idle > 0 /\ a \in convs[i].members) ~>
      (convs[i].idle = 0 \/ a \notin convs[i].members \/ notes[<<i, a>>] > 0)

(* The conversations, seen as what they promise to those who take part.      *)
Phase(c) == IF Live(c) THEN "live" ELSE IF c.status = "none" THEN "none" ELSE "over"

Life == INSTANCE ConversationLife WITH
  phase   <- [i \in Ids |-> Phase(convs[i])],
  members <- [i \in Ids |-> convs[i].members],
  noted   <- [i \in Ids |-> {a \in Agents : <<i, a>> \in storing \/ notes[<<i, a>>] > 0}]

(* Without restarts, conversations live the life of ConversationLife: they   *)
(* end once, and their ending is noted for those, and only those, who stayed.*)
ImplementsLife == Life!LifeSpec
=============================================================================
