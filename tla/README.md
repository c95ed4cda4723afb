# A verification of evol-hive's agent loop

evol-hive runs a small society of LLM-driven agents in one Node.js process. A game loop ticks; in
every tick a fixed list of systems runs; one of them, the PPER scheduler, starts *cycles*, in which
an agent **P**erceives, **P**lans, **E**xecutes a step of its plan and **R**eflects. A cycle awaits
an affordance classifier, an LLM (twice) and a memory store, so that cycles of many agents, and
everything the ticks do meanwhile, interleave. This directory holds TLA+ models of that program, TLC
runs that check them on small instances, and proofs of the results that matter most for every
instance.

## 1. The system

All paths are below `src/packages/`.

| part | state | operations | correct when |
|---|---|---|---|
| PPER scheduler (`engine/src/systems/pper-scheduler.ts`) | `activeCycles`, `rrCursor` | `update` (one pass per tick), `startCycle`, the settle handler | no place leaks, the limit holds, one cycle per agent, nobody starves |
| orchestrator (`cognition/src/pper/orchestrator.ts`) | `consecutiveFailures`, `cooldownStartedAt` | `runCycle`, `recordFailure` | failures and cooldown agree; a failed phase ends the cycle once |
| plan service (`plan-service.ts`) | `planFailureCounts` | `plan`, floor plan | an agent gets a plan in the end |
| execute service (`execute-service.ts`) | `stepFailures`, `planSkips` | `execute`, `registerStepFailure` | a step is not retried without bound, nor skipped too early; skips are reported |
| reflect service (`reflect-service.ts`) | none | `reflect`, `stampPlanOutcome` | a plan ends with exactly one true outcome |
| agent table and plans (`engine/src/agents/`) | the Map of active agents, `isThinking`, `currentPlan`, `lastPlanOutcome` | `spawn`, `despawn`, `updateState`, `createPlan`, `advanceStep`, `clearPlan`, `invalidatePlan` | writes to agents that are gone have no effect |
| scene mutations (`engine/src/world/mutations/`) | proposal queue, dormant agents, event log | `propose`, `applyPending`, `applySpawn`, `applyDespawn`, connections, objects | what is validated still holds when it is applied; nobody is active and dormant |
| conversations (`engine/src/social/`) | conversations, mirrors, relationships, message queues, counters of unanswered talk | open, join, leave, contribute, idle sweep, export, restore | mirrors match, closed stays closed, remembered once, no mutual silence |
| world and navigation (`engine/src/world`, `engine/src/spatial`) | rooms, connections, objects, positions, `pendingAreas`, `spatialMemory` | `navigateToArea`, `requestWalk`, `advance`, open and close | a walk leads over connections; walking ends in arrival or a failure |
| social manager (`engine/src/social`, `cognition/src/pper`) | relationships with counters, message queues | talk, observe, help, ignore, urges, talk targets | both sides count alike; what is offered can be called |
| physics, affordances, object state, drives | object state, throttles, drive values | preconditions, handler, state patch, rules, decay | an action applies entirely or not at all; values stay clamped |
| persistence (`engine/src/persistence`, `systems/auto-save.ts`) | the file | `save`, `load`, auto-save | a loaded snapshot is a state the run was in |
| LLM client (`cognition/src/llm`) | none between calls; attempts, rounds and messages of a call | request with timeout, retry and backoff, tool loop, batch | every call ends, in an answer or in one error |
| cognitive tools (`cognition/src/tools`) | mutation budget per cycle | talk, help, ignore, modify_scene, ... | effects reach the resolved target |
| System 1 (`cognition/src/system1`, `engine/src/systems/system1-*`) | weights, features, samples, triggers | gate, label, dream update | an alarm is never suppressed; one sample per cycle |
| identity (`cognition/src/identity`, `engine/src/agents/state`) | salience, budgets of a session, self-models | record, consolidate, apply | no more change than the budget allows |
| memory (`memory/src`) | nodes, `reflectingAgents`, `lastReflectionTime` | store, retrieve, consolidate, decay | one consolidation per agent, no lost update |
| game loop | accumulator, scale, tick | start, stop, frame, restore | fixed steps, no time lost |
| assembly, cli, visualizer, schemas, diagnostics | none of their own | wiring, pages, log lines | the order of the systems |

How they interact: the assembly registers the systems in the order mutations, navigation, spatial
index, drive decay, object state, conversation sweep, PPER scheduler, System 1, memory maintenance,
auto-save, and a tick runs them one after the other without giving up the thread. The scheduler
calls the orchestrator without awaiting it; the orchestrator awaits its services; the services and
the tools the LLM calls reach into the engine through data providers, synchronously, by agent id;
the mutation tool only queues proposals, which the next tick applies.

What makes it hard: the awaits. Whatever a cycle has read before one may be gone after it: the agent
(despawned, perhaps respawned), its plan, the object of a step. `isThinking` is the only lock, and
it is off while a step executes. Failures are counted in five places. The list of hazards, each at
its line, is in `PROJECT.json`.

## 2. The plan

Done, in this order:

1. **PPERCycles**: scheduler, orchestrator, the four phases, plans, spawning and despawning.
   Abstract specifications `CyclePool` (what the scheduler promises) and `PlanLifecycle` (what
   becomes of a plan).
2. **Conversations**: the conversation manager with its sweep, the talk tool with its counters,
   mirrors and notes, and what spawning, saving and loading do to them. Abstract specification
   `ConversationLife`.
3. **SceneWorld**: the proposal queue, validation against the world of the moment and application in
   the next tick, objects, rooms, doorways, active and dormant agents, the event log, and saves and
   loads with the scene manager that `loadScene` replaces. Its abstract specification is the log:
   replayed from the scene it gives the world.
4. What surrounds the cycle: **LlmClient** (requests, tool rounds, batches), **LlmAnswers** (what is
   made of an answer), **MemoryUpkeep** with **Recollection** and **GameLoop**, **MindLoop** (System
   1 and identity moved by the same ticks), **Navigation**, **ObjectUse** over **SceneData**,
   **SocialLife** over **PlanPrompt** and **SocialUrge**.

Left, in the order of their worth:

- one composition more: an agent who walks (`Navigation`) while its cycle executes (`PPERCycles`),
  so that "walking" as an outcome of a step is what navigation answers and not a free choice;
- the files of overlapping auto-saves, and `selectScene` of the visualizer in `SceneWorld`.

Modules are written to be proved about: constants with named assumptions, no RECURSIVE operators,
invariants as named conjunctions.

## 3. The modules

| module | what it is |
|---|---|
| `PPERCycles` | the agent loop and its properties |
| `CyclePool` | abstract: a pool of at most `Limit` cycles, started by passes and ended one at a time |
| `PlanLifecycle` | abstract: none, working, complete, and the verdict that is reported |
| `Conversations` | conversations, talk, mirrors, notes and saves |
| `ConversationLife` | abstract: a conversation begins with two, ends once, and is noted by who is in it then |
| `SceneWorld` | scene mutations, rooms, objects, active and dormant agents, saves |
| `LlmClient` | calls, attempts, tool rounds, repairs and batches |
| `LlmAnswers` | operators: what is asked of the LLM and what is made of any answer |
| `MemoryUpkeep` | memories, background reflection, auto-saves, load and restart |
| `Recollection` | operators: retrieval, decay, pruning, composed importance |
| `GameLoop` | operators: the accumulator of the game loop |
| `System1`, `Identity` | the gate, its triggers and recorder; salience, consolidation passes and budgets |
| `MindLoop` | the two composed: the same agents, ticks, spawns and despawns (`Population` holds what they share) |
| `Navigation` | walks over rooms and doors, what agents know of rooms |
| `SceneData` | the objects of the example scenes as data: affordances, conditions, rules, handlers |
| `ObjectUse` | how cycles, ticks and mutations use these objects |
| `SocialUrge`, `PlanPrompt` | operators: the urge to talk; the blocks, tools and budget of the plan prompt |
| `SocialLife` | messages, relationships, urges and help between agents |
| `MC...` | constants, symmetries and views for TLC; `MCMemoryUpkeep` and `MCSocialLife` also hold assumptions that TLC evaluates on samples |
| `..._proofs` | the theorems about the module of that name, and their proofs |

`SocialLife` and `LlmAnswers` both EXTEND `PlanPrompt`, which EXTENDS `SocialUrge`: what Perceive
reads becomes a prompt, from which the one takes whom an agent may call, the other what a plan may
say. The modules without variables (`LlmAnswers`, `Recollection`, `GameLoop`, `SceneData`,
`SocialUrge`, `PlanPrompt`) are pure algorithms; a run or a proof module uses each of them.

### PPERCycles and the code

*Steps.* The program is one thread, so a handler is atomic up to its next await that is answered in
another turn of the event loop. These awaits are the program counters of a cycle: `perceiving` (the
classifier), `planning` and `retrying` (the LLM), `reflecting` (the LLM), `storing` (the memory
store), and `handling` if affordance handlers suspend. The handlers in `src/` do not; the constant
`HandlersSuspend` asks what would happen (the first four theorems hold either way; the others and
the runs have it `FALSE`). What runs between two waits is one action, or a short chain (`execute`,
`handling`) that the guard `Quiet` keeps everything else out of; the chain only serves to keep the
actions of Execute separate and readable.

*State.* `order` is the Map of active agents in insertion order (a despawn removes, a spawn
appends); `thinking`, `plan` and `outcome` are `isThinking`, `currentPlan` and `lastPlanOutcome`;
`cycle[a][s]` are the calls of `runCycle` in flight for an agent, normally at most one, but the code
does not exclude more (section 5, item 1), so the model keeps a slot for each. `failures`,
`cooldown`, `planFailures`, `stepFailures` and `planSkips` are the maps of the services. They are
keyed by agent id and survive a despawn, as in the code. Two parts of a plan are history, read by
properties only: `tries` and `skipped`.

*Actions.* `Tick` is one pass of the scheduler, its loop expressed by the sets `Willing` (agents
that are not thinking and not idled by the System 1 gate), `Reached` (positions before the limit
stops the pass) and `Starters`. `Perceived` to `MemoryRefused` are the phases: one action per answer
and one per branch of `executeImpl`. All endings go through `Settle`. `Despawn`, `SpawnFresh` and
`SpawnDormant` are the scene mutations, which know nothing of cycles. `CooldownElapses` is the
passing of wall-clock time.

*Data.* A step is a model value with a description (`TextOf`; two steps may share one, as an LLM may
write) and a set of answers the world can give (`OutcomesOf`). Plan identifiers are recycled once
nothing names the old plan any more. The formation-failure counter is cut off at the threshold,
where it no longer matters.

### Conversations and the code

*Steps.* A tool call, the handler of an affordance, a sweep and a scene mutation never give up the
thread: one action each, with everything they do to conversations, mirrors and notes (`Commit` is
`commit`, `close`, `syncMirror` and `consolidate` together). Two things take longer. A note is
handed to the memory store without being awaited, so it is on its way (`storing`) until
`NoteWritten` or, where the store may refuse it, `NoteLost`. And `EnginePersistence.save` awaits the
memory store between reading the agents, the objects and the memories (`SaveBegins`, kept in
`draft`) and reading the conversations, the dormant agents and the mutation log (`SaveEnds`);
talking, joining, leaving and walking go on in between. The memory store of the repository answers
before the event loop takes its next timer, so no sweep, spawn or despawn comes in between
(`BetweenTurns`). A load is one action: what it awaits is read from memory, and the save commands
stop the game loop first.

*State.* `room` is where each active agent is; `gap[a][b]` is `sentCount - receivedCount` of `a`
towards `b`, the only form in which the cap reads them; `dormant` is the `DormantAgentStore`.
`convs`, `opened` and `granted` are the manager's `conversations`, `nextId` and `exchangeRestored`;
`mirrors` are the conversation objects of the registry; `paid` and `notes` count what the drive
system and the memory store were given. `mutated` is `hasDynamicState`, which decides what a save
contains. Of a conversation the model keeps who takes part (`members`), for whom `turnCount` is not
0 (`turned`), the speakers of the rolling window (`said`), and the idle ticks. Two parts are
history: `voices`, who has ever spoken, and `strayed`, who has moved since the last sweep.

*Actions.* `Talk` is `executeTalkTo`: check of the target, `OpenConversation` or `Contribute` to the
oldest conversation of both, with the bonus, and then the counters of both, whatever became of the
contribution. `Join` and `Leave` are the affordances of a mirror. `Sweep` is the tick of the
conversation manager; how long a reply may take (`window`, from the cadence of each agent's cycles)
is chosen anew each time. `Despawn` takes the agent out of all his conversations between the copy
into the dormant store and the removal; `Move` and the spawns tell no conversation anything.
`Restart` is a crash and a load by a new process, `Load` the same into the running one; they differ
in what a save leaves out: a save without conversations or mutations does not touch those of the
running process, while its agents and objects replace what is there.

*Left out.* Names, topics, texts, sentiments, trust and familiarity, the message queue, who is
called initiator (which nothing but the wording of a note depends on), and self-models.

### SceneWorld and the code

*State.* `world` is one record, because a mutation, a save and a load are functions of worlds:
`home` is the room of each registered object, `ajar` the doorways whose state says `open`, `listed`
the `objectIds` and `exits` the `connections` of each room, `closed` the scene manager's
`closedConnections`, `active` the agent manager's map and `dormant` the `DormantAgentStore`.
`pending`, `log` and `nextSeq` are those of `SceneMutationServiceImpl`. `phase` is where the game
loop is: between two ticks, inside `applyPending`, or ended by an exception nobody catches. `bound`
says whether persistence was given the scene manager that mutations change. In the assembly it was
not: `createEngineCore` gives it an empty one, which `loadScene` replaces. The tests of persistence
build it around the live one. Both are initial states.

*Actions.* `Propose` is `propose` with `validate` (`Valid`); what is rejected leaves no trace.
`Tick` starts `applyPending` and `ApplyNext` is one round of its loop: take the mutation, apply it
(`Applied`) or throw (`Throws`), log it. Nothing else happens in between. The operators `Added`,
..., `Cut` are the branches of `apply`, with the scene manager and the doorways they patch.
`SaveState` is `save`; it is one step because `applyPending` runs only in a tick, and the memory
store answers the await of `save` before the next one. `Restart` is a crash at any moment,
`loadScene` in a new process, and `load` if there is a save; `LoadInPlace` is `load` into the
running process, which keeps its log, its queue and its dormant agents if the save has no dynamic
part.

*Scene.* Rooms, and what a doorway leads to, are given: no mutation makes a room, and an identifier
is taken to come with the same affordances each time. Connections of the scene are written down for
both rooms (`Corridors` are sets of two); the schema does not ask for that, the scenes of the
repository do it. `Unlisted` are objects the scene does not list in their room, such as every
generated doorway (`autoGenerateDoorways`). A connection is never proposed between a room and
itself, which `validate` would accept.

*Left out.* What an agent or an object is made of besides these facts: drives, memories,
self-models, object state other than `open`; the YAAM log; the affordance cache, which the assembly
does not wire.

### LlmClient and the code

*State.* `call[c]` is one call of a method of the client with everything its loops keep: its kind,
the `attempt` of `sendRequest`, the `round` of `requestChat`, whether `completePlan` is asking once
more, the requests `sent`, what the last attempt `heard`, and the `verdict` it ends with. `stage` is
what it waits for: headers, a body, a backoff, the memory or an embedding a tool asks for. `batch`
is a run of `BatchPlanService`.

*Actions.* One for each answer of the network and each way of reading it: no answer within the time,
no connection, headers with a status, a body that is limited, garbled, a tool call, the expected
function with arguments that are usable, of the wrong shape, no JSON, or `null`, on which the
methods that read a field of it throw a `TypeError`. A backoff and another attempt, while there are
any, follow a network failure, a 429, and a timeout if the client is told to retry those
(`retryOnTimeout`); any other status that is not a success ends the call at once. A cognitive tool
is executed and its result sent back, if there is an executor and the call has an agent; a plan of
the wrong shape is asked for once more, with rounds of its own. A batch takes agents of one room,
makes one call, and then plans alone each agent the answer has no valid plan for: `plan()` asks
once, or twice if the first answer is refused, or not at all if it gives up before. Callers share
nothing (the client keeps no state between calls, a tool budget belongs to one agent), so one busy
caller at a time shows all there is.

*Left out.* Usage reports and the texts.

### LlmAnswers and the code

A request for a plan is made in a `Situation`: drives, affordances after pruning, known areas. An
answer is anything of the right JSON types: texts are empty or not, identifiers known, unknown or
missing. `InSchema` is the schema the model is given, `AllBound` is `checkPlanBinding`, `Formed`
what `plan()` does with an answer (refusal of mere waiting under a critical drive, retry, count of
failures, floor plan), `Objection` the checks of the guardrail engine in their order. The same for
reflections (what the client completes, the validation in `reflect-service.ts`, the fallback memory,
the overrides of drives) and for the budget of `modify_scene`. The guardrail engine is wired as by
default, no affordance is named `wait`, and an affordance restores one drive at most.

### MemoryUpkeep, Recollection, GameLoop and the code

*State.* `store` is the Map of the vector store, `embedding` are the memories whose embedding is
awaited, `asks` the calls of the reflection loop which wait for `shouldReflect`, `passes` the
consolidations (after which await each of them stands), `reflecting` and `last` the marks and the
times of the loop. `writing` are the auto-saves under way, `file` is the save file, empty while it
is written.

*Actions.* A tick advances the clock, asks for reflection and, at its interval, starts an unawaited
save; a frame may play several ticks before the first of their questions is heard. The answers of
the model and of the embedder are actions of their own, so that writes, ticks, other passes, a load
into the running process and a crash come between any two. A pass reads nodes, thinks, stores
insights one by one, reads each listed memory and lowers its importance; it fails anywhere. Ids are
made of agent, time and a counter that starts anew with the process.

`Recollection` gives retrieval (over-fetch by likeness, filter, score, touch), pruning and the
composer of importance as operators over any store; the exponentials are tables that start at 1 and
never grow. `GameLoop` is the accumulator with scale, start, stop and restore.

### System1, Identity, MindLoop and the code

`System1` is the gate at a tick (`Reacts`): a message, a threshold crossing or a change nearby
alarms; otherwise usable weights decide, and without usable weights, or features, the agent starts a
cycle. The score is a free choice. What alarms is read from trackers that remember the last cycle;
the program has two of them (section 5), and so has the model. A cycle the orchestrator ends in its
cooldown never perceives (`CoolsDown`): the message stays in the queue. `Identity` is salience, the
pass a tick starts when there is enough of it, the proposal it awaits, and the two budgets, that of
the service (written back after the await) and that of the manager, which the tool draws on too. An
agent that a save of the earlier format brought may be without a self-model; the manager then
refuses every delta. Passes of an agent may overlap and outlive it. `MindLoop` lets both move with
the same ticks in the order of the assembly, and with the same spawns and despawns.

### Navigation and the code

`location` and `position` are the room and the place of an agent: at the door, beside an object, or
on another cell. `walks` are the routes under way, `pending` is `pendingAreas`, `memory` what an
agent knows of rooms and objects, `step` the area the plan of the agent names. A cycle calls
`navigateToArea` (`Answer`) until it says something else than walking; it polls a walk under way or
plans a route over the rooms it has visited and the doors that are open. `Tick` moves every walker
one place on, through a door into the next room. Doors open and close, objects are carried off,
`go_to_` steps of the same room request walks of their own, others tell of rooms, and agents are
despawned, which ends their walk in the same tick, woken and spawned anew, with the area that was
pending before if they were not walking. Exact cells, occupancy and the search over a grid are left
out: the door of a room can always be reached.

### SceneData, ObjectUse and the code

`SceneData` is the coffee shop and the dynamic world as tables: for each object its affordances with
conditions, preconditions, declared effects, chains and state rules, and one operator for each
handler. What the mutation service says of a proposal is up to `ObjectUse` (`Answers`): a move to a
room that does not exist makes `carry` fail, and a change of the gate may be refused. `ObjectUse` is
what happens between them: `Begin` resolves a step to an object of the room (`StartAffordance`) or
to a compound action (`StartCompound`), `Invokes` goes up to the call of the handler, `Settle`
writes the patch the handler computed from the state of its call, and `Continue` goes on with the
next part of a compound action. Handlers of the repository answer at once, but the interface is a
promise: the ones in `Slow` await something, and ticks, other agents and mutations come between
their call and their answer. `Tick` applies the rules with their throttle and the decay of drives;
the rules write into the state object itself, so that a handler that still holds it may answer for
what it has become (`Reread`; which ones do is left open). `tally` and `settled` are history: how
often each affordance succeeded, and the objects whose state it no longer tells.

### SocialUrge, PlanPrompt, SocialLife and the code

`SocialUrge` is the formula of the urge with its factors in thousandths. `PlanPrompt` is the live
prompt builder: which blocks there are, which tools, and `Kept`, the blocks that survive
`budgetPlanContext`, tier by tier. The prompt of `PerceptionBuilderImpl`, which only tests build, is
there with its tools and what its texts name (`PerceptionTools`, `PerceptionNames`), for every
setting of the guardrails. `SocialLife` runs the social part of cycles: `Look` (the first half of
Perceive: who is here, messages out of the queue), `Weigh` after the classifier (relationships,
urges, the prompt), then the calls of the model in any number up to a bound: `talk_to`, `observe`,
`help`, `ignore`, each with the resolution of the name it was given. Agents walk, fall asleep, wake
up with the relationships of their record, or are spawned anew with none; a cycle outlives its
agent. `taken` and `fresh` are history. Calls that are refused write nothing and are left out;
drives change by what the model says of help, their decay is in `ObjectUse`.

## 4. The runs

Each property of each run has a mutant: a plausible mistake, written beside the definition it
replaces, that TLC finds through that property. Properties joined of several parts have one for more
than one part.

| run | instance | shows |
|---|---|---|
| `PPER_plan` | one agent, every step outcome, every LLM answer, fairness | failures and cooldown agree (`CooldownConsistent`); with nobody despawned `isThinking` works as a lock (`LockHolds`); no plan vanishes without its outcome, which counts its skips (`OutcomesTrue`); plans follow `PlanLifecycle` (`ImplementsLifecycle`); under fairness a plan ends, unless from some time on nothing happens that the step guard counts (`PlanProgress`) |
| `PPER_churn` | two agents, two places, two spawns or despawns, the System 1 gate | accounting and flags survive cycles of earlier lives (`ActiveCyclesExact`, `ThinkingHasOwner`); the scheduler implements `CyclePool` (`ImplementsPool`) |
| `PPER_live` | two agents, one place, steps that fail in every way there is, fairness | every agent gets cycles for ever (`NoStarvation`) and a plan (`FloorEngages`) |
| `CONV_rooms` | two agents, two rooms, one spawn or despawn, fairness | nobody lingers in another room's conversation (`StrayersSwept`); the bonus goes once, to who has spoken and was answered (`FairBonus`); conversations follow `ConversationLife` (`ImplementsLife`); an abandoned one ends and is noted (`AbandonedIsNoted`) |
| `CONV_restart` | two agents, two spawns or despawns, a save, a restart or a load, notes that get lost | no dead mirror comes back (`MirrorsExact`), nobody is silenced (`NoMutualSilence`) |
| `SCENE_edit` | three rooms in a ring, a doorway, a lamp, an agent of the scene and one who may join, every kind of mutation, a save, a restart or a load, `bound` or not | connections are two-sided (`TwoSided`); no agent is lost (`NobodyLost`); rooms list their things, an open doorway has an open connection, and the log replayed gives the world, unless a save without a log was put into a running world (`StoresAgree`) |
| `LLM_calls` | one agent, a batch of three in two rooms, one retry, two rounds, fairness | a call costs a bounded number of requests (`RequestsBounded`), ends truly (`EndsTruly`) and in any case (`EveryCallEnds`); every entry of a batch gets one result (`PlannedOnce`) |
| `MEM_upkeep` | one agent, two slots for passes, two writes, a load, a restart, fairness | one pass at a time (`OnePassEach`); no memory replaces another (`FreshIds`); a pass ends, and moves the reflection time only for work it has done (`PassesWork`) |
| `MIND_ticks` | one agent with or without a self-model, two rooms, budgets of one, two passes at a time, cooldowns, fairness | overlapping passes and the tool stay within one budget that both sides know (`BudgetsHold`); messages are heard, and unusable weights hold nobody back (`GateLetsThrough`) |
| `NAV_walk` | one agent, three rooms in a line with doors that open and close, a chest, one move of it, two `go_to_` steps, one room reached by teleport, fairness | walks lead over connections only, and on from where their agent is, unless a teleport has taken it out of its walk (`OnRoute`); what is offered can be walked to (`OffersWalkable`); every step is answered (`StepAnswered`) |
| `OBJ_use` | two agents, garden with its gate and workshop, two slow handlers, two steps each, a tick, a mutation | hands stay on what is in the room (`HandsOn`); late answers undo no move (`RelocationSticks`); a step pays all or nothing (`AllOrNothing`); objects show what was done to them (`BooksBalance`); offers are accepted (`OffersHold`) |
| `SOC_life` | two agents, two rooms, cap one, two calls, one walk or despawn, a prompt cut to its budget | accounts of the exchange agree and nobody gets ahead of the cap (`LedgerAgrees`); offers stand until the call (`OfferStands`); texts name offered tools, but for what three of them name in vain (`NamesOffered`); cutting leaves nothing dangling (`NothingDangles`) |

*Composed properties.* `LockHolds` is `OneCyclePerAgent` and `ThinkingGuardsCycle`; `OutcomesTrue`
is `OutcomeReportsSkips` and `PlanEndsWithOutcome`; `FairBonus` is `NoRewardForMonologue` and
`BonusOnce`; `StoresAgree` is `Listed`, `DoorsTell` and `LogExplains`; `PassesWork` is
`TimeMeansDone` and `PassEnds`; `BudgetsHold` is `DeltasBounded` and `BudgetsAgree`;
`GateLetsThrough` is `AlarmHeard` and `OpenUntilLoaded`. Types are not among the runs' properties
where they are proved.

*Bounds of PPERCycles.* `MaxChurn` bounds spawns and despawns: a re-entry needs two.
`MaxStepFailures = 2` is that of the code, and `MaxFailures` 1 or 2 are the least values for which a
count that is kept, reset or carried over differs. `MaxConcurrent = 2` is the least that lets two
cycles of one agent meet. Plans have one or two steps: the second shows what the first one's
counters do to it. `MaxPlanId` only has to exceed the number of plans something can still name.
`PlanProgress` has plans of one and two steps, walks among them, and every answer there is; steps of
`PPER_live` only fail, counted or not, and walks never arrive. Nobody is despawned in `PPER_live`: a
cycle of an earlier life can end the cooldown and clear the counts of a later one, and the floor
then comes only if that stops.

*Bounds of Conversations.* Conversations do not interact except through the counters and the
mirrors, so `MaxOpened = 1` lets one conversation at a time meet everything that can happen to it;
what several do to the mirrors is proved. `Cap = 1` (3 in the code) is where a counter meets the cap
at once; `Window = 1` (8 in the code) makes the window forget somebody who still takes part. One
save and one load suffice for a save to be older than what it meets. `AgentSymmetry` is used with
invariants only. `LoadableView` hides a save that can no longer be loaded within the bound: no
invariant of that run reads it and no step depends on it. The counters stay bounded because every
talk beyond the cap needs an answer.

*Bounds of SceneWorld.* `MaxLog = 4` mutations, queued and logged together: two make a conflict
within a tick, three make a doorway wrong (opened, then its two connections closed from the other
side), four put a save or a load between any two of them and leave one for afterwards. Three rooms
in a ring are the fewest in which a connection can be cut, and one from which a doorway has two ways
to go; the lamp is absent at first, so that additions of the same identifier meet. One save and one
load suffice for a save to be older than what it is loaded into. `LoadableView` hides a save that
can no longer be loaded: no step depends on it, and the invariants that read it held when it was
made. A run may end, since the number of mutations is bounded and an exception stops the loop:
deadlock is not checked. `SceneWorld` has no liveness property and no fairness; that a tick comes is
the business of `PPERCycles`.

*Bounds of the others.*

- `LLM_calls`: one retry and two rounds are the least with a middle and a last of each; a plan may
  be asked for once more, so loops of all three kinds meet. In the batch two of three share a room,
  and a batch has two places: a full one, a rest, and a second room. The bounds on a call are proved
  for every number of retries and rounds.
- `MEM_upkeep`: a pass needs two memories; two slots would let a second pass of the one agent start.
  Two ticks put a tick before and after any await. A restart and a load suffice for an id to be made
  twice; `FreshIds` excepts what they make together, a process begun after a load into a running one
  (`reloaded`). Agents share the clock, the file and, in one millisecond, the id of an insight: that
  exception of `TimeMeansDone` (`whose`, history) needs two agents, and is met in the proof only.
  The run may end when its bounds are used up.
- `MIND_ticks`: with a budget of one any second delta is one too many; two passes under way are the
  least that overlap; queue and log are full with one entry.
- `NAV_walk`: three rooms in a line are the least in which a route has a middle; walkers do not see
  each other, so one suffices. Two `go_to_` steps besides the plan's (one to take an agent out of a
  walk, one to request another) and one removal of the chest are what a walk can be replaced by and
  lose. The hall is reached by teleport, the other rooms on foot; as in the dynamic world both kinds
  of room are next to each other.
- `OBJ_use`: what two steps can do to each other, with a tick and a mutation between them.
  `add_water` and `eat` are slow because one writes what a rule writes too and the other removes
  what it works on; the properties are proved for any set. `SceneAssumption` says of a scene what
  the books are kept by, and TLC evaluates it on the objects of the run. `Symmetry` swaps the
  agents, and the run has invariants and action properties only.
- `SOC_life`: `TalkCap = 1` (3 in the code) meets the cap at once; `MaxCalls = 2` lets two calls of
  one answer, and of two answers, meet. `MaxChars` is where ann's prompt just does not fit.
  `MaxChurn` bounds walks and despawns together. `PlanPromptAssumption` (blocks have a length) and
  the clause of `SocialLifeAssumption` about affordances (each has an id and a drive, or none, that
  it restores and progresses) are types.

*Assumptions on samples.* `MCSocialLife` and `MCMemoryUpkeep` state what is proved of `LlmAnswers`,
`Recollection` and `GameLoop` on samples of stores, situations, answers and sessions, which TLC
evaluates when it starts; and two things that are so and that a reader may not expect, `CrowdedOut`
and `LeftoverSurvives` (section 5).

*Fairness of PPERCycles.* `FairSpec` assumes that ticks keep coming, that a cooldown passes, and
that what a cycle waits for is answered. The first two are `setTimeout` and the wall clock. The
third is `EveryCallEnds`, with the assumption below. Strong fairness is needed only because a chain
under way (not `Quiet`) disables the others for a moment, again and again; the event loop serves
each pending callback in a turn of its own. The System 1 gate is off in `PPER_plan` and `PPER_live`,
the runs with liveness: a gate that always idles an agent starves it by design. It is on in
`PPER_churn`.

`FloorEngages` is checked for an LLM that answers with malformed or unbound plans and in a room that
offers a floor binding. With an LLM that answers every time with a plan of mere waiting under a
critical drive the floor plan never comes, because that rejection (`plan-service.ts:305`) is not
counted; errors of transport are not counted either (`plan-service.ts:324`). `FloorHolds` proves
that there is no other such answer.

*Fairness of Conversations.* The sweep runs in every tick, and the memory store takes the notes it
does not refuse (`CONV_rooms` has a store that refuses none); both weakly fair. Nobody is assumed to
talk, answer or leave. `AbandonedIsNoted` is about a conversation that nobody touches any more: one
somebody keeps touching need not end.

*Fairness of the others.* `LlmClient`: an attempt is answered or its timer goes off, a backoff
passes, and a body that has begun to arrive does arrive. The last is an assumption the code does not
enforce: the client stops the timer when the headers are in and reads the body without one
(`openai-client.ts:960`). `MemoryUpkeep`: ticks come, and what a pass awaits is answered
(`EveryCallEnds`). `MindLoop`: ticks come, cycles and proposals end; a cooldown ends after
`failureCooldownMs`, so that an agent whose cycles start again and again perceives at some time
(strong fairness of `Perceives`). `Navigation`: ticks come, and an agent that stays has cycles
(`NoStarvation`); doors may open and close for ever.

## 5. What was met on the way

The models have the code as it is. This section lists where it differs from what a comment or a
specification says, or from what a reader may expect (examples are in `src/examples/`). A property
named here is written down in its module without being among the properties of a run; with the
constants given, TLC finds the trace.

### The agent loop

1. Specification 008 (`docs/specs/008-pper-error-recovery.md:86`) says that `runCycle` is never
   called twice at a time for an agent. A despawn and a respawn while the cycle waits allow it: a
   tick starts a cycle; the agent is despawned, and spawned again with `isThinking` false
   (`scene-mutation-service.ts:488`); the next tick starts another. (`OneCyclePerAgent` with the
   constants of `PPER_churn`; `LockHolds` is about a population that does not change.)
2. The comment at `execute-service.ts:280-284` promises a bound on the executions of a step. A step
   whose object moved to another room is not counted (`:317-333`), nor is a handler that throws
   (`:412`), nor a compound action that aborts (`:311`, `:450`): the plan stays where it is, and the
   next cycle executes the same step. (`BoundedRetry` with one agent and one step that is relocated,
   done or failed.) `PlanProgress` says that nothing else holds a plan for ever, besides a walk that
   never arrives and a Perceive that always fails: a plan that does not end, though its agent has
   cycles, has again and again such an outcome, and from some time on no failure that is counted.
3. The comment of `registerStepFailure` (`execute-service.ts:523`) promises a counter that is reset
   on success and counts failures of the same plan step. An arrival does not reset it, and it is
   keyed by the description, so that a step can be skipped after its first failure.
4. A valid answer of mere waiting under a critical drive is refused without being counted
   (`plan-service.ts:305`), the one answer that keeps the floor plan away; `FloorHolds` says exactly
   that.
5. With nothing to offer `checkPlanBinding` accepts steps that are bound to nothing; the comment at
   `execute-service.ts:211-213` ("Unbound steps never reach here for new plans") is not true then.
   `StoredStepsRun` is about rooms that offer something.
6. `engine/src/assembly.ts:488-490` says of the System 1 feature system that it is registered before
   the scheduler; it is registered after it.

### Conversations and social life

7. `conversation-manager.ts:82` says that the exchange bonus is paid at most once for an agent and a
   conversation. Which bonuses were paid is not saved (`:116`), the conversations are: after a
   restart the next answer pays again. (`BonusOnce` with one room, `Cap` 2, `Window` 2, a save and a
   restart.)
8. A conversation becomes `active` with the second message of whoever opened it, although nobody has
   answered (`conversation.ts:27`, `:137-184`). Once the opener has left, whoever stands first among
   the participants is called the initiator (`:141`, against `:31-33`).
9. A conversation that closes during the await of a save is saved as closed, its notes are not:
   after a restart nobody remembers it (`engine-persistence.ts:94` and `:114`).
10. A save without conversations, loaded into the running process, takes the mirrors of the live
    ones away, so that nobody can join them (`engine-persistence.ts:188`). `MirrorsExact` says of
    such a load only that no dead mirror appears. Notes on their way when an older save is loaded
    are stored besides those its conversations leave when they end again.
11. In such a load the dormant agents of now meet the counters of then, and a dormant record that
    was never claimed becomes current again. With two agents the scene does not start with and seven
    spawns and despawns TLC finds a pair that has silenced itself; the theorem `NeverSilenced`
    therefore assumes that saves are loaded by new processes.
12. With a conversation of three two agents may share two open conversations. `talk_to` answers the
    one that was opened first, so that the other still awaits its reply.
13. Messages are taken out of the queue in Perceive, before the classifier is awaited: a cycle that
    fails then has lost them, and `social-messages`, of the fourth tier, is cut first within its
    tier. `surfaced` and `decayed` can both hold of an agent (`perception-builder.ts:224-225`).
    `help` boosts the raw name it was given (`cognitive-tool-executor.ts:573`): helping by display
    name boosts nobody. `help`, `observe` and `ignore` ask neither for a common room nor for another
    agent.
14. A cycle whose agent is despawned when it weighs takes everybody for a stranger; `OfferStands`
    excepts it. `PerceptionBuilderImpl` is constructed in tests only: pending addresses, overheard
    talk and urges reach no live prompt. The comment at `perception-builder.ts:159-163` says that
    every affordance or tool the text names is among the tools. Three texts are put together without
    a look at them, one of them in the live prompt. The advice after a failure says to plan
    `harvest` or `eat` instead, wherever the agent is (`plan-builder.ts:333-336`). To an agent
    without a plan the perception prompt gives hints for affordances
    (`perception-builder.ts:274-287`) that masking hides (`:312`), and the directive to call
    `formulate_plan` first (`:373-375`), which without masking is not among its tools (`:312-318`).
    `NamesOffered` says that what these name in vain is all that is named in vain. Of the last block
    that has to stay the text itself is cut at the end of the budget, in mid-word if need be, and
    `social-directive` may stay when `agents-present` goes; `NothingDangles` does not look into
    blocks.

### The scene, objects, walking

15. `scenes/index.ts:118` says that the mutation service validates first and converts the exceptions
    of the scene manager. It validates when a mutation is proposed, and converts nothing when it is
    applied (`scene-mutation-service.ts:171`): two removals of one connection, accepted before the
    same tick, end the game loop (`loop/index.ts:115-121`). (`NeverThrown` with the constants of
    `SCENE_edit`.)
16. `docs/specs/030-dynamic-scenes-living-worlds.md:59-60` (AC-7, AC-8) says that connections are
    the same after a save and a restore, and that the log explains them. Persistence looks at a
    scene manager `loadScene` has replaced (`assembly.ts:316`, `:680`): after a restart the
    connections are those of the scene. With the live one open connections are saved, but which
    pairs are closed is not (`scenes/index.ts:95`), so that a closed pair can no longer be opened.
    (`ConnectionsSurvive` with `Wirings` `{FALSE}`.)
17. The rule that no room loses its last connection (`scene-mutation-service.ts:343`) is checked
    against the world before the tick: two removals of different connections of a room pass
    together. Of two accepted additions of one identifier the second replaces the object; a first
    one in another room stays in that room's list. `Listed` is the other direction only.
18. A fresh spawn leaves the dormant record of the agent where it is, and the next despawn
    overwrites it; a wake queued behind a fresh spawn replaces the new life by the old one, and a
    wake queued twice meets the line that calls itself unreachable
    (`scene-mutation-service.ts:493`). A doorway has one `open` for all its connections. A generated
    doorway is in no room's list (`scene-loader/index.ts:145`).
19. Two state rules on one field share the key of the throttle (`object-state.ts:18`, `:35`), so
    that the second one (`coffee-shop.ts:147-148`) is never applied, and a throttled rule applies
    one tick's part of its rate per interval. `build_planter` reads `taken_by` of its own state,
    which `take_tool` writes on the toolbox (`dynamic-world.ts:428-429`). Of a fraction of a unit
    that a rule has left a handler takes a whole one, so that a level falls below zero
    (`handler-plugins.ts:257`). `carry` declares a cost its handler does not charge. The hint for a
    chain names its first link even when the planter is full.
20. An awaited handler writes the state it computed from the state of its call: what others did
    meanwhile is lost. `BooksBalance` excepts exactly those objects (`settled`).
21. `no-route` at `navigation.ts:170` leaves `pendingAreas` as it is (against `:142` and
    `docs/specs/065`): later steps are answered for the old area. (`NoRouteHonest` with the
    constants of `NAV_walk`.) The crossing of a door (`:299`) does not look at the door again. A
    `go_to_` handler of the doorway fixtures (`handler-plugins.ts:178-199`) teleports and leaves an
    older walk running: the agent is `astray`, and the next door of that walk fetches it from
    wherever it is into a room that need not be next door. `OnRoute` and `OnlyNextDoor` say that
    nothing else makes an agent jump, and that it jumps once: from that room the walk leads on. The
    last hop of a walk (`:328`) leaves the agent in the grid of the old room. What others tell
    counts as visited (`agent.ts:147`). Objects that are added or moved have no anchor.

### LLM client, memory, System 1

22. The body of a response is read without a timer (`openai-client.ts:960`). Usage is reported only
    after a usable tool call (`:1026`). What tools did in a call that ends for want of iterations
    remains done. `update_self_model` is offered but not among the names the client takes for
    cognitive tools (`:176-184`), and `executeUpdateSelfModel` has no caller.
23. The budget of `modify_scene` is never reset (`cognitive-tool-executor.ts:641-644` says per
    cycle): one accepted proposal per agent and process. A memory entry whose importance or type is
    out of range fails the whole reflection, although the client has repaired it
    (`openai-client.ts:645-664`, `reflect-service.ts:387-420`).
24. Insights are stamped with `Date.now()` (`openai-client.ts:692`, against `memory.ts:18` and
    specification 014), so that they count as recent for ever (`AsksForNews` with the constants of
    `MEM_upkeep`). Two insights of different agents made in one millisecond have one id.
    `reflectionLoop.start()` has no caller in the assembly; a load keeps the times and passes of the
    loop that was running.
25. An auto-save truncates the file before it writes it, without being awaited: a crash in between
    leaves a file nobody can parse.
26. A retrieval fetches three times as many memories as it returns and then drops those of others
    (specification 014, "3x over-fetch"): an agent's own can be crowded out (`CrowdedOut`).
    `RetrievalEngineImpl` and `MemoryInjectorImpl` are constructed in tests only. A load leaves the
    accumulator of the game loop as it was (`LeftoverSurvives`).
27. There are two trackers of the last cycle: that of the triggers (`engine/src/assembly.ts:393`) is
    never written by the outcome recorder, which has its own (`assembly/src/assembly.ts:618`). So a
    change nearby alarms for ever after (`system1-trigger-source.ts:95-100`), and a drive that
    crosses a threshold never does. (`NearbyIsNews` with the constants of `MIND_ticks`.)
28. `passesUsed` is read before an await (`identity-consolidation.ts:64`): overlapping passes exceed
    `maxConsolidationsPerSession`. (`PassesBounded` with the constants of `MIND_ticks`.) With the
    default interval the first change of a self-model is the last: the tick of the change defaults
    to 0 and stays there. Changes made to a despawned agent are lost. `resetSession` and
    `resetSessionBudget` have no callers.
29. `selectScene` of the visualizer (`data-adapter.ts:268`) puts another scene into the running
    engine, leaves log, queue and dormant agents of the one before, hands the rooms uncopied to the
    engine, and does not start the loop again, as its comment says it does. An upgrade that arrives
    after `stop()` keeps `httpServer.close()` waiting.

## 6. The proofs

All proof modules prove for all values of the constants that satisfy the named assumptions: any
finite set of agents, any rooms, limits, plans and answers, any bounds.

| theorem of `PPERCycles_proofs` | says |
|---|---|
| `TypeCorrect` | `Spec => []TypeOK` |
| `CounterCorrect` | `Spec => []ActiveCyclesExact` |
| `ThinkingCorrect` | `Spec => []ThinkingHasOwner` |
| `PoolImplemented` | `Spec => ImplementsPool` |
| `LockCorrect` | `Spec => []LockHolds`, if `MaxChurn = 0` and `~HandlersSuspend` |
| `CooldownCorrect` | `Spec => []CooldownConsistent`, under the same assumptions |
| `OutcomesCorrect` | `Spec => OutcomesTrue`, under the same assumptions |
| `LifecycleImplemented` | `Spec => ImplementsLifecycle`, under the same assumptions |

`ActiveCyclesExact` is not inductive by itself: whether a step of a cycle ends it or lets it wait,
and how many cycles a pass may start, depends on the types and on who is thinking. The inductive
invariant `IInv` joins `DataOK` (the types, without that of the counter, and the fact that a cycle
which waits for a handler was at a step), `ActiveCyclesExact` and `ThinkingHasOwner`; the type of
the counter follows from its exactness, the cardinality of a finite set. The argument has three
layers:

- *Operators.* Advancing, skipping, stamping and counting keep their types; the counting lemma
  `FirstFew` says that the positions a pass reaches, counted from the front, hold at most as many
  willing agents as there are places left.
- *Shapes.* Every step of a cycle either lets it wait elsewhere or ends it (`Moves`); this is proved
  action by action, together with the types of what the action writes. The other steps are a pass, a
  cooldown that elapses, and a spawn or despawn.
- *Invariance.* The invariant is kept by each shape, once, and so by `Next`. The temporal steps are
  the usual ones.

`PoolImplemented` needs in addition that one pass starts at most one cycle of each agent: a pass
fills, for every starter, the one slot `FreeSlot` chooses.

The other four are about a population that does not change and handlers that answer in the turn they
are called in; section 5 says what becomes of the properties without that. Their argument has two
layers more:

- *The lock.* `LockInv` says that an agent has at most one cycle in flight (`Solo`), is thinking in
  every phase the scheduler can find a cycle in (`Locked`), is active (`Present`), and that its
  cooldown agrees with its failures. Each part needs the others: a pass starts only agents that are
  not thinking, hence (`Locked`, and nothing between two turns) have no cycle, hence stay `Solo`;
  where a cycle waits next the flag is on because it was on (`WaitsLocked`); and since a cycle in
  flight means no cooldown, the failure a cycle ends with is the first since it began.
- *The plan.* With the lock, what a waiting cycle captured is still its agent's plan (`Knows`), and
  the skip total of the execute service is the plan's own (`PlanFits`): that is the inductive
  `PlanInv`. Every step of a cycle then gives the plan one of five fates (`Fate`): it stays, is
  adopted, advances, is abandoned or is reported. `OutcomesCorrect` and `LifecycleImplemented` look
  at the fates only: each is a step of `PlanLifecycle` or none.

| theorem of `Conversations_proofs` | says |
|---|---|
| `TypeCorrect` | `Spec => []TypeOK` |
| `MirrorsAreExact` | `Spec => []MirrorsExact` |
| `NeverSilenced` | `Spec => []NoMutualSilence`, if `"inPlace" \notin LoadWays` |
| `MonologuesEarnNothing` | `Spec => []NoRewardForMonologue` |
| `BonusesAreFair` | `Spec => []FairBonus`, if `"restart" \notin LoadWays` or `MaxLoads = 0` |
| `StrayersAreSwept` | `Spec => []StrayersSwept`, if `"inPlace" \notin LoadWays` |
| `LivesAsPromised` | `Spec => ImplementsLife`, if `MaxLoads = 0` and `~WritesFail` |

- *Types.* What appending, removing, closing and sweeping make of a conversation is a conversation;
  every action that changes conversations is a commit (`Commits`) in which no conversation is
  forgotten and only synced ones change between live and closed.
- *Mirrors.* `MInv` adds to the property what a save needs: it holds no mirror of a conversation it
  does not hold. That is so although it is read in two parts, because conversations are never
  forgotten. Syncing all conversations of a save then mends whatever happened in between, and for a
  save that holds none there is no mirror to mend.
- *No silence.* The counters of a pair move in opposite directions with every talk, so one would
  like their sum to be 0. It is not: a newcomer starts at 0, a dormant agent keeps his counters
  while those of the other may be reset. What is kept (`BInv`) is that no counter exceeds `Cap`, nor
  the sum of the debts of a pair, where the debt of an agent who is not active is read from the
  dormant store. Both counters at the cap would be twice that. The same must hold of the agents of a
  save in flight with the dormant agents of now, which is why a despawn during a save would break
  it, and of a finished save with its own.
- *Steps of a conversation.* One lemma per action says that every conversation stays, begins or goes
  on (`AllStep`): it keeps its room and whoever has spoken in it, and ends at most once. What is
  live has members and a room, and what was said was said by who took part (`WellKept`, also of the
  conversations of a save): that is `KInv`, on which the next three rest.
- *The bonus.* `RInv`: who was paid has spoken, and so has another, in `paid` and in every save. Of
  a save the payments are read before the await and the conversations after it, which is sound as
  those who have spoken are never fewer. That nobody is paid twice (`OInv`) rests on the grants,
  which are not part of a save: a process started from one may pay again, hence the assumption.
- *Strayers.* `SInv`: who is in a live conversation of another room has moved since the last sweep.
  For a save it speaks of the places before its await and the conversations after it; in between
  agents walk, but nothing sweeps. A load into the running process takes agents back to older rooms
  and keeps conversations that began since, hence the assumption.
- *A life.* No note is due or stored of a conversation that has not ended (`LInv`); a step of the
  model is one of `ConversationLife` for every conversation (`Lives`). A save brings a conversation
  back to life, and a store that rejects a note breaks the promise: that is not what the abstract
  specification describes, hence the two assumptions.

| theorem of `SceneWorld_proofs` | says |
|---|---|
| `TypeCorrect` | `Spec => []TypeOK` |
| `ConnectionsTwoSided` | `Spec => []TwoSided` |
| `CastNeverLost` | `Spec => []NobodyLost` |
| `RoomsListTheirThings` | `Spec => []Listed` |
| `TheLogExplains` | `Spec => []LogExplains` |
| `OpenDoorsTell` | `Spec => []DoorsTell` |
| `TheStoresAgree` | `Spec => []StoresAgree` |

A property of the world is not inductive, because a load brings back the world of a save: each
invariant (`SidedInv`, `KeptInv`, `ListInv`, `LogInv`, `DoorInv`) says the same of `saved.world`.
The argument is one of worlds: the scene has the property, every mutation keeps it (one lemma for
each operator), and so does what a save makes of a world.

- *Connections.* Validation plays no part: an insertion that finds a connection throws instead of
  being applied, and that, with the two-sidedness of what it looks at, is what keeps a pair from
  being open and closed at once.
- *Agents.* An agent is in one store or the other, at times in both. A save without a dynamic part
  brings no dormant agents back; it was made when there were none, which `KeptInv` remembers.
- *Rooms.* `Listed` speaks of the case that persistence has the live scene manager. Otherwise a load
  brings the objects of the save back into rooms that do not list them.
- *The log.* `Replayed` is a recursive function of the log, and what it makes of a log with one
  event more is one mutation applied (`IsPast`; that there is such a function for a log of any
  length is an induction on the set of these lengths, `SetInduction`). What has to be kept is that
  applying a mutation to two worlds that are alike leaves them alike: `Applied` reads nothing in
  which the world and the replayed log may differ. A load starts from a world that its own log
  explains; only a save without a dynamic part that is put into a running process leaves the world
  without its log, which `bare` remembers, in the save too.
- *Doorways.* `DoorInv` needs `SidedInv`: a doorway says that it is open because a connection is
  found in one room, and two-sidedness puts that into the other one, where the doorway may stand.

| theorem of `LlmClient_proofs` | says |
|---|---|
| `TypeCorrect` | `Spec => []TypeOK` |
| `CallsAreBounded` | `Spec => []RequestsBounded` |
| `EndingsAreTrue` | `Spec => []EndsTruly` |
| `BatchIsComplete` | `Spec => []PlannedOnce` |

The invariant is one of single calls and of the batch (`CallInv`, `BatchInv`), since callers share
nothing. What bounds the requests is lexicographic, a count of finished attempts by round and
repair: `sent` never exceeds the attempts of the rounds that are over plus those of the present one.
One lemma for each operator that makes a call from a call, then one step for each action.

| theorem of `ObjectUse_proofs` | says |
|---|---|
| `ShapesHold` | `Spec => []Shapes` |
| `HandsOnHolds` | `Spec => HandsOn` |
| `RelocationSticksHolds` | `Spec => RelocationSticks` |
| `AllOrNothingHolds` | `Spec => AllOrNothing` |
| `BooksAlwaysBalance` | `Spec => []BooksBalance` |
| `OffersAlwaysHold` | `Spec => []OffersHold`, if `OfCatalog(Scene)` |
| `ShippedOffersHold` | `Spec => []OffersHold` for `DynamicWorld` with its handlers, and for `CoffeeShop` |

The first two are action properties. A handler is called by three operators only, each behind the
guard of the physics system (`SubStepNear`, `StartNear`, `CompoundNear`); what is written late
touches the state of an object and not its room (`WrittenRooms`). `Shapes` says that calls are
records of their fields, without which nothing can be said of one that is changed.

- *Deeds.* `DeedInv` says of every call under way how far it is: what it has carried out and what is
  left are the two parts of its list, in order, with the one it is carrying out between them if it
  waits for a handler (`Amid`), and with none if it does not (`Onto`). So a call that pays has
  carried out its whole list. The argument is on sequences cut at `n`, hence any length.
- *Books.* Of each handler: which of the four numbers it moves, and by how much (`Accounts`); of the
  others, the rules, the chains and the answers written late: none, or the object is `settled`. What
  a call under way will write accounts for the state the object has, unless somebody wrote meanwhile
  (`CallBooks`). `SceneAssumption` is needed: were two objects to offer `eat`, the tally could not
  tell them apart.
- *Offers.* `SolidInv`: all quantities are numbers (in parts of a unit where a rule leaves
  fractions), in the objects and in the answers under way, whatever rules and handlers add. Then
  each conditional affordance of the catalog is looked at once, with its condition and its handler.
  `OfCatalog` says that a scene has no other conditional affordances, and registers the garden's
  handlers if it has a garden; that both scenes of the repository are such is proved by going
  through their objects.

| theorem of `SocialLife_proofs` | says |
|---|---|
| `LedgerAlwaysAgrees` | `Spec => []LedgerAgrees` |
| `OffersStand` | `Spec => []OfferStands` |
| `NamesAlwaysOffered` | `Spec => NamesOffered` |
| `NothingEverDangles` | `Spec => NothingDangles` |

`LedgerAgrees` is inductive together with the kinds of the relationships (`Kinds`). Every change of
a relationship is one operator (`Updated`), with a lemma for what it does to the counters
(`UpdatedType`) and one for changes that leave them alone (`SilentUpdate`); `TalkToOK` is the one
action that moves two counters and a queue.

`OffersStand` is about a prompt made before an await and read after it. `OfferInv` says of a cycle
that asks: whom its prompt offers was not capped when it was made, and nobody but the agent itself,
by talking, which `talked` notes, can have used that up since: what others send to it only lowers
its account (`StaysOpen`).

The last two are about what a step puts into a prompt. `PromptInv` carries what they need of the
state: drives are numbers, and a cycle that has looked has kept such drives. The rest is about
operators, for every prompt made of such drives and of a list of affordances (`SoundPrompt`).
`PromptHolds` rests on two facts: the context gets no longer when blocks go (`LengthGrows`, over the
recursive sum of the lengths), and blocks go in the order of a number (`RankOrders`). So the first
optional block that stays has everything left after it within the budget, and a block that goes
before another never outlives it (`WhatStays`); that a directive goes before the list it is about is
then a look at tiers and positions (`WhatGoesFirst`). `PromptNamesTools` follows the texts and the
tools through the two ways a plan prompt orders its tools, the move of `talk_to` to the front and
the removal of `formulate_plan` from a prompt with a plan. For the three texts that are not tied to
the tools it says what they miss: of the advice the affordances the room does not offer, of the
hints all of them if the affordances are masked and none otherwise, of the directive
`formulate_plan` unless they are masked. This needs that no affordance has the name of a cognitive
tool (`SocialLifeAssumption`).

| theorem of `SocialLife_proofs` about `LlmAnswers` | says |
|---|---|
| `SchemaSuffices` | what the schema allows, with texts and a target or an area in every step, is accepted |
| `FloorNeverFails` | in every situation there is a floor plan that would be stored |
| `FloorHolds` | after enough failures something is stored, unless the answer was mere waiting under a critical drive |
| `StoredStepsRun` | every stored step names what is offered or an area, and the guardrail has no objection in the same room |
| `MemoriesFit` | what is stored of a reflection is in range; after a deliberate pause nothing is stored |
| `OverridesBounded` | drives stay between 0 and 100 and move by no more than allowed |

These are about operators, for every situation and every answer. The floor takes the first remedy of
the first critical drive; that there is a first one is the least-number principle, taken from
`WellFoundedInduction` (`FirstIsLeast`). That `FloorNeverFails` needs no case for "nothing can be
done" shows that the `null` of `choosePlanFloorTarget` is unreachable.

| theorem of `MemoryUpkeep_proofs` | says |
|---|---|
| `OnePassAlways` | `Spec => []OnePassEach` |
| `RecallsOwn` | a retrieval returns the agent's own memories, at most as many as asked for |
| `RecallsBest` | nothing that was scored is left out for something worth less |
| `RecallKeeps` | no memory of anyone becomes prunable by a retrieval |
| `ImportanceFits` | a composed importance is from 1 to 10, and the model moves it by 3 at most |
| `NoTimeIsLost` | a frame plays the time that has passed at the speed set, less a rest under a tick |
| `UpkeepTypeCorrect` | `Spec => []TypeOK` |
| `WrittenIdsAreFresh` | `Spec => []FreshIds` |
| `TimeMeansWorkDone` | `Spec => TimeMeansDone` |
| `BudgetsAlwaysHold` | `Mind!Spec => []BudgetsHold`, where `Mind` is `MindLoop` |

`PassInv` adds to `OnePassEach` that a slot is free or holds a pass of an agent; it is kept by going
on (`GoesOn`), by ending (`Ends`) and by a load into the running process (`LoadKeeps`). Retrieval
orders memories by worth and then by place, so that the best are unique (`BeforeOrders`,
`Greatest`). `RecallKeeps` needs of the exponentials only that they never grow.

- *Fresh ids.* Ids are agent, time and counter. Within a process the counter tells them apart;
  across a restart the time must. `IdInv` names the time that does: there is a `b`, not after the
  clock, such that every memory in the store is from before `b` or has a number below the counter,
  and what is being embedded is not from before `b` (`Divides`); the same is so of the saves, which
  hold memories from before their own clock only (`InOrder`), so that at a restart the clock of the
  save is the next `b`. A load into the running process takes the clock back and ends `InOrder` for
  good, and with it the argument for the processes after it.
- *Work done.* `WorkInv` says of every pass which of its memories it has already lowered, and that
  its insights are stored, stage by stage (`Done`, `Staged`); other passes cannot undo it because
  what a pass has read is its own agent's (`OwnInv`), an agent has one pass at a time (`PassInv`),
  and writes use fresh ids. An id that two memories got, or a load that replaced the nodes, is
  excepted by the property.
- *Budgets.* `BudgetsHold` is inductive together with the types of `Identity`, for every step of
  `Identity` on its own. Every step of `MindLoop` is one or leaves `identityVars` alone. The theorem
  is in this module because both are about single minds; `MindLoop` is an instance in it.

| theorem of `Navigation_proofs` | says |
|---|---|
| `NavigationTypes` | `Spec => []TypeOK` |
| `WalksLeadOn` | `Spec => []OnRoute` |
| `NobodyJumps` | `Spec => [][OnlyNextDoor]_vars` |
| `OfferedDoorsOpen` | `Spec => []OffersWalkable` |

A route is chosen as a shortest one; of that the proofs use only that it is a chain of connections
(`Ways`, `Route`). `RouteInv` adds to `OnRoute` that who is gone does not walk: an agent that is
spawned anew elsewhere would otherwise inherit a walk. Advancing drops the first room of the walk
when its agent enters it (`Stepped`), which keeps the rest a chain from there; so no step leads
further than next door (`OnlyNextDoor`, an action property that no run has). Both hold for any
fixtures. An agent that a teleport takes out of its walk is `astray` until the walk is replaced or
enters its next room: meanwhile the rest of the walk is a chain from that room, no longer from where
the agent is, and entering it is the one step that may lead further (section 5, item 21).
`OffersWalkable` does not need the invariant: offer and answer look at the same doors, and where a
door is open there is a way, of which there is then a shortest.

Only model-checked, because the prover has no rules for fairness and ENABLED: all liveness, which is
`NoStarvation`, `PlanProgress`, `FloorEngages`, `AbandonedIsNoted`, `EveryCallEnds`, `PassEnds`,
`GateLetsThrough` and `StepAnswered`. Every safety property of the runs, of states and of steps, is
stated by a theorem. What is left out of recursion is general induction: the theorems of the library
that take an operator cannot be used, those that take a set (a least element of it, and so induction
on a set of numbers) can, which is how the log, the order of a retrieval and the lengths of a prompt
are dealt with.

## 7. What is not modelled

- *Space below rooms.* Cells, occupancy and the search for a path over a grid; explored cells and
  the reward for them. `Navigation` has doors, objects and "another cell".
- *Numbers without interaction.* Embeddings, classifier scores, the features and weights of System 1
  (a free choice of the gate), the dream update (it has no caller).
- *Caches and reports.* The affordance cache (not wired), usage reports, the session log, the YAAM
  log, diagnostics.
- *Perception that is not live.* Overheard talk, pending addresses and remembered objects, which
  only `PerceptionBuilderImpl` reads; it is constructed in tests only.
- *Files.* The JSON of saves, its validation and migration; the command line. Two auto-saves that
  write the file at the same time are in `MemoryUpkeep` as far as a crash finds it empty, not as far
  as their bytes interleave.
- *The visualizer.* Its server, client and snapshots are a view; its commands are where they act.
- *Texts.* Prompts are blocks, tools and lengths; wording, names and topics are left out everywhere.
- *One whole.* The modules share what they need of each other as free choices (an answer of the LLM,
  a step outcome, a spawn), so that each allows at least what the others do; they are composed only
  in `MindLoop` and in the prompt, answer and social modules. `MemoryUpkeep` and `Conversations`
  each have their own part of a save.
