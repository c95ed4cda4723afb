---------------------------- MODULE MemoryUpkeep ----------------------------
(***************************************************************************)
(* The memories of evol-hive: what writes them, the background reflection  *)
(* that consolidates them, and the saves they outlive the process in.      *)
(*                                                                         *)
(* The vector store is a map in memory: a method of it runs at its call,   *)
(* and only what its caller does next waits for a turn of the event loop.  *)
(* Embeddings, the language model and the file system take real time.      *)
(***************************************************************************)
EXTENDS Integers, Sequences, FiniteSets, Population

CONSTANTS
  Llm,             \* who writes insights: no agent
  NodeThreshold,   \* ReflectionConfig.nodeThreshold
  IdleThreshold,   \* ReflectionConfig.idleThresholdSeconds, in ticks
  Importances,     \* what a new memory may be rated
  Slots,           \* places for passes under way, more of them than agents
  MaxClock,        \* bound on the ticks of the game loop
  MaxWall,         \* bound on the steps of Date.now() seen
  MaxWrites,       \* bound on the memories a process writes
  MaxListed,       \* bound on the ids an answer of the model lists
  AutoSaveEvery,   \* AutoSaveConfig.intervalTicks
  MaxRestarts      \* bound on the restarts

ASSUME UpkeepAssumption ==
  /\ Llm \notin Agents /\ IsFiniteSet(Agents) /\ IsFiniteSet(Slots)
  /\ NodeThreshold \in Nat \ {0} /\ IdleThreshold \in Nat \ {0}
  /\ Importances \subseteq 1..10 /\ 8 \in Importances
  /\ MaxClock \in Nat /\ MaxWall \in Nat \ {0} /\ MaxWrites \in Nat
  /\ MaxListed \in Nat /\ AutoSaveEvery \in Nat \ {0} /\ MaxRestarts \in Nat

VARIABLES
  clock,       \* the simulation time of the game loop
  ticks,       \* tickCounter: ticks of this process
  restarts,    \* restarts so far
  wall,        \* Date.now()
  memCounter,  \* MemoryStoreImpl.memCounter, a static of the process
  store,       \* nodes of the vector store, by id
  embedding,   \* memories whose embedding is awaited, their time already taken
  running,     \* running, of the reflection loop
  asks,        \* times shouldReflect has said yes and is not heard yet, by agent
  passes,      \* runReflection calls under way
  reflecting,  \* reflectingAgents
  last,        \* lastReflectionTime
  writing,     \* states of saveToFile calls whose file is being written
  file,        \* the save file
  reloaded,    \* has a state been loaded into a running process: this one, or
               \* one before it?
  whose        \* history: the agent an id was given a memory of, or Llm if the
               \* id was given to two memories

memory == <<memCounter, store, embedding>>
upkeep == <<running, asks, passes, reflecting, last>>
disk == <<writing, file>>
history == <<reloaded, whose>>
vars == <<clock, ticks, restarts, wall, memory, upkeep, disk, history>>
-----------------------------------------------------------------------------
(* Ids tell who made a memory, when, and a number: mem_<agent>_<simulation *)
(* time>_<memCounter> of a written one, mem_consolidated_<Date.now()>_<i>  *)
(* of an insight.                                                          *)
Ids == [by : Agents \cup {Llm}, at : Nat, n : Nat]
Nodes == [agent : Agents, stamp : Nat, importance : 1..10]
Unheard == [by |-> Llm, at |-> 0, n |-> 0]   \* an id the model made up

\* Date.now() is far beyond any simulation time.
Wall(w) == MaxClock + w

Put(f, i, v) == [j \in DOMAIN f \cup {i} |-> IF j = i THEN v ELSE f[j]]

Given(i, a) == Put(whose, i, IF i \in DOMAIN whose THEN Llm ELSE a)

Empty == [i \in {} |-> 0]
Free == [agent |-> Llm, stage |-> "none", start |-> 0, read |-> Empty, left |-> 0,
         made |-> 0, at |-> 0, listed |-> <<>>, todo |-> <<>>, got |-> 0, whole |-> TRUE]

Owned(a) == {i \in DOMAIN store : store[i].agent = a}
Recent(a) == {i \in Owned(a) : store[i].stamp >= last[a]}

\* shouldReflect
ShouldReflect(a, now, isIdle) ==
  \/ Cardinality(Recent(a)) >= NodeThreshold
  \/ isIdle /\ now - last[a] >= IdleThreshold

Halved(n) == IF n \div 2 >= 1 THEN n \div 2 ELSE 1
-----------------------------------------------------------------------------
NoAsks == [a \in Agents |-> 0]

Init ==
  /\ clock = 0 /\ ticks = 0 /\ restarts = 0 /\ wall = 1
  /\ memCounter = 0 /\ store = Empty /\ embedding = {}
  /\ running = FALSE /\ asks = NoAsks /\ passes = [s \in Slots |-> Free]
  /\ reflecting = {} /\ last = [a \in Agents |-> 0]
  /\ writing = {} /\ file = <<>>
  /\ reloaded = "never" /\ whose = Empty

(* A tick asks for every active agent; of the ticks of one frame none waits *)
(* until the answers of those before it are heard.  An auto-save takes the  *)
(* clock and the nodes at once; its file is empty from the time it is       *)
(* opened until all of it has been written, and nothing waits for that.     *)
Tick ==
  /\ clock < MaxClock
  /\ clock' = clock + 1
  /\ ticks' = ticks + 1
  /\ \E idle \in SUBSET Agents :
       asks' = [a \in Agents |-> IF ShouldReflect(a, clock', a \in idle) THEN asks[a] + 1 ELSE asks[a]]
  /\ IF ticks' % AutoSaveEvery = 0
     THEN /\ writing' = writing \cup {[clock |-> clock', store |-> store]}
          /\ file' = <<>>
     ELSE UNCHANGED disk
  /\ UNCHANGED <<restarts, wall, memory, running, passes, reflecting, last, history>>

Start == ~running /\ running' = TRUE
         /\ UNCHANGED <<clock, ticks, restarts, wall, memory, asks, passes, reflecting, last, disk, history>>
Stop == running /\ running' = FALSE
        /\ UNCHANGED <<clock, ticks, restarts, wall, memory, asks, passes, reflecting, last, disk, history>>

(* MemoryStoreImpl.store: Reflect, and the end of a conversation, take the *)
(* time and await the embedding of their memory; then it gets its id.      *)
WriteBegins(a) ==
  /\ ticks > 0 /\ Cardinality(embedding) + memCounter < MaxWrites
  /\ embedding' = embedding \cup {[agent |-> a, stamp |-> clock]}
  /\ UNCHANGED <<clock, ticks, restarts, wall, memCounter, store, upkeep, disk, history>>

NewId(e) == [by |-> e.agent, at |-> e.stamp, n |-> memCounter]

Written(e) ==
  /\ embedding' = embedding \ {e}
  /\ memCounter' = memCounter + 1
  /\ \E imp \in Importances :
       store' = Put(store, NewId(e), [agent |-> e.agent, stamp |-> e.stamp, importance |-> imp])
  /\ whose' = Given(NewId(e), e.agent)
  /\ UNCHANGED <<clock, ticks, restarts, wall, upkeep, disk, reloaded>>

WriteFails(e) ==
  /\ embedding' = embedding \ {e}
  /\ UNCHANGED <<clock, ticks, restarts, wall, memCounter, store, upkeep, disk, history>>
-----------------------------------------------------------------------------
(* runReflection.                                                          *)
\* A plausible mistake: nothing keeps a second pass of an agent out.
MayBeginAgain(a) == running
MayBegin(a) == running /\ a \notin reflecting

Begun(a) == [Free EXCEPT !.agent = a, !.stage = "thinking", !.start = clock,
                         !.read = [i \in Owned(a) |-> store[i].importance]]

RunReflection(a) ==
  /\ asks[a] > 0
  /\ asks' = [asks EXCEPT ![a] = @ - 1]
  /\ IF MayBegin(a)
     THEN /\ reflecting' = reflecting \cup {a}
          /\ \E s \in Slots : /\ passes[s] = Free
                              /\ \A t \in Slots : t < s => passes[t] # Free
                              /\ passes' = [passes EXCEPT ![s] = Begun(a)]
     ELSE UNCHANGED <<passes, reflecting>>
  /\ UNCHANGED <<clock, ticks, restarts, wall, memory, running, last, disk, history>>

\* A plausible mistake: no finally block.
FailsMarked(s) ==
  /\ UNCHANGED reflecting
  /\ passes' = [passes EXCEPT ![s] = Free]
  /\ UNCHANGED last

\* The finally block of a pass that threw.
Fails(s) ==
  /\ reflecting' = reflecting \ {passes[s].agent}
  /\ passes' = [passes EXCEPT ![s] = Free]
  /\ UNCHANGED last

\* What a pass does next, with p its state after what it has just done.
Onward(s, p) ==
  IF p.left > 0 \/ p.todo # <<>>
  THEN /\ passes' = [passes EXCEPT ![s] =
                       [p EXCEPT !.stage = IF p.left > 0 THEN "storing" ELSE "getting"]]
       /\ UNCHANGED <<reflecting, last>>
  ELSE /\ passes' = [passes EXCEPT ![s] = Free]
       /\ reflecting' = reflecting \ {p.agent}
       /\ last' = [last EXCEPT ![p.agent] = p.start]

Lists(p) == UNION {[1..k -> DOMAIN p.read \cup {Unheard}] : k \in 0..MaxListed}

\* Insights are named by the time of their answer.  Those of two agents may
\* come in one millisecond, those of one agent do not.
Instants(p, new) ==
  IF new = 0 THEN {wall}
  ELSE {w \in {wall, wall + 1} \cap 1..MaxWall :
          \A i \in Owned(p.agent) : i.by = Llm => i.at # w}

Answered(s) ==
  LET p == passes[s] IN
  /\ p.stage = "thinking"
  /\ \E new \in 0..1, listed \in Lists(p) : \E w \in Instants(p, new) :
       /\ wall' = w
       /\ Onward(s, [p EXCEPT !.left = new, !.at = w, !.listed = listed, !.todo = listed])
  /\ UNCHANGED <<clock, ticks, restarts, memory, running, asks, disk, history>>

\* The model fails, or the embedding of an insight does.
Broke(s) ==
  /\ passes[s].stage \in {"thinking", "storing"}
  /\ Fails(s)
  /\ UNCHANGED <<clock, ticks, restarts, wall, memory, running, asks, disk, history>>

InsightId(p) == [by |-> Llm, at |-> p.at, n |-> p.made]

InsightStored(s) ==
  LET p == passes[s] IN
  /\ p.stage = "storing"
  /\ store' = Put(store, InsightId(p), [agent |-> p.agent, stamp |-> Wall(p.at), importance |-> 8])
  /\ Onward(s, [p EXCEPT !.left = @ - 1, !.made = @ + 1])
  /\ whose' = Given(InsightId(p), p.agent)
  /\ UNCHANGED <<clock, ticks, restarts, wall, memCounter, embedding, running, asks, disk, reloaded>>

\* A plausible mistake: an id that is not there ends the loop.
SkippedAll(p) == [p EXCEPT !.todo = <<>>]
Skipped(p) == [p EXCEPT !.todo = Tail(@)]

Got(s) ==
  LET p == passes[s] IN
  /\ p.stage = "getting"
  /\ IF Head(p.todo) \in DOMAIN store
     THEN /\ passes' = [passes EXCEPT ![s] =
                          [p EXCEPT !.stage = "lowering", !.got = store[Head(p.todo)].importance]]
          /\ UNCHANGED <<reflecting, last>>
     ELSE Onward(s, Skipped(p))
  /\ UNCHANGED <<clock, ticks, restarts, wall, memory, running, asks, disk, history>>

Lowered(s) ==
  LET p == passes[s]
      i == Head(p.todo) IN
  /\ p.stage = "lowering"
  /\ store' = IF i \in DOMAIN store THEN [store EXCEPT ![i].importance = Halved(p.got)] ELSE store
  /\ Onward(s, Skipped(p))
  /\ UNCHANGED <<clock, ticks, restarts, wall, memCounter, embedding, running, asks, disk, history>>
-----------------------------------------------------------------------------
(* Saves and loads.                                                        *)
SaveEnds(f) ==
  /\ writing' = writing \ {f}
  /\ file' = <<f>>
  /\ UNCHANGED <<clock, ticks, restarts, wall, memory, upkeep, history>>

\* A plausible mistake: the clock of the game loop is not restored.
RestoredNodesOnly(f) == store' = f.store /\ clock' = 0

Restored(f) == store' = f.store /\ clock' = f.clock

(* The visualizer loads a state into the running process: a pass under way *)
(* goes on, and lastReflectionTime and memCounter are left as they are.    *)
Load ==
  /\ reloaded = "never" /\ writing = {} /\ file # <<>>
  /\ Restored(file[1])
  /\ passes' = [s \in Slots |-> [passes[s] EXCEPT !.whole = passes[s] = Free]]
  /\ reloaded' = "here"
  /\ UNCHANGED <<ticks, restarts, wall, memCounter, embedding, running, asks, reflecting, last, disk, whose>>

(* The process ends; a new one loads the file, or finds none it can parse. *)
Restart ==
  /\ IF writing = {} /\ file # <<>> THEN Restored(file[1]) ELSE store' = Empty /\ clock' = 0
  /\ restarts < MaxRestarts /\ restarts' = restarts + 1
  /\ ticks' = 0 /\ memCounter' = 0 /\ embedding' = {}
  /\ running' = FALSE /\ asks' = NoAsks /\ passes' = [s \in Slots |-> Free]
  /\ reflecting' = {} /\ last' = [a \in Agents |-> 0]
  /\ writing' = {} /\ file' = IF writing = {} THEN file ELSE <<>>
  /\ reloaded' = IF reloaded = "never" THEN "never" ELSE "before"
  /\ whose' = [i \in DOMAIN whose \cap DOMAIN store' |-> whose[i]]
  /\ UNCHANGED wall

Next ==
  \/ Tick \/ Start \/ Stop \/ Load \/ Restart
  \/ \E a \in Agents : WriteBegins(a) \/ RunReflection(a)
  \/ \E e \in embedding : Written(e) \/ WriteFails(e)
  \/ \E s \in Slots : Answered(s) \/ Broke(s) \/ InsightStored(s) \/ Got(s) \/ Lowered(s)
  \/ \E f \in writing : SaveEnds(f)

Spec == Init /\ [][Next]_vars

\* The model answers or fails (LlmClient!EveryCallEnds), embeddings too, and
\* what waits for its turn gets it.
FairSpec ==
  /\ Spec
  /\ \A a \in Agents : WF_vars(RunReflection(a))
  /\ \A s \in Slots : /\ WF_vars(Answered(s) \/ Broke(s))
                      /\ WF_vars(InsightStored(s) \/ Broke(s))
                      /\ WF_vars(Got(s) \/ Lowered(s))
-----------------------------------------------------------------------------
TypeOK ==
  /\ clock \in 0..MaxClock /\ ticks \in Nat /\ restarts \in 0..MaxRestarts /\ wall \in 1..MaxWall /\ memCounter \in Nat
  /\ running \in BOOLEAN
  /\ DOMAIN store \subseteq Ids /\ \A i \in DOMAIN store : store[i] \in Nodes
  /\ embedding \subseteq [agent : Agents, stamp : Nat]
  /\ asks \in [Agents -> Nat] /\ reflecting \subseteq Agents /\ last \in [Agents -> Nat]
  /\ reloaded \in {"never", "here", "before"}
  /\ DOMAIN whose \subseteq Ids /\ \A i \in DOMAIN whose : whose[i] \in Agents \cup {Llm}

(* An agent has one pass at a time, and is marked as reflecting exactly    *)
(* while it has: ticks that ask again, passes that fail and loads under    *)
(* way neither start a second one nor leave the mark behind.               *)
OnePassEach ==
  /\ \A s, t \in Slots : passes[s].stage # "none" /\ passes[s].agent = passes[t].agent => s = t
  /\ reflecting = {a \in Agents : \E s \in Slots : passes[s].agent = a}

(* A reflection time is set by a pass that has done all of its work: each  *)
(* memory it read and listed is there, rated half of what the pass read or *)
(* less, and its insights are there, whatever other passes, writes and     *)
(* saves do meanwhile.  A pass whose nodes a load replaced is excepted,    *)
(* and so is an id that was given to two memories: insights of two agents  *)
(* answered in one millisecond have the same.                              *)
DidItsWork(p) ==
  /\ \A k \in DOMAIN p.listed :
       p.listed[k] \in DOMAIN p.read /\ whose'[p.listed[k]] # Llm
         => /\ p.listed[k] \in DOMAIN store'
            /\ store'[p.listed[k]].importance <= Halved(p.read[p.listed[k]])
  /\ p.made + p.left > 0 => [by |-> Llm, at |-> p.at, n |-> 0] \in DOMAIN store'

TimeMeansDone ==
  [][\A s \in Slots : passes[s].whole /\ passes[s].stage \in {"storing", "getting", "lowering"}
                      /\ passes'[s] = Free /\ last' # last /\ ~Restart => DidItsWork(passes[s])]_vars

(* A memory that is written never replaces another: ids stay different     *)
(* across restarts though memCounter begins anew, because the clock of the *)
(* game loop is restored, and a save holds nothing written at its time.  A *)
(* state loaded into a running process takes the clock back, but leaves    *)
(* memCounter where it is, which keeps the ids of that process different;  *)
(* those of a process begun after it are excepted.                         *)
FreshIds == reloaded # "before" => \A e \in embedding : NewId(e) \notin DOMAIN store

(* Memories count as recent by the simulation time they were made at, so   *)
(* no agent is asked to reflect for nothing but insights it has had.       *)
AsksForNews ==
  [][\A a \in {b \in Agents : asks'[b] > asks[b]} :
       Cardinality(Recent(a)) >= NodeThreshold => \E i \in Recent(a) : i.by # Llm]_vars

(* A pass lets go of its agent.                                            *)
PassEnds == \A a \in Agents : a \in reflecting ~> a \notin reflecting

(* A pass comes to its end, and moves the reflection time only for work it *)
(* has done.                                                               *)
PassesWork == TimeMeansDone /\ PassEnds
=============================================================================
