------------------------------ MODULE SceneWorld ------------------------------
(***************************************************************************)
(* The changing scene of evol-hive: proposals are validated against the    *)
(* world of the moment and queued, the queue is applied at the next tick,  *)
(* every mutation applied is logged, and a save holds what a new process   *)
(* makes the scene from: the world, the log, the dormant agents.           *)
(*                                                                         *)
(* applyPending is synchronous.  Its loop is one ApplyNext for each        *)
(* mutation of the queue, and nothing else happens while phase is "tick".  *)
(***************************************************************************)
EXTENDS Integers, Sequences, FiniteSets

CONSTANTS
  Rooms,         \* rooms; they are made and removed by no mutation
  Things,        \* object identifiers
  Agents,        \* agent identifiers
  Nowhere,       \* the room of an object that is not registered
  Corridors,     \* the connections of the scene, as sets of two rooms
  Depot,         \* the objects of the scene: where each is
  Unlisted,      \* objects of the scene that their room does not list
  Leads,         \* the rooms the go_to_ affordances of a doorway name
  Cast,          \* the agents of the scene
  Wirings,       \* may persistence hold the scene manager mutations change?
  LoadWays,      \* how a save is loaded: by a new process, into the running one
  Proposable,    \* the mutations agents and LLMs come up with
  MaxLog,        \* bound on the mutations logged or queued
  MaxSaves, MaxLoads

Pairs == {p \in SUBSET Rooms : Cardinality(p) = 2}

\* A corridor is proposed and checked from one of its rooms: validation and
\* application look at the adjacency of roomA.
Edits ==
  [op : {"add", "move"}, thing : Things, room : Rooms]
    \cup [op : {"remove"}, thing : Things]
    \cup [op : {"spawn", "wake", "despawn"}, agent : Agents]
    \cup {e \in [op : {"open", "close", "insert", "cut"}, from : Rooms, to : Rooms] :
            e.from # e.to}

ASSUME SceneAssumption ==
  /\ IsFiniteSet(Rooms) /\ Nowhere \notin Rooms
  /\ Corridors \subseteq Pairs
  /\ Depot \in [Things -> Rooms \cup {Nowhere}] /\ Unlisted \subseteq Things
  /\ Leads \in [Things -> SUBSET Rooms]
  /\ Cast \subseteq Agents

ASSUME UseAssumption ==
  /\ Wirings \subseteq BOOLEAN
  /\ LoadWays \subseteq {"restart", "inPlace"}
  /\ Proposable \subseteq Edits
  /\ MaxLog \in Nat /\ MaxSaves \in Nat /\ MaxLoads \in Nat

VARIABLES
  (* SmartObjectRegistryImpl (home, and in ajar the doorways whose state     *)
  (* says open), the SceneManagerImpl (listed, exits, closed), the           *)
  (* AgentManagerImpl (active) and the DormantAgentStore (dormant)           *)
  world,
  (* SceneMutationServiceImpl                                                *)
  pending, log, nextSeq,
  (* the game loop: between ticks, applying, or ended by an exception        *)
  phase,
  (* the last save; whether persistence was given the live scene manager     *)
  saved, bound,
  (* the bounds used up; and, as history, whether a save without a dynamic   *)
  (* part has been loaded into the running process (bare)                    *)
  spent

queueVars == <<pending, log, nextSeq>>
vars == <<world, queueVars, phase, saved, bound, spent>>
-----------------------------------------------------------------------------
World == [home : [Things -> Rooms \cup {Nowhere}], ajar : SUBSET Things,
          listed : [Rooms -> SUBSET Things], exits : [Rooms -> SUBSET Rooms],
          closed : SUBSET Pairs, active : SUBSET Agents, dormant : SUBSET Agents]

Events == [seq : Nat, edit : Edits]

\* loadScene, on a fresh engine.
Base == [home   |-> Depot, ajar |-> {},
         listed |-> [r \in Rooms |-> {t \in Things \ Unlisted : Depot[t] = r}],
         exits  |-> [r \in Rooms |-> {s \in Rooms : {r, s} \in Corridors}],
         closed |-> {}, active |-> Cast, dormant |-> {}]

Linked(w, a, b) == b \in w.exits[a]
Shut(w, a, b)   == {a, b} \in w.closed

\* What removing the connection would leave a room with is more than none;
\* the connection to be removed counts as one even when it is closed.
KeepsAnExit(w, r, a, b) ==
  Cardinality(w.exits[r]) + (IF ~Linked(w, a, b) /\ Shut(w, a, b) THEN 1 ELSE 0) > 1

\* validate: nothing it checks is checked again when the mutation is applied.
Valid(w, e) ==
  \/ e.op = "add" /\ w.home[e.thing] = Nowhere
  \/ e.op \in {"remove", "move"} /\ w.home[e.thing] # Nowhere
  \/ e.op = "spawn" /\ e.agent \notin w.active
  \/ e.op = "wake" /\ e.agent \notin w.active /\ e.agent \in w.dormant
  \/ e.op = "despawn" /\ e.agent \in w.active
  \/ e.op = "insert" /\ ~Linked(w, e.from, e.to) /\ ~Shut(w, e.from, e.to)
  \/ e.op \in {"open", "close"} /\ (Linked(w, e.from, e.to) \/ Shut(w, e.from, e.to))
  \/ /\ e.op = "cut" /\ (Linked(w, e.from, e.to) \/ Shut(w, e.from, e.to))
     /\ \A r \in {e.from, e.to} : KeepsAnExit(w, r, e.from, e.to)
-----------------------------------------------------------------------------
(* Application.  An object that is added arrives without an open state, and  *)
(* replaces one of the same identifier, whose room is not told.              *)
Added(w, t, r) ==
  [w EXCEPT !.home[t] = r, !.listed[r] = @ \cup {t}, !.ajar = @ \ {t}]

Removed(w, t) ==
  IF w.home[t] = Nowhere THEN w
  ELSE [w EXCEPT !.listed[w.home[t]] = @ \ {t}, !.home[t] = Nowhere, !.ajar = @ \ {t}]

\* Mistake: listed in the new room before it leaves the old one's list.
MovedCarelessly(w, t, r) ==
  IF w.home[t] = Nowhere THEN w
  ELSE [w EXCEPT !.listed[r] = @ \cup {t}, !.listed[w.home[t]] = @ \ {t}, !.home[t] = r]

Moved(w, t, r) ==
  IF w.home[t] = Nowhere THEN w
  ELSE [w EXCEPT !.listed[w.home[t]] = @ \ {t}, !.listed[r] = @ \cup {t}, !.home[t] = r]

\* A fresh spawn does not look for a dormant record.
Spawned(w, a) == [w EXCEPT !.active = @ \cup {a}]

Woken(w, a) ==
  IF a \notin w.dormant THEN w
  ELSE [w EXCEPT !.dormant = @ \ {a}, !.active = @ \cup {a}]

Despawned(w, a) ==
  IF a \notin w.active THEN w
  ELSE [w EXCEPT !.active = @ \ {a}, !.dormant = @ \cup {a}]

Joined(w, a, b) == [w EXCEPT !.exits[a] = @ \cup {b}, !.exits[b] = @ \cup {a}]

\* Mistake: only the room the mutation names first forgets the connection.
PartedHalf(w, a, b) == [w EXCEPT !.exits[a] = @ \ {b}]

Parted(w, a, b) == [w EXCEPT !.exits[a] = @ \ {b}, !.exits[b] = @ \ {a}]

\* Mistake: only the doorways of the first room.
DoorwaysHere(w, a, b) == {t \in Things : w.home[t] = a /\ b \in Leads[t]}

\* The doorways of either room that lead to the other.
Doorways(w, a, b) ==
  {t \in Things : \/ w.home[t] = a /\ b \in Leads[t]
                  \/ w.home[t] = b /\ a \in Leads[t]}

PatchOpen(w, a, b) == [w EXCEPT !.ajar = @ \cup Doorways(w, a, b)]
PatchShut(w, a, b) == [w EXCEPT !.ajar = @ \ Doorways(w, a, b)]

SetOpen(w, a, b) ==
  PatchOpen(IF Linked(w, a, b) THEN w ELSE [Joined(w, a, b) EXCEPT !.closed = @ \ {{a, b}}], a, b)

SetClosed(w, a, b) ==
  PatchShut(IF Linked(w, a, b) THEN [Parted(w, a, b) EXCEPT !.closed = @ \cup {{a, b}}] ELSE w, a, b)

Cut(w, a, b) ==
  PatchShut([Parted(w, a, b) EXCEPT !.closed = @ \ {{a, b}}], a, b)

Applied(w, e) ==
  CASE e.op = "add"     -> Added(w, e.thing, e.room)
    [] e.op = "remove"  -> Removed(w, e.thing)
    [] e.op = "move"    -> Moved(w, e.thing, e.room)
    [] e.op = "spawn"   -> Spawned(w, e.agent)
    [] e.op = "wake"    -> Woken(w, e.agent)
    [] e.op = "despawn" -> Despawned(w, e.agent)
    [] e.op = "open"    -> SetOpen(w, e.from, e.to)
    [] e.op = "close"   -> SetClosed(w, e.from, e.to)
    [] e.op = "insert"  -> Joined(w, e.from, e.to)
    [] e.op = "cut"     -> Cut(w, e.from, e.to)

\* The scene manager's own checks; nobody catches what it throws.
Throws(w, e) ==
  \/ e.op \in {"open", "close", "cut"} /\ ~Linked(w, e.from, e.to) /\ ~Shut(w, e.from, e.to)
  \/ e.op = "insert" /\ (Linked(w, e.from, e.to) \/ Shut(w, e.from, e.to))
-----------------------------------------------------------------------------
\* bare is history: whether the world saved was one a bare load had made.
NoSave == [valid |-> FALSE, world |-> Base, log |-> <<>>, dynamic |-> FALSE, bare |-> FALSE]

Save == [valid : BOOLEAN, world : World, log : Seq(Events), dynamic : BOOLEAN, bare : BOOLEAN]

Init ==
  /\ world = Base
  /\ pending = <<>> /\ log = <<>> /\ nextSeq = 1
  /\ phase = "between"
  /\ saved = NoSave /\ bound \in Wirings
  /\ spent = [saves |-> 0, loads |-> 0, bare |-> FALSE]

\* An invalid proposal is answered with an error and leaves no trace.
Propose(e) ==
  /\ phase = "between" /\ Len(log) + Len(pending) < MaxLog
  /\ Valid(world, e)
  /\ pending' = Append(pending, e)
  /\ UNCHANGED <<world, log, nextSeq, phase, saved, bound, spent>>

Tick ==
  /\ phase = "between" /\ pending # <<>>
  /\ phase' = "tick"
  /\ UNCHANGED <<world, queueVars, saved, bound, spent>>

\* Mistake: the event is logged before it is applied.
ApplyNextLogged ==
  /\ phase = "tick" /\ pending # <<>>
  /\ LET e == Head(pending)
     IN  /\ pending' = Tail(pending)
         /\ log' = Append(log, [seq |-> nextSeq, edit |-> e])
         /\ nextSeq' = nextSeq + 1
         /\ IF Throws(world, e)
            THEN phase' = "thrown" /\ UNCHANGED world
            ELSE /\ world' = Applied(world, e)
                 /\ phase' = IF Len(pending) = 1 THEN "between" ELSE "tick"
  /\ UNCHANGED <<saved, bound, spent>>

(* One round of the loop of applyPending.  An exception leaves it, and       *)
(* frame() with it: the mutation is gone, the rest of the queue stays, and   *)
(* no further frame is scheduled.                                            *)
ApplyNext ==
  /\ phase = "tick" /\ pending # <<>>
  /\ LET e == Head(pending)
     IN  /\ pending' = Tail(pending)
         /\ \/ /\ Throws(world, e)
               /\ phase' = "thrown"
               /\ UNCHANGED <<world, log, nextSeq>>
            \/ /\ ~Throws(world, e)
               /\ world' = Applied(world, e)
               /\ log' = Append(log, [seq |-> nextSeq, edit |-> e])
               /\ nextSeq' = nextSeq + 1
               /\ phase' = IF Len(pending) = 1 THEN "between" ELSE "tick"
  /\ UNCHANGED <<saved, bound, spent>>

\* The dynamic part of a save: the log and the dormant agents.
HasDynamicState == log # <<>> \/ world.dormant # {}

SaveState ==
  /\ phase = "between" /\ spent.saves < MaxSaves
  /\ saved' = [valid |-> TRUE, world |-> world, log |-> log, dynamic |-> HasDynamicState,
               bare |-> spent.bare]
  /\ spent' = [spent EXCEPT !.saves = @ + 1]
  /\ UNCHANGED <<world, queueVars, phase, bound>>

(* The agents and the objects of a save, put into a world.  The rooms are    *)
(* those of the scene manager persistence was constructed with, and that is  *)
(* the one mutations change only if no loadScene has replaced it since;      *)
(* which pairs are closed is no part of a room.                              *)
Restored(w) ==
  LET s == saved.world
      withThings == [w EXCEPT !.home = s.home, !.ajar = s.ajar, !.active = s.active]
  IN  IF bound THEN [withThings EXCEPT !.listed = s.listed, !.exits = s.exits, !.closed = {}]
      ELSE withThings

\* Mistake: the log of the save is read, its dormant agents are not.
WithDormantLost(w) == w

\* The dormant agents of a save.
WithDormant(w) == [w EXCEPT !.dormant = saved.world.dormant]

NextAfter(events) == IF events = <<>> THEN 1 ELSE events[Len(events)].seq + 1

\* A new process loads the scene, and the save if there is one.
Restart ==
  /\ "restart" \in LoadWays /\ spent.loads < MaxLoads
  /\ spent' = [spent EXCEPT !.loads = @ + 1, !.bare = saved.bare]
  /\ world' = IF ~saved.valid THEN Base
              ELSE IF saved.dynamic THEN WithDormant(Restored(Base)) ELSE Restored(Base)
  /\ log' = IF saved.valid /\ saved.dynamic THEN saved.log ELSE <<>>
  /\ nextSeq' = NextAfter(log')
  /\ pending' = <<>> /\ phase' = "between"
  /\ UNCHANGED <<saved, bound>>

(* The running process loads a save.  Without a dynamic part it keeps its    *)
(* log, its queue and its dormant agents.                                    *)
LoadInPlace ==
  /\ "inPlace" \in LoadWays /\ spent.loads < MaxLoads
  /\ phase = "between" /\ saved.valid
  /\ spent' = [spent EXCEPT !.loads = @ + 1, !.bare = ~saved.dynamic \/ saved.bare]
  /\ IF saved.dynamic
     THEN /\ world' = WithDormant(Restored(world))
          /\ log' = saved.log /\ nextSeq' = NextAfter(saved.log) /\ pending' = <<>>
     ELSE /\ world' = Restored(world)
          /\ UNCHANGED queueVars
  /\ UNCHANGED <<phase, saved, bound>>

Next ==
  \/ \E e \in Proposable : Propose(e)
  \/ Tick
  \/ ApplyNext
  \/ SaveState
  \/ Restart
  \/ LoadInPlace

Spec == Init /\ [][Next]_vars
-----------------------------------------------------------------------------
TypeOK ==
  /\ world \in World
  /\ pending \in Seq(Edits) /\ log \in Seq(Events) /\ nextSeq \in Nat
  /\ phase \in {"between", "tick", "thrown"}
  /\ saved \in Save /\ bound \in BOOLEAN
  /\ spent \in [saves : 0..MaxSaves, loads : 0..MaxLoads, bare : BOOLEAN]

(* A connection can be walked both ways or not at all, and none is open and  *)
(* closed at once: the scene manager looks at one side of it only, and its   *)
(* set of closed pairs is kept beside the adjacency, not by it.              *)
TwoSided ==
  \A a, b \in Rooms :
    /\ b \in world.exits[a] <=> a \in world.exits[b]
    /\ {a, b} \in world.closed => b \notin world.exits[a]

(* Nobody is lost: whoever belongs to the cast of the scene is active or     *)
(* dormant, through despawns, double spawns, saves and restarts.             *)
NobodyLost == Cast \subseteq world.active \cup world.dormant

(* What the scene has listed in a room, or a mutation has put there, its     *)
(* room lists as long as it is there (spec 030, Req 3: references stay       *)
(* consistent).                                                              *)
Listed ==
  bound =>
    \A t \in Things \ Unlisted :
      world.home[t] # Nowhere => t \in world.listed[world.home[t]]

\* The scene with the edits of events applied to it in order.
Replayed(events) ==
  LET past[n \in 0..Len(events)] ==
        IF n = 0 THEN Base ELSE Applied(past[n - 1], events[n].edit)
  IN  past[Len(events)]

Replay == Replayed(log)

(* The log, replayed over the scene, gives the world (spec 030, AC-8), and   *)
(* its events are numbered without a gap: mutations that throw, restarts and *)
(* saves made in between leave no event unlogged and none logged twice.  Of  *)
(* the rooms this is so only when persistence has the live scene manager, of *)
(* closed pairs not even past.                                               *)
LogExplains ==
  LET past == Replay
  IN  /\ \/ spent.bare
         \/ /\ world.home = past.home /\ world.ajar = past.ajar
            /\ world.active = past.active /\ world.dormant = past.dormant
            /\ bound => world.listed = past.listed /\ world.exits = past.exits
      /\ nextSeq = Len(log) + 1
      /\ \A i \in DOMAIN log : log[i].seq = i

(* A doorway that says it is open has an open connection to show for it, as  *)
(* long as nobody has carried it to another place.                           *)
DoorsTell ==
  \A t \in world.ajar :
    \/ Leads[t] \cap world.exits[world.home[t]] # {}
    \/ \E i \in DOMAIN log : log[i].edit.op \in {"add", "move"} /\ log[i].edit.thing = t
    \/ ~bound

(* What is kept in several places agrees: objects and lists, connections and *)
(* doorways, the world and its log.                                          *)
StoresAgree == Listed /\ DoorsTell /\ LogExplains

(* The scene manager's exceptions never reach the game loop: "the            *)
(* SceneMutationService validates first" (scenes/index.ts).                  *)
NeverThrown == phase # "thrown"

(* Connections are as the log says, whatever was saved and loaded (spec 030, *)
(* AC-7 and AC-8).                                                           *)
ConnectionsSurvive ==
  LET past == Replay
  IN  world.exits = past.exits /\ world.closed = past.closed
=============================================================================
