----------------------------- MODULE Navigation -----------------------------
(***************************************************************************)
(* How the agents of evol-hive walk.  A step of a plan names an area; each *)
(* cycle asks navigateToArea again until it answers something else than    *)
(* "walking", and each tick of the game loop moves the walkers one cell.   *)
(*                                                                         *)
(* Of a position only this is kept: at the door, beside an object, or on   *)
(* another cell; a path is the places it goes through, where it starts     *)
(* first.  The door of a room can always be walked to.                     *)
(***************************************************************************)
EXTENDS Integers, Sequences, FiniteSets

CONSTANTS
  Agents,
  Rooms,
  Things,      \* objects
  Nowhere,     \* no room, no position, no area
  Corridors,   \* the connections when the grid is made, as sets of two rooms
  Anchors,     \* the room an object is in when the grid is made, its cell is there
  Start,       \* the start room of the agents
  Fixtures,    \* rooms whose go_to_ handler teleports
  MaxSent,     \* bound on the go_to_ steps
  MaxMoved     \* bound on the objects moved

ASSUME NavigationAssumption ==
  /\ IsFiniteSet(Rooms) /\ Nowhere \notin Rooms \cup Things \cup {"door", "cell"}
  /\ Rooms \cap Things = {} /\ {"door", "cell"} \cap Things = {}
  /\ \A p \in Corridors : p \subseteq Rooms /\ Cardinality(p) = 2
  /\ Anchors \in [Things -> Rooms] /\ Start \in Rooms /\ Fixtures \subseteq Rooms
  /\ MaxSent \in Nat /\ MaxMoved \in Nat

VARIABLES
  active,    \* agents in the AgentManager; of the others this is the dormant state
  location, position,
  memory,    \* spatialMemory: visitedRooms, knownDoors, observedObjects
  walks,     \* walks of the NavigationSystem
  pending,   \* pendingAreas
  open,      \* the connections that are open, of the SceneManager
  home,      \* where the objects are
  step,      \* the area of the plan step that was answered "walking"
  spent,     \* go_to_ steps and moved objects so far
  astray     \* history: a handler has taken the agent out of its walk (see GoTo)

places == <<location, position, memory>>
scene == <<open, home>>
vars == <<active, places, walks, pending, scene, step, spent, astray>>
-----------------------------------------------------------------------------
Areas == Rooms \cup Things
Places == {"door", "cell"} \cup Things
Memories == [visited : SUBSET Rooms, doors : SUBSET Corridors,
             seen : [Things -> Rooms \cup {Nowhere}]]
Walks == [cells : Seq(Places), rooms : Seq(Rooms)]

NoMemory == [visited |-> {}, doors |-> {}, seen |-> [t \in Things |-> Nowhere]]
NoWalk == [cells |-> <<>>, rooms |-> <<Nowhere>>]
Walking(a) == walks[a] # NoWalk

\* A path starts where the agent is.
Path(from, to) == IF from = to THEN <<to>> ELSE <<from, to>>

\* WorldGrid.route: a shortest way over open connections of the grid.
Chained(links, from, r) ==
  \A i \in DOMAIN r : {IF i = 1 THEN from ELSE r[i - 1], r[i]} \in links
Ways(links, from, to) ==
  {r \in UNION {[1..n -> Rooms] : n \in 1..Cardinality(Rooms) - 1} :
     r[Len(r)] = to /\ Chained(links, from, r)}

\* The rooms after the first, or none.
Route(from, to) ==
  LET ways == Ways(open \cap Corridors, from, to) IN
  IF ways = {} THEN <<>> ELSE CHOOSE r \in ways : \A s \in ways : Len(r) <= Len(s)

Reaches(from, to) == from = to \/ Route(from, to) # <<>>

DoorsOf(r) == {p \in open \cap Corridors : r \in p}

\* discover, and recordDoors
Discovered(m, r) == [m EXCEPT !.visited = @ \cup {r}, !.doors = @ \cup DoorsOf(r)]

Init ==
  /\ active = Agents
  /\ location = [a \in Agents |-> Start] /\ position = [a \in Agents |-> "cell"]
  /\ open = Corridors /\ home = Anchors
  /\ memory = [a \in Agents |->
       [visited |-> {Start}, doors |-> {p \in Corridors : Start \in p},
        seen |-> [t \in Things |-> IF Anchors[t] = Start THEN Start ELSE Nowhere]]]
  /\ walks = [a \in Agents |-> NoWalk] /\ pending = [a \in Agents |-> Nowhere]
  /\ step = [a \in Agents |-> Nowhere] /\ spent = [sent |-> 0, moved |-> 0]
  /\ astray = [a \in Agents |-> FALSE]
-----------------------------------------------------------------------------
(* What is known and offered: getKnownAreas, and canReachArea, its port.   *)
KnownRoom(a, r) == r \in memory[a].visited \cup UNION memory[a].doors

\* A plausible mistake: doors are asked for as the grid was made.
ReachedByCorridors(a, r) ==
  location[a] = r \/ Ways(Corridors, location[a], r) # {}
CanReach(a, r) == Reaches(location[a], r)

Offered(a) ==
  {r \in Rooms : r \in memory[a].visited \/ (KnownRoom(a, r) /\ CanReach(a, r))}
    \cup {t \in Things : memory[a].seen[t] # Nowhere}

\* The anchors that perception leaves in memory: what is here, and what was
\* seen before, where it is now.
Perceive(a) ==
  /\ a \in active /\ memory[a].visited # {}
  /\ memory' = [memory EXCEPT ![a].seen = [t \in Things |->
       IF @[t] # Nowhere \/ home[t] = location[a] THEN home[t] ELSE Nowhere]]
  /\ UNCHANGED <<active, location, position, walks, pending, scene, step, spent, astray>>

(* transferSightings: what a speaker, who has been in some rooms, tells of *)
(* them counts as the listener's own.  It also tells where objects are, as *)
(* it perceived in the same cycle; those the listener knows of stay put.   *)
Told(a, rooms, things) ==
  /\ a \in active
  /\ memory' = [memory EXCEPT
       ![a].visited = @ \cup rooms,
       ![a].doors = @ \cup {p \in Corridors : p \cap rooms # {}},
       ![a].seen = [t \in Things |-> IF @[t] = Nowhere /\ t \in things THEN home[t] ELSE @[t]]]
  /\ UNCHANGED <<active, location, position, walks, pending, scene, step, spent, astray>>
-----------------------------------------------------------------------------
(* navigateToArea.  An answer is a status, and the walk and the pending    *)
(* area it leaves.                                                         *)
Reply(status, w, p) == [status |-> status, walk |-> w, area |-> p]

WalkTo(a, r) ==
  [cells |-> Path(IF position[a] = Nowhere THEN "cell" ELSE position[a], "door"),
   rooms |-> Route(location[a], r)]

\* pathToObject: only what had a cell in this room when the grid was made.
Approachable(a, t) == position[a] # Nowhere /\ Anchors[t] = location[a]
Approach(a, t) == [cells |-> Path(position[a], t), rooms |-> <<>>]
Beside(a, t) == Anchors[t] = location[a] /\ position[a] = t

Routed(a, area) ==
  IF location[a] = area THEN Reply("arrived", walks[a], Nowhere)
  ELSE IF area \in Things /\ memory[a].seen[area] # Nowhere
  THEN LET r == memory[a].seen[area] IN
       IF r = location[a]
       THEN IF Approachable(a, area) THEN Reply("walking", Approach(a, area), area)
            ELSE Reply("no-route", walks[a], Nowhere)
       ELSE IF Reaches(location[a], r) THEN Reply("walking", WalkTo(a, r), area)
       ELSE Reply("no-route", walks[a], Nowhere)
  ELSE IF area \in Things \/ ~KnownRoom(a, area) THEN Reply("unknown-area", walks[a], Nowhere)
  ELSE IF Reaches(location[a], area) THEN Reply("walking", WalkTo(a, area), area)
  ELSE Reply("no-route", walks[a], Nowhere)

\* Where the pending area is, as the agent knows it.
Site(a) == IF pending[a] \in Things THEN memory[a].seen[pending[a]] ELSE pending[a]

\* A pending walk: the area asked for is not looked at.
Polled(a) ==
  IF Walking(a) THEN Reply("walking", walks[a], pending[a])
  ELSE IF pending[a] \in Rooms \/ Beside(a, pending[a]) THEN Reply("arrived", walks[a], Nowhere)
  ELSE IF Approachable(a, pending[a]) THEN Reply("walking", Approach(a, pending[a]), pending[a])
  ELSE Reply("no-route", walks[a], pending[a])

Answer(a, area) ==
  IF pending[a] # Nowhere /\ (Walking(a) \/ Site(a) = location[a])
  THEN Polled(a) ELSE Routed(a, area)

\* An agent is astray until its walk is replaced, or takes it into a room.
StillAstray == astray' = [a \in Agents |-> astray[a] /\ walks'[a].rooms = walks[a].rooms]

Looks == {f \in [Places -> Places] : \A p \in Places : f[p] = "door" <=> p = "door"}

\* A cycle executes a step with a target area; the step stays while it walks.
Navigate(a) ==
  /\ a \in active
  /\ \E area \in IF step[a] = Nowhere THEN Areas ELSE {step[a]} :
       LET r == Answer(a, area) IN
       /\ walks' = [walks EXCEPT ![a] = r.walk]
       /\ pending' = [pending EXCEPT ![a] = r.area]
       /\ step' = [step EXCEPT ![a] = IF r.status = "walking" THEN area ELSE Nowhere]
  /\ StillAstray
  /\ UNCHANGED <<active, places, scene, spent>>

\* The go_to_ handler, for a step of its own: requestWalk, or moveAgent, which
\* leaves a walk and the cells as they are.  Every room has the same cells and
\* the same door, but an object stands elsewhere, or not, in the other room.
GoTo(a, r) ==
  /\ a \in active /\ step[a] = Nowhere
  /\ memory[a].visited = {} \/ KnownRoom(a, r)
  /\ {location[a], r} \in open
  /\ spent.sent < MaxSent /\ spent' = [spent EXCEPT !.sent = @ + 1]
  /\ IF r \in Fixtures
     THEN /\ location' = [location EXCEPT ![a] = r]
          /\ \E looks \in Looks :
               /\ position' = [position EXCEPT ![a] = IF @ = Nowhere THEN @ ELSE looks[@]]
               /\ walks' = [walks EXCEPT ![a].cells = [i \in DOMAIN @ |-> looks[@[i]]]]
          /\ astray' = [astray EXCEPT ![a] = Walking(a)]
     ELSE /\ walks' = IF Route(location[a], r) = <<>> THEN walks
                      ELSE [walks EXCEPT ![a] = WalkTo(a, r)]
          /\ StillAstray /\ UNCHANGED <<location, position>>
  /\ UNCHANGED <<active, memory, pending, scene, step>>
-----------------------------------------------------------------------------
(* A tick: the scene first, then advance of every walk.  The agent's state *)
(* in advance is that of before the step.                                  *)
Crosses(a) == position[a] = "door" \/ walks[a].cells = <<>>

\* A plausible mistake: the room crossed into stays in the queue.
RestKept(w) == w.rooms
RestOf(w) == Tail(w.rooms)

\* A plausible mistake: the step is made on the grid only.
AtBefore(a) == position[a]
At(a) == IF walks[a].cells = <<>> THEN position[a] ELSE Head(walks[a].cells)

\* What advance makes of an agent: where it is, whether it is in a room it
\* was not in, and its walk.
Here(a, at, w) == [room |-> location[a], at |-> at, came |-> FALSE, walk |-> w]
Into(r, at, w) == [room |-> r, at |-> at, came |-> TRUE, walk |-> w]

Advanced(a) ==
  LET w == walks[a]
      at == At(a)
      rest == IF w.cells = <<>> THEN <<>> ELSE Tail(w.cells) IN
  IF rest # <<>> THEN Here(a, at, [w EXCEPT !.cells = rest])
  ELSE IF w.rooms # <<>> /\ Crosses(a)
  THEN Into(Head(w.rooms), "door",
            IF RestOf(w) = <<>> THEN NoWalk ELSE [cells |-> <<"door">>, rooms |-> RestOf(w)])
  ELSE IF Len(w.rooms) > 1 THEN Here(a, at, [w EXCEPT !.cells = <<>>])
  ELSE IF w.rooms # <<>> /\ Head(w.rooms) # location[a] THEN Into(Head(w.rooms), at, NoWalk)
  ELSE Here(a, at, NoWalk)

Walkers == {a \in active : Walking(a)}

Tick ==
  /\ Walkers # {}
  /\ LET to == [a \in Walkers |-> Advanced(a)] IN
     /\ location' = [a \in Agents |-> IF a \in Walkers THEN to[a].room ELSE location[a]]
     /\ position' = [a \in Agents |-> IF a \in Walkers THEN to[a].at ELSE position[a]]
     /\ memory' = [a \in Agents |-> IF a \in Walkers /\ to[a].came
                                    THEN Discovered(memory[a], to[a].room) ELSE memory[a]]
     /\ walks' = [a \in Agents |-> IF a \in Walkers THEN to[a].walk ELSE walks[a]]
  /\ StillAstray
  /\ UNCHANGED <<active, pending, scene, step, spent>>

\* The scene changes at the begin of a tick and advance comes after it: it
\* drops the walk of an agent that is gone, and what was pending with it.
Despawn(a) ==
  /\ a \in active /\ active' = active \ {a}
  /\ walks' = [walks EXCEPT ![a] = NoWalk]
  /\ pending' = IF Walking(a) THEN [pending EXCEPT ![a] = Nowhere] ELSE pending
  /\ StillAstray
  /\ UNCHANGED <<places, scene, step, spent>>

\* From dormancy, with the plan, or fresh.
Wake(a) ==
  /\ a \notin active /\ active' = active \cup {a}
  /\ UNCHANGED <<places, walks, pending, scene, step, spent, astray>>

SpawnFresh(a) ==
  /\ a \notin active /\ active' = active \cup {a}
  /\ location' = [location EXCEPT ![a] = Start] /\ position' = [position EXCEPT ![a] = Nowhere]
  /\ memory' = [memory EXCEPT ![a] = NoMemory] /\ step' = [step EXCEPT ![a] = Nowhere]
  /\ UNCHANGED <<walks, pending, scene, spent, astray>>

SetDoor(p) ==
  /\ open' = IF p \in open THEN open \ {p} ELSE open \cup {p}
  /\ UNCHANGED <<active, places, walks, pending, home, step, spent, astray>>

Relocate(t) ==
  /\ spent.moved < MaxMoved /\ spent' = [spent EXCEPT !.moved = @ + 1]
  /\ \E r \in (Rooms \cup {Nowhere}) \ {home[t]} : home' = [home EXCEPT ![t] = r]
  /\ UNCHANGED <<active, places, walks, pending, open, step, astray>>

Next ==
  \/ Tick
  \/ \E a \in Agents : \/ Perceive(a) \/ Navigate(a) \/ Despawn(a) \/ Wake(a) \/ SpawnFresh(a)
                       \/ \E r \in Rooms : GoTo(a, r)
                       \/ \E rooms \in SUBSET Rooms \ {{}}, things \in SUBSET Things :
                            Told(a, rooms, things)
  \/ \E p \in Corridors : SetDoor(p)
  \/ \E t \in Things : Relocate(t)

Spec == Init /\ [][Next]_vars

\* Ticks come, and an agent that stays has cycles (PPERCycles!NoStarvation).
FairSpec == Spec /\ WF_vars(Tick) /\ \A a \in Agents : WF_vars(Navigate(a))
-----------------------------------------------------------------------------
TypeOK ==
  /\ active \subseteq Agents /\ location \in [Agents -> Rooms]
  /\ position \in [Agents -> Places \cup {Nowhere}] /\ memory \in [Agents -> Memories]
  /\ walks \in [Agents -> Walks \cup {NoWalk}]
  /\ pending \in [Agents -> Areas \cup {Nowhere}] /\ step \in [Agents -> Areas \cup {Nowhere}]
  /\ open \subseteq Corridors /\ home \in [Things -> Rooms \cup {Nowhere}]
  /\ spent \in [sent : 0..MaxSent, moved : 0..MaxMoved]
  /\ astray \in [Agents -> BOOLEAN]

(* A walk leads on from where its agent is, over connections of the scene, *)
(* whatever replaces it, and whoever was despawned and spawned meanwhile:  *)
(* no tick takes an agent to a room that is not next door.  Only an agent  *)
(* that a teleporting handler has taken out of its walk jumps, and once:   *)
(* into the next room of that walk, from which the rest of it leads on.    *)
Leads(rooms, from, lost) ==
  IF lost THEN rooms # <<>> => Chained(Corridors, Head(rooms), Tail(rooms))
  ELSE Chained(Corridors, from, rooms)
OnRoute ==
  \A a \in Agents : Walking(a) => Leads(walks[a].rooms, location[a], astray[a])

(* Of a room that is offered for its door alone, navigation says the same  *)
(* as the offer: there is a way.  (With no other walk pending.)            *)
OffersWalkable ==
  \A a \in active : \A r \in (Offered(a) \cap Rooms) \ memory[a].visited :
    pending[a] = Nowhere => Answer(a, r).status \in {"walking", "arrived"}

(* What navigateToArea says of its answers: "no-route" when no open route  *)
(* exists.                                                                 *)
NoRouteHonest ==
  \A a \in active : \A r \in Offered(a) \cap Rooms :
    step[a] \in {Nowhere, r} /\ Answer(a, r).status = "no-route" => ~Reaches(location[a], r)

(* No step walks for ever: it is answered otherwise in the end, whatever   *)
(* doors are closed and objects carried away before the agent.             *)
StepAnswered == \A a \in Agents : step[a] # Nowhere ~> step[a] = Nowhere \/ a \notin active
=============================================================================
