----------------------------- MODULE ObjectUse -----------------------------
(***************************************************************************)
(* How the agents of evol-hive use objects: the step of a plan is resolved *)
(* to an object, its handler is called with the state of that moment, and  *)
(* what the handler answers is written when its promise resolves.  Other   *)
(* agents' steps run in between; ticks do so only while every call waits   *)
(* for a handler that awaits something itself (Slow).                      *)
(*                                                                         *)
(* A plan is the steps its agent begins, one after the other, which they   *)
(* are is left open; advanced counts the steps it got past.                *)
(***************************************************************************)
EXTENDS SceneData

CONSTANTS
  Agents,
  Scene,         \* the objects that are loaded
  Rooms,
  Home,          \* start rooms of the agents
  Targets,       \* what steps of plans name
  Slow,          \* affordances whose handler awaits something
  StartDrives,   \* initialDrives of every agent
  Loss,          \* what the drives of an agent alone lose at a tick
  Interval,      \* ticks between two applications of a rule
  Orders,        \* changes of the scene that others propose
  MaxSteps,      \* bound on the steps of an agent
  MaxTicks,      \* bound on the ticks
  MaxOrders      \* bound on the changes proposed

DriveKeys == {"energy", "hunger", "social", "comfort", "curiosity"}
Ids == {x.id : x \in Scene}

ASSUME ObjectUseAssumption ==
  /\ IsFiniteSet(Agents) /\ Agents # {}
  /\ Home \in [Agents -> Rooms] /\ "" \notin Rooms
  /\ StartDrives \in [DriveKeys -> 0..100]
  /\ Loss \in Nat /\ Interval \in Nat \ {0} /\ MaxSteps \in Nat /\ MaxTicks \in Nat
  /\ MaxOrders \in Nat

\* Sub-steps are listed.  The affordances that BooksBalance counts belong to
\* one object each; what it counts them by are numbers no rule changes, and
\* no planter starts with more seeds than are ever planted.
Counted == {"seeds_planted", "vegetables", "bean_count", "cup_count"}
ASSUME SceneAssumption ==
  \A x \in Scene :
    /\ \A id \in DOMAIN x.compounds : x.compounds[id] \in Seq(STRING)
    /\ \A f \in x.affordances :
         /\ f.id \in {"plant_seeds", "harvest", "eat"} => x.id = "planter-1"
         /\ f.id \in {"brew_coffee", "pour_cup"} => x.id = "coffee-1"
    /\ \A f \in Counted : /\ Read(x.state, f) \in Int
                          /\ \A i \in DOMAIN x.rules : x.rules[i].field # f
    /\ Read(x.state, "seeds_planted") =< 3

VARIABLES
  objects,      \* the SmartObjectRegistry: room and state of the objects it holds
  at,           \* location of the agents
  way,          \* rooms the agents walk to, "" for none
  call,         \* the step an agent executes
  drives,
  advanced,     \* steps of its plan an agent got past
  begun,        \* steps begun so far, the failed ones included
  strikes,      \* stepFailures: the step that failed last and how often in a row
  proposals,    \* mutations that wait for the tick, in order
  lastApplied,  \* of the ObjectStateSystem, by object and field
  now,          \* ticks
  proposed,     \* changes proposed so far
  tally,        \* how often each affordance succeeded
  settled       \* objects whose state is no longer told by the tally

agency == <<at, way, call, drives, advanced, begun, strikes>>
world == <<objects, proposals, settled>>
vars == <<agency, world, lastApplied, now, proposed, tally>>
-----------------------------------------------------------------------------
Catalog == [o \in Ids |-> CHOOSE x \in Scene : x.id = o]
Static(o) == Catalog[o]
Affordances(o) == Static(o).affordances
AllAffordances == UNION {Affordances(o) : o \in Ids}
HasAffordance(o, id) == \E f \in Affordances(o) : f.id = id
Affordance(o, id) == CHOOSE f \in Affordances(o) : f.id = id
Compounds(o) == Static(o).compounds
RuleKeys ==
  UNION {{<<o, Static(o).rules[i].field>> : i \in DOMAIN Static(o).rules} : o \in Ids}
Fresh(o) == [room |-> Static(o).room, state |-> Static(o).state]
Ungated(o, id) == CheckPreconditions(objects[o].state, Affordance(o, id).preconditions)

InRoom(room) == {o \in DOMAIN objects : objects[o].room = room}
\* The object registered first is taken; which of several that is is left open.
ResolveAffordance(room, id) == {o \in InRoom(room) : HasAffordance(o, id)}
ResolveCompoundAction(room, id) == {o \in InRoom(room) : id \in DOMAIN Compounds(o)}
ResolveAnywhere(id) == {o \in DOMAIN objects : HasAffordance(o, id)}

\* The affordances of an object that the model is offered in its room.
Available(o) == {f \in Affordances(o) : EvaluateConditions(objects[o].state, f.conditions)}
-----------------------------------------------------------------------------
Idle == [pc |-> "idle", step |-> "", compound |-> FALSE, room |-> "", rest |-> <<>>, object |-> "",
         id |-> "", answer |-> Refused, gain |-> Nothing, untouched |-> TRUE, deeds |-> <<>>]

Init ==
  /\ objects = [o \in Ids |-> Fresh(o)]
  /\ at = Home
  /\ way = [a \in Agents |-> ""]
  /\ call = [a \in Agents |-> Idle]
  /\ drives = [a \in Agents |-> StartDrives]
  /\ advanced = [a \in Agents |-> 0]
  /\ begun = [a \in Agents |-> 0]
  /\ strikes = [a \in Agents |-> [step |-> "", count |-> 0]]
  /\ proposals = <<>>
  /\ lastApplied = [x \in RuleKeys |-> 0]
  /\ now = 0
  /\ proposed = 0
  /\ tally = [id \in {f.id : f \in AllAffordances} |-> 0]
  /\ settled = {}
-----------------------------------------------------------------------------
(* The end of a step.                                                      *)

Clamp(v) == IF v < 0 THEN 0 ELSE IF v > 100 THEN 100 ELSE v
Changed(d, gain) == [k \in DriveKeys |-> IF k \in DOMAIN gain THEN Clamp(d[k] + gain[k]) ELSE d[k]]
Plus(g, h) == [k \in DOMAIN g \cup DOMAIN h |-> Read(g, k) + Read(h, k)]

\* To move an object, or to remove it if no room is named.
Order(o, room) == [object |-> o, room |-> room]
NoStrike == [step |-> "", count |-> 0]

\* The step is done: the drives are paid once and the plan goes on.
Completes(a, running) ==
  /\ drives' = [drives EXCEPT ![a] = Changed(@, running.gain)]
  /\ advanced' = [advanced EXCEPT ![a] = @ + 1]
  /\ call' = [call EXCEPT ![a] = Idle]
  /\ strikes' = IF running.compound THEN strikes ELSE [strikes EXCEPT ![a] = NoStrike]
  /\ UNCHANGED <<at, way, proposals>>

\* A failed step stays, a compound action without a count of its failures.
Aborts(a) ==
  /\ call' = [call EXCEPT ![a] = Idle]
  /\ UNCHANGED <<at, way, drives, advanced, strikes, proposals>>

\* The second failure in a row of one step takes the plan past it.
Strikes(a, step) ==
  LET count == IF strikes[a].step = step THEN strikes[a].count + 1 ELSE 1
  IN  /\ call' = [call EXCEPT ![a] = Idle]
      /\ strikes' = [strikes EXCEPT ![a] = IF count < 2 THEN [step |-> step, count |-> count]
                                                        ELSE NoStrike]
      /\ advanced' = [advanced EXCEPT ![a] = IF count < 2 THEN @ ELSE @ + 1]
      /\ UNCHANGED <<at, way, drives, proposals>>

\* What a handler may answer.  A move to a room that does not exist is rejected, a
\* change of a gate may be: the connections of the rooms are not modelled here.
Answers(id, o, a, s) ==
  LET answer == Handle(id, o, a, s)
  IN  IF id = "carry" /\ answer.moves \notin Rooms THEN {Refused}
      ELSE IF id \in {"open_gate", "close_gate"} THEN {answer, Refused}
      ELSE {answer}

\* The handler is called: where its agent goes and what it proposes shows at once.
Invokes(a, running, o, id) ==
  \E answer \in Answers(id, o, a, objects[o].state) :
      /\ call' = [call EXCEPT ![a] = [running EXCEPT !.pc = "handler", !.object = o, !.id = id,
                                                     !.answer = answer, !.untouched = TRUE]]
      /\ at' = IF answer.goes \in Fixtures THEN [at EXCEPT ![a] = answer.goes] ELSE at
      /\ way' = IF answer.goes \notin Fixtures \cup {""} THEN [way EXCEPT ![a] = answer.goes]
                                                         ELSE way
      /\ proposals' = IF answer.moves = "" THEN proposals
                      ELSE Append(proposals, Order(o, answer.moves))
      /\ UNCHANGED <<drives, advanced, strikes>>

\* A plausible mistake: that it was resolved in the room of the step is taken for enough.
TakenAsHere(a, o) == TRUE

\* The guard of the physics system: the object is where its agent is now.
CoLocated(a, o) == objects[o].room = at[a]
-----------------------------------------------------------------------------
(* A plain step.                                                           *)

Begin(a) ==
  /\ call[a].pc = "idle"
  /\ begun[a] < MaxSteps
  /\ begun' = [begun EXCEPT ![a] = @ + 1]
  /\ UNCHANGED <<objects, settled, lastApplied, now, proposed, tally>>

StartAffordance(a) ==
  /\ Begin(a)
  /\ \E id \in Targets : \E o \in ResolveAffordance(at[a], id) :
       IF Ungated(o, id) /\ CoLocated(a, o)
       THEN Invokes(a, [Idle EXCEPT !.step = id, !.room = at[a]], o, id)
       ELSE Strikes(a, id)

\* An affordance that is nowhere is skipped, one that is elsewhere fails.
SkipUnknown(a) ==
  /\ Begin(a)
  /\ \E id \in Targets : ResolveAnywhere(id) = {} /\ ResolveCompoundAction(at[a], id) = {}
  /\ advanced' = [advanced EXCEPT ![a] = @ + 1]
  /\ UNCHANGED <<at, way, call, drives, strikes, proposals>>
-----------------------------------------------------------------------------
(* Compound actions: the sub-steps one after the other, in the room the    *)
(* agent was in when the step began.                                       *)

\* A plausible mistake: a sub-step that cannot be carried out ends the action well.
SubStepsTried(a, running) ==
  IF running.rest = <<>> THEN Completes(a, running)
  ELSE LET id == Head(running.rest)
           found == {o \in ResolveAffordance(running.room, id) : Ungated(o, id) /\ CoLocated(a, o)}
       IN  \/ found = {} /\ Completes(a, running)
           \/ \E o \in found : Invokes(a, [running EXCEPT !.rest = Tail(@)], o, id)

NextSubStep(a, running) ==
  IF running.rest = <<>> THEN Completes(a, running)
  ELSE LET id == Head(running.rest)
           found == ResolveAffordance(running.room, id)
       IN  \/ found = {} /\ Aborts(a)
           \/ \E o \in found :
                IF Ungated(o, id) /\ CoLocated(a, o)
                THEN Invokes(a, [running EXCEPT !.rest = Tail(@)], o, id)
                ELSE Aborts(a)

StartCompound(a) ==
  /\ Begin(a)
  /\ \E id \in Targets :
       /\ ResolveAffordance(at[a], id) = {}
       /\ \E o \in ResolveCompoundAction(at[a], id) :
            NextSubStep(a, [Idle EXCEPT !.step = id, !.compound = TRUE, !.room = at[a],
                                        !.rest = Compounds(o)[id]])
-----------------------------------------------------------------------------
(* The handler's promise resolves.                                         *)

\* A plausible mistake: the object is written back as it was when the handler was called.
WrittenBack(a) ==
  [o \in DOMAIN objects |->
     IF o = call[a].object /\ call[a].answer.writes
     THEN [room |-> call[a].room, state |-> call[a].answer.state] ELSE objects[o]]

Written(a) ==
  LET c == call[a]
      own == IF c.answer.writes /\ c.object \in DOMAIN objects
             THEN [objects EXCEPT ![c.object].state = c.answer.state] ELSE objects
  IN  [o \in DOMAIN own |->
         IF \E p \in c.answer.patches : p.object = o
         THEN [own[o] EXCEPT !.state = Merge(@, (CHOOSE p \in c.answer.patches : p.object = o).patch)]
         ELSE own[o]]

\* Calls under way whose object's state was written meanwhile.
Touched(calls, written) ==
  [b \in Agents |-> IF calls[b].pc = "handler" /\ calls[b].object \in written
                    THEN [calls[b] EXCEPT !.untouched = FALSE] ELSE calls[b]]

WrittenBy(a) ==
  (IF call[a].answer.writes THEN {call[a].object} ELSE {}) \cup {p.object : p \in call[a].answer.patches}

\* A call that fails writes nothing.
Settle(a) ==
  LET c == call[a]
  IN  /\ c.pc = "handler"
      /\ IF c.answer.ok
         THEN /\ objects' = Written(a)
              /\ call' = Touched([call EXCEPT ![a] = [c EXCEPT !.pc = "hop",
                                   !.gain = Plus(@, c.answer.gain), !.deeds = Append(@, c.id)]],
                                 WrittenBy(a))
              /\ tally' = [tally EXCEPT ![c.id] = @ + 1]
              /\ settled' = IF c.answer.writes /\ ~c.untouched THEN settled \cup {c.object} ELSE settled
         ELSE /\ call' = [call EXCEPT ![a].pc = "hop"]
              /\ UNCHANGED <<objects, tally, settled>>
      /\ UNCHANGED <<at, way, drives, advanced, strikes, begun, proposals, lastApplied, now, proposed>>

\* Microtasks later the step goes on with what it found.
Continue(a) ==
  LET c == call[a]
  IN  /\ c.pc = "hop"
      /\ IF c.compound THEN IF c.answer.ok THEN NextSubStep(a, c) ELSE Aborts(a)
         ELSE IF c.answer.ok THEN Completes(a, c) ELSE Strikes(a, c.step)
      /\ UNCHANGED <<objects, settled, lastApplied, now, proposed, tally, begun>>
-----------------------------------------------------------------------------
(* The tick: mutations, state rules, walks, decay.                         *)

Quiet == \A a \in Agents : \/ call[a].pc = "idle"
                           \/ call[a].pc = "handler" /\ call[a].id \in Slow

Propose ==
  /\ Quiet
  /\ proposed < MaxOrders
  /\ proposed' = proposed + 1
  /\ \E p \in Orders : /\ p.object \in DOMAIN objects
                       /\ proposals' = Append(proposals, p)
  /\ UNCHANGED <<at, way, call, drives, advanced, strikes, begun, objects, settled, lastApplied, now, tally>>

\* The mutation p, which may have become void since it was proposed.
Apply(before, p) ==
  IF p.object \notin DOMAIN before THEN before
  ELSE IF p.room = "" THEN [o \in DOMAIN before \ {p.object} |-> before[o]]
  ELSE [before EXCEPT ![p.object].room = p.room]
Mutated ==
  LET after[i \in 0..Len(proposals)] ==
        IF i = 0 THEN objects ELSE Apply(after[i - 1], proposals[i])
  IN  after[Len(proposals)]

\* A rule that was applied keeps every rule of its field waiting for the interval.
DueRules(o, f) == {i \in DOMAIN Static(o).rules : /\ Static(o).rules[i].field = f
                                                  /\ now + 1 - lastApplied[o, f] >= Interval}
FirstDue(o, f) == CHOOSE i \in DueRules(o, f) : \A j \in DueRules(o, f) : i =< j
Evolve(rule, v) ==
  IF rule.operation = "decay" THEN IF v > 0 THEN v - 1 ELSE 0
  ELSE IF v > rule.target THEN v - 1 ELSE IF v < rule.target THEN v + 1 ELSE v
Evolved(o, state) ==
  [f \in DOMAIN state |-> IF DueRules(o, f) = {} THEN state[f]
                          ELSE Evolve(Static(o).rules[FirstDue(o, f)], state[f])]
Ruled(after) == {x \in DOMAIN lastApplied : /\ x[1] \in DOMAIN after
                                            /\ x[2] \in DOMAIN after[x[1]].state
                                            /\ DueRules(x[1], x[2]) # {}}

\* Where walks end: the walker is in the room, or still on its way.
Arrived(there) ==
  /\ at' = [a \in Agents |-> IF a \in there THEN way[a] ELSE at[a]]
  /\ way' = [a \in Agents |-> IF a \in there THEN "" ELSE way[a]]

\* Drives decay by the rate divided by the number of agents.
Decayed(d) == [k \in DriveKeys |-> Clamp(d[k] - (Loss \div Cardinality(Agents)))]

\* The rules change the state an object has in place.  A handler that holds it may answer
\* for what it finds there afterwards; one that failed, failed when it was called.
Holding(ruled) == {b \in Agents : /\ call[b].pc = "handler" /\ call[b].answer.ok
                                  /\ call[b].object \in ruled}
Reread(seen, after) ==
  [b \in Agents |->
     IF b \in seen
     THEN [call[b] EXCEPT !.answer = Handle(call[b].id, call[b].object, b,
                                            after[call[b].object].state)]
     ELSE call[b]]

Tick ==
  /\ Quiet
  /\ now < MaxTicks
  /\ now' = now + 1
  /\ LET after == Mutated
         ruled == Ruled(after)
     IN  /\ objects' = [o \in DOMAIN after |-> [room |-> after[o].room,
                                           state |-> Evolved(o, after[o].state)]]
         /\ lastApplied' = [x \in DOMAIN lastApplied |-> IF x \in ruled THEN now + 1 ELSE lastApplied[x]]
         /\ \E seen \in SUBSET Holding({x[1] : x \in ruled}) :
              call' = Touched(Reread(seen, objects'), {x[1] : x \in ruled})
         /\ settled' = settled \cup (Ids \ DOMAIN after)
  /\ proposals' = <<>>
  /\ \E there \in SUBSET {a \in Agents : way[a] # ""} : Arrived(there)
  /\ drives' = [a \in Agents |-> Decayed(drives[a])]
  /\ UNCHANGED <<advanced, strikes, begun, proposed, tally>>
-----------------------------------------------------------------------------
Next ==
  \/ \E a \in Agents : \/ StartAffordance(a) \/ StartCompound(a) \/ SkipUnknown(a)
                       \/ Settle(a) \/ Continue(a)
  \/ Propose \/ Tick

Spec == Init /\ [][Next]_vars
-----------------------------------------------------------------------------
(* Properties.                                                             *)

\* Whenever a handler is called, the object it works on is in the room its
\* agent is in at that moment, whatever walked or was moved since the step
\* was planned or the compound action began.
\* (packages/engine/src/physics/index.ts:68-82)
HandsOn ==
  [][\A a \in Agents : (call'[a].pc = "handler" /\ call[a].pc # "handler")
       => objects[call'[a].object].room = at[a]]_vars

\* Between two ticks no object changes its room, appears or vanishes: what a
\* call writes late, it writes into the object as it then is.
\* (packages/engine/src/world/objects/index.ts:160-175)
RelocationSticks ==
  [][now' = now => /\ DOMAIN objects' = DOMAIN objects
                   /\ \A o \in DOMAIN objects : objects'[o].room = objects[o].room]_vars

\* Drives are paid only when the plan takes its step, and only after every
\* affordance of the step was carried out, each once and in order: a compound
\* action that stops half-way has used things up and pays nothing.
\* (packages/cognition/src/pper/execute-service.ts:451-456,500-512)
AllOrNothing ==
  [][\A a \in Agents : (now' = now /\ drives'[a] # drives[a])
       => /\ advanced'[a] = advanced[a] + 1
          /\ IF call[a].compound
             THEN \E o \in Ids : /\ call[a].step \in DOMAIN Compounds(o)
                                 /\ call[a].deeds = Compounds(o)[call[a].step]
             ELSE call[a].deeds = <<call[a].step>>]_vars

Count(id) == IF id \in DOMAIN tally THEN tally[id] ELSE 0
Had(o, f) == Read(Static(o).state, f)
Has(o, f) == Read(objects[o].state, f)

\* What was planted, harvested, eaten, brewed and poured is what the objects
\* show, as long as no call wrote over what happened while it was under way.
\* (packages/engine/src/physics/index.ts:108-120)
BooksBalance ==
  /\ "planter-1" \in DOMAIN objects \ settled =>
       /\ Had("planter-1", "seeds_planted") + Count("plant_seeds")
            = Has("planter-1", "seeds_planted") + 3 * Count("harvest")
       /\ Had("planter-1", "vegetables") + Count("harvest")
            = Has("planter-1", "vegetables") + Count("eat")
  /\ "coffee-1" \in DOMAIN objects \ settled =>
       /\ Had("coffee-1", "bean_count") = Has("coffee-1", "bean_count") + Count("brew_coffee")
       /\ Had("coffee-1", "cup_count") = Has("coffee-1", "cup_count") + Count("pour_cup")

\* What is offered under a condition is accepted by its handler in the same
\* state and gives what it declares; and the planter can always be planted
\* or harvested, so that the way to the next meal is never closed.
\* (examples/dynamic-world.ts:204-232)
OffersHold ==
  /\ \A o \in DOMAIN objects : \A f \in Available(o) :
       LET answer == Handle(f.id, o, "", objects[o].state)
       IN  f.conditions # {} => answer.ok /\ (f.effects # Nothing => answer.gain = f.effects)
  /\ "planter-1" \in DOMAIN objects =>
       \E id \in {"plant_seeds", "harvest"} : Handle(id, "planter-1", "", objects["planter-1"].state).ok
=============================================================================
