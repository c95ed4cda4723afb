-------------------------- MODULE ObjectUse_proofs --------------------------
(***************************************************************************)
(* Proofs about the use of objects: handlers only work on what is in the   *)
(* room of their agent, a call that ends late moves nothing, drives are    *)
(* paid for what was carried out, the books of what was used up balance,   *)
(* and what is offered under a condition is accepted.                      *)
(***************************************************************************)
EXTENDS ObjectUse, SequenceTheorems, WellFoundedInduction, TLAPS

Fields == {"pc", "step", "compound", "room", "rest", "object", "id", "answer", "gain",
           "untouched", "deeds"}

\* Every agent has a call record, every object a room and a state; ticks are counted.
Shapes ==
  /\ now \in Nat
  /\ DOMAIN call = Agents
  /\ \A a \in Agents : DOMAIN call[a] = Fields
  /\ \A o \in DOMAIN objects : DOMAIN objects[o] = {"room", "state"}

LEMMA IdleShape == DOMAIN Idle = Fields /\ Idle.pc = "idle"
  BY DEF Idle, Fields
-----------------------------------------------------------------------------
(* What the parts of a step do to the calls.                               *)

\* Only the call of agent a changes.
OnlyCallOf(a) == /\ DOMAIN call' = Agents
                 /\ \A b \in Agents : b # a => call'[b] = call[b]
                 /\ DOMAIN call'[a] = Fields

LEMMA InvokesCall ==
  ASSUME Shapes, NEW a \in Agents, NEW running, DOMAIN running = Fields, NEW o, NEW id,
         Invokes(a, running, o, id)
  PROVE  OnlyCallOf(a) /\ call'[a].object = o
<1>0. PICK answer :
        call' = [call EXCEPT ![a] = [running EXCEPT !.pc = "handler", !.object = o, !.id = id,
                                                    !.answer = answer, !.untouched = TRUE]]
  BY DEF Invokes
<1> DEFINE started == [running EXCEPT !.pc = "handler", !.object = o, !.id = id,
                                      !.answer = answer, !.untouched = TRUE]
<1>1. call' = [call EXCEPT ![a] = started]
  BY <1>0
<1>2. DOMAIN started = Fields /\ started.object = o
  BY DEF Fields
<1>3. DOMAIN call = Agents
  BY DEF Shapes
<1> HIDE DEF started
<1> QED
  BY <1>1, <1>2, <1>3 DEF OnlyCallOf

LEMMA EndsIdle ==
  ASSUME Shapes, NEW a \in Agents, call' = [call EXCEPT ![a] = Idle]
  PROVE  OnlyCallOf(a) /\ call'[a].pc = "idle"
<1> HIDE DEF Idle
<1> QED
  BY IdleShape DEF OnlyCallOf, Shapes

\* What follows for the agent of a step: its call ends or works on something near.
NearOrNone(a) == call'[a].pc = "handler" => objects[call'[a].object].room = at[a]

LEMMA SubStepNear ==
  ASSUME Shapes, NEW a \in Agents, NEW running, DOMAIN running = Fields,
         NextSubStep(a, running)
  PROVE  OnlyCallOf(a) /\ NearOrNone(a)
<1>1. CASE Completes(a, running) \/ Aborts(a)
  <2>1. call' = [call EXCEPT ![a] = Idle]
    BY <1>1 DEF Completes, Aborts
  <2> QED
    BY <2>1, EndsIdle DEF NearOrNone
<1>2. CASE ~(Completes(a, running) \/ Aborts(a))
  <2>1. PICK o, id : CoLocated(a, o) /\ Invokes(a, [running EXCEPT !.rest = Tail(@)], o, id)
    BY <1>2 DEF NextSubStep
  <2>2. DOMAIN [running EXCEPT !.rest = Tail(@)] = Fields
    OBVIOUS
  <2>3. OnlyCallOf(a) /\ call'[a].object = o
    BY <2>1, <2>2, InvokesCall
  <2> QED
    BY <2>1, <2>3 DEF NearOrNone, CoLocated
<1> QED
  BY <1>1, <1>2

LEMMA StartNear ==
  ASSUME Shapes, NEW a \in Agents, StartAffordance(a)
  PROVE  OnlyCallOf(a) /\ NearOrNone(a)
<1>1. PICK id \in Targets : \E o \in ResolveAffordance(at[a], id) :
       IF Ungated(o, id) /\ CoLocated(a, o)
       THEN Invokes(a, [Idle EXCEPT !.step = id, !.room = at[a]], o, id)
       ELSE Strikes(a, id)
  BY DEF StartAffordance
<1>2. CASE Strikes(a, id)
  <2>1. call' = [call EXCEPT ![a] = Idle]
    BY <1>2 DEF Strikes
  <2> QED
    BY <2>1, EndsIdle DEF NearOrNone
<1>3. CASE ~Strikes(a, id)
  <2>1. PICK o : CoLocated(a, o) /\ Invokes(a, [Idle EXCEPT !.step = id, !.room = at[a]], o, id)
    BY <1>1, <1>3
  <2>2. DOMAIN [Idle EXCEPT !.step = id, !.room = at[a]] = Fields
    BY IdleShape
  <2>3. OnlyCallOf(a) /\ call'[a].object = o
    BY <2>1, <2>2, InvokesCall
  <2> QED
    BY <2>1, <2>3 DEF NearOrNone, CoLocated
<1> QED
  BY <1>2, <1>3

LEMMA CompoundNear ==
  ASSUME Shapes, NEW a \in Agents, StartCompound(a)
  PROVE  OnlyCallOf(a) /\ NearOrNone(a)
<1>1. PICK id, o : NextSubStep(a, [Idle EXCEPT !.step = id, !.compound = TRUE, !.room = at[a],
                                               !.rest = Compounds(o)[id]])
  BY DEF StartCompound
<1>2. DOMAIN [Idle EXCEPT !.step = id, !.compound = TRUE, !.room = at[a],
                          !.rest = Compounds(o)[id]] = Fields
  BY IdleShape
<1> QED
  BY <1>1, <1>2, SubStepNear

LEMMA ContinueNear ==
  ASSUME Shapes, NEW a \in Agents, Continue(a)
  PROVE  OnlyCallOf(a) /\ NearOrNone(a)
<1>1. CASE NextSubStep(a, call[a])
  BY <1>1, SubStepNear DEF Shapes
<1>2. CASE ~NextSubStep(a, call[a])
  <2>1. call' = [call EXCEPT ![a] = Idle]
    BY <1>2 DEF Continue, Aborts, Completes, Strikes
  <2> QED
    BY <2>1, EndsIdle DEF NearOrNone
<1> QED
  BY <1>1, <1>2

\* A write marks calls, it starts none.
LEMMA TouchedCalls ==
  ASSUME NEW calls, DOMAIN calls = Agents, \A b \in Agents : DOMAIN calls[b] = Fields, NEW W
  PROVE  /\ DOMAIN Touched(calls, W) = Agents
         /\ \A b \in Agents : /\ DOMAIN Touched(calls, W)[b] = Fields
                              /\ Touched(calls, W)[b].pc = calls[b].pc
<1> SUFFICES ASSUME NEW b \in Agents
             PROVE  /\ DOMAIN Touched(calls, W)[b] = Fields
                    /\ Touched(calls, W)[b].pc = calls[b].pc
  BY DEF Touched
<1>1. Touched(calls, W)[b] = IF calls[b].pc = "handler" /\ calls[b].object \in W
                             THEN [calls[b] EXCEPT !.untouched = FALSE] ELSE calls[b]
  BY DEF Touched
<1>2. DOMAIN calls[b] = Fields
  OBVIOUS
<1> QED
  BY <1>1, <1>2 DEF Fields

LEMMA SettleCalls ==
  ASSUME Shapes, NEW a \in Agents, Settle(a)
  PROVE  /\ DOMAIN call' = Agents
         /\ \A b \in Agents : /\ DOMAIN call'[b] = Fields
                              /\ call'[b].pc = "handler" => call[b].pc = "handler"
<1> DEFINE c == call[a]
           hop == [c EXCEPT !.pc = "hop", !.gain = Plus(@, c.answer.gain),
                            !.deeds = Append(@, c.id)]
           calls == [call EXCEPT ![a] = hop]
<1>1. DOMAIN call = Agents /\ \A b \in Agents : DOMAIN call[b] = Fields
  BY DEF Shapes
<1>2. DOMAIN hop = Fields /\ hop.pc = "hop"
  BY <1>1 DEF Fields
<1>3. CASE c.answer.ok
  <2> HIDE DEF hop
  <2>1. call' = Touched(calls, WrittenBy(a))
    BY <1>3 DEF Settle, hop
  <2>2. DOMAIN calls = Agents
    BY <1>1
  <2>3. \A b \in Agents : DOMAIN calls[b] = Fields /\ calls[b].pc = "handler" => call[b].pc = "handler"
    BY <1>1, <1>2
  <2>4. \A b \in Agents : DOMAIN calls[b] = Fields
    BY <1>1, <1>2
  <2> HIDE DEF calls
  <2> QED
    BY <2>1, <2>2, <2>3, <2>4, TouchedCalls
<1>4. CASE ~c.answer.ok
  <2>1. call' = [call EXCEPT ![a].pc = "hop"]
    BY <1>4 DEF Settle
  <2>2. c.pc = "handler"
    BY DEF Settle
  <2> QED
    BY <2>1, <2>2, <1>1
<1> QED
  BY <1>3, <1>4
-----------------------------------------------------------------------------
(* What a call writes leaves every object where it is.                     *)

SameRooms == /\ DOMAIN objects' = DOMAIN objects
             /\ \A o \in DOMAIN objects : /\ objects'[o].room = objects[o].room
                                          /\ DOMAIN objects'[o] = {"room", "state"}

LEMMA WrittenRooms ==
  ASSUME Shapes, NEW a \in Agents, objects' = Written(a)
  PROVE  SameRooms
<1> DEFINE c == call[a]
           own == IF c.answer.writes /\ c.object \in DOMAIN objects
                  THEN [objects EXCEPT ![c.object].state = c.answer.state] ELSE objects
<1>1. DOMAIN own = DOMAIN objects
  OBVIOUS
<1>2. \A o \in DOMAIN objects : own[o].room = objects[o].room /\ DOMAIN own[o] = {"room", "state"}
  BY DEF Shapes
<1>3. objects' = [o \in DOMAIN own |->
                   IF \E p \in c.answer.patches : p.object = o
                   THEN [own[o] EXCEPT !.state =
                           Merge(@, (CHOOSE p \in c.answer.patches : p.object = o).patch)]
                   ELSE own[o]]
  BY DEF Written
<1> HIDE DEF own
<1>4. ASSUME NEW o \in DOMAIN objects
      PROVE  objects'[o].room = objects[o].room /\ DOMAIN objects'[o] = {"room", "state"}
  <2> DEFINE patch == (CHOOSE p \in c.answer.patches : p.object = o).patch
  <2>1. \/ objects'[o] = own[o]
        \/ objects'[o] = [own[o] EXCEPT !.state = Merge(@, patch)]
    BY <1>1, <1>3
  <2> HIDE DEF patch
  <2> QED
    BY <2>1, <1>2
<1> QED
  BY <1>1, <1>3, <1>4 DEF SameRooms

LEMMA SettleRooms ==
  ASSUME Shapes, NEW a \in Agents, Settle(a)
  PROVE  SameRooms
<1>1. objects' = Written(a) \/ objects' = objects
  BY DEF Settle
<1>2. objects' = objects => SameRooms
  BY DEF SameRooms, Shapes
<1> QED
  BY <1>1, <1>2, WrittenRooms

LEMMA StayRooms ==
  ASSUME Shapes, UNCHANGED objects
  PROVE  SameRooms
  BY DEF SameRooms, Shapes
-----------------------------------------------------------------------------
(* Every step of an agent, and every step of the world.                    *)

Works(a) == StartAffordance(a) \/ StartCompound(a) \/ SkipUnknown(a) \/ Continue(a)

LEMMA WorksNear ==
  ASSUME Shapes, NEW a \in Agents, Works(a)
  PROVE  /\ UNCHANGED objects
         /\ DOMAIN call' = Agents
         /\ \A b \in Agents : /\ DOMAIN call'[b] = Fields
                              /\ b = a => NearOrNone(b)
                              /\ b # a => call'[b] = call[b]
<1>1. UNCHANGED objects
  BY DEF Works, StartAffordance, StartCompound, SkipUnknown, Continue, Begin
<1>2. CASE SkipUnknown(a)
  <2>1. call' = call /\ call[a].pc = "idle"
    BY <1>2 DEF SkipUnknown, Begin
  <2> QED
    BY <1>1, <2>1 DEF Shapes, NearOrNone
<1>3. CASE ~SkipUnknown(a)
  <2>1. OnlyCallOf(a) /\ NearOrNone(a)
    BY <1>3, StartNear, CompoundNear, ContinueNear DEF Works
  <2> QED
    BY <1>1, <2>1 DEF OnlyCallOf, Shapes
<1> QED
  BY <1>2, <1>3

\* The call c is that of agent b, perhaps with what its handler answers for the
\* state of its object after the rules.
Again(b, c, W) ==
  \/ c = call[b]
  \/ /\ call[b].pc = "handler" /\ call[b].answer.ok /\ call[b].object \in W
     /\ c = [call[b] EXCEPT !.answer = Handle(call[b].id, call[b].object, b,
                                              objects'[call[b].object].state)]

\* What a tick makes of the calls, before it marks those of the objects W.
Waiting(calls, W) ==
  /\ call' = Touched(calls, W)
  /\ DOMAIN calls = Agents /\ W \subseteq DOMAIN objects'
  /\ \A b \in Agents : Again(b, calls[b], W) /\ DOMAIN calls[b] = Fields /\ calls[b].pc = call[b].pc

LEMMA TickWaiting ==
  ASSUME Shapes, Tick
  PROVE  \E calls, W : Waiting(calls, W)
<1>1. PICK W : /\ \E seen \in SUBSET Holding(W) : call' = Touched(Reread(seen, objects'), W)
               /\ W \subseteq DOMAIN objects'
  <2> DEFINE W == {x[1] : x \in Ruled(Mutated)}
  <2>1. \E seen \in SUBSET Holding(W) : call' = Touched(Reread(seen, objects'), W)
    BY DEF Tick
  <2>2. DOMAIN objects' = DOMAIN Mutated
    BY DEF Tick
  <2>3. W \subseteq DOMAIN Mutated
    BY DEF Ruled
  <2> HIDE DEF W
  <2>4. QED
    BY <2>1, <2>2, <2>3
<1>2. PICK seen \in SUBSET Holding(W) : call' = Touched(Reread(seen, objects'), W)
  BY <1>1
<1> DEFINE calls == Reread(seen, objects')
<1>3. DOMAIN calls = Agents
  BY DEF Reread
<1>4. ASSUME NEW b \in Agents
      PROVE  Again(b, calls[b], W) /\ DOMAIN calls[b] = Fields /\ calls[b].pc = call[b].pc
  <2> DEFINE c == call[b]
             d == calls[b]
             answer == Handle(call[b].id, call[b].object, b, objects'[call[b].object].state)
  <2>1. DOMAIN c = Fields
    BY DEF Shapes
  <2>2. CASE b \in seen
    <3>1. d = [c EXCEPT !.answer = answer]
      BY <2>2 DEF Reread
    <3>2. c.pc = "handler" /\ c.answer.ok /\ c.object \in W
      BY <2>2 DEF Holding
    <3>3. Again(b, d, W)
      BY <3>1, <3>2 DEF Again
    <3> HIDE DEF c, d, answer
    <3>4. DOMAIN d = Fields /\ d.pc = c.pc
      BY <2>1, <3>1 DEF Fields
    <3>5. QED
      BY <3>3, <3>4 DEF c, d
  <2>3. CASE b \notin seen
    <3>1. d = c
      BY <2>3 DEF Reread
    <3>2. QED
      BY <2>1, <3>1 DEF Again
  <2>4. QED
    BY <2>2, <2>3
<1> HIDE DEF calls
<1>5. call' = Touched(calls, W)
  BY <1>2 DEF calls
<1>6. QED
  BY <1>1, <1>3, <1>4, <1>5 DEF Waiting

LEMMA TickCalls ==
  ASSUME Shapes, Tick
  PROVE  /\ now' # now
         /\ Shapes'
         /\ \A b \in Agents : call'[b].pc = call[b].pc
<1>1. now < MaxTicks /\ now' = now + 1
  BY DEF Tick
<1>2. PICK calls, W : Waiting(calls, W)
  BY TickWaiting
<1>3. /\ DOMAIN call' = Agents
      /\ \A b \in Agents : DOMAIN call'[b] = Fields /\ call'[b].pc = call[b].pc
  BY <1>2, TouchedCalls DEF Waiting
<1>4. \A o \in DOMAIN objects' : DOMAIN objects'[o] = {"room", "state"}
  BY DEF Tick
<1>5. now' # now
  BY <1>1 DEF Shapes
<1> QED
  BY <1>1, <1>3, <1>4, <1>5 DEF Shapes
-----------------------------------------------------------------------------
(* The theorems.                                                           *)

LEMMA InitShapes == Init => Shapes
<1> SUFFICES ASSUME Init PROVE Shapes
  OBVIOUS
<1> HIDE DEF Idle
<1>1. now \in Nat
  BY DEF Init
<1>2. DOMAIN call = Agents /\ \A a \in Agents : DOMAIN call[a] = Fields
  BY IdleShape DEF Init
<1>3. \A o \in Ids : DOMAIN Fresh(o) = {"room", "state"}
  BY DEF Fresh
<1>4. \A o \in DOMAIN objects : DOMAIN objects[o] = {"room", "state"}
  BY <1>3 DEF Init
<1> QED
  BY <1>1, <1>2, <1>4 DEF Shapes

\* What one step of the system may do.
LEMMA StepFacts ==
  ASSUME Shapes, Next
  PROVE  /\ Shapes'
         /\ now' = now => SameRooms
         /\ \A b \in Agents : (call'[b].pc = "handler" /\ call[b].pc # "handler") => NearOrNone(b)
<1>1. CASE Tick
  BY <1>1, TickCalls
<1>2. CASE Propose
  <2>1. UNCHANGED <<call, objects, now>>
    BY <1>2 DEF Propose
  <2> QED
    BY <2>1, StayRooms DEF Shapes
<1>3. ASSUME NEW a \in Agents, Works(a)
      PROVE  /\ Shapes'
             /\ SameRooms
             /\ \A b \in Agents : (call'[b].pc = "handler" /\ call[b].pc # "handler") => NearOrNone(b)
  <2>1. now' = now
    BY <1>3 DEF Works, StartAffordance, StartCompound, SkipUnknown, Continue, Begin
  <2>2. /\ UNCHANGED objects
        /\ DOMAIN call' = Agents
        /\ \A b \in Agents : /\ DOMAIN call'[b] = Fields
                             /\ b = a => NearOrNone(b)
                             /\ b # a => call'[b] = call[b]
    BY <1>3, WorksNear
  <2> QED
    BY <2>1, <2>2, StayRooms DEF Shapes
<1>4. ASSUME NEW a \in Agents, Settle(a)
      PROVE  /\ Shapes'
             /\ SameRooms
             /\ \A b \in Agents : (call'[b].pc = "handler" /\ call[b].pc # "handler") => NearOrNone(b)
  <2>1. now' = now
    BY <1>4 DEF Settle
  <2>2. SameRooms
    BY <1>4, SettleRooms
  <2>3. /\ DOMAIN call' = Agents
        /\ \A b \in Agents : /\ DOMAIN call'[b] = Fields
                             /\ call'[b].pc = "handler" => call[b].pc = "handler"
    BY <1>4, SettleCalls
  <2> QED
    BY <2>1, <2>2, <2>3 DEF Shapes, SameRooms
<1> QED
  BY <1>1, <1>2, <1>3, <1>4 DEF Next, Works

\* Every call keeps its fields and every object its room and state, whatever happens.
THEOREM ShapesHold == Spec => []Shapes
<1>1. Shapes /\ [Next]_vars => Shapes'
  <2>1. Shapes /\ UNCHANGED vars => Shapes'
    BY DEF Shapes, vars, agency, world
  <2> QED
    BY <2>1, StepFacts
<1> QED
  BY InitShapes, <1>1, PTL DEF Spec

\* A handler is only called on an object in the room of its agent, for any
\* agents, scene, compound actions, walks and relocations
\* (packages/engine/src/physics/index.ts:68-82).
THEOREM HandsOnHolds == Spec => HandsOn
<1>1. Shapes /\ [Next]_vars =>
        [\A a \in Agents : (call'[a].pc = "handler" /\ call[a].pc # "handler")
           => objects[call'[a].object].room = at[a]]_vars
  BY StepFacts DEF NearOrNone
<1> QED
  BY ShapesHold, <1>1, PTL DEF Spec, HandsOn

\* Only the tick moves, adds or removes an object; an answer written late is
\* written where the object now is
\* (packages/engine/src/world/objects/index.ts:160-175).
THEOREM RelocationSticksHolds == Spec => RelocationSticks
<1>1. Shapes /\ [Next]_vars =>
        [now' = now => /\ DOMAIN objects' = DOMAIN objects
                       /\ \A o \in DOMAIN objects : objects'[o].room = objects[o].room]_vars
  BY StepFacts DEF SameRooms
<1> QED
  BY ShapesHold, <1>1, PTL DEF Spec, RelocationSticks

-----------------------------------------------------------------------------
(* What a tick carries out of the mutations that wait: objects are moved   *)
(* and removed, and keep their states.                                     *)

LEMMA LeastNumber ==
  ASSUME NEW S \in SUBSET Nat, S # {}
  PROVE  \E n \in S : \A m \in S : ~(m < n)
<1>1. PICK n \in S : \A m \in S : <<m, n>> \notin OpToRel(<, Nat)
  BY NatLessThanWellFounded, WFMin
<1>2. \A m, k \in Nat : m < k => <<m, k>> \in OpToRel(<, Nat)
  BY DEF OpToRel
<1>3. QED
  BY <1>1, <1>2

LEMMA SetInduction ==
  ASSUME NEW S, 0 \in S, \A n \in Nat : n \in S => n + 1 \in S
  PROVE  Nat \subseteq S
<1> DEFINE T == {n \in Nat : n \notin S}
<1>1. SUFFICES ASSUME T # {} PROVE FALSE
  OBVIOUS
<1>2. PICK n \in T : \A m \in T : ~(m < n)
  BY <1>1, LeastNumber
<1>3. n # 0 /\ n - 1 \in Nat /\ n - 1 < n
  BY <1>2
<1>4. n - 1 \in S
  BY <1>2, <1>3
<1>5. (n - 1) + 1 \in S
  BY <1>3, <1>4
<1>6. QED
  BY <1>2, <1>5

KeepsStates(w) ==
  /\ DOMAIN w \subseteq DOMAIN objects
  /\ \A o \in DOMAIN w : DOMAIN w[o] = {"room", "state"} /\ w[o].state = objects[o].state

LEMMA ApplyKeeps ==
  ASSUME NEW w, KeepsStates(w), NEW p
  PROVE  KeepsStates(Apply(w, p))
<1>1. CASE p.object \notin DOMAIN w
  BY <1>1 DEF Apply
<1>2. CASE p.object \in DOMAIN w /\ p.room = ""
  <2>1. Apply(w, p) = [o \in DOMAIN w \ {p.object} |-> w[o]]
    BY <1>2 DEF Apply
  <2>2. QED
    BY <2>1 DEF KeepsStates
<1>3. CASE p.object \in DOMAIN w /\ p.room # ""
  <2>1. Apply(w, p) = [w EXCEPT ![p.object].room = p.room]
    BY <1>3 DEF Apply
  <2>2. QED
    BY <2>1 DEF KeepsStates
<1>4. QED
  BY <1>1, <1>2, <1>3

Stages(f, n) ==
  f = [i \in 0..n |-> IF i = 0 THEN objects ELSE Apply(f[i - 1], proposals[i])]

LEMMA StagesExist == \A n \in Nat : \E f : Stages(f, n)
<1> DEFINE S == {n \in Nat : \E f : Stages(f, n)}
<1>1. 0 \in S
  <2> DEFINE g == [i \in 0..0 |-> objects]
  <2>1. Stages(g, 0)
    BY DEF Stages
  <2>2. QED
    BY <2>1
<1>2. ASSUME NEW n \in Nat, n \in S PROVE n + 1 \in S
  <2>1. PICK f : Stages(f, n)
    BY <1>2
  <2> DEFINE g == [i \in 0..(n + 1) |-> IF i = n + 1 THEN Apply(f[n], proposals[n + 1]) ELSE f[i]]
  <2>2. \A i \in 0..n : g[i] = f[i]
    OBVIOUS
  <2>3. \A i \in 0..n : f[i] = IF i = 0 THEN objects ELSE Apply(f[i - 1], proposals[i])
    BY <2>1 DEF Stages
  <2>4. g[n + 1] = Apply(g[n], proposals[n + 1])
    BY <2>2
  <2>5. g = [i \in 0..(n + 1) |-> g[i]]
    OBVIOUS
  <2> HIDE DEF g
  <2>6. ASSUME NEW i \in 0..(n + 1)
        PROVE  g[i] = IF i = 0 THEN objects ELSE Apply(g[i - 1], proposals[i])
    <3>1. CASE i = n + 1
      BY <3>1, <2>4
    <3>2. CASE i # n + 1
      <4>1. i \in 0..n /\ (i # 0 => i - 1 \in 0..n)
        BY <3>2
      <4>2. QED
        BY <4>1, <2>2, <2>3
    <3>3. QED
      BY <3>1, <3>2
  <2>7. Stages(g, n + 1)
    BY <2>5, <2>6 DEF Stages
  <2>8. QED
    BY <2>7
<1> HIDE DEF S
<1>3. Nat \subseteq S
  BY <1>1, <1>2, SetInduction
<1>4. QED
  BY <1>3 DEF S

LEMMA StagesKeep ==
  ASSUME Shapes, NEW n \in Nat, NEW f, Stages(f, n)
  PROVE  KeepsStates(f[n])
<1> DEFINE S == {i \in Nat : i <= n => KeepsStates(f[i])}
<1>1. \A i \in 0..n : f[i] = IF i = 0 THEN objects ELSE Apply(f[i - 1], proposals[i])
  BY DEF Stages
<1>2. 0 \in S
  <2>1. f[0] = objects
    BY <1>1
  <2>2. QED
    BY <2>1 DEF KeepsStates, Shapes
<1>3. ASSUME NEW i \in Nat, i \in S PROVE i + 1 \in S
  <2>1. SUFFICES ASSUME i + 1 <= n PROVE KeepsStates(f[i + 1])
    OBVIOUS
  <2>2. i + 1 \in 0..n /\ i + 1 # 0 /\ (i + 1) - 1 = i /\ i <= n
    BY <2>1
  <2>3. f[i + 1] = Apply(f[i], proposals[i + 1])
    BY <1>1, <2>2
  <2>4. KeepsStates(f[i])
    BY <1>3, <2>2
  <2>5. QED
    BY <2>3, <2>4, ApplyKeeps
<1> HIDE DEF S
<1>4. Nat \subseteq S
  BY <1>2, <1>3, SetInduction
<1>5. QED
  BY <1>4 DEF S

\* What is registered is of the scene, and what waits is a list.
KnownInv == DOMAIN objects \subseteq Ids /\ \E S : proposals \in Seq(S)

LEMMA MutatedKeeps ==
  ASSUME Shapes, KnownInv
  PROVE  KeepsStates(Mutated)
<1>1. Len(proposals) \in Nat
  BY LenProperties DEF KnownInv
<1>2. \E f : f = [i \in 0..Len(proposals) |->
                    IF i = 0 THEN objects ELSE Apply(f[i - 1], proposals[i])]
  BY <1>1, StagesExist DEF Stages
<1> DEFINE after == CHOOSE f : f = [i \in 0..Len(proposals) |->
                                      IF i = 0 THEN objects ELSE Apply(f[i - 1], proposals[i])]
<1>3. after = [i \in 0..Len(proposals) |->
                 IF i = 0 THEN objects ELSE Apply(after[i - 1], proposals[i])]
  BY <1>2
<1>4. Mutated = after[Len(proposals)]
  BY DEF Mutated
<1> HIDE DEF after
<1>5. Stages(after, Len(proposals))
  BY <1>3 DEF Stages
<1>6. QED
  BY <1>1, <1>4, <1>5, StagesKeep

LEMMA ListGrows ==
  ASSUME KnownInv, NEW e, proposals' = Append(proposals, e), UNCHANGED objects
  PROVE  KnownInv'
<1>1. PICK S : proposals \in Seq(S)
  BY DEF KnownInv
<1>2. proposals \in Seq(S \cup {e})
  BY <1>1, SeqMonotonic
<1>3. proposals' \in Seq(S \cup {e})
  BY <1>2, AppendProperties
<1>4. QED
  BY <1>3 DEF KnownInv

LEMMA SubStepList ==
  ASSUME NEW a, NEW r, NextSubStep(a, r)
  PROVE  proposals' = proposals \/ \E e : proposals' = Append(proposals, e)
BY DEF NextSubStep, Completes, Aborts, Invokes

LEMMA WorksList ==
  ASSUME NEW a, Works(a)
  PROVE  proposals' = proposals \/ \E e : proposals' = Append(proposals, e)
<1>1. CASE StartAffordance(a)
  BY <1>1 DEF StartAffordance, Strikes, Invokes
<1>2. CASE StartCompound(a)
  BY <1>2, SubStepList DEF StartCompound
<1>3. CASE SkipUnknown(a)
  BY <1>3 DEF SkipUnknown
<1>4. CASE Continue(a)
  <2>1. CASE NextSubStep(a, call[a])
    BY <2>1, SubStepList
  <2>2. CASE ~NextSubStep(a, call[a])
    BY <1>4, <2>2 DEF Continue, Aborts, Completes, Strikes
  <2>3. QED
    BY <2>1, <2>2
<1>5. QED
  BY <1>1, <1>2, <1>3, <1>4 DEF Works

LEMMA KnownNext ==
  ASSUME Shapes, KnownInv, [Next]_vars
  PROVE  KnownInv'
<1>1. CASE UNCHANGED vars
  BY <1>1 DEF vars, world, KnownInv
<1>2. ASSUME NEW a \in Agents, Works(a) PROVE KnownInv'
  <2>1. UNCHANGED objects
    BY <1>2, WorksNear
  <2>2. CASE proposals' = proposals
    BY <2>1, <2>2 DEF KnownInv
  <2>3. CASE proposals' # proposals
    <3>1. PICK e : proposals' = Append(proposals, e)
      BY <1>2, <2>3, WorksList
    <3>2. QED
      BY <2>1, <3>1, ListGrows
  <2>4. QED
    BY <2>2, <2>3
<1>3. ASSUME NEW a \in Agents, Settle(a) PROVE KnownInv'
  <2>1. DOMAIN objects' = DOMAIN objects /\ proposals' = proposals
    BY <1>3, SettleRooms DEF SameRooms, Settle
  <2>2. QED
    BY <2>1 DEF KnownInv
<1>4. CASE Propose
  <2>1. UNCHANGED objects /\ \E p \in Orders : proposals' = Append(proposals, p)
    BY <1>4 DEF Propose
  <2>2. QED
    BY <2>1, ListGrows
<1>5. CASE Tick
  <2>1. DOMAIN objects' = DOMAIN Mutated /\ proposals' = <<>>
    BY <1>5 DEF Tick
  <2>2. DOMAIN Mutated \subseteq DOMAIN objects
    BY MutatedKeeps DEF KeepsStates
  <2>3. proposals' \in Seq({})
    BY <2>1, EmptySeq
  <2>4. QED
    BY <2>1, <2>2, <2>3 DEF KnownInv
<1>6. QED
  BY <1>1, <1>2, <1>3, <1>4, <1>5 DEF Next, Works

LEMMA KnownInit == Init => KnownInv
<1> SUFFICES ASSUME Init PROVE KnownInv
  OBVIOUS
<1>1. <<>> \in Seq({})
  BY EmptySeq
<1>2. QED
  BY <1>1 DEF Init, KnownInv
-----------------------------------------------------------------------------
(* What a step has carried out.  Of a compound action the deeds of a call  *)
(* are a beginning of its list, and what it still has to do is the rest.   *)

LEMMA StaticIs ==
  ASSUME NEW o \in Ids
  PROVE  Static(o) \in Scene /\ Static(o).id = o
<1>1. \E x \in Scene : x.id = o
  BY DEF Ids
<1>2. (CHOOSE x \in Scene : x.id = o) \in Scene /\ (CHOOSE x \in Scene : x.id = o).id = o
  BY <1>1
<1>3. QED
  BY <1>2 DEF Static, Catalog

LEMMA ListIs ==
  ASSUME NEW o \in Ids, NEW id \in DOMAIN Compounds(o)
  PROVE  Compounds(o)[id] \in Seq(STRING)
BY StaticIs, SceneAssumption DEF Compounds

\* The first n of a list, and what follows them.
Upto(C, n) == SubSeq(C, 1, n)
From(C, n) == SubSeq(C, n + 1, Len(C))

LEMMA FromIs ==
  ASSUME NEW C \in Seq(STRING), NEW n \in 0..Len(C)
  PROVE  Len(From(C, n)) = Len(C) - n
<1>1. Len(C) \in Nat /\ n \in Nat /\ n <= Len(C)
  BY LenProperties
<1>2. n + 1 \in Int /\ Len(C) \in Int /\ \A i \in (n + 1)..Len(C) : C[i] \in STRING
  BY <1>1, ElementOfSeq
<1>3. QED
  BY <1>1, <1>2, SubSeqProperties DEF From

LEMMA NothingToDo ==
  ASSUME NEW C \in Seq(STRING), NEW n \in 0..Len(C), From(C, n) = <<>>
  PROVE  Upto(C, n) = C
<1>1. n = Len(C)
  BY FromIs, LenProperties
<1>2. QED
  BY <1>1, SubSeqFull DEF Upto

LEMMA OneMore ==
  ASSUME NEW C \in Seq(STRING), NEW n \in 0..Len(C), From(C, n) # <<>>
  PROVE  /\ n < Len(C) /\ n + 1 \in 0..Len(C)
         /\ Head(From(C, n)) = C[n + 1] /\ Tail(From(C, n)) = From(C, n + 1)
         /\ Append(Upto(C, n), C[n + 1]) = Upto(C, n + 1)
<1>0. Len(C) \in Nat /\ n \in Nat
  BY LenProperties
<1>1. n < Len(C)
  <2>1. SUFFICES ASSUME n = Len(C) PROVE FALSE
    BY <1>0
  <2>2. From(C, n) = <<>>
    BY <1>0, <2>1, SubSeqEmpty DEF From
  <2>3. QED
    BY <2>2
<1>2. n + 1 \in 1..Len(C) /\ Len(C) \in (n + 1)..Len(C)
  BY <1>0, <1>1
<1>3. Head(From(C, n)) = C[n + 1] /\ Tail(From(C, n)) = From(C, n + 1)
  BY <1>2, HeadTailOfSubSeq DEF From
<1>4. C[n + 1] \in STRING /\ Upto(C, n) \in Seq(STRING)
  <2>1. \A i \in 1..n : C[i] \in STRING
    BY <1>0, <1>1, ElementOfSeq
  <2>2. Upto(C, n) \in Seq(STRING)
    BY <1>0, <2>1, SubSeqProperties DEF Upto
  <2>3. QED
    BY <1>2, <2>2, ElementOfSeq
<1>5. Upto(C, n + 1) = Upto(C, n) \o <<C[n + 1]>>
  <2>1. 1 \in 1..Len(C) /\ n + 1 \in 1..Len(C) /\ (n + 1) - 1 = n
    BY <1>0, <1>1
  <2>2. SubSeq(C, 1, n + 1) = SubSeq(C, 1, (n + 1) - 1) \o <<C[n + 1]>>
    BY <2>1, SubSeqRecursiveSecond
  <2>3. QED
    BY <2>1, <2>2 DEF Upto
<1>6. QED
  BY <1>0, <1>1, <1>2, <1>3, <1>4, <1>5, AppendIsConcat

\* The call c has carried out the first n sub-steps of the action.
OfList(c, o, n) ==
  /\ o \in Ids /\ c.step \in DOMAIN Compounds(o) /\ n \in 0..Len(Compounds(o)[c.step])
  /\ c.deeds = Upto(Compounds(o)[c.step], n) /\ c.rest = From(Compounds(o)[c.step], n)

\* It is carrying out the one after them.
AmidList(c, o, n) ==
  /\ o \in Ids /\ c.step \in DOMAIN Compounds(o) /\ n + 1 \in 1..Len(Compounds(o)[c.step])
  /\ n \in Nat
  /\ c.deeds = Upto(Compounds(o)[c.step], n) /\ c.id = Compounds(o)[c.step][n + 1]
  /\ c.rest = From(Compounds(o)[c.step], n + 1)

Onto(c) == \/ c.compound /\ \E o, n : OfList(c, o, n)
           \/ ~c.compound /\ c.deeds = <<c.step>>
Amid(c) == \/ c.compound /\ \E o, n : AmidList(c, o, n)
           \/ ~c.compound /\ c.deeds = <<>> /\ c.id = c.step

CallDeeds(c) == /\ c.pc \in {"idle", "handler", "hop"} /\ c.compound \in BOOLEAN
                /\ c.pc = "handler" => Amid(c)
                /\ c.pc = "hop" /\ c.answer.ok => Onto(c)

DeedInv ==
  /\ drives = [a \in Agents |-> drives[a]] /\ \A a \in Agents : drives[a] = [k \in DriveKeys |-> drives[a][k]]
  /\ DOMAIN advanced = Agents
  /\ \A a \in Agents : CallDeeds(call[a])

LEMMA SameDeeds ==
  ASSUME NEW c, NEW d, d.step = c.step, d.compound = c.compound, d.rest = c.rest, d.id = c.id, d.deeds = c.deeds
  PROVE  (Amid(c) => Amid(d)) /\ (Onto(c) => Onto(d))
BY DEF Amid, Onto, AmidList, OfList

\* The one that was being carried out is done.
LEMMA OneDone ==
  ASSUME NEW c, Amid(c), NEW d, d.step = c.step, d.compound = c.compound, d.rest = c.rest,
         d.deeds = Append(c.deeds, c.id)
  PROVE  Onto(d)
<1>1. CASE c.compound
  <2>1. PICK o, n : AmidList(c, o, n)
    BY <1>1 DEF Amid
  <2> DEFINE C == Compounds(o)[c.step]
  <2>2. C \in Seq(STRING) /\ Len(C) \in Nat
    BY <2>1, ListIs, LenProperties DEF AmidList
  <2>3. /\ n \in Nat /\ n + 1 \in 1..Len(C) /\ c.deeds = Upto(C, n) /\ c.id = C[n + 1] /\ c.rest = From(C, n + 1)
    BY <2>1 DEF AmidList
  <2> HIDE DEF C
  <2>4. n \in 0..Len(C) /\ From(C, n) # <<>>
    <3>1. n \in 0..Len(C) /\ n < Len(C)
      BY <2>2, <2>3
    <3>2. Len(From(C, n)) = Len(C) - n
      BY <2>2, <3>1, FromIs
    <3>3. Len(From(C, n)) # 0
      BY <2>2, <3>1, <3>2
    <3>4. QED
      BY <3>1, <3>3
  <2>5. d.deeds = Upto(C, n + 1) /\ n + 1 \in 0..Len(C)
    BY <2>2, <2>3, <2>4, OneMore
  <2>6. OfList(d, o, n + 1)
    BY <2>1, <2>3, <2>5 DEF OfList, AmidList, C
  <2>7. QED
    BY <1>1, <2>6 DEF Onto
<1>2. CASE ~c.compound
  <2>1. c.deeds = <<>> /\ c.id = c.step
    BY <1>2 DEF Amid
  <2>2. d.deeds = <<c.step>>
    BY <2>1
  <2>3. QED
    BY <1>2, <2>2 DEF Onto
<1>3. QED
  BY <1>1, <1>2

\* The drives of an agent are paid for.
PaidFor(a) ==
  drives'[a] # drives[a]
    => /\ advanced'[a] = advanced[a] + 1
       /\ IF call[a].compound
          THEN \E o \in Ids : /\ call[a].step \in DOMAIN Compounds(o)
                              /\ call[a].deeds = Compounds(o)[call[a].step]
          ELSE call[a].deeds = <<call[a].step>>

\* What a step of agent a does to deeds and drives.
DeedStep(a) ==
  /\ OnlyCallOf(a) /\ CallDeeds(call'[a]) /\ DOMAIN advanced' = Agents
  /\ drives' = [b \in Agents |-> drives'[b]] /\ drives'[a] = [k \in DriveKeys |-> drives'[a][k]]
  /\ \A b \in Agents : b # a => drives'[b] = drives[b]
  /\ PaidFor(a)

LEMMA IdleDeeds == CallDeeds(Idle) /\ Idle.gain = Nothing /\ Idle.deeds = <<>> /\ Idle.compound = FALSE
BY DEF Idle, CallDeeds

\* Without a gain the drives stay as they are.
LEMMA NoGain ==
  ASSUME NEW d, d = [k \in DriveKeys |-> d[k]]
  PROVE  Changed(d, Nothing) = d
<1>1. DOMAIN Nothing = {}
  BY DEF Nothing
<1>2. Changed(d, Nothing) = [k \in DriveKeys |-> d[k]]
  BY <1>1 DEF Changed
<1>3. QED
  BY <1>2

LEMMA UnpaidStep ==
  ASSUME DeedInv, NEW a \in Agents, OnlyCallOf(a), CallDeeds(call'[a]), drives' = drives,
         DOMAIN advanced' = Agents
  PROVE  DeedStep(a)
<1>1. PaidFor(a)
  BY DEF PaidFor
<1>2. QED
  BY <1>1 DEF DeedStep, DeedInv

LEMMA EndsUnpaid ==
  ASSUME Shapes, DeedInv, NEW a \in Agents, call' = [call EXCEPT ![a] = Idle], drives' = drives,
         DOMAIN advanced' = Agents
  PROVE  DeedStep(a)
<1>1. OnlyCallOf(a) /\ call'[a] = Idle
  BY EndsIdle DEF Shapes
<1>2. CallDeeds(call'[a])
  BY <1>1, IdleDeeds DEF CallDeeds, Amid, Onto, AmidList, OfList
<1>3. QED
  BY <1>1, <1>2, UnpaidStep

LEMMA CompletesDeeds ==
  ASSUME Shapes, DeedInv, NEW a \in Agents, NEW running, Completes(a, running),
         \/ running.gain = Nothing
         \/ IF call[a].compound
            THEN \E o \in Ids : /\ call[a].step \in DOMAIN Compounds(o)
                                /\ call[a].deeds = Compounds(o)[call[a].step]
            ELSE call[a].deeds = <<call[a].step>>
  PROVE  DeedStep(a)
<1> DEFINE paid == Changed(drives[a], running.gain)
<1>1. /\ drives' = [drives EXCEPT ![a] = paid]
      /\ advanced' = [advanced EXCEPT ![a] = @ + 1] /\ call' = [call EXCEPT ![a] = Idle]
  BY DEF Completes
<1>2. OnlyCallOf(a) /\ call'[a] = Idle
  BY <1>1, EndsIdle DEF Shapes
<1>3. CallDeeds(call'[a])
  BY <1>2, IdleDeeds DEF CallDeeds, Amid, Onto, AmidList, OfList
<1>4. paid = [k \in DriveKeys |-> paid[k]]
  BY DEF Changed
<1>5. running.gain = Nothing => paid = drives[a]
  BY NoGain DEF DeedInv
<1> HIDE DEF paid
<1>6. drives' = [b \in Agents |-> IF b = a THEN paid ELSE drives[b]]
  BY <1>1 DEF DeedInv
<1>7. /\ drives' = [b \in Agents |-> drives'[b]] /\ drives'[a] = [k \in DriveKeys |-> drives'[a][k]]
      /\ \A b \in Agents : b # a => drives'[b] = drives[b]
      /\ drives'[a] = paid
  BY <1>4, <1>6
<1>8. DOMAIN advanced' = Agents /\ advanced'[a] = advanced[a] + 1
  BY <1>1 DEF DeedInv
<1>9. PaidFor(a)
  BY <1>5, <1>7, <1>8 DEF PaidFor
<1>10. QED
  BY <1>2, <1>3, <1>7, <1>8, <1>9 DEF DeedStep

\* The call of agent a is that of the handler id of o.
Invoked(a, r, o, id) ==
  /\ OnlyCallOf(a) /\ drives' = drives /\ advanced' = advanced
  /\ call'[a].pc = "handler" /\ call'[a].object = o /\ call'[a].id = id
  /\ call'[a].answer \in Answers(id, o, a, objects[o].state) /\ call'[a].untouched = TRUE
  /\ call'[a].step = r.step /\ call'[a].compound = r.compound /\ call'[a].rest = r.rest
  /\ call'[a].deeds = r.deeds

LEMMA InvokesIs ==
  ASSUME Shapes, NEW a \in Agents, NEW r, DOMAIN r = Fields, NEW o, NEW id, Invokes(a, r, o, id)
  PROVE  Invoked(a, r, o, id)
<1>0. PICK answer \in Answers(id, o, a, objects[o].state) :
        /\ call' = [call EXCEPT ![a] = [r EXCEPT !.pc = "handler", !.object = o, !.id = id,
                                                 !.answer = answer, !.untouched = TRUE]]
        /\ drives' = drives /\ advanced' = advanced
  BY DEF Invokes
<1> DEFINE started == [r EXCEPT !.pc = "handler", !.object = o, !.id = id,
                                !.answer = answer, !.untouched = TRUE]
<1>1. call' = [call EXCEPT ![a] = started] /\ drives' = drives /\ advanced' = advanced
  BY <1>0
<1>2. OnlyCallOf(a)
  BY InvokesCall
<1>3. call'[a] = started
  BY <1>1 DEF Shapes
<1>4. /\ started.pc = "handler" /\ started.object = o /\ started.id = id /\ started.answer = answer
      /\ started.untouched = TRUE /\ started.step = r.step /\ started.compound = r.compound
      /\ started.rest = r.rest /\ started.deeds = r.deeds
  BY DEF Fields
<1> HIDE DEF started
<1>5. QED
  BY <1>0, <1>1, <1>2, <1>3, <1>4 DEF Invoked

LEMMA SubStepDeeds ==
  ASSUME Shapes, DeedInv, NEW a \in Agents, NEW r, DOMAIN r = Fields, r.compound = TRUE,
         NEW o, NEW n, OfList(r, o, n), NextSubStep(a, r), r = call[a] \/ r.gain = Nothing
  PROVE  DeedStep(a)
<1> DEFINE C == Compounds(o)[r.step]
<1>1. /\ C \in Seq(STRING) /\ o \in Ids /\ r.step \in DOMAIN Compounds(o) /\ n \in 0..Len(C)
      /\ r.deeds = Upto(C, n) /\ r.rest = From(C, n)
  BY ListIs DEF OfList
<1> HIDE DEF C
<1>2. CASE r.rest = <<>>
  <2>1. Completes(a, r)
    BY <1>2 DEF NextSubStep
  <2>2. r.deeds = C
    BY <1>1, <1>2, NothingToDo
  <2>3. r = call[a] => /\ call[a].compound = TRUE
                       /\ \E q \in Ids : /\ call[a].step \in DOMAIN Compounds(q)
                                         /\ call[a].deeds = Compounds(q)[call[a].step]
    BY <1>1, <2>2 DEF C
  <2>4. QED
    BY <2>1, <2>3, CompletesDeeds
<1>3. CASE r.rest # <<>>
  <2> DEFINE t == [r EXCEPT !.rest = Tail(@)]
             id == Head(r.rest)
  <2>1. CASE Aborts(a)
    BY <2>1, EndsUnpaid DEF Aborts, DeedInv
  <2>2. CASE ~Aborts(a)
    <3>1. PICK q : Invokes(a, t, q, id)
      BY <1>3, <2>2 DEF NextSubStep
    <3>2. /\ DOMAIN t = Fields /\ t.compound = TRUE /\ t.step = r.step /\ t.deeds = r.deeds
          /\ t.rest = Tail(r.rest)
      BY DEF Fields
    <3> HIDE DEF t, id
    <3>3. /\ OnlyCallOf(a) /\ drives' = drives /\ advanced' = advanced
          /\ call'[a].pc = "handler" /\ call'[a].id = id /\ call'[a].step = r.step
          /\ call'[a].compound = TRUE /\ call'[a].rest = Tail(r.rest) /\ call'[a].deeds = r.deeds
      <4>1. DOMAIN t = Fields
        BY <3>2
      <4>2. /\ OnlyCallOf(a) /\ drives' = drives /\ advanced' = advanced
            /\ call'[a].pc = "handler" /\ call'[a].id = id /\ call'[a].step = t.step
            /\ call'[a].compound = t.compound /\ call'[a].rest = t.rest /\ call'[a].deeds = t.deeds
        <5>1. Invoked(a, t, q, id)
          BY <3>1, <4>1, InvokesIs
        <5>2. QED
          BY <5>1 DEF Invoked
      <4>3. QED
        BY <3>2, <4>2
    <3>4. /\ n < Len(C) /\ n + 1 \in 0..Len(C) /\ id = C[n + 1] /\ Tail(r.rest) = From(C, n + 1)
      BY <1>1, <1>3, OneMore DEF id
    <3>5. n \in Nat /\ n + 1 \in 1..Len(C)
      BY <1>1, <3>4, LenProperties
    <3>6. AmidList(call'[a], o, n)
      BY <1>1, <3>3, <3>4, <3>5 DEF AmidList, C
    <3>7. CallDeeds(call'[a])
      BY <3>3, <3>6 DEF CallDeeds, Amid
    <3>8. QED
      BY <3>3, <3>7, UnpaidStep DEF DeedInv
  <2>3. QED
    BY <2>1, <2>2
<1>4. QED
  BY <1>2, <1>3

LEMMA StrikesDeeds ==
  ASSUME Shapes, DeedInv, NEW a \in Agents, NEW step, Strikes(a, step)
  PROVE  DeedStep(a)
<1>1. call' = [call EXCEPT ![a] = Idle] /\ drives' = drives /\ DOMAIN advanced' = Agents
  BY DEF Strikes, DeedInv
<1>2. QED
  BY <1>1, EndsUnpaid

LEMMA StartDeeds ==
  ASSUME Shapes, DeedInv, NEW a \in Agents, StartAffordance(a)
  PROVE  DeedStep(a)
<1>1. PICK id \in Targets : \E o \in ResolveAffordance(at[a], id) :
       IF Ungated(o, id) /\ CoLocated(a, o)
       THEN Invokes(a, [Idle EXCEPT !.step = id, !.room = at[a]], o, id)
       ELSE Strikes(a, id)
  BY DEF StartAffordance
<1>2. CASE Strikes(a, id)
  BY <1>2, StrikesDeeds
<1>3. CASE ~Strikes(a, id)
  <2> DEFINE r == [Idle EXCEPT !.step = id, !.room = at[a]]
  <2>1. PICK o : Invokes(a, r, o, id)
    BY <1>1, <1>3
  <2>2. DOMAIN r = Fields /\ r.step = id /\ r.compound = FALSE /\ r.deeds = <<>>
    BY IdleShape, IdleDeeds DEF Fields
  <2> HIDE DEF r
  <2>3. Invoked(a, r, o, id)
    BY <2>1, <2>2, InvokesIs
  <2>4. Amid(call'[a]) /\ call'[a].pc = "handler" /\ call'[a].compound = FALSE
    BY <2>2, <2>3 DEF Invoked, Amid
  <2>5. CallDeeds(call'[a]) /\ OnlyCallOf(a) /\ drives' = drives /\ DOMAIN advanced' = Agents
    BY <2>3, <2>4 DEF Invoked, CallDeeds, DeedInv
  <2>6. QED
    BY <2>5, UnpaidStep
<1>4. QED
  BY <1>2, <1>3

LEMMA CompoundDeeds ==
  ASSUME Shapes, KnownInv, DeedInv, NEW a \in Agents, StartCompound(a)
  PROVE  DeedStep(a)
<1>1. PICK id \in Targets : \E o \in ResolveCompoundAction(at[a], id) :
            NextSubStep(a, [Idle EXCEPT !.step = id, !.compound = TRUE, !.room = at[a],
                                        !.rest = Compounds(o)[id]])
  BY DEF StartCompound
<1>2. PICK o \in ResolveCompoundAction(at[a], id) :
            NextSubStep(a, [Idle EXCEPT !.step = id, !.compound = TRUE, !.room = at[a],
                                        !.rest = Compounds(o)[id]])
  BY <1>1
<1> DEFINE r == [Idle EXCEPT !.step = id, !.compound = TRUE, !.room = at[a], !.rest = Compounds(o)[id]]
<1>3. /\ DOMAIN r = Fields /\ r.step = id /\ r.compound = TRUE /\ r.deeds = <<>> /\ r.gain = Nothing
      /\ r.rest = Compounds(o)[id]
  BY IdleShape, IdleDeeds DEF Fields
<1>4. NextSubStep(a, r)
  BY <1>2
<1> HIDE DEF r
<1>5. o \in Ids /\ id \in DOMAIN Compounds(o)
  BY DEF ResolveCompoundAction, InRoom, KnownInv
<1> DEFINE C == Compounds(o)[id]
<1>6. C \in Seq(STRING)
  BY <1>5, ListIs
<1>7. Upto(C, 0) = <<>> /\ From(C, 0) = C /\ 0 \in 0..Len(C)
  <2> HIDE DEF C
  <2>1. SubSeq(C, 1, 0) = <<>>
    BY SubSeqEmpty
  <2>2. SubSeq(C, 0 + 1, Len(C)) = C
    BY <1>6, SubSeqFull
  <2>3. QED
    BY <1>6, <2>1, <2>2, LenProperties DEF Upto, From
<1>8. OfList(r, o, 0)
  BY <1>3, <1>5, <1>7 DEF OfList
<1>9. QED
  BY <1>3, <1>4, <1>8, SubStepDeeds

LEMMA ContinueDeeds ==
  ASSUME Shapes, DeedInv, NEW a \in Agents, Continue(a)
  PROVE  DeedStep(a)
<1> DEFINE c == call[a]
<1>1. /\ c.pc = "hop" /\ CallDeeds(c) /\ DOMAIN c = Fields
      /\ IF c.compound THEN IF c.answer.ok THEN NextSubStep(a, c) ELSE Aborts(a)
         ELSE IF c.answer.ok THEN Completes(a, c) ELSE Strikes(a, c.step)
  BY DEF Continue, DeedInv, Shapes
<1>2. CASE Aborts(a)
  BY <1>2, EndsUnpaid DEF Aborts, DeedInv
<1>3. CASE Strikes(a, c.step)
  BY <1>3, StrikesDeeds
<1>4. CASE c.compound /\ c.answer.ok
  <2>1. PICK o, n : OfList(c, o, n)
    BY <1>1, <1>4 DEF CallDeeds, Onto
  <2>2. c.compound = TRUE
    BY <1>1, <1>4 DEF CallDeeds
  <2>3. QED
    BY <1>1, <1>4, <2>1, <2>2, SubStepDeeds
<1>5. CASE ~c.compound /\ c.answer.ok
  <2>1. c.deeds = <<c.step>>
    BY <1>1, <1>5 DEF CallDeeds, Onto
  <2>2. QED
    BY <1>1, <1>5, <2>1, CompletesDeeds
<1>6. QED
  BY <1>1, <1>2, <1>3, <1>4, <1>5

\* A write marks calls and leaves what they have done.
LEMMA TouchedDeeds ==
  ASSUME NEW calls, DOMAIN calls = Agents, NEW W,
         \A b \in Agents : DOMAIN calls[b] = Fields /\ CallDeeds(calls[b])
  PROVE  \A b \in Agents : CallDeeds(Touched(calls, W)[b])
<1> SUFFICES ASSUME NEW b \in Agents PROVE CallDeeds(Touched(calls, W)[b])
  OBVIOUS
<1> DEFINE c == calls[b]
           d == Touched(calls, W)[b]
<1>1. d = IF c.pc = "handler" /\ c.object \in W THEN [c EXCEPT !.untouched = FALSE] ELSE c
  BY DEF Touched
<1>2. DOMAIN c = Fields /\ CallDeeds(c)
  OBVIOUS
<1> HIDE DEF c, d
<1>3. ASSUME d = c PROVE CallDeeds(d)
  BY <1>2, <1>3
<1>4. ASSUME d = [c EXCEPT !.untouched = FALSE] PROVE CallDeeds(d)
  <2>1. /\ d.pc = c.pc /\ d.step = c.step /\ d.compound = c.compound /\ d.rest = c.rest /\ d.id = c.id
        /\ d.deeds = c.deeds /\ d.answer = c.answer
    BY <1>2, <1>4 DEF Fields
  <2>2. (Amid(c) => Amid(d)) /\ (Onto(c) => Onto(d))
    BY <2>1, SameDeeds
  <2>3. QED
    BY <1>2, <2>1, <2>2 DEF CallDeeds
<1>5. QED
  BY <1>1, <1>3, <1>4 DEF d

\* What a handler answers does not show in what was carried out.
LEMMA AgainDeeds ==
  ASSUME Shapes, DeedInv, NEW b \in Agents, NEW c, NEW W, Again(b, c, W)
  PROVE  CallDeeds(c)
<1>1. CASE c = call[b]
  BY <1>1 DEF DeedInv
<1>2. CASE c # call[b]
  <2> DEFINE e == call[b]
  <2>1. e.pc = "handler" /\ CallDeeds(e) /\ DOMAIN e = Fields
    BY <1>2 DEF Again, DeedInv, Shapes
  <2>2. PICK answer : c = [e EXCEPT !.answer = answer]
    BY <1>2 DEF Again
  <2> HIDE DEF e
  <2>3. /\ c.pc = e.pc /\ c.step = e.step /\ c.compound = e.compound /\ c.rest = e.rest
        /\ c.id = e.id /\ c.deeds = e.deeds
    BY <2>1, <2>2 DEF Fields
  <2>4. Amid(e) => Amid(c)
    BY <2>3, SameDeeds
  <2>5. QED
    BY <2>1, <2>3, <2>4 DEF CallDeeds
<1>3. QED
  BY <1>1, <1>2

LEMMA SettleDeeds ==
  ASSUME Shapes, DeedInv, NEW a \in Agents, Settle(a)
  PROVE  DeedInv' /\ drives' = drives
<1> DEFINE c == call[a]
           hop == [c EXCEPT !.pc = "hop", !.gain = Plus(@, c.answer.gain), !.deeds = Append(@, c.id)]
           calls == [call EXCEPT ![a] = hop]
<1>1. DOMAIN call = Agents /\ \A b \in Agents : DOMAIN call[b] = Fields /\ CallDeeds(call[b])
  BY DEF Shapes, DeedInv
<1>2. c.pc = "handler" /\ Amid(c) /\ UNCHANGED <<drives, advanced>>
  BY <1>1 DEF Settle, CallDeeds
<1>3. CASE c.answer.ok
  <2>1. call' = Touched(calls, WrittenBy(a))
    BY <1>3 DEF Settle
  <2>2. /\ DOMAIN hop = Fields /\ hop.pc = "hop" /\ hop.step = c.step /\ hop.compound = c.compound
        /\ hop.rest = c.rest /\ hop.deeds = Append(c.deeds, c.id)
    BY <1>1 DEF Fields
  <2> HIDE DEF hop
  <2>3. Onto(hop)
    BY <1>2, <2>2, OneDone
  <2>4. CallDeeds(hop)
    BY <1>1, <2>2, <2>3 DEF CallDeeds
  <2>5. DOMAIN calls = Agents /\ \A b \in Agents : DOMAIN calls[b] = Fields /\ CallDeeds(calls[b])
    BY <1>1, <2>2, <2>4
  <2> HIDE DEF calls
  <2>6. \A b \in Agents : CallDeeds(call'[b])
    BY <2>1, <2>5, TouchedDeeds
  <2>7. QED
    BY <1>2, <2>6 DEF DeedInv, CallDeeds, Amid, Onto, AmidList, OfList
<1>4. CASE ~c.answer.ok
  <2> DEFINE d == [c EXCEPT !.pc = "hop"]
  <2>1. call' = [call EXCEPT ![a] = d]
    BY <1>4 DEF Settle
  <2>2. d.pc = "hop" /\ d.compound = c.compound /\ d.answer = c.answer
    BY <1>1 DEF Fields
  <2> HIDE DEF d
  <2>3. CallDeeds(d)
    BY <1>1, <1>4, <2>2 DEF CallDeeds
  <2>4. \A b \in Agents : CallDeeds(call'[b])
    BY <1>1, <2>1, <2>3
  <2>5. QED
    BY <1>2, <2>4 DEF DeedInv, CallDeeds, Amid, Onto, AmidList, OfList
<1>5. QED
  BY <1>3, <1>4

LEMMA NextDeeds ==
  ASSUME Shapes, KnownInv, DeedInv, [Next]_vars
  PROVE  DeedInv' /\ (now' = now => \A a \in Agents : PaidFor(a))
<1>1. ASSUME NEW a \in Agents, Works(a)
      PROVE  DeedInv' /\ \A b \in Agents : PaidFor(b)
  <2>1. CASE SkipUnknown(a)
    <3>1. UNCHANGED <<call, drives>> /\ advanced' = [advanced EXCEPT ![a] = @ + 1]
      BY <2>1 DEF SkipUnknown
    <3>2. QED
      BY <3>1 DEF DeedInv, CallDeeds, Amid, Onto, AmidList, OfList, PaidFor
  <2>2. CASE ~SkipUnknown(a)
    <3>1. DeedStep(a)
      BY <1>1, <2>2, StartDeeds, CompoundDeeds, ContinueDeeds DEF Works
    <3>2. \A b \in Agents : CallDeeds(call'[b])
      BY <3>1 DEF DeedStep, OnlyCallOf, DeedInv
    <3>3. \A b \in Agents : PaidFor(b)
      BY <3>1 DEF DeedStep, PaidFor
    <3>4. /\ DOMAIN advanced' = Agents /\ drives' = [b \in Agents |-> drives'[b]]
          /\ \A b \in Agents : drives'[b] = [k \in DriveKeys |-> drives'[b][k]]
      BY <3>1 DEF DeedStep, DeedInv
    <3>5. QED
      BY <3>2, <3>3, <3>4 DEF DeedInv, CallDeeds, Amid, Onto, AmidList, OfList
  <2>3. QED
    BY <2>1, <2>2
<1>2. ASSUME NEW a \in Agents, Settle(a)
      PROVE  DeedInv' /\ \A b \in Agents : PaidFor(b)
  BY <1>2, SettleDeeds DEF PaidFor
<1>3. CASE Propose \/ UNCHANGED vars
  <2>1. UNCHANGED <<call, drives, advanced>>
    BY <1>3 DEF Propose, vars, agency
  <2>2. QED
    BY <2>1 DEF DeedInv, CallDeeds, Amid, Onto, AmidList, OfList, PaidFor
<1>4. CASE Tick
  <2>1. now' # now
    BY <1>4, TickCalls
  <2>2. PICK calls, W : Waiting(calls, W)
    BY <1>4, TickWaiting
  <2>3. \A b \in Agents : CallDeeds(call'[b])
    <3>1. \A b \in Agents : DOMAIN calls[b] = Fields /\ CallDeeds(calls[b])
      BY <2>2, AgainDeeds DEF Waiting
    <3>2. QED
      BY <2>2, <3>1, TouchedDeeds DEF Waiting
  <2>4. drives' = [b \in Agents |-> Decayed(drives[b])] /\ advanced' = advanced
    BY <1>4 DEF Tick
  <2>5. \A b \in Agents : drives'[b] = [k \in DriveKeys |-> drives'[b][k]]
    BY <2>4 DEF Decayed
  <2>6. drives' = [b \in Agents |-> drives'[b]]
    BY <2>4
  <2>7. DeedInv'
    BY <2>3, <2>4, <2>5, <2>6 DEF DeedInv, CallDeeds, Amid, Onto, AmidList, OfList
  <2>8. QED
    BY <2>1, <2>7
<1>5. QED
  BY <1>1, <1>2, <1>3, <1>4 DEF Next, Works

LEMMA InitDeeds == Init => DeedInv
<1> SUFFICES ASSUME Init PROVE DeedInv
  OBVIOUS
<1>1. \A a \in Agents : call[a] = Idle
  BY DEF Init
<1>2. \A a \in Agents : CallDeeds(call[a])
  BY <1>1, IdleDeeds
<1>3. /\ drives = [a \in Agents |-> drives[a]] /\ DOMAIN advanced = Agents
      /\ \A a \in Agents : drives[a] = [k \in DriveKeys |-> drives[a][k]]
  BY ObjectUseAssumption DEF Init
<1>4. QED
  BY <1>2, <1>3 DEF DeedInv

\* Drives are paid only when the plan takes its step, and only after every
\* affordance of the step was carried out, each once and in order, for any
\* compound actions (ExecuteServiceImpl.executeCompoundAction).
THEOREM AllOrNothingHolds == Spec => AllOrNothing
<1>1. Init => KnownInv /\ DeedInv
  BY KnownInit, InitDeeds
<1>2. Shapes /\ KnownInv /\ DeedInv /\ [Next]_vars => KnownInv' /\ DeedInv'
  BY KnownNext, NextDeeds
<1>3. Shapes /\ KnownInv /\ DeedInv /\ [Next]_vars =>
        [\A a \in Agents : (now' = now /\ drives'[a] # drives[a])
           => /\ advanced'[a] = advanced[a] + 1
              /\ IF call[a].compound
                 THEN \E o \in Ids : /\ call[a].step \in DOMAIN Compounds(o)
                                     /\ call[a].deeds = Compounds(o)[call[a].step]
                 ELSE call[a].deeds = <<call[a].step>>]_vars
  BY NextDeeds DEF PaidFor
<1>4. QED
  BY <1>1, <1>2, <1>3, ShapesHold, PTL DEF Spec, AllOrNothing
-----------------------------------------------------------------------------
(* What handlers do to the numbers the books are kept in.                  *)

SameBooks(s, t) == \A f \in Counted : Read(t, f) = Read(s, f)

\* The affordances that are booked.
Booked == {"plant_seeds", "harvest", "eat", "brew_coffee", "pour_cup"}

\* What the number v of field f becomes of affordance id.
Moved(id, f, v) ==
  IF <<id, f>> \in {<<"plant_seeds", "seeds_planted">>, <<"harvest", "vegetables">>} THEN v + 1
  ELSE IF <<id, f>> = <<"harvest", "seeds_planted">> THEN 0
  ELSE IF <<id, f>> \in {<<"eat", "vegetables">>, <<"brew_coffee", "bean_count">>,
                         <<"pour_cup", "cup_count">>} THEN v - 1
  ELSE v

Accounts(id, s, t) ==
  /\ \A f \in Counted : Read(t, f) = Moved(id, f, Read(s, f))
  /\ id = "plant_seeds" => Read(s, "seeds_planted") < 3
  /\ id = "harvest" => Read(s, "seeds_planted") >= 3

OnlyWater(answer) == \A p \in answer.patches : DOMAIN p.patch = {"water_level"}

\* An answer of a handler that is not booked.
Untold(answer, s) ==
  OnlyWater(answer) /\ (answer.ok /\ answer.writes => SameBooks(s, answer.state))

LEMMA ReadMerge ==
  ASSUME NEW s, NEW p, NEW f
  PROVE  Read(Merge(s, p), f) = IF f \in DOMAIN p THEN p[f] ELSE Read(s, f)
BY DEF Merge, Read

LEMMA ReadSet ==
  ASSUME NEW s, NEW g, NEW v, NEW f
  PROVE  Read(Set(s, g, v), f) = IF f = g THEN v ELSE Read(s, f)
BY ReadMerge DEF Set

LEMMA AnswerRefused == Refused.ok = FALSE /\ Refused.writes = FALSE /\ Refused.patches = {}
BY DEF Refused

LEMMA AnswerAccepted == Accepted.ok = TRUE /\ Accepted.writes = FALSE /\ Accepted.patches = {}
BY DEF Accepted, Refused

LEMMA AnswerBecame ==
  ASSUME NEW s, NEW g
  PROVE  /\ Became(s, g).ok = TRUE /\ Became(s, g).writes = TRUE /\ Became(s, g).patches = {}
         /\ Became(s, g).state = s
BY DEF Became, Accepted, Refused

\* Another object is watered too.
Watering(n, s) == \E g, o, v : n = Patching(Became(s, g), o, "water_level", v)

LEMMA AnswerPatching ==
  ASSUME NEW s, NEW n, Watering(n, s)
  PROVE  n.ok = TRUE /\ n.writes = TRUE /\ n.state = s /\ OnlyWater(n)
<1>0. PICK g, o, v : n = Patching(Became(s, g), o, "water_level", v)
  BY DEF Watering
<1> DEFINE b == Became(s, g)
           q == [object |-> o, patch |-> [x \in {"water_level"} |-> v]]
<1>1. n = [b EXCEPT !.patches = {q}]
  BY <1>0 DEF Patching
<1>2. DOMAIN q.patch = {"water_level"}
  OBVIOUS
<1>3. DOMAIN b = {"ok", "writes", "state", "patches", "gain", "goes", "moves"}
  BY DEF Became, Accepted, Refused
<1>4. b.ok = TRUE /\ b.writes = TRUE /\ b.state = s
  BY AnswerBecame
<1> HIDE DEF b, q
<1>5. n.ok = TRUE /\ n.writes = TRUE /\ n.state = s /\ n.patches = {q}
  BY <1>1, <1>3, <1>4
<1>6. OnlyWater(n)
  BY <1>2, <1>5 DEF OnlyWater
<1>7. QED
  BY <1>5, <1>6

LEMMA UntoldRefused == ASSUME NEW s PROVE Untold(Refused, s)
BY AnswerRefused DEF Untold, OnlyWater

LEMMA UntoldAccepted == ASSUME NEW s PROVE Untold(Accepted, s)
BY AnswerAccepted DEF Untold, OnlyWater

LEMMA UntoldBecame ==
  ASSUME NEW s, NEW t, SameBooks(s, t), NEW g
  PROVE  Untold(Became(t, g), s)
BY AnswerBecame DEF Untold, OnlyWater

LEMMA UntoldSame == ASSUME NEW s, NEW g PROVE Untold(Became(s, g), s)
BY UntoldBecame DEF SameBooks

LEMMA UntoldSet ==
  ASSUME NEW s, NEW f, f \notin Counted, NEW v, NEW g
  PROVE  Untold(Became(Set(s, f, v), g), s)
<1>1. SameBooks(s, Set(s, f, v))
  BY ReadSet DEF SameBooks
<1>2. QED
  BY <1>1, UntoldBecame

LEMMA UntoldCounts ==
  ASSUME NEW s, NEW f, f \notin Counted, NEW g
  PROVE  Untold(CountsUp(s, f, g), s)
BY UntoldSet DEF CountsUp

LEMMA UntoldUses ==
  ASSUME NEW s, NEW f, f \notin Counted, NEW n, NEW g
  PROVE  Untold(UsesUp(s, f, n, g), s)
BY UntoldSet, UntoldRefused DEF UsesUp

LEMMA UntoldFurniture ==
  ASSUME NEW id, NEW s
  PROVE  Untold(Furniture(id, s), s)
<1>1. \/ Furniture(id, s) = Refused
      \/ \E g : Furniture(id, s) = Became(s, g)
      \/ \E g : Furniture(id, s) = UsesUp(s, "book_count", 1, g)
  BY DEF Furniture
<1>2. QED
  BY <1>1, UntoldRefused, UntoldSame, UntoldUses DEF Counted

LEMMA UntoldFixture ==
  ASSUME NEW id, NEW s
  PROVE  Untold(Fixture(id, s), s)
<1> DEFINE taken == UsesUp(s, "water_supply", Whole, Nothing)
           poured == Patching(taken, "coffee-1", "water_level", 5 * Whole)
<1>1. \/ Fixture(id, s) = Refused
      \/ \E g : Fixture(id, s) = Became(s, g)
      \/ \E v, g : Fixture(id, s) = Became(Set(s, "water_level", v), g)
      \/ taken.ok /\ Fixture(id, s) = poured
  BY DEF Fixture
<1>2. taken.ok => Untold(poured, s)
  <2>1. SUFFICES ASSUME taken.ok PROVE Untold(poured, s)
    OBVIOUS
  <2>2. taken = Became(Set(s, "water_supply", Read(s, "water_supply") - Whole), Nothing)
    BY <2>1, AnswerRefused DEF UsesUp
  <2> DEFINE t == Set(s, "water_supply", Read(s, "water_supply") - Whole)
  <2>3. poured.state = t /\ OnlyWater(poured)
    <3>1. poured = Patching(Became(t, Nothing), "coffee-1", "water_level", 5 * Whole)
      BY <2>2
    <3> HIDE DEF poured, t
    <3>2. Watering(poured, t)
      BY <3>1 DEF Watering
    <3>3. QED
      BY <3>2, AnswerPatching
  <2>4. SameBooks(s, poured.state)
    BY <2>3, ReadSet DEF SameBooks, Counted
  <2>5. QED
    BY <2>3, <2>4 DEF Untold
<1> HIDE DEF taken, poured
<1>3. QED
  BY <1>1, <1>2, UntoldRefused, UntoldSame, UntoldSet DEF Counted

LEMMA UntoldNature ==
  ASSUME NEW id, NEW s
  PROVE  Untold(Nature(id, s), s)
<1>1. \/ Nature(id, s) = Refused \/ Nature(id, s) = Accepted
      \/ \E g : Nature(id, s) = Became(s, g)
  BY DEF Nature
<1>2. QED
  BY <1>1, UntoldRefused, UntoldAccepted, UntoldSame

LEMMA UntoldOffice ==
  ASSUME NEW id, NEW s
  PROVE  Untold(Office(id, s), s)
<1>1. \/ Office(id, s) = Refused
      \/ \E g : Office(id, s) = Became(s, g)
      \/ \E g : Office(id, s) = CountsUp(s, "ideas_generated", g)
      \/ \E g : Office(id, s) = CountsUp(s, "meetings_held", g)
  BY DEF Office
<1>2. QED
  BY <1>1, UntoldRefused, UntoldSame, UntoldCounts DEF Counted

LEMMA UntoldWorkshop ==
  ASSUME NEW id, NEW o, NEW a, NEW s
  PROVE  Untold(Workshop(id, o, a, s), s)
<1> DEFINE taken == Merge(s, [taken_by |-> a, taken_from |-> o])
<1>1. \/ Workshop(id, o, a, s) = Refused
      \/ \E g : Workshop(id, o, a, s) = Became(taken, g)
      \/ \E g : Workshop(id, o, a, s) = CountsUp(s, "items_built", g)
      \/ \E g : Workshop(id, o, a, s) = CountsUp(s, "planters_built", g)
  BY DEF Workshop
<1>2. SameBooks(s, taken)
  BY ReadMerge DEF SameBooks, Counted
<1> HIDE DEF taken
<1>3. QED
  BY <1>1, <1>2, UntoldRefused, UntoldBecame, UntoldCounts DEF Counted

LEMMA UntoldCarry ==
  ASSUME NEW s
  PROVE  Untold(Carry(s), s)
<1> DEFINE left == [f \in DOMAIN s \ {"target_room"} |-> s[f]]
           b == Became(left, Nothing)
           n == [b EXCEPT !.moves = s["target_room"]]
<1>1. Carry(s) = Refused \/ Carry(s) = n
  BY DEF Carry
<1>2. SameBooks(s, left)
  BY DEF SameBooks, Counted, Read
<1>3. n.ok = b.ok /\ n.writes = b.writes /\ n.patches = b.patches /\ n.state = b.state
  BY DEF Became, Accepted, Refused
<1>4. Untold(b, s)
  BY <1>2, UntoldBecame
<1> HIDE DEF b, n
<1>5. Untold(n, s)
  BY <1>3, <1>4 DEF Untold, OnlyWater
<1>6. QED
  BY <1>1, <1>5, UntoldRefused

Ints(s) == \A f \in Counted : Read(s, f) \in Int

\* A table of handlers that books: what it answers to id in state s is told.
Told(answer, id, s) ==
  /\ OnlyWater(answer)
  /\ answer.ok => IF answer.writes THEN Ints(s) => Accounts(id, s, answer.state)
                  ELSE id \notin Booked

LEMMA ToldUntold ==
  ASSUME NEW id, id \notin Booked, NEW s, NEW answer, Untold(answer, s)
  PROVE  Told(answer, id, s)
BY DEF Told, Untold, Accounts, Moved, SameBooks, Booked

LEMMA ToldRefused == ASSUME NEW id, NEW s PROVE Told(Refused, id, s)
BY AnswerRefused DEF Told, OnlyWater

LEMMA ToldBecame ==
  ASSUME NEW id, NEW s, NEW t, Ints(s) => Accounts(id, s, t), NEW g
  PROVE  Told(Became(t, g), id, s)
BY AnswerBecame DEF Told, OnlyWater

LEMMA ToldGarden ==
  ASSUME NEW id, NEW s
  PROVE  Told(Garden(id, s), id, s)
<1>1. CASE id = "plant_seeds"
  <2> DEFINE t == Set(s, "seeds_planted", Read(s, "seeds_planted") + 1)
  <2>1. \/ Garden(id, s) = Refused
        \/ ~(Read(s, "seeds_planted") >= 3) /\ \E g : Garden(id, s) = Became(t, g)
    BY <1>1 DEF Garden, PlantSeeds, CountsUp
  <2>2. Ints(s) /\ ~(Read(s, "seeds_planted") >= 3) => Accounts(id, s, t)
    <3>1. \A f : Read(t, f) = IF f = "seeds_planted" THEN Read(s, "seeds_planted") + 1 ELSE Read(s, f)
      BY ReadSet
    <3> HIDE DEF t
    <3>2. /\ Moved(id, "seeds_planted", Read(s, "seeds_planted")) = Read(s, "seeds_planted") + 1
          /\ \A f : f # "seeds_planted" => Moved(id, f, Read(s, f)) = Read(s, f)
      BY <1>1 DEF Moved
    <3>3. \A f : Read(t, f) = Moved(id, f, Read(s, f))
      BY <3>1, <3>2
    <3>4. Ints(s) /\ ~(Read(s, "seeds_planted") >= 3) => Read(s, "seeds_planted") < 3
      BY DEF Ints, Counted
    <3>5. QED
      BY <1>1, <3>3, <3>4 DEF Accounts
  <2> HIDE DEF t
  <2>3. QED
    BY <2>1, <2>2, ToldRefused, ToldBecame
<1>2. CASE id = "harvest"
  <2> DEFINE p == [vegetables |-> Read(s, "vegetables") + 1, seeds_planted |-> 0]
             t == Merge(s, p)
  <2>1. \/ Garden(id, s) = Refused
        \/ ~(Read(s, "seeds_planted") < 3) /\ \E g : Garden(id, s) = Became(t, g)
    BY <1>2 DEF Garden, Harvest
  <2>2. \A f : Read(t, f) = IF f \in DOMAIN p THEN p[f] ELSE Read(s, f)
    BY ReadMerge
  <2> HIDE DEF t
  <2>3. Ints(s) /\ ~(Read(s, "seeds_planted") < 3) => Read(s, "seeds_planted") >= 3
    BY DEF Ints, Counted
  <2>4. Read(s, "seeds_planted") >= 3 => Accounts(id, s, t)
    BY <1>2, <2>2 DEF Accounts, Moved, Counted
  <2>5. QED
    BY <2>1, <2>3, <2>4, ToldRefused, ToldBecame
<1>3. CASE id = "eat"
  <2> DEFINE t == Set(s, "vegetables", Read(s, "vegetables") - 1)
  <2>1. Garden(id, s) = Refused \/ \E g : Garden(id, s) = Became(t, g)
    BY <1>3 DEF Garden, UsesUp
  <2>2. \A f : Read(t, f) = IF f = "vegetables" THEN Read(s, "vegetables") - 1 ELSE Read(s, f)
    BY ReadSet
  <2> HIDE DEF t
  <2>3. /\ Moved(id, "vegetables", Read(s, "vegetables")) = Read(s, "vegetables") - 1
        /\ \A f : f # "vegetables" => Moved(id, f, Read(s, f)) = Read(s, f)
    BY <1>3 DEF Moved
  <2>4. \A f : Read(t, f) = Moved(id, f, Read(s, f))
    BY <2>2, <2>3
  <2>5. Accounts(id, s, t)
    BY <1>3, <2>4 DEF Accounts
  <2>6. QED
    BY <2>1, <2>5, ToldRefused, ToldBecame
<1>4. CASE id \in {"brew_coffee", "pour_cup"}
  <2>1. Garden(id, s) = Refused
    BY <1>4 DEF Garden
  <2>2. QED
    BY <2>1, ToldRefused
<1>5. CASE id \notin Booked
  <2> DEFINE can == Patching(Became(s, Nothing), "planter-1", "water_level", 5 * Whole)
  <2>1. \/ Garden(id, s) = Refused
        \/ \E g : Garden(id, s) = Became(s, g)
        \/ \E g : Garden(id, s) = UsesUp(s, "water_level", Whole, g)
        \/ Garden(id, s) = can
    BY <1>5 DEF Garden, Booked
  <2>2. can.state = s /\ OnlyWater(can)
    <3>1. Watering(can, s)
      BY DEF Watering
    <3> HIDE DEF can
    <3>2. QED
      BY <3>1, AnswerPatching
  <2> HIDE DEF can
  <2>3. Untold(can, s)
    BY <2>2 DEF Untold, SameBooks
  <2>4. Untold(Garden(id, s), s)
    BY <2>1, <2>3, UntoldRefused, UntoldSame, UntoldUses DEF Counted
  <2>5. QED
    BY <1>5, <2>4, ToldUntold
<1>6. QED
  BY <1>1, <1>2, <1>3, <1>4, <1>5 DEF Booked

LEMMA ToldAppliance ==
  ASSUME NEW id, NEW s
  PROVE  Told(Appliance(id, s), id, s)
<1>1. CASE id = "brew_coffee"
  <2> DEFINE p == [water_level |-> s["water_level"] - Whole, bean_count |-> s["bean_count"] - 1]
             t == Merge(s, p)
  <2>1. \/ Appliance(id, s) = Refused
        \/ ~(Read(s, "bean_count") =< 0) /\ \E g : Appliance(id, s) = Became(t, g)
    BY <1>1 DEF Appliance, BrewCoffee
  <2>2. \A f : Read(t, f) = IF f \in DOMAIN p THEN p[f] ELSE Read(s, f)
    BY ReadMerge
  <2>3. ~(Read(s, "bean_count") =< 0) => Read(s, "bean_count") = s["bean_count"]
    BY DEF Read
  <2>4. Ints(s) => Read(s, "bean_count") \in Int
    BY DEF Ints, Counted
  <2> HIDE DEF t
  <2>5. Ints(s) /\ ~(Read(s, "bean_count") =< 0) => Accounts(id, s, t)
    BY <1>1, <2>2, <2>3, <2>4 DEF Accounts, Moved, Counted
  <2>6. QED
    BY <2>1, <2>5, ToldRefused, ToldBecame
<1>2. CASE id = "pour_cup"
  <2> DEFINE t == Set(s, "cup_count", Read(s, "cup_count") - 1)
  <2>1. Appliance(id, s) = Refused \/ \E g : Appliance(id, s) = Became(t, g)
    BY <1>2 DEF Appliance, UsesUp
  <2>2. \A f : Read(t, f) = IF f = "cup_count" THEN Read(s, "cup_count") - 1 ELSE Read(s, f)
    BY ReadSet
  <2> HIDE DEF t
  <2>3. /\ Moved(id, "cup_count", Read(s, "cup_count")) = Read(s, "cup_count") - 1
        /\ \A f : f # "cup_count" => Moved(id, f, Read(s, f)) = Read(s, f)
    BY <1>2 DEF Moved
  <2>4. \A f : Read(t, f) = Moved(id, f, Read(s, f))
    BY <2>2, <2>3
  <2>5. Accounts(id, s, t)
    BY <1>2, <2>4 DEF Accounts
  <2>6. QED
    BY <2>1, <2>5, ToldRefused, ToldBecame
<1>3. CASE id \in {"plant_seeds", "harvest", "eat"}
  <2>1. Appliance(id, s) = Refused
    BY <1>3 DEF Appliance
  <2>2. QED
    BY <2>1, ToldRefused
<1>4. CASE id \notin Booked
  <2>1. \/ Appliance(id, s) = Refused
        \/ \E g : Appliance(id, s) = Became(s, g)
        \/ \E g : Appliance(id, s) = Became(Set(s, "powered_on", FALSE), g)
        \/ \E g : Appliance(id, s) = CountsUp(s, "tasks_completed", g)
        \/ \E g : Appliance(id, s) = UsesUp(s, "paper_count", 1, g)
    BY <1>4 DEF Appliance, Booked
  <2>2. Untold(Appliance(id, s), s)
    BY <2>1, UntoldRefused, UntoldSame, UntoldSet, UntoldCounts, UntoldUses DEF Counted
  <2>3. QED
    BY <1>4, <2>2, ToldUntold
<1>5. QED
  BY <1>1, <1>2, <1>3, <1>4 DEF Booked

\* What any handler answers is told.
LEMMA ToldHandle ==
  ASSUME NEW id, NEW o, NEW a, NEW s
  PROVE  Told(Handle(id, o, a, s), id, s)
<1> DEFINE go == [Accepted EXCEPT !.goes = CHOOSE r \in RoomOf(id) : TRUE]
<1>1. CASE id \in {"brew_coffee", "pour_cup"}
  <2>1. RoomOf(id) = {}
    BY <1>1 DEF RoomOf, GoTo
  <2>2. Handle(id, o, a, s) = Appliance(id, s)
    BY <1>1, <2>1 DEF Handle, GardenIds, WorkshopIds, FurnitureIds, FixtureIds, NatureIds, OfficeIds
  <2>3. QED
    BY <2>2, ToldAppliance
<1>2. CASE id \in {"plant_seeds", "harvest", "eat"}
  <2>1. RoomOf(id) = {}
    BY <1>2 DEF RoomOf, GoTo
  <2>2. Handle(id, o, a, s) = IF WithGarden THEN Garden(id, s) ELSE Appliance(id, s)
    BY <1>2, <2>1 DEF Handle, GardenIds, WorkshopIds, FurnitureIds, FixtureIds, NatureIds, OfficeIds
  <2>3. QED
    BY <2>2, ToldAppliance, ToldGarden
<1>3. CASE id \notin Booked
  <2>1. \/ Handle(id, o, a, s) = go
        \/ Handle(id, o, a, s) = Became(s, Nothing)
        \/ Handle(id, o, a, s) \in {Carry(s), Accepted, Garden(id, s), Workshop(id, o, a, s),
                                    Furniture(id, s), Fixture(id, s), Nature(id, s),
                                    Office(id, s), Appliance(id, s)}
    BY DEF Handle
  <2>2. Untold(go, s)
    <3>1. go.ok = TRUE /\ go.writes = FALSE /\ go.patches = {}
      BY DEF Accepted, Refused
    <3> HIDE DEF go
    <3>2. QED
      BY <3>1 DEF Untold, OnlyWater
  <2> HIDE DEF go
  <2>3. \A answer : Untold(answer, s) => Told(answer, id, s)
    BY <1>3, ToldUntold
  <2>4. /\ Untold(Became(s, Nothing), s) /\ Untold(Carry(s), s) /\ Untold(Accepted, s)
        /\ Untold(Workshop(id, o, a, s), s) /\ Untold(Furniture(id, s), s)
        /\ Untold(Fixture(id, s), s) /\ Untold(Nature(id, s), s) /\ Untold(Office(id, s), s)
    BY UntoldSame, UntoldCarry, UntoldAccepted, UntoldWorkshop, UntoldFurniture,
       UntoldFixture, UntoldNature, UntoldOffice
  <2>5. Told(Garden(id, s), id, s) /\ Told(Appliance(id, s), id, s)
    BY ToldGarden, ToldAppliance
  <2>6. QED
    BY <2>1, <2>2, <2>3, <2>4, <2>5
<1>4. QED
  BY <1>1, <1>2, <1>3 DEF Booked
-----------------------------------------------------------------------------
(* The books.  What a call under way will write is booked, as long as      *)
(* nobody wrote to its object since the handler was called.                *)

\* The handler of c was called on an object that has the affordance, and its answer is told.
CallBooks(c) ==
  /\ c.object \in Ids /\ HasAffordance(c.object, c.id) /\ OnlyWater(c.answer)
  /\ c.answer.ok /\ ~c.answer.writes => c.id \notin Booked
  /\ c.answer.ok /\ c.answer.writes /\ c.untouched /\ c.object \in DOMAIN objects \ settled
       => Accounts(c.id, objects[c.object].state, c.answer.state)

\* The numbers of an object: no more than three seeds are planted.
Numbers(s) == (\A f \in Counted : Read(s, f) \in Int) /\ Read(s, "seeds_planted") =< 3

TallyInv ==
  /\ DOMAIN tally = {f.id : f \in AllAffordances}
  /\ \A id \in DOMAIN tally : tally[id] \in Nat

BookInv ==
  /\ TallyInv
  /\ \A o \in DOMAIN objects \ settled : Numbers(objects[o].state)
  /\ \A a \in Agents : call[a].pc = "handler" => CallBooks(call[a])
  /\ BooksBalance

\* A rejected proposal is a failure, which tells nothing.
LEMMA ToldAnswers ==
  ASSUME NEW id, NEW o, NEW a, NEW s, NEW answer, answer \in Answers(id, o, a, s)
  PROVE  Told(answer, id, s)
<1>1. answer = Handle(id, o, a, s) \/ answer = Refused
  BY DEF Answers
<1>2. Told(Handle(id, o, a, s), id, s) /\ Told(Refused, id, s)
  BY ToldHandle, ToldRefused
<1>3. QED
  BY <1>1, <1>2

LEMMA CountIs == ASSUME TallyInv, NEW id PROVE Count(id) \in Nat
BY DEF Count, TallyInv

LEMMA HadIs ==
  ASSUME NEW o \in Ids
  PROVE  Numbers(Static(o).state)
BY StaticIs, SceneAssumption DEF Numbers

\* What is booked belongs to one object.
LEMMA BookedAt ==
  ASSUME NEW o \in Ids, NEW id, HasAffordance(o, id)
  PROVE  /\ id \in {"plant_seeds", "harvest", "eat"} => o = "planter-1"
         /\ id \in {"brew_coffee", "pour_cup"} => o = "coffee-1"
         /\ id \in {f.id : f \in AllAffordances}
<1>1. PICK f \in Affordances(o) : f.id = id
  BY DEF HasAffordance
<1>2. Static(o) \in Scene /\ Static(o).id = o
  BY StaticIs
<1>3. f \in Static(o).affordances
  BY <1>1 DEF Affordances
<1>4. f \in AllAffordances
  BY <1>1 DEF AllAffordances
<1>5. QED
  BY <1>1, <1>2, <1>3, <1>4, SceneAssumption

\* The books of an object whose numbers are those of s, after n affordances of each kind.
Planted(s, n) ==
  /\ Had("planter-1", "seeds_planted") + n["plant_seeds"]
       = Read(s, "seeds_planted") + 3 * n["harvest"]
  /\ Had("planter-1", "vegetables") + n["harvest"] = Read(s, "vegetables") + n["eat"]
Brewed(s, n) ==
  /\ Had("coffee-1", "bean_count") = Read(s, "bean_count") + n["brew_coffee"]
  /\ Had("coffee-1", "cup_count") = Read(s, "cup_count") + n["pour_cup"]
Kept(o, s, n) == (o = "planter-1" => Planted(s, n)) /\ (o = "coffee-1" => Brewed(s, n))

Counts == [id \in Booked |-> Count(id)]

LEMMA BooksAre ==
  BooksBalance <=> \A o \in DOMAIN objects \ settled : Kept(o, objects[o].state, Counts)
BY DEF BooksBalance, Kept, Planted, Brewed, Has, Counts, Booked

LEMMA SameKept ==
  ASSUME NEW o, NEW s, NEW t, SameBooks(s, t), NEW n, Kept(o, s, n)
  PROVE  Kept(o, t, n)
BY DEF Kept, Planted, Brewed, SameBooks, Counted

LEMMA SameNumbers ==
  ASSUME NEW s, NEW t, SameBooks(s, t), Numbers(s)
  PROVE  Numbers(t)
BY DEF Numbers, SameBooks, Counted

\* One more of id.
OneMoreOf(n, id) == [i \in Booked |-> IF i = id THEN n[i] + 1 ELSE n[i]]

\* What is not booked leaves the books as they are.
LEMMA OtherKept ==
  ASSUME NEW o, NEW s, NEW n \in [Booked -> Nat], Kept(o, s, n), NEW id, id \notin Booked
  PROVE  Kept(o, s, OneMoreOf(n, id))
<1>1. \A i \in Booked : OneMoreOf(n, id)[i] = n[i]
  BY DEF OneMoreOf
<1>2. QED
  BY <1>1 DEF Kept, Planted, Brewed, Booked

\* So does what belongs to another object.
LEMMA ElsewhereKept ==
  ASSUME NEW o, NEW s, NEW n \in [Booked -> Nat], Kept(o, s, n), NEW id,
         o = "planter-1" => id \notin {"plant_seeds", "harvest", "eat"},
         o = "coffee-1" => id \notin {"brew_coffee", "pour_cup"}
  PROVE  Kept(o, s, OneMoreOf(n, id))
<1>1. \A i \in Booked : i # id => OneMoreOf(n, id)[i] = n[i]
  BY DEF OneMoreOf
<1>2. QED
  BY <1>1 DEF Kept, Planted, Brewed, Booked

\* What is booked is booked where it belongs.
LEMMA BookedKept ==
  ASSUME NEW o \in Ids, NEW s, Numbers(s), NEW n \in [Booked -> Nat], Kept(o, s, n),
         NEW id, HasAffordance(o, id), NEW t, Accounts(id, s, t)
  PROVE  Numbers(t) /\ Kept(o, t, OneMoreOf(n, id))
<1> DEFINE m == OneMoreOf(n, id)
<1>1. \A f \in Counted : Read(s, f) \in Int
  BY DEF Numbers
<1>2. \A f \in Counted : Read(t, f) = Moved(id, f, Read(s, f))
  BY DEF Accounts
<1>3. \A i \in Booked : n[i] \in Nat /\ m[i] = IF i = id THEN n[i] + 1 ELSE n[i]
  BY DEF OneMoreOf
<1>4. /\ id = "plant_seeds" => Read(s, "seeds_planted") < 3
      /\ Read(s, "seeds_planted") =< 3
      /\ id = "harvest" => Read(s, "seeds_planted") >= 3
  BY DEF Numbers, Accounts
<1> HIDE DEF m
<1>5. Numbers(t)
  <2>1. \A f \in Counted : Read(t, f) \in Int
    BY <1>1, <1>2 DEF Moved
  <2>2. /\ Read(s, "seeds_planted") \in Int
        /\ Read(t, "seeds_planted") = Moved(id, "seeds_planted", Read(s, "seeds_planted"))
    BY <1>1, <1>2 DEF Counted
  <2>3. Read(t, "seeds_planted") =< 3
    BY <1>4, <2>2 DEF Moved
  <2>4. QED
    BY <2>1, <2>3 DEF Numbers
<1>6. ASSUME o = "planter-1" PROVE Planted(t, m)
  <2>1. /\ Had("planter-1", "seeds_planted") \in Int /\ Had("planter-1", "vegetables") \in Int
        /\ Read(s, "seeds_planted") \in Int /\ Read(s, "vegetables") \in Int
    BY <1>1, <1>6, HadIs DEF Had, Numbers, Counted
  <2>2. /\ Read(t, "seeds_planted") = Moved(id, "seeds_planted", Read(s, "seeds_planted"))
        /\ Read(t, "vegetables") = Moved(id, "vegetables", Read(s, "vegetables"))
    BY <1>2 DEF Counted
  <2>3. /\ n["plant_seeds"] \in Nat /\ n["harvest"] \in Nat /\ n["eat"] \in Nat
        /\ m["plant_seeds"] = IF id = "plant_seeds" THEN n["plant_seeds"] + 1 ELSE n["plant_seeds"]
        /\ m["harvest"] = IF id = "harvest" THEN n["harvest"] + 1 ELSE n["harvest"]
        /\ m["eat"] = IF id = "eat" THEN n["eat"] + 1 ELSE n["eat"]
    BY <1>3 DEF Booked
  <2>4. Planted(s, n)
    BY <1>6 DEF Kept
  <2>5. QED
    BY <1>4, <2>1, <2>2, <2>3, <2>4 DEF Planted, Moved
<1>7. ASSUME o = "coffee-1" PROVE Brewed(t, m)
  <2>1. /\ Had("coffee-1", "bean_count") \in Int /\ Had("coffee-1", "cup_count") \in Int
        /\ Read(s, "bean_count") \in Int /\ Read(s, "cup_count") \in Int
    BY <1>1, <1>7, HadIs DEF Had, Numbers, Counted
  <2>2. /\ Read(t, "bean_count") = Moved(id, "bean_count", Read(s, "bean_count"))
        /\ Read(t, "cup_count") = Moved(id, "cup_count", Read(s, "cup_count"))
    BY <1>2 DEF Counted
  <2>3. /\ n["brew_coffee"] \in Nat /\ n["pour_cup"] \in Nat
        /\ m["brew_coffee"] = IF id = "brew_coffee" THEN n["brew_coffee"] + 1 ELSE n["brew_coffee"]
        /\ m["pour_cup"] = IF id = "pour_cup" THEN n["pour_cup"] + 1 ELSE n["pour_cup"]
    BY <1>3 DEF Booked
  <2>4. Brewed(s, n)
    BY <1>7 DEF Kept
  <2>5. QED
    BY <2>1, <2>2, <2>3, <2>4 DEF Brewed, Moved
<1>8. Kept(o, t, m)
  BY <1>6, <1>7 DEF Kept
<1>9. QED
  BY <1>5, <1>8 DEF m

LEMMA CountsAre == ASSUME TallyInv PROVE Counts \in [Booked -> Nat]
BY CountIs DEF Counts

\* Agent a now calls the handler of what an object of its has.
Serves(a) ==
  \E o \in DOMAIN objects : \E id, r : HasAffordance(o, id) /\ Invoked(a, r, o, id)

LEMMA SubStepServes ==
  ASSUME Shapes, NEW a \in Agents, NEW r, DOMAIN r = Fields, NextSubStep(a, r)
  PROVE  call'[a].pc = "handler" => Serves(a)
<1>1. CASE Completes(a, r) \/ Aborts(a)
  <2>1. call' = [call EXCEPT ![a] = Idle]
    BY <1>1 DEF Completes, Aborts
  <2>2. QED
    BY <2>1, EndsIdle
<1>2. CASE ~(Completes(a, r) \/ Aborts(a))
  <2> DEFINE t == [r EXCEPT !.rest = Tail(@)]
             id == Head(r.rest)
  <2>1. PICK o \in ResolveAffordance(r.room, id) : Invokes(a, t, o, id)
    BY <1>2 DEF NextSubStep
  <2>2. o \in DOMAIN objects /\ HasAffordance(o, id)
    BY <2>1 DEF ResolveAffordance, InRoom
  <2>3. DOMAIN t = Fields
    OBVIOUS
  <2> HIDE DEF t, id
  <2>4. Invoked(a, t, o, id)
    BY <2>1, <2>3, InvokesIs
  <2>5. QED
    BY <2>2, <2>4 DEF Serves
<1>3. QED
  BY <1>1, <1>2

LEMMA WorksServes ==
  ASSUME Shapes, NEW a \in Agents, Works(a)
  PROVE  call'[a].pc = "handler" => Serves(a)
<1>1. CASE StartAffordance(a)
  <2>1. PICK id \in Targets : \E o \in ResolveAffordance(at[a], id) :
         IF Ungated(o, id) /\ CoLocated(a, o)
         THEN Invokes(a, [Idle EXCEPT !.step = id, !.room = at[a]], o, id)
         ELSE Strikes(a, id)
    BY <1>1 DEF StartAffordance
  <2>2. CASE Strikes(a, id)
    <3>1. call' = [call EXCEPT ![a] = Idle]
      BY <2>2 DEF Strikes
    <3>2. QED
      BY <3>1, EndsIdle
  <2>3. CASE ~Strikes(a, id)
    <3> DEFINE r == [Idle EXCEPT !.step = id, !.room = at[a]]
    <3>1. PICK o \in ResolveAffordance(at[a], id) : Invokes(a, r, o, id)
      BY <2>1, <2>3
    <3>2. o \in DOMAIN objects /\ HasAffordance(o, id)
      BY <3>1 DEF ResolveAffordance, InRoom
    <3>3. DOMAIN r = Fields
      BY IdleShape
    <3> HIDE DEF r
    <3>4. Invoked(a, r, o, id)
      BY <3>1, <3>3, InvokesIs
    <3>5. QED
      BY <3>2, <3>4 DEF Serves
  <2>4. QED
    BY <2>2, <2>3
<1>2. CASE StartCompound(a)
  <2>1. PICK id, o : NextSubStep(a, [Idle EXCEPT !.step = id, !.compound = TRUE, !.room = at[a],
                                                 !.rest = Compounds(o)[id]])
    BY <1>2 DEF StartCompound
  <2>2. DOMAIN [Idle EXCEPT !.step = id, !.compound = TRUE, !.room = at[a],
                            !.rest = Compounds(o)[id]] = Fields
    BY IdleShape
  <2>3. QED
    BY <2>1, <2>2, SubStepServes
<1>3. CASE SkipUnknown(a)
  BY <1>3 DEF SkipUnknown, Begin
<1>4. CASE Continue(a)
  <2>1. CASE NextSubStep(a, call[a])
    BY <2>1, SubStepServes DEF Shapes
  <2>2. CASE ~NextSubStep(a, call[a])
    <3>1. call' = [call EXCEPT ![a] = Idle]
      BY <1>4, <2>2 DEF Continue, Aborts, Completes, Strikes
    <3>2. QED
      BY <3>1, EndsIdle
  <2>3. QED
    BY <2>1, <2>2
<1>5. QED
  BY <1>1, <1>2, <1>3, <1>4 DEF Works

\* The call c, whose object is o, is booked if its handler was called in state s.
LEMMA ServesBooks ==
  ASSUME KnownInv, BookInv, NEW a \in Agents, Serves(a), UNCHANGED <<objects, settled>>
  PROVE  CallBooks(call[a])'
<1>0. PICK o \in DOMAIN objects : \E id, r : HasAffordance(o, id) /\ Invoked(a, r, o, id)
  BY DEF Serves
<1>1. PICK id, r : HasAffordance(o, id) /\ Invoked(a, r, o, id)
  BY <1>0
<1> DEFINE s == objects[o].state
           answer == call'[a].answer
<1>2. call'[a].object = o /\ call'[a].id = id /\ answer \in Answers(id, o, a, s)
  BY <1>1 DEF Invoked
<1>3. o \in Ids
  BY <1>1 DEF KnownInv
<1>4. Told(answer, id, s)
  <2> HIDE DEF s, answer
  <2>1. QED
    BY <1>2, ToldAnswers
<1>5. o \notin settled => Ints(s)
  BY <1>1 DEF BookInv, Numbers, Ints
<1>6. objects'[o].state = s /\ call'[a].answer = answer
  OBVIOUS
<1> HIDE DEF s, answer
<1>7. QED
  BY <1>1, <1>2, <1>3, <1>4, <1>5, <1>6 DEF CallBooks, Told

LEMMA AccountsSame ==
  ASSUME NEW id, NEW s, NEW u, NEW t, SameBooks(s, u), Accounts(id, s, t)
  PROVE  Accounts(id, u, t)
BY DEF Accounts, SameBooks, Counted

\* The call d is the call c, perhaps marked as written over.
SameCall(c, d) ==
  /\ d.pc = c.pc /\ d.object = c.object /\ d.id = c.id /\ d.answer = c.answer
  /\ d.untouched => c.untouched

LEMMA TouchedSame ==
  ASSUME NEW calls, DOMAIN calls = Agents, NEW W, NEW b \in Agents, DOMAIN calls[b] = Fields
  PROVE  /\ SameCall(calls[b], Touched(calls, W)[b])
         /\ calls[b].pc = "handler" /\ calls[b].object \in W => Touched(calls, W)[b].untouched = FALSE
<1> DEFINE c == calls[b]
           d == Touched(calls, W)[b]
<1>1. d = IF c.pc = "handler" /\ c.object \in W THEN [c EXCEPT !.untouched = FALSE] ELSE c
  BY DEF Touched
<1>2. DOMAIN c = Fields
  OBVIOUS
<1> HIDE DEF c, d
<1>3. ASSUME d = c PROVE SameCall(c, d)
  BY <1>3 DEF SameCall
<1>4. ASSUME d = [c EXCEPT !.untouched = FALSE] PROVE SameCall(c, d) /\ d.untouched = FALSE
  BY <1>2, <1>4 DEF SameCall, Fields
<1>5. QED
  BY <1>1, <1>3, <1>4 DEF c, d

\* A step leaves a call booked, if it keeps the numbers of its object or marks the call.
LEMMA CallKept ==
  ASSUME NEW b \in Agents, CallBooks(call[b]), SameCall(call[b], call'[b]),
         settled \subseteq settled', DOMAIN objects' \subseteq DOMAIN objects,
         \/ call'[b].untouched = FALSE
         \/ \A o \in DOMAIN objects' \ settled' :
              o = call[b].object => SameBooks(objects[o].state, objects'[o].state)
  PROVE  CallBooks(call[b])'
<1> DEFINE c == call[b]
           d == call'[b]
<1>1. d.object = c.object /\ d.id = c.id /\ d.answer = c.answer /\ (d.untouched => c.untouched)
  BY DEF SameCall
<1>2. /\ c.object \in Ids /\ HasAffordance(c.object, c.id) /\ OnlyWater(c.answer)
      /\ c.answer.ok /\ ~c.answer.writes => c.id \notin Booked
      /\ c.answer.ok /\ c.answer.writes /\ c.untouched /\ c.object \in DOMAIN objects \ settled
           => Accounts(c.id, objects[c.object].state, c.answer.state)
  BY DEF CallBooks
<1> HIDE DEF c, d
<1>3. ASSUME d.answer.ok, d.answer.writes, d.untouched, d.object \in DOMAIN objects' \ settled'
      PROVE  Accounts(d.id, objects'[d.object].state, d.answer.state)
  <2> DEFINE s == objects[c.object].state
             u == objects'[c.object].state
  <2>1. Accounts(c.id, s, c.answer.state)
    BY <1>1, <1>2, <1>3
  <2>2. SameBooks(s, u)
    BY <1>1, <1>3 DEF c, d
  <2> HIDE DEF s, u
  <2>3. Accounts(c.id, u, c.answer.state)
    BY <2>1, <2>2, AccountsSame
  <2>4. QED
    BY <1>1, <2>3 DEF u
<1>4. QED
  BY <1>1, <1>2, <1>3 DEF CallBooks, d

\* What a call writes keeps the numbers of all objects but its own.
\* A call that answers for a state the rules changed is marked.
LEMMA AgainBooks ==
  ASSUME Shapes, BookInv, NEW calls, NEW W, Waiting(calls, W), NEW b \in Agents,
         call[b].pc = "handler", calls[b] # call[b]
  PROVE  CallBooks(call[b])'
<1> DEFINE c == call[b]
           e == calls[b]
           d == call'[b]
           s == objects'[c.object].state
           answer == Handle(c.id, c.object, b, s)
<1>1. c.pc = "handler" /\ c.object \in W /\ e = [c EXCEPT !.answer = answer] /\ DOMAIN c = Fields
  BY DEF Waiting, Again, Shapes
<1>2. SameCall(e, d) /\ (e.pc = "handler" /\ e.object \in W => d.untouched = FALSE)
  BY TouchedSame DEF Waiting
<1>3. CallBooks(c)
  BY DEF BookInv
<1>4. Told(answer, c.id, s)
  <2> HIDE DEF c, s
  <2>1. QED
    BY ToldHandle
<1> HIDE DEF c, d, e, s, answer
<1>5. e.pc = c.pc /\ e.object = c.object /\ e.id = c.id /\ e.answer = answer
  BY <1>1 DEF Fields
<1>6. d.object = c.object /\ d.id = c.id /\ d.answer = answer /\ d.untouched = FALSE
  BY <1>1, <1>2, <1>5 DEF SameCall
<1>7. /\ d.object \in Ids /\ HasAffordance(d.object, d.id) /\ OnlyWater(d.answer)
      /\ d.answer.ok /\ ~d.answer.writes => d.id \notin Booked
  BY <1>3, <1>4, <1>6 DEF CallBooks, Told
<1>8. QED
  BY <1>6, <1>7 DEF CallBooks, d

LEMMA WrittenBooks ==
  ASSUME Shapes, NEW a \in Agents, objects' = Written(a), OnlyWater(call[a].answer)
  PROVE  \A o \in DOMAIN objects :
           SameBooks(IF call[a].answer.writes /\ o = call[a].object THEN call[a].answer.state
                     ELSE objects[o].state, objects'[o].state)
<1> DEFINE c == call[a]
           own == IF c.answer.writes /\ c.object \in DOMAIN objects
                  THEN [objects EXCEPT ![c.object].state = c.answer.state] ELSE objects
           base(o) == IF c.answer.writes /\ o = c.object THEN c.answer.state ELSE objects[o].state
<1>1. DOMAIN own = DOMAIN objects
  OBVIOUS
<1>2. \A o \in DOMAIN objects : own[o].state = base(o) /\ DOMAIN own[o] = {"room", "state"}
  BY DEF Shapes
<1>3. objects' = [o \in DOMAIN own |->
                   IF \E p \in c.answer.patches : p.object = o
                   THEN [own[o] EXCEPT !.state =
                           Merge(@, (CHOOSE p \in c.answer.patches : p.object = o).patch)]
                   ELSE own[o]]
  BY DEF Written
<1> HIDE DEF own, base
<1>4. ASSUME NEW o \in DOMAIN objects
      PROVE  SameBooks(base(o), objects'[o].state)
  <2>1. CASE \E p \in c.answer.patches : p.object = o
    <3> DEFINE q == CHOOSE p \in c.answer.patches : p.object = o
               w == q.patch
    <3>1. q \in c.answer.patches
      BY <2>1
    <3>2. DOMAIN w = {"water_level"}
      BY <3>1 DEF OnlyWater
    <3>3. objects'[o] = [own[o] EXCEPT !.state = Merge(@, w)]
      BY <1>1, <1>3, <2>1
    <3> HIDE DEF w, q
    <3>4. objects'[o].state = Merge(base(o), w)
      BY <1>2, <3>3
    <3>5. SameBooks(base(o), Merge(base(o), w))
      BY <3>2, ReadMerge DEF SameBooks, Counted
    <3>6. QED
      BY <3>4, <3>5
  <2>2. CASE ~\E p \in c.answer.patches : p.object = o
    <3>1. objects'[o] = own[o]
      BY <1>1, <1>3, <2>2
    <3>2. QED
      BY <1>2, <3>1 DEF SameBooks
  <2>3. QED
    BY <2>1, <2>2
<1>5. QED
  BY <1>4 DEF base

\* What the books of the objects are after a step.
BooksNext ==
  \A o \in DOMAIN objects' \ settled' :
    Numbers(objects'[o].state) /\ Kept(o, objects'[o].state, Counts')

LEMMA BookNext ==
  ASSUME TallyInv', BooksNext, \A b \in Agents : call'[b].pc = "handler" => CallBooks(call[b])'
  PROVE  BookInv'
<1>1. \A o \in DOMAIN objects' \ settled' : Kept(o, objects'[o].state, Counts')
  BY DEF BooksNext
<1>2. BooksBalance'
  BY <1>1 DEF BooksBalance, Kept, Planted, Brewed, Has, Had, Static, Catalog, Counts, Count, Booked
<1>3. \A o \in DOMAIN objects' \ settled' : Numbers(objects'[o].state)
  BY DEF BooksNext
<1>4. QED
  BY <1>2, <1>3 DEF BookInv

LEMMA BookNow ==
  ASSUME BookInv, NEW o \in DOMAIN objects \ settled
  PROVE  Numbers(objects[o].state) /\ Kept(o, objects[o].state, Counts)
BY BooksAre DEF BookInv

\* A call that succeeds.
LEMMA TallyGrows ==
  ASSUME TallyInv, NEW id \in DOMAIN tally, tally' = [tally EXCEPT ![id] = @ + 1]
  PROVE  TallyInv' /\ Counts' = OneMoreOf(Counts, id)
<1>1. DOMAIN tally' = DOMAIN tally /\ \A i \in DOMAIN tally : tally'[i] = IF i = id THEN tally[i] + 1 ELSE tally[i]
  OBVIOUS
<1>2. TallyInv'
  BY <1>1 DEF TallyInv, AllAffordances, Affordances, Static, Catalog
<1>3. \A i \in Booked : Count(i)' = IF i = id THEN Count(i) + 1 ELSE Count(i)
  BY <1>1 DEF Count
<1>4. QED
  BY <1>2, <1>3 DEF Counts, OneMoreOf

LEMMA SettleBooks ==
  ASSUME Shapes, KnownInv, BookInv, NEW a \in Agents, Settle(a), call[a].answer.ok
  PROVE  BookInv'
<1> DEFINE c == call[a]
           hop == [c EXCEPT !.pc = "hop", !.gain = Plus(@, c.answer.gain), !.deeds = Append(@, c.id)]
           calls == [call EXCEPT ![a] = hop]
<1>1. DOMAIN call = Agents /\ \A b \in Agents : DOMAIN call[b] = Fields
  BY DEF Shapes
<1>2. /\ c.pc = "handler" /\ objects' = Written(a) /\ call' = Touched(calls, WrittenBy(a))
      /\ tally' = [tally EXCEPT ![c.id] = @ + 1]
      /\ settled' = IF c.answer.writes /\ ~c.untouched THEN settled \cup {c.object} ELSE settled
  BY DEF Settle
<1>3. CallBooks(c)
  BY <1>2 DEF BookInv
<1>4. /\ c.object \in Ids /\ HasAffordance(c.object, c.id) /\ OnlyWater(c.answer)
      /\ ~c.answer.writes => c.id \notin Booked
      /\ c.answer.writes /\ c.untouched /\ c.object \in DOMAIN objects \ settled
           => Accounts(c.id, objects[c.object].state, c.answer.state)
  BY <1>3 DEF CallBooks
<1>5. DOMAIN objects' = DOMAIN objects /\ settled \subseteq settled'
  BY <1>2, SettleRooms DEF SameRooms
<1>6. \A o \in DOMAIN objects :
        SameBooks(IF c.answer.writes /\ o = c.object THEN c.answer.state
                  ELSE objects[o].state, objects'[o].state)
  BY <1>2, <1>4, WrittenBooks
<1>7. DOMAIN hop = Fields /\ hop.pc = "hop"
  BY <1>1 DEF Fields
<1>8. TallyInv /\ c.id \in DOMAIN tally
  BY <1>4, BookedAt DEF BookInv, TallyInv
<1> HIDE DEF hop
<1>9. DOMAIN calls = Agents /\ calls[a] = hop /\ \A b \in Agents : DOMAIN calls[b] = Fields /\ (b # a => calls[b] = call[b])
  BY <1>1, <1>7
<1> HIDE DEF c, calls
<1>10. TallyInv' /\ Counts' = OneMoreOf(Counts, c.id)
  BY <1>2, <1>8, TallyGrows
<1>11. Counts \in [Booked -> Nat]
  BY <1>8, CountsAre
<1>12. ASSUME NEW o \in DOMAIN objects' \ settled'
       PROVE  Numbers(objects'[o].state) /\ Kept(o, objects'[o].state, Counts')
  <2> DEFINE s == objects[o].state
             u == objects'[o].state
             n == OneMoreOf(Counts, c.id)
  <2>1. o \in DOMAIN objects \ settled /\ o \in Ids
    BY <1>5 DEF KnownInv
  <2>2. Numbers(s) /\ Kept(o, s, Counts)
    BY <2>1, BookNow
  <2>3. SameBooks(IF c.answer.writes /\ o = c.object THEN c.answer.state ELSE s, u)
    BY <1>6, <2>1
  <2>4. c.answer.writes /\ o = c.object => Accounts(c.id, s, c.answer.state)
    BY <1>2, <1>4, <2>1
  <2> HIDE DEF s, u, n
  <2>5. ASSUME c.answer.writes, o = c.object PROVE Numbers(u) /\ Kept(o, u, n)
    <3>1. Numbers(c.answer.state) /\ Kept(o, c.answer.state, n)
      BY <1>4, <1>11, <2>1, <2>2, <2>4, <2>5, BookedKept DEF n
    <3>2. SameBooks(c.answer.state, u)
      BY <2>3, <2>5
    <3>3. QED
      BY <3>1, <3>2, SameNumbers, SameKept
  <2>6. ASSUME ~(c.answer.writes /\ o = c.object) PROVE Numbers(u) /\ Kept(o, u, n)
    <3>1. SameBooks(s, u)
      BY <2>3, <2>6
    <3>2. CASE c.id \notin Booked
      <4>1. Kept(o, s, n)
        BY <1>11, <2>2, <3>2, OtherKept DEF n
      <4>2. QED
        BY <2>2, <3>1, <4>1, SameNumbers, SameKept
    <3>3. CASE c.id \in Booked
      <4>1. o # c.object
        BY <1>4, <2>6, <3>3
      <4>2. /\ o = "planter-1" => c.id \notin {"plant_seeds", "harvest", "eat"}
            /\ o = "coffee-1" => c.id \notin {"brew_coffee", "pour_cup"}
        BY <1>4, <4>1, BookedAt
      <4>3. Kept(o, s, n)
        BY <1>11, <2>2, <4>2, ElsewhereKept DEF n
      <4>4. QED
        BY <2>2, <3>1, <4>3, SameNumbers, SameKept
    <3>4. QED
      BY <3>2, <3>3
  <2>7. QED
    BY <1>10, <2>5, <2>6 DEF u, n
<1>13. ASSUME NEW b \in Agents, call'[b].pc = "handler" PROVE CallBooks(call[b])'
  <2>1. /\ SameCall(calls[b], call'[b])
        /\ calls[b].pc = "handler" /\ calls[b].object \in WrittenBy(a) => call'[b].untouched = FALSE
    BY <1>2, <1>9, TouchedSame
  <2>2. b # a
    BY <1>7, <1>9, <1>13, <2>1 DEF SameCall
  <2>3. calls[b] = call[b] /\ call[b].pc = "handler"
    BY <1>9, <1>13, <2>1, <2>2 DEF SameCall
  <2>4. CallBooks(call[b])
    BY <2>3 DEF BookInv
  <2>5. \/ call'[b].untouched = FALSE
        \/ \A o \in DOMAIN objects' \ settled' :
             o = call[b].object => SameBooks(objects[o].state, objects'[o].state)
    <3>1. CASE call[b].object \in WrittenBy(a)
      BY <2>1, <2>3, <3>1
    <3>2. CASE call[b].object \notin WrittenBy(a)
      <4>1. ~(c.answer.writes /\ call[b].object = c.object)
        BY <3>2 DEF WrittenBy, c
      <4>2. QED
        BY <1>5, <1>6, <4>1
    <3>3. QED
      BY <3>1, <3>2
  <2>6. QED
    BY <1>5, <2>1, <2>3, <2>4, <2>5, CallKept
<1>14. QED
  BY <1>10, <1>12, <1>13, BookNext DEF BooksNext

\* A call that fails.
LEMMA FailsBooks ==
  ASSUME Shapes, KnownInv, BookInv, NEW a \in Agents, Settle(a), ~call[a].answer.ok
  PROVE  BookInv'
<1>1. call' = [call EXCEPT ![a].pc = "hop"] /\ UNCHANGED <<objects, tally, settled>>
  BY DEF Settle
<1>2. \A b \in Agents : call'[b].pc = "handler" => call'[b] = call[b] /\ call[b].pc = "handler"
  BY <1>1 DEF Shapes
<1>3. TallyInv' /\ BooksNext
  BY <1>1, BookNow DEF BookInv, TallyInv, BooksNext, Counts, Count
<1>4. ASSUME NEW b \in Agents, call'[b].pc = "handler" PROVE CallBooks(call[b])'
  BY <1>1, <1>2, <1>4 DEF BookInv, CallBooks
<1>5. QED
  BY <1>3, <1>4, BookNext

\* Rules leave the numbers that are booked alone.
LEMMA EvolvedBooks ==
  ASSUME NEW o \in Ids, NEW s
  PROVE  SameBooks(s, Evolved(o, s))
<1>1. Static(o) \in Scene
  BY StaticIs
<1>2. \A f \in Counted : DueRules(o, f) = {}
  BY <1>1, SceneAssumption DEF DueRules
<1>3. QED
  BY <1>2 DEF SameBooks, Read, Evolved

LEMMA TickBooks ==
  ASSUME Shapes, KnownInv, BookInv, Tick
  PROVE  BookInv'
<1>1. KeepsStates(Mutated)
  BY MutatedKeeps
<1>2. /\ objects' = [o \in DOMAIN Mutated |-> [room |-> Mutated[o].room,
                                               state |-> Evolved(o, Mutated[o].state)]]
      /\ settled' = settled \cup (Ids \ DOMAIN Mutated) /\ tally' = tally
  BY DEF Tick
<1>3. PICK calls, W : Waiting(calls, W)
  BY TickWaiting
<1>4. DOMAIN objects' \subseteq DOMAIN objects /\ settled \subseteq settled'
  BY <1>1, <1>2 DEF KeepsStates
<1>5. ASSUME NEW o \in DOMAIN objects' PROVE SameBooks(objects[o].state, objects'[o].state)
  <2>1. objects'[o].state = Evolved(o, objects[o].state)
    BY <1>1, <1>2 DEF KeepsStates
  <2>2. o \in Ids
    BY <1>4 DEF KnownInv
  <2>3. QED
    BY <2>1, <2>2, EvolvedBooks
<1>6. Counts' = Counts /\ TallyInv'
  BY <1>2 DEF Counts, Count, BookInv, TallyInv
<1>7. ASSUME NEW o \in DOMAIN objects' \ settled'
      PROVE  Numbers(objects'[o].state) /\ Kept(o, objects'[o].state, Counts')
  <2> DEFINE s == objects[o].state
             u == objects'[o].state
  <2>1. Numbers(s) /\ Kept(o, s, Counts)
    BY <1>4, BookNow
  <2>2. SameBooks(s, u)
    BY <1>5
  <2> HIDE DEF s, u
  <2>3. Numbers(u) /\ Kept(o, u, Counts)
    BY <2>1, <2>2, SameNumbers, SameKept
  <2>4. QED
    BY <1>6, <2>3 DEF u
<1>8. ASSUME NEW b \in Agents, call'[b].pc = "handler" PROVE CallBooks(call[b])'
  <2>1. SameCall(calls[b], call'[b]) /\ calls[b].pc = call[b].pc
    BY <1>3, TouchedSame DEF Waiting
  <2>2. call[b].pc = "handler"
    BY <1>8, <2>1 DEF SameCall
  <2>3. CASE calls[b] = call[b]
    <3>1. SameCall(call[b], call'[b])
      BY <2>1, <2>3
    <3>2. CallBooks(call[b])
      BY <2>2 DEF BookInv
    <3>3. QED
      BY <1>4, <1>5, <3>1, <3>2, CallKept
  <2>4. CASE calls[b] # call[b]
    BY <1>3, <2>2, <2>4, AgainBooks
  <2>5. QED
    BY <2>3, <2>4
<1>9. QED
  BY <1>6, <1>7, <1>8, BookNext DEF BooksNext

LEMMA SameWorldBooks ==
  ASSUME BookInv, UNCHANGED <<objects, settled, tally>>,
         \A b \in Agents : call'[b].pc = "handler" => call'[b] = call[b] \/ CallBooks(call[b])'
  PROVE  BookInv'
<1>1. TallyInv' /\ BooksNext
  BY BookNow DEF BookInv, TallyInv, BooksNext, Counts, Count
<1>2. ASSUME NEW b \in Agents, call'[b].pc = "handler" PROVE CallBooks(call[b])'
  <2>1. CASE call'[b] = call[b]
    BY <1>2, <2>1 DEF BookInv, CallBooks
  <2>2. CASE call'[b] # call[b]
    BY <1>2, <2>2
  <2>3. QED
    BY <2>1, <2>2
<1>3. QED
  BY <1>1, <1>2, BookNext

LEMMA BooksKept ==
  ASSUME Shapes, KnownInv, BookInv, [Next]_vars
  PROVE  BookInv'
<1>1. ASSUME NEW a \in Agents, Works(a) PROVE BookInv'
  <2>1. UNCHANGED <<objects, settled, tally>>
    BY <1>1 DEF Works, StartAffordance, StartCompound, SkipUnknown, Continue, Begin
  <2>2. call'[a].pc = "handler" => CallBooks(call[a])'
    BY <1>1, <2>1, WorksServes, ServesBooks
  <2>3. \A b \in Agents : b # a => call'[b] = call[b]
    BY <1>1, WorksNear
  <2>4. QED
    BY <2>1, <2>2, <2>3, SameWorldBooks
<1>2. ASSUME NEW a \in Agents, Settle(a) PROVE BookInv'
  BY <1>2, SettleBooks, FailsBooks
<1>3. CASE Propose \/ UNCHANGED vars
  <2>1. UNCHANGED <<objects, settled, tally, call>>
    BY <1>3 DEF Propose, vars, agency, world
  <2>2. QED
    BY <2>1, SameWorldBooks
<1>4. CASE Tick
  BY <1>4, TickBooks
<1>5. QED
  BY <1>1, <1>2, <1>3, <1>4 DEF Next, Works

LEMMA InitBooks == Init => BookInv
<1> SUFFICES ASSUME Init PROVE BookInv
  OBVIOUS
<1>1. \A b \in Agents : call[b] = Idle
  BY DEF Init
<1>2. \A b \in Agents : call[b].pc # "handler"
  BY <1>1, IdleShape
<1>3. TallyInv /\ \A id : Count(id) = 0
  BY DEF Init, TallyInv, Count
<1>4. DOMAIN objects = Ids /\ \A o \in Ids : objects[o].state = Static(o).state
  BY DEF Init, Fresh
<1>5. \A o \in DOMAIN objects : Numbers(objects[o].state)
  BY <1>4, HadIs
<1>6. \A o \in DOMAIN objects, f \in Counted : Had(o, f) = Has(o, f) /\ Had(o, f) \in Int
  BY <1>4, HadIs DEF Had, Has, Numbers
<1>7. BooksBalance
  <2>1. \A o \in DOMAIN objects, f \in Counted : Had(o, f) = Has(o, f) /\ Has(o, f) \in Int
    BY <1>6
  <2>2. /\ "seeds_planted" \in Counted /\ "vegetables" \in Counted
        /\ "bean_count" \in Counted /\ "cup_count" \in Counted
    BY DEF Counted
  <2>3. QED
    BY <1>3, <2>1, <2>2 DEF BooksBalance
<1>8. QED
  BY <1>2, <1>3, <1>5, <1>7 DEF BookInv

\* What was planted, harvested, eaten, brewed and poured is what the objects
\* show, however many agents use them in whatever order, as long as no call
\* wrote over what happened while it was under way (PhysicsSystemImpl.executeAffordance).
THEOREM BooksAlwaysBalance == Spec => []BooksBalance
<1>1. Init => KnownInv /\ BookInv
  BY KnownInit, InitBooks
<1>2. Shapes /\ KnownInv /\ BookInv /\ [Next]_vars => KnownInv' /\ BookInv'
  BY KnownNext, BooksKept
<1>3. BookInv => BooksBalance
  BY DEF BookInv
<1>4. QED
  BY <1>1, <1>2, <1>3, ShapesHold, PTL DEF Spec
-----------------------------------------------------------------------------
(* What conditions ask for stays a number, whichever handler writes it.    *)

Quantities == {"water_level", "bean_count", "book_count", "seeds_planted", "vegetables"}
Solid(s) == \A f \in Quantities : Read(s, f) \in Int
SolidAnswer(n) == Solid(n.state) /\ \A p \in n.patches : Solid(p.patch)

LEMMA SolidMerge ==
  ASSUME NEW s, Solid(s), NEW p, \A f \in Quantities \cap DOMAIN p : p[f] \in Int
  PROVE  Solid(Merge(s, p))
BY ReadMerge DEF Solid

LEMMA SolidSet ==
  ASSUME NEW s, Solid(s), NEW f, NEW v, f \in Quantities => v \in Int
  PROVE  Solid(Set(s, f, v))
BY ReadSet DEF Solid

LEMMA SolidRefused == SolidAnswer(Refused)
BY DEF SolidAnswer, Refused, Solid, Read, Nothing

LEMMA SolidAccepted == SolidAnswer(Accepted)
<1>1. Accepted.state = Nothing /\ Accepted.patches = {}
  BY DEF Accepted, Refused
<1>2. QED
  BY <1>1 DEF SolidAnswer, Solid, Read, Nothing

LEMMA SolidBecame ==
  ASSUME NEW s, Solid(s), NEW g
  PROVE  SolidAnswer(Became(s, g))
BY AnswerBecame DEF SolidAnswer

LEMMA SolidCounts ==
  ASSUME NEW s, Solid(s), NEW f, NEW g
  PROVE  SolidAnswer(CountsUp(s, f, g))
<1> DEFINE t == Set(s, f, Read(s, f) + 1)
<1>1. f \in Quantities => Read(s, f) + 1 \in Int
  BY DEF Solid
<1>2. Solid(t)
  BY <1>1, SolidSet
<1>3. CountsUp(s, f, g) = Became(t, g)
  BY DEF CountsUp
<1> HIDE DEF t
<1>4. QED
  BY <1>2, <1>3, SolidBecame

LEMMA SolidUses ==
  ASSUME NEW s, Solid(s), NEW f, NEW n \in Int, NEW g
  PROVE  SolidAnswer(UsesUp(s, f, n, g))
<1> DEFINE t == Set(s, f, Read(s, f) - n)
<1>1. f \in Quantities => Read(s, f) - n \in Int
  BY DEF Solid
<1>2. Solid(t)
  BY <1>1, SolidSet
<1>3. UsesUp(s, f, n, g) = Refused \/ UsesUp(s, f, n, g) = Became(t, g)
  BY DEF UsesUp
<1> HIDE DEF t
<1>4. QED
  BY <1>2, <1>3, SolidBecame, SolidRefused

\* Another object is watered with a number of parts.
WateringBy(n, s, v) == \E g, o : n = Patching(Became(s, g), o, "water_level", v)

LEMMA SolidPatching ==
  ASSUME NEW s, Solid(s), NEW v \in Int, NEW n, WateringBy(n, s, v)
  PROVE  SolidAnswer(n)
<1>0. PICK g, o : n = Patching(Became(s, g), o, "water_level", v)
  BY DEF WateringBy
<1> DEFINE b == Became(s, g)
           w == [x \in {"water_level"} |-> v]
           q == [object |-> o, patch |-> w]
<1>1. n = [b EXCEPT !.patches = {q}] /\ q.patch = w
  BY <1>0 DEF Patching
<1>2. Solid(w)
  BY DEF Solid, Read
<1>3. DOMAIN b = {"ok", "writes", "state", "patches", "gain", "goes", "moves"}
  BY DEF Became, Accepted, Refused
<1>4. b.state = s
  BY AnswerBecame
<1> HIDE DEF b, q, w
<1>5. n.state = s /\ n.patches = {q}
  BY <1>1, <1>3, <1>4
<1>6. QED
  BY <1>1, <1>2, <1>5 DEF SolidAnswer

LEMMA SolidCarry ==
  ASSUME NEW s, Solid(s)
  PROVE  SolidAnswer(Carry(s))
<1> DEFINE left == [f \in DOMAIN s \ {"target_room"} |-> s[f]]
           b == Became(left, Nothing)
           n == [b EXCEPT !.moves = s["target_room"]]
<1>1. Carry(s) = Refused \/ Carry(s) = n
  BY DEF Carry
<1>2. Solid(left)
  BY DEF Solid, Quantities, Read
<1>3. n.patches = b.patches /\ n.state = b.state
  BY DEF Became, Accepted, Refused
<1>4. SolidAnswer(b)
  BY <1>2, SolidBecame
<1> HIDE DEF b, n
<1>5. SolidAnswer(n)
  BY <1>3, <1>4 DEF SolidAnswer
<1>6. QED
  BY <1>1, <1>5, SolidRefused

LEMMA SolidWorkshop ==
  ASSUME NEW id, NEW o, NEW a, NEW s, Solid(s)
  PROVE  SolidAnswer(Workshop(id, o, a, s))
<1> DEFINE taken == Merge(s, [taken_by |-> a, taken_from |-> o])
<1>1. \/ Workshop(id, o, a, s) = Refused
      \/ \E g : Workshop(id, o, a, s) = Became(taken, g)
      \/ \E f, g : Workshop(id, o, a, s) = CountsUp(s, f, g)
  BY DEF Workshop
<1>2. Solid(taken)
  BY ReadMerge DEF Solid, Quantities
<1> HIDE DEF taken
<1>3. QED
  BY <1>1, <1>2, SolidRefused, SolidBecame, SolidCounts

\* One part of water, and a full can.
LEMMA PartsAre == Whole \in Int /\ 5 * Whole \in Int
BY SceneDataAssumption

LEMMA SolidFixture ==
  ASSUME NEW id, NEW s, Solid(s)
  PROVE  SolidAnswer(Fixture(id, s))
<1> DEFINE less == Read(s, "water_level") - Whole
           t == Set(s, "water_supply", Read(s, "water_supply") - Whole)
           poured == Patching(Became(t, Nothing), "coffee-1", "water_level", 5 * Whole)
<1>1. \/ Fixture(id, s) = Refused
      \/ \E g : Fixture(id, s) = Became(s, g)
      \/ \E g : Fixture(id, s) = Became(Set(s, "water_level", less), g)
      \/ Fixture(id, s) = poured
  <2>1. CASE id = "refill_pitcher"
    <3>1. \/ UsesUp(s, "water_supply", Whole, Nothing) = Refused
          \/ UsesUp(s, "water_supply", Whole, Nothing) = Became(t, Nothing)
      BY DEF UsesUp
    <3>2. QED
      BY <2>1, <3>1, AnswerRefused DEF Fixture
  <2>2. CASE id # "refill_pitcher"
    BY <2>2 DEF Fixture
  <2>3. QED
    BY <2>1, <2>2
<1>2. less \in Int
  BY PartsAre DEF Solid, Quantities
<1>3. Solid(Set(s, "water_level", less))
  <2> HIDE DEF less
  <2>1. QED
    BY <1>2, SolidSet
<1>4. Solid(t)
  BY ReadSet DEF Solid, Quantities
<1> HIDE DEF t, less
<1>5. WateringBy(poured, t, 5 * Whole)
  BY DEF WateringBy
<1> HIDE DEF poured
<1>6. SolidAnswer(poured)
  <2>1. ASSUME NEW v \in Int, v = 5 * Whole PROVE SolidAnswer(poured)
    BY <1>4, <1>5, <2>1, SolidPatching
  <2>2. QED
    BY <2>1, PartsAre
<1>7. QED
  BY <1>1, <1>3, <1>6, SolidRefused, SolidBecame

LEMMA SolidGarden ==
  ASSUME NEW id, NEW s, Solid(s)
  PROVE  SolidAnswer(Garden(id, s))
<1> DEFINE p == [vegetables |-> Read(s, "vegetables") + 1, seeds_planted |-> 0]
           t == Merge(s, p)
           can == Patching(Became(s, Nothing), "planter-1", "water_level", 5 * Whole)
<1>1. \/ Garden(id, s) = Refused
      \/ \E g : Garden(id, s) = Became(s, g)
      \/ \E g : Garden(id, s) = Became(t, g)
      \/ \E f, g : Garden(id, s) = CountsUp(s, f, g)
      \/ \E f, g : Garden(id, s) = UsesUp(s, f, Whole, g) \/ Garden(id, s) = UsesUp(s, f, 1, g)
      \/ Garden(id, s) = can
  BY DEF Garden, PlantSeeds, Harvest
<1>2. Solid(t)
  <2>1. Read(s, "vegetables") + 1 \in Int
    BY DEF Solid, Quantities
  <2>2. \A f \in Quantities \cap DOMAIN p : p[f] \in Int
    BY <2>1
  <2> HIDE DEF p
  <2>3. QED
    BY <2>2, SolidMerge
<1> HIDE DEF t
<1>3. WateringBy(can, s, 5 * Whole)
  BY DEF WateringBy
<1> HIDE DEF can
<1>4. SolidAnswer(can)
  <2>1. ASSUME NEW v \in Int, v = 5 * Whole PROVE SolidAnswer(can)
    BY <1>3, <2>1, SolidPatching
  <2>2. QED
    BY <2>1, PartsAre
<1>5. \A f, g : SolidAnswer(UsesUp(s, f, Whole, g)) /\ SolidAnswer(UsesUp(s, f, 1, g))
  BY PartsAre, SolidUses
<1>6. QED
  BY <1>1, <1>2, <1>4, <1>5, SolidRefused, SolidBecame, SolidCounts

LEMMA SolidAppliance ==
  ASSUME NEW id, NEW s, Solid(s)
  PROVE  SolidAnswer(Appliance(id, s))
<1> DEFINE p == [water_level |-> s["water_level"] - Whole, bean_count |-> s["bean_count"] - 1]
           t == Merge(s, p)
           brewed == /\ ~(Read(s, "water_level") =< 0)
                     /\ ~(Read(s, "bean_count") =< 0)
<1>1. \/ Appliance(id, s) = Refused
      \/ \E g : Appliance(id, s) = Became(s, g)
      \/ brewed /\ \E g : Appliance(id, s) = Became(t, g)
      \/ \E g : Appliance(id, s) = Became(Set(s, "powered_on", FALSE), g)
      \/ \E f, g : Appliance(id, s) = CountsUp(s, f, g)
      \/ \E f, g : Appliance(id, s) = UsesUp(s, f, 1, g)
  BY DEF Appliance, BrewCoffee
<1>2. brewed => Solid(t)
  <2>1. SUFFICES ASSUME brewed PROVE Solid(t)
    OBVIOUS
  <2>2. s["water_level"] = Read(s, "water_level") /\ s["bean_count"] = Read(s, "bean_count")
    BY <2>1 DEF Read
  <2>3. s["water_level"] - Whole \in Int /\ s["bean_count"] - 1 \in Int
    BY <2>2, PartsAre DEF Solid, Quantities
  <2>4. \A f \in Quantities \cap DOMAIN p : p[f] \in Int
    BY <2>3
  <2> HIDE DEF p
  <2>5. QED
    BY <2>4, SolidMerge
<1> HIDE DEF t
<1>3. \A v : Solid(Set(s, "powered_on", v))
  <2>1. "powered_on" \notin Quantities
    BY DEF Quantities
  <2>2. QED
    BY <2>1, SolidSet
<1>4. \A f, g : SolidAnswer(UsesUp(s, f, 1, g))
  BY SolidUses
<1>5. QED
  BY <1>1, <1>2, <1>3, <1>4, SolidRefused, SolidBecame, SolidCounts

LEMMA SolidHandle ==
  ASSUME NEW id, NEW o, NEW a, NEW s, Solid(s)
  PROVE  SolidAnswer(Handle(id, o, a, s))
<1> DEFINE go == [Accepted EXCEPT !.goes = CHOOSE r \in RoomOf(id) : TRUE]
<1>1. \/ Handle(id, o, a, s) = go
      \/ Handle(id, o, a, s) = Became(s, Nothing)
      \/ Handle(id, o, a, s) \in {Carry(s), Accepted, Garden(id, s), Workshop(id, o, a, s),
                                  Furniture(id, s), Fixture(id, s), Nature(id, s),
                                  Office(id, s), Appliance(id, s)}
  BY DEF Handle
<1>2. SolidAnswer(go)
  <2>1. go.state = Accepted.state /\ go.patches = Accepted.patches
    BY DEF Accepted, Refused
  <2> HIDE DEF go
  <2>2. QED
    BY <2>1, SolidAccepted DEF SolidAnswer
<1> HIDE DEF go
<1>3. SolidAnswer(Furniture(id, s))
  <2>1. \/ Furniture(id, s) = Refused \/ \E g : Furniture(id, s) = Became(s, g)
        \/ \E f, g : Furniture(id, s) = UsesUp(s, f, 1, g)
    BY DEF Furniture
  <2>2. QED
    BY <2>1, SolidRefused, SolidBecame, SolidUses
<1>4. SolidAnswer(Nature(id, s))
  <2>1. \/ Nature(id, s) = Refused \/ Nature(id, s) = Accepted
        \/ \E g : Nature(id, s) = Became(s, g)
    BY DEF Nature
  <2>2. QED
    BY <2>1, SolidRefused, SolidAccepted, SolidBecame
<1>5. SolidAnswer(Office(id, s))
  <2>1. \/ Office(id, s) = Refused \/ \E g : Office(id, s) = Became(s, g)
        \/ \E f, g : Office(id, s) = CountsUp(s, f, g)
    BY DEF Office
  <2>2. QED
    BY <2>1, SolidRefused, SolidBecame, SolidCounts
<1>6. /\ SolidAnswer(Became(s, Nothing)) /\ SolidAnswer(Carry(s)) /\ SolidAnswer(Accepted)
      /\ SolidAnswer(Garden(id, s)) /\ SolidAnswer(Workshop(id, o, a, s))
      /\ SolidAnswer(Fixture(id, s)) /\ SolidAnswer(Appliance(id, s))
  BY SolidBecame, SolidCarry, SolidAccepted, SolidGarden, SolidWorkshop, SolidFixture, SolidAppliance
<1>7. QED
  BY <1>1, <1>2, <1>3, <1>4, <1>5, <1>6
-----------------------------------------------------------------------------
(* What is offered under a condition.                                      *)

\* The objects of the scenes whose affordances have conditions.
Conditional ==
  Planter.affordances \cup CoffeeMachine.affordances
    \cup Bookshelf.affordances \cup FlowerBed.affordances

\* A scene whose quantities are numbers, whose conditional affordances are
\* those of the catalog, and which registers the handlers of its garden.
OfCatalog(scene) ==
  \A x \in scene :
    /\ Solid(x.state)
    /\ \A f \in x.affordances :
         f.conditions # {} => /\ f \in Conditional
                              /\ f.id \in GardenIds => WithGarden
    /\ x.id = "planter-1" => WithGarden

SolidInv ==
  /\ \A o \in DOMAIN objects : Solid(objects[o].state)
  /\ \A a \in Agents : SolidAnswer(call[a].answer)

LEMMA EvolvedSolid ==
  ASSUME NEW o, NEW s, Solid(s)
  PROVE  Solid(Evolved(o, s))
<1>1. ASSUME NEW rule, NEW v \in Int PROVE Evolve(rule, v) \in Int
  BY DEF Evolve
<1>2. \A f \in DOMAIN s : Evolved(o, s)[f] = s[f] \/ \E rule : Evolved(o, s)[f] = Evolve(rule, s[f])
  BY DEF Evolved
<1>3. DOMAIN Evolved(o, s) = DOMAIN s
  BY DEF Evolved
<1>4. ASSUME NEW f \in Quantities PROVE Read(Evolved(o, s), f) \in Int
  <2>1. CASE f \in DOMAIN s
    <3>1. s[f] \in Int
      BY <2>1 DEF Solid, Read
    <3>2. Evolved(o, s)[f] \in Int
      BY <1>1, <1>2, <2>1, <3>1
    <3>3. QED
      BY <1>3, <2>1, <3>2 DEF Read
  <2>2. CASE f \notin DOMAIN s
    BY <1>3, <2>2 DEF Read
  <2>3. QED
    BY <2>1, <2>2
<1>5. QED
  BY <1>4 DEF Solid

LEMMA TouchedSolid ==
  ASSUME NEW calls, DOMAIN calls = Agents, NEW W, NEW b \in Agents, DOMAIN calls[b] = Fields,
         SolidAnswer(calls[b].answer)
  PROVE  SolidAnswer(Touched(calls, W)[b].answer)
<1>1. Touched(calls, W)[b].answer = calls[b].answer
  BY TouchedSame DEF SameCall
<1>2. QED
  BY <1>1

LEMMA SettleSolid ==
  ASSUME Shapes, SolidInv, NEW a \in Agents, Settle(a)
  PROVE  SolidInv'
<1> DEFINE c == call[a]
<1>1. Solid(c.answer.state) /\ \A p \in c.answer.patches : Solid(p.patch)
  BY DEF SolidInv, SolidAnswer
<1>2. ASSUME objects' = Written(a)
      PROVE  \A o \in DOMAIN objects' : Solid(objects'[o].state)
  <2> DEFINE own == IF c.answer.writes /\ c.object \in DOMAIN objects
                    THEN [objects EXCEPT ![c.object].state = c.answer.state] ELSE objects
  <2>1. DOMAIN own = DOMAIN objects
    OBVIOUS
  <2>2. \A o \in DOMAIN objects : DOMAIN own[o] = {"room", "state"}
    BY DEF Shapes
  <2>3. \A o \in DOMAIN objects : own[o].state = objects[o].state \/ own[o].state = c.answer.state
    BY DEF Shapes
  <2>4. \A o \in DOMAIN objects : Solid(own[o].state)
    BY <1>1, <2>3 DEF SolidInv
  <2>5. objects' = [o \in DOMAIN own |->
                     IF \E p \in c.answer.patches : p.object = o
                     THEN [own[o] EXCEPT !.state =
                             Merge(@, (CHOOSE p \in c.answer.patches : p.object = o).patch)]
                     ELSE own[o]]
    BY <1>2 DEF Written
  <2> HIDE DEF own
  <2>6. ASSUME NEW o \in DOMAIN objects PROVE Solid(objects'[o].state)
    <3>1. CASE \E p \in c.answer.patches : p.object = o
      <4> DEFINE q == CHOOSE p \in c.answer.patches : p.object = o
                 w == q.patch
      <4>1. q \in c.answer.patches
        BY <3>1
      <4>2. Solid(w)
        BY <1>1, <4>1
      <4>3. objects'[o] = [own[o] EXCEPT !.state = Merge(@, w)]
        BY <2>1, <2>5, <3>1
      <4> HIDE DEF w, q
      <4>4. objects'[o].state = Merge(own[o].state, w)
        BY <2>2, <4>3
      <4>5. \A f \in Quantities \cap DOMAIN w : w[f] \in Int
        BY <4>2 DEF Solid, Read
      <4>6. QED
        BY <2>4, <4>4, <4>5, SolidMerge
    <3>2. CASE ~\E p \in c.answer.patches : p.object = o
      BY <2>1, <2>4, <2>5, <3>2
    <3>3. QED
      BY <3>1, <3>2
  <2>7. DOMAIN objects' = DOMAIN objects
    BY <2>1, <2>5
  <2>8. QED
    BY <2>6, <2>7
<1>3. \A o \in DOMAIN objects' : Solid(objects'[o].state)
  <2>1. objects' = Written(a) \/ objects' = objects
    BY DEF Settle
  <2>2. QED
    BY <1>2, <2>1 DEF SolidInv
<1>4. \A b \in Agents : SolidAnswer(call'[b].answer)
  <2>1. CASE call[a].answer.ok
    <3> DEFINE calls == [call EXCEPT ![a] = [c EXCEPT !.pc = "hop",
                           !.gain = Plus(@, c.answer.gain), !.deeds = Append(@, c.id)]]
    <3>1. PICK W : call' = Touched(calls, W)
      BY <2>1 DEF Settle
    <3>2. /\ DOMAIN calls = Agents
          /\ \A b \in Agents : DOMAIN calls[b] = Fields /\ calls[b].answer = call[b].answer
      BY DEF Shapes, Fields
    <3> HIDE DEF calls
    <3>3. QED
      BY <3>1, <3>2, TouchedSolid DEF SolidInv
  <2>2. CASE ~call[a].answer.ok
    <3>1. call' = [call EXCEPT ![a].pc = "hop"]
      BY <2>2 DEF Settle
    <3>2. \A b \in Agents : call'[b].answer = call[b].answer
      BY <3>1 DEF Shapes, Fields
    <3>3. QED
      BY <3>2 DEF SolidInv
  <2>3. QED
    BY <2>1, <2>2
<1>5. QED
  BY <1>3, <1>4 DEF SolidInv
\* What a step of an agent leaves of its call, if no handler is called.
LEMMA WorksEnds ==
  ASSUME Shapes, NEW a \in Agents, Works(a), call'[a].pc # "handler"
  PROVE  call'[a] = Idle \/ call'[a] = call[a]
<1>1. ASSUME call' = [call EXCEPT ![a] = Idle] PROVE call'[a] = Idle
  BY <1>1 DEF Shapes
<1>2. ASSUME NEW r, DOMAIN r = Fields, NEW o, NEW id, Invokes(a, r, o, id) PROVE FALSE
  BY <1>2, InvokesIs DEF Invoked
<1>3. ASSUME NEW r, DOMAIN r = Fields, NextSubStep(a, r) PROVE call'[a] = Idle
  <2>1. CASE Completes(a, r) \/ Aborts(a)
    BY <1>1, <2>1 DEF Completes, Aborts
  <2>2. CASE ~(Completes(a, r) \/ Aborts(a))
    <3> DEFINE t == [r EXCEPT !.rest = Tail(@)]
    <3>1. DOMAIN t = Fields
      BY <1>3
    <3>2. \E o, id : Invokes(a, t, o, id)
      BY <1>3, <2>2 DEF NextSubStep
    <3> HIDE DEF t
    <3>3. QED
      BY <1>2, <3>1, <3>2
  <2>3. QED
    BY <2>1, <2>2
<1>4. CASE StartAffordance(a)
  <2>1. PICK id, o : Strikes(a, id) \/ Invokes(a, [Idle EXCEPT !.step = id, !.room = at[a]], o, id)
    BY <1>4 DEF StartAffordance
  <2>2. DOMAIN [Idle EXCEPT !.step = id, !.room = at[a]] = Fields
    BY IdleShape
  <2>3. Strikes(a, id)
    BY <1>2, <2>1, <2>2
  <2>4. QED
    BY <1>1, <2>3 DEF Strikes
<1>5. CASE StartCompound(a)
  <2>1. PICK id, o : NextSubStep(a, [Idle EXCEPT !.step = id, !.compound = TRUE, !.room = at[a],
                                                 !.rest = Compounds(o)[id]])
    BY <1>5 DEF StartCompound
  <2>2. DOMAIN [Idle EXCEPT !.step = id, !.compound = TRUE, !.room = at[a],
                            !.rest = Compounds(o)[id]] = Fields
    BY IdleShape
  <2>3. QED
    BY <1>3, <2>1, <2>2
<1>6. CASE SkipUnknown(a)
  BY <1>6 DEF SkipUnknown
<1>7. CASE Continue(a)
  <2>1. CASE NextSubStep(a, call[a])
    BY <1>3, <2>1 DEF Shapes
  <2>2. CASE ~NextSubStep(a, call[a])
    BY <1>1, <1>7, <2>2 DEF Continue, Aborts, Completes, Strikes
  <2>3. QED
    BY <2>1, <2>2
<1>8. QED
  BY <1>4, <1>5, <1>6, <1>7 DEF Works

LEMMA WorksSolid ==
  ASSUME Shapes, SolidInv, NEW a \in Agents, Works(a)
  PROVE  SolidInv'
<1>1. UNCHANGED objects /\ \A b \in Agents : b # a => call'[b] = call[b]
  BY WorksNear
<1>2. CASE call'[a].pc = "handler"
  <2>0. PICK o \in DOMAIN objects : \E id, r : Invoked(a, r, o, id)
    BY <1>2, WorksServes DEF Serves
  <2>1. PICK id : call'[a].answer \in Answers(id, o, a, objects[o].state)
    BY <2>0 DEF Invoked
  <2>2. Solid(objects[o].state)
    BY <2>0 DEF SolidInv
  <2>3. SolidAnswer(call'[a].answer)
    <3>1. SolidAnswer(Handle(id, o, a, objects[o].state)) /\ SolidAnswer(Refused)
      BY <2>2, SolidHandle, SolidRefused
    <3>2. call'[a].answer \in {Handle(id, o, a, objects[o].state), Refused}
      BY <2>1 DEF Answers
    <3>3. QED
      BY <3>1, <3>2
  <2>4. QED
    BY <1>1, <2>3 DEF SolidInv
<1>3. CASE call'[a].pc # "handler"
  <2>1. call'[a] = Idle \/ call'[a] = call[a]
    BY <1>3, WorksEnds
  <2>2. Idle.answer = Refused
    BY DEF Idle
  <2>3. SolidAnswer(call'[a].answer)
    BY <2>1, <2>2, SolidRefused DEF SolidInv
  <2>4. QED
    BY <1>1, <2>3 DEF SolidInv
<1>4. QED
  BY <1>2, <1>3

LEMMA TickSolid ==
  ASSUME Shapes, KnownInv, SolidInv, Tick
  PROVE  SolidInv'
<1>1. KeepsStates(Mutated)
  BY MutatedKeeps
<1>2. objects' = [o \in DOMAIN Mutated |-> [room |-> Mutated[o].room,
                                            state |-> Evolved(o, Mutated[o].state)]]
  BY DEF Tick
<1>3. PICK calls, W : Waiting(calls, W)
  BY TickWaiting
<1>4. ASSUME NEW o \in DOMAIN objects' PROVE Solid(objects'[o].state)
  <2>1. o \in DOMAIN objects /\ objects'[o].state = Evolved(o, objects[o].state)
    BY <1>1, <1>2 DEF KeepsStates
  <2>2. QED
    BY <2>1, EvolvedSolid DEF SolidInv
<1>5. ASSUME NEW b \in Agents PROVE SolidAnswer(call'[b].answer)
  <2> DEFINE c == call[b]
             e == calls[b]
             s == objects'[c.object].state
             answer == Handle(c.id, c.object, b, s)
  <2>1. CASE e = c
    <3>1. SolidAnswer(e.answer)
      BY <2>1 DEF SolidInv
    <3>2. QED
      BY <1>3, <3>1, TouchedSolid DEF Waiting
  <2>2. CASE e # c
    <3>1. e = [c EXCEPT !.answer = answer] /\ DOMAIN c = Fields
      BY <1>3, <2>2 DEF Waiting, Again, Shapes
    <3>2. SolidAnswer(answer)
      <4>1. c.object \in DOMAIN objects'
        BY <1>3, <2>2 DEF Waiting, Again
      <4>2. Solid(s)
        BY <1>4, <4>1
      <4> HIDE DEF c, s
      <4>3. QED
        BY <4>2, SolidHandle
    <3>3. e.answer = answer
      <4> HIDE DEF c, e, answer
      <4>1. QED
        BY <3>1 DEF Fields
    <3>4. QED
      BY <1>3, <3>2, <3>3, TouchedSolid DEF Waiting
  <2>3. QED
    BY <2>1, <2>2
<1>6. QED
  BY <1>4, <1>5 DEF SolidInv

LEMMA SolidNext ==
  ASSUME Shapes, KnownInv, SolidInv, [Next]_vars
  PROVE  SolidInv'
<1>1. CASE Propose \/ UNCHANGED vars
  <2>1. UNCHANGED <<objects, call>>
    BY <1>1 DEF Propose, vars, agency, world
  <2>2. QED
    BY <2>1 DEF SolidInv
<1>2. QED
  BY <1>1, WorksSolid, SettleSolid, TickSolid DEF Next, Works

LEMMA SolidInit ==
  ASSUME OfCatalog(Scene), Init
  PROVE  SolidInv
<1>1. ASSUME NEW o \in DOMAIN objects PROVE Solid(objects[o].state)
  <2>1. o \in Ids /\ objects[o].state = Static(o).state
    BY DEF Init, Fresh
  <2>2. QED
    BY <2>1, StaticIs DEF OfCatalog
<1>2. \A a \in Agents : call[a].answer = Refused
  BY DEF Init, Idle
<1>3. QED
  BY <1>1, <1>2, SolidRefused DEF SolidInv
\* What a conditional affordance promises in state s of object o.
OfferKept(f, o, s) ==
  LET answer == Handle(f.id, o, "", s)
  IN  answer.ok /\ (f.effects # Nothing => answer.gain = f.effects)

\* The affordances that are offered under a condition, with what they give.
ConditionalOf(id, effects, when) == {f \in Conditional : f.id = id /\ f.effects = effects
                                                          /\ f.conditions = when}

LEMMA AffIs ==
  ASSUME NEW id, NEW needs, NEW effects, NEW when
  PROVE  /\ Aff(id, needs, effects, when).id = id
         /\ Aff(id, needs, effects, when).effects = effects
         /\ Aff(id, needs, effects, when).conditions = when
BY DEF Aff

LEMMA TowardIs ==
  ASSUME NEW id, NEW needs, NEW effects, NEW when, NEW drive
  PROVE  /\ Toward(Aff(id, needs, effects, when), drive).id = id
         /\ Toward(Aff(id, needs, effects, when), drive).effects = effects
         /\ Toward(Aff(id, needs, effects, when), drive).conditions = when
BY DEF Toward, Aff

LEMMA ConditionalAre ==
  ASSUME NEW f \in Conditional, f.conditions # {}
  PROVE  \/ f \in ConditionalOf("water_plants", [curiosity |-> 10, comfort |-> 5],
                                {Is("water_level", ">", 0)})
         \/ f \in ConditionalOf("harvest", [curiosity |-> 10, comfort |-> 5],
                                {Is("seeds_planted", ">=", 3)})
         \/ f \in ConditionalOf("eat", [hunger |-> 25], {Is("vegetables", ">=", 1)})
         \/ f \in ConditionalOf("add_water", Nothing, {Is("water_level", "<", 5 * Whole)})
         \/ f \in ConditionalOf("brew_coffee", [energy |-> 20],
                                {Is("water_level", ">", 0), Is("bean_count", ">", 0)})
         \/ f \in ConditionalOf("read_book", [curiosity |-> 20, energy |-> -10],
                                {Is("book_count", ">", 0)})
         \/ f \in ConditionalOf("observe_flowers", [curiosity |-> 10, comfort |-> 5],
                                {Is("bloom_count", ">", 0)})
<1>1. CASE f \in Planter.affordances
  <2>1. Planter.affordances =
          {Observe, Toward(Plain("plant_seeds"), "hunger"),
           Aff("water_plants", {}, [curiosity |-> 10, comfort |-> 5], {Is("water_level", ">", 0)}),
           Toward(Aff("harvest", {}, [curiosity |-> 10, comfort |-> 5],
                      {Is("seeds_planted", ">=", 3)}), "hunger"),
           Aff("eat", {}, [hunger |-> 25], {Is("vegetables", ">=", 1)})}
    BY DEF Planter, MakeObject
  <2>2. QED
    BY <1>1, <2>1, AffIs, TowardIs DEF Observe, Plain, ConditionalOf
<1>2. CASE f \in CoffeeMachine.affordances
  <2>1. CoffeeMachine.affordances =
          {Observe, Aff("add_water", {}, Nothing, {Is("water_level", "<", 5 * Whole)}),
           Aff("brew_coffee", {"has_water", "has_beans"}, [energy |-> 20],
               {Is("water_level", ">", 0), Is("bean_count", ">", 0)}),
           Aff("pour_cup", {"has_cups"}, [comfort |-> 5], {})}
    BY DEF CoffeeMachine, MakeObject
  <2>2. QED
    BY <1>2, <2>1, AffIs DEF Observe, Plain, ConditionalOf
<1>3. CASE f \in Bookshelf.affordances
  <2>1. Bookshelf.affordances =
          {Observe, Aff("read_book", {"has_books"}, [curiosity |-> 20, energy |-> -10],
                        {Is("book_count", ">", 0)})}
    BY DEF Bookshelf, MakeObject
  <2>2. QED
    BY <1>3, <2>1, AffIs DEF Observe, Plain, ConditionalOf
<1>4. CASE f \in FlowerBed.affordances
  <2>1. FlowerBed.affordances =
          {Observe, Aff("observe_flowers", {"has_blooms"}, [curiosity |-> 10, comfort |-> 5],
                        {Is("bloom_count", ">", 0)})}
    BY DEF FlowerBed, MakeObject
  <2>2. QED
    BY <1>4, <2>1, AffIs DEF Observe, Plain, ConditionalOf
<1>5. QED
  BY <1>1, <1>2, <1>3, <1>4 DEF Conditional

LEMMA ConditionMet ==
  ASSUME NEW s, Solid(s), NEW C, EvaluateConditions(s, C), NEW f \in Quantities
  PROVE  /\ Is(f, ">", 0) \in C => Read(s, f) > 0
         /\ Is(f, ">=", 1) \in C => Read(s, f) >= 1
         /\ Is(f, ">=", 3) \in C => Read(s, f) >= 3
<1>1. ASSUME NEW op, NEW v, Is(f, op, v) \in C
      PROVE  f \in DOMAIN s /\ EvaluateSingle(s[f], op, v)
  BY <1>1 DEF EvaluateConditions, Is
<1>2. f \in DOMAIN s => Read(s, f) = s[f]
  BY DEF Read
<1>3. QED
  BY <1>1, <1>2 DEF EvaluateSingle

\* The answer n is that the affordance succeeded and gives g.
GivesBack(n, g) == n.ok = TRUE /\ n.gain = g

LEMMA BecameGives ==
  ASSUME NEW s, NEW g
  PROVE  GivesBack(Became(s, g), g)
BY DEF GivesBack, Became, Accepted, Refused

LEMMA UsesGives ==
  ASSUME NEW s, NEW f, Read(s, f) \in Int, Read(s, f) > 0, NEW n, NEW g
  PROVE  GivesBack(UsesUp(s, f, n, g), g)
<1>1. PICK t : UsesUp(s, f, n, g) = Became(t, g)
  BY DEF UsesUp
<1>2. QED
  BY <1>1, BecameGives

LEMMA KeptIfGiven ==
  ASSUME NEW f, NEW o, NEW s, GivesBack(Handle(f.id, o, "", s), f.effects)
  PROVE  OfferKept(f, o, s)
BY DEF GivesBack, OfferKept

\* Who carries the conditional affordances out.
LEMMA ConditionalHandlers ==
  ASSUME NEW o, NEW s
  PROVE  /\ Handle("add_water", o, "", s) = Appliance("add_water", s)
         /\ Handle("brew_coffee", o, "", s) = Appliance("brew_coffee", s)
         /\ Handle("read_book", o, "", s) = Furniture("read_book", s)
         /\ Handle("observe_flowers", o, "", s) = Nature("observe_flowers", s)
         /\ WithGarden => \A id \in {"water_plants", "plant_seeds", "harvest", "eat"} :
                            Handle(id, o, "", s) = Garden(id, s)
<1>1. \A id \in {"add_water", "brew_coffee", "read_book", "observe_flowers",
                 "water_plants", "plant_seeds", "harvest", "eat"} : RoomOf(id) = {}
  BY DEF RoomOf, GoTo
<1>2. QED
  BY <1>1 DEF Handle, GardenIds, WorkshopIds, FurnitureIds, FixtureIds, NatureIds, OfficeIds

LEMMA OffersKept ==
  ASSUME NEW f \in Conditional, f.conditions # {}, f.id \in GardenIds => WithGarden,
         NEW o, NEW s, Solid(s), EvaluateConditions(s, f.conditions)
  PROVE  OfferKept(f, o, s)
<1>1. \A q \in Quantities : Read(s, q) \in Int
  BY DEF Solid
<1>2. \A q \in Quantities :
        /\ Is(q, ">", 0) \in f.conditions => Read(s, q) > 0
        /\ Is(q, ">=", 1) \in f.conditions => Read(s, q) >= 1
        /\ Is(q, ">=", 3) \in f.conditions => Read(s, q) >= 3
  BY ConditionMet
<1>3. CASE f.id = "water_plants"
  <2> DEFINE g == [curiosity |-> 10, comfort |-> 5]
  <2>1. f.effects = g /\ Is("water_level", ">", 0) \in f.conditions
    BY <1>3, ConditionalAre DEF ConditionalOf
  <2>2. Handle(f.id, o, "", s) = Garden("water_plants", s)
    BY <1>3, ConditionalHandlers DEF GardenIds
  <2>3. Garden("water_plants", s) = UsesUp(s, "water_level", Whole, g)
    BY DEF Garden
  <2>4. Read(s, "water_level") \in Int /\ Read(s, "water_level") > 0
    BY <1>1, <1>2, <2>1 DEF Quantities
  <2> HIDE DEF g
  <2>5. GivesBack(UsesUp(s, "water_level", Whole, g), g)
    BY <2>4, UsesGives
  <2>6. QED
    BY <2>1, <2>2, <2>3, <2>5, KeptIfGiven
<1>4. CASE f.id = "harvest"
  <2> DEFINE g == [curiosity |-> 10, comfort |-> 5]
  <2>1. f.effects = g /\ Is("seeds_planted", ">=", 3) \in f.conditions
    BY <1>4, ConditionalAre DEF ConditionalOf
  <2>2. ~(Read(s, "seeds_planted") < 3)
    BY <1>1, <1>2, <2>1 DEF Quantities
  <2>3. Handle(f.id, o, "", s) = Garden("harvest", s)
    BY <1>4, ConditionalHandlers DEF GardenIds
  <2>4. PICK t : Garden("harvest", s) = Became(t, g)
    BY <2>2 DEF Garden, Harvest
  <2> HIDE DEF g
  <2>5. QED
    BY <2>1, <2>3, <2>4, BecameGives, KeptIfGiven
<1>5. CASE f.id = "eat"
  <2> DEFINE g == [hunger |-> 25]
  <2>1. f.effects = g /\ Is("vegetables", ">=", 1) \in f.conditions
    BY <1>5, ConditionalAre DEF ConditionalOf
  <2>2. Handle(f.id, o, "", s) = Garden("eat", s)
    BY <1>5, ConditionalHandlers DEF GardenIds
  <2>3. Garden("eat", s) = UsesUp(s, "vegetables", 1, g)
    BY DEF Garden
  <2>4. Read(s, "vegetables") \in Int /\ Read(s, "vegetables") > 0
    BY <1>1, <1>2, <2>1 DEF Quantities
  <2> HIDE DEF g
  <2>5. GivesBack(UsesUp(s, "vegetables", 1, g), g)
    BY <2>4, UsesGives
  <2>6. QED
    BY <2>1, <2>2, <2>3, <2>5, KeptIfGiven
<1>6. CASE f.id = "add_water"
  <2> DEFINE g == Nothing
  <2>1. f.effects = g
    BY <1>6, ConditionalAre DEF ConditionalOf
  <2>3. Handle(f.id, o, "", s) = Appliance("add_water", s)
    BY <1>6, ConditionalHandlers
  <2>4. PICK t : Appliance("add_water", s) = Became(t, g)
    BY DEF Appliance
  <2> HIDE DEF g
  <2>5. QED
    BY <2>1, <2>3, <2>4, BecameGives, KeptIfGiven
<1>7. CASE f.id = "brew_coffee"
  <2> DEFINE g == [energy |-> 20]
  <2>1. f.effects = g /\ Is("water_level", ">", 0) \in f.conditions
          /\ Is("bean_count", ">", 0) \in f.conditions
    BY <1>7, ConditionalAre DEF ConditionalOf
  <2>2. ~(Read(s, "water_level") =< 0) /\ ~(Read(s, "bean_count") =< 0)
    BY <1>1, <1>2, <2>1 DEF Quantities
  <2>3. Handle(f.id, o, "", s) = Appliance("brew_coffee", s)
    BY <1>7, ConditionalHandlers
  <2>4. PICK t : Appliance("brew_coffee", s) = Became(t, g)
    BY <2>2 DEF Appliance, BrewCoffee
  <2> HIDE DEF g
  <2>5. QED
    BY <2>1, <2>3, <2>4, BecameGives, KeptIfGiven
<1>8. CASE f.id = "read_book"
  <2> DEFINE g == [curiosity |-> 20, energy |-> -10]
  <2>1. f.effects = g /\ Is("book_count", ">", 0) \in f.conditions
    BY <1>8, ConditionalAre DEF ConditionalOf
  <2>2. Handle(f.id, o, "", s) = Furniture("read_book", s)
    BY <1>8, ConditionalHandlers
  <2>3. Furniture("read_book", s) = UsesUp(s, "book_count", 1, g)
    BY DEF Furniture
  <2>4. Read(s, "book_count") \in Int /\ Read(s, "book_count") > 0
    BY <1>1, <1>2, <2>1 DEF Quantities
  <2> HIDE DEF g
  <2>5. GivesBack(UsesUp(s, "book_count", 1, g), g)
    BY <2>4, UsesGives
  <2>6. QED
    BY <2>1, <2>2, <2>3, <2>5, KeptIfGiven
<1>9. CASE f.id = "observe_flowers"
  <2> DEFINE g == [curiosity |-> 10, comfort |-> 5]
  <2>1. f.effects = g
    BY <1>9, ConditionalAre DEF ConditionalOf
  <2>3. Handle(f.id, o, "", s) = Nature("observe_flowers", s)
    BY <1>9, ConditionalHandlers
  <2>4. PICK t : Nature("observe_flowers", s) = Became(t, g)
    BY DEF Nature
  <2> HIDE DEF g
  <2>5. QED
    BY <2>1, <2>3, <2>4, BecameGives, KeptIfGiven
<1>10. QED
  BY <1>3, <1>4, <1>5, <1>6, <1>7, <1>8, <1>9, ConditionalAre DEF ConditionalOf

\* Whatever is planted, a planter can be planted or harvested.
LEMMA PlanterOpen ==
  ASSUME NEW s, Solid(s), WithGarden, NEW o
  PROVE  \E id \in {"plant_seeds", "harvest"} : Handle(id, o, "", s).ok
<1>1. Read(s, "seeds_planted") \in Int
  BY DEF Solid, Quantities
<1>2. CASE Read(s, "seeds_planted") < 3
  <2>1. Handle("plant_seeds", o, "", s) = Garden("plant_seeds", s)
    BY ConditionalHandlers
  <2>2. PICK t, g : Garden("plant_seeds", s) = Became(t, g)
    BY <1>1, <1>2 DEF Garden, PlantSeeds, CountsUp
  <2>3. GivesBack(Became(t, g), g)
    BY BecameGives
  <2>4. Became(t, g).ok = TRUE
    BY <2>3 DEF GivesBack
  <2>5. Handle("plant_seeds", o, "", s).ok = TRUE
    BY <2>1, <2>2, <2>4
  <2>6. QED
    BY <2>5
<1>3. CASE ~(Read(s, "seeds_planted") < 3)
  <2>1. Handle("harvest", o, "", s) = Garden("harvest", s)
    BY ConditionalHandlers
  <2>2. PICK t, g : Garden("harvest", s) = Became(t, g)
    BY <1>3 DEF Garden, Harvest
  <2>3. GivesBack(Became(t, g), g)
    BY BecameGives
  <2>4. Became(t, g).ok = TRUE
    BY <2>3 DEF GivesBack
  <2>5. Handle("harvest", o, "", s).ok = TRUE
    BY <2>1, <2>2, <2>4
  <2>6. QED
    BY <2>5
<1>4. QED
  BY <1>2, <1>3

LEMMA SolidOffers ==
  ASSUME OfCatalog(Scene), KnownInv, SolidInv
  PROVE  OffersHold
<1>1. ASSUME NEW o \in DOMAIN objects, NEW f \in Available(o), f.conditions # {}
      PROVE  OfferKept(f, o, objects[o].state)
  <2>1. o \in Ids /\ Static(o) \in Scene /\ Static(o).id = o
    BY StaticIs DEF KnownInv
  <2>2. f \in Static(o).affordances /\ EvaluateConditions(objects[o].state, f.conditions)
    BY DEF Available, Affordances
  <2>3. f \in Conditional /\ (f.id \in GardenIds => WithGarden)
    BY <1>1, <2>1, <2>2 DEF OfCatalog
  <2>4. Solid(objects[o].state)
    BY DEF SolidInv
  <2>5. QED
    BY <1>1, <2>2, <2>3, <2>4, OffersKept
<1>2. ASSUME "planter-1" \in DOMAIN objects
      PROVE  \E id \in {"plant_seeds", "harvest"} :
               Handle(id, "planter-1", "", objects["planter-1"].state).ok
  <2>1. Static("planter-1") \in Scene /\ Static("planter-1").id = "planter-1"
    BY <1>2, StaticIs DEF KnownInv
  <2>2. WithGarden
    BY <2>1 DEF OfCatalog
  <2>3. Solid(objects["planter-1"].state)
    BY <1>2 DEF SolidInv
  <2>4. QED
    BY <2>2, <2>3, PlanterOpen
<1>3. QED
  BY <1>1, <1>2 DEF OffersHold, OfferKept

\* What is offered under a condition is accepted by its handler in the same
\* state and gives what it declares, and the planter can always be planted or
\* harvested, whatever the agents and the ticks did to the objects before
\* (createHandlers and PLANTER_AFFORDANCES in examples/dynamic-world.ts).
THEOREM OffersAlwaysHold ==
  ASSUME OfCatalog(Scene)
  PROVE  Spec => []OffersHold
<1>1. Init => KnownInv /\ SolidInv
  BY KnownInit, SolidInit
<1>2. Shapes /\ KnownInv /\ SolidInv /\ [Next]_vars => KnownInv' /\ SolidInv'
  BY KnownNext, SolidNext
<1>3. KnownInv /\ SolidInv => OffersHold
  BY SolidOffers
<1>4. QED
  BY <1>1, <1>2, <1>3, ShapesHold, PTL DEF Spec
-----------------------------------------------------------------------------
(* The scenes of the repository are scenes of the catalog.                 *)

LEMMA ObjectIs ==
  ASSUME NEW id, NEW room, NEW affordances, NEW state
  PROVE  /\ MakeObject(id, room, affordances, state).id = id
         /\ MakeObject(id, room, affordances, state).affordances = affordances
         /\ MakeObject(id, room, affordances, state).state = state
BY DEF MakeObject

\* What neither counts nor asks for anything.
Bare(x) == /\ x.id # "planter-1" /\ Solid(x.state)
           /\ \A f \in x.affordances : f.conditions = {}

LEMMA SolidNothing == Solid(Nothing)
BY DEF Solid, Read, Nothing

LEMMA BareObject ==
  ASSUME NEW id, id # "planter-1", NEW room, NEW affordances,
         \A f \in affordances : f.conditions = {}
  PROVE  Bare(MakeObject(id, room, affordances, Nothing))
BY ObjectIs, SolidNothing DEF Bare

LEMMA PlainIs ==
  /\ Observe.conditions = {}
  /\ \A id : Plain(id).conditions = {}
  /\ \A id, effects : Gives(id, effects).conditions = {}
BY AffIs DEF Observe, Plain, Gives

LEMMA BareDoorway ==
  ASSUME NEW id, id # "planter-1", NEW room, NEW to
  PROVE  Bare(Doorway(id, room, to))
<1>1. \A f \in {Observe} \cup {Plain(GoTo[r]) : r \in to} : f.conditions = {}
  BY PlainIs
<1>2. QED
  BY <1>1, BareObject DEF Doorway

LEMMA BareOfDynamicWorld ==
  /\ Bare(Toolbox) /\ Bare(Gate) /\ Bare(WaterButt) /\ Bare(WateringCan) /\ Bare(GardenBench)
  /\ Bare(Workbench) /\ Bare(Stool) /\ Bare(PottingTable) /\ Bare(SeedShelf)
<1>1. Bare(Toolbox)
  BY PlainIs, BareObject DEF Toolbox
<1>2. Bare(Gate)
  BY PlainIs, BareObject DEF Gate
<1>3. Bare(WaterButt)
  BY PlainIs, BareObject DEF WaterButt
<1>4. Bare(WateringCan)
  BY PlainIs, BareObject DEF WateringCan, PortableObject
<1>5. Bare(GardenBench)
  BY PlainIs, BareObject DEF GardenBench
<1>6. Bare(Workbench)
  BY PlainIs, BareObject DEF Workbench
<1>7. Bare(Stool)
  BY PlainIs, BareObject DEF Stool
<1>8. Bare(PottingTable)
  BY PlainIs, BareObject DEF PottingTable
<1>9. Bare(SeedShelf)
  BY PlainIs, BareObject DEF SeedShelf
<1>10. QED
  BY <1>1, <1>2, <1>3, <1>4, <1>5, <1>6, <1>7, <1>8, <1>9

LEMMA BareOfCoffeeShop ==
  Bare(Sink) /\ Bare(Sofa) /\ Bare(Toilet) /\ Bare(Bench)
<1>1. Bare(Sofa)
  BY PlainIs, BareObject DEF Sofa
<1>2. Bare(Toilet)
  BY PlainIs, BareObject DEF Toilet
<1>3. Bare(Bench)
  BY PlainIs, BareObject DEF Bench
<1>4. Bare(Sink)
  <2>1. /\ Sink.id = "sink-1" /\ Sink.state = [water_supply |-> 20 * Whole]
        /\ Sink.affordances = {Observe, Aff("refill_pitcher", {"has_water_supply"}, Nothing, {}),
                               Gives("wash_hands", [comfort |-> 5])}
    BY DEF Sink, MakeObject
  <2>2. Solid([water_supply |-> 20 * Whole])
    BY DEF Solid, Read, Quantities
  <2>3. QED
    BY <2>1, <2>2, PlainIs, AffIs DEF Bare
<1>5. QED
  BY <1>1, <1>2, <1>3, <1>4

\* The four objects whose affordances have conditions.
LEMMA ConditionalObjects ==
  /\ Solid(Planter.state)
  /\ Solid(CoffeeMachine.state) /\ CoffeeMachine.id # "planter-1"
  /\ Solid(Bookshelf.state) /\ Bookshelf.id # "planter-1"
  /\ Solid(FlowerBed.state) /\ FlowerBed.id # "planter-1"
<1>1. Solid(Planter.state)
  <2>1. Planter.state = [water_level |-> 5 * Whole, seeds_planted |-> 0, vegetables |-> 0]
    BY DEF Planter, MakeObject
  <2>2. QED
    BY <2>1, PartsAre DEF Solid, Read, Quantities
<1>2. Solid(CoffeeMachine.state) /\ CoffeeMachine.id # "planter-1"
  <2>1. /\ CoffeeMachine.state = [water_level |-> 5 * Whole, bean_count |-> 10, cup_count |-> 3]
        /\ CoffeeMachine.id = "coffee-1"
    BY DEF CoffeeMachine, MakeObject
  <2>2. QED
    BY <2>1, PartsAre DEF Solid, Read, Quantities
<1>3. Solid(Bookshelf.state) /\ Bookshelf.id # "planter-1"
  <2>1. Bookshelf.state = [book_count |-> 8] /\ Bookshelf.id = "bookshelf-1"
    BY DEF Bookshelf, MakeObject
  <2>2. QED
    BY <2>1 DEF Solid, Read, Quantities
<1>4. Solid(FlowerBed.state) /\ FlowerBed.id # "planter-1"
  <2>1. FlowerBed.state = [bloom_count |-> 5 * Whole] /\ FlowerBed.id = "flowerbed-1"
    BY DEF FlowerBed, MakeObject
  <2>2. QED
    BY <2>1 DEF Solid, Read, Quantities
<1>5. QED
  BY <1>1, <1>2, <1>3, <1>4

\* Which of the conditional affordances are the garden's.
LEMMA NotOfGarden ==
  ASSUME NEW f \in CoffeeMachine.affordances \cup Bookshelf.affordances \cup FlowerBed.affordances,
         f.conditions # {}
  PROVE  f.id \notin GardenIds
<1>1. CASE f \in CoffeeMachine.affordances
  <2>1. CoffeeMachine.affordances =
          {Observe, Aff("add_water", {}, Nothing, {Is("water_level", "<", 5 * Whole)}),
           Aff("brew_coffee", {"has_water", "has_beans"}, [energy |-> 20],
               {Is("water_level", ">", 0), Is("bean_count", ">", 0)}),
           Aff("pour_cup", {"has_cups"}, [comfort |-> 5], {})}
    BY DEF CoffeeMachine, MakeObject
  <2>2. QED
    BY <1>1, <2>1, AffIs, PlainIs DEF GardenIds
<1>2. CASE f \in Bookshelf.affordances
  <2>1. Bookshelf.affordances =
          {Observe, Aff("read_book", {"has_books"}, [curiosity |-> 20, energy |-> -10],
                        {Is("book_count", ">", 0)})}
    BY DEF Bookshelf, MakeObject
  <2>2. QED
    BY <1>2, <2>1, AffIs, PlainIs DEF GardenIds
<1>3. CASE f \in FlowerBed.affordances
  <2>1. FlowerBed.affordances =
          {Observe, Aff("observe_flowers", {"has_blooms"}, [curiosity |-> 10, comfort |-> 5],
                        {Is("bloom_count", ">", 0)})}
    BY DEF FlowerBed, MakeObject
  <2>2. QED
    BY <1>3, <2>1, AffIs, PlainIs DEF GardenIds
<1>4. QED
  BY <1>1, <1>2, <1>3

LEMMA CatalogScenes ==
  (WithGarden => OfCatalog(DynamicWorld)) /\ OfCatalog(CoffeeShop)
<1>1. ASSUME WithGarden, NEW x \in DynamicWorld PROVE x = Planter \/ Bare(x)
  BY <1>1, BareOfDynamicWorld, BareDoorway DEF DynamicWorld
<1>2. ASSUME NEW x \in CoffeeShop
      PROVE  x \in {CoffeeMachine, Bookshelf, FlowerBed} \/ Bare(x)
  BY <1>2, BareOfCoffeeShop, BareDoorway DEF CoffeeShop
<1>3. WithGarden => OfCatalog(DynamicWorld)
  BY <1>1, ConditionalObjects DEF OfCatalog, Bare, Conditional
<1>4. OfCatalog(CoffeeShop)
  BY <1>2, ConditionalObjects, NotOfGarden DEF OfCatalog, Bare, Conditional
<1>5. QED
  BY <1>3, <1>4

\* So it is in the two scenes of the repository: in the dynamic world with the
\* handlers it registers, and in the coffee shop.
COROLLARY ShippedOffersHold ==
  ASSUME (Scene = DynamicWorld /\ WithGarden) \/ Scene = CoffeeShop
  PROVE  Spec => []OffersHold
<1>1. OfCatalog(Scene)
  BY CatalogScenes
<1>2. QED
  BY <1>1, OffersAlwaysHold


=============================================================================
