-------------------------- MODULE SceneWorld_proofs --------------------------
(***************************************************************************)
(* Theorems about the changing scene, for every house, every inventory,    *)
(* every cast, either wiring of persistence, either way of loading, and    *)
(* whatever mutations are proposed.                                        *)
(*                                                                         *)
(* All of them say of the world what must also be true of the world of the *)
(* last save, which is what a new process starts from.  Each invariant is  *)
(* therefore a predicate of a world, kept by the application of a mutation *)
(* and by the restoration of a save; and what the log explains is kept by  *)
(* the same, since the log replayed is a world too.                        *)
(***************************************************************************)
EXTENDS SceneWorld, FiniteSetTheorems, WellFoundedInduction, TLAPS

-----------------------------------------------------------------------------
(* Mutations and worlds.                                                     *)

LEMMA EditShape ==
  ASSUME NEW e \in Edits
  PROVE  \/ e.op \in {"add", "move"} /\ e.thing \in Things /\ e.room \in Rooms
         \/ e.op = "remove" /\ e.thing \in Things
         \/ e.op \in {"spawn", "wake", "despawn"} /\ e.agent \in Agents
         \/ /\ e.op \in {"open", "close", "insert", "cut"}
            /\ e.from \in Rooms /\ e.to \in Rooms /\ e.from # e.to
BY DEF Edits

LEMMA PairInPairs ==
  ASSUME NEW a \in Rooms, NEW b \in Rooms, a # b
  PROVE  {a, b} \in Pairs
<1>1. IsFiniteSet({a}) /\ Cardinality({a}) = 1
  BY FS_Singleton
<1>2. Cardinality({a} \cup {b}) = 2
  BY <1>1, FS_AddElement
<1>3. {a} \cup {b} = {a, b}
  OBVIOUS
<1>4. QED
  BY <1>2, <1>3 DEF Pairs

LEMMA BaseIsWorld == Base \in World
BY SceneAssumption DEF Base, World

LEMMA JoinedIsWorld ==
  ASSUME NEW w \in World, NEW a \in Rooms, NEW b \in Rooms
  PROVE  Joined(w, a, b) \in World
BY DEF Joined, World

LEMMA PartedIsWorld ==
  ASSUME NEW w \in World, NEW a \in Rooms, NEW b \in Rooms
  PROVE  Parted(w, a, b) \in World
BY DEF Parted, World

LEMMA PatchedIsWorld ==
  ASSUME NEW w \in World, NEW a \in Rooms, NEW b \in Rooms
  PROVE  PatchOpen(w, a, b) \in World /\ PatchShut(w, a, b) \in World
<1>1. Doorways(w, a, b) \subseteq Things
  BY DEF Doorways
<1>2. QED
  BY <1>1 DEF PatchOpen, PatchShut, World

\* Whatever mutation is applied to a world, the result is a world.
LEMMA AppliedIsWorld ==
  ASSUME NEW w \in World, NEW e \in Edits
  PROVE  Applied(w, e) \in World
<1>1. CASE e.op = "add"
  <2>1. e.thing \in Things /\ e.room \in Rooms
    BY <1>1, EditShape
  <2>2. Added(w, e.thing, e.room) \in World
    BY <2>1 DEF Added, World
  <2>3. QED
    BY <1>1, <2>2 DEF Applied
<1>2. CASE e.op = "remove"
  <2>1. e.thing \in Things
    BY <1>2, EditShape
  <2>2. Removed(w, e.thing) \in World
    BY <2>1 DEF Removed, World
  <2>3. QED
    BY <1>2, <2>2 DEF Applied
<1>3. CASE e.op = "move"
  <2>1. e.thing \in Things /\ e.room \in Rooms
    BY <1>3, EditShape
  <2>2. Moved(w, e.thing, e.room) \in World
    BY <2>1 DEF Moved, World
  <2>3. QED
    BY <1>3, <2>2 DEF Applied
<1>4. CASE e.op \in {"spawn", "wake", "despawn"}
  <2>1. e.agent \in Agents
    BY <1>4, EditShape
  <2>2. /\ Spawned(w, e.agent) \in World
        /\ Woken(w, e.agent) \in World
        /\ Despawned(w, e.agent) \in World
    BY <2>1 DEF Spawned, Woken, Despawned, World
  <2>3. QED
    BY <1>4, <2>2 DEF Applied
<1>5. CASE e.op \in {"open", "close", "insert", "cut"}
  <2>1. e.from \in Rooms /\ e.to \in Rooms /\ e.from # e.to
    BY <1>5, EditShape
  <2> DEFINE J == Joined(w, e.from, e.to)
             P == Parted(w, e.from, e.to)
  <2>2. J \in World /\ P \in World
    BY <2>1, JoinedIsWorld, PartedIsWorld
  <2>3. {e.from, e.to} \in Pairs
    BY <2>1, PairInPairs
  <2>4. /\ [J EXCEPT !.closed = @ \ {{e.from, e.to}}] \in World
        /\ [P EXCEPT !.closed = @ \cup {{e.from, e.to}}] \in World
        /\ [P EXCEPT !.closed = @ \ {{e.from, e.to}}] \in World
    BY <2>2, <2>3 DEF World
  <2>5. /\ SetOpen(w, e.from, e.to) \in World
        /\ SetClosed(w, e.from, e.to) \in World
        /\ Cut(w, e.from, e.to) \in World
    BY <2>1, <2>4, PatchedIsWorld DEF SetOpen, SetClosed, Cut
  <2>6. QED
    BY <1>5, <2>2, <2>5 DEF Applied
<1>6. QED
  BY <1>1, <1>2, <1>3, <1>4, <1>5, EditShape

\* What is made of a world and the last save is a world.
LEMMA RestoredIsWorld ==
  ASSUME TypeOK, NEW w \in World
  PROVE  Restored(w) \in World /\ WithDormant(Restored(w)) \in World
<1>1. saved.world \in World
  BY DEF TypeOK, Save
<1>2. Restored(w) \in World
  BY <1>1 DEF Restored, World
<1>3. QED
  BY <1>1, <1>2 DEF WithDormant, World

LEMMA NextAfterIsNat ==
  ASSUME NEW events \in Seq(Events)
  PROVE  NextAfter(events) \in Nat
<1>1. CASE events = <<>>
  BY <1>1 DEF NextAfter
<1>2. CASE events # <<>>
  <2>1. events[Len(events)] \in Events
    BY <1>2
  <2>2. QED
    BY <1>2, <2>1 DEF NextAfter, Events
<1>3. QED
  BY <1>1, <1>2

Bounds == [saves : 0..MaxSaves, loads : 0..MaxLoads, bare : BOOLEAN]

LEMMA LoadIsCounted ==
  ASSUME NEW s \in Bounds, s.loads < MaxLoads, NEW b \in BOOLEAN
  PROVE  [s EXCEPT !.loads = @ + 1, !.bare = b] \in Bounds
<1>1. s.loads + 1 \in 0..MaxLoads
  BY UseAssumption DEF Bounds
<1>2. QED
  BY <1>1 DEF Bounds

-----------------------------------------------------------------------------
(* Type correctness.                                                         *)

LEMMA InitType == Init => TypeOK
<1> SUFFICES ASSUME Init PROVE TypeOK
  OBVIOUS
<1>1. NoSave \in Save
  BY BaseIsWorld DEF NoSave, Save
<1>2. bound \in BOOLEAN
  BY UseAssumption DEF Init
<1>3. QED
  BY <1>1, <1>2, BaseIsWorld, UseAssumption DEF Init, TypeOK

LEMMA NextType == TypeOK /\ [Next]_vars => TypeOK'
<1> SUFFICES ASSUME TypeOK, [Next]_vars PROVE TypeOK'
  OBVIOUS
<1> USE UseAssumption
<1>1. ASSUME NEW e \in Proposable, Propose(e) PROVE TypeOK'
  <2>1. e \in Edits
    BY UseAssumption
  <2>2. QED
    BY <1>1, <2>1 DEF Propose, TypeOK
<1>2. CASE Tick
  BY <1>2 DEF Tick, TypeOK, queueVars
<1>3. CASE ApplyNext
  <2> DEFINE e == Head(pending)
  <2>1. e \in Edits /\ Tail(pending) \in Seq(Edits)
    BY <1>3 DEF ApplyNext, TypeOK
  <2>2. Applied(world, e) \in World
    BY <2>1, AppliedIsWorld DEF TypeOK
  <2>3. [seq |-> nextSeq, edit |-> e] \in Events
    BY <2>1 DEF Events, TypeOK
  <2>4. Append(log, [seq |-> nextSeq, edit |-> e]) \in Seq(Events) /\ nextSeq + 1 \in Nat
    BY <2>3 DEF TypeOK
  <2>5. world' \in World /\ log' \in Seq(Events) /\ nextSeq' \in Nat
    BY <1>3, <2>2, <2>4 DEF ApplyNext, TypeOK
  <2>6. pending' \in Seq(Edits) /\ phase' \in {"between", "tick", "thrown"}
    BY <1>3, <2>1 DEF ApplyNext
  <2>7. QED
    BY <1>3, <2>5, <2>6 DEF ApplyNext, TypeOK
<1>4. CASE SaveState
  <2>1. HasDynamicState \in BOOLEAN
    BY DEF HasDynamicState
  <2>2. saved' \in Save
    BY <1>4, <2>1 DEF SaveState, TypeOK, Save
  <2>3. spent' \in [saves : 0..MaxSaves, loads : 0..MaxLoads, bare : BOOLEAN]
    BY <1>4 DEF SaveState, TypeOK
  <2>4. QED
    BY <1>4, <2>2, <2>3 DEF SaveState, TypeOK, queueVars
<1>5. CASE Restart
  <2>1. world' \in World
    BY <1>5, RestoredIsWorld, BaseIsWorld DEF Restart
  <2>2. log' \in Seq(Events)
    BY <1>5 DEF Restart, TypeOK, Save
  <2>3. nextSeq' \in Nat
    BY <1>5, <2>2, NextAfterIsNat DEF Restart
  <2>4. spent' \in Bounds
    <3>1. spent' = [spent EXCEPT !.loads = @ + 1, !.bare = saved.bare] /\ spent.loads < MaxLoads
      BY <1>5 DEF Restart
    <3>2. spent \in Bounds /\ saved.bare \in BOOLEAN
      BY DEF TypeOK, Bounds, Save
    <3>3. QED
      BY <3>1, <3>2, LoadIsCounted
  <2>5. QED
    BY <1>5, <2>1, <2>2, <2>3, <2>4 DEF Restart, TypeOK, Bounds
<1>6. CASE LoadInPlace
  <2>1. world' \in World
    BY <1>6, RestoredIsWorld DEF LoadInPlace, TypeOK
  <2>2. saved.log \in Seq(Events) /\ saved.dynamic \in BOOLEAN
    BY DEF TypeOK, Save
  <2>3. log' \in Seq(Events) /\ nextSeq' \in Nat /\ pending' \in Seq(Edits)
    <3>1. CASE saved.dynamic
      <4>1. log' = saved.log /\ nextSeq' = NextAfter(saved.log) /\ pending' = <<>>
        BY <1>6, <3>1 DEF LoadInPlace
      <4>2. QED
        BY <2>2, <4>1, NextAfterIsNat
    <3>2. CASE ~saved.dynamic
      BY <1>6, <3>2 DEF LoadInPlace, TypeOK, queueVars
    <3>3. QED
      BY <3>1, <3>2
  <2>4. spent' \in Bounds
    <3> DEFINE b == ~saved.dynamic \/ saved.bare
    <3>1. spent' = [spent EXCEPT !.loads = @ + 1, !.bare = b] /\ spent.loads < MaxLoads
      BY <1>6 DEF LoadInPlace
    <3>2. spent \in Bounds /\ b \in BOOLEAN
      BY DEF TypeOK, Bounds, Save
    <3> HIDE DEF b
    <3>3. QED
      BY <3>1, <3>2, LoadIsCounted
  <2>5. QED
    BY <1>6, <2>1, <2>3, <2>4 DEF LoadInPlace, TypeOK, Bounds
<1>7. CASE UNCHANGED vars
  BY <1>7 DEF vars, queueVars, TypeOK
<1>8. QED
  BY <1>1, <1>2, <1>3, <1>4, <1>5, <1>6, <1>7 DEF Next

(* Every value stays of its type: a mutation applied to a world, and a save  *)
(* put into one, give a world.                                               *)
THEOREM TypeCorrect == Spec => []TypeOK
BY InitType, NextType, PTL DEF Spec

-----------------------------------------------------------------------------
(* Connections.  An invariant of worlds: two-sided adjacency, and nothing    *)
(* open and closed at once.  Validation plays no part in it, the exceptions  *)
(* of the scene manager do: a connection is inserted only where none is.     *)

Sided(w) ==
  \A a, b \in Rooms :
    /\ b \in w.exits[a] <=> a \in w.exits[b]
    /\ {a, b} \in w.closed => b \notin w.exits[a]

LEMMA BaseIsSided == Sided(Base)
<1> SUFFICES ASSUME NEW a \in Rooms, NEW b \in Rooms
             PROVE  b \in Base.exits[a] <=> a \in Base.exits[b]
  BY DEF Sided, Base
<1>1. {a, b} = {b, a}
  OBVIOUS
<1>2. QED
  BY <1>1 DEF Base

\* Patching doorways and moving objects and agents about changes no connection.
LEMMA SidedLooksAtConnections ==
  ASSUME NEW v, NEW w, Sided(v), w.exits = v.exits, w.closed = v.closed
  PROVE  Sided(w)
BY DEF Sided

LEMMA RecloseIsWorld ==
  ASSUME NEW u \in World, NEW shut \in SUBSET Pairs
  PROVE  [u EXCEPT !.closed = shut] \in World
BY DEF World

LEMMA SetOpenKeepsSided ==
  ASSUME NEW w \in World, Sided(w), NEW a \in Rooms, NEW b \in Rooms, a # b
  PROVE  Sided(SetOpen(w, a, b))
<1> DEFINE v == IF Linked(w, a, b) THEN w ELSE [Joined(w, a, b) EXCEPT !.closed = @ \ {{a, b}}]
<1>1. Sided(v)
  <2>1. CASE Linked(w, a, b)
    BY <2>1
  <2>2. CASE ~Linked(w, a, b)
    <3>1. v.closed = w.closed \ {{a, b}}
      BY <2>2 DEF Joined, World
    <3>2. \A c \in Rooms : v.exits[c] = (IF c = a THEN w.exits[a] \cup {b}
                                         ELSE IF c = b THEN w.exits[b] \cup {a} ELSE w.exits[c])
      BY <2>2 DEF Joined, World
    <3>3. SUFFICES ASSUME NEW c \in Rooms, NEW d \in Rooms
                   PROVE  /\ d \in v.exits[c] <=> c \in v.exits[d]
                          /\ {c, d} \in v.closed => d \notin v.exits[c]
      BY DEF Sided
    <3>4. d \in v.exits[c] <=> d \in w.exits[c] \/ (c = a /\ d = b) \/ (c = b /\ d = a)
      BY <3>2
    <3>5. c \in v.exits[d] <=> c \in w.exits[d] \/ (d = a /\ c = b) \/ (d = b /\ c = a)
      BY <3>2
    <3>6. (c = a /\ d = b) \/ (c = b /\ d = a) => {c, d} = {a, b}
      OBVIOUS
    <3>7. QED
      BY <3>1, <3>4, <3>5, <3>6 DEF Sided
  <2>3. QED
    BY <2>1, <2>2
<1>2. v \in World
  <2>1. Joined(w, a, b) \in World
    BY JoinedIsWorld
  <2>2. Joined(w, a, b).closed \ {{a, b}} \in SUBSET Pairs
    BY <2>1 DEF World
  <2>3. [Joined(w, a, b) EXCEPT !.closed = Joined(w, a, b).closed \ {{a, b}}] \in World
    BY <2>1, <2>2, RecloseIsWorld
  <2>4. QED
    BY <2>3
<1>3. SetOpen(w, a, b) = PatchOpen(v, a, b)
  BY DEF SetOpen
<1>4. PatchOpen(v, a, b).exits = v.exits /\ PatchOpen(v, a, b).closed = v.closed
  BY <1>2 DEF PatchOpen, World
<1>5. QED
  BY <1>1, <1>3, <1>4, SidedLooksAtConnections

LEMMA PartedKeepsSided ==
  ASSUME NEW w \in World, Sided(w), NEW a \in Rooms, NEW b \in Rooms, a # b,
         NEW shut \in SUBSET Pairs, shut \subseteq w.closed \cup {{a, b}}
  PROVE  Sided([Parted(w, a, b) EXCEPT !.closed = shut])
<1> DEFINE v == [Parted(w, a, b) EXCEPT !.closed = shut]
<1>1. v.closed = shut
  BY DEF Parted, World
<1>2. \A c \in Rooms : v.exits[c] = (IF c = a THEN w.exits[a] \ {b}
                                     ELSE IF c = b THEN w.exits[b] \ {a} ELSE w.exits[c])
  BY DEF Parted, World
<1>3. SUFFICES ASSUME NEW c \in Rooms, NEW d \in Rooms
               PROVE  /\ d \in v.exits[c] <=> c \in v.exits[d]
                      /\ {c, d} \in v.closed => d \notin v.exits[c]
  BY DEF Sided
<1>4. d \in v.exits[c] <=> d \in w.exits[c] /\ ~(c = a /\ d = b) /\ ~(c = b /\ d = a)
  BY <1>2
<1>5. c \in v.exits[d] <=> c \in w.exits[d] /\ ~(d = a /\ c = b) /\ ~(d = b /\ c = a)
  BY <1>2
<1>6. {c, d} = {a, b} => (c = a /\ d = b) \/ (c = b /\ d = a)
  OBVIOUS
<1>7. QED
  BY <1>1, <1>4, <1>5, <1>6 DEF Sided

LEMMA SetClosedKeepsSided ==
  ASSUME NEW w \in World, Sided(w), NEW a \in Rooms, NEW b \in Rooms, a # b
  PROVE  Sided(SetClosed(w, a, b))
<1> DEFINE shut == w.closed \cup {{a, b}}
           v == IF Linked(w, a, b) THEN [Parted(w, a, b) EXCEPT !.closed = shut] ELSE w
<1>1. shut \in SUBSET Pairs /\ shut \subseteq w.closed \cup {{a, b}}
  BY PairInPairs DEF World
<1>2. Sided([Parted(w, a, b) EXCEPT !.closed = shut])
  BY <1>1, PartedKeepsSided
<1>3. Sided(v)
  BY <1>2
<1>4. v \in World
  <2>1. Parted(w, a, b) \in World
    BY PartedIsWorld
  <2>2. [Parted(w, a, b) EXCEPT !.closed = shut] \in World
    BY <1>1, <2>1, RecloseIsWorld
  <2>3. QED
    BY <2>2
<1>5. Parted(w, a, b).closed = w.closed
  BY DEF Parted, World
<1>6. SetClosed(w, a, b) = PatchShut(v, a, b)
  BY <1>5 DEF SetClosed
<1>7. PatchShut(v, a, b).exits = v.exits /\ PatchShut(v, a, b).closed = v.closed
  BY <1>4 DEF PatchShut, World
<1>8. QED
  BY <1>3, <1>6, <1>7, SidedLooksAtConnections

LEMMA CutKeepsSided ==
  ASSUME NEW w \in World, Sided(w), NEW a \in Rooms, NEW b \in Rooms, a # b
  PROVE  Sided(Cut(w, a, b))
<1> DEFINE shut == w.closed \ {{a, b}}
           v == [Parted(w, a, b) EXCEPT !.closed = shut]
<1>1. shut \in SUBSET Pairs /\ shut \subseteq w.closed \cup {{a, b}}
  BY DEF World
<1>2. Sided(v)
  BY <1>1, PartedKeepsSided
<1>3. v \in World
  <2>1. Parted(w, a, b) \in World
    BY PartedIsWorld
  <2>2. QED
    BY <1>1, <2>1, RecloseIsWorld
<1>4. Parted(w, a, b).closed = w.closed
  BY DEF Parted, World
<1>5. Cut(w, a, b) = PatchShut(v, a, b)
  BY <1>4 DEF Cut
<1>6. PatchShut(v, a, b).exits = v.exits /\ PatchShut(v, a, b).closed = v.closed
  BY <1>3 DEF PatchShut, World
<1>7. QED
  BY <1>2, <1>5, <1>6, SidedLooksAtConnections

LEMMA JoinedKeepsSided ==
  ASSUME NEW w \in World, Sided(w), NEW a \in Rooms, NEW b \in Rooms, a # b, ~Shut(w, a, b)
  PROVE  Sided(Joined(w, a, b))
<1> DEFINE v == Joined(w, a, b)
<1>1. v.closed = w.closed
  BY DEF Joined, World
<1>2. \A c \in Rooms : v.exits[c] = (IF c = a THEN w.exits[a] \cup {b}
                                     ELSE IF c = b THEN w.exits[b] \cup {a} ELSE w.exits[c])
  BY DEF Joined, World
<1>3. SUFFICES ASSUME NEW c \in Rooms, NEW d \in Rooms
               PROVE  /\ d \in v.exits[c] <=> c \in v.exits[d]
                      /\ {c, d} \in v.closed => d \notin v.exits[c]
  BY DEF Sided
<1>4. d \in v.exits[c] <=> d \in w.exits[c] \/ (c = a /\ d = b) \/ (c = b /\ d = a)
  BY <1>2
<1>5. c \in v.exits[d] <=> c \in w.exits[d] \/ (d = a /\ c = b) \/ (d = b /\ c = a)
  BY <1>2
<1>6. (c = a /\ d = b) \/ (c = b /\ d = a) => {c, d} = {a, b}
  OBVIOUS
<1>7. QED
  BY <1>1, <1>4, <1>5, <1>6 DEF Sided, Shut

LEMMA AppliedKeepsSided ==
  ASSUME NEW w \in World, Sided(w), NEW e \in Edits, ~Throws(w, e)
  PROVE  Sided(Applied(w, e))
<1>1. CASE e.op \in {"add", "remove", "move"}
  <2>1. Applied(w, e).exits = w.exits /\ Applied(w, e).closed = w.closed
    BY <1>1 DEF Applied, Added, Removed, Moved, World
  <2>2. QED
    BY <2>1, SidedLooksAtConnections
<1>2. CASE e.op \in {"spawn", "wake", "despawn"}
  <2>1. Applied(w, e).exits = w.exits /\ Applied(w, e).closed = w.closed
    BY <1>2 DEF Applied, Spawned, Woken, Despawned, World
  <2>2. QED
    BY <2>1, SidedLooksAtConnections
<1>3. CASE e.op \in {"open", "close", "insert", "cut"}
  <2>1. e.from \in Rooms /\ e.to \in Rooms /\ e.from # e.to
    BY <1>3, EditShape
  <2>2. e.op = "insert" => ~Shut(w, e.from, e.to)
    BY DEF Throws
  <2>3. QED
    BY <1>3, <2>1, <2>2, SetOpenKeepsSided, SetClosedKeepsSided, CutKeepsSided, JoinedKeepsSided
    DEF Applied
<1>4. QED
  BY <1>1, <1>2, <1>3, EditShape

LEMMA RestoredKeepsSided ==
  ASSUME TypeOK, Sided(saved.world), NEW w \in World, Sided(w)
  PROVE  Sided(Restored(w)) /\ Sided(WithDormant(Restored(w)))
<1>1. Sided(Restored(w))
  BY DEF Restored, Sided, World
<1>2. /\ WithDormant(Restored(w)).exits = Restored(w).exits
      /\ WithDormant(Restored(w)).closed = Restored(w).closed
  BY RestoredIsWorld DEF WithDormant, World
<1>3. QED
  BY <1>1, <1>2, SidedLooksAtConnections

SidedInv == Sided(world) /\ Sided(saved.world)

LEMMA NextSided == TypeOK /\ SidedInv /\ [Next]_vars => SidedInv'
<1> SUFFICES ASSUME TypeOK, SidedInv, [Next]_vars PROVE SidedInv'
  OBVIOUS
<1>1. ASSUME NEW e \in Proposable, Propose(e) PROVE SidedInv'
  BY <1>1 DEF Propose, SidedInv, Sided
<1>2. CASE Tick
  BY <1>2 DEF Tick, SidedInv, Sided
<1>3. CASE ApplyNext
  <2>1. Head(pending) \in Edits
    BY <1>3 DEF ApplyNext, TypeOK
  <2>2. CASE Throws(world, Head(pending))
    BY <1>3, <2>2 DEF ApplyNext, SidedInv, Sided
  <2>3. CASE ~Throws(world, Head(pending))
    <3>1. world' = Applied(world, Head(pending)) /\ saved' = saved
      BY <1>3, <2>3 DEF ApplyNext
    <3>2. Sided(Applied(world, Head(pending)))
      BY <2>1, <2>3, AppliedKeepsSided DEF TypeOK, SidedInv
    <3>3. QED
      BY <3>1, <3>2 DEF SidedInv, Sided
  <2>4. QED
    BY <2>2, <2>3
<1>4. CASE SaveState
  BY <1>4 DEF SaveState, SidedInv, Sided
<1>5. CASE Restart
  <2>1. Sided(Restored(Base)) /\ Sided(WithDormant(Restored(Base)))
    BY BaseIsWorld, BaseIsSided, RestoredKeepsSided DEF SidedInv
  <2>2. saved' = saved /\ world' \in {Base, Restored(Base), WithDormant(Restored(Base))}
    BY <1>5 DEF Restart
  <2>3. QED
    BY <2>1, <2>2, BaseIsSided DEF SidedInv, Sided
<1>6. CASE LoadInPlace
  <2>1. Sided(Restored(world)) /\ Sided(WithDormant(Restored(world)))
    BY RestoredKeepsSided DEF SidedInv, TypeOK
  <2>2. saved' = saved /\ world' \in {Restored(world), WithDormant(Restored(world))}
    BY <1>6 DEF LoadInPlace
  <2>3. QED
    BY <2>1, <2>2 DEF SidedInv, Sided
<1>7. CASE UNCHANGED vars
  BY <1>7 DEF vars, SidedInv, Sided
<1>8. QED
  BY <1>1, <1>2, <1>3, <1>4, <1>5, <1>6, <1>7 DEF Next

(* A connection can be walked both ways or not at all, and none is open and  *)
(* closed at once.                                                           *)
THEOREM ConnectionsTwoSided == Spec => []TwoSided
<1>1. Init => SidedInv
  BY BaseIsSided DEF Init, SidedInv, NoSave
<1>2. SidedInv => TwoSided
  BY DEF SidedInv, Sided, TwoSided
<1>3. QED
  BY <1>1, <1>2, NextSided, InitType, NextType, PTL DEF Spec

-----------------------------------------------------------------------------
(* Agents.  Despawning and waking move an agent between two stores, which is *)
(* why neither store alone is an invariant; and a save without a dynamic     *)
(* part brings no dormant agents back, so it must have had none.             *)

Kept(w) == Cast \subseteq w.active \cup w.dormant

KeptInv ==
  /\ Kept(world) /\ Kept(saved.world)
  /\ ~saved.dynamic => saved.world.dormant = {}

LEMMA AppliedKeepsAgents ==
  ASSUME NEW w \in World, Kept(w), NEW e \in Edits
  PROVE  Kept(Applied(w, e))
<1>1. CASE e.op \in {"add", "remove", "move"}
  <2>1. Applied(w, e).active = w.active /\ Applied(w, e).dormant = w.dormant
    BY <1>1 DEF Applied, Added, Removed, Moved, World
  <2>2. QED
    BY <2>1 DEF Kept
<1>2. CASE e.op \in {"spawn", "wake", "despawn"}
  <2>1. w.active \cup w.dormant \subseteq Applied(w, e).active \cup Applied(w, e).dormant
    BY <1>2 DEF Applied, Spawned, Woken, Despawned, World
  <2>2. QED
    BY <2>1 DEF Kept
<1>3. CASE e.op \in {"open", "close"}
  <2>1. Applied(w, e).active = w.active /\ Applied(w, e).dormant = w.dormant
    BY <1>3 DEF Applied, SetOpen, SetClosed, PatchOpen, PatchShut, Joined, Parted, World
  <2>2. QED
    BY <2>1 DEF Kept
<1>4. CASE e.op \in {"insert", "cut"}
  <2>1. Applied(w, e).active = w.active /\ Applied(w, e).dormant = w.dormant
    BY <1>4 DEF Applied, Cut, PatchShut, Joined, Parted, World
  <2>2. QED
    BY <2>1 DEF Kept
<1>5. QED
  BY <1>1, <1>2, <1>3, <1>4, EditShape

\* What a save is put into has the agents of the save.
LEMMA RestoredKeepsAgents ==
  ASSUME TypeOK, Kept(saved.world), NEW w \in World
  PROVE  /\ Kept(WithDormant(Restored(w)))
         /\ saved.world.dormant = {} => Kept(Restored(w))
<1>1. Restored(w) \in World /\ Restored(w).active = saved.world.active
  BY RestoredIsWorld DEF Restored, World
<1>2. /\ WithDormant(Restored(w)).active = saved.world.active
      /\ WithDormant(Restored(w)).dormant = saved.world.dormant
  BY <1>1 DEF WithDormant, World
<1>3. QED
  BY <1>1, <1>2 DEF Kept

LEMMA NextKept == TypeOK /\ KeptInv /\ [Next]_vars => KeptInv'
<1> SUFFICES ASSUME TypeOK, KeptInv, [Next]_vars PROVE KeptInv'
  OBVIOUS
<1>1. ASSUME NEW e \in Proposable, Propose(e) PROVE KeptInv'
  BY <1>1 DEF Propose, KeptInv, Kept
<1>2. CASE Tick
  BY <1>2 DEF Tick, KeptInv, Kept
<1>3. CASE ApplyNext
  <2>1. Head(pending) \in Edits
    BY <1>3 DEF ApplyNext, TypeOK
  <2>2. saved' = saved /\ world' \in {world, Applied(world, Head(pending))}
    BY <1>3 DEF ApplyNext
  <2>3. Kept(Applied(world, Head(pending)))
    BY <2>1, AppliedKeepsAgents DEF TypeOK, KeptInv
  <2>4. QED
    BY <2>2, <2>3 DEF KeptInv, Kept
<1>4. CASE SaveState
  <2>1. saved'.world = world /\ saved'.dynamic = HasDynamicState /\ world' = world
    BY <1>4 DEF SaveState
  <2>2. ~HasDynamicState => world.dormant = {}
    BY DEF HasDynamicState
  <2>3. QED
    BY <2>1, <2>2 DEF KeptInv, Kept
<1>5. CASE Restart
  <2>1. Kept(Base)
    BY DEF Kept, Base
  <2>2. Kept(WithDormant(Restored(Base))) /\ (~saved.dynamic => Kept(Restored(Base)))
    BY BaseIsWorld, RestoredKeepsAgents DEF KeptInv
  <2>3. /\ saved' = saved
        /\ world' = IF ~saved.valid THEN Base
                    ELSE IF saved.dynamic THEN WithDormant(Restored(Base)) ELSE Restored(Base)
    BY <1>5 DEF Restart
  <2>4. QED
    BY <2>1, <2>2, <2>3 DEF KeptInv, Kept
<1>6. CASE LoadInPlace
  <2>1. Kept(WithDormant(Restored(world))) /\ (~saved.dynamic => Kept(Restored(world)))
    BY RestoredKeepsAgents DEF KeptInv, TypeOK
  <2>2. /\ saved' = saved
        /\ world' = IF saved.dynamic THEN WithDormant(Restored(world)) ELSE Restored(world)
    BY <1>6 DEF LoadInPlace
  <2>3. QED
    BY <2>1, <2>2 DEF KeptInv, Kept
<1>7. CASE UNCHANGED vars
  BY <1>7 DEF vars, KeptInv, Kept
<1>8. QED
  BY <1>1, <1>2, <1>3, <1>4, <1>5, <1>6, <1>7 DEF Next

(* No agent of the cast is ever lost between the active and the dormant,     *)
(* however despawns, spawns, saves and loads follow each other.              *)
THEOREM CastNeverLost == Spec => []NobodyLost
<1>1. Init => KeptInv
  BY DEF Init, KeptInv, Kept, NoSave, Base
<1>2. KeptInv => NobodyLost
  BY DEF KeptInv, Kept, NobodyLost
<1>3. QED
  BY <1>1, <1>2, NextKept, InitType, NextType, PTL DEF Spec

-----------------------------------------------------------------------------
(* Rooms.  With the live scene manager in its hands persistence saves homes  *)
(* and lists of the same moment; the invariant is again one of worlds, and   *)
(* holds of the saved one too.                                               *)

InList(w) ==
  \A t \in Things \ Unlisted : w.home[t] # Nowhere => t \in w.listed[w.home[t]]

ListInv == bound => InList(world) /\ InList(saved.world)

LEMMA AddedIsListed ==
  ASSUME NEW w \in World, InList(w), NEW t \in Things, NEW r \in Rooms
  PROVE  InList(Added(w, t, r))
<1> DEFINE v == Added(w, t, r)
<1>1. \A u \in Things : v.home[u] = IF u = t THEN r ELSE w.home[u]
  BY DEF Added, World
<1>2. \A s \in Rooms : v.listed[s] = IF s = r THEN w.listed[s] \cup {t} ELSE w.listed[s]
  BY DEF Added, World
<1>3. \A u \in Things : w.home[u] # Nowhere => w.home[u] \in Rooms
  BY DEF World
<1>4. QED
  BY <1>1, <1>2, <1>3 DEF InList

LEMMA RemovedIsListed ==
  ASSUME NEW w \in World, InList(w), NEW t \in Things
  PROVE  InList(Removed(w, t))
<1>1. CASE w.home[t] = Nowhere
  BY <1>1 DEF Removed
<1>2. CASE w.home[t] # Nowhere
  <2> DEFINE v == Removed(w, t)
             r == w.home[t]
  <2>1. r \in Rooms
    BY <1>2 DEF World
  <2>2. \A u \in Things : v.home[u] = IF u = t THEN Nowhere ELSE w.home[u]
    BY <1>2 DEF Removed, World
  <2>3. \A s \in Rooms : v.listed[s] = IF s = r THEN w.listed[s] \ {t} ELSE w.listed[s]
    BY <1>2, <2>1 DEF Removed, World
  <2>4. \A u \in Things : w.home[u] # Nowhere => w.home[u] \in Rooms
    BY DEF World
  <2>5. QED
    BY <2>2, <2>3, <2>4 DEF InList
<1>3. QED
  BY <1>1, <1>2

LEMMA MovedIsListed ==
  ASSUME NEW w \in World, InList(w), NEW t \in Things, NEW r \in Rooms
  PROVE  InList(Moved(w, t, r))
<1>1. CASE w.home[t] = Nowhere
  BY <1>1 DEF Moved
<1>2. CASE w.home[t] # Nowhere
  <2> DEFINE v == Moved(w, t, r)
             q == w.home[t]
  <2>1. q \in Rooms
    BY <1>2 DEF World
  <2>2. \A u \in Things : v.home[u] = IF u = t THEN r ELSE w.home[u]
    BY <1>2 DEF Moved, World
  <2>3. \A s \in Rooms : v.listed[s] = IF s = r THEN (w.listed[s] \ (IF s = q THEN {t} ELSE {})) \cup {t}
                                       ELSE IF s = q THEN w.listed[s] \ {t} ELSE w.listed[s]
    BY <1>2, <2>1 DEF Moved, World
  <2>4. \A u \in Things : w.home[u] # Nowhere => w.home[u] \in Rooms
    BY DEF World
  <2>5. QED
    BY <2>2, <2>3, <2>4 DEF InList
<1>3. QED
  BY <1>1, <1>2

LEMMA AppliedKeepsLists ==
  ASSUME NEW w \in World, InList(w), NEW e \in Edits
  PROVE  InList(Applied(w, e))
<1>1. CASE e.op \in {"add", "remove", "move"}
  BY <1>1, EditShape, AddedIsListed, RemovedIsListed, MovedIsListed DEF Applied
<1>2. CASE e.op \in {"spawn", "wake", "despawn"}
  <2>1. Applied(w, e).home = w.home /\ Applied(w, e).listed = w.listed
    BY <1>2 DEF Applied, Spawned, Woken, Despawned, World
  <2>2. QED
    BY <2>1 DEF InList
<1>3. CASE e.op \in {"open", "close"}
  <2>1. Applied(w, e).home = w.home /\ Applied(w, e).listed = w.listed
    BY <1>3 DEF Applied, SetOpen, SetClosed, PatchOpen, PatchShut, Joined, Parted, World
  <2>2. QED
    BY <2>1 DEF InList
<1>4. CASE e.op \in {"insert", "cut"}
  <2>1. Applied(w, e).home = w.home /\ Applied(w, e).listed = w.listed
    BY <1>4 DEF Applied, Cut, PatchShut, Joined, Parted, World
  <2>2. QED
    BY <2>1 DEF InList
<1>5. QED
  BY <1>1, <1>2, <1>3, <1>4, EditShape

LEMMA RestoredKeepsLists ==
  ASSUME TypeOK, bound, InList(saved.world), NEW w \in World
  PROVE  InList(Restored(w)) /\ InList(WithDormant(Restored(w)))
<1>1. /\ Restored(w).home = saved.world.home
      /\ Restored(w).listed = saved.world.listed
  BY DEF Restored, World
<1>2. /\ WithDormant(Restored(w)).home = Restored(w).home
      /\ WithDormant(Restored(w)).listed = Restored(w).listed
  BY RestoredIsWorld DEF WithDormant, World
<1>3. QED
  BY <1>1, <1>2 DEF InList

LEMMA NextInList == TypeOK /\ ListInv /\ [Next]_vars => ListInv'
<1> SUFFICES ASSUME TypeOK, ListInv, [Next]_vars, bound' PROVE InList(world)' /\ InList(saved.world)'
  BY DEF ListInv
<1>0. bound /\ InList(world) /\ InList(saved.world)
  BY DEF ListInv, Next, Propose, Tick, ApplyNext, SaveState, Restart, LoadInPlace, vars
<1>1. ASSUME NEW e \in Proposable, Propose(e) PROVE InList(world)' /\ InList(saved.world)'
  BY <1>0, <1>1 DEF Propose, InList
<1>2. CASE Tick
  BY <1>0, <1>2 DEF Tick, InList
<1>3. CASE ApplyNext
  <2>1. Head(pending) \in Edits
    BY <1>3 DEF ApplyNext, TypeOK
  <2>2. saved' = saved /\ world' \in {world, Applied(world, Head(pending))}
    BY <1>3 DEF ApplyNext
  <2>3. InList(Applied(world, Head(pending)))
    BY <1>0, <2>1, AppliedKeepsLists DEF TypeOK
  <2>4. QED
    BY <1>0, <2>2, <2>3 DEF InList
<1>4. CASE SaveState
  BY <1>0, <1>4 DEF SaveState, InList
<1>5. CASE Restart
  <2>1. InList(Base)
    BY SceneAssumption DEF InList, Base
  <2>2. InList(Restored(Base)) /\ InList(WithDormant(Restored(Base)))
    BY <1>0, BaseIsWorld, RestoredKeepsLists
  <2>3. saved' = saved /\ world' \in {Base, Restored(Base), WithDormant(Restored(Base))}
    BY <1>5 DEF Restart
  <2>4. QED
    BY <1>0, <2>1, <2>2, <2>3 DEF InList
<1>6. CASE LoadInPlace
  <2>1. InList(Restored(world)) /\ InList(WithDormant(Restored(world)))
    BY <1>0, RestoredKeepsLists DEF TypeOK
  <2>2. saved' = saved /\ world' \in {Restored(world), WithDormant(Restored(world))}
    BY <1>6 DEF LoadInPlace
  <2>3. QED
    BY <1>0, <2>1, <2>2 DEF InList
<1>7. CASE UNCHANGED vars
  BY <1>0, <1>7 DEF vars, InList
<1>8. QED
  BY <1>1, <1>2, <1>3, <1>4, <1>5, <1>6, <1>7 DEF Next

(* What the scene has listed, or a mutation has put somewhere, the room it   *)
(* is in lists, if persistence was given the scene manager mutations change. *)
THEOREM RoomsListTheirThings == Spec => []Listed
<1>1. Init => ListInv
  BY SceneAssumption DEF Init, ListInv, InList, NoSave, Base
<1>2. ListInv => Listed
  BY DEF ListInv, InList, Listed
<1>3. QED
  BY <1>1, <1>2, NextInList, InitType, NextType, PTL DEF Spec

-----------------------------------------------------------------------------
(* Replaying.  The scene with a log applied to it is a recursive function;   *)
(* what is needed of it is that of an empty log, which is the scene, and     *)
(* that of a log with one more event.  Both come of the one function there   *)
(* is with the recursive equation, by induction on the numbers up to the     *)
(* length of the log.                                                        *)

LEMMA LeastNatural ==
  ASSUME NEW S \in SUBSET Nat, S # {}
  PROVE  \E n \in S : \A m \in S : ~(m < n)
<1>1. PICK n \in S : \A m \in S : <<m, n>> \notin OpToRel(<, Nat)
  BY NatLessThanWellFounded, WFMin
<1>2. \A m, k \in Nat : m < k => <<m, k>> \in OpToRel(<, Nat)
  BY DEF OpToRel
<1>3. QED
  BY <1>1, <1>2

\* Induction, of a set of numbers in place of a predicate of numbers.
LEMMA SetInduction ==
  ASSUME NEW S, 0 \in S, \A n \in Nat : n \in S => n + 1 \in S
  PROVE  Nat \subseteq S
<1> DEFINE T == {n \in Nat : n \notin S}
<1>1. SUFFICES ASSUME T # {} PROVE FALSE
  OBVIOUS
<1>2. PICK n \in T : \A m \in T : ~(m < n)
  BY <1>1, LeastNatural
<1>3. n # 0 /\ n - 1 \in Nat /\ n - 1 < n
  BY <1>2
<1>4. n - 1 \in S
  BY <1>2, <1>3
<1>5. (n - 1) + 1 \in S
  BY <1>3, <1>4
<1>6. QED
  BY <1>2, <1>5

IsPast(f, s, n) ==
  f = [m \in 0..n |-> IF m = 0 THEN Base ELSE Applied(f[m - 1], s[m].edit)]

LEMMA PastExists ==
  ASSUME NEW s, Len(s) \in Nat
  PROVE  \A n \in Nat : \E f : IsPast(f, s, n)
<1> DEFINE S == {n \in Nat : \E f : IsPast(f, s, n)}
<1>1. 0 \in S
  <2> DEFINE g == [m \in 0..0 |-> Base]
  <2>1. IsPast(g, s, 0)
    BY DEF IsPast
  <2>2. QED
    BY <2>1
<1>2. ASSUME NEW n \in Nat, n \in S PROVE n + 1 \in S
  <2>1. PICK f : IsPast(f, s, n)
    BY <1>2
  <2> DEFINE g == [m \in 0..(n + 1) |-> IF m = n + 1 THEN Applied(f[n], s[n + 1].edit) ELSE f[m]]
  <2>2. \A m \in 0..n : g[m] = f[m]
    OBVIOUS
  <2>3. \A m \in 0..n : f[m] = IF m = 0 THEN Base ELSE Applied(f[m - 1], s[m].edit)
    BY <2>1 DEF IsPast
  <2>4. g[n + 1] = Applied(g[n], s[n + 1].edit)
    BY <2>2
  <2>5. g = [m \in 0..(n + 1) |-> g[m]]
    OBVIOUS
  <2> HIDE DEF g
  <2>6. ASSUME NEW m \in 0..(n + 1)
        PROVE  g[m] = IF m = 0 THEN Base ELSE Applied(g[m - 1], s[m].edit)
    <3>1. CASE m = n + 1
      BY <3>1, <2>4
    <3>2. CASE m # n + 1
      <4>1. m \in 0..n /\ (m # 0 => m - 1 \in 0..n)
        BY <3>2
      <4>2. QED
        BY <4>1, <2>2, <2>3
    <3>3. QED
      BY <3>1, <3>2
  <2>7. IsPast(g, s, n + 1)
    BY <2>5, <2>6 DEF IsPast
  <2>8. QED
    BY <2>7
<1> HIDE DEF S
<1>3. Nat \subseteq S
  BY <1>1, <1>2, SetInduction
<1>4. QED
  BY <1>3 DEF S

LEMMA ReplayedIs ==
  ASSUME NEW s, Len(s) \in Nat
  PROVE  \E f : IsPast(f, s, Len(s)) /\ Replayed(s) = f[Len(s)]
<1>1. \E f : f = [m \in 0..Len(s) |-> IF m = 0 THEN Base ELSE Applied(f[m - 1], s[m].edit)]
  BY PastExists DEF IsPast
<1> DEFINE past == CHOOSE f : f = [m \in 0..Len(s) |->
                                    IF m = 0 THEN Base ELSE Applied(f[m - 1], s[m].edit)]
<1>2. past = [m \in 0..Len(s) |-> IF m = 0 THEN Base ELSE Applied(past[m - 1], s[m].edit)]
  BY <1>1
<1>3. Replayed(s) = past[Len(s)]
  BY DEF Replayed
<1>4. QED
  BY <1>2, <1>3 DEF IsPast

\* The past of a log does not depend on what is logged later.
LEMMA PastIsFixed ==
  ASSUME NEW s, NEW r, NEW n \in Nat, NEW k \in Nat, n <= k,
         \A m \in 1..n : s[m] = r[m],
         NEW f, IsPast(f, s, n), NEW g, IsPast(g, r, k)
  PROVE  f[n] = g[n]
<1> DEFINE S == {m \in Nat : m <= n => f[m] = g[m]}
<1>1. \A m \in 0..n : f[m] = IF m = 0 THEN Base ELSE Applied(f[m - 1], s[m].edit)
  BY DEF IsPast
<1>2. \A m \in 0..k : g[m] = IF m = 0 THEN Base ELSE Applied(g[m - 1], r[m].edit)
  BY DEF IsPast
<1>3. 0 \in S
  BY <1>1, <1>2
<1>4. ASSUME NEW m \in Nat, m \in S PROVE m + 1 \in S
  <2>1. CASE m + 1 <= n
    <3>1. m + 1 \in 0..n /\ m + 1 \in 0..k /\ m + 1 # 0 /\ (m + 1) - 1 = m /\ m + 1 \in 1..n
      BY <2>1
    <3>2. f[m + 1] = Applied(f[m], s[m + 1].edit)
      BY <1>1, <3>1
    <3>3. g[m + 1] = Applied(g[m], r[m + 1].edit)
      BY <1>2, <3>1
    <3>4. f[m] = g[m] /\ s[m + 1] = r[m + 1]
      BY <1>4, <2>1, <3>1
    <3>5. QED
      BY <3>2, <3>3, <3>4
  <2>2. QED
    BY <2>1
<1> HIDE DEF S
<1>5. n \in S
  BY <1>3, <1>4, SetInduction
<1>6. QED
  BY <1>5 DEF S

LEMMA NothingReplayed == Replayed(<<>>) = Base
<1>1. PICK f : IsPast(f, <<>>, 0) /\ Replayed(<<>>) = f[0]
  BY ReplayedIs
<1>2. QED
  BY <1>1 DEF IsPast

LEMMA OneMoreReplayed ==
  ASSUME NEW s \in Seq(Events), NEW e \in Events
  PROVE  Replayed(Append(s, e)) = Applied(Replayed(s), e.edit)
<1> DEFINE r == Append(s, e)
           n == Len(s)
<1>1. n \in Nat /\ Len(r) = n + 1 /\ r[n + 1] = e /\ \A m \in 1..n : s[m] = r[m]
  OBVIOUS
<1> HIDE DEF r, n
<1>2. PICK f : IsPast(f, s, n) /\ Replayed(s) = f[n]
  BY <1>1, ReplayedIs DEF n
<1>3. PICK g : IsPast(g, r, n + 1) /\ Replayed(r) = g[n + 1]
  BY <1>1, ReplayedIs
<1>4. f[n] = g[n]
  <2>1. n <= n + 1 /\ n + 1 \in Nat
    BY <1>1
  <2>2. QED
    BY <1>1, <1>2, <1>3, <2>1, PastIsFixed
<1>5. g[n + 1] = Applied(g[n], r[n + 1].edit)
  <2>1. n + 1 \in 0..(n + 1) /\ n + 1 # 0 /\ (n + 1) - 1 = n
    BY <1>1
  <2>2. QED
    BY <1>3, <2>1 DEF IsPast
<1>6. QED
  BY <1>1, <1>2, <1>3, <1>4, <1>5 DEF r

-----------------------------------------------------------------------------
(* The log.  What it accounts for: all of a world but its connections and    *)
(* lists when they are not saved, and its closed pairs ever.  Applying the   *)
(* same mutation to two such worlds gives two again, whatever is closed in   *)
(* either: a connection is opened and closed by what is linked.              *)

Alike(v, w) ==
  /\ v.home = w.home /\ v.ajar = w.ajar
  /\ v.active = w.active /\ v.dormant = w.dormant
  /\ bound => v.listed = w.listed /\ v.exits = w.exits

LEMMA OpenedIs ==
  ASSUME NEW w \in World, NEW a \in Rooms, NEW b \in Rooms
  PROVE  LET v == SetOpen(w, a, b)
         IN  /\ v.home = w.home /\ v.active = w.active /\ v.dormant = w.dormant
             /\ v.ajar = w.ajar \cup Doorways(w, a, b)
             /\ v.listed = w.listed
             /\ v.exits = IF Linked(w, a, b) THEN w.exits ELSE Joined(w, a, b).exits
<1> DEFINE u == IF Linked(w, a, b) THEN w ELSE [Joined(w, a, b) EXCEPT !.closed = @ \ {{a, b}}]
<1>1. u.home = w.home
  BY DEF Joined, World
<1>2. Doorways(u, a, b) = Doorways(w, a, b)
  BY <1>1 DEF Doorways
<1>3. /\ u.active = w.active /\ u.dormant = w.dormant /\ u.ajar = w.ajar /\ u.listed = w.listed
      /\ u.exits = IF Linked(w, a, b) THEN w.exits ELSE Joined(w, a, b).exits
      /\ u = [u EXCEPT !.ajar = u.ajar]
      /\ [u EXCEPT !.ajar = u.ajar \cup Doorways(u, a, b)].ajar = u.ajar \cup Doorways(u, a, b)
  BY DEF Joined, World
<1>4. SetOpen(w, a, b) = [u EXCEPT !.ajar = u.ajar \cup Doorways(u, a, b)]
  BY DEF SetOpen, PatchOpen
<1> HIDE DEF u
<1>5. QED
  BY <1>1, <1>2, <1>3, <1>4

LEMMA ClosedIs ==
  ASSUME NEW w \in World, NEW a \in Rooms, NEW b \in Rooms
  PROVE  LET v == SetClosed(w, a, b)
         IN  /\ v.home = w.home /\ v.active = w.active /\ v.dormant = w.dormant
             /\ v.ajar = w.ajar \ Doorways(w, a, b)
             /\ v.listed = w.listed
             /\ v.exits = IF Linked(w, a, b) THEN Parted(w, a, b).exits ELSE w.exits
<1> DEFINE u == IF Linked(w, a, b) THEN [Parted(w, a, b) EXCEPT !.closed = @ \cup {{a, b}}] ELSE w
<1>1. u.home = w.home
  BY DEF Parted, World
<1>2. Doorways(u, a, b) = Doorways(w, a, b)
  BY <1>1 DEF Doorways
<1>3. /\ u.active = w.active /\ u.dormant = w.dormant /\ u.ajar = w.ajar /\ u.listed = w.listed
      /\ u.exits = IF Linked(w, a, b) THEN Parted(w, a, b).exits ELSE w.exits
      /\ [u EXCEPT !.ajar = u.ajar \ Doorways(u, a, b)].ajar = u.ajar \ Doorways(u, a, b)
  BY DEF Parted, World
<1>4. SetClosed(w, a, b) = [u EXCEPT !.ajar = u.ajar \ Doorways(u, a, b)]
  BY DEF SetClosed, PatchShut
<1> HIDE DEF u
<1>5. QED
  BY <1>1, <1>2, <1>3, <1>4

LEMMA CutIs ==
  ASSUME NEW w \in World, NEW a \in Rooms, NEW b \in Rooms
  PROVE  LET v == Cut(w, a, b)
         IN  /\ v.home = w.home /\ v.active = w.active /\ v.dormant = w.dormant
             /\ v.ajar = w.ajar \ Doorways(w, a, b)
             /\ v.listed = w.listed
             /\ v.exits = Parted(w, a, b).exits
<1> DEFINE u == [Parted(w, a, b) EXCEPT !.closed = @ \ {{a, b}}]
<1>1. u.home = w.home
  BY DEF Parted, World
<1>2. Doorways(u, a, b) = Doorways(w, a, b)
  BY <1>1 DEF Doorways
<1>3. /\ u.active = w.active /\ u.dormant = w.dormant /\ u.ajar = w.ajar /\ u.listed = w.listed
      /\ u.exits = Parted(w, a, b).exits
      /\ [u EXCEPT !.ajar = u.ajar \ Doorways(u, a, b)].ajar = u.ajar \ Doorways(u, a, b)
  BY DEF Parted, World
<1>4. Cut(w, a, b) = [u EXCEPT !.ajar = u.ajar \ Doorways(u, a, b)]
  BY DEF Cut, PatchShut
<1> HIDE DEF u
<1>5. QED
  BY <1>1, <1>2, <1>3, <1>4

LEMMA AppliedKeepsAlike ==
  ASSUME NEW v \in World, NEW w \in World, Alike(v, w), NEW e \in Edits
  PROVE  Alike(Applied(v, e), Applied(w, e))
<1> USE DEF Alike
<1>1. CASE e.op = "add"
  BY <1>1 DEF Applied, Added, World
<1>2. CASE e.op = "remove"
  <2>1. e.thing \in Things
    BY <1>2, EditShape
  <2>2. CASE w.home[e.thing] = Nowhere
    BY <1>2, <2>1, <2>2 DEF Applied, Removed
  <2>3. CASE w.home[e.thing] # Nowhere
    BY <1>2, <2>1, <2>3 DEF Applied, Removed, World
  <2>4. QED
    BY <2>2, <2>3
<1>3. CASE e.op = "move"
  <2>1. e.thing \in Things /\ e.room \in Rooms
    BY <1>3, EditShape
  <2>2. CASE w.home[e.thing] = Nowhere
    BY <1>3, <2>1, <2>2 DEF Applied, Moved
  <2>3. CASE w.home[e.thing] # Nowhere
    BY <1>3, <2>1, <2>3 DEF Applied, Moved, World
  <2>4. QED
    BY <2>2, <2>3
<1>4. CASE e.op = "spawn"
  BY <1>4 DEF Applied, Spawned, World
<1>5. CASE e.op = "wake"
  BY <1>5 DEF Applied, Woken, World
<1>6. CASE e.op = "despawn"
  BY <1>6 DEF Applied, Despawned, World
<1>7. CASE e.op \in {"open", "close", "insert", "cut"}
  <2> DEFINE a == e.from
             b == e.to
  <2>1. a \in Rooms /\ b \in Rooms
    BY <1>7, EditShape
  <2> HIDE DEF a, b
  <2>2. Doorways(v, a, b) = Doorways(w, a, b)
    BY DEF Doorways
  <2>3. bound => /\ Linked(v, a, b) <=> Linked(w, a, b)
                 /\ Joined(v, a, b).exits = Joined(w, a, b).exits
                 /\ Parted(v, a, b).exits = Parted(w, a, b).exits
    BY <2>1 DEF Linked, Joined, Parted, World
  <2>4. CASE e.op = "open"
    <3>1. Applied(v, e) = SetOpen(v, a, b) /\ Applied(w, e) = SetOpen(w, a, b)
      BY <2>4 DEF Applied, a, b
    <3>2. Alike(SetOpen(v, a, b), SetOpen(w, a, b))
      BY <2>1, <2>2, <2>3, OpenedIs
    <3>3. QED
      BY <3>1, <3>2
  <2>5. CASE e.op = "close"
    <3>1. Applied(v, e) = SetClosed(v, a, b) /\ Applied(w, e) = SetClosed(w, a, b)
      BY <2>5 DEF Applied, a, b
    <3>2. /\ SetClosed(v, a, b).ajar = v.ajar \ Doorways(v, a, b)
          /\ SetClosed(w, a, b).ajar = w.ajar \ Doorways(w, a, b)
      BY <2>1, ClosedIs
    <3>3. SetClosed(v, a, b).ajar = SetClosed(w, a, b).ajar
      BY <2>2, <3>2
    <3>4. Alike(SetClosed(v, a, b), SetClosed(w, a, b))
      BY <2>1, <2>3, <3>3, ClosedIs
    <3>5. QED
      BY <3>1, <3>4
  <2>6. CASE e.op = "cut"
    <3>1. Applied(v, e) = Cut(v, a, b) /\ Applied(w, e) = Cut(w, a, b)
      BY <2>6 DEF Applied, a, b
    <3>2. /\ Cut(v, a, b).ajar = v.ajar \ Doorways(v, a, b)
          /\ Cut(w, a, b).ajar = w.ajar \ Doorways(w, a, b)
      BY <2>1, CutIs
    <3>3. Cut(v, a, b).ajar = Cut(w, a, b).ajar
      BY <2>2, <3>2
    <3>4. Alike(Cut(v, a, b), Cut(w, a, b))
      BY <2>1, <2>3, <3>3, CutIs
    <3>5. QED
      BY <3>1, <3>4
  <2>7. CASE e.op = "insert"
    <3>1. Applied(v, e) = Joined(v, a, b) /\ Applied(w, e) = Joined(w, a, b)
      BY <2>7 DEF Applied, a, b
    <3>2. QED
      BY <2>1, <2>3, <3>1 DEF Joined, World
  <2>8. QED
    BY <1>7, <2>4, <2>5, <2>6, <2>7
<1>8. QED
  BY <1>1, <1>2, <1>3, <1>4, <1>5, <1>6, <1>7, EditShape

Numbered(s) == \A i \in DOMAIN s : s[i].seq = i

(* Of a log and the world it is kept for: the scene with the log applied is  *)
(* that world, but for one that a save without a log has been put into.      *)
Explains(s, w, bare) ==
  /\ s \in Seq(Events) /\ Numbered(s)
  /\ Replayed(s) \in World
  /\ bare \/ Alike(w, Replayed(s))

LogInv ==
  /\ nextSeq = Len(log) + 1
  /\ Explains(log, world, spent.bare)
  /\ Explains(saved.log, saved.world, saved.bare)
  /\ ~saved.dynamic => saved.log = <<>> /\ saved.world.dormant = {}

LEMMA EmptyExplainsBase == Explains(<<>>, Base, FALSE)
BY NothingReplayed, BaseIsWorld DEF Explains, Numbered, Alike

LEMMA LoggingExplains ==
  ASSUME NEW s \in Seq(Events), NEW w \in World, NEW bare \in BOOLEAN, Explains(s, w, bare),
         NEW e \in Edits
  PROVE  Explains(Append(s, [seq |-> Len(s) + 1, edit |-> e]), Applied(w, e), bare)
<1> DEFINE ev == [seq |-> Len(s) + 1, edit |-> e]
           r == Append(s, ev)
<1>1. ev \in Events /\ ev.seq = Len(s) + 1 /\ ev.edit = e
  BY DEF Events
<1> HIDE DEF ev
<1>2. r \in Seq(Events) /\ Numbered(r)
  BY <1>1 DEF Explains, Numbered
<1>3. Replayed(r) = Applied(Replayed(s), e)
  BY <1>1, OneMoreReplayed
<1>4. Replayed(r) \in World
  BY <1>3, AppliedIsWorld DEF Explains
<1>5. bare \/ Alike(Applied(w, e), Replayed(r))
  BY <1>3, AppliedKeepsAlike DEF Explains
<1>6. Explains(r, Applied(w, e), bare)
  BY <1>2, <1>4, <1>5 DEF Explains
<1>7. QED
  BY <1>6 DEF ev

\* A log explains each of two worlds that are alike.
LEMMA ExplainsAlike ==
  ASSUME NEW s, NEW v, NEW w, NEW bare, Explains(s, v, bare), Alike(w, v)
  PROVE  Explains(s, w, bare)
BY DEF Explains, Alike

\* A numbered log is continued with the next number.
LEMMA NextAfterIsNext ==
  ASSUME NEW s \in Seq(Events), Numbered(s)
  PROVE  NextAfter(s) = Len(s) + 1
<1>1. CASE s = <<>>
  BY <1>1 DEF NextAfter
<1>2. CASE s # <<>>
  BY <1>2 DEF NextAfter, Numbered
<1>3. QED
  BY <1>1, <1>2

\* With its dormant agents, a save put into a world makes that of the save.
LEMMA RestoredIsAlike ==
  ASSUME TypeOK, NEW w \in World
  PROVE  /\ Alike(WithDormant(Restored(w)), saved.world)
         /\ w.dormant = saved.world.dormant => Alike(Restored(w), saved.world)
<1> DEFINE v == Restored(w)
<1>1. v \in World
  BY RestoredIsWorld
<1>2. /\ v.home = saved.world.home /\ v.ajar = saved.world.ajar /\ v.active = saved.world.active
      /\ v.dormant = w.dormant
      /\ bound => v.listed = saved.world.listed /\ v.exits = saved.world.exits
  BY DEF Restored, World
<1>3. WithDormant(v) = [v EXCEPT !.dormant = saved.world.dormant]
  BY DEF WithDormant
<1> HIDE DEF v
<1>4. /\ WithDormant(v).home = v.home /\ WithDormant(v).ajar = v.ajar
      /\ WithDormant(v).active = v.active /\ WithDormant(v).dormant = saved.world.dormant
      /\ WithDormant(v).listed = v.listed /\ WithDormant(v).exits = v.exits
  BY <1>1, <1>3 DEF World
<1>5. Alike(WithDormant(v), saved.world) /\ (w.dormant = saved.world.dormant => Alike(v, saved.world))
  BY <1>2, <1>4 DEF Alike
<1>6. QED
  BY <1>5 DEF v

LEMMA NextLog == TypeOK /\ LogInv /\ [Next]_vars => LogInv'
<1> SUFFICES ASSUME TypeOK, LogInv, [Next]_vars PROVE LogInv'
  OBVIOUS
<1>0. ASSUME UNCHANGED <<nextSeq, log, world, spent, saved, bound>> PROVE LogInv'
  BY <1>0 DEF LogInv, Explains, Alike
<1>1. ASSUME NEW e \in Proposable, Propose(e) PROVE LogInv'
  BY <1>0, <1>1 DEF Propose
<1>2. CASE Tick
  BY <1>0, <1>2 DEF Tick, queueVars
<1>3. CASE ApplyNext
  <2> DEFINE e == Head(pending)
  <2>1. e \in Edits
    BY <1>3 DEF ApplyNext, TypeOK
  <2>2. UNCHANGED <<saved, bound, spent>>
    BY <1>3 DEF ApplyNext
  <2>3. CASE Throws(world, e)
    BY <1>0, <1>3, <2>3 DEF ApplyNext
  <2>4. CASE ~Throws(world, e)
    <3>1. /\ world' = Applied(world, e) /\ nextSeq' = nextSeq + 1
          /\ log' = Append(log, [seq |-> nextSeq, edit |-> e])
      BY <1>3, <2>4 DEF ApplyNext
    <3> HIDE DEF e
    <3>2. nextSeq = Len(log) + 1 /\ log \in Seq(Events) /\ world \in World /\ spent.bare \in BOOLEAN
      BY DEF LogInv, TypeOK
    <3>3. Explains(Append(log, [seq |-> Len(log) + 1, edit |-> e]), Applied(world, e), spent.bare)
      BY <2>1, <3>2, LoggingExplains DEF LogInv
    <3>4. Explains(log, world, spent.bare)'
      BY <2>2, <3>1, <3>2, <3>3 DEF Explains, Alike
    <3>5. nextSeq' = Len(log') + 1
      BY <3>1, <3>2
    <3>6. QED
      BY <2>2, <3>4, <3>5 DEF LogInv, Explains, Alike
  <2>5. QED
    BY <2>3, <2>4
<1>4. CASE SaveState
  <2>1. /\ UNCHANGED <<nextSeq, log, world, bound>> /\ spent'.bare = spent.bare
        /\ saved'.world = world /\ saved'.log = log /\ saved'.bare = spent.bare
        /\ saved'.dynamic = HasDynamicState
    BY <1>4 DEF SaveState, queueVars, TypeOK
  <2>2. ~HasDynamicState => log = <<>> /\ world.dormant = {}
    BY DEF HasDynamicState
  <2>3. QED
    BY <2>1, <2>2 DEF LogInv, Explains, Alike
<1>5. CASE Restart
  <2>1. /\ saved' = saved /\ bound' = bound /\ spent'.bare = saved.bare
        /\ nextSeq' = NextAfter(log')
    BY <1>5 DEF Restart, TypeOK
  <2>2. Explains(log', world', saved.bare)
    <3>1. CASE ~saved.valid
      <4>1. world' = Base /\ log' = <<>>
        BY <1>5, <3>1 DEF Restart
      <4>2. QED
        BY <4>1, EmptyExplainsBase DEF Explains
    <3>2. CASE saved.valid /\ saved.dynamic
      <4>1. world' = WithDormant(Restored(Base)) /\ log' = saved.log
        BY <1>5, <3>2 DEF Restart
      <4>2. Alike(WithDormant(Restored(Base)), saved.world)
        BY BaseIsWorld, RestoredIsAlike
      <4>3. QED
        BY <4>1, <4>2, ExplainsAlike DEF LogInv
    <3>3. CASE saved.valid /\ ~saved.dynamic
      <4>1. world' = Restored(Base) /\ log' = <<>>
        BY <1>5, <3>3 DEF Restart
      <4>2. saved.log = <<>> /\ saved.world.dormant = Base.dormant
        BY <3>3 DEF LogInv, Base
      <4>3. Alike(Restored(Base), saved.world)
        BY <4>2, BaseIsWorld, RestoredIsAlike
      <4>4. QED
        BY <4>1, <4>2, <4>3, ExplainsAlike DEF LogInv
    <3>4. QED
      BY <3>1, <3>2, <3>3
  <2>3. nextSeq' = Len(log') + 1
    BY <2>1, <2>2, NextAfterIsNext DEF Explains
  <2>4. QED
    BY <2>1, <2>2, <2>3 DEF LogInv, Explains, Alike
<1>6. CASE LoadInPlace
  <2>1. /\ saved' = saved /\ bound' = bound
        /\ spent'.bare = (~saved.dynamic \/ saved.bare)
    BY <1>6 DEF LoadInPlace, TypeOK
  <2>2. CASE saved.dynamic
    <3>1. world' = WithDormant(Restored(world)) /\ log' = saved.log /\ nextSeq' = NextAfter(saved.log)
      BY <1>6, <2>2 DEF LoadInPlace
    <3>2. Alike(WithDormant(Restored(world)), saved.world)
      BY RestoredIsAlike DEF TypeOK
    <3>3. Explains(saved.log, WithDormant(Restored(world)), saved.bare)
      BY <3>2, ExplainsAlike DEF LogInv
    <3>4. nextSeq' = Len(log') + 1
      BY <3>1, NextAfterIsNext DEF LogInv, Explains
    <3>5. QED
      BY <2>1, <2>2, <3>1, <3>3, <3>4 DEF LogInv, Explains, Alike
  <2>3. CASE ~saved.dynamic
    <3>1. log' = log /\ nextSeq' = nextSeq /\ spent'.bare
      BY <1>6, <2>1, <2>3 DEF LoadInPlace, queueVars
    <3>2. QED
      BY <2>1, <2>3, <3>1 DEF LogInv, Explains, Alike
  <2>4. QED
    BY <2>2, <2>3
<1>7. CASE UNCHANGED vars
  BY <1>0, <1>7 DEF vars, queueVars
<1>8. QED
  BY <1>1, <1>2, <1>3, <1>4, <1>5, <1>6, <1>7 DEF Next

LEMMA InitLog == Init => LogInv
<1> SUFFICES ASSUME Init PROVE LogInv
  OBVIOUS
<1>1. Explains(<<>>, Base, FALSE)
  BY EmptyExplainsBase
<1>2. log = <<>> /\ world = Base /\ spent.bare = FALSE /\ nextSeq = Len(log) + 1
  BY DEF Init
<1>3. saved.log = <<>> /\ saved.world = Base /\ saved.bare = FALSE /\ Base.dormant = {}
  BY DEF Init, NoSave, Base
<1>4. QED
  BY <1>1, <1>2, <1>3 DEF LogInv

(* The log, replayed over the scene, gives the world, and numbers its events *)
(* without a gap, through mutations that throw, saves and loads: unless a    *)
(* save without a log has been put into a world that has one.                *)
THEOREM TheLogExplains == Spec => []LogExplains
<1>1. TypeOK /\ LogInv => LogExplains
  BY DEF LogInv, Explains, Alike, Numbered, LogExplains, Replay
<1>2. QED
  BY <1>1, InitLog, NextLog, InitType, NextType, PTL DEF Spec

-----------------------------------------------------------------------------
(* Doorways.  One that says it is open stands in a room, and has an open     *)
(* connection to show for it unless the log tells that it was carried there. *)
(* Two-sidedness is what makes it so when a connection is found open.        *)

Carried(s, t) == \E i \in DOMAIN s : s[i].edit.op \in {"add", "move"} /\ s[i].edit.thing = t

Tells(w, t) == Leads[t] \cap w.exits[w.home[t]] # {}

DoorsOf(s, w) ==
  \A t \in w.ajar : w.home[t] \in Rooms /\ (bound => Tells(w, t) \/ Carried(s, t))

DoorInv == DoorsOf(log, world) /\ DoorsOf(saved.log, saved.world)

\* What a mutation leaves a doorway that was open, and what it opens one for.
LEMMA AppliedKeepsDoors ==
  ASSUME NEW s, NEW w \in World, DoorsOf(s, w), Sided(w), NEW e \in Edits,
         NEW t \in Applied(w, e).ajar
  PROVE  /\ Applied(w, e).home[t] \in Rooms
         /\ \/ e.op \in {"add", "move"} /\ e.thing = t
            \/ bound => Tells(Applied(w, e), t) \/ Carried(s, t)
<1> DEFINE v == Applied(w, e)
<1>0. t \in Things /\ v \in World
  BY AppliedIsWorld DEF World
<1>1. ASSUME v.home[t] = w.home[t], t \in w.ajar, w.exits[w.home[t]] \subseteq v.exits[v.home[t]]
      PROVE  v.home[t] \in Rooms /\ (bound => Tells(v, t) \/ Carried(s, t))
  BY <1>1 DEF DoorsOf, Tells
<1>2. CASE e.op = "add"
  <2>1. e.thing \in Things /\ e.room \in Rooms
    BY <1>2, EditShape
  <2>2. v.ajar = w.ajar \ {e.thing} /\ v.exits = w.exits /\ v.home = [w.home EXCEPT ![e.thing] = e.room]
    BY <1>2 DEF Applied, Added, World
  <2>3. QED
    BY <1>0, <1>1, <2>1, <2>2 DEF World
<1>3. CASE e.op = "remove"
  <2>1. e.thing \in Things
    BY <1>3, EditShape
  <2>2. CASE w.home[e.thing] = Nowhere
    BY <1>1, <1>3, <2>2 DEF Applied, Removed
  <2>3. CASE w.home[e.thing] # Nowhere
    <3>1. v.ajar = w.ajar \ {e.thing} /\ v.exits = w.exits /\ v.home = [w.home EXCEPT ![e.thing] = Nowhere]
      BY <1>3, <2>3 DEF Applied, Removed, World
    <3>2. QED
      BY <1>0, <1>1, <2>1, <3>1 DEF World
  <2>4. QED
    BY <2>2, <2>3
<1>4. CASE e.op = "move"
  <2>1. e.thing \in Things /\ e.room \in Rooms
    BY <1>4, EditShape
  <2>2. CASE w.home[e.thing] = Nowhere
    BY <1>1, <1>4, <2>2 DEF Applied, Moved
  <2>3. CASE w.home[e.thing] # Nowhere
    <3>1. v.ajar = w.ajar /\ v.exits = w.exits /\ v.home = [w.home EXCEPT ![e.thing] = e.room]
      BY <1>4, <2>3 DEF Applied, Moved, World
    <3>2. CASE e.thing = t
      BY <1>0, <1>4, <2>1, <3>1, <3>2 DEF World
    <3>3. CASE e.thing # t
      BY <1>0, <1>1, <2>1, <3>1, <3>3 DEF World
    <3>4. QED
      BY <3>2, <3>3
  <2>4. QED
    BY <2>2, <2>3
<1>5. CASE e.op \in {"spawn", "wake", "despawn"}
  <2>1. v.ajar = w.ajar /\ v.home = w.home /\ v.exits = w.exits
    BY <1>5 DEF Applied, Spawned, Woken, Despawned, World
  <2>2. QED
    BY <1>1, <2>1
<1>6. CASE e.op \in {"open", "close", "insert", "cut"}
  <2> DEFINE a == e.from
             b == e.to
  <2>1. a \in Rooms /\ b \in Rooms /\ a # b
    BY <1>6, EditShape
  <2>2. /\ e.op = "open" => v = SetOpen(w, a, b)
        /\ e.op = "close" => v = SetClosed(w, a, b)
        /\ e.op = "cut" => v = Cut(w, a, b)
        /\ e.op = "insert" => v = Joined(w, a, b)
    BY DEF Applied
  <2> HIDE DEF a, b, v
  <2>3. \A c \in Rooms : /\ w.exits[c] \subseteq Joined(w, a, b).exits[c]
                         /\ w.exits[c] \ {IF c = a THEN b ELSE a}
                              \subseteq Parted(w, a, b).exits[c]
                         /\ c \notin {a, b} => w.exits[c] = Parted(w, a, b).exits[c]
    BY <2>1 DEF Joined, Parted, World
  <2>4. b \in Joined(w, a, b).exits[a] /\ a \in Joined(w, a, b).exits[b]
    BY <2>1 DEF Joined, World
  <2>5. CASE e.op = "insert"
    <3>1. v.ajar = w.ajar /\ v.home = w.home /\ v.exits = Joined(w, a, b).exits
      BY <2>2, <2>5 DEF Joined, World
    <3>2. t \in w.ajar /\ w.home[t] \in Rooms
      BY <3>1 DEF DoorsOf, v
    <3>3. QED
      BY <1>1, <2>3, <3>1, <3>2 DEF v
  <2>6. CASE e.op = "open"
    <3>1. /\ v.ajar = w.ajar \cup Doorways(w, a, b) /\ v.home = w.home
          /\ v.exits = IF Linked(w, a, b) THEN w.exits ELSE Joined(w, a, b).exits
      BY <2>1, <2>2, <2>6, OpenedIs
    <3>2. CASE t \in w.ajar
      <4>1. w.home[t] \in Rooms
        BY <3>2 DEF DoorsOf
      <4>2. QED
        BY <1>1, <2>3, <3>1, <3>2, <4>1 DEF v
    <3>3. CASE t \in Doorways(w, a, b)
      <4>1. b \in v.exits[a] /\ a \in v.exits[b]
        BY <2>1, <2>4, <3>1 DEF Linked, Sided
      <4>2. (w.home[t] = a /\ b \in Leads[t]) \/ (w.home[t] = b /\ a \in Leads[t])
        BY <3>3 DEF Doorways
      <4>3. v.home[t] \in Rooms /\ Tells(v, t)
        BY <2>1, <3>1, <4>1, <4>2 DEF Tells
      <4>4. QED
        BY <4>3 DEF v
    <3>4. QED
      BY <3>1, <3>2, <3>3 DEF v
  <2>7. CASE e.op \in {"close", "cut"}
    <3>1. /\ v.ajar = w.ajar \ Doorways(w, a, b) /\ v.home = w.home
          /\ v.exits \in {w.exits, Parted(w, a, b).exits}
      BY <2>1, <2>2, <2>7, ClosedIs, CutIs
    <3>2. t \in w.ajar /\ t \notin Doorways(w, a, b) /\ w.home[t] \in Rooms
      BY <3>1 DEF DoorsOf, v
    <3>3. (w.home[t] = a => b \notin Leads[t]) /\ (w.home[t] = b => a \notin Leads[t])
      BY <1>0, <3>2 DEF Doorways
    <3>4. Leads[t] \cap w.exits[w.home[t]] \subseteq v.exits[w.home[t]]
      BY <2>1, <2>3, <3>1, <3>2, <3>3
    <3>5. bound => Tells(v, t) \/ Carried(s, t)
      BY <3>1, <3>2, <3>4 DEF DoorsOf, Tells
    <3>6. QED
      BY <3>1, <3>2, <3>5 DEF v
  <2>8. QED
    BY <1>6, <2>5, <2>6, <2>7
<1>7. QED
  BY <1>2, <1>3, <1>4, <1>5, <1>6, EditShape

\* A doorway that was carried by one more event has been carried.
LEMMA LoggingCarries ==
  ASSUME NEW s \in Seq(Events), NEW ev \in Events, NEW t
  PROVE  /\ Carried(s, t) => Carried(Append(s, ev), t)
         /\ ev.edit.op \in {"add", "move"} /\ ev.edit.thing = t => Carried(Append(s, ev), t)
<1> DEFINE r == Append(s, ev)
<1>1. DOMAIN s \subseteq DOMAIN r /\ \A i \in DOMAIN s : r[i] = s[i]
  OBVIOUS
<1>2. Len(s) + 1 \in DOMAIN r /\ r[Len(s) + 1] = ev
  OBVIOUS
<1> HIDE DEF r
<1>3. (Carried(s, t) => Carried(r, t)) /\ (ev.edit.op \in {"add", "move"} /\ ev.edit.thing = t => Carried(r, t))
  BY <1>1, <1>2 DEF Carried
<1>4. QED
  BY <1>3 DEF r

\* Doorways of the save keep telling in the world the save is put into.
LEMMA RestoredKeepsDoors ==
  ASSUME TypeOK, NEW s, DoorsOf(s, saved.world), NEW w \in World
  PROVE  DoorsOf(s, Restored(w)) /\ DoorsOf(s, WithDormant(Restored(w)))
<1> DEFINE v == Restored(w)
<1>1. v \in World /\ v.home = saved.world.home /\ v.ajar = saved.world.ajar
  BY RestoredIsWorld DEF Restored, World
<1>2. bound => v.exits = saved.world.exits
  BY DEF Restored, World
<1>3. WithDormant(v) = [v EXCEPT !.dormant = saved.world.dormant]
  BY DEF WithDormant
<1> HIDE DEF v
<1>4. /\ WithDormant(v).home = v.home /\ WithDormant(v).ajar = v.ajar
      /\ WithDormant(v).exits = v.exits
  BY <1>1, <1>3 DEF World
<1>5. DoorsOf(s, v) /\ DoorsOf(s, WithDormant(v))
  BY <1>1, <1>2, <1>4 DEF DoorsOf, Tells
<1>6. QED
  BY <1>5 DEF v

LEMMA NextDoors ==
  TypeOK /\ SidedInv /\ LogInv /\ DoorInv /\ [Next]_vars => DoorInv'
<1> SUFFICES ASSUME TypeOK, SidedInv, LogInv, DoorInv, [Next]_vars PROVE DoorInv'
  OBVIOUS
<1>0. ASSUME UNCHANGED <<log, world, saved, bound>> PROVE DoorInv'
  BY <1>0 DEF DoorInv, DoorsOf, Tells, Carried
<1>1. ASSUME NEW e \in Proposable, Propose(e) PROVE DoorInv'
  BY <1>0, <1>1 DEF Propose
<1>2. CASE Tick
  BY <1>0, <1>2 DEF Tick, queueVars
<1>3. CASE ApplyNext
  <2> DEFINE e == Head(pending)
             ev == [seq |-> nextSeq, edit |-> e]
  <2>1. e \in Edits /\ saved' = saved /\ bound' = bound
    BY <1>3 DEF ApplyNext, TypeOK
  <2>2. CASE Throws(world, e)
    BY <1>0, <1>3, <2>2 DEF ApplyNext
  <2>3. CASE ~Throws(world, e)
    <3>1. world' = Applied(world, e) /\ log' = Append(log, ev)
      BY <1>3, <2>3 DEF ApplyNext
    <3>2. ev \in Events /\ ev.edit = e
      BY <2>1 DEF Events, TypeOK
    <3> HIDE DEF e, ev
    <3>3. ASSUME NEW t \in Applied(world, e).ajar
          PROVE  /\ Applied(world, e).home[t] \in Rooms
                 /\ bound => Tells(Applied(world, e), t) \/ Carried(Append(log, ev), t)
      <4>1. /\ Applied(world, e).home[t] \in Rooms
            /\ \/ e.op \in {"add", "move"} /\ e.thing = t
               \/ bound => Tells(Applied(world, e), t) \/ Carried(log, t)
        BY <2>1, AppliedKeepsDoors DEF DoorInv, SidedInv, TypeOK
      <4>2. /\ Carried(log, t) => Carried(Append(log, ev), t)
            /\ e.op \in {"add", "move"} /\ e.thing = t => Carried(Append(log, ev), t)
        BY <3>2, LoggingCarries DEF TypeOK
      <4>3. QED
        BY <4>1, <4>2
    <3>4. DoorsOf(log, world)'
      BY <2>1, <3>1, <3>3 DEF DoorsOf, Tells, Carried
    <3>5. QED
      BY <2>1, <3>4 DEF DoorInv, DoorsOf
  <2>4. QED
    BY <2>2, <2>3
<1>4. CASE SaveState
  BY <1>4 DEF SaveState, queueVars, DoorInv, DoorsOf, Tells, Carried
<1>5. CASE Restart
  <2>1. saved' = saved /\ bound' = bound
    BY <1>5 DEF Restart
  <2>2. /\ DoorsOf(saved.log, Restored(Base))
        /\ DoorsOf(saved.log, WithDormant(Restored(Base)))
        /\ DoorsOf(<<>>, Base)
    BY BaseIsWorld, RestoredKeepsDoors DEF DoorInv, DoorsOf, Base
  <2>3. \/ world' = Base /\ log' = <<>>
        \/ world' \in {Restored(Base), WithDormant(Restored(Base))} /\ log' = saved.log
    BY <1>5 DEF Restart, LogInv
  <2>4. DoorsOf(log', world')
    BY <2>2, <2>3
  <2>5. QED
    BY <2>1, <2>4 DEF DoorInv, DoorsOf, Tells, Carried
<1>6. CASE LoadInPlace
  <2>1. saved' = saved /\ bound' = bound
    BY <1>6 DEF LoadInPlace
  <2>2. DoorsOf(saved.log, Restored(world)) /\ DoorsOf(saved.log, WithDormant(Restored(world)))
    BY RestoredKeepsDoors DEF DoorInv, TypeOK
  <2>3. CASE saved.dynamic
    <3>1. world' = WithDormant(Restored(world)) /\ log' = saved.log
      BY <1>6, <2>3 DEF LoadInPlace
    <3>2. QED
      BY <2>1, <2>2, <3>1 DEF DoorInv, DoorsOf, Tells, Carried
  <2>4. CASE ~saved.dynamic
    <3>1. world' = Restored(world) /\ log' = log /\ saved.log = <<>>
      BY <1>6, <2>4 DEF LoadInPlace, queueVars, LogInv
    <3>2. \A t : ~Carried(saved.log, t)
      BY <3>1 DEF Carried
    <3>3. DoorsOf(log, Restored(world))
      BY <2>2, <3>2 DEF DoorsOf
    <3>4. QED
      BY <2>1, <3>1, <3>3 DEF DoorInv, DoorsOf, Tells, Carried
  <2>5. QED
    BY <2>3, <2>4
<1>7. CASE UNCHANGED vars
  BY <1>0, <1>7 DEF vars, queueVars
<1>8. QED
  BY <1>1, <1>2, <1>3, <1>4, <1>5, <1>6, <1>7 DEF Next

LEMMA InitDoors == Init => DoorInv
BY DEF Init, DoorInv, DoorsOf, NoSave, Base

(* A doorway that says it is open has an open connection to show for it, if  *)
(* the mutations and the saves are of one scene manager, until an event of   *)
(* the log has carried the doorway to another place.                         *)
THEOREM OpenDoorsTell == Spec => []DoorsTell
<1>1. DoorInv => DoorsTell
  BY DEF DoorInv, DoorsOf, Tells, Carried, DoorsTell
<1>2. Init => SidedInv
  BY BaseIsSided DEF Init, SidedInv, NoSave
<1>3. QED
  BY <1>1, <1>2, InitDoors, NextDoors, InitLog, NextLog, NextSided, InitType, NextType, PTL DEF Spec

(* The stores of a scene agree: objects and the lists of their rooms,        *)
(* connections and their doorways, the world and its log.                    *)
THEOREM TheStoresAgree == Spec => []StoresAgree
BY RoomsListTheirThings, OpenDoorsTell, TheLogExplains, PTL DEF StoresAgree
=============================================================================
