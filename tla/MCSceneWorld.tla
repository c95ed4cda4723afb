---------------------------- MODULE MCSceneWorld ----------------------------
(* Constants for the TLC runs of SceneWorld: a house of three rooms, a       *)
(* doorway in the hall and a lamp, an agent of the scene and one who joins.  *)
EXTENDS SceneWorld

CONSTANTS hall, kitchen, garden, door, lamp, ann, bob

House == {hall, kitchen, garden}
Inventory == {door, lamp}
People == {ann, bob}

Ring  == {{hall, kitchen}, {kitchen, garden}, {garden, hall}}
Place == [t \in Inventory |-> IF t = door THEN hall ELSE Nowhere]
Ways  == [t \in Inventory |-> IF t = door THEN {kitchen, garden} ELSE {}]

Passages == {[op |-> o, from |-> hall, to |-> kitchen] : o \in {"open", "close", "insert", "cut"}}

\* The lamp comes, goes and is carried about; the door is carried off.
Furnishing ==
  {[op |-> "add", thing |-> lamp, room |-> hall],
   [op |-> "add", thing |-> lamp, room |-> kitchen],
   [op |-> "remove", thing |-> lamp],
   [op |-> "move", thing |-> lamp, room |-> kitchen],
   [op |-> "move", thing |-> door, room |-> garden]}

Casting ==
  {[op |-> "despawn", agent |-> ann], [op |-> "wake", agent |-> ann],
   [op |-> "spawn", agent |-> ann], [op |-> "spawn", agent |-> bob]}

OtherWays ==
  {[op |-> "cut", from |-> garden, to |-> hall],
   [op |-> "close", from |-> kitchen, to |-> hall]}

Everything == Passages \cup Furnishing \cup Casting \cup OtherWays

\* A save nobody can load any more makes no difference to what follows.
LoadableView ==
  <<world, queueVars, phase, bound, spent, IF spent.loads < MaxLoads THEN saved ELSE NoSave>>
=============================================================================
