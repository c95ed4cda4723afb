----------------------------- MODULE SceneData -----------------------------
(***************************************************************************)
(* The objects of evol-hive's scenes as data: their affordances, the       *)
(* conditions they are offered under, the rules their state follows, and   *)
(* the handlers that carry an affordance out.                              *)
(*                                                                         *)
(* A state is a function from field names.  Quantities that rules change   *)
(* are counted in parts, Whole of them to one unit; names, labels and      *)
(* descriptions are left out.                                              *)
(***************************************************************************)
EXTENDS Integers, FiniteSets, Sequences

CONSTANTS
  Whole,      \* parts of one unit of water
  WithGarden  \* whether the scene registers the handlers of the dynamic world

ASSUME SceneDataAssumption == Whole \in Nat \ {0} /\ WithGarden \in BOOLEAN

Nothing == [f \in {} |-> 0]
Read(s, f) == IF f \in DOMAIN s THEN s[f] ELSE 0
Merge(s, p) == [f \in DOMAIN s \cup DOMAIN p |-> IF f \in DOMAIN p THEN p[f] ELSE s[f]]
Set(s, f, v) == Merge(s, [x \in {f} |-> v])
-----------------------------------------------------------------------------
(* Conditions are read when affordances are offered, preconditions when    *)
(* one is executed; a name without a registered checker is never met.      *)

Is(f, op, v) == [field |-> f, operator |-> op, value |-> v]

\* A plausible mistake: the bound itself passes for more.
EvaluateLoosely(v, op, bound) ==
  \/ op \in {">", ">="} /\ v >= bound
  \/ op \in {"<", "<="} /\ v =< bound
  \/ op = "==" /\ v = bound
  \/ op = "!=" /\ v # bound

EvaluateSingle(v, op, bound) ==
  \/ op = ">" /\ v > bound
  \/ op = "<" /\ v < bound
  \/ op = ">=" /\ v >= bound
  \/ op = "<=" /\ v =< bound
  \/ op = "==" /\ v = bound
  \/ op = "!=" /\ v # bound

EvaluateConditions(s, conditions) ==
  \A c \in conditions : c.field \in DOMAIN s /\ EvaluateSingle(s[c.field], c.operator, c.value)

Checkers == [has_water |-> "water_level", has_beans |-> "bean_count", has_cups |-> "cup_count",
             has_paper |-> "paper_count", has_books |-> "book_count",
             has_blooms |-> "bloom_count", has_water_supply |-> "water_supply"]

CheckPreconditions(s, names) ==
  \A n \in names : \/ n = "is_powered" /\ "powered_on" \in DOMAIN s /\ s["powered_on"]
                   \/ n \in DOMAIN Checkers /\ Read(s, Checkers[n]) > 0
-----------------------------------------------------------------------------
(* Handlers.  An answer says whether the affordance succeeded, the state   *)
(* it writes (if it writes one), the patches to other objects, what the    *)
(* drives gain, and the room its agent goes to or its object is moved to.  *)

Refused == [ok |-> FALSE, writes |-> FALSE, state |-> Nothing, patches |-> {},
            gain |-> Nothing, goes |-> "", moves |-> ""]
Accepted == [Refused EXCEPT !.ok = TRUE]
Became(s, gain) == [Accepted EXCEPT !.writes = TRUE, !.state = s, !.gain = gain]
UsesUp(s, f, n, gain) ==
  IF Read(s, f) =< 0 THEN Refused ELSE Became(Set(s, f, Read(s, f) - n), gain)
CountsUp(s, f, gain) == Became(Set(s, f, Read(s, f) + 1), gain)
Patching(answer, o, f, v) == [answer EXCEPT !.patches = {[object |-> o, patch |-> [x \in {f} |-> v]]}]

Furniture(id, s) ==
  CASE id = "relax" -> Became(s, [comfort |-> 20, energy |-> 5])
    [] id = "read_book" -> UsesUp(s, "book_count", 1, [curiosity |-> 20, energy |-> -10])
    [] id = "sit_outside" -> Became(s, [comfort |-> 15, curiosity |-> 5, energy |-> 3])
    [] OTHER -> Refused

BrewCoffee(s) ==
  IF Read(s, "water_level") =< 0 \/ Read(s, "bean_count") =< 0 THEN Refused
  ELSE Became(Merge(s, [water_level |-> s["water_level"] - Whole,
                        bean_count |-> s["bean_count"] - 1]), [energy |-> 20])

Appliance(id, s) ==
  CASE id = "brew_coffee" -> BrewCoffee(s)
    [] id = "add_water" -> Became(s, Nothing)
    [] id = "pour_cup" -> UsesUp(s, "cup_count", 1, [comfort |-> 5])
    [] id = "watch_tv" -> Became(Set(s, "powered_on", FALSE),
                                 [comfort |-> 15, energy |-> -5, curiosity |-> 5])
    [] id = "work" -> CountsUp(s, "tasks_completed", [energy |-> -15])
    [] id = "get_food" -> Became(s, [hunger |-> -20])
    [] id = "print_document" -> UsesUp(s, "paper_count", 1, [curiosity |-> 2])
    [] OTHER -> Refused

Fixture(id, s) ==
  CASE id = "sleep" -> Became(s, [energy |-> 30, comfort |-> -5])
    [] id = "take_shower" -> Became(Set(s, "water_level", Read(s, "water_level") - Whole),
                                    [comfort |-> 25, energy |-> -5])
    [] id = "use_bathroom" -> Became(s, [comfort |-> 10])
    [] id = "wash_hands" -> Became(s, [comfort |-> 5])
    [] id = "refill_pitcher" ->
         LET taken == UsesUp(s, "water_supply", Whole, Nothing)
         IN  IF taken.ok THEN Patching(taken, "coffee-1", "water_level", 5 * Whole) ELSE Refused
    [] OTHER -> Refused

Nature(id, s) ==
  CASE id = "observe_flowers" -> Became(s, [curiosity |-> 10, comfort |-> 5])
    [] id = "go_outside" -> Accepted
    [] OTHER -> Refused

\* Handlers of the office and morning scenes that no plugin has.
Office(id, s) ==
  CASE id = "brainstorm" ->
         CountsUp(s, "ideas_generated", [curiosity |-> 15, social |-> 5, energy |-> -10])
    [] id = "small_talk" -> Became(s, [social |-> 15, energy |-> -2])
    [] id = "hold_meeting" ->
         CountsUp(s, "meetings_held", [social |-> 20, energy |-> -15, comfort |-> -5])
    [] OTHER -> Refused

PlantSeeds(s) ==
  IF Read(s, "seeds_planted") >= 3 THEN Refused
  ELSE CountsUp(s, "seeds_planted", [curiosity |-> 12, comfort |-> 4])

\* A plausible mistake: the seeds stay planted.
HarvestAgain(s) ==
  IF Read(s, "seeds_planted") < 3 THEN Refused
  ELSE CountsUp(s, "vegetables", [curiosity |-> 10, comfort |-> 5])

Harvest(s) ==
  IF Read(s, "seeds_planted") < 3 THEN Refused
  ELSE Became(Merge(s, [vegetables |-> Read(s, "vegetables") + 1, seeds_planted |-> 0]),
              [curiosity |-> 10, comfort |-> 5])

Garden(id, s) ==
  CASE id = "plant_seeds" -> PlantSeeds(s)
    [] id = "water_plants" -> UsesUp(s, "water_level", Whole, [curiosity |-> 10, comfort |-> 5])
    [] id = "fill_watering_can" ->
         Patching(Became(s, Nothing), "planter-1", "water_level", 5 * Whole)
    [] id = "harvest" -> Harvest(s)
    [] id = "eat" -> UsesUp(s, "vegetables", 1, [hunger |-> 25])
    [] id = "pick_herbs" -> Became(s, [curiosity |-> 8])
    [] id = "eat_herbs" -> Became(s, [hunger |-> 20])
    [] id = "rest_among_seedlings" -> Became(s, [comfort |-> 15, energy |-> 4])
    [] id = "repot_seedlings" -> Became(s, [curiosity |-> 12, comfort |-> 5])
    [] OTHER -> Refused

Workshop(id, o, a, s) ==
  CASE id = "work" ->
         CountsUp(s, "items_built", [curiosity |-> 6, energy |-> -4, comfort |-> -3])
    [] id = "take_tool" -> Became(Merge(s, [taken_by |-> a, taken_from |-> o]), [curiosity |-> 8])
    [] id = "build_planter" ->
         IF "taken_by" \notin DOMAIN s THEN Refused
         ELSE CountsUp(s, "planters_built", [curiosity |-> 20, comfort |-> 8])
    [] OTHER -> Refused

\* A move takes place at the next tick.
Carry(s) ==
  IF "target_room" \notin DOMAIN s THEN Refused
  ELSE [Became([f \in DOMAIN s \ {"target_room"} |-> s[f]], Nothing)
          EXCEPT !.moves = s["target_room"]]

GardenIds == {"plant_seeds", "water_plants", "fill_watering_can", "harvest", "eat",
              "pick_herbs", "eat_herbs", "rest_among_seedlings", "repot_seedlings"}
WorkshopIds == {"work", "take_tool", "build_planter"}
FurnitureIds == {"relax", "read_book", "sit_outside"}
FixtureIds == {"sleep", "take_shower", "use_bathroom", "wash_hands", "refill_pitcher"}
NatureIds == {"observe_flowers", "go_outside"}
OfficeIds == {"brainstorm", "small_talk", "hold_meeting"}

\* A teleport to the rooms the doorway plugin knows, a walk to the others.
Fixtures == {"bedroom", "bathroom", "living_room", "kitchen", "office", "break_room",
             "meeting_room", "garden"}
GoTo == [garden |-> "go_to_garden", workshop |-> "go_to_workshop",
         greenhouse |-> "go_to_greenhouse", kitchen |-> "go_to_kitchen",
         living_room |-> "go_to_living_room", bathroom |-> "go_to_bathroom"]
RoomOf(id) == {r \in DOMAIN GoTo : GoTo[r] = id}

\* One table by affordance id: what a scene registers itself replaces the plugins'.
Handle(id, o, a, s) ==
  IF RoomOf(id) # {} THEN [Accepted EXCEPT !.goes = CHOOSE r \in RoomOf(id) : TRUE]
  ELSE IF id = "observe" THEN Became(s, Nothing)
  ELSE IF id = "carry" THEN Carry(s)
  ELSE IF id \in {"open_gate", "close_gate"} THEN Accepted
  ELSE IF WithGarden /\ id \in GardenIds THEN Garden(id, s)
  ELSE IF WithGarden /\ id \in WorkshopIds THEN Workshop(id, o, a, s)
  ELSE IF id \in FurnitureIds THEN Furniture(id, s)
  ELSE IF id \in FixtureIds THEN Fixture(id, s)
  ELSE IF id \in NatureIds THEN Nature(id, s)
  ELSE IF id \in OfficeIds THEN Office(id, s)
  ELSE Appliance(id, s)
-----------------------------------------------------------------------------
(* Scenes: objects with their affordances, rules and compound actions.     *)

Aff(id, needs, effects, when) ==
  [id |-> id, preconditions |-> needs, effects |-> effects, conditions |-> when, progresses |-> ""]
Plain(id) == Aff(id, {}, Nothing, {})
Gives(id, effects) == Aff(id, {}, effects, {})
Toward(aff, drive) == [aff EXCEPT !.progresses = drive]

Observe == Plain("observe")

MakeObject(id, room, affordances, state) ==
  [id |-> id, room |-> room, affordances |-> affordances,
   state |-> state, rules |-> <<>>, compounds |-> Nothing]
Rule(f, op, target) == [field |-> f, operation |-> op, target |-> target]

Planter == MakeObject("planter-1", "garden",
  {Observe, Toward(Plain("plant_seeds"), "hunger"),
   Aff("water_plants", {}, [curiosity |-> 10, comfort |-> 5], {Is("water_level", ">", 0)}),
   Toward(Aff("harvest", {}, [curiosity |-> 10, comfort |-> 5],
              {Is("seeds_planted", ">=", 3)}), "hunger"),
   Aff("eat", {}, [hunger |-> 25], {Is("vegetables", ">=", 1)})},
  [water_level |-> 5 * Whole, seeds_planted |-> 0, vegetables |-> 0])
Toolbox == MakeObject("toolbox-1", "garden", {Observe, Plain("take_tool")}, Nothing)
Gate == MakeObject("gate-1", "garden", {Plain("open_gate"), Plain("close_gate")}, Nothing)
WaterButt == MakeObject("water-butt-1", "garden", {Observe, Plain("fill_watering_can")}, Nothing)
PortableObject(id, room) == MakeObject(id, room, {Observe, Gives("carry", [energy |-> -5])}, Nothing)
WateringCan == PortableObject("watering-can-1", "garden")
GardenBench == MakeObject("garden-bench-1", "garden",
  {Observe, Gives("sit_outside", [comfort |-> 15, curiosity |-> 5, energy |-> 3]),
   Gives("relax", [comfort |-> 20, energy |-> 5])}, Nothing)
Workbench == MakeObject("workbench-1", "workshop", {Plain("work"), Plain("build_planter")}, Nothing)
Stool == MakeObject("stool-1", "workshop",
  {Observe, Gives("relax", [comfort |-> 20, energy |-> 5])}, Nothing)
PottingTable == MakeObject("potting-table-1", "greenhouse",
  {Observe, Gives("repot_seedlings", [curiosity |-> 12, comfort |-> 5]),
   Gives("rest_among_seedlings", [comfort |-> 15, energy |-> 4])}, Nothing)
SeedShelf == MakeObject("seed-shelf-1", "greenhouse",
  {Observe, Gives("pick_herbs", [curiosity |-> 8]), Gives("eat_herbs", [hunger |-> 20])}, Nothing)
Doorway(id, room, to) ==
  MakeObject(id, room, {Observe} \cup {Plain(GoTo[r]) : r \in to}, Nothing)

DynamicWorld ==
  {Planter, Toolbox, Gate, WaterButt, WateringCan, GardenBench, Workbench, Stool, PottingTable,
   SeedShelf, Doorway("doorway-garden", "garden", {"workshop"}),
   Doorway("doorway-garden-greenhouse", "garden", {"greenhouse"}),
   Doorway("doorway-workshop", "workshop", {"garden"}),
   Doorway("doorway-greenhouse", "greenhouse", {"garden"})}

CoffeeMachine ==
  [MakeObject("coffee-1", "kitchen",
     {Observe, Aff("add_water", {}, Nothing, {Is("water_level", "<", 5 * Whole)}),
      Aff("brew_coffee", {"has_water", "has_beans"}, [energy |-> 20],
          {Is("water_level", ">", 0), Is("bean_count", ">", 0)}),
      Aff("pour_cup", {"has_cups"}, [comfort |-> 5], {})},
     [water_level |-> 5 * Whole, bean_count |-> 10, cup_count |-> 3])
   EXCEPT !.rules = <<Rule("water_level", "decay", 0), Rule("water_level", "approach", 5 * Whole)>>,
          !.compounds = [brew_coffee_sequence |-> <<"add_water", "brew_coffee", "pour_cup">>]]
Sink ==
  [MakeObject("sink-1", "kitchen",
     {Observe, Aff("refill_pitcher", {"has_water_supply"}, Nothing, {}),
      Gives("wash_hands", [comfort |-> 5])},
     [water_supply |-> 20 * Whole])
   EXCEPT !.rules = <<Rule("water_supply", "decay", 0)>>]
Bookshelf == MakeObject("bookshelf-1", "living_room",
  {Observe,
   Aff("read_book", {"has_books"}, [curiosity |-> 20, energy |-> -10], {Is("book_count", ">", 0)})},
  [book_count |-> 8])
Sofa == MakeObject("sofa-1", "living_room",
  {Observe, Gives("relax", [comfort |-> 20, energy |-> 5])}, Nothing)
Toilet == MakeObject("toilet-1", "bathroom",
  {Observe, Gives("use_bathroom", [comfort |-> 10])}, Nothing)
Bench == MakeObject("bench-1", "garden",
  {Observe, Gives("sit_outside", [comfort |-> 15, curiosity |-> 5, energy |-> 3])}, Nothing)
FlowerBed ==
  [MakeObject("flowerbed-1", "garden",
     {Observe, Aff("observe_flowers", {"has_blooms"}, [curiosity |-> 10, comfort |-> 5],
          {Is("bloom_count", ">", 0)})}, [bloom_count |-> 5 * Whole])
   EXCEPT !.rules = <<Rule("bloom_count", "decay", 0), Rule("bloom_count", "approach", 5 * Whole)>>]

CoffeeShop ==
  {CoffeeMachine, Sink, Bookshelf, Sofa, Toilet, Bench, FlowerBed,
   Doorway("doorway-kitchen", "kitchen", {"living_room", "garden"}),
   Doorway("doorway-living_room", "living_room", {"kitchen", "bathroom", "garden"}),
   Doorway("doorway-bathroom", "bathroom", {"living_room"}),
   Doorway("doorway-garden", "garden", {"living_room", "kitchen"})}
=============================================================================
