---------------------------- MODULE MCObjectUse ----------------------------
(* A small scene for ObjectUse: the garden late in the day, with the       *)
(* coffee machine of the other scene brought into it.                      *)
EXTENDS ObjectUse, TLC

MCScene ==
  {[Planter EXCEPT !.state = [water_level |-> Whole, seeds_planted |-> 2, vegetables |-> 1]],
   [CoffeeMachine EXCEPT !.room = "garden",
                         !.state = [water_level |-> Whole, bean_count |-> 2, cup_count |-> 1]],
   WaterButt, Gate,
   [WateringCan EXCEPT !.state = [target_room |-> "workshop"]],
   Doorway("doorway-garden", "garden", {"workshop"})}
Symmetry == Permutations(Agents)
MCHome == [a \in Agents |-> "garden"]
MCDrives == [k \in DriveKeys |-> 90]
MCOrders == {Order("coffee-1", "workshop"), Order("planter-1", "")}
=============================================================================
