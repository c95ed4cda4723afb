---------------------------- MODULE MCNavigation ----------------------------
(* Constants for the TLC runs of Navigation.                                 *)
EXTENDS Navigation

CONSTANTS ann, hall, attic, loft, chest

Line == {{hall, attic}, {attic, loft}}
ChestInAttic == [t \in Things |-> attic]
=============================================================================
