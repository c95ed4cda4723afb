----------------------------- MODULE MCMindLoop -----------------------------
(* Constants for the TLC runs of MindLoop.                                   *)
EXTENDS MindLoop

CONSTANTS ann, hall, attic
=============================================================================
