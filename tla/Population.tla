----------------------------- MODULE Population -----------------------------
(* The agents that the modules about single minds share.                     *)
CONSTANT Agents
=============================================================================
