------------------------------ MODULE MindLoop ------------------------------
(***************************************************************************)
(* System 1 and the identity of the agents, moved by the same ticks of the *)
(* game loop and the same spawns and despawns.                             *)
(***************************************************************************)
EXTENDS System1, Identity

vars == <<system1Vars, identityVars>>

Init == System1Init /\ IdentityInit

Tick == System1Tick(Active) /\ IdentityTick

Next ==
  \/ Tick
  \/ System1Step /\ UNCHANGED identityVars
  \/ IdentityStep /\ UNCHANGED system1Vars

Spec == Init /\ [][Next]_vars

\* Ticks go on, cycles end (LlmClient!EveryCallEnds), and so do proposals.  A
\* cooldown is over after failureCooldownMs, so that an agent that starts
\* cycles again and again perceives.
FairSpec ==
  /\ Spec
  /\ WF_vars(Tick)
  /\ \A a \in Agents :
       /\ SF_vars(Perceives(a) /\ UNCHANGED identityVars)
       /\ WF_vars(Settles(a) /\ UNCHANGED identityVars)
       /\ WF_vars(\E i \in DOMAIN flights[a] : (Proposed(a, i) \/ ProposalFails(a, i))
                                               /\ UNCHANGED system1Vars)
-----------------------------------------------------------------------------
TypeOK == System1TypeOK /\ IdentityTypeOK

(* No message waits for ever in the queue of an agent that stays: whatever *)
(* weights the gate has, the message itself starts the cycle that takes it.*)
AlarmHeard ==
  \A a \in Agents : queue[a] > 0 ~> queue[a] = 0 \/ a \notin Active

(* A gate without usable weights holds nobody back: an agent that stays    *)
(* thinks again, or usable weights arrive.                                 *)
OpenUntilLoaded ==
  \A a \in Agents : artifact # "sound" ~> stage[a] # "none" \/ artifact = "sound"
                                          \/ a \notin Active

(* The gate keeps nobody from thinking who has a reason to.                *)
GateLetsThrough == AlarmHeard /\ OpenUntilLoaded
=============================================================================
