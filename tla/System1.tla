------------------------------ MODULE System1 -------------------------------
(***************************************************************************)
(* System 1 of evol-hive: the gate that decides at each tick whether an    *)
(* agent that is not thinking starts a cycle, what alarms it, and what is  *)
(* recorded of the cycles that end.  The pool of cycles is large enough    *)
(* here for every agent; how agents share a small one is PPERCycles.       *)
(***************************************************************************)
EXTENDS Integers, Sequences, Population

CONSTANTS
  Rooms,
  MaxQueue,       \* bound on the messages waiting for an agent
  MaxLog          \* bound on the mutations of the scene

ASSUME System1Assumption == MaxQueue \in Nat /\ MaxLog \in Nat

VARIABLES
  queue,     \* messages in the MessageQueue, by agent
  stage,     \* the cycle of an agent: none, started, or past its perception
  location,  \* where the agents are
  low,       \* agents with a drive beyond its threshold
  talking,   \* agents with a conversation, or an invitation, in their room
  log,       \* rooms of the scene's mutations, by seq
  records,   \* records, of the tracker the outcome recorder writes
  artifact,  \* weights of the gate: none, sound, or such that p is no number
  features   \* agents whose scalar features are cached

world == <<queue, location, low, talking, log>>
gate == <<artifact, features>>
system1Vars == <<world, stage, records, gate>>

Never == [low |-> FALSE, seq |-> 0, cycled |-> FALSE]
Recorded(a) == [low |-> a \in low, seq |-> Len(log), cycled |-> TRUE]

System1Init ==
  /\ queue = [a \in Agents |-> 0] /\ stage = [a \in Agents |-> "none"]
  /\ location \in [Agents -> Rooms] /\ low = {} /\ talking = {} /\ log = <<>>
  /\ records = [a \in Agents |-> Never]
  /\ artifact = "none" /\ features = {}
-----------------------------------------------------------------------------
(* Alarms.  The trigger source asks the tracker it was made with, by the   *)
(* assembly of the engine; assembleSystem1 makes another for the recorder. *)
TrackedByTriggers(a) == Never

Nearby(a) == \E i \in TrackedByTriggers(a).seq + 1 .. Len(log) : log[i] = location[a]

Crossed(a) == /\ TrackedByTriggers(a).cycled
              /\ TrackedByTriggers(a).low # (a \in low)

HardTrigger(a) == queue[a] > 0 \/ a \in talking \/ Nearby(a) \/ Crossed(a)

(* The gate: without features, or weights, it passes every candidate.      *)
(* leans are the agents that p, or the draw of the exploration, are for.   *)
\* A plausible mistake: what cannot be computed counts as no.
ClosesUnloaded(a, leans) == artifact = "sound" /\ (a \notin features \/ a \in leans)
Reacts(a, leans) == a \notin features \/ artifact # "sound" \/ HardTrigger(a) \/ a \in leans

\* A plausible mistake: the scheduler leaves alarms to the gate's weights.
StartsByWeights(a, leans) == stage[a] = "none" /\ a \in leans
Starts(a, leans) == stage[a] = "none" /\ (Reacts(a, leans) \/ HardTrigger(a))

(* A tick: PPERScheduler.update, then System1FeatureSystem.update.         *)
System1Tick(active) ==
  /\ \E leans \in SUBSET active :
       stage' = [a \in Agents |-> IF a \in active /\ Starts(a, leans) THEN "started" ELSE stage[a]]
  /\ artifact' = IF artifact = "broken" /\ \E a \in active \cap features : stage[a] = "none"
                 THEN "none" ELSE artifact
  /\ features' = features \cup active
  /\ UNCHANGED <<world, records>>

\* The first snapshot lands, and the messages are taken for the perception.
Perceives(a) ==
  /\ stage[a] = "started"
  /\ stage' = [stage EXCEPT ![a] = "thinking"]
  /\ queue' = [queue EXCEPT ![a] = 0]
  /\ UNCHANGED <<location, low, talking, log, records, gate>>

\* A cycle in the cooldown of its failures ends before it perceives, and it
\* may before its first snapshot lands: then nothing is recorded.
CoolsDown(a) ==
  /\ stage[a] = "started"
  /\ stage' = [stage EXCEPT ![a] = "none"]
  /\ records' \in {records, [records EXCEPT ![a] = Recorded(a)]}
  /\ UNCHANGED <<world, gate>>

\* The cycle ends, or throws; its second snapshot is recorded.
Settles(a) ==
  /\ stage[a] = "thinking"
  /\ stage' = [stage EXCEPT ![a] = "none"]
  /\ records' = [records EXCEPT ![a] = Recorded(a)]
  /\ UNCHANGED <<world, gate>>

\* Weights are loaded or swapped in; those that are not valid change nothing.
HotSwap(w) ==
  /\ artifact' = w
  /\ UNCHANGED <<world, stage, records, features>>
-----------------------------------------------------------------------------
(* What the rest of the program does meanwhile.                            *)
Spoken(a) ==
  /\ queue[a] < MaxQueue
  /\ queue' = [queue EXCEPT ![a] = @ + 1]
  /\ UNCHANGED <<location, low, talking, log, stage, records, gate>>

Mutated(r) ==
  /\ Len(log) < MaxLog
  /\ log' = Append(log, r)
  /\ UNCHANGED <<queue, location, low, talking, stage, records, gate>>

Moved(a, r) ==
  /\ location' = [location EXCEPT ![a] = r]
  /\ UNCHANGED <<queue, low, talking, log, stage, records, gate>>

DriveCrosses(a) ==
  /\ low' = IF a \in low THEN low \ {a} ELSE low \cup {a}
  /\ UNCHANGED <<queue, location, talking, log, stage, records, gate>>

Talks(a) ==
  /\ talking' = IF a \in talking THEN talking \ {a} ELSE talking \cup {a}
  /\ UNCHANGED <<queue, location, low, log, stage, records, gate>>

System1Step ==
  \/ \E a \in Agents : \/ Perceives(a) \/ CoolsDown(a) \/ Settles(a) \/ Spoken(a)
                       \/ DriveCrosses(a) \/ Talks(a)
                       \/ \E r \in Rooms : Moved(a, r)
  \/ \E r \in Rooms : Mutated(r)
  \/ \E w \in {"sound", "broken"} : HotSwap(w)
-----------------------------------------------------------------------------
System1TypeOK ==
  /\ queue \in [Agents -> 0..MaxQueue] /\ stage \in [Agents -> {"none", "started", "thinking"}]
  /\ location \in [Agents -> Rooms] /\ low \subseteq Agents /\ talking \subseteq Agents
  /\ log \in Seq(Rooms)
  /\ records \in [Agents -> [low : BOOLEAN, seq : Nat, cycled : BOOLEAN]]
  /\ artifact \in {"none", "sound", "broken"} /\ features \subseteq Agents

(* An object is news near an agent only if it changed since the last cycle *)
(* of the agent that was recorded.                                         *)
NearbyIsNews ==
  \A a \in Agents : Nearby(a) =>
    \E i \in records[a].seq + 1 .. Len(log) : log[i] = location[a]
=============================================================================
