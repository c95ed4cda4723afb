------------------------------ MODULE Identity ------------------------------
(***************************************************************************)
(* How an agent of evol-hive may change who it is.  Salience adds up until *)
(* a tick finds it over a threshold and starts a consolidation pass, which *)
(* asks a model for changes and hands them to the self-model manager; the  *)
(* manager bounds what it is handed, by pass or by tool, in a session.     *)
(*                                                                         *)
(* Of a self-model only its revision is kept, of a proposal how many of    *)
(* its deltas are valid.  A session lasts as long as the process: nothing  *)
(* calls resetSession or resetSessionBudget.                               *)
(***************************************************************************)
EXTENDS Integers, Sequences, Population

CONSTANTS
  MidSessionThreshold,    \* SalienceConfig.midSessionThreshold
  SalienceNormalization,  \* SalienceConfig.salienceNormalization
  MaxDeltasPerSession,    \* of the session, in the service and in the manager
  MaxDeltasPerUpdate,     \* IDENTITY_MAX_DELTAS_PER_UPDATE
  MaxPasses,              \* maxConsolidationsPerSession
  MinApplyInterval,       \* minApplyIntervalTicks
  MaxProposed,            \* bound on the deltas of a proposal
  MaxSalience,            \* bound on the salience recorded
  MaxFlights              \* bound on the passes of an agent under way

ASSUME IdentityAssumption ==
  /\ MidSessionThreshold \in Nat /\ SalienceNormalization \in Nat \ {0}
  /\ MaxDeltasPerSession \in Nat /\ MaxDeltasPerUpdate \in Nat
  /\ MaxPasses \in Nat /\ MinApplyInterval \in Nat
  /\ MaxProposed \in Nat /\ MaxSalience \in Nat /\ MaxFlights \in Nat

VARIABLES
  salience,    \* accumulated, of the SalienceAccumulator
  flights,     \* consolidate calls whose proposal is awaited
  begun,       \* how many of them there have been, up to one too many
  passesUsed,  \* sessionPassesUsed
  deltasUsed,  \* sessionDeltasUsed
  models,      \* revision of the self-model, by agent; 0: there is none
  budget,      \* sessionBudget: deltas applied
  applied,     \* agents with a lastApplyTick
  byTool,      \* deltas applied for update_self_model
  away         \* snapshots of despawned agents: Snapshot of the revision; 0: active

service == <<salience, flights, begun, passesUsed, deltasUsed>>
manager == <<models, budget, applied, byTool>>
identityVars == <<service, manager, away>>

Less(m, n) == IF m < n THEN m ELSE n

Active == {a \in Agents : away[a] = 0}
Snapshot(revision) == revision + 1

\* An agent loaded from a save of an earlier format has no self-model.

IdentityInit ==
  /\ salience = [a \in Agents |-> 0] /\ flights = [a \in Agents |-> <<>>]
  /\ begun = [a \in Agents |-> 0]
  /\ passesUsed = [a \in Agents |-> 0] /\ deltasUsed = [a \in Agents |-> 0]
  /\ models \in [Agents -> {0, 1}] /\ budget = [a \in Agents |-> 0]
  /\ applied = {} /\ byTool = [a \in Agents |-> 0]
  /\ away = [a \in Agents |-> 0]
-----------------------------------------------------------------------------
(* The self-model manager.  No caller of applySelfModelDeltas passes a     *)
(* tick, so every apply is at tick 0: with an interval, the first one an   *)
(* agent gets is its last.                                                 *)
RateLimited(a) == a \in applied /\ 0 - 0 < MinApplyInterval

\* A plausible mistake: only the bound on one update counts.
BoundPerUpdate(a) == MaxDeltasPerUpdate
Bound(a) == Less(MaxDeltasPerUpdate, MaxDeltasPerSession - budget[a])

\* How many of n valid deltas applySelfModelDeltas applies.
Accepted(a, n) ==
  IF models[a] = 0 \/ RateLimited(a) \/ budget[a] >= MaxDeltasPerSession THEN 0
  ELSE Less(n, Bound(a))

Apply(a, k) ==
  IF k > 0
  THEN /\ models' = [models EXCEPT ![a] = @ + 1]
       /\ budget' = [budget EXCEPT ![a] = @ + k]
       /\ applied' = applied \cup {a}
  ELSE UNCHANGED <<models, budget, applied>>
-----------------------------------------------------------------------------
(* Salience is recorded for the importance of samples, by the host.        *)
RecordSalience(a) ==
  /\ salience[a] < MaxSalience
  /\ salience' = [salience EXCEPT ![a] = @ + 1]
  /\ UNCHANGED <<flights, begun, passesUsed, deltasUsed, manager, away>>

ShouldConsolidate(a) == salience[a] >= MidSessionThreshold

\* round(maxDeltasPerSession * computeSalienceNorm(...))
WeightedBudget(a) ==
  (2 * MaxDeltasPerSession * Less(salience[a], SalienceNormalization) + SalienceNormalization)
    \div (2 * SalienceNormalization)

Asks(a) == a \in Active /\ ShouldConsolidate(a) /\ passesUsed[a] < MaxPasses

(* identityTrigger.tick of every active agent: consolidateMidSession       *)
(* starts, as often as a tick finds the salience still there; without a    *)
(* pass left it is over at once, and the salience is taken.                *)
IdentityTick ==
  /\ \A a \in Agents : Asks(a) => Len(flights[a]) < MaxFlights
  /\ flights' = [a \in Agents |->
       IF Asks(a) THEN Append(flights[a], [used |-> passesUsed[a], override |-> WeightedBudget(a),
                                           deltas |-> deltasUsed[a]])
       ELSE flights[a]]
  /\ begun' = [a \in Agents |-> IF Asks(a) THEN Less(begun[a], MaxPasses) + 1 ELSE begun[a]]
  /\ salience' = [a \in Agents |->
       IF a \in Active /\ ShouldConsolidate(a) /\ ~Asks(a) THEN 0 ELSE salience[a]]
  /\ UNCHANGED <<passesUsed, deltasUsed, manager, away>>

\* A plausible mistake: the deltas used are those read before the proposal.
UsedBefore(a, i) == flights[a][i].deltas
Used(a, i) == deltasUsed[a]

Landed(a, i) == SubSeq(flights[a], 1, i - 1) \o SubSeq(flights[a], i + 1, Len(flights[a]))

(* The rest of consolidate, and of consolidateMidSession.  passesUsed is   *)
(* what it was before the proposal, and one more.                          *)
Proposed(a, i) ==
  /\ \E total \in 0..MaxProposed : \E valid \in 0..total :
       LET room == Less(MaxDeltasPerSession - Used(a, i), flights[a][i].override)
           k == IF room <= 0 THEN 0 ELSE Accepted(a, Less(valid, room)) IN
       /\ Apply(a, k)
       /\ deltasUsed' = IF room > 0 /\ total > 0
                        THEN [deltasUsed EXCEPT ![a] = Used(a, i) + k] ELSE deltasUsed
  /\ passesUsed' = [passesUsed EXCEPT ![a] = flights[a][i].used + 1]
  /\ salience' = [salience EXCEPT ![a] = 0]
  /\ flights' = [flights EXCEPT ![a] = Landed(a, i)]
  /\ UNCHANGED <<begun, byTool, away>>

\* The provider fails: nothing is counted, the salience stays.
ProposalFails(a, i) ==
  /\ flights' = [flights EXCEPT ![a] = Landed(a, i)]
  /\ UNCHANGED <<salience, begun, passesUsed, deltasUsed, manager, away>>

\* executeUpdateSelfModel, for a host that offers the tool.
UpdateSelfModel(a) ==
  /\ \E valid \in 0..MaxProposed :
       LET k == Accepted(a, valid) IN
       /\ Apply(a, k)
       /\ byTool' = [byTool EXCEPT ![a] = @ + k]
  /\ UNCHANGED <<service, away>>

\* The snapshot holds a copy, if there is a model; the manager keeps it, and
\* applies to it.
Despawn(a) ==
  /\ a \in Active
  /\ away' = [away EXCEPT ![a] = Snapshot(models[a])]
  /\ UNCHANGED <<service, manager>>

\* restore, or seedFromProfile, which leaves a model that is there.
Respawn(a) ==
  /\ a \notin Active
  /\ \/ away[a] # Snapshot(0) /\ models' = [models EXCEPT ![a] = away[a] - 1]
     \/ away[a] = Snapshot(0) /\ models' = [models EXCEPT ![a] = IF @ = 0 THEN 1 ELSE @]
  /\ away' = [away EXCEPT ![a] = 0]
  /\ UNCHANGED <<service, budget, applied, byTool>>

IdentityStep ==
  \E a \in Agents :
    \/ RecordSalience(a) \/ UpdateSelfModel(a) \/ Despawn(a) \/ Respawn(a)
    \/ \E i \in DOMAIN flights[a] : Proposed(a, i) \/ ProposalFails(a, i)

IdentitySpec == IdentityInit /\ [][IdentityTick \/ IdentityStep]_identityVars
-----------------------------------------------------------------------------
Flights == [used : Nat, override : Nat, deltas : Nat]

IdentityTypeOK ==
  /\ salience \in [Agents -> Nat] /\ begun \in [Agents -> Nat]
  /\ flights \in [Agents -> Seq(Flights)]
  /\ passesUsed \in [Agents -> Nat] /\ deltasUsed \in [Agents -> Nat]
  /\ models \in [Agents -> Nat] /\ budget \in [Agents -> Nat]
  /\ applied \subseteq Agents /\ byTool \in [Agents -> Nat] /\ away \in [Agents -> Nat]

(* However many passes overlap, each with an idea of its own of what is    *)
(* left, and whatever the tool adds: no more deltas are applied in a       *)
(* session than it has.                                                    *)
DeltasBounded == \A a \in Agents : budget[a] <= MaxDeltasPerSession

(* The two budgets agree: what the manager has applied is what the service *)
(* has counted for its passes and what the tool was granted, though the    *)
(* service writes its count back after an await.                           *)
BudgetsAgree == \A a \in Agents : budget[a] = deltasUsed[a] + byTool[a]

(* The budget of a session holds, and everybody knows what is left of it.  *)
BudgetsHold == DeltasBounded /\ BudgetsAgree

(* A session has at most maxConsolidationsPerSession passes.               *)
PassesBounded == \A a \in Agents : begun[a] <= MaxPasses
=============================================================================
