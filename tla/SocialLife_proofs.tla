-------------------------- MODULE SocialLife_proofs --------------------------
(***************************************************************************)
(* Proofs about SocialLife, PlanPrompt and LlmAnswers: the accounts of two *)
(* agents agree, whom a prompt offers to talk to may be talked to, what    *)
(* its texts name is offered, what is cut from it leaves nothing dangling, *)
(* and the schema, the validator, the floor plan and the guardrail agree   *)
(* on what the LLM answers, for every number of agents, calls, walks and   *)
(* despawns, all situations, all lengths of texts and all answers.         *)
(***************************************************************************)
EXTENDS SocialLife, LlmAnswers, FiniteSetTheorems, SequenceTheorems, WellFoundedInduction, TLAPS


Counters == Nat \cup {Untracked}
Relationship == [trust : Int, familiarity : Int, sent : Counters, received : Counters]
Ledgers == UNION {[S -> Relationship] : S \in SUBSET Agents}
Deltas == [trust : Int, familiarity : Int, sent : {0, 1}, received : {0, 1}]

\* What the induction needs to know of the state.
Kinds ==
  /\ active \subseteq Agents
  /\ rel \in [Agents -> Ledgers]
  /\ queue \in [Agents -> [Agents -> Nat]]
  /\ taken \in [Agents -> [Agents -> Nat]]
  /\ fresh \subseteq Agents

IInv == Kinds /\ LedgerAgrees

\* What one ledger says of another agent, as numbers.
SentIn(rels, b) == Counted(Relation(rels, b).sent)
ReceivedIn(rels, b) == Counted(Relation(rels, b).received)
-----------------------------------------------------------------------------
LEMMA RelationType ==
  ASSUME NEW l \in Ledgers, NEW b \in Agents
  PROVE  Relation(l, b) \in Relationship /\ SentIn(l, b) \in Nat /\ ReceivedIn(l, b) \in Nat
<1>1. PICK S \in SUBSET Agents : l \in [S -> Relationship]
  BY DEF Ledgers
<1>2. Strangers \in Relationship
  BY DEF Strangers, Relationship, Counters, Untracked
<1>3. Relation(l, b) \in Relationship
  BY <1>1, <1>2 DEF Relation
<1> QED BY <1>3 DEF Relationship, Counters, Untracked, SentIn, ReceivedIn, Counted

LEMMA MergedType ==
  ASSUME NEW r \in Relationship, NEW d \in Deltas
  PROVE  /\ Merged(r, d) \in Relationship
         /\ Counted(Merged(r, d).sent) = Counted(r.sent) + d.sent
         /\ Counted(Merged(r, d).received) = Counted(r.received) + d.received
<1>1. r.trust \in Int /\ r.familiarity \in Int /\ r.sent \in Counters /\ r.received \in Counters
  BY DEF Relationship
<1>2. d.trust \in Int /\ d.familiarity \in Int /\ d.sent \in {0, 1} /\ d.received \in {0, 1}
  BY DEF Deltas
<1>3. Within(0, r.trust + d.trust, 100) \in Int /\ Within(0, r.familiarity + d.familiarity, 100) \in Int
  BY <1>1, <1>2 DEF Within
<1>4. /\ Merged(r, d).sent = IF d.sent = 0 THEN r.sent ELSE Counted(r.sent) + d.sent
      /\ Merged(r, d).received = IF d.received = 0 THEN r.received ELSE Counted(r.received) + d.received
  BY DEF Merged
<1>5. Counted(r.sent) \in Nat /\ Counted(r.received) \in Nat
  BY <1>1 DEF Counted, Counters, Untracked
<1>6. Merged(r, d).sent \in Counters /\ Merged(r, d).received \in Counters
  BY <1>1, <1>2, <1>4, <1>5 DEF Counters
<1>7. Merged(r, d) \in Relationship
  BY <1>3, <1>6 DEF Merged, Relationship
<1> QED BY <1>2, <1>4, <1>5, <1>7 DEF Counted

\* A delta changes one line of one ledger, by what it says.
LEMMA UpdatedType ==
  ASSUME NEW rels \in [Agents -> Ledgers], NEW a \in Agents, NEW b \in Agents, NEW d \in Deltas
  PROVE  /\ Updated(rels, a, b, d) \in [Agents -> Ledgers]
         /\ \A x, y \in Agents : ~(x = a /\ y = b /\ a \in active) =>
              /\ SentIn(Updated(rels, a, b, d)[x], y) = SentIn(rels[x], y)
              /\ ReceivedIn(Updated(rels, a, b, d)[x], y) = ReceivedIn(rels[x], y)
         /\ a \in active =>
              /\ SentIn(Updated(rels, a, b, d)[a], b) = SentIn(rels[a], b) + d.sent
              /\ ReceivedIn(Updated(rels, a, b, d)[a], b) = ReceivedIn(rels[a], b) + d.received
<1>1. CASE a \notin active
  BY <1>1 DEF Updated
<1>2. CASE a \in active
  <2> DEFINE new == [c \in DOMAIN rels[a] \cup {b} |-> IF c = b THEN Merged(Relation(rels[a], b), d)
                                                                ELSE rels[a][c]]
  <2>1. Updated(rels, a, b, d) = [rels EXCEPT ![a] = new]
    BY <1>2 DEF Updated
  <2>2. PICK S \in SUBSET Agents : rels[a] \in [S -> Relationship]
    BY DEF Ledgers
  <2>3. Relation(rels[a], b) \in Relationship
    BY RelationType
  <2>4. Merged(Relation(rels[a], b), d) \in Relationship
    BY <2>3, MergedType
  <2>5. DOMAIN rels[a] = S /\ \A c \in S : rels[a][c] \in Relationship
    BY <2>2
  <2>6. new \in [S \cup {b} -> Relationship]
    BY <2>4, <2>5
  <2>7. S \cup {b} \in SUBSET Agents
    OBVIOUS
  <2>8. new \in Ledgers
    BY <2>6, <2>7 DEF Ledgers
  <2>9. \A y \in Agents : y # b => Relation(new, y) = Relation(rels[a], y)
    BY <2>5 DEF Relation
  <2>10. Relation(new, b) = Merged(Relation(rels[a], b), d)
    BY DEF Relation
  <2> HIDE DEF new
  <2>11. Updated(rels, a, b, d)[a] = new /\ \A x \in Agents : x # a => Updated(rels, a, b, d)[x] = rels[x]
    BY <2>1
  <2>12. Updated(rels, a, b, d) \in [Agents -> Ledgers]
    BY <2>1, <2>8
  <2>13. SentIn(new, b) = SentIn(rels[a], b) + d.sent /\ ReceivedIn(new, b) = ReceivedIn(rels[a], b) + d.received
    BY <2>3, <2>10, MergedType DEF SentIn, ReceivedIn
  <2>14. \A y \in Agents : y # b => SentIn(new, y) = SentIn(rels[a], y)
                                    /\ ReceivedIn(new, y) = ReceivedIn(rels[a], y)
    BY <2>9 DEF SentIn, ReceivedIn
  <2> QED BY <1>2, <2>11, <2>12, <2>13, <2>14
<1> QED BY <1>1, <1>2

LEMMA ResolvedIsActive ==
  ASSUME NEW a \in Agents, NEW target, Kinds
  PROVE  Resolve(a, target) \subseteq active
BY DEF Resolve
-----------------------------------------------------------------------------
\* The accounts in terms of the ledgers.
LEMMA Accounts ==
  /\ \A a, b : Sent(a, b) = SentIn(rel[a], b) /\ Received(a, b) = ReceivedIn(rel[a], b)
BY DEF Sent, Received, SentIn, ReceivedIn

\* A step that moves no message, changes no counter and makes nobody fresh.
LEMMA NoMessageMoves ==
  ASSUME IInv, Kinds', fresh' = fresh,
         \A a, b \in Agents : /\ SentIn(rel'[a], b) = SentIn(rel[a], b)
                              /\ ReceivedIn(rel'[a], b) = ReceivedIn(rel[a], b)
                              /\ queue'[b][a] + taken'[b][a] = queue[b][a] + taken[b][a]
  PROVE  IInv'
BY DEF IInv, LedgerAgrees, Sent, Received, SentIn, ReceivedIn

LEMMA InitOK == Init => IInv
<1> SUFFICES ASSUME Init PROVE IInv OBVIOUS
<1>1. Nobody \in [{} -> Relationship] /\ {} \in SUBSET Agents
  BY DEF Nobody
<1>2. Nobody \in Ledgers
  BY <1>1 DEF Ledgers
<1>3. Kinds
  BY <1>2 DEF Init, Kinds, None
<1>4. \A a, b \in Agents : SentIn(rel[a], b) = 0 /\ ReceivedIn(rel[a], b) = 0
  BY DEF Init, Nobody, SentIn, ReceivedIn, Relation, Strangers, Counted, Untracked
<1>5. \A a, b \in Agents : queue[b][a] = 0 /\ taken[b][a] = 0
  BY DEF Init, None
<1>6. TalkCap \in Nat
  BY TalkCapAssumption
<1>7. LedgerAgrees
  BY <1>4, <1>5, <1>6, Accounts DEF LedgerAgrees
<1> QED BY <1>3, <1>7 DEF IInv
-----------------------------------------------------------------------------
(* The actions.                                                            *)

LEMMA LookOK ==
  ASSUME IInv, NEW a \in Agents, Look(a) PROVE IInv'
<1>1. Kinds
  BY DEF IInv
<1>2. /\ taken' = [taken EXCEPT ![a] = [b \in Agents |-> @[b] + queue[a][b]]]
      /\ queue' = [queue EXCEPT ![a] = None]
      /\ UNCHANGED <<active, rel, fresh>>
  BY DEF Look
<1>3. None \in [Agents -> Nat] /\ \A b \in Agents : None[b] = 0
  BY DEF None
<1>4. queue' \in [Agents -> [Agents -> Nat]]
  BY <1>1, <1>2, <1>3 DEF Kinds
<1>5. [b \in Agents |-> taken[a][b] + queue[a][b]] \in [Agents -> Nat]
  BY <1>1 DEF Kinds
<1>6. taken' \in [Agents -> [Agents -> Nat]]
  BY <1>1, <1>2, <1>5 DEF Kinds
<1>7. Kinds'
  BY <1>1, <1>2, <1>4, <1>6 DEF Kinds
<1>8. ASSUME NEW x \in Agents, NEW y \in Agents
      PROVE  queue'[y][x] + taken'[y][x] = queue[y][x] + taken[y][x]
  <2>1. queue[y][x] \in Nat /\ taken[y][x] \in Nat
    BY <1>1 DEF Kinds
  <2>2. CASE y = a
    <3>1. queue'[y][x] = 0
      BY <1>1, <1>2, <1>3, <2>2 DEF Kinds
    <3>2. taken'[y][x] = taken[y][x] + queue[y][x]
      BY <1>1, <1>2, <2>2 DEF Kinds
    <3> QED BY <2>1, <3>1, <3>2
  <2>3. CASE y # a
    BY <1>1, <1>2, <2>3 DEF Kinds
  <2> QED BY <2>2, <2>3
<1> QED BY <1>2, <1>7, <1>8, NoMessageMoves

\* What leaves active aside, the ledgers and the messages alone.
LEMMA QuietOK ==
  ASSUME IInv, UNCHANGED <<rel, queue, taken, fresh>>, active' \subseteq Agents
  PROVE  IInv'
<1>1. Kinds'
  BY DEF IInv, Kinds
<1> QED BY <1>1, NoMessageMoves

\* A delta without counters.
LEMMA SilentDelta ==
  ASSUME NEW f \in Int, NEW t \in Int
  PROVE  Delta(f, t) \in Deltas /\ Delta(f, t).sent = 0 /\ Delta(f, t).received = 0
BY DEF Delta, Deltas

LEMMA SilentUpdate ==
  ASSUME NEW rels \in [Agents -> Ledgers], NEW a \in Agents, NEW b \in Agents,
         NEW d \in Deltas, d.sent = 0, d.received = 0
  PROVE  /\ Updated(rels, a, b, d) \in [Agents -> Ledgers]
         /\ \A x, y \in Agents : /\ SentIn(Updated(rels, a, b, d)[x], y) = SentIn(rels[x], y)
                                 /\ ReceivedIn(Updated(rels, a, b, d)[x], y) = ReceivedIn(rels[x], y)
<1>1. SentIn(rels[a], b) \in Nat /\ ReceivedIn(rels[a], b) \in Nat
  BY RelationType
<1> QED BY <1>1, UpdatedType

LEMMA FeelingOK ==
  ASSUME IInv, NEW a \in Agents, NEW b \in Agents, NEW f \in Int, NEW t \in Int,
         rel' = Updated(rel, a, b, Delta(f, t)), UNCHANGED <<active, queue, taken, fresh>>
  PROVE  IInv'
<1>1. rel \in [Agents -> Ledgers]
  BY DEF IInv, Kinds
<1>2. /\ rel' \in [Agents -> Ledgers]
      /\ \A x, y \in Agents : SentIn(rel'[x], y) = SentIn(rel[x], y)
                              /\ ReceivedIn(rel'[x], y) = ReceivedIn(rel[x], y)
  BY <1>1, SilentDelta, SilentUpdate
<1>3. Kinds'
  BY <1>2 DEF IInv, Kinds
<1> QED BY <1>2, <1>3, NoMessageMoves

LEMMA HelpOK ==
  ASSUME IInv, NEW a \in Agents, Help(a) PROVE IInv'
<1>1. PICK b \in Agents : rel' = Updated(Updated(rel, a, b, Delta(10, 5)), b, a, Delta(10, 5))
  BY ResolvedIsActive DEF IInv, Kinds, Help
<1>2. UNCHANGED <<active, queue, taken, fresh>>
  BY DEF Help, Calls
<1> DEFINE once == Updated(rel, a, b, Delta(10, 5))
<1>3. rel \in [Agents -> Ledgers]
  BY DEF IInv, Kinds
<1>4. /\ once \in [Agents -> Ledgers]
      /\ \A x, y \in Agents : SentIn(once[x], y) = SentIn(rel[x], y)
                              /\ ReceivedIn(once[x], y) = ReceivedIn(rel[x], y)
  BY <1>3, SilentDelta, SilentUpdate
<1> HIDE DEF once
<1>5. /\ Updated(once, b, a, Delta(10, 5)) \in [Agents -> Ledgers]
      /\ \A x, y \in Agents : SentIn(Updated(once, b, a, Delta(10, 5))[x], y) = SentIn(once[x], y)
                              /\ ReceivedIn(Updated(once, b, a, Delta(10, 5))[x], y) = ReceivedIn(once[x], y)
  BY <1>4, SilentDelta, SilentUpdate
<1>6. rel' = Updated(once, b, a, Delta(10, 5))
  BY <1>1 DEF once
<1>7. Kinds'
  BY <1>2, <1>5, <1>6 DEF IInv, Kinds
<1> QED BY <1>2, <1>4, <1>5, <1>6, <1>7, NoMessageMoves

LEMMA TalkToOK ==
  ASSUME IInv, NEW a \in Agents, TalkTo(a) PROVE IInv'
<1>1. Kinds /\ LedgerAgrees
  BY DEF IInv
<1>2. PICK b \in EnumerateTalkTargets(a), said \in {Delta(5, 2), Delta(1, 0)} :
        /\ queue' = [queue EXCEPT ![b][a] = @ + 1]
        /\ rel' = Updated(Updated(rel, a, b, [said EXCEPT !.sent = 1]), b, a, [said EXCEPT !.received = 1])
  BY DEF TalkTo
<1>3. UNCHANGED <<active, taken, fresh>>
  BY DEF TalkTo, Calls
<1>4. a \in active /\ b \in active /\ a # b /\ b \in Agents /\ ~Capped(Relation(rel[a], b))
  BY <1>1 DEF EnumerateTalkTargets, AgentsInRoom, Kinds
<1> DEFINE d == [said EXCEPT !.sent = 1]
           e == [said EXCEPT !.received = 1]
           once == Updated(rel, a, b, d)
           both == Updated(once, b, a, e)
<1>5. d \in Deltas /\ d.sent = 1 /\ d.received = 0 /\ e \in Deltas /\ e.sent = 0 /\ e.received = 1
  BY DEF Delta, Deltas
<1>6. rel \in [Agents -> Ledgers]
  BY <1>1 DEF Kinds
<1> HIDE DEF d, e
<1>7. /\ once \in [Agents -> Ledgers]
      /\ \A x, y \in Agents : ~(x = a /\ y = b) =>
           SentIn(once[x], y) = SentIn(rel[x], y) /\ ReceivedIn(once[x], y) = ReceivedIn(rel[x], y)
      /\ SentIn(once[a], b) = SentIn(rel[a], b) + d.sent
      /\ ReceivedIn(once[a], b) = ReceivedIn(rel[a], b) + d.received
  BY <1>4, <1>5, <1>6, UpdatedType
<1> HIDE DEF once
<1>8. /\ both \in [Agents -> Ledgers]
      /\ \A x, y \in Agents : ~(x = b /\ y = a) =>
           SentIn(both[x], y) = SentIn(once[x], y) /\ ReceivedIn(both[x], y) = ReceivedIn(once[x], y)
      /\ SentIn(both[b], a) = SentIn(once[b], a) + e.sent
      /\ ReceivedIn(both[b], a) = ReceivedIn(once[b], a) + e.received
  BY <1>4, <1>5, <1>7, UpdatedType
<1>9. rel' = both
  BY <1>2 DEF both, once, d, e
<1> HIDE DEF both
<1>10. \A x, y \in Agents : SentIn(rel[x], y) \in Nat /\ ReceivedIn(rel[x], y) \in Nat
  BY <1>6, RelationType
<1>11. \A x, y \in Agents :
         /\ SentIn(both[x], y) = SentIn(rel[x], y) + (IF x = a /\ y = b THEN 1 ELSE 0)
         /\ ReceivedIn(both[x], y) = ReceivedIn(rel[x], y) + (IF x = b /\ y = a THEN 1 ELSE 0)
  BY <1>4, <1>5, <1>7, <1>8, <1>10
<1>12. /\ queue' \in [Agents -> [Agents -> Nat]]
       /\ \A x, y \in Agents : queue'[y][x] = queue[y][x] + (IF x = a /\ y = b THEN 1 ELSE 0)
  BY <1>1, <1>2, <1>4 DEF Kinds
<1>13. Kinds'
  BY <1>1, <1>3, <1>8, <1>9, <1>12 DEF Kinds
<1>14. \A x, y \in Agents : queue[y][x] \in Nat /\ taken[y][x] \in Nat
  BY <1>1 DEF Kinds
<1>15. TalkCap \in Nat
  BY TalkCapAssumption
<1>16. SentIn(rel[a], b) < ReceivedIn(rel[a], b) + TalkCap
  BY <1>4, <1>10, <1>15 DEF Capped, Gap, SentIn, ReceivedIn
<1>17. ASSUME NEW x \in Agents, NEW y \in Agents
       PROVE  SentIn(both[x], y) =< ReceivedIn(both[x], y) + TalkCap
  <2>1. SentIn(rel[x], y) =< ReceivedIn(rel[x], y) + TalkCap
    BY <1>1, Accounts DEF LedgerAgrees
  <2> QED BY <2>1, <1>10, <1>11, <1>15, <1>16
<1>18. ASSUME NEW x \in Agents, NEW y \in Agents, x # y, {x, y} \cap fresh = {}
       PROVE  /\ SentIn(both[x], y) = ReceivedIn(both[y], x)
              /\ ReceivedIn(both[y], x) = queue'[y][x] + taken'[y][x]
  <2>1. SentIn(rel[x], y) = ReceivedIn(rel[y], x) /\ ReceivedIn(rel[y], x) = queue[y][x] + taken[y][x]
    BY <1>1, <1>18, Accounts DEF LedgerAgrees
  <2>2. taken'[y][x] = taken[y][x]
    BY <1>3
  <2> QED BY <2>1, <2>2, <1>10, <1>11, <1>12, <1>14
<1>19. LedgerAgrees'
  BY <1>3, <1>9, <1>17, <1>18 DEF LedgerAgrees, Sent, Received, SentIn, ReceivedIn
<1> QED BY <1>13, <1>19 DEF IInv

LEMMA SpawnFreshOK ==
  ASSUME IInv, NEW a \in Agents, SpawnFresh(a) PROVE IInv'
<1>1. Kinds /\ LedgerAgrees
  BY DEF IInv
<1>2. /\ active' = active \cup {a}
      /\ rel' = [rel EXCEPT ![a] = Nobody]
      /\ fresh' = fresh \cup {a}
      /\ UNCHANGED <<queue, taken>>
  BY DEF SpawnFresh
<1>3. Nobody \in [{} -> Relationship] /\ {} \in SUBSET Agents
  BY DEF Nobody
<1>4. Nobody \in Ledgers
  BY <1>3 DEF Ledgers
<1>5. Kinds'
  BY <1>1, <1>2, <1>4 DEF Kinds
<1>6. rel'[a] = Nobody /\ \A x \in Agents : x # a => rel'[x] = rel[x]
  BY <1>1, <1>2 DEF Kinds
<1>7. \A y \in Agents : SentIn(Nobody, y) = 0 /\ ReceivedIn(Nobody, y) = 0
  BY DEF Nobody, SentIn, ReceivedIn, Relation, Strangers, Counted, Untracked
<1>8. TalkCap \in Nat
  BY TalkCapAssumption
<1>9. \A x, y \in Agents : SentIn(rel'[x], y) =< ReceivedIn(rel'[x], y) + TalkCap
  BY <1>1, <1>6, <1>7, <1>8, Accounts DEF LedgerAgrees
<1>10. \A x, y \in Agents : (x # y /\ {x, y} \cap fresh' = {}) =>
         /\ SentIn(rel'[x], y) = ReceivedIn(rel'[y], x)
         /\ ReceivedIn(rel'[y], x) = queue'[y][x] + taken'[y][x]
  BY <1>1, <1>2, <1>6, Accounts DEF LedgerAgrees
<1> QED BY <1>5, <1>9, <1>10 DEF IInv, LedgerAgrees, Sent, Received, SentIn, ReceivedIn

LEMMA NextOK == IInv /\ [Next]_vars => IInv'
<1> SUFFICES ASSUME IInv, [Next]_vars PROVE IInv' OBVIOUS
<1>1. Kinds
  BY DEF IInv
<1>2. CASE UNCHANGED vars
  BY <1>1, <1>2, QuietOK DEF vars, Kinds
<1>3. ASSUME NEW a \in Agents, Look(a) PROVE IInv'
  BY <1>3, LookOK
<1>4. ASSUME NEW a \in Agents, Weigh(a) \/ Ends(a) \/ Walk(a) PROVE IInv'
  <2>1. UNCHANGED <<active, rel, queue, taken, fresh>>
    BY <1>4 DEF Weigh, Ends, Walk
  <2> QED BY <2>1, <1>1, QuietOK DEF Kinds
<1>5. ASSUME NEW a \in Agents, Despawn(a) \/ Wake(a) PROVE IInv'
  <2>1. active' \subseteq Agents /\ UNCHANGED <<rel, queue, taken, fresh>>
    BY <1>1, <1>5 DEF Despawn, Wake, Kinds
  <2> QED BY <2>1, QuietOK
<1>6. ASSUME NEW a \in Agents, TalkTo(a) PROVE IInv'
  BY <1>6, TalkToOK
<1>7. ASSUME NEW a \in Agents, ObserveAgent(a) PROVE IInv'
  <2>1. PICK b \in Agents : rel' = Updated(rel, a, b, Delta(1, 0))
    BY <1>1, <1>7, ResolvedIsActive DEF ObserveAgent, Kinds
  <2>2. UNCHANGED <<active, queue, taken, fresh>>
    BY <1>7 DEF ObserveAgent, Calls
  <2> QED BY <2>1, <2>2, FeelingOK
<1>8. ASSUME NEW a \in Agents, Help(a) PROVE IInv'
  BY <1>8, HelpOK
<1>9. ASSUME NEW a \in Agents, Ignore(a) PROVE IInv'
  <2>1. PICK b \in Agents : rel' = Updated(rel, a, b, Delta(-2, -1))
    BY <1>1, <1>9, ResolvedIsActive DEF Ignore, Kinds
  <2>2. UNCHANGED <<active, queue, taken, fresh>>
    BY <1>9 DEF Ignore, Calls
  <2> QED BY <2>1, <2>2, FeelingOK
<1>10. ASSUME NEW a \in Agents, SpawnFresh(a) PROVE IInv'
  BY <1>10, SpawnFreshOK
<1> QED BY <1>2, <1>3, <1>4, <1>5, <1>6, <1>7, <1>8, <1>9, <1>10 DEF Next

\* In every run, for every set of agents: what one agent has sent is what the
\* other has received and what is queued for it or was taken out of its
\* queue, and nobody is more than TalkCap messages ahead of anyone.
\* (packages/engine/src/social/social-manager.ts:126-167,256-269)
THEOREM LedgerAlwaysAgrees == Spec => []LedgerAgrees
<1>1. IInv => LedgerAgrees
  BY DEF IInv
<1> QED BY <1>1, InitOK, NextOK, PTL DEF Spec
-----------------------------------------------------------------------------
(* Whom a prompt offers to talk to.                                        *)

\* Agent a may talk to b, and the prompt of its cycle says so.
Open(a, b) == ~Capped(Relation(rel[a], b))
Promised(a, b) ==
  /\ cycle[a].pc = "asking" /\ cycle[a].prompt.awake /\ b \notin cycle[a].talked
  /\ ~Capped(Relation(cycle[a].prompt.rels, b))

Listening(c) == c.pc = "asking" => "talked" \in DOMAIN c
OfferInv ==
  /\ DOMAIN cycle = Agents /\ \A a \in Agents : Listening(cycle[a])
  /\ \A a, b \in Agents : Promised(a, b) => Open(a, b)

\* In terms of the ledgers.
LEMMA OpenIs ==
  ASSUME NEW l \in Ledgers, NEW b \in Agents
  PROVE  Capped(Relation(l, b)) <=> SentIn(l, b) >= ReceivedIn(l, b) + TalkCap
<1>1. SentIn(l, b) \in Nat /\ ReceivedIn(l, b) \in Nat /\ TalkCap \in Nat
  BY RelationType, TalkCapAssumption
<1>2. Gap(Relation(l, b)) = SentIn(l, b) - ReceivedIn(l, b)
  BY DEF Gap, SentIn, ReceivedIn
<1>3. QED
  BY <1>1, <1>2 DEF Capped

\* A message between others, or to the agent, closes nothing.
LEMMA StaysOpen ==
  ASSUME NEW l \in Ledgers, NEW m \in Ledgers, NEW b \in Agents,
         SentIn(m, b) = SentIn(l, b), ReceivedIn(m, b) >= ReceivedIn(l, b), ~Capped(Relation(l, b))
  PROVE  ~Capped(Relation(m, b))
<1>1. /\ SentIn(l, b) \in Nat /\ ReceivedIn(l, b) \in Nat /\ TalkCap \in Nat
      /\ SentIn(m, b) \in Nat /\ ReceivedIn(m, b) \in Nat
  BY RelationType, TalkCapAssumption
<1>2. QED
  BY <1>1, OpenIs

\* A step in which a and b say nothing to each other but what counts for b.
LEMMA OpenNext ==
  ASSUME Kinds, Kinds', NEW a \in Agents, NEW b \in Agents, Open(a, b),
         \/ rel'[a] = Nobody
         \/ /\ SentIn(rel'[a], b) = SentIn(rel[a], b)
            /\ ReceivedIn(rel'[a], b) >= ReceivedIn(rel[a], b)
  PROVE  Open(a, b)'
<1>1. rel[a] \in Ledgers /\ rel'[a] \in Ledgers
  BY DEF Kinds
<1>2. CASE rel'[a] = Nobody
  <2>1. Relation(rel'[a], b) = Strangers
    BY <1>2 DEF Nobody, Relation
  <2>2. Gap(Strangers) = 0
    BY DEF Gap, Strangers, Counted, Untracked
  <2>3. QED
    BY <2>1, <2>2, TalkCapAssumption DEF Open, Capped
<1>3. CASE rel'[a] # Nobody
  BY <1>1, <1>3, StaysOpen DEF Open
<1>4. QED
  BY <1>2, <1>3

\* What the step may have promised.
LEMMA OfferNext ==
  ASSUME Kinds, Kinds', OfferInv, DOMAIN cycle' = Agents,
         \A x \in Agents : Listening(cycle'[x]),
         \A a, b \in Agents : Promised(a, b)' =>
           /\ Promised(a, b) \/ Open(a, b)
           /\ \/ rel'[a] = Nobody
              \/ /\ SentIn(rel'[a], b) = SentIn(rel[a], b)
                 /\ ReceivedIn(rel'[a], b) >= ReceivedIn(rel[a], b)
  PROVE  OfferInv'
<1>1. ASSUME NEW a \in Agents, NEW b \in Agents, Promised(a, b)' PROVE Open(a, b)'
  <2>1. Open(a, b)
    BY <1>1 DEF OfferInv
  <2>2. QED
    BY <1>1, <2>1, OpenNext
<1>2. QED
  BY <1>1 DEF OfferInv

LEMMA SameSaid ==
  ASSUME Kinds, NEW a \in Agents, NEW b \in Agents
  PROVE  /\ SentIn(rel[a], b) \in Nat /\ ReceivedIn(rel[a], b) \in Nat
         /\ ReceivedIn(rel[a], b) >= ReceivedIn(rel[a], b)
<1>1. rel[a] \in Ledgers
  BY DEF Kinds
<1>2. SentIn(rel[a], b) \in Nat /\ ReceivedIn(rel[a], b) \in Nat
  BY <1>1, RelationType
<1>3. QED
  BY <1>2

LEMMA WeighOffers ==
  ASSUME Kinds, Kinds', OfferInv, NEW a \in Agents, Weigh(a) PROVE OfferInv'
<1>1. PICK p : /\ cycle' = [cycle EXCEPT ![a] = [pc |-> "asking", talked |-> {}, prompt |-> p]]
               /\ p.awake => p.rels = rel[a]
  <2>1. PICK c \in Circumstances[a], age \in Ages :
          cycle' = [cycle EXCEPT ![a] =
            [pc |-> "asking", talked |-> {},
             prompt |-> [present |-> @.present, drives |-> @.drives, primary |-> @.primary,
                         heard |-> @.heard, seed |-> Talkativeness[a], age |-> age, reads |-> c,
                         awake |-> a \in active, rels |-> IF a \in active THEN rel[a] ELSE Nobody]]]
    BY DEF Weigh
  <2> DEFINE p == [present |-> cycle[a].present, drives |-> cycle[a].drives,
                   primary |-> cycle[a].primary,
                   heard |-> cycle[a].heard, seed |-> Talkativeness[a], age |-> age, reads |-> c,
                   awake |-> a \in active, rels |-> IF a \in active THEN rel[a] ELSE Nobody]
  <2>2. p.awake => p.rels = rel[a]
    OBVIOUS
  <2>3. cycle' = [cycle EXCEPT ![a] = [pc |-> "asking", talked |-> {}, prompt |-> p]]
    BY <2>1
  <2> HIDE DEF p
  <2>4. QED
    BY <2>2, <2>3
<1>2. /\ DOMAIN cycle' = Agents /\ cycle'[a].prompt = p
      /\ "talked" \in DOMAIN cycle'[a]
      /\ \A x \in Agents : x # a => cycle'[x] = cycle[x]
  BY <1>1 DEF OfferInv
<1>7. \A x \in Agents : Listening(cycle'[x])
  BY <1>2 DEF Listening, OfferInv
<1>3. UNCHANGED rel
  BY DEF Weigh
<1>4. ASSUME NEW x \in Agents, NEW y \in Agents, Promised(x, y)'
      PROVE  Promised(x, y) \/ Open(x, y)
  <2>1. CASE x = a
    BY <1>1, <1>2, <1>4, <2>1 DEF Promised, Open
  <2>2. CASE x # a
    BY <1>2, <1>4, <2>2 DEF Promised
  <2>3. QED
    BY <2>1, <2>2
<1>5. \A x, y \in Agents : /\ SentIn(rel'[x], y) = SentIn(rel[x], y)
                           /\ ReceivedIn(rel'[x], y) >= ReceivedIn(rel[x], y)
  BY <1>3, SameSaid
<1>6. QED
  BY <1>2, <1>4, <1>5, <1>7, OfferNext

\* A step that asks nothing new and says nothing.
LEMMA QuietOffers ==
  ASSUME Kinds, Kinds', OfferInv, DOMAIN cycle' = Agents,
         \A x \in Agents : cycle'[x] = cycle[x] \/ cycle'[x].pc # "asking",
         \A x \in Agents : rel'[x] = Nobody \/ \A y \in Agents :
           SentIn(rel'[x], y) = SentIn(rel[x], y) /\ ReceivedIn(rel'[x], y) = ReceivedIn(rel[x], y)
  PROVE  OfferInv'
<1>1. ASSUME NEW x \in Agents, NEW y \in Agents, Promised(x, y)'
      PROVE  Promised(x, y)
  BY <1>1 DEF Promised
<1>2. \A x, y \in Agents :
        \/ rel'[x] = Nobody
        \/ SentIn(rel'[x], y) = SentIn(rel[x], y) /\ ReceivedIn(rel'[x], y) >= ReceivedIn(rel[x], y)
  BY SameSaid
<1>3. \A x \in Agents : Listening(cycle'[x])
  BY DEF Listening, OfferInv
<1>4. QED
  BY <1>1, <1>2, <1>3, OfferNext

LEMMA FeelingOffers ==
  ASSUME Kinds, Kinds', OfferInv, NEW a \in Agents, NEW b \in Agents, NEW f \in Int, NEW t \in Int,
         rel' = Updated(rel, a, b, Delta(f, t)), UNCHANGED cycle
  PROVE  OfferInv'
<1>1. rel \in [Agents -> Ledgers]
  BY DEF Kinds
<1>2. \A x, y \in Agents : SentIn(rel'[x], y) = SentIn(rel[x], y)
                           /\ ReceivedIn(rel'[x], y) = ReceivedIn(rel[x], y)
  BY <1>1, SilentDelta, SilentUpdate
<1>3. QED
  BY <1>2, QuietOffers DEF OfferInv

LEMMA HelpOffers ==
  ASSUME Kinds, Kinds', OfferInv, NEW a \in Agents, Help(a) PROVE OfferInv'
<1>1. PICK b \in Agents : rel' = Updated(Updated(rel, a, b, Delta(10, 5)), b, a, Delta(10, 5))
  BY ResolvedIsActive DEF Kinds, Help
<1> DEFINE once == Updated(rel, a, b, Delta(10, 5))
           twice == Updated(once, b, a, Delta(10, 5))
<1>2. rel \in [Agents -> Ledgers] /\ rel' = twice
  BY <1>1 DEF Kinds
<1>3. /\ once \in [Agents -> Ledgers]
      /\ \A x, y \in Agents : /\ SentIn(once[x], y) = SentIn(rel[x], y)
                              /\ ReceivedIn(once[x], y) = ReceivedIn(rel[x], y)
  BY <1>2, SilentDelta, SilentUpdate
<1> HIDE DEF once
<1>4. \A x, y \in Agents : /\ SentIn(twice[x], y) = SentIn(once[x], y)
                           /\ ReceivedIn(twice[x], y) = ReceivedIn(once[x], y)
  BY <1>3, SilentDelta, SilentUpdate
<1> HIDE DEF twice
<1>5. \A x, y \in Agents : SentIn(rel'[x], y) = SentIn(rel[x], y)
                           /\ ReceivedIn(rel'[x], y) = ReceivedIn(rel[x], y)
  BY <1>2, <1>3, <1>4
<1>6. UNCHANGED cycle
  BY DEF Help
<1>7. QED
  BY <1>5, <1>6, QuietOffers DEF OfferInv

LEMMA TalkOffers ==
  ASSUME Kinds, Kinds', OfferInv, NEW a \in Agents, TalkTo(a) PROVE OfferInv'
<1>1. PICK b \in EnumerateTalkTargets(a), said \in {Delta(5, 2), Delta(1, 0)} :
        /\ cycle' = [cycle EXCEPT ![a].talked = @ \cup {b}]
        /\ rel' = Updated(Updated(rel, a, b, [said EXCEPT !.sent = 1]), b, a, [said EXCEPT !.received = 1])
  BY DEF TalkTo
<1>2. a \in active /\ b \in active /\ a # b /\ b \in Agents
  BY DEF EnumerateTalkTargets, AgentsInRoom, Kinds
<1> DEFINE d == [said EXCEPT !.sent = 1]
           e == [said EXCEPT !.received = 1]
           once == Updated(rel, a, b, d)
           both == Updated(once, b, a, e)
<1>3. d \in Deltas /\ d.sent = 1 /\ d.received = 0 /\ e \in Deltas /\ e.sent = 0 /\ e.received = 1
  BY DEF Delta, Deltas
<1>4. rel \in [Agents -> Ledgers] /\ rel' = both
  BY <1>1 DEF Kinds
<1> HIDE DEF d, e
<1>5. /\ once \in [Agents -> Ledgers]
      /\ \A x, y \in Agents : ~(x = a /\ y = b) =>
           SentIn(once[x], y) = SentIn(rel[x], y) /\ ReceivedIn(once[x], y) = ReceivedIn(rel[x], y)
  BY <1>2, <1>3, <1>4, UpdatedType
<1> HIDE DEF once
<1>6. /\ \A x, y \in Agents : ~(x = b /\ y = a) =>
           SentIn(both[x], y) = SentIn(once[x], y) /\ ReceivedIn(both[x], y) = ReceivedIn(once[x], y)
      /\ SentIn(both[b], a) = SentIn(once[b], a) + e.sent
      /\ ReceivedIn(both[b], a) = ReceivedIn(once[b], a) + e.received
  BY <1>2, <1>3, <1>5, UpdatedType
<1> HIDE DEF both
<1>7. \A x, y \in Agents : SentIn(rel[x], y) \in Nat /\ ReceivedIn(rel[x], y) \in Nat
  BY SameSaid
<1>8. \A x, y \in Agents : ~(x = a /\ y = b) =>
        /\ SentIn(rel'[x], y) = SentIn(rel[x], y)
        /\ ReceivedIn(rel'[x], y) >= ReceivedIn(rel[x], y)
  BY <1>2, <1>3, <1>4, <1>5, <1>6, <1>7
<1>9. /\ DOMAIN cycle' = Agents
      /\ \A x \in Agents : x # a => cycle'[x] = cycle[x]
      /\ cycle'[a] = [cycle[a] EXCEPT !.talked = @ \cup {b}]
  BY <1>1 DEF OfferInv
<1>10. cycle[a].pc = "asking"
  BY DEF TalkTo, Calls
<1>11. ASSUME NEW x \in Agents, NEW y \in Agents, Promised(x, y)'
       PROVE  Promised(x, y) /\ ~(x = a /\ y = b)
  <2>1. CASE x # a
    BY <1>9, <1>11, <2>1 DEF Promised
  <2>2. CASE x = a
    <3> DEFINE c == cycle[a]
               n == cycle'[a]
    <3>1. n.pc = "asking" /\ n.prompt.awake /\ y \notin n.talked /\ ~Capped(Relation(n.prompt.rels, y))
      BY <1>11, <2>2 DEF Promised
    <3>2. n.prompt = c.prompt
      BY <1>9
    <3>3. n.talked = c.talked \cup {b}
      BY <1>9, <1>10 DEF OfferInv, Listening
    <3> HIDE DEF c, n
    <3>4. y \notin c.talked /\ y # b
      BY <3>1, <3>3
    <3>5. QED
      BY <1>10, <3>4, <2>2, <3>1, <3>2 DEF Promised, c, n
  <2>3. QED
    BY <2>1, <2>2
<1>12. ASSUME NEW x \in Agents PROVE Listening(cycle'[x])
  <2>1. x # a => Listening(cycle'[x])
    BY <1>9 DEF OfferInv
  <2>2. DOMAIN cycle'[a] = DOMAIN cycle[a] /\ "talked" \in DOMAIN cycle[a]
    BY <1>9, <1>10 DEF OfferInv, Listening
  <2>3. QED
    BY <2>1, <2>2 DEF Listening
<1>13. QED
  BY <1>8, <1>9, <1>11, <1>12, OfferNext

LEMMA OffersNext ==
  ASSUME Kinds, Kinds', OfferInv, [Next]_vars
  PROVE  OfferInv'
<1>1. ASSUME UNCHANGED rel, DOMAIN cycle' = Agents,
             \A x \in Agents : cycle'[x] = cycle[x] \/ cycle'[x].pc # "asking"
      PROVE  OfferInv'
  BY <1>1, QuietOffers
<1>2. CASE UNCHANGED vars
  BY <1>1, <1>2 DEF vars, OfferInv
<1>3. ASSUME NEW a \in Agents, Look(a) PROVE OfferInv'
  <2> DEFINE c == [pc |-> "looked", present |-> AgentsInRoom(a), drives |-> drives[a],
                   primary |-> Primary(drives[a]), heard |-> queue[a] # None]
  <2>1. cycle' = [cycle EXCEPT ![a] = c] /\ UNCHANGED rel
    BY <1>3 DEF Look
  <2>2. c.pc # "asking"
    OBVIOUS
  <2> HIDE DEF c
  <2>3. QED
    BY <1>1, <2>1, <2>2 DEF OfferInv
<1>4. ASSUME NEW a \in Agents, Weigh(a) PROVE OfferInv'
  BY <1>4, WeighOffers
<1>5. ASSUME NEW a \in Agents, Ends(a) PROVE OfferInv'
  <2>1. cycle' = [cycle EXCEPT ![a] = Resting] /\ UNCHANGED rel
    BY <1>5 DEF Ends
  <2>2. Resting.pc # "asking"
    BY DEF Resting
  <2>3. QED
    BY <1>1, <2>1, <2>2 DEF OfferInv
<1>6. ASSUME NEW a \in Agents, Walk(a) \/ Despawn(a) \/ Wake(a) PROVE OfferInv'
  BY <1>1, <1>6 DEF Walk, Despawn, Wake, OfferInv
<1>7. ASSUME NEW a \in Agents, SpawnFresh(a) PROVE OfferInv'
  <2>1. UNCHANGED cycle /\ rel' = [rel EXCEPT ![a] = Nobody]
    BY <1>7 DEF SpawnFresh
  <2>2. \A x \in Agents : rel'[x] = Nobody \/ rel'[x] = rel[x]
    BY <2>1 DEF Kinds
  <2>3. QED
    BY <2>1, <2>2, QuietOffers DEF OfferInv
<1>8. ASSUME NEW a \in Agents, TalkTo(a) PROVE OfferInv'
  BY <1>8, TalkOffers
<1>9. ASSUME NEW a \in Agents, ObserveAgent(a) PROVE OfferInv'
  <2>1. PICK b \in Agents : rel' = Updated(rel, a, b, Delta(1, 0))
    BY <1>9, ResolvedIsActive DEF ObserveAgent, Kinds
  <2>2. UNCHANGED cycle
    BY <1>9 DEF ObserveAgent
  <2>3. QED
    BY <2>1, <2>2, FeelingOffers
<1>10. ASSUME NEW a \in Agents, Help(a) PROVE OfferInv'
  BY <1>10, HelpOffers
<1>11. ASSUME NEW a \in Agents, Ignore(a) PROVE OfferInv'
  <2>1. PICK b \in Agents : rel' = Updated(rel, a, b, Delta(-2, -1))
    BY <1>11, ResolvedIsActive DEF Ignore, Kinds
  <2>2. UNCHANGED cycle
    BY <1>11 DEF Ignore
  <2>3. QED
    BY <2>1, <2>2, FeelingOffers
<1>12. QED
  BY <1>2, <1>3, <1>4, <1>5, <1>6, <1>7, <1>8, <1>9, <1>10, <1>11 DEF Next

\* Whom the prompt offers as a target of talk_to can be talked to when the
\* call is made, as long as that agent is still in the room and was not
\* talked to meanwhile, whatever else happened since the prompt was made.
\* (packages/cognition/src/pper/talk-enum.ts:50-66)
THEOREM OffersStand == Spec => []OfferStands
<1>1. Init => OfferInv
  <2>1. SUFFICES ASSUME Init PROVE OfferInv
    OBVIOUS
  <2>2. DOMAIN cycle = Agents /\ \A a \in Agents : cycle[a].pc # "asking"
    BY <2>1 DEF Init, Resting
  <2>3. QED
    BY <2>2 DEF OfferInv, Promised, Listening
<1>2. IInv /\ OfferInv => OfferStands
  <2>1. SUFFICES ASSUME IInv, OfferInv, NEW a \in active,
                        cycle[a].pc = "asking", cycle[a].prompt.awake,
                        NEW b \in TalkEnum(cycle[a].prompt) \cap (AgentsInRoom(a) \ cycle[a].talked)
                 PROVE  b \in EnumerateTalkTargets(a)
    BY DEF OfferStands
  <2>2. a \in Agents /\ b \in Agents /\ b \in AgentsInRoom(a)
    BY <2>1 DEF IInv, Kinds, AgentsInRoom
  <2>3. Promised(a, b)
    BY <2>1 DEF Promised, TalkEnum
  <2>4. QED
    BY <2>1, <2>2, <2>3 DEF OfferInv, Open, EnumerateTalkTargets
<1>3. IInv /\ IInv' /\ OfferInv /\ [Next]_vars => OfferInv'
  BY OffersNext DEF IInv
<1>4. QED
  BY <1>1, <1>2, <1>3, InitOK, NextOK, PTL DEF Spec
-----------------------------------------------------------------------------
(* What is asked of the LLM and made of its answers.                       *)

\* The natural numbers have no endless descent, so what is first is defined.
Smaller == {p \in Nat \X Nat : p[1] < p[2]}

LEMMA NoDescent == IsWellFoundedOn(Smaller, Nat)
  BY NatLessThanWellFounded DEF OpToRel, Smaller

LEMMA FirstIsLeast ==
  ASSUME NEW S, S \subseteq Nat, S # {}
  PROVE  First(S) \in S /\ \A j \in S : First(S) =< j
<1>1. PICK x \in S : \A y \in S : ~ (<<y, x>> \in Smaller)
  BY NoDescent, WFMin
<1>2. \A y \in S : x =< y
  <2> SUFFICES ASSUME NEW y \in S PROVE x =< y
    OBVIOUS
  <2>1. x \in Nat /\ y \in Nat
    OBVIOUS
  <2>2. <<y, x>> \notin Smaller
    BY <1>1
  <2>3. ~(y < x)
    BY <2>1, <2>2 DEF Smaller
  <2> QED BY <2>1, <2>3
<1> QED BY <1>2 DEF First
-----------------------------------------------------------------------------
(* Plans.                                                                  *)

\* What the tool's schema allows, well shaped and complete, is accepted: the
\* validator of the plan service asks for no correction the schema could have
\* spared (formulatePlanSchemaFor, checkPlanBinding).
THEOREM SchemaSuffices ==
  ASSUME NEW s \in Situations, NEW answer \in PlanAnswers,
         InSchema(answer, s), WellShaped(answer), Complete(answer)
  PROVE  Acceptable(answer, s)
<1>1. ASSUME NEW i \in DOMAIN answer.steps PROVE Bound(answer.steps[i], s)
  <2>1. /\ answer.steps[i].target \in TargetEnum(s) \cup {""}
        /\ answer.steps[i].area \in s.areas \cup {""}
    BY <1>1 DEF InSchema
  <2>2. answer.steps[i].target # "" \/ answer.steps[i].area # ""
    BY <1>1 DEF Complete
  <2> QED BY <2>1, <2>2 DEF Bound
<1>2. AllBound(answer, s)
  BY <1>1 DEF AllBound
<1>3. Len(answer.steps) =< MaxSteps
  BY DEF InSchema
<1> QED BY <1>2, <1>3 DEF Acceptable

LEMMA OneStepShape ==
  ASSUME NEW target
  PROVE  /\ OneStep(target) # NoPlan
         /\ WellShaped(OneStep(target))
         /\ Len(OneStep(target).steps) = 1
         /\ DOMAIN OneStep(target).steps = {1}
         /\ OneStep(target).steps[1].target = target
         /\ OneStep(target).steps[1].area = ""
<1> DEFINE step == [described |-> TRUE, target |-> target, area |-> ""]
<1>1. OneStep(target).steps = <<step>> /\ OneStep(target).described
  BY DEF OneStep
<1>2. Len(<<step>>) = 1 /\ DOMAIN <<step>> = {1} /\ <<step>>[1] = step /\ <<step>> # <<>>
  OBVIOUS
<1>3. step.target = target /\ step.area = "" /\ step.described
  OBVIOUS
<1>4. NoPlan.described = FALSE
  BY DEF NoPlan
<1> HIDE DEF step
<1> QED BY <1>1, <1>2, <1>3, <1>4 DEF WellShaped

LEMMA OneStepAccepted ==
  ASSUME NEW s \in Situations, NEW target \in TargetEnum(s)
  PROVE  Acceptable(OneStep(target), s)
<1>1. Bound(OneStep(target).steps[1], s)
  BY OneStepShape DEF Bound
<1>2. \A i \in DOMAIN OneStep(target).steps : Bound(OneStep(target).steps[i], s)
  <2>1. DOMAIN OneStep(target).steps = {1}
    BY OneStepShape
  <2> QED BY <1>1, <2>1
<1>3. MaxSteps \in Nat \ {0}
  BY AnswerAssumption
<1>4. 1 =< MaxSteps
  BY <1>3
<1> QED BY <1>2, <1>4, OneStepShape DEF Acceptable, AllBound

LEMMA OnlyWaitIsRefused ==
  ASSUME NEW s \in Situations, NEW target, target # Wait
  PROVE  ~Refused(OneStep(target), s)
BY OneStepShape DEF Refused, OnlyWaits

\* A critical drive with a remedy at hand: its first remedy is offered, and
\* it is a remedy.
LEMMA RemedyOffered ==
  ASSUME NEW s \in Situations, Starving(s) # {}
  PROVE  LET drive == DriveKeys[First(Starving(s))]
         IN  /\ First(Remedies(s, drive)) \in DOMAIN s.affordances
             /\ s.affordances[First(Remedies(s, drive))].id \in Offered(s)
             /\ s.affordances[First(Remedies(s, drive))].id \notin {"", Wait}
<1> DEFINE drive == DriveKeys[First(Starving(s))]
           first == First(Remedies(s, drive))
<1>1. Starving(s) \subseteq Nat
  BY DEF Starving, DriveKeys
<1>2. First(Starving(s)) \in Starving(s)
  BY <1>1, FirstIsLeast
<1>3. Remedies(s, drive) # {}
  BY <1>2 DEF Starving
<1>4. s.affordances \in Seq(Affordances)
  BY DEF Situations
<1>5. DOMAIN s.affordances = 1..Len(s.affordances) /\ Len(s.affordances) \in Nat
  BY <1>4
<1>6. Remedies(s, drive) \subseteq Nat
  BY <1>5 DEF Remedies
<1>7. first \in Remedies(s, drive)
  BY <1>3, <1>6, FirstIsLeast
<1>8. first \in DOMAIN s.affordances
  BY <1>7 DEF Remedies
<1>9. s.affordances[first] \in Affordances
  BY <1>4, <1>5, <1>8
<1>10. s.affordances[first].id \notin {"", Wait}
  BY <1>9 DEF Affordances
<1> QED BY <1>8, <1>10 DEF Offered

LEMMA NobodyStarves ==
  ASSUME NEW s \in Situations, Starving(s) = {}
  PROVE  ~WaitRefused(s.drives, s.affordances)
<1> SUFFICES ASSUME WaitRefused(s.drives, s.affordances) PROVE FALSE
  OBVIOUS
<1>1. PICK d \in HintableDrives :
        s.drives[d] < Critical /\ \E i \in DOMAIN s.affordances : s.affordances[i].restores = d
  BY DEF WaitRefused
<1>2. PICK k \in DOMAIN DriveKeys : DriveKeys[k] = d
  BY DEF HintableDrives, Drives
<1>3. Remedies(s, d) # {}
  BY <1>1 DEF Remedies
<1>4. k \in Starving(s)
  BY <1>1, <1>2, <1>3 DEF Starving
<1> QED BY <1>4

\* The target of the floor plan is something the agent may do, and is never
\* the pause the wait guard would refuse.
LEMMA FloorTargetServes ==
  ASSUME NEW s \in Situations
  PROVE  /\ FloorTarget(s) \in TargetEnum(s) \ {""}
         /\ FloorTarget(s) = Wait => ~WaitRefused(s.drives, s.affordances)
<1>1. CASE "observe" \in Offered(s)
  BY <1>1 DEF FloorTarget, TargetEnum, Wait
<1>2. CASE "observe" \notin Offered(s) /\ Starving(s) # {}
  <2>1. FloorTarget(s) = s.affordances[First(Remedies(s, DriveKeys[First(Starving(s))]))].id
    BY <1>2 DEF FloorTarget
  <2> QED BY <1>2, <2>1, RemedyOffered DEF TargetEnum
<1>3. CASE "observe" \notin Offered(s) /\ Starving(s) = {}
  <2>1. ~Refused(OneStep(Wait), s)
    BY <1>3, NobodyStarves DEF Refused
  <2>2. FloorTarget(s) = Wait
    BY <1>3, <2>1 DEF FloorTarget
  <2> QED BY <1>3, <2>2, NobodyStarves DEF TargetEnum, Wait
<1> QED BY <1>1, <1>2, <1>3

\* The floor plan can always be stored: there is a target for it, it is
\* accepted, and the wait guard has nothing against it ("valid by
\* construction", tryStoreFloor).
THEOREM FloorNeverFails ==
  ASSUME NEW s \in Situations
  PROVE  FloorPlan(s) = OneStep(FloorTarget(s)) /\ FloorPlan(s) # NoPlan
<1>1. FloorTarget(s) # "" /\ Acceptable(OneStep(FloorTarget(s)), s)
  BY FloorTargetServes, OneStepAccepted
<1>2. ~Refused(OneStep(FloorTarget(s)), s)
  BY FloorTargetServes, OnlyWaitIsRefused DEF Refused
<1> QED BY <1>1, <1>2, OneStepShape DEF FloorPlan

\* Once enough formations have failed in a row, plan() stores a plan whatever
\* the model answers, unless the answer is to do nothing (failFormation).
THEOREM FloorHolds ==
  ASSUME NEW s \in Situations, NEW first \in PlanAnswers, NEW second \in PlanAnswers,
         NEW failures \in Nat, FloorAfter > 0, failures + 1 >= FloorAfter
  PROVE  LET answer == IF Retryable(first, s) THEN second ELSE first
         IN  Formed(first, second, failures, s) = NoPlan => Acceptable(answer, s) /\ Refused(answer, s)
<1> DEFINE answer == IF Retryable(first, s) THEN second ELSE first
<1>1. CASE Acceptable(answer, s) /\ ~Refused(answer, s)
  <2>1. Formed(first, second, failures, s) = answer
    BY <1>1 DEF Formed
  <2>2. answer.described
    BY <1>1 DEF Acceptable, WellShaped
  <2>3. ~NoPlan.described
    BY DEF NoPlan
  <2> QED BY <2>1, <2>2, <2>3
<1>2. CASE ~Acceptable(answer, s)
  <2>1. Formed(first, second, failures, s) = FloorPlan(s)
    BY <1>2 DEF Formed
  <2> QED BY <2>1, FloorNeverFails
<1>3. CASE Acceptable(answer, s) /\ Refused(answer, s)
  BY <1>3
<1> QED BY <1>1, <1>2, <1>3

\* A step of a stored plan that stays in its room is let through by the
\* guardrail as long as what was offered may still be done and no door has
\* closed: plan validation rejects steps for changes in the world, never for
\* what plan() has accepted (validateAction, checkPlanBinding).
THEOREM StoredStepsRun ==
  ASSUME NEW s \in Situations, NEW first \in PlanAnswers, NEW second \in PlanAnswers,
         NEW failures \in Nat, Offered(s) # {},
         NEW here, here.blocked = {}, Offered(s) \subseteq here.eligible
  PROVE  LET plan == Formed(first, second, failures, s)
         IN  \A i \in DOMAIN plan.steps :
               Consulted(plan.steps[i]) =>
                 Objection(plan.steps[i].target, plan.steps[i], here) = "none"
<1> DEFINE plan == Formed(first, second, failures, s)
<1> SUFFICES ASSUME NEW i \in DOMAIN plan.steps, Consulted(plan.steps[i])
             PROVE  Objection(plan.steps[i].target, plan.steps[i], here) = "none"
  OBVIOUS
<1>1. plan # NoPlan
  BY DEF NoPlan
<1>2. AllBound(plan, s)
  <2>1. AllBound(FloorPlan(s), s)
    BY FloorNeverFails, FloorTargetServes, OneStepAccepted DEF Acceptable
  <2> QED BY <1>1, <2>1 DEF Formed, Acceptable
<1>3. Bound(plan.steps[i], s)
  BY <1>2 DEF AllBound
<1>4. "" \notin s.areas
  BY AnswerAssumption DEF Situations
<1> HIDE DEF plan
<1>5. plan.steps[i].target \in Offered(s)
  BY <1>3, <1>4 DEF Bound, Consulted, TargetEnum
<1> QED BY <1>5 DEF Objection
-----------------------------------------------------------------------------
(* Reflections and drives.                                                 *)

LEMMA CompletedFits ==
  ASSUME NEW call \in ReflectCalls
  PROVE  /\ Completed(call).importance \in 1..10
         /\ Completed(call).type \in MemoryTypes
<1> DEFINE mine == Importance(call.own.importance, 5)
           kind == TypeOf(call.own.type, "observation")
<1>1. mine \in 1..10
  BY DEF Importance, OrElse
<1>2. kind \in MemoryTypes
  BY DEF TypeOf, OrElse, MemoryTypes
<1>3. Importance(call.nested.importance, mine) \in 1..10
  BY <1>1 DEF Importance, OrElse
<1>4. TypeOf(call.nested.type, kind) \in MemoryTypes
  BY <1>2 DEF TypeOf, OrElse
<1> QED BY <1>1, <1>2, <1>3, <1>4 DEF Completed

\* What a reflection leaves in the memory store has an importance from 1 to 10
\* and a type the store knows, whatever the model wrote; and an intentional
\* pause of which the model says nothing leaves nothing (completeReflect,
\* validateReflectLLMResponse, resolveMemoryEntry).
THEOREM MemoriesFit ==
  ASSUME NEW call \in ReflectCalls, NEW done, ~Invalid(call)
  PROVE  /\ MemoryOf(call, done) # Nothing =>
              /\ MemoryOf(call, done).importance \in 1..10
              /\ MemoryOf(call, done).type \in MemoryTypes
         /\ (done.skipped /\ ~call.whole /\ Completed(call).content # "text") =>
              MemoryOf(call, done) = Nothing
<1>1. CASE Completed(call).content = "text"
  BY <1>1, CompletedFits DEF MemoryOf
<1>2. CASE Completed(call).content # "text" /\ call.whole
  <2>1. call.nested.importance \in 1..10 /\ call.nested.type \in MemoryTypes
    BY <1>2 DEF Invalid
  <2> QED BY <1>2, <2>1 DEF MemoryOf
<1>3. CASE Completed(call).content # "text" /\ ~call.whole /\ done.skipped
  BY <1>3 DEF MemoryOf
<1>4. CASE Completed(call).content # "text" /\ ~call.whole /\ ~done.skipped
  <2>1. Fallback(done).importance = 3 /\ Fallback(done).type \in {"action", "observation"}
    BY DEF Fallback
  <2> QED BY <1>4, <2>1 DEF MemoryOf, MemoryTypes
<1> QED BY <1>1, <1>2, <1>3, <1>4

\* An answer moves no drive by more than the cap of an override, and leaves
\* every drive on its scale; one that is refused moves none
\* (sanitizeDriveOverrides, applyChanges).
THEOREM OverridesBounded ==
  ASSUME NEW before \in [Drives -> 0..100], NEW keys, NEW overrides \in Overrides(keys),
         NEW call \in ReflectCalls, NEW done, NEW stores \in BOOLEAN, NEW k \in Drives
  PROVE  LET after == Reflected(before, call, overrides, done, stores).drives
         IN  /\ after[k] \in 0..100
             /\ after[k] - before[k] \in (-MaxMagnitude)..MaxMagnitude
             /\ Invalid(call) => after = before
<1>1. before[k] \in 0..100 /\ DOMAIN before = Drives
  OBVIOUS
<1>2. CASE Invalid(call)
  BY <1>1, <1>2 DEF Reflected, MaxMagnitude
<1>3. CASE ~Invalid(call) /\ k \notin Usable(overrides)
  BY <1>1, <1>3 DEF Reflected, Overridden, MaxMagnitude
<1>4. CASE ~Invalid(call) /\ k \in Usable(overrides)
  <2> DEFINE n == overrides[k].amount
             by == Within(-MaxMagnitude, n, MaxMagnitude)
             after == Within(0, before[k] + by, 100)
  <2>1. n \in Int
    BY <1>4 DEF Usable, Overrides
  <2>2. by \in -50..50
    BY <2>1 DEF Within, MaxMagnitude
  <2>3. Reflected(before, call, overrides, done, stores).drives[k] = after
    BY <1>1, <1>4 DEF Reflected, Overridden, Sanitized
  <2> HIDE DEF by
  <2>4. after \in 0..100 /\ after - before[k] \in -50..50
    BY <1>1, <2>2 DEF Within
  <2> QED BY <1>4, <2>3, <2>4 DEF MaxMagnitude
<1> QED BY <1>2, <1>3, <1>4
-----------------------------------------------------------------------------
(* What a prompt that is cut to its budget still holds.                    *)

\* Induction, of a set of numbers in place of a predicate of numbers.
LEMMA SetInduction ==
  ASSUME NEW S, 0 \in S, \A n \in Nat : n \in S => n + 1 \in S
  PROVE  Nat \subseteq S
<1> DEFINE T == {n \in Nat : n \notin S}
<1>1. SUFFICES ASSUME T # {} PROVE FALSE
  OBVIOUS
<1>2. T \subseteq Nat
  OBVIOUS
<1>3. First(T) \in T /\ \A j \in T : First(T) =< j
  BY <1>1, <1>2, FirstIsLeast
<1>4. PICK n \in T : \A j \in T : n =< j
  BY <1>3
<1>5. n # 0 /\ n - 1 \in Nat /\ n - 1 < n
  BY <1>4
<1>6. n - 1 \in S
  BY <1>4, <1>5
<1>7. (n - 1) + 1 \in S
  BY <1>5, <1>6
<1>8. QED
  BY <1>4, <1>7

Cost(blocks, i) == IF Order[i] \in blocks THEN Chars[Order[i]] + 1 ELSE 0
Sums(f, blocks, n) == f = [i \in 0..n |-> IF i = 0 THEN 0 ELSE f[i - 1] + Cost(blocks, i)]

LEMMA SumsExist == ASSUME NEW blocks PROVE \A n \in Nat : \E f : Sums(f, blocks, n)
<1> DEFINE S == {n \in Nat : \E f : Sums(f, blocks, n)}
<1>1. 0 \in S
  <2> DEFINE g == [i \in 0..0 |-> 0]
  <2>1. Sums(g, blocks, 0)
    BY DEF Sums
  <2>2. QED
    BY <2>1
<1>2. ASSUME NEW n \in Nat, n \in S PROVE n + 1 \in S
  <2>1. PICK f : Sums(f, blocks, n)
    BY <1>2
  <2> DEFINE g == [i \in 0..(n + 1) |-> IF i = n + 1 THEN f[n] + Cost(blocks, n + 1) ELSE f[i]]
  <2>2. \A i \in 0..n : g[i] = f[i]
    OBVIOUS
  <2>3. \A i \in 0..n : f[i] = IF i = 0 THEN 0 ELSE f[i - 1] + Cost(blocks, i)
    BY <2>1 DEF Sums
  <2>4. g[n + 1] = g[n] + Cost(blocks, n + 1)
    BY <2>2
  <2>5. g = [i \in 0..(n + 1) |-> g[i]]
    OBVIOUS
  <2> HIDE DEF g
  <2>6. ASSUME NEW i \in 0..(n + 1)
        PROVE  g[i] = IF i = 0 THEN 0 ELSE g[i - 1] + Cost(blocks, i)
    <3>1. CASE i = n + 1
      BY <3>1, <2>4
    <3>2. CASE i # n + 1
      <4>1. i \in 0..n /\ (i # 0 => i - 1 \in 0..n)
        BY <3>2
      <4>2. QED
        BY <4>1, <2>2, <2>3
    <3>3. QED
      BY <3>1, <3>2
  <2>7. Sums(g, blocks, n + 1)
    BY <2>5, <2>6 DEF Sums
  <2>8. QED
    BY <2>7
<1> HIDE DEF S
<1>3. Nat \subseteq S
  BY <1>1, <1>2, SetInduction
<1>4. QED
  BY <1>3 DEF S

LEMMA Places ==
  /\ Len(Order) = 21
  /\ \A i \in 1..21 : Order[i] \in BlockIds
  /\ \A b \in BlockIds : \E i \in 1..21 : Order[i] = b
<1>1. Len(Order) = 21 /\ DOMAIN Order = 1..21
  BY DEF Order
<1>2. QED
  BY <1>1 DEF BlockIds

LEMMA CostType ==
  ASSUME NEW i \in 1..21, NEW blocks
  PROVE  Cost(blocks, i) \in Nat /\ (Order[i] \in blocks => Cost(blocks, i) >= 1)
<1>1. Order[i] \in BlockIds
  BY Places
<1>2. Chars[Order[i]] \in Nat
  BY <1>1, PlanPromptAssumption
<1>3. QED
  BY <1>2 DEF Cost

\* The sums of more blocks are greater, and not zero once there is one.
LEMMA SumsGrow ==
  ASSUME NEW A, NEW B, A \subseteq B, NEW f, NEW g, Sums(f, A, 21), Sums(g, B, 21)
  PROVE  \A n \in 0..21 : /\ f[n] \in Nat /\ g[n] \in Nat /\ f[n] =< g[n]
                          /\ \A i \in 1..n : Order[i] \in B => g[n] >= 1
<1> DEFINE Fine(n) == /\ f[n] \in Nat /\ g[n] \in Nat /\ f[n] =< g[n]
                      /\ \A i \in 1..n : Order[i] \in B => g[n] >= 1
           S == {n \in Nat : n =< 21 => Fine(n)}
<1>1. /\ \A i \in 0..21 : f[i] = IF i = 0 THEN 0 ELSE f[i - 1] + Cost(A, i)
      /\ \A i \in 0..21 : g[i] = IF i = 0 THEN 0 ELSE g[i - 1] + Cost(B, i)
  BY DEF Sums
<1>2. 0 \in S
  <2>1. f[0] = 0 /\ g[0] = 0
    BY <1>1
  <2>2. QED
    BY <2>1
<1>3. ASSUME NEW n \in Nat, n \in S PROVE n + 1 \in S
  <2>1. SUFFICES ASSUME n + 1 =< 21 PROVE Fine(n + 1)
    OBVIOUS
  <2>2. n + 1 \in 1..21 /\ n + 1 \in 0..21 /\ n + 1 # 0 /\ (n + 1) - 1 = n /\ n =< 21
    BY <2>1
  <2>3. f[n + 1] = f[n] + Cost(A, n + 1) /\ g[n + 1] = g[n] + Cost(B, n + 1)
    BY <1>1, <2>2
  <2>4. Fine(n)
    BY <1>3, <2>2
  <2>5. Cost(A, n + 1) \in Nat /\ Cost(B, n + 1) \in Nat /\ (Order[n + 1] \in B => Cost(B, n + 1) >= 1)
    BY <2>2, CostType
  <2>6. Cost(A, n + 1) =< Cost(B, n + 1)
    <3>1. CASE Order[n + 1] \in A
      BY <3>1, <2>5 DEF Cost
    <3>2. CASE Order[n + 1] \notin A
      BY <3>2, <2>5 DEF Cost
    <3>3. QED
      BY <3>1, <3>2
  <2>7. f[n + 1] \in Nat /\ g[n + 1] \in Nat /\ f[n + 1] =< g[n + 1]
    BY <2>3, <2>4, <2>5, <2>6
  <2>8. ASSUME NEW i \in 1..(n + 1), Order[i] \in B PROVE g[n + 1] >= 1
    <3>1. CASE i = n + 1
      BY <3>1, <2>3, <2>4, <2>5, <2>8
    <3>2. CASE i # n + 1
      <4>1. i \in 1..n
        BY <3>2
      <4>2. g[n] >= 1
        BY <4>1, <2>4, <2>8
      <4>3. QED
        BY <4>2, <2>3, <2>4, <2>5
    <3>3. QED
      BY <3>1, <3>2
  <2>9. QED
    BY <2>7, <2>8
<1> HIDE DEF S
<1>4. Nat \subseteq S
  BY <1>2, <1>3, SetInduction
<1>5. QED
  BY <1>4 DEF S

LEMMA LengthIs ==
  ASSUME NEW blocks
  PROVE  \E f : /\ Sums(f, blocks, 21)
                /\ JoinedLength(blocks) = IF blocks = {} THEN 0 ELSE f[21] - 1
<1> DEFINE upTo == CHOOSE f : f = [i \in 0..Len(Order) |->
                                     IF i = 0 THEN 0
                                     ELSE f[i - 1] + (IF Order[i] \in blocks
                                                      THEN Chars[Order[i]] + 1 ELSE 0)]
<1>1. \E f : f = [i \in 0..Len(Order) |->
                    IF i = 0 THEN 0
                    ELSE f[i - 1] + (IF Order[i] \in blocks THEN Chars[Order[i]] + 1 ELSE 0)]
  <2>1. PICK f : Sums(f, blocks, 21)
    BY SumsExist
  <2>2. Len(Order) = 21
    BY Places
  <2>3. f = [i \in 0..Len(Order) |->
               IF i = 0 THEN 0
               ELSE f[i - 1] + (IF Order[i] \in blocks THEN Chars[Order[i]] + 1 ELSE 0)]
    BY <2>1, <2>2 DEF Sums, Cost
  <2>4. QED
    BY <2>3
<1>2. upTo = [i \in 0..Len(Order) |->
                IF i = 0 THEN 0
                ELSE upTo[i - 1] + (IF Order[i] \in blocks THEN Chars[Order[i]] + 1 ELSE 0)]
  BY <1>1
<1>3. JoinedLength(blocks) = IF blocks = {} THEN 0 ELSE upTo[Len(Order)] - 1
  BY DEF JoinedLength
<1> HIDE DEF upTo
<1>4. Sums(upTo, blocks, 21)
  BY <1>2, Places DEF Sums, Cost
<1>5. QED
  BY <1>3, <1>4, Places

\* The context gets no longer when blocks are dropped.
LEMMA LengthGrows ==
  ASSUME NEW A, NEW B, A \subseteq B, B \subseteq BlockIds
  PROVE  JoinedLength(A) \in Int /\ JoinedLength(B) \in Int /\ JoinedLength(A) =< JoinedLength(B)
<1>1. PICK f : Sums(f, A, 21) /\ JoinedLength(A) = IF A = {} THEN 0 ELSE f[21] - 1
  BY LengthIs
<1>2. PICK g : Sums(g, B, 21) /\ JoinedLength(B) = IF B = {} THEN 0 ELSE g[21] - 1
  BY LengthIs
<1>3. /\ f[21] \in Nat /\ g[21] \in Nat /\ f[21] =< g[21]
      /\ \A i \in 1..21 : Order[i] \in B => g[21] >= 1
  BY <1>1, <1>2, SumsGrow
<1>4. B # {} => g[21] >= 1
  BY <1>3, Places
<1>5. QED
  BY <1>1, <1>2, <1>3, <1>4

\* Blocks go in the order of a number.
Rank(b) == 21 * (5 - Tier[b]) + (21 - Position[b])

LEMMA PositionIs == \A b \in BlockIds : Position[b] \in 1..21 /\ Order[Position[b]] = b
<1>1. ASSUME NEW b \in BlockIds PROVE Position[b] \in 1..21 /\ Order[Position[b]] = b
  <2>1. DOMAIN Order = 1..21
    BY DEF Order
  <2>2. \E i \in DOMAIN Order : Order[i] = b
    BY <2>1, Places
  <2>3. Position[b] = CHOOSE i \in DOMAIN Order : Order[i] = b
    BY DEF Position
  <2>4. QED
    BY <2>1, <2>2, <2>3
<1>2. QED
  BY <1>1

LEMMA TierIs == \A b \in BlockIds : Tier[b] \in 0..5
  BY DEF Tier

LEMMA RankOrders ==
  ASSUME NEW b \in BlockIds, NEW c \in BlockIds
  PROVE  Rank(b) \in Nat /\ (GoesBefore(b, c) <=> Rank(b) < Rank(c))
<1>1. Position[b] \in 1..21 /\ Position[c] \in 1..21
  BY PositionIs
<1>2. Tier[b] \in 0..5 /\ Tier[c] \in 0..5
  BY TierIs
<1>3. \A t, u \in 0..5, p, q \in 1..21 :
        /\ 21 * (5 - t) + (21 - p) \in Nat
        /\ (t > u \/ (t = u /\ p > q)) <=> 21 * (5 - t) + (21 - p) < 21 * (5 - u) + (21 - q)
  OBVIOUS
<1>4. /\ 21 * (5 - Tier[b]) + (21 - Position[b]) \in Nat
      /\ (Tier[b] > Tier[c] \/ (Tier[b] = Tier[c] /\ Position[b] > Position[c])) <=>
           21 * (5 - Tier[b]) + (21 - Position[b]) < 21 * (5 - Tier[c]) + (21 - Position[c])
  BY <1>1, <1>2, <1>3
<1>5. QED
  BY <1>4 DEF Rank, GoesBefore

\* What is left of blocks of which some had to go: what is required stays, a
\* block that goes before another does not outlive it, and what is left is
\* too long only if nothing else could go.
LEMMA WhatStays ==
  ASSUME NEW B \in SUBSET BlockIds, NEW ceiling \in Int
  PROVE  LET kept == B \ DroppedBlocks(B, ceiling)
         IN  /\ B \cap Required \subseteq kept
             /\ JoinedLength(kept) > ceiling => kept \subseteq Required
             /\ \A b \in B, c \in kept \ Required : GoesBefore(c, b) => b \in kept
<1> DEFINE optional == B \ Required
           Left(b) == B \ {c \in optional : GoesBefore(c, b)}
           kept == B \ DroppedBlocks(B, ceiling)
<1>1. DroppedBlocks(B, ceiling) = {b \in optional : JoinedLength(Left(b)) > ceiling}
  BY DEF DroppedBlocks
<1>2. B \cap Required \subseteq kept
  BY <1>1
<1>3. ASSUME JoinedLength(kept) > ceiling, ~(kept \subseteq Required) PROVE FALSE
  <2> DEFINE ranks == {Rank(b) : b \in kept \ Required}
  <2>1. ranks # {}
    BY <1>3
  <2>2. ranks \subseteq Nat
    BY RankOrders
  <2>3. PICK r \in ranks : \A q \in ranks : r =< q
    BY <2>1, <2>2, FirstIsLeast
  <2>4. PICK b \in kept \ Required : r = Rank(b)
    BY <2>3
  <2>5. ASSUME NEW c \in kept PROVE c \in Left(b)
    <3>1. CASE c \in optional
      <4>1. Rank(c) \in ranks /\ b \in BlockIds /\ c \in BlockIds
        BY <3>1, <2>4, <2>5
      <4>2. Rank(b) =< Rank(c) /\ Rank(b) \in Nat /\ Rank(c) \in Nat
        BY <4>1, <2>2, <2>3, <2>4
      <4>3. ~(Rank(c) < Rank(b))
        BY <4>2
      <4>4. QED
        BY <4>1, <4>3, <2>5, RankOrders
    <3>2. CASE c \notin optional
      BY <3>2, <2>5
    <3>3. QED
      BY <3>1, <3>2
  <2>6. kept \subseteq Left(b) /\ Left(b) \subseteq BlockIds
    BY <2>5
  <2>7. JoinedLength(Left(b)) =< ceiling
    <3>1. b \in optional /\ ~(JoinedLength(Left(b)) > ceiling)
      BY <2>4, <1>1
    <3> HIDE DEF Left
    <3>2. JoinedLength(Left(b)) \in Int
      BY <2>6, LengthGrows
    <3>3. QED
      BY <3>1, <3>2
  <2> HIDE DEF Left, kept
  <2>8. /\ JoinedLength(kept) \in Int /\ JoinedLength(Left(b)) \in Int
        /\ JoinedLength(kept) =< JoinedLength(Left(b))
    BY <2>6, LengthGrows
  <2>9. QED
    BY <2>7, <2>8, <1>3
<1>4. ASSUME NEW b \in B, NEW c \in kept \ Required, GoesBefore(c, b) PROVE b \in kept
  <2>1. SUFFICES ASSUME b \in optional, JoinedLength(Left(b)) > ceiling PROVE FALSE
    BY <1>1
  <2>2. ASSUME NEW d \in Left(b) PROVE d \in Left(c)
    <3>1. CASE d \in optional /\ GoesBefore(d, c)
      <4>1. b \in BlockIds /\ c \in BlockIds /\ d \in BlockIds
        BY <3>1
      <4>2. /\ Rank(d) < Rank(c) /\ Rank(c) < Rank(b)
            /\ Rank(b) \in Nat /\ Rank(c) \in Nat /\ Rank(d) \in Nat
        BY <4>1, <3>1, <1>4, RankOrders
      <4>3. GoesBefore(d, b)
        BY <4>1, <4>2, RankOrders
      <4>4. QED
        BY <4>3, <3>1, <2>2
    <3>2. CASE ~(d \in optional /\ GoesBefore(d, c))
      BY <3>2, <2>2
    <3>3. QED
      BY <3>1, <3>2
  <2>3. Left(b) \subseteq Left(c) /\ Left(c) \subseteq BlockIds
    BY <2>2
  <2>4. ~(JoinedLength(Left(c)) > ceiling)
    BY <1>1
  <2> HIDE DEF Left
  <2>5. /\ JoinedLength(Left(b)) \in Int /\ JoinedLength(Left(c)) \in Int
        /\ JoinedLength(Left(b)) =< JoinedLength(Left(c))
    BY <2>3, LengthGrows
  <2>6. QED
    BY <2>1, <2>4, <2>5
<1>5. QED
  BY <1>2, <1>3, <1>4

\* What a cycle has to have found for its prompt: drives that are numbers, and
\* affordances, each with what it does.
Effects == [id : STRING, restores : STRING, progresses : STRING]
NoTool(s) ==
  \A i \in DOMAIN s : \A k \in DOMAIN DefaultCognitiveTools : s[i].id # DefaultCognitiveTools[k]
SoundPrompt(p) ==
  /\ p.drives \in [Drives -> Int]
  /\ p.reads.affordances \in Seq(Effects)
  /\ NoTool(p.reads.affordances)

\* What is mentioned is offered.
LEMMA MentionsAreOffered ==
  ASSUME NEW ds, NEW s \in Seq(Effects), NEW m \in Mentions(ds, s)
  PROVE  m \subseteq DOMAIN s
<1>1. \A d : Restoring(s, d) \subseteq DOMAIN s /\ Chain(s, d) \subseteq DOMAIN s
  BY DEF Restoring, Chain, FirstOf
<1>2. QED
  BY <1>1 DEF Mentions

LEMMA HintsAreOffered ==
  ASSUME NEW ds, NEW s \in Seq(Effects)
  PROVE  Hinted(ds, s) \subseteq {s[i].id : i \in DOMAIN s}
<1>1. SUFFICES ASSUME NEW m \in Mentions(ds, s), m # {}
               PROVE  First(m) \in DOMAIN s
  BY DEF Hinted
<1>2. m \subseteq DOMAIN s /\ DOMAIN s \subseteq Nat
  BY MentionsAreOffered
<1>3. QED
  BY <1>1, <1>2, FirstIsLeast

LEMMA FirstIsAmongFirst ==
  ASSUME NEW S, S \subseteq Nat, S # {} PROVE FirstOf(S) # {}
<1>1. First(S) \in S /\ \A j \in S : First(S) =< j
  BY FirstIsLeast
<1>2. {j \in S : j < First(S)} = {}
  <2>1. ASSUME NEW j \in S PROVE ~(j < First(S))
    <3>1. j \in Nat /\ First(S) \in Nat /\ First(S) =< j
      BY <1>1
    <3>2. QED
      BY <3>1
  <2>2. QED
    BY <2>1
<1>3. Cardinality({j \in S : j < First(S)}) < MaxMentions
  BY <1>2, FS_EmptySet DEF MaxMentions
<1>4. First(S) \in FirstOf(S)
  BY <1>1, <1>3 DEF FirstOf
<1>5. QED
  BY <1>4

\* A wait that would be refused is warned of.
LEMMA WarnedOf ==
  ASSUME NEW ds \in [Drives -> Int], NEW s \in Seq(Effects), WaitRefused(ds, s)
  PROVE  Hinted(ds, s) # {}
<1>1. PICK d \in HintableDrives : ds[d] < Critical /\ \E i \in DOMAIN s : s[i].restores = d
  BY DEF WaitRefused
<1> DEFINE S == {i \in DOMAIN s : s[i].restores = d}
<1>2. S \subseteq Nat /\ S # {}
  BY <1>1
<1>3. FirstOf(S) # {} /\ Restoring(s, d) = FirstOf(S)
  BY <1>2, FirstIsAmongFirst DEF Restoring
<1>4. ds[d] \in Int /\ ds[d] < Urgent
  BY <1>1 DEF HintableDrives, Critical, Urgent
<1>5. Restoring(s, d) \in Mentions(ds, s) \ {{}}
  BY <1>3, <1>4 DEF Mentions
<1>6. QED
  BY <1>5 DEF Hinted

LEMMA BlocksAre ==
  BlockIds = {"room", "objects", "agents-present", "relationships", "compound-actions",
              "object-dependencies", "separator", "primary-drive", "drives", "last-plan",
              "last-plan-reflection", "social-messages", "social-primary-hint", "social-directive",
              "drive-hints", "known-areas", "known-areas-directive", "unexplored-areas", "horizon",
              "system-feedback", "stuck-warning"}
<1>1. DOMAIN Order = 1..21
  BY DEF Order
<1>2. /\ Order[1] = "room" /\ Order[2] = "objects" /\ Order[3] = "agents-present"
      /\ Order[4] = "relationships" /\ Order[5] = "compound-actions"
      /\ Order[6] = "object-dependencies" /\ Order[7] = "separator"
      /\ Order[8] = "primary-drive" /\ Order[9] = "drives" /\ Order[10] = "last-plan"
      /\ Order[11] = "last-plan-reflection" /\ Order[12] = "social-messages"
      /\ Order[13] = "social-primary-hint" /\ Order[14] = "social-directive"
      /\ Order[15] = "drive-hints" /\ Order[16] = "known-areas"
      /\ Order[17] = "known-areas-directive" /\ Order[18] = "unexplored-areas"
      /\ Order[19] = "horizon" /\ Order[20] = "system-feedback" /\ Order[21] = "stuck-warning"
  BY DEF Order
<1>3. 1..21 = {1, 2, 3, 4, 5, 6, 7, 8, 9, 10, 11, 12, 13, 14, 15, 16, 17, 18, 19, 20, 21}
  OBVIOUS
<1>4. BlockIds = {Order[i] : i \in {1, 2, 3, 4, 5, 6, 7, 8, 9, 10, 11, 12, 13, 14, 15, 16, 17,
                                    18, 19, 20, 21}}
  BY <1>1, <1>3 DEF BlockIds
<1>5. QED
  BY <1>2, <1>4

LEMMA BlocksKnown == ASSUME NEW p PROVE Blocks(p) \subseteq BlockIds
  BY BlocksAre DEF Blocks, Only

\* What explains or reflects on another goes before it.
LEMMA WhatGoesFirst ==
  /\ GoesBefore("known-areas-directive", "known-areas")
  /\ GoesBefore("last-plan-reflection", "last-plan")
<1>1. {"known-areas-directive", "known-areas", "last-plan-reflection", "last-plan"} \subseteq BlockIds
  BY BlocksAre
<1>2. DOMAIN Order = 1..21
  BY DEF Order
<1>3. Position["known-areas"] = 16 /\ Position["known-areas-directive"] = 17
  BY <1>1, PositionIs DEF Order
<1>4. Position["last-plan"] = 10 /\ Position["last-plan-reflection"] = 11
  BY <1>1, PositionIs DEF Order
<1>5. /\ Tier["known-areas"] = 2 /\ Tier["known-areas-directive"] = 2
      /\ Tier["last-plan"] = 3 /\ Tier["last-plan-reflection"] = 3
  BY <1>1 DEF Tier
<1>6. QED
  BY <1>3, <1>4, <1>5 DEF GoesBefore
-----------------------------------------------------------------------------
(* The tools that a list holds.                                            *)

Named ==
  STRING \cup {"formulate_plan", "query_memory", "update_internal_state", "update_self_model",
               "talk_to", "observe_agent", "help", "ignore", "modify_scene"}
Listed(tools) == {tools[i] : i \in DOMAIN tools}

LEMMA JoinedList ==
  ASSUME NEW s \in Seq(Named), NEW t \in Seq(Named)
  PROVE  s \o t \in Seq(Named) /\ Listed(s \o t) = Listed(s) \cup Listed(t)
<1>1. /\ Len(s) \in Nat /\ DOMAIN s = 1..Len(s) /\ Len(t) \in Nat /\ DOMAIN t = 1..Len(t)
  BY LenProperties
<1>2. /\ s \o t \in Seq(Named) /\ Len(s \o t) = Len(s) + Len(t)
      /\ \A i \in 1..(Len(s) + Len(t)) : (s \o t)[i] = IF i =< Len(s) THEN s[i] ELSE t[i - Len(s)]
  BY ConcatProperties
<1>3. DOMAIN (s \o t) = 1..(Len(s) + Len(t))
  BY <1>2, LenProperties
<1>4. ASSUME NEW i \in DOMAIN (s \o t) PROVE (s \o t)[i] \in Listed(s) \cup Listed(t)
  <2>1. CASE i =< Len(s)
    BY <1>1, <1>2, <1>3, <1>4, <2>1 DEF Listed
  <2>2. CASE ~(i =< Len(s))
    <3>1. i - Len(s) \in DOMAIN t /\ (s \o t)[i] = t[i - Len(s)]
      BY <1>1, <1>2, <1>3, <1>4, <2>2
    <3>2. QED
      BY <3>1 DEF Listed
  <2>3. QED
    BY <2>1, <2>2
<1>5. ASSUME NEW i \in DOMAIN s PROVE s[i] \in Listed(s \o t)
  <2>1. i \in DOMAIN (s \o t) /\ (s \o t)[i] = s[i]
    BY <1>1, <1>2, <1>3, <1>5
  <2>2. QED
    BY <2>1 DEF Listed
<1>6. ASSUME NEW i \in DOMAIN t PROVE t[i] \in Listed(s \o t)
  <2>1. i + Len(s) \in DOMAIN (s \o t) /\ (s \o t)[i + Len(s)] = t[i]
    BY <1>1, <1>2, <1>3, <1>6
  <2>2. QED
    BY <2>1 DEF Listed
<1>7. QED
  BY <1>2, <1>4, <1>5, <1>6 DEF Listed

LEMMA AffordanceList ==
  ASSUME NEW s \in Seq(Effects)
  PROVE  /\ AffordanceTools(s) \in Seq(Named)
         /\ Listed(AffordanceTools(s)) = {s[i].id : i \in DOMAIN s}
<1>1. Len(s) \in Nat /\ DOMAIN s = 1..Len(s) /\ \A i \in 1..Len(s) : s[i] \in Effects
  BY ElementOfSeq, LenProperties
<1>2. \A i \in 1..Len(s) : s[i].id \in Named
  BY <1>1 DEF Effects, Named
<1>3. AffordanceTools(s) = [i \in 1..Len(s) |-> s[i].id]
  BY <1>1 DEF AffordanceTools
<1>4. AffordanceTools(s) \in Seq(Named)
  BY <1>1, <1>2, <1>3
<1>5. Listed(AffordanceTools(s)) = {s[i].id : i \in DOMAIN s}
  BY <1>1, <1>3 DEF Listed
<1>6. QED
  BY <1>4, <1>5

LEMMA FixedLists ==
  /\ <<"talk_to">> \in Seq(Named) /\ Listed(<<"talk_to">>) = {"talk_to"}
  /\ <<>> \in Seq(Named) /\ Listed(<<>>) = {}
  /\ <<"formulate_plan">> \in Seq(Named) /\ Listed(<<"formulate_plan">>) = {"formulate_plan"}
  /\ <<"observe_agent", "help", "ignore">> \in Seq(Named)
  /\ Listed(<<"observe_agent", "help", "ignore">>) = {"observe_agent", "help", "ignore"}
  /\ CognitiveTools \in Seq(Named) /\ DefaultCognitiveTools \in Seq(Named)
<1>1. "talk_to" \in Named /\ "formulate_plan" \in Named /\ "observe_agent" \in Named
  BY DEF Named
<1>2. "help" \in Named /\ "ignore" \in Named /\ "query_memory" \in Named
  BY DEF Named
<1>3. /\ "update_internal_state" \in Named /\ "update_self_model" \in Named
      /\ "modify_scene" \in Named
  BY DEF Named
<1>4. ASSUME NEW x \in Named PROVE <<x>> \in Seq(Named) /\ Listed(<<x>>) = {x}
  BY DEF Listed
<1>5. ASSUME NEW x \in Named, NEW y \in Named, NEW z \in Named
      PROVE  <<x, y, z>> \in Seq(Named) /\ Listed(<<x, y, z>>) = {x, y, z}
  <2>1. <<x, y, z>> \in Seq(Named) /\ DOMAIN <<x, y, z>> = {1, 2, 3}
    OBVIOUS
  <2>2. QED
    BY <2>1 DEF Listed
<1>6. <<>> \in Seq(Named) /\ Listed(<<>>) = {}
  BY DEF Listed
<1>7. CognitiveTools \in Seq(Named)
  <2>1. \A x, y \in Named : <<x, y>> \in Seq(Named)
    OBVIOUS
  <2>2. QED
    BY <1>2, <1>3, <2>1 DEF CognitiveTools
<1>8. DefaultCognitiveTools \in Seq(Named)
  <2>1. \A x1, x2, x3, x4, x5, x6, x7, x8, x9 \in Named :
          <<x1, x2, x3, x4, x5, x6, x7, x8, x9>> \in Seq(Named)
    OBVIOUS
  <2>2. QED
    BY <1>1, <1>2, <1>3, <2>1 DEF DefaultCognitiveTools
<1>9. QED
  BY <1>1, <1>2, <1>4, <1>5, <1>6, <1>7, <1>8

\* The social tools are offered with somebody to use them on.
SocialNames(p) ==
  IF p.present = {} THEN {}
  ELSE {"observe_agent", "help", "ignore"} \cup (IF TalkOffered(p) THEN {"talk_to"} ELSE {})

LEMMA SocialList ==
  ASSUME NEW p
  PROVE  SocialTools(p) \in Seq(Named) /\ Listed(SocialTools(p)) = SocialNames(p)
<1>1. TalkTool(p) \in Seq(Named) /\ Listed(TalkTool(p)) = IF TalkOffered(p) THEN {"talk_to"} ELSE {}
  BY FixedLists DEF TalkTool
<1> DEFINE o == <<"observe_agent", "help", "ignore">>
           s == TalkTool(p) \o o
<1>7. o \in Seq(Named) /\ Listed(o) = {"observe_agent", "help", "ignore"}
  BY FixedLists
<1>3. SocialTools(p) = IF p.present = {} THEN <<>> ELSE s
  BY DEF SocialTools
<1> HIDE DEF o
<1>8. s \in Seq(Named) /\ Listed(s) = Listed(TalkTool(p)) \cup Listed(o)
  BY <1>1, <1>7, JoinedList
<1>2. s \in Seq(Named) /\ Listed(s) = Listed(TalkTool(p)) \cup {"observe_agent", "help", "ignore"}
  BY <1>7, <1>8
<1> HIDE DEF s
<1>4. CASE p.present = {}
  BY <1>3, <1>4, FixedLists DEF SocialNames
<1>5. CASE p.present # {}
  BY <1>1, <1>2, <1>3, <1>5 DEF SocialNames
<1>6. QED
  BY <1>4, <1>5

LEMMA PlanList ==
  ASSUME NEW p, SoundPrompt(p)
  PROVE  /\ PlanTools(p) \in Seq(Named)
         /\ Listed(PlanTools(p)) = SocialNames(p) \cup Listed(CognitiveTools)
                \cup Listed(AffordanceTools(p.reads.affordances)) \cup {"formulate_plan"}
<1> DEFINE s == SocialTools(p)
           c == CognitiveTools
           t == AffordanceTools(p.reads.affordances)
           f == <<"formulate_plan">>
           o == c \o t
<1>1. /\ s \in Seq(Named) /\ Listed(s) = SocialNames(p)
      /\ c \in Seq(Named) /\ t \in Seq(Named)
      /\ f \in Seq(Named) /\ Listed(f) = {"formulate_plan"}
  BY SocialList, AffordanceList, FixedLists DEF SoundPrompt
<1>2. PlanTools(p) = IF IsSocialPrimary(p) THEN (s \o o) \o f ELSE (s \o f) \o o
  BY DEF PlanTools
<1> HIDE DEF s, c, t, f
<1>3. o \in Seq(Named) /\ Listed(o) = Listed(c) \cup Listed(t)
  BY <1>1, JoinedList
<1> HIDE DEF o
<1>4. /\ s \o o \in Seq(Named) /\ Listed(s \o o) = Listed(s) \cup Listed(o)
      /\ s \o f \in Seq(Named) /\ Listed(s \o f) = Listed(s) \cup Listed(f)
  BY <1>1, <1>3, JoinedList
<1>5. /\ (s \o o) \o f \in Seq(Named) /\ Listed((s \o o) \o f) = Listed(s \o o) \cup Listed(f)
      /\ (s \o f) \o o \in Seq(Named) /\ Listed((s \o f) \o o) = Listed(s \o f) \cup Listed(o)
  BY <1>1, <1>3, <1>4, JoinedList
<1>6. PlanTools(p) \in Seq(Named)
  BY <1>2, <1>5
<1>7. Listed(PlanTools(p)) = Listed(s) \cup Listed(c) \cup Listed(t) \cup Listed(f)
  BY <1>2, <1>3, <1>4, <1>5
<1>8. QED
  BY <1>1, <1>6, <1>7 DEF c, t

\* Putting a tool first adds none and loses none.
LEMMA RankedList ==
  ASSUME NEW t \in Seq(Named)
  PROVE  MoveTalkToFirst(t) \in Seq(Named) /\ Listed(MoveTalkToFirst(t)) = Listed(t)
<1>1. Len(t) \in Nat /\ DOMAIN t = 1..Len(t) /\ \A i \in 1..Len(t) : t[i] \in Named
  BY LenProperties, ElementOfSeq
<1> DEFINE found == {i \in DOMAIN t : t[i] = "talk_to"}
           k == First(found)
           a == <<"talk_to">>
           b == SubSeq(t, 1, k - 1)
           c == SubSeq(t, k + 1, Len(t))
<1>2. CASE found = {}
  BY <1>2 DEF MoveTalkToFirst
<1>3. CASE found # {}
  <2>1. found \subseteq Nat
    BY <1>1
  <2>2. k \in found
    BY <1>3, <2>1, FirstIsLeast
  <2>3. k \in 1..Len(t) /\ t[k] = "talk_to"
    BY <1>1, <2>2
  <2>4. MoveTalkToFirst(t) = (a \o b) \o c
    BY <1>3 DEF MoveTalkToFirst
  <2>5. a \in Seq(Named) /\ Listed(a) = {"talk_to"}
    BY FixedLists
  <2> HIDE DEF k, found
  <2>6. /\ b \in Seq(Named) /\ Len(b) = k - 1
        /\ \A i \in 1..(k - 1) : b[i] = t[i]
    <3>1. k - 1 \in Int /\ \A i \in 1..(k - 1) : t[i] \in Named
      BY <1>1, <2>3
    <3>2. /\ b \in Seq(Named) /\ Len(b) = IF 1 =< k - 1 THEN (k - 1) - 1 + 1 ELSE 0
          /\ \A i \in 1..((k - 1) - 1 + 1) : b[i] = t[1 + i - 1]
      BY <3>1, SubSeqProperties
    <3>3. QED
      BY <2>3, <3>2
  <2>7. /\ c \in Seq(Named) /\ Len(c) = Len(t) - k
        /\ \A i \in 1..(Len(t) - k) : c[i] = t[k + i]
    <3>1. k + 1 \in Int /\ Len(t) \in Int /\ \A i \in (k + 1)..Len(t) : t[i] \in Named
      BY <1>1, <2>3
    <3>2. /\ c \in Seq(Named) /\ Len(c) = IF k + 1 =< Len(t) THEN Len(t) - (k + 1) + 1 ELSE 0
          /\ \A i \in 1..(Len(t) - (k + 1) + 1) : c[i] = t[(k + 1) + i - 1]
      BY <3>1, SubSeqProperties
    <3>3. Len(t) \in Nat /\ k \in Nat /\ k =< Len(t)
      BY <1>1, <2>3
    <3>4. Len(t) - (k + 1) + 1 = Len(t) - k
      BY <3>3
    <3> HIDE DEF c
    <3>5. Len(c) = Len(t) - k
      <4>1. CASE k + 1 =< Len(t)
        BY <3>2, <3>4, <4>1
      <4>2. CASE ~(k + 1 =< Len(t))
        <5>1. Len(c) = 0
          BY <3>2, <4>2
        <5>2. k = Len(t)
          BY <3>3, <4>2
        <5>3. QED
          BY <3>3, <5>1, <5>2
      <4>3. QED
        BY <4>1, <4>2
    <3>6. ASSUME NEW i \in 1..(Len(t) - k) PROVE c[i] = t[k + i]
      <4>1. c[i] = t[(k + 1) + i - 1]
        BY <3>2, <3>4
      <4>2. (k + 1) + i - 1 = k + i
        BY <3>3
      <4>3. QED
        BY <4>1, <4>2
    <3>7. QED
      BY <3>2, <3>5, <3>6
  <2>8. DOMAIN b = 1..(k - 1) /\ DOMAIN c = 1..(Len(t) - k)
    BY <2>6, <2>7, LenProperties
  <2> HIDE DEF a, b, c
  <2>9. a \o b \in Seq(Named) /\ Listed(a \o b) = Listed(a) \cup Listed(b)
    BY <2>5, <2>6, JoinedList
  <2>10. (a \o b) \o c \in Seq(Named) /\ Listed((a \o b) \o c) = Listed(a \o b) \cup Listed(c)
    BY <2>7, <2>9, JoinedList
  <2>11. ASSUME NEW i \in DOMAIN t PROVE t[i] \in Listed(a) \cup Listed(b) \cup Listed(c)
    <3>1. CASE i = k
      BY <3>1, <2>3, <2>5
    <3>2. CASE i < k
      <4>1. i \in DOMAIN b /\ b[i] = t[i]
        BY <1>1, <2>3, <2>6, <2>8, <2>11, <3>2
      <4>2. QED
        BY <4>1 DEF Listed
    <3>3. CASE i > k
      <4>1. i - k \in DOMAIN c /\ c[i - k] = t[i]
        BY <1>1, <2>3, <2>7, <2>8, <2>11, <3>3
      <4>2. QED
        BY <4>1 DEF Listed
    <3>4. QED
      BY <1>1, <2>3, <2>11, <3>1, <3>2, <3>3
  <2>12. Listed(t) \subseteq Listed(a) \cup Listed(b) \cup Listed(c)
    BY <2>11 DEF Listed
  <2>13. Listed(a) \subseteq Listed(t)
    BY <1>1, <2>3, <2>5 DEF Listed
  <2>14. ASSUME NEW i \in DOMAIN b PROVE b[i] \in Listed(t)
    <3>1. i \in DOMAIN t /\ b[i] = t[i]
      BY <1>1, <2>3, <2>6, <2>8, <2>14
    <3>2. QED
      BY <3>1 DEF Listed
  <2>15. ASSUME NEW i \in DOMAIN c PROVE c[i] \in Listed(t)
    <3>1. i \in 1..(Len(t) - k) /\ c[i] = t[k + i]
      BY <2>7, <2>8, <2>15
    <3>2. \A l, n \in Nat : n >= 1 => \A j \in 1..(l - n) : n + j \in 1..l
      OBVIOUS
    <3>3. Len(t) \in Nat /\ k \in Nat /\ k >= 1
      BY <1>1, <2>3
    <3>4. k + i \in DOMAIN t
      BY <1>1, <3>1, <3>2, <3>3
    <3>5. QED
      BY <3>1, <3>4 DEF Listed
  <2>16. Listed(b) \subseteq Listed(t) /\ Listed(c) \subseteq Listed(t)
    BY <2>14, <2>15 DEF Listed
  <2>17. QED
    BY <2>4, <2>9, <2>10, <2>12, <2>13, <2>16
<1>4. QED
  BY <1>2, <1>3

\* The lists of the tools kept of the first so many.
KeptTools(f, tool, t, n) ==
  f = [i \in 0..n |-> IF i = 0 THEN <<>>
                      ELSE IF t[i] = tool THEN f[i - 1] ELSE Append(f[i - 1], t[i])]

LEMMA KeptToolsExist ==
  ASSUME NEW tool, NEW t PROVE \A n \in Nat : \E f : KeptTools(f, tool, t, n)
<1> DEFINE S == {n \in Nat : \E f : KeptTools(f, tool, t, n)}
           After(s, i) == IF t[i] = tool THEN s ELSE Append(s, t[i])
<1>1. 0 \in S
  <2> DEFINE g == [i \in 0..0 |-> <<>>]
  <2>1. KeptTools(g, tool, t, 0)
    BY DEF KeptTools
  <2>2. QED
    BY <2>1
<1>2. ASSUME NEW n \in Nat, n \in S PROVE n + 1 \in S
  <2>1. PICK f : KeptTools(f, tool, t, n)
    BY <1>2
  <2> DEFINE g == [i \in 0..(n + 1) |-> IF i = n + 1 THEN After(f[n], n + 1) ELSE f[i]]
  <2>2. \A i \in 0..n : g[i] = f[i]
    OBVIOUS
  <2>3. \A i \in 0..n : f[i] = IF i = 0 THEN <<>> ELSE After(f[i - 1], i)
    BY <2>1 DEF KeptTools
  <2>4. g[n + 1] = After(g[n], n + 1)
    BY <2>2
  <2>5. g = [i \in 0..(n + 1) |-> g[i]]
    OBVIOUS
  <2> HIDE DEF g, After
  <2>6. ASSUME NEW i \in 0..(n + 1)
        PROVE  g[i] = IF i = 0 THEN <<>> ELSE After(g[i - 1], i)
    <3>1. CASE i = n + 1
      BY <3>1, <2>4
    <3>2. CASE i # n + 1
      <4>1. i \in 0..n /\ (i # 0 => i - 1 \in 0..n)
        BY <3>2
      <4>2. QED
        BY <4>1, <2>2, <2>3
    <3>3. QED
      BY <3>1, <3>2
  <2>7. KeptTools(g, tool, t, n + 1)
    BY <2>5, <2>6 DEF KeptTools, After
  <2>8. QED
    BY <2>7
<1> HIDE DEF S
<1>3. Nat \subseteq S
  BY <1>1, <1>2, SetInduction
<1>4. QED
  BY <1>3 DEF S

LEMMA AppendedList ==
  ASSUME NEW s \in Seq(Named), NEW x \in Named
  PROVE  Append(s, x) \in Seq(Named) /\ Listed(s) \cup {x} \subseteq Listed(Append(s, x))
<1>1. /\ Len(s) \in Nat /\ DOMAIN s = 1..Len(s)
      /\ Append(s, x) \in Seq(Named) /\ Len(Append(s, x)) = Len(s) + 1
  BY LenProperties, AppendProperties
<1>2. DOMAIN Append(s, x) = 1..(Len(s) + 1)
  BY <1>1, LenProperties
<1>3. Append(s, x)[Len(s) + 1] = x /\ \A i \in 1..Len(s) : Append(s, x)[i] = s[i]
  BY <1>1, AppendProperties
<1>4. x \in Listed(Append(s, x))
  BY <1>1, <1>2, <1>3 DEF Listed
<1>5. ASSUME NEW i \in DOMAIN s PROVE s[i] \in Listed(Append(s, x))
  <2>1. i \in DOMAIN Append(s, x) /\ Append(s, x)[i] = s[i]
    BY <1>1, <1>2, <1>3, <1>5
  <2>2. QED
    BY <2>1 DEF Listed
<1>6. QED
  BY <1>1, <1>4, <1>5 DEF Listed

\* Without a tool, all others are there.
LEMMA OthersStay ==
  ASSUME NEW t \in Seq(Named), NEW tool
  PROVE  Listed(t) \ {tool} \subseteq Listed(Without(tool, t))
<1>1. Len(t) \in Nat /\ DOMAIN t = 1..Len(t) /\ \A i \in 1..Len(t) : t[i] \in Named
  BY LenProperties, ElementOfSeq
<1> DEFINE upTo == CHOOSE f : f = [i \in 0..Len(t) |->
                                     IF i = 0 THEN <<>>
                                     ELSE IF t[i] = tool THEN f[i - 1] ELSE Append(f[i - 1], t[i])]
<1>2. \E f : f = [i \in 0..Len(t) |->
                    IF i = 0 THEN <<>>
                    ELSE IF t[i] = tool THEN f[i - 1] ELSE Append(f[i - 1], t[i])]
  <2>1. PICK f : KeptTools(f, tool, t, Len(t))
    BY <1>1, KeptToolsExist
  <2>2. QED
    BY <2>1 DEF KeptTools
<1>3. upTo = [i \in 0..Len(t) |->
                IF i = 0 THEN <<>>
                ELSE IF t[i] = tool THEN upTo[i - 1] ELSE Append(upTo[i - 1], t[i])]
  BY <1>2
<1>4. Without(tool, t) = upTo[Len(t)]
  BY DEF Without
<1> HIDE DEF upTo
<1>5. \A i \in 0..Len(t) :
        upTo[i] = IF i = 0 THEN <<>>
                  ELSE IF t[i] = tool THEN upTo[i - 1] ELSE Append(upTo[i - 1], t[i])
  BY <1>3
<1> DEFINE Fine(n) == /\ upTo[n] \in Seq(Named)
                      /\ \A i \in 1..n : t[i] # tool => t[i] \in Listed(upTo[n])
           S == {n \in Nat : n =< Len(t) => Fine(n)}
<1>6. 0 \in S
  <2>1. upTo[0] = <<>>
    BY <1>1, <1>5
  <2>2. <<>> \in Seq(Named)
    BY FixedLists
  <2>3. \A i \in 1..0 : FALSE
    OBVIOUS
  <2>4. QED
    BY <2>1, <2>2, <2>3
<1>7. ASSUME NEW n \in Nat, n \in S PROVE n + 1 \in S
  <2>1. SUFFICES ASSUME n + 1 =< Len(t) PROVE Fine(n + 1)
    OBVIOUS
  <2>2. n + 1 \in 1..Len(t) /\ n + 1 \in 0..Len(t) /\ n + 1 # 0 /\ (n + 1) - 1 = n /\ n =< Len(t)
    BY <1>1, <2>1
  <2>3. upTo[n + 1] = IF t[n + 1] = tool THEN upTo[n] ELSE Append(upTo[n], t[n + 1])
    BY <1>5, <2>2
  <2>4. Fine(n) /\ t[n + 1] \in Named
    BY <1>1, <1>7, <2>2
  <2>5. \A i \in 1..(n + 1) : i = n + 1 \/ i \in 1..n
    OBVIOUS
  <2>6. CASE t[n + 1] = tool
    BY <2>3, <2>4, <2>5, <2>6
  <2>7. CASE t[n + 1] # tool
    <3>1. upTo[n + 1] = Append(upTo[n], t[n + 1])
      BY <2>3, <2>7
    <3>2. /\ Append(upTo[n], t[n + 1]) \in Seq(Named)
          /\ Listed(upTo[n]) \cup {t[n + 1]} \subseteq Listed(Append(upTo[n], t[n + 1]))
      BY <2>4, AppendedList
    <3>3. QED
      BY <2>4, <2>5, <3>1, <3>2
  <2>8. QED
    BY <2>6, <2>7
<1> HIDE DEF S
<1>8. Nat \subseteq S
  BY <1>6, <1>7, SetInduction
<1>9. Fine(Len(t))
  BY <1>1, <1>8 DEF S
<1>10. QED
  BY <1>1, <1>4, <1>9 DEF Listed
-----------------------------------------------------------------------------
(* Every prompt.                                                           *)

NamesListed(p) ==
  /\ \A b \in Kept(p) :
       Names(p, b) \ Listed(PlanTools(p)) =
         Only(Advice \ Listed(AffordanceTools(p.reads.affordances)), b = "system-feedback")
  /\ \A o \in Options :
       PerceptionNames(p, o) \ Listed(PerceptionTools(p, o)) =
         Only(IF o.masking THEN Suggested(p.drives, HandedOver(p, o))
              ELSE Only({"formulate_plan"}, o.forcing), ~o.hasPlan)
  /\ FeelsLikeTalking(p) \subseteq TalkEnum(p)

\* The ids of affordances are not the names of tools.
Ids(s) == {s[i].id : i \in DOMAIN s}
ToolNames == {"formulate_plan", "query_memory", "update_internal_state", "update_self_model",
              "talk_to", "observe_agent", "help", "ignore", "modify_scene"}

LEMMA DefaultList ==
  /\ Listed(DefaultCognitiveTools) = ToolNames
  /\ Listed(CognitiveTools) = {"query_memory", "update_internal_state"}
<1>1. /\ DOMAIN DefaultCognitiveTools = {1, 2, 3, 4, 5, 6, 7, 8, 9}
      /\ DOMAIN CognitiveTools = {1, 2}
  BY DEF DefaultCognitiveTools, CognitiveTools
<1>2. /\ DefaultCognitiveTools[1] = "formulate_plan" /\ DefaultCognitiveTools[2] = "query_memory"
      /\ DefaultCognitiveTools[3] = "update_internal_state"
      /\ DefaultCognitiveTools[4] = "update_self_model" /\ DefaultCognitiveTools[5] = "talk_to"
      /\ DefaultCognitiveTools[6] = "observe_agent" /\ DefaultCognitiveTools[7] = "help"
      /\ DefaultCognitiveTools[8] = "ignore" /\ DefaultCognitiveTools[9] = "modify_scene"
  BY DEF DefaultCognitiveTools
<1>3. CognitiveTools[1] = "query_memory" /\ CognitiveTools[2] = "update_internal_state"
  BY DEF CognitiveTools
<1>4. Listed(DefaultCognitiveTools) = ToolNames
  BY <1>1, <1>2 DEF Listed, ToolNames
<1>5. QED
  BY <1>1, <1>3, <1>4 DEF Listed

LEMMA IdsAreNoTools ==
  ASSUME NEW s, NoTool(s) PROVE Ids(s) \cap ToolNames = {}
<1>1. \A i \in DOMAIN s : s[i].id \notin Listed(DefaultCognitiveTools)
  BY DEF NoTool, Listed
<1>2. QED
  BY <1>1, DefaultList DEF Ids

LEMMA SuggestionsAreIds ==
  ASSUME NEW ds, NEW s \in Seq(Effects) PROVE Suggested(ds, s) \subseteq Ids(s)
<1>1. \A m \in Mentions(ds, s) : m \subseteq DOMAIN s
  BY MentionsAreOffered
<1>2. QED
  BY <1>1 DEF Suggested, Ids

LEMMA PlanNamesListed ==
  ASSUME NEW p, SoundPrompt(p), NEW b \in Kept(p)
  PROVE  Names(p, b) \ Listed(PlanTools(p)) =
           Only(Advice \ Listed(AffordanceTools(p.reads.affordances)), b = "system-feedback")
<1> DEFINE s == p.reads.affordances
           tools == Listed(PlanTools(p))
<1>1. tools = SocialNames(p) \cup {"query_memory", "update_internal_state"} \cup Ids(s)
                \cup {"formulate_plan"}
  BY PlanList, DefaultList, AffordanceList DEF SoundPrompt, Ids
<1>2. Listed(AffordanceTools(s)) = Ids(s)
  BY AffordanceList DEF SoundPrompt, Ids
<1>3. Hinted(p.drives, s) \subseteq Ids(s)
  BY HintsAreOffered DEF SoundPrompt, Ids
<1>4. b \in Blocks(p)
  BY DEF Kept
<1> HIDE DEF s, tools
<1>5. CASE b = "agents-present"
  <2>1. p.present # {}
    BY <1>4, <1>5 DEF Blocks, Only
  <2>2. Names(p, b) = {"observe_agent", "help", "ignore"}
    BY <1>5 DEF Names
  <2>3. Names(p, b) \ tools = {}
    BY <2>1, <2>2, <1>1 DEF SocialNames
  <2>4. QED
    BY <2>3, <1>5 DEF Only, tools
<1>6. CASE b = "social-primary-hint"
  <2>1. p.present # {}
    BY <1>4, <1>6 DEF Blocks, Only, IsSocialPrimary
  <2>2. Names(p, b) = {"observe_agent", "help"} \cup (IF TalkOffered(p) THEN {"talk_to"} ELSE {})
    BY <1>6 DEF Names, Only
  <2>3. Names(p, b) \ tools = {}
    BY <2>1, <2>2, <1>1 DEF SocialNames
  <2>4. QED
    BY <2>3, <1>6 DEF Only, tools
<1>7. CASE b = "social-directive"
  <2>1. p.present # {}
    BY <1>4, <1>7 DEF Blocks, Only
  <2>2. Names(p, b) = {"observe_agent", "help", "formulate_plan"}
                        \cup (IF TalkOffered(p) THEN {"talk_to"} ELSE {})
    BY <1>7 DEF Names, Only
  <2>3. Names(p, b) \ tools = {}
    BY <2>1, <2>2, <1>1 DEF SocialNames
  <2>4. QED
    BY <2>3, <1>7 DEF Only, tools
<1>8. CASE b = "drive-hints"
  <2>1. Names(p, b) = Hinted(p.drives, s)
    BY <1>8 DEF Names, s
  <2>2. Names(p, b) \ tools = {}
    BY <2>1, <1>1, <1>3
  <2>3. QED
    BY <2>2, <1>8 DEF Only, tools
<1>9. CASE b = "system-feedback"
  <2>1. Names(p, b) = {"harvest", "eat"}
    BY <1>9 DEF Names, Advice
  <2>2. {"harvest", "eat"} \cap (SocialNames(p) \cup {"query_memory", "update_internal_state",
                                                       "formulate_plan"}) = {}
    BY DEF SocialNames
  <2>3. Names(p, b) \ tools = Advice \ Ids(s)
    BY <2>1, <2>2, <1>1 DEF Advice
  <2>4. QED
    BY <2>3, <1>2, <1>9 DEF Only, tools, s
<1>10. CASE b \notin {"agents-present", "social-primary-hint", "social-directive", "drive-hints",
                      "system-feedback"}
  <2>1. Names(p, b) = {}
    BY <1>10 DEF Names
  <2>2. QED
    BY <2>1, <1>10 DEF Only
<1>11. QED
  BY <1>5, <1>6, <1>7, <1>8, <1>9, <1>10

LEMMA PerceptionNamesListed ==
  ASSUME NEW p, SoundPrompt(p), NEW o \in Options
  PROVE  PerceptionNames(p, o) \ Listed(PerceptionTools(p, o)) =
           Only(IF o.masking THEN Suggested(p.drives, HandedOver(p, o))
                ELSE Only({"formulate_plan"}, o.forcing), ~o.hasPlan)
<1> DEFINE shown == HandedOver(p, o)
           own == IF ~o.hasPlan /\ o.masking THEN DefaultCognitiveTools
                  ELSE CognitiveTools \o AffordanceTools(shown)
           social == SocialTools(p)
           tools == social \o own
           ranked == IF FeelsLikeTalking(p) # {} /\ ~NoSocialOutlet(p)
                     THEN MoveTalkToFirst(tools) ELSE tools
           hints == Suggested(p.drives, shown)
           offered == Listed(PerceptionTools(p, o))
<1>1. social \in Seq(Named) /\ Listed(social) = SocialNames(p)
  BY SocialList
<1>2. shown \in Seq(Effects) /\ NoTool(shown)
  BY DEF HandedOver, SoundPrompt, NoTool
<1>3. hints \subseteq Ids(shown) /\ Ids(shown) \cap ToolNames = {}
  BY <1>2, SuggestionsAreIds, IdsAreNoTools
<1>4. PerceptionTools(p, o) =
        IF o.hasPlan THEN Without("formulate_plan", ranked) ELSE ranked
  BY DEF PerceptionTools
<1> HIDE DEF shown, social, hints
<1>5. /\ AffordanceTools(shown) \in Seq(Named) /\ Listed(AffordanceTools(shown)) = Ids(shown)
      /\ CognitiveTools \in Seq(Named) /\ DefaultCognitiveTools \in Seq(Named)
  BY <1>2, AffordanceList, FixedLists DEF Ids
<1>6. /\ CognitiveTools \o AffordanceTools(shown) \in Seq(Named)
      /\ Listed(CognitiveTools \o AffordanceTools(shown)) =
           Listed(CognitiveTools) \cup Listed(AffordanceTools(shown))
  BY <1>5, JoinedList
<1>7. /\ own \in Seq(Named)
      /\ Listed(own) = IF ~o.hasPlan /\ o.masking THEN ToolNames
                       ELSE {"query_memory", "update_internal_state"} \cup Ids(shown)
  BY <1>5, <1>6, DefaultList
<1> HIDE DEF own
<1>8. tools \in Seq(Named) /\ Listed(tools) = SocialNames(p) \cup Listed(own)
  BY <1>1, <1>7, JoinedList
<1> HIDE DEF tools
<1>9. MoveTalkToFirst(tools) \in Seq(Named) /\ Listed(MoveTalkToFirst(tools)) = Listed(tools)
  BY <1>8, RankedList
<1>10. ranked \in Seq(Named) /\ Listed(ranked) = Listed(tools)
  BY <1>8, <1>9
<1> HIDE DEF ranked
<1>11. Listed(ranked) \ {"formulate_plan"} \subseteq Listed(Without("formulate_plan", ranked))
  BY <1>10, OthersStay
<1>12. FeelsLikeTalking(p) # {} => p.present # {} /\ TalkOffered(p)
  BY DEF FeelsLikeTalking, TalkOffered, TalkEnum
<1>13. PICK called : /\ called \subseteq SocialNames(p)
                     /\ PerceptionNames(p, o) = called \cup hints
                          \cup (IF ~o.hasPlan /\ o.forcing THEN {"formulate_plan"} ELSE {})
  <2> DEFINE c == Only({"observe_agent", "help", "ignore"}, p.present # {})
                  \cup Only({"talk_to"}, p.present # {} /\ ~NoSocialOutlet(p) /\ TalkOffered(p))
                  \cup Only({"talk_to"}, FeelsLikeTalking(p) # {})
  <2>1. c \subseteq SocialNames(p)
    BY <1>12 DEF SocialNames, Only
  <2>2. PerceptionNames(p, o) = c \cup hints
          \cup (IF ~o.hasPlan /\ o.forcing THEN {"formulate_plan"} ELSE {})
    BY DEF PerceptionNames, Only, hints, shown
  <2>3. QED
    BY <2>1, <2>2
<1>14. SocialNames(p) \subseteq ToolNames \ {"formulate_plan"}
  BY DEF SocialNames, ToolNames
<1>15. "formulate_plan" \in ToolNames
  BY DEF ToolNames
<1> HIDE DEF offered
<1>16. CASE o.hasPlan
  <2>1. (SocialNames(p) \cup Ids(shown)) \ {"formulate_plan"} \subseteq offered
    BY <1>4, <1>7, <1>8, <1>10, <1>11, <1>16 DEF offered
  <2>2. PerceptionNames(p, o) \subseteq offered
    BY <2>1, <1>3, <1>13, <1>14, <1>15, <1>16
  <2>3. QED
    BY <2>2, <1>16 DEF Only, offered
<1>17. CASE ~o.hasPlan /\ o.masking
  <2>1. offered = ToolNames
    BY <1>4, <1>7, <1>8, <1>10, <1>14, <1>17 DEF offered
  <2>2. PerceptionNames(p, o) \ offered = hints
    BY <2>1, <1>3, <1>13, <1>14, <1>15
  <2>3. QED
    BY <2>2, <1>17 DEF Only, offered, hints, shown
<1>18. CASE ~o.hasPlan /\ ~o.masking
  <2>1. offered = SocialNames(p) \cup {"query_memory", "update_internal_state"} \cup Ids(shown)
    BY <1>4, <1>7, <1>8, <1>10, <1>18 DEF offered
  <2>2. "formulate_plan" \notin offered
    BY <2>1, <1>3, <1>14, <1>15
  <2>3. called \cup hints \subseteq offered
    BY <2>1, <1>3, <1>13
  <2>4. PerceptionNames(p, o) \ offered = IF o.forcing THEN {"formulate_plan"} ELSE {}
    BY <2>2, <2>3, <1>13, <1>18
  <2>5. QED
    BY <2>4, <1>18 DEF Only, offered
<1>19. QED
  BY <1>16, <1>17, <1>18

LEMMA PromptNamesTools == ASSUME NEW p, SoundPrompt(p) PROVE NamesListed(p)
<1>1. FeelsLikeTalking(p) \subseteq TalkEnum(p)
  BY DEF FeelsLikeTalking, TalkEnum
<1>2. QED
  BY <1>1, PlanNamesListed, PerceptionNamesListed DEF NamesListed

\* What must not dangle in the prompt.
Holds(p) ==
  LET kept == Kept(p)
  IN  /\ Blocks(p) \cap Required \subseteq kept
      /\ Truncated(p) => kept \subseteq Required
      /\ "known-areas-directive" \in kept => "known-areas" \in kept
      /\ "last-plan-reflection" \in kept => "last-plan" \in kept
      /\ WaitRefused(p.drives, p.reads.affordances) => "drive-hints" \in kept

LEMMA HeadroomType == ASSUME NEW p, SoundPrompt(p) PROVE Headroom(p) \in Int
<1>1. Len(PlanTools(p)) \in Nat
  BY PlanList, LenProperties
<1>2. MaxChars \in Nat /\ SystemChars \in Nat /\ ToolChars \in Nat
  BY PlanPromptAssumption
<1>3. ToolChars * Len(PlanTools(p)) \in Nat
  BY <1>1, <1>2
<1>4. MaxChars - SystemChars - ToolChars * Len(PlanTools(p)) \in Int
  BY <1>2, <1>3
<1>5. QED
  BY <1>2, <1>4 DEF Headroom, Within

LEMMA PromptHolds == ASSUME NEW p, SoundPrompt(p) PROVE Holds(p)
<1> DEFINE B == Blocks(p)
           room_ == Headroom(p)
           kept == B \ DroppedBlocks(B, room_)
<1>1. B \in SUBSET BlockIds /\ room_ \in Int
  BY BlocksKnown, HeadroomType
<1>2. Kept(p) = kept /\ (Truncated(p) <=> JoinedLength(kept) > room_)
  BY DEF Kept, Truncated
<1>3. /\ B \cap Required \subseteq kept
      /\ JoinedLength(kept) > room_ => kept \subseteq Required
      /\ \A b \in B, c \in kept \ Required : GoesBefore(c, b) => b \in kept
  <2> HIDE DEF B, room_
  <2>1. QED
    BY <1>1, WhatStays
<1>4. /\ "known-areas-directive" \in B => "known-areas" \in B
      /\ "last-plan-reflection" \in B => "last-plan" \in B
  BY DEF Blocks, Only
<1>5. "known-areas-directive" \notin Required /\ "last-plan-reflection" \notin Required
  BY DEF Required
<1>6. "known-areas-directive" \in kept => "known-areas" \in kept
  <2> HIDE DEF B, room_
  <2>1. QED
    BY <1>3, <1>4, <1>5, WhatGoesFirst
<1>7. "last-plan-reflection" \in kept => "last-plan" \in kept
  <2> HIDE DEF B, room_
  <2>1. QED
    BY <1>3, <1>4, <1>5, WhatGoesFirst
<1>8. WaitRefused(p.drives, p.reads.affordances) => "drive-hints" \in kept
  <2>1. SUFFICES ASSUME WaitRefused(p.drives, p.reads.affordances) PROVE "drive-hints" \in kept
    OBVIOUS
  <2>2. Hinted(p.drives, p.reads.affordances) # {}
    BY <2>1, WarnedOf DEF SoundPrompt
  <2>3. "drive-hints" \in B
    BY <2>2 DEF Blocks, Only
  <2>4. "drive-hints" \in Required
    BY DEF Required
  <2> HIDE DEF B, kept
  <2>5. QED
    BY <2>3, <2>4, <1>3
<1> HIDE DEF B, room_, kept
<1>9. B \cap Required \subseteq kept /\ (JoinedLength(kept) > room_ => kept \subseteq Required)
  BY <1>3
<1>10. QED
  BY <1>2, <1>6, <1>7, <1>8, <1>9 DEF Holds, B
-----------------------------------------------------------------------------
(* Where prompts come from.                                                *)

\* What the prompts of the next steps are made of.
PromptInv ==
  /\ DOMAIN cycle = Agents
  /\ drives \in [Agents -> [Drives -> Int]]
  /\ \A a \in Agents : cycle[a].pc = "looked" => cycle[a].drives \in [Drives -> Int]

LEMMA StartIsTyped == StartDrives \in [Drives -> Int]
<1>1. StartDrives \in [Drives -> 0..100]
  BY SocialLifeAssumption
<1>2. \A n \in 0..100 : n \in Int
  OBVIOUS
<1>3. \A k \in Drives : StartDrives[k] \in Int
  BY <1>1, <1>2
<1>4. QED
  BY <1>1, <1>3

LEMMA WithinInt == \A v \in Int : Within(0, v, 100) \in Int
  BY DEF Within

LEMMA GainedType ==
  ASSUME active \subseteq Agents, NEW ds \in [Agents -> [Drives -> Int]], NEW a, NEW k, NEW n \in Int
  PROVE  Gained(ds, a, k, n) \in [Agents -> [Drives -> Int]]
<1>1. CASE a \notin active
  BY <1>1 DEF Gained
<1>2. CASE a \in active
  <2>1. a \in Agents /\ ds[a] \in [Drives -> Int]
    BY <1>2
  <2> DEFINE new == [ds[a] EXCEPT ![k] = Within(0, ds[a][k] + n, 100)]
  <2>2. new \in [Drives -> Int]
    <3>1. CASE k \in Drives
      <4>1. Within(0, ds[a][k] + n, 100) \in Int
        BY <3>1, <2>1, WithinInt
      <4>2. QED
        BY <4>1, <2>1
    <3>2. CASE k \notin Drives
      BY <3>2, <2>1
    <3>3. QED
      BY <3>1, <3>2
  <2>3. Gained(ds, a, k, n) = [ds EXCEPT ![a] = new]
    BY <1>2 DEF Gained
  <2> HIDE DEF new
  <2>4. QED
    BY <2>1, <2>2, <2>3
<1>3. QED
  BY <1>1, <1>2

\* What a step of an agent does to its cycle, as far as prompts go.
CycleStep(a) ==
  \/ cycle' = cycle
  \/ /\ DOMAIN cycle' = Agents
     /\ \A b \in Agents : b # a => cycle'[b] = cycle[b]
     /\ \/ cycle'[a].pc = "looked" /\ cycle'[a].drives = drives[a]
        \/ cycle'[a].pc = "idle"
        \/ cycle'[a].pc = "asking" /\ cycle[a].pc = "looked" /\ SoundPrompt(cycle'[a].prompt)
        \/ cycle'[a].pc = "asking" /\ cycle[a].pc = "asking"

LEMMA WeighSteps ==
  ASSUME PromptInv, NEW a \in Agents, Weigh(a) PROVE CycleStep(a)
<1>1. PICK c \in Circumstances[a], age \in Ages :
        cycle' = [cycle EXCEPT ![a] =
          [pc |-> "asking", talked |-> {},
           prompt |-> [present |-> @.present, drives |-> @.drives, primary |-> @.primary,
                       heard |-> @.heard, seed |-> Talkativeness[a], age |-> age, reads |-> c,
                       awake |-> a \in active, rels |-> IF a \in active THEN rel[a] ELSE Nobody]]]
  BY DEF Weigh
<1>2. cycle[a].pc = "looked" /\ cycle[a].drives \in [Drives -> Int]
  BY DEF Weigh, PromptInv
<1>3. c.affordances \in Seq(Effects) /\ NoTool(c.affordances)
  BY SocialLifeAssumption DEF Effects, NoTool
<1> DEFINE p == [present |-> cycle[a].present, drives |-> cycle[a].drives,
                 primary |-> cycle[a].primary,
                 heard |-> cycle[a].heard, seed |-> Talkativeness[a], age |-> age, reads |-> c,
                 awake |-> a \in active, rels |-> IF a \in active THEN rel[a] ELSE Nobody]
<1>4. p.drives = cycle[a].drives /\ p.reads = c
  OBVIOUS
<1>5. cycle' = [cycle EXCEPT ![a] = [pc |-> "asking", talked |-> {}, prompt |-> p]]
  BY <1>1
<1> HIDE DEF p
<1>6. SoundPrompt(p)
  BY <1>2, <1>3, <1>4 DEF SoundPrompt
<1>7. /\ DOMAIN cycle' = Agents /\ \A b \in Agents : b # a => cycle'[b] = cycle[b]
      /\ cycle'[a].pc = "asking" /\ cycle'[a].prompt = p
  BY <1>5 DEF PromptInv
<1>8. QED
  BY <1>2, <1>6, <1>7 DEF CycleStep

LEMMA EveryStep ==
  ASSUME PromptInv, NEW a \in Agents,
         \/ Look(a) \/ Weigh(a) \/ Ends(a)
         \/ TalkTo(a) \/ ObserveAgent(a) \/ Help(a) \/ Ignore(a)
         \/ Walk(a) \/ Despawn(a) \/ Wake(a) \/ SpawnFresh(a)
  PROVE  CycleStep(a)
<1>1. CASE Look(a)
  BY <1>1 DEF Look, CycleStep, PromptInv
<1>2. CASE Weigh(a)
  BY <1>2, WeighSteps
<1>3. CASE Ends(a)
  BY <1>3 DEF Ends, CycleStep, PromptInv, Resting
<1>4. CASE TalkTo(a)
  <2>1. PICK b : cycle' = [cycle EXCEPT ![a].talked = @ \cup {b}]
    BY <1>4 DEF TalkTo
  <2>2. cycle[a].pc = "asking"
    BY <1>4 DEF TalkTo, Calls
  <2>3. /\ DOMAIN cycle' = Agents /\ \A x \in Agents : x # a => cycle'[x] = cycle[x]
        /\ cycle'[a].pc = cycle[a].pc
    BY <2>1 DEF PromptInv
  <2>4. QED
    BY <2>2, <2>3 DEF CycleStep
<1>5. CASE ObserveAgent(a) \/ Help(a) \/ Ignore(a)
  BY <1>5 DEF ObserveAgent, Help, Ignore, CycleStep
<1>6. CASE Walk(a) \/ Despawn(a) \/ Wake(a) \/ SpawnFresh(a)
  BY <1>6 DEF Walk, Despawn, Wake, SpawnFresh, CycleStep
<1>7. QED
  BY <1>1, <1>2, <1>3, <1>4, <1>5, <1>6

LEMMA DrivesStay ==
  ASSUME PromptInv, active \subseteq Agents, NEW a \in Agents,
         \/ Look(a) \/ Weigh(a) \/ Ends(a)
         \/ TalkTo(a) \/ ObserveAgent(a) \/ Help(a) \/ Ignore(a)
         \/ Walk(a) \/ Despawn(a) \/ Wake(a) \/ SpawnFresh(a)
  PROVE  drives' \in [Agents -> [Drives -> Int]]
<1> USE DEF PromptInv
<1>1. CASE Look(a) \/ Weigh(a) \/ Ends(a) \/ ObserveAgent(a) \/ Walk(a) \/ Despawn(a) \/ Wake(a)
  BY <1>1 DEF Look, Weigh, Ends, ObserveAgent, Walk, Despawn, Wake
<1>2. CASE TalkTo(a)
  <2>1. PICK b, paid : drives' = Gained(IF paid = {} THEN drives
                                         ELSE Gained(drives, b, "social", ExchangeBonus),
                                         a, "social", MonologueReward)
    BY <1>2 DEF TalkTo
  <2>2. Gained(drives, b, "social", ExchangeBonus) \in [Agents -> [Drives -> Int]]
    BY GainedType DEF ExchangeBonus
  <2> DEFINE ds == IF paid = {} THEN drives ELSE Gained(drives, b, "social", ExchangeBonus)
  <2>3. ds \in [Agents -> [Drives -> Int]]
    BY <2>2
  <2>4. MonologueReward \in Int
    BY DEF MonologueReward
  <2>5. drives' = Gained(ds, a, "social", MonologueReward)
    BY <2>1
  <2> HIDE DEF ds
  <2>6. QED
    BY <2>3, <2>4, <2>5, GainedType
<1>3. CASE Help(a)
  <2> DEFINE helped == Gained(drives, a, "social", 15)
  <2>1. PICK target, b :
          drives' = IF target \in Agents THEN Gained(helped, target, Primary(helped[b]), 10) ELSE helped
    BY <1>3 DEF Help
  <2>2. helped \in [Agents -> [Drives -> Int]]
    BY GainedType
  <2> HIDE DEF helped
  <2>3. Gained(helped, target, Primary(helped[b]), 10) \in [Agents -> [Drives -> Int]]
    BY <2>2, GainedType
  <2>4. QED
    BY <2>1, <2>2, <2>3
<1>4. CASE Ignore(a)
  <2>1. drives' = Gained(drives, a, "social", -5)
    BY <1>4 DEF Ignore
  <2>2. QED
    BY <2>1, GainedType
<1>5. CASE SpawnFresh(a)
  <2>1. StartDrives \in [Drives -> Int]
    BY StartIsTyped
  <2>2. QED
    BY <1>5, <2>1 DEF SpawnFresh
<1>6. QED
  BY <1>1, <1>2, <1>3, <1>4, <1>5

LEMMA PromptInit == Init => PromptInv
<1>1. SUFFICES ASSUME Init PROVE PromptInv
  OBVIOUS
<1>2. StartDrives \in [Drives -> Int]
  BY StartIsTyped
<1>3. DOMAIN cycle = Agents /\ \A a \in Agents : cycle[a].pc = "idle"
  BY <1>1 DEF Init, Resting
<1>4. drives \in [Agents -> [Drives -> Int]]
  BY <1>1, <1>2 DEF Init
<1>5. QED
  BY <1>3, <1>4 DEF PromptInv

LEMMA PromptNext == Kinds /\ PromptInv /\ [Next]_vars => PromptInv'
<1>1. SUFFICES ASSUME Kinds, PromptInv, [Next]_vars PROVE PromptInv'
  OBVIOUS
<1>2. CASE UNCHANGED vars
  BY <1>1, <1>2 DEF vars, PromptInv
<1>3. CASE Next
  <2>1. PICK a \in Agents :
          \/ Look(a) \/ Weigh(a) \/ Ends(a)
          \/ TalkTo(a) \/ ObserveAgent(a) \/ Help(a) \/ Ignore(a)
          \/ Walk(a) \/ Despawn(a) \/ Wake(a) \/ SpawnFresh(a)
    BY <1>3 DEF Next
  <2>2. CycleStep(a)
    BY <1>1, <2>1, EveryStep
  <2>3. drives' \in [Agents -> [Drives -> Int]]
    BY <1>1, <2>1, DrivesStay DEF Kinds
  <2>4. QED
    BY <1>1, <2>2, <2>3 DEF PromptInv, CycleStep
<1>4. QED
  BY <1>1, <1>2, <1>3

\* Every new prompt is of the kind the lemmas are about.
LEMMA NewPromptsSound ==
  ASSUME PromptInv, [Next]_vars, NEW p \in NewPrompts PROVE SoundPrompt(p)
<1>1. PICK a \in Agents : cycle[a].pc = "looked" /\ cycle'[a].pc = "asking" /\ p = cycle'[a].prompt
  BY DEF NewPrompts
<1>2. CASE UNCHANGED vars
  BY <1>1, <1>2 DEF vars
<1>3. CASE Next
  <2>1. PICK x \in Agents :
          \/ Look(x) \/ Weigh(x) \/ Ends(x)
          \/ TalkTo(x) \/ ObserveAgent(x) \/ Help(x) \/ Ignore(x)
          \/ Walk(x) \/ Despawn(x) \/ Wake(x) \/ SpawnFresh(x)
    BY <1>3 DEF Next
  <2>2. CycleStep(x)
    BY <2>1, EveryStep
  <2>3. QED
    BY <1>1, <2>2 DEF CycleStep
<1>4. QED
  BY <1>2, <1>3

LEMMA AlwaysSound == Spec => [](Kinds /\ PromptInv)
<1>1. Init => IInv /\ PromptInv
  BY InitOK, PromptInit
<1>2. (IInv /\ PromptInv) /\ [Next]_vars => (IInv /\ PromptInv)'
  BY NextOK, PromptNext DEF IInv
<1>3. IInv /\ PromptInv => Kinds /\ PromptInv
  BY DEF IInv
<1>4. QED
  BY <1>1, <1>2, <1>3, PTL DEF Spec

\* Every tool and affordance that a text of a prompt tells the model to use
\* is among its tools, whatever an agent may find and however short the
\* budget, but for exactly these: what of the advice after a failure is not
\* to be done here; to an agent without a plan, the hints of the perception
\* prompt if affordances are hidden, and formulate_plan in its directive to
\* plan first if they are not.
\* (packages/cognition/src/pper/plan-builder.ts:230-340,
\* packages/cognition/src/pper/perception-builder.ts:195-375)
THEOREM NamesAlwaysOffered == Spec => NamesOffered
<1>1. PromptInv /\ [Next]_vars =>
        [\A p \in NewPrompts :
           LET List(tools) == {tools[i] : i \in DOMAIN tools}
           IN  /\ \A b \in Kept(p) :
                    Names(p, b) \ List(PlanTools(p)) =
                      Only(Advice \ List(AffordanceTools(p.reads.affordances)), b = "system-feedback")
               /\ \A o \in Options :
                    PerceptionNames(p, o) \ List(PerceptionTools(p, o)) =
                      Only(IF o.masking THEN Suggested(p.drives, HandedOver(p, o))
                           ELSE Only({"formulate_plan"}, o.forcing), ~o.hasPlan)
               /\ FeelsLikeTalking(p) \subseteq TalkEnum(p)]_vars
  <2>1. SUFFICES ASSUME PromptInv, [Next]_vars, NEW p \in NewPrompts PROVE NamesListed(p)
    BY DEF NamesListed, Listed
  <2>2. QED
    BY <2>1, NewPromptsSound, PromptNamesTools
<1>2. QED
  BY <1>1, AlwaysSound, PTL DEF Spec, NamesOffered

\* A prompt that is cut to its budget still makes sense: what must be in it
\* is, it fits unless only that is left, no text refers to one that was
\* dropped, and a wait that would be refused is warned of, whatever an agent
\* may find, however long the blocks and however short the budget.
\* (packages/cognition/src/pper/plan-context-budget.ts:147-244)
THEOREM NothingEverDangles == Spec => NothingDangles
<1>1. PromptInv /\ [Next]_vars =>
        [\A p \in NewPrompts :
           LET kept == Kept(p)
           IN  /\ Blocks(p) \cap Required \subseteq kept
               /\ Truncated(p) => kept \subseteq Required
               /\ "known-areas-directive" \in kept => "known-areas" \in kept
               /\ "last-plan-reflection" \in kept => "last-plan" \in kept
               /\ WaitRefused(p.drives, p.reads.affordances) => "drive-hints" \in kept]_vars
  <2>1. SUFFICES ASSUME PromptInv, [Next]_vars, NEW p \in NewPrompts PROVE Holds(p)
    BY DEF Holds
  <2>2. QED
    BY <2>1, NewPromptsSound, PromptHolds
<1>2. QED
  BY <1>1, AlwaysSound, PTL DEF Spec, NothingDangles

=============================================================================
