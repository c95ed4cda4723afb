------------------------- MODULE MemoryUpkeep_proofs -------------------------
(***************************************************************************)
(* Proofs about the upkeep of memories: an agent reflects in one pass at a *)
(* time, which does the work its time stands for; what is written replaces *)
(* nothing; what is recalled is the agent's own, the best of what was      *)
(* found, and the safer for it; importance fits its scale; and the game    *)
(* loop that drives it all loses no time.  And about the self-model: the   *)
(* budget of changes to it holds.                                          *)
(***************************************************************************)
EXTENDS MemoryUpkeep, Recollection, GameLoop, Identity, FiniteSetTheorems, SequenceTheorems,
        WellFoundedInduction, TLAPS

-----------------------------------------------------------------------------
(* Best: the first n of a finite set, in the descending order of a key.    *)

\* The natural numbers have no endless descent.
Smaller == {p \in Nat \X Nat : p[1] < p[2]}

LEMMA NoDescent == IsWellFoundedOn(Smaller, Nat)
  BY NatLessThanWellFounded DEF OpToRel, Smaller

LEMMA Greatest ==
  ASSUME NEW n \in Nat, NEW S, S \subseteq 0..n, S # {}
  PROVE  \E x \in S : \A y \in S : y =< x
<1> DEFINE T == {n - x : x \in S}
<1>1. T \subseteq Nat /\ T # {}
  <2>1. \A x \in S : n - x \in Nat
    OBVIOUS
  <2>2. PICK x \in S : TRUE
    OBVIOUS
  <2>3. n - x \in T
    OBVIOUS
  <2> QED BY <2>1, <2>3
<1>2. PICK z \in T : \A y \in T : ~ (<<y, z>> \in Smaller)
  BY <1>1, NoDescent, WFMin
<1>3. PICK x \in S : z = n - x
  BY <1>2
<1>4. ASSUME NEW y \in S PROVE y =< x
  <2>1. n - y \in Nat /\ z \in Nat /\ n - y \in T /\ y \in Int /\ x \in Int
    BY <1>1, <1>2
  <2>2. ~(n - y < z)
    BY <1>2, <2>1 DEF Smaller
  <2> QED BY <1>3, <2>1, <2>2
<1> QED BY <1>3, <1>4

LEMMA BeforeOrders ==
  ASSUME NEW D \in SUBSET Nat, NEW key \in [D -> Int], NEW i \in D, NEW j \in D, NEW k \in D
  PROVE  /\ ~Before(key, i, i)
         /\ Before(key, i, j) /\ Before(key, j, k) => Before(key, i, k)
         /\ i # j => Before(key, i, j) \/ Before(key, j, i)
<1>1. i \in Nat /\ j \in Nat /\ k \in Nat /\ key[i] \in Int /\ key[j] \in Int /\ key[k] \in Int
  OBVIOUS
<1> QED BY <1>1 DEF Before

Ahead(S, key, i) == {j \in S : Before(key, j, i)}

LEMMA AheadFinite ==
  ASSUME NEW S, IsFiniteSet(S), NEW key, NEW i
  PROVE  /\ IsFiniteSet(Ahead(S, key, i))
         /\ Cardinality(Ahead(S, key, i)) \in 0..Cardinality(S)
         /\ Cardinality(S) \in Nat
<1>1. Ahead(S, key, i) \in SUBSET S
  BY DEF Ahead
<1>2. IsFiniteSet(Ahead(S, key, i)) /\ Cardinality(Ahead(S, key, i)) =< Cardinality(S)
  BY <1>1, FS_Subset
<1> QED BY <1>2, FS_CardinalityType

LEMMA BestFits ==
  ASSUME NEW D \in SUBSET Nat, NEW key \in [D -> Int], NEW S \in SUBSET D, IsFiniteSet(S), NEW n \in Nat
  PROVE  /\ Best(S, key, n) \subseteq S
         /\ IsFiniteSet(Best(S, key, n))
         /\ Cardinality(Best(S, key, n)) =< n
<1> DEFINE B == Best(S, key, n)
<1>1. B \subseteq S /\ \A i \in B : Cardinality(Ahead(S, key, i)) < n
  BY DEF Best, Ahead
<1>2. IsFiniteSet(B)
  BY <1>1, FS_Subset
<1>3. CASE B = {}
  BY <1>1, <1>2, <1>3, FS_EmptySet
<1>4. CASE B # {}
  <2> DEFINE counts == {Cardinality(Ahead(S, key, i)) : i \in B}
  <2>1. counts \subseteq 0..Cardinality(S) /\ counts # {} /\ Cardinality(S) \in Nat
    BY <1>1, <1>4, AheadFinite, FS_CardinalityType
  <2>2. PICK c \in counts : \A d \in counts : d =< c
    <3> HIDE DEF counts
    <3> QED BY <2>1, Greatest
  <2>3. PICK i \in B : c = Cardinality(Ahead(S, key, i))
    BY <2>2
  <2>4. ASSUME NEW j \in B, j # i PROVE Before(key, j, i)
    <3>1. SUFFICES ASSUME Before(key, i, j) PROVE FALSE
      <4>1. i \in D /\ j \in D
        BY <1>1
      <4> QED BY <3>1, <4>1, <2>4, BeforeOrders
    <3>2. i \in D /\ j \in D /\ i \in S /\ Cardinality(Ahead(S, key, j)) =< c
      BY <1>1, <2>2
    <3>3. Ahead(S, key, i) \cup {i} \in SUBSET Ahead(S, key, j)
      <4> SUFFICES ASSUME NEW k \in Ahead(S, key, i) \cup {i} PROVE k \in Ahead(S, key, j)
        OBVIOUS
      <4>1. CASE k = i
        BY <4>1, <3>1, <3>2 DEF Ahead
      <4>2. CASE k \in Ahead(S, key, i)
        <5>1. k \in S /\ k \in D /\ Before(key, k, i)
          BY <4>2 DEF Ahead
        <5>2. Before(key, k, j)
          BY <5>1, <3>1, <3>2, BeforeOrders
        <5> QED BY <5>1, <5>2 DEF Ahead
      <4> QED BY <4>1, <4>2
    <3>4. i \notin Ahead(S, key, i)
      BY <3>2, BeforeOrders DEF Ahead
    <3>5. IsFiniteSet(Ahead(S, key, i)) /\ IsFiniteSet(Ahead(S, key, j)) /\ c \in Nat /\ Cardinality(Ahead(S, key, j)) \in Nat
      BY AheadFinite, <2>3
    <3>6. Cardinality(Ahead(S, key, i) \cup {i}) = c + 1
      BY <3>4, <3>5, <2>3, FS_AddElement
    <3>7. c + 1 =< Cardinality(Ahead(S, key, j))
      BY <3>3, <3>5, <3>6, FS_Subset
    <3> QED BY <3>2, <3>5, <3>7
  <2>5. B \in SUBSET (Ahead(S, key, i) \cup {i})
    BY <2>4, <1>1 DEF Ahead
  <2>6. /\ IsFiniteSet(Ahead(S, key, i) \cup {i})
        /\ Cardinality(Ahead(S, key, i) \cup {i}) =< c + 1 /\ c \in Nat /\ c < n
    <3>1. IsFiniteSet(Ahead(S, key, i)) /\ c \in Nat /\ c < n
      BY AheadFinite, <2>3, <1>1
    <3>2. /\ IsFiniteSet(Ahead(S, key, i) \cup {i})
          /\ Cardinality(Ahead(S, key, i) \cup {i}) = IF i \in Ahead(S, key, i) THEN c ELSE c + 1
      BY <3>1, <2>3, FS_AddElement
    <3> QED BY <3>1, <3>2
  <2>7. Cardinality(B) =< Cardinality(Ahead(S, key, i) \cup {i})
    BY <2>5, <2>6, FS_Subset
  <2>8. Cardinality(B) \in Nat /\ Cardinality(Ahead(S, key, i) \cup {i}) \in Nat
    BY <1>2, <2>6, FS_CardinalityType
  <2>9. Cardinality(B) =< n
    BY <2>6, <2>7, <2>8
  <2> QED BY <1>1, <1>2, <2>9
<1> QED BY <1>3, <1>4

LEMMA BestLeavesWorse ==
  ASSUME NEW D \in SUBSET Nat, NEW key \in [D -> Int], NEW S \in SUBSET D, IsFiniteSet(S), NEW n \in Nat,
         NEW i \in Best(S, key, n), NEW j \in S, Before(key, j, i)
  PROVE  j \in Best(S, key, n)
<1>1. i \in S /\ i \in D /\ j \in D /\ Cardinality(Ahead(S, key, i)) < n
  BY DEF Best, Ahead
<1>2. Ahead(S, key, j) \in SUBSET Ahead(S, key, i)
  BY <1>1, BeforeOrders DEF Ahead
<1>3. Cardinality(Ahead(S, key, j)) =< Cardinality(Ahead(S, key, i))
  BY <1>2, AheadFinite, FS_Subset
<1>4. Cardinality(Ahead(S, key, j)) < n
  BY <1>1, <1>3, AheadFinite
<1> QED BY <1>4 DEF Best, Ahead
-----------------------------------------------------------------------------
(* Retrieval and decay.                                                    *)

LEMMA DomainFinite ==
  ASSUME NEW nodes, nodes \in Seq(Memories), NEW T \in SUBSET DOMAIN nodes
  PROVE  IsFiniteSet(T) /\ DOMAIN nodes \in SUBSET Nat
<1>1. DOMAIN nodes = 1..Len(nodes) /\ Len(nodes) \in Nat
  OBVIOUS
<1>2. IsFiniteSet(1..Len(nodes))
  BY <1>1, FS_Interval
<1> QED BY <1>1, <1>2, FS_Subset

\* Ages are not negative, and tables cover every age.
InTime(nodes, now) == \A i \in DOMAIN nodes : nodes[i].stamp =< now /\ nodes[i].seen =< now

LEMMA TableValue ==
  ASSUME NEW u \in Nat, NEW f \in [Nat -> 0..u], NEW now \in Nat, NEW t \in Nat, t =< now
  PROVE  f[now - t] \in Nat
<1>1. now - t \in Nat
  OBVIOUS
<1>2. f[now - t] \in 0..u
  BY <1>1
<1> QED BY <1>2

LEMMA WorthType ==
  ASSUME NEW m \in Memories, NEW now \in Nat, m.stamp =< now, m.seen =< now,
         Recency \in [Nat -> 0..Unit], Wear \in [Nat -> 0..Unit], Unit \in Nat
  PROVE  m.likeness \in Int /\ Worth(m, now) \in Int
<1>1. m.stamp \in Nat /\ m.seen \in Nat /\ m.likeness \in Int /\ m.importance \in 0..10
  BY DEF Memories
<1>2. Recency[now - m.stamp] \in Nat
  BY <1>1, TableValue
<1>3. Wear[now - m.seen] \in Nat
  BY <1>1, TableValue
<1>4. m.importance * Wear[now - m.seen] \in Int
  BY <1>1, <1>3
<1> QED BY <1>1, <1>2, <1>4 DEF Worth

LEMMA Keys ==
  ASSUME NEW nodes \in Seq(Memories), NEW now \in Nat, InTime(nodes, now),
         Recency \in [Nat -> 0..Unit], Wear \in [Nat -> 0..Unit], Unit \in Nat
  PROVE  /\ [i \in DOMAIN nodes |-> nodes[i].likeness] \in [DOMAIN nodes -> Int]
         /\ [i \in DOMAIN nodes |-> Worth(nodes[i], now)] \in [DOMAIN nodes -> Int]
<1>1. ASSUME NEW i \in DOMAIN nodes PROVE nodes[i].likeness \in Int /\ Worth(nodes[i], now) \in Int
  <2>1. nodes[i] \in Memories
    OBVIOUS
  <2>2. nodes[i].stamp =< now /\ nodes[i].seen =< now
    BY DEF InTime
  <2> QED BY <2>1, <2>2, WorthType
<1> QED BY <1>1

\* Whatever is asked for, an agent is given its own memories only, and at most
\* as many as it asked for (RetrievalEngineImpl.retrieve).
THEOREM RecallsOwn ==
  ASSUME NEW nodes \in Seq(Memories), NEW now \in Nat, InTime(nodes, now), NEW a, NEW k \in Nat,
         Recency \in [Nat -> 0..Unit], Wear \in [Nat -> 0..Unit], Unit \in Nat
  PROVE  /\ \A i \in Retrieved(nodes, a, k, now) : nodes[i].owner = a
         /\ Cardinality(Retrieved(nodes, a, k, now)) =< k
<1> DEFINE D == DOMAIN nodes
           own == OwnCandidates(nodes, a, k)
           key == [i \in D |-> Worth(nodes[i], now)]
<1>1. own \in SUBSET D /\ \A i \in own : nodes[i].owner = a
  BY DEF OwnCandidates, Candidates, Best
<1>2. D \in SUBSET Nat /\ IsFiniteSet(own)
  BY <1>1, DomainFinite
<1>3. key \in [D -> Int]
  BY Keys
<1> HIDE DEF D, own, key
<1>4. Best(own, key, k) \subseteq own /\ Cardinality(Best(own, key, k)) =< k
  BY <1>1, <1>2, <1>3, BestFits
<1>5. Retrieved(nodes, a, k, now) = Best(own, key, k)
  BY DEF Retrieved, own, key, D
<1> QED BY <1>1, <1>4, <1>5

\* Nothing that was near enough to be looked at is left out for something
\* that is worth less (RetrievalEngineImpl.retrieve).
THEOREM RecallsBest ==
  ASSUME NEW nodes \in Seq(Memories), NEW now \in Nat, InTime(nodes, now), NEW a, NEW k \in Nat,
         Recency \in [Nat -> 0..Unit], Wear \in [Nat -> 0..Unit], Unit \in Nat,
         NEW i \in Retrieved(nodes, a, k, now), NEW j \in OwnCandidates(nodes, a, k),
         Worth(nodes[j], now) > Worth(nodes[i], now)
  PROVE  j \in Retrieved(nodes, a, k, now)
<1> DEFINE D == DOMAIN nodes
           own == OwnCandidates(nodes, a, k)
           key == [x \in D |-> Worth(nodes[x], now)]
<1>1. own \in SUBSET D
  BY DEF OwnCandidates, Candidates, Best
<1>2. D \in SUBSET Nat /\ IsFiniteSet(own)
  BY <1>1, DomainFinite
<1>3. key \in [D -> Int]
  BY Keys
<1>4. i \in D /\ j \in D /\ key[j] > key[i] /\ j \in own
  BY <1>1 DEF Retrieved, Best
<1>5. Retrieved(nodes, a, k, now) = Best(own, key, k)
  BY DEF Retrieved
<1> HIDE DEF D, own, key
<1>6. Before(key, j, i)
  BY <1>4 DEF Before
<1>7. j \in Best(own, key, k)
  BY <1>1, <1>2, <1>3, <1>4, <1>5, <1>6, BestLeavesWorse
<1> QED BY <1>5, <1>7

LEMMA TimesLess ==
  ASSUME NEW n \in 0..10, NEW x \in Nat, NEW y \in Nat, x =< y
  PROVE  n * x =< n * y
<1>1. n \in {0, 1, 2, 3, 4, 5, 6, 7, 8, 9, 10}
  OBVIOUS
<1> QED BY <1>1

\* What is recalled is further from being pruned, and the rest is where it
\* was: recalling never makes a memory of anyone prunable that was not
\* (lastAccessed of RetrievalEngineImpl.retrieve, MemoryDecayServiceImpl).
THEOREM RecallKeeps ==
  ASSUME NEW nodes \in Seq(Memories), NEW now \in Nat, NEW later \in Nat, now =< later, InTime(nodes, now),
         NEW S, NEW a, Fading(Decay), Unit \in Nat, Threshold \in Nat
  PROVE  PruneCandidates(Touched(nodes, S, now), a, later) \subseteq PruneCandidates(nodes, a, later)
<1> DEFINE after == Touched(nodes, S, now)
<1> SUFFICES ASSUME NEW i \in DOMAIN after, after[i].owner = a, Effective(after[i], later) < Threshold
             PROVE  nodes[i].owner = a /\ Effective(nodes[i], later) < Threshold /\ i \in DOMAIN nodes
  BY DEF PruneCandidates
<1>1. i \in DOMAIN nodes /\ nodes[i] \in Memories
  BY DEF Touched
<1>2. /\ nodes[i].importance \in 0..10 /\ nodes[i].seen \in Nat /\ nodes[i].seen =< now
  BY <1>1 DEF Memories, InTime
<1>3. CASE i \notin S
  BY <1>1, <1>3 DEF Touched
<1>4. CASE i \in S
  <2>1. after[i] = [nodes[i] EXCEPT !.seen = now]
    BY <1>1, <1>4 DEF Touched
  <2>2. after[i].owner = nodes[i].owner /\ after[i].importance = nodes[i].importance /\ after[i].seen = now
    BY <1>1, <2>1 DEF Memories
  <2>3. later - now \in Nat /\ later - nodes[i].seen \in Nat /\ later - now =< later - nodes[i].seen
    BY <1>2
  <2>4. Decay \in [Nat -> 0..Unit] /\ \A s, t \in Nat : s =< t => Decay[t] =< Decay[s]
    BY DEF Fading
  <2>5. Decay[later - now] \in Nat /\ Decay[later - nodes[i].seen] \in Nat
    <3>1. Decay \in [Nat -> 0..Unit]
      BY <2>4
    <3>2. Decay[later - now] \in Nat
      BY <3>1, TableValue
    <3>3. nodes[i].seen \in Nat /\ nodes[i].seen =< later
      BY <1>2
    <3>4. Decay[later - nodes[i].seen] \in Nat
      BY <3>1, <3>3, TableValue
    <3> QED BY <3>2, <3>4
  <2>6. Decay[later - nodes[i].seen] =< Decay[later - now]
    BY <2>3, <2>4
  <2>7. nodes[i].importance * Decay[later - nodes[i].seen] =< nodes[i].importance * Decay[later - now]
    BY <1>2, <2>5, <2>6, TimesLess
  <2>8. /\ nodes[i].importance * Decay[later - nodes[i].seen] \in Int
        /\ nodes[i].importance * Decay[later - now] \in Int
    <3>1. \A n \in 0..10, d \in Nat : n * d \in Int
      OBVIOUS
    <3> QED BY <1>2, <2>5, <3>1
  <2>9. nodes[i].importance * Decay[later - now] < Threshold
    BY <2>2 DEF Effective
  <2> QED BY <1>1, <2>2, <2>7, <2>8, <2>9 DEF Effective
<1> QED BY <1>3, <1>4
-----------------------------------------------------------------------------
(* Importance, and the game loop.                                          *)

\* A composed importance is on the scale of the store, and what the model
\* says moves it by no more than three points of ten (composeImportance).
THEOREM ImportanceFits ==
  ASSUME NEW head, NEW p \in Int, NEW prior, prior = Prior(head, p),
         NEW drive \in 0..500, NEW utility \in 0..100, NEW x \in Int, NEW y \in Int
  PROVE  /\ Composed(prior, drive, utility, x) \in 100..1000
         /\ Composed(prior, drive, utility, x) - Composed(prior, drive, utility, y) =< 300
<1>1. prior \in 0..100
  BY DEF Prior, Neutral, Clamped
<1>2. Clamped(0, x, 10) \in 0..10 /\ Clamped(0, y, 10) \in 0..10
  BY DEF Clamped
<1> DEFINE sum(n) == 6 * prior + drive + 3 * utility + 60 * n + 1
<1>3. PICK n \in 0..10, m \in 0..10 : n = Clamped(0, x, 10) /\ m = Clamped(0, y, 10)
  BY <1>2
<1>4. PICK f \in Int, g \in Int : f = sum(n) \div 2 /\ g = sum(m) \div 2 /\ f - g =< 300
  <2>1. PICK a \in Int, b \in Int : a = sum(n) /\ b = sum(m) /\ a - b =< 600
    BY <1>1, <1>3
  <2>2. a \div 2 \in Int /\ b \div 2 \in Int /\ a \div 2 - b \div 2 =< 300
    BY <2>1
  <2> HIDE DEF sum
  <2> QED BY <2>1, <2>2
<1>5. Composed(prior, drive, utility, x) = Clamped(100, f, 1000)
  BY <1>3, <1>4 DEF Composed
<1>6. Composed(prior, drive, utility, y) = Clamped(100, g, 1000)
  BY <1>3, <1>4 DEF Composed
<1>7. Clamped(100, f, 1000) \in 100..1000 /\ Clamped(100, f, 1000) - Clamped(100, g, 1000) =< 300
  BY <1>4 DEF Clamped
<1> HIDE DEF sum
<1> QED BY <1>5, <1>6, <1>7

\* No frame loses time or plays it twice: what is played and what is left in
\* the accumulator grow by what has passed, at the speed set, and less than a
\* tick is left (GameLoopImpl.consume).
THEOREM NoTimeIsLost ==
  ASSUME NEW loop \in Loops, NEW elapsed \in Nat, loop.left < Delta, loop.time = Delta * loop.tick
  PROVE  LET after == Consumed(loop, elapsed)
         IN  /\ after.left < Delta
             /\ after.time = Delta * after.tick
             /\ after.time + after.left = loop.time + loop.left + elapsed * loop.scale
<1> DEFINE due == DueTicks(loop, elapsed)
           x == loop.left + elapsed * loop.scale
           after == Consumed(loop, elapsed)
<1>1. loop.left \in Nat /\ loop.scale \in Nat /\ loop.tick \in Nat /\ loop.time \in Nat
  BY DEF Loops
<1>2. x \in Nat /\ Delta \in Nat \ {0}
  BY <1>1, DeltaAssumption
<1>3. after.left = x % Delta /\ after.tick = loop.tick + due /\ after.time = loop.time + Delta * due
  BY DEF Consumed, Loops
<1>4. due = x \div Delta
  BY DEF DueTicks
<1> HIDE DEF x, due, after
<1>5. due \in Int /\ x % Delta \in 0..(Delta - 1) /\ x = Delta * due + (x % Delta)
  <2>1. x \div Delta \in Int
    BY <1>2
  <2>2. x % Delta \in 0..(Delta - 1)
    BY <1>2
  <2>3. x = Delta * (x \div Delta) + (x % Delta)
    BY <1>2
  <2> QED BY <1>4, <2>1, <2>2, <2>3
<1>6. Delta * (loop.tick + due) = Delta * loop.tick + Delta * due
  BY <1>1, <1>2, <1>5
<1>7. Delta * due \in Int
  BY <1>2, <1>5
<1>8. after.left < Delta
  BY <1>2, <1>3, <1>5
<1>9. after.time = Delta * after.tick
  BY <1>3, <1>6
<1>10. after.time + after.left = loop.time + x
  <2>1. loop.time \in Int /\ Delta * due \in Int /\ x % Delta \in Int /\ x = Delta * due + (x % Delta)
    BY <1>1, <1>2, <1>5, <1>7
  <2>2. after.time + after.left = (loop.time + Delta * due) + (x % Delta)
    BY <1>3
  <2> QED BY <2>1, <2>2
<1>11. after.time + after.left = loop.time + loop.left + elapsed * loop.scale
  <2>1. elapsed * loop.scale \in Int
    BY <1>1
  <2> QED BY <1>1, <1>10, <2>1 DEF x
<1> QED BY <1>8, <1>9, <1>11 DEF after
-----------------------------------------------------------------------------
(* One pass for an agent.  OnePassEach is not inductive as it stands: that *)
(* a slot is free or holds a pass of an agent has to go with it.           *)

Keeps(p) == "agent" \in DOMAIN p /\ "stage" \in DOMAIN p
Busy(p) == p.agent \in Agents /\ p.stage # "none"

PassInv ==
  /\ passes = [s \in Slots |-> passes[s]]
  /\ \A s \in Slots : Keeps(passes[s]) /\ (passes[s] = Free \/ Busy(passes[s]))
  /\ \A s, t \in Slots : Busy(passes[s]) /\ passes[s].agent = passes[t].agent => s = t
  /\ reflecting = {a \in Agents : \E s \in Slots : passes[s].agent = a}

LEMMA FreeIsFree == Keeps(Free) /\ ~Busy(Free) /\ Free.agent = Llm /\ Free.stage = "none" /\ Llm \notin Agents
  BY UpkeepAssumption DEF Free, Keeps, Busy

LEMMA PassInvImplies == PassInv => OnePassEach
  BY FreeIsFree DEF PassInv, OnePassEach, Busy

\* A pass that goes on.
LEMMA GoesOn ==
  ASSUME PassInv, NEW s \in Slots, NEW p, Keeps(p), Busy(p), p.agent = passes[s].agent,
         passes' = [passes EXCEPT ![s] = p], reflecting' = reflecting
  PROVE  PassInv'
<1>1. passes' = [t \in Slots |-> IF t = s THEN p ELSE passes[t]]
  BY DEF PassInv
<1>2. \A t \in Slots : passes'[t] = IF t = s THEN p ELSE passes[t]
  BY <1>1
<1>3. \A t \in Slots : passes'[t].agent = passes[t].agent
  BY <1>2
<1>4. \A t \in Slots : Keeps(passes'[t]) /\ (passes'[t] = Free \/ Busy(passes'[t]))
  BY <1>2 DEF PassInv
<1>5. Busy(passes[s])
  BY FreeIsFree DEF PassInv, Busy
<1>6. \A t, u \in Slots : Busy(passes'[t]) /\ passes'[t].agent = passes'[u].agent => t = u
  BY <1>2, <1>3, <1>5 DEF PassInv
<1>7. reflecting' = {a \in Agents : \E t \in Slots : passes'[t].agent = a}
  BY <1>3 DEF PassInv
<1>8. passes' = [t \in Slots |-> passes'[t]]
  BY <1>1
<1> QED BY <1>4, <1>6, <1>7, <1>8 DEF PassInv, Keeps, Busy, Free

\* A pass that ends, however it does.
LEMMA Ends ==
  ASSUME PassInv, NEW s \in Slots, Busy(passes[s]),
         passes' = [passes EXCEPT ![s] = Free], reflecting' = reflecting \ {passes[s].agent}
  PROVE  PassInv'
<1>1. passes' = [t \in Slots |-> IF t = s THEN Free ELSE passes[t]]
  BY DEF PassInv
<1>2. \A t \in Slots : passes'[t] = IF t = s THEN Free ELSE passes[t]
  BY <1>1
<1>3. \A t \in Slots : Keeps(passes'[t]) /\ (passes'[t] = Free \/ Busy(passes'[t]))
  BY <1>2, FreeIsFree DEF PassInv
<1>4. \A t, u \in Slots : Busy(passes'[t]) /\ passes'[t].agent = passes'[u].agent => t = u
  BY <1>2, FreeIsFree DEF PassInv, Busy
<1>5. ASSUME NEW a \in Agents
      PROVE  (\E t \in Slots : passes'[t].agent = a) <=> a # passes[s].agent /\ \E t \in Slots : passes[t].agent = a
  BY <1>2, FreeIsFree DEF PassInv, Busy
<1>6. reflecting' = {a \in Agents : \E t \in Slots : passes'[t].agent = a}
  BY <1>5 DEF PassInv
<1>7. passes' = [t \in Slots |-> passes'[t]]
  BY <1>1
<1> QED BY <1>3, <1>4, <1>6, <1>7 DEF PassInv, Keeps, Busy, Free

LEMMA PassInvInit == Init => PassInv
  BY FreeIsFree DEF Init, PassInv, Keeps, Busy

LEMMA SameInv == PassInv /\ UNCHANGED <<passes, reflecting>> => PassInv'
  BY DEF PassInv, Keeps, Busy, Free

LEMMA BeginsOne ==
  ASSUME PassInv, NEW a \in Agents, RunReflection(a)
  PROVE  PassInv'
<1>1. CASE ~MayBegin(a)
  BY <1>1, SameInv DEF RunReflection
<1>2. CASE MayBegin(a)
  <2>1. a \notin reflecting /\ reflecting' = reflecting \cup {a}
    BY <1>2 DEF MayBegin, RunReflection
  <2>2. PICK s \in Slots : passes[s] = Free /\ passes' = [passes EXCEPT ![s] = Begun(a)]
    BY <1>2 DEF RunReflection
  <2>3. Keeps(Begun(a)) /\ Busy(Begun(a)) /\ Begun(a).agent = a
    BY DEF Begun, Free, Keeps, Busy
  <2>4. passes' = [t \in Slots |-> IF t = s THEN Begun(a) ELSE passes[t]]
    BY <2>2 DEF PassInv
  <2>5. \A t \in Slots : passes'[t] = IF t = s THEN Begun(a) ELSE passes[t]
    BY <2>4
  <2>6. \A t \in Slots : passes[t].agent # a
    BY <2>1 DEF PassInv
  <2>7. \A t \in Slots : Keeps(passes'[t]) /\ (passes'[t] = Free \/ Busy(passes'[t]))
    BY <2>3, <2>5 DEF PassInv
  <2>8. \A t, u \in Slots : Busy(passes'[t]) /\ passes'[t].agent = passes'[u].agent => t = u
    BY <2>3, <2>5, <2>6 DEF PassInv
  <2>9. ASSUME NEW b \in Agents
        PROVE  (\E t \in Slots : passes'[t].agent = b) <=> b = a \/ \E t \in Slots : passes[t].agent = b
    BY <2>2, <2>3, <2>5, FreeIsFree
  <2>10. reflecting' = {b \in Agents : \E t \in Slots : passes'[t].agent = b}
    BY <2>1, <2>9 DEF PassInv
  <2>11. passes' = [t \in Slots |-> passes'[t]]
    BY <2>4
  <2> QED BY <2>7, <2>8, <2>10, <2>11 DEF PassInv, Keeps, Busy, Free
<1> QED BY <1>1, <1>2

\* Onward, whatever the pass has just done.
LEMMA OnwardKeeps ==
  ASSUME PassInv, NEW s \in Slots, NEW p, Keeps(p), p.agent = passes[s].agent, Busy(passes[s]), Onward(s, p)
  PROVE  PassInv'
<1>1. CASE p.left > 0 \/ p.todo # <<>>
  <2> DEFINE q == [p EXCEPT !.stage = IF p.left > 0 THEN "storing" ELSE "getting"]
  <2>1. passes' = [passes EXCEPT ![s] = q] /\ reflecting' = reflecting
    BY <1>1 DEF Onward
  <2>2. Keeps(q) /\ Busy(q) /\ q.agent = passes[s].agent
    BY DEF Keeps, Busy
  <2> HIDE DEF q
  <2> QED BY <2>1, <2>2, GoesOn
<1>2. CASE ~(p.left > 0 \/ p.todo # <<>>)
  <2>1. passes' = [passes EXCEPT ![s] = Free] /\ reflecting' = reflecting \ {passes[s].agent}
    BY <1>2 DEF Onward
  <2> QED BY <2>1, Ends
<1> QED BY <1>1, <1>2

LEMMA StageBusy ==
  ASSUME PassInv, NEW s \in Slots, passes[s].stage # "none"
  PROVE  Busy(passes[s]) /\ Keeps(passes[s])
  BY FreeIsFree DEF PassInv

\* Load leaves passes to their agents.
LEMMA LoadKeeps ==
  ASSUME PassInv, Load
  PROVE  PassInv'
<1>1. /\ passes' = [s \in Slots |-> [passes[s] EXCEPT !.whole = passes[s] = Free]]
      /\ reflecting' = reflecting
  BY DEF Load
<1>2. [Free EXCEPT !.whole = TRUE] = Free
  <2>1. Free = [x \in DOMAIN Free |-> Free[x]] /\ Free["whole"] = TRUE
    BY DEF Free
  <2>2. [Free EXCEPT !["whole"] = TRUE] = [x \in DOMAIN Free |-> IF x = "whole" THEN TRUE ELSE Free[x]]
    BY <2>1
  <2>3. [x \in DOMAIN Free |-> IF x = "whole" THEN TRUE ELSE Free[x]] = [x \in DOMAIN Free |-> Free[x]]
    BY <2>1
  <2> QED BY <2>1, <2>2, <2>3
<1>3. ASSUME NEW s \in Slots
      PROVE  /\ Keeps(passes'[s]) /\ (passes'[s] = Free \/ Busy(passes'[s]))
             /\ passes'[s].agent = passes[s].agent /\ (Busy(passes'[s]) => Busy(passes[s]))
  <2>1. Keeps(passes[s]) /\ (passes[s] = Free \/ Busy(passes[s]))
    BY DEF PassInv
  <2>2. passes'[s] = [passes[s] EXCEPT !.whole = passes[s] = Free]
    BY <1>1
  <2>3. /\ DOMAIN passes'[s] = DOMAIN passes[s]
        /\ passes'[s].agent = passes[s].agent /\ passes'[s].stage = passes[s].stage
    BY <2>1, <2>2 DEF Keeps
  <2>4. CASE passes[s] = Free
    <3>1. passes'[s] = Free
      BY <1>2, <2>2, <2>4
    <3> QED BY <3>1, <2>4, FreeIsFree
  <2>5. CASE Busy(passes[s])
    BY <2>1, <2>3, <2>5 DEF Keeps, Busy
  <2> QED BY <2>1, <2>4, <2>5
<1>4. \A t, u \in Slots : Busy(passes'[t]) /\ passes'[t].agent = passes'[u].agent => t = u
  BY <1>3 DEF PassInv
<1>5. reflecting' = {a \in Agents : \E t \in Slots : passes'[t].agent = a}
  <2>1. \A t \in Slots : passes'[t].agent = passes[t].agent
    BY <1>3
  <2>2. reflecting' = {a \in Agents : \E t \in Slots : passes[t].agent = a}
    BY <1>1 DEF PassInv
  <2> QED BY <2>1, <2>2
<1>6. passes' = [t \in Slots |-> passes'[t]]
  BY <1>1
<1> QED BY <1>3, <1>4, <1>5, <1>6 DEF PassInv, Keeps, Busy, Free

LEMMA PassInvNext == PassInv /\ [Next]_vars => PassInv'
<1> SUFFICES ASSUME PassInv, [Next]_vars PROVE PassInv'
  OBVIOUS
<1>1. CASE Tick \/ Start \/ Stop
  BY <1>1, SameInv DEF Tick, Start, Stop
<1>2. CASE Load
  BY <1>2, LoadKeeps
<1>3. CASE Restart
  <2>1. passes' = [s \in Slots |-> Free] /\ reflecting' = {}
    BY <1>3 DEF Restart
  <2>2. \A s \in Slots : passes'[s] = Free
    BY <2>1
  <2>3. \A a \in Agents : ~ \E s \in Slots : passes'[s].agent = a
    BY <2>2, FreeIsFree
  <2> QED BY <2>1, <2>2, <2>3, FreeIsFree DEF PassInv, Keeps, Busy, Free
<1>4. ASSUME NEW a \in Agents, WriteBegins(a) PROVE PassInv'
  BY <1>4, SameInv DEF WriteBegins, upkeep
<1>5. ASSUME NEW a \in Agents, RunReflection(a) PROVE PassInv'
  BY <1>5, BeginsOne
<1>6. ASSUME NEW e \in embedding, Written(e) \/ WriteFails(e) PROVE PassInv'
  BY <1>6, SameInv DEF Written, WriteFails, upkeep
<1>7. ASSUME NEW f \in writing, SaveEnds(f) PROVE PassInv'
  BY <1>7, SameInv DEF SaveEnds, upkeep
<1>8. ASSUME NEW s \in Slots, Answered(s) PROVE PassInv'
  <2>1. PICK new \in 0..1, listed \in Lists(passes[s]) : \E w \in Instants(passes[s], new) :
          Onward(s, [passes[s] EXCEPT !.left = new, !.at = w, !.listed = listed, !.todo = listed])
    BY <1>8 DEF Answered
  <2>2. PICK w : Onward(s, [passes[s] EXCEPT !.left = new, !.at = w, !.listed = listed, !.todo = listed])
    BY <2>1
  <2>3. Busy(passes[s]) /\ Keeps(passes[s])
    BY <1>8, StageBusy DEF Answered
  <2> DEFINE p == [passes[s] EXCEPT !.left = new, !.at = w, !.listed = listed, !.todo = listed]
  <2>4. Keeps(p) /\ p.agent = passes[s].agent
    BY <2>3 DEF Keeps
  <2> HIDE DEF p
  <2> QED BY <2>2, <2>3, <2>4, OnwardKeeps DEF p
<1>9. ASSUME NEW s \in Slots, Broke(s) PROVE PassInv'
  <2>1. Busy(passes[s])
    BY <1>9, StageBusy DEF Broke
  <2> QED BY <1>9, <2>1, Ends DEF Broke, Fails
<1>10. ASSUME NEW s \in Slots, InsightStored(s) PROVE PassInv'
  <2> DEFINE p == [passes[s] EXCEPT !.left = @ - 1, !.made = @ + 1]
  <2>1. Busy(passes[s]) /\ Keeps(passes[s])
    BY <1>10, StageBusy DEF InsightStored
  <2>2. Onward(s, p)
    BY <1>10 DEF InsightStored
  <2>3. Keeps(p) /\ p.agent = passes[s].agent
    BY <2>1 DEF Keeps
  <2> HIDE DEF p
  <2> QED BY <2>1, <2>2, <2>3, OnwardKeeps
<1>11. ASSUME NEW s \in Slots, Got(s) PROVE PassInv'
  <2>1. Busy(passes[s]) /\ Keeps(passes[s])
    BY <1>11, StageBusy DEF Got
  <2>2. CASE Head(passes[s].todo) \in DOMAIN store
    <3> DEFINE p == [passes[s] EXCEPT !.stage = "lowering", !.got = store[Head(passes[s].todo)].importance]
    <3>1. passes' = [passes EXCEPT ![s] = p] /\ reflecting' = reflecting
      BY <1>11, <2>2 DEF Got
    <3>2. Keeps(p) /\ Busy(p) /\ p.agent = passes[s].agent
      BY <2>1 DEF Keeps, Busy
    <3> HIDE DEF p
    <3> QED BY <3>1, <3>2, GoesOn
  <2>3. CASE Head(passes[s].todo) \notin DOMAIN store
    <3>1. Onward(s, Skipped(passes[s]))
      BY <1>11, <2>3 DEF Got
    <3>2. Keeps(Skipped(passes[s])) /\ Skipped(passes[s]).agent = passes[s].agent
      BY <2>1 DEF Keeps, Skipped
    <3> QED BY <2>1, <3>1, <3>2, OnwardKeeps
  <2> QED BY <2>2, <2>3
<1>12. ASSUME NEW s \in Slots, Lowered(s) PROVE PassInv'
  <2>1. Busy(passes[s]) /\ Keeps(passes[s])
    BY <1>12, StageBusy DEF Lowered
  <2>2. Onward(s, Skipped(passes[s]))
    BY <1>12 DEF Lowered
  <2>3. Keeps(Skipped(passes[s])) /\ Skipped(passes[s]).agent = passes[s].agent
    BY <2>1 DEF Keeps, Skipped
  <2> QED BY <2>1, <2>2, <2>3, OnwardKeeps
<1>13. CASE UNCHANGED vars
  BY <1>13, SameInv DEF vars, upkeep
<1> QED BY <1>1, <1>2, <1>3, <1>4, <1>5, <1>6, <1>7, <1>8, <1>9, <1>10, <1>11, <1>12, <1>13 DEF Next

\* An agent reflects in one pass at a time, and is marked as reflecting
\* exactly while it does, whatever fails, is loaded or restarts
\* (ReflectionLoopImpl.runReflection and its finally block).
THEOREM OnePassAlways == Spec => []OnePassEach
<1>1. PassInv /\ [Next]_vars => PassInv'
  BY PassInvNext
<1> QED BY PassInvInit, <1>1, PassInvImplies, PTL DEF Spec
-----------------------------------------------------------------------------
(* Type correctness.  What is saved is loaded, and what a pass has read,   *)
(* listed and got is what it writes: their types are part of it.           *)

Maps(S) == UNION {[D -> S] : D \in SUBSET Ids}

PassType ==
  [agent : Agents \cup {Llm}, stage : {"none", "thinking", "storing", "getting", "lowering"},
   start : Nat, read : Maps(1..10), left : Int, made : Nat, at : Nat,
   listed : Seq(Ids), todo : Seq(Ids), got : 0..10, whole : BOOLEAN]

SaveType == [clock : 0..MaxClock, store : Maps(Nodes)]

TypeInv ==
  /\ TypeOK
  /\ store \in Maps(Nodes) /\ passes \in [Slots -> PassType]
  /\ writing \subseteq SaveType /\ file \in Seq(SaveType)
  /\ whose \in Maps(Agents \cup {Llm})

LEMMA MapsAre ==
  ASSUME NEW S, NEW m \in Maps(S)
  PROVE  DOMAIN m \subseteq Ids /\ m \in [DOMAIN m -> S]
BY DEF Maps

LEMMA IsMap ==
  ASSUME NEW S, NEW D, D \subseteq Ids, NEW m, m \in [D -> S]
  PROVE  m \in Maps(S)
BY DEF Maps

LEMMA PutIs ==
  ASSUME NEW S, NEW m \in Maps(S), NEW i \in Ids, NEW v \in S
  PROVE  /\ Put(m, i, v) \in Maps(S)
         /\ DOMAIN Put(m, i, v) = DOMAIN m \cup {i}
         /\ \A j \in DOMAIN m \cup {i} : Put(m, i, v)[j] = IF j = i THEN v ELSE m[j]
<1> DEFINE g == Put(m, i, v)
           D == DOMAIN m \cup {i}
<1>1. DOMAIN m \subseteq Ids /\ \A j \in DOMAIN m : m[j] \in S
  BY MapsAre
<1>2. g = [j \in D |-> IF j = i THEN v ELSE m[j]]
  BY DEF Put
<1>3. g \in [D -> S] /\ D \subseteq Ids
  BY <1>1, <1>2
<1> HIDE DEF g, D
<1>4. g \in Maps(S)
  BY <1>3, IsMap
<1>5. QED
  BY <1>2, <1>4 DEF g, D

LEMMA EmptyIsMap == \A S : Empty \in Maps(S)
<1> TAKE S
<1>1. Empty \in [{} -> S]
  BY DEF Empty
<1>2. QED
  BY <1>1 DEF Maps

LEMMA FreeType == Free \in PassType
BY EmptyIsMap DEF Free, PassType

LEMMA HalvedIs ==
  ASSUME NEW n \in 0..10
  PROVE  /\ Halved(n) \in 1..10
         /\ n >= 1 => Halved(n) <= n
         /\ \A m \in 0..n : Halved(m) <= Halved(n)
BY DEF Halved

LEMMA NodesAre ==
  ASSUME NEW m \in Maps(Nodes), NEW i \in DOMAIN m
  PROVE  m[i] \in Nodes /\ m[i].importance \in 1..10 /\ m[i].agent \in Agents /\ i \in Ids
<1>1. m \in [DOMAIN m -> Nodes] /\ DOMAIN m \subseteq Ids
  BY MapsAre
<1>2. QED
  BY <1>1 DEF Nodes

LEMMA UnheardIsId == Unheard \in Ids
BY DEF Unheard, Ids

LEMMA OnwardType ==
  ASSUME passes \in [Slots -> PassType], reflecting \subseteq Agents, last \in [Agents -> Nat],
         NEW s \in Slots, NEW p \in PassType, Onward(s, p)
  PROVE  /\ passes' \in [Slots -> PassType]
         /\ reflecting' \subseteq Agents /\ last' \in [Agents -> Nat]
<1>1. CASE p.left > 0 \/ p.todo # <<>>
  <2> DEFINE q == [p EXCEPT !.stage = IF p.left > 0 THEN "storing" ELSE "getting"]
  <2>1. q \in PassType
    BY DEF PassType
  <2>2. passes' = [passes EXCEPT ![s] = q] /\ UNCHANGED <<reflecting, last>>
    BY <1>1 DEF Onward
  <2> HIDE DEF q
  <2>3. QED
    BY <2>1, <2>2
<1>2. CASE ~(p.left > 0 \/ p.todo # <<>>)
  <2>1. /\ passes' = [passes EXCEPT ![s] = Free]
        /\ reflecting' = reflecting \ {p.agent}
        /\ last' = [last EXCEPT ![p.agent] = p.start]
    BY <1>2 DEF Onward
  <2>2. p.start \in Nat
    BY DEF PassType
  <2>3. QED
    BY <2>1, <2>2, FreeType
<1>3. QED
  BY <1>1, <1>2

LEMMA PassTypeKept ==
  ASSUME NEW p \in PassType
  PROVE  /\ p.agent \in Agents \cup {Llm} /\ p.start \in Nat /\ p.at \in Nat /\ p.made \in Nat
         /\ p.left \in Int /\ p.todo \in Seq(Ids) /\ p.listed \in Seq(Ids) /\ p.got \in 0..10
         /\ p.read \in Maps(1..10)
         /\ p.todo # <<>> => Skipped(p) \in PassType
<1>1. p.todo # <<>> => Tail(p.todo) \in Seq(Ids)
  BY DEF PassType
<1>2. p.todo # <<>> => [p EXCEPT !.todo = Tail(p.todo)] \in PassType
  BY <1>1 DEF PassType
<1>3. QED
  BY <1>2 DEF PassType, Skipped

\* Changing the importance of a node, if it is there.
LEMMA RatedIs ==
  ASSUME NEW m \in Maps(Nodes), NEW i, NEW n \in 1..10
  PROVE  LET r == IF i \in DOMAIN m THEN [m EXCEPT ![i].importance = n] ELSE m
         IN  /\ r \in Maps(Nodes) /\ DOMAIN r = DOMAIN m
             /\ \A j \in DOMAIN m : /\ r[j].agent = m[j].agent
                                    /\ j # i => r[j] = m[j]
                                    /\ j = i => r[j].importance = n
<1> DEFINE r == IF i \in DOMAIN m THEN [m EXCEPT ![i].importance = n] ELSE m
<1>1. m \in [DOMAIN m -> Nodes] /\ DOMAIN m \subseteq Ids
  BY MapsAre
<1>2. \A j \in DOMAIN m : /\ r[j].agent = m[j].agent /\ r[j] \in Nodes
                          /\ j # i => r[j] = m[j]
                          /\ j = i => r[j].importance = n
  BY <1>1 DEF Nodes
<1>3. DOMAIN r = DOMAIN m /\ r = [j \in DOMAIN m |-> r[j]]
  BY <1>1
<1> HIDE DEF r
<1>4. r \in [DOMAIN m -> Nodes]
  BY <1>2, <1>3
<1>5. r \in Maps(Nodes)
  BY <1>1, <1>4, IsMap
<1>6. QED
  BY <1>2, <1>3, <1>5 DEF r

\* A save that is read back.
LEMMA RestoredType ==
  ASSUME TypeInv, file # <<>>
  PROVE  file[1] \in SaveType /\ file[1].clock \in 0..MaxClock /\ file[1].store \in Maps(Nodes)
<1>1. file[1] \in SaveType
  BY DEF TypeInv
<1>2. QED
  BY <1>1 DEF SaveType

LEMMA InitTypeInv == Init => TypeInv
<1> SUFFICES ASSUME Init PROVE TypeInv
  OBVIOUS
<1>1. DOMAIN Empty = {}
  BY DEF Empty
<1>2. TypeOK
  <2>0. MaxClock \in Nat /\ MaxRestarts \in Nat /\ MaxWall \in Nat /\ 1 <= MaxWall
    BY UpkeepAssumption
  <2>1. /\ clock \in 0..MaxClock /\ ticks \in Nat /\ restarts \in 0..MaxRestarts
        /\ wall \in 1..MaxWall /\ memCounter \in Nat /\ running \in BOOLEAN
    <3>1. clock = 0 /\ ticks = 0 /\ restarts = 0 /\ wall = 1 /\ memCounter = 0
      BY DEF Init
    <3>2. running \in BOOLEAN
      BY DEF Init
    <3>3. QED
      BY <2>0, <3>1, <3>2
  <2>2. DOMAIN store = {} /\ DOMAIN whose = {}
    BY <1>1 DEF Init
  <2>3. /\ embedding = {} /\ asks \in [Agents -> Nat] /\ reflecting = {} /\ last \in [Agents -> Nat]
        /\ reloaded \in {"never", "here", "before"}
    BY DEF Init, NoAsks
  <2>4. QED
    BY <2>1, <2>2, <2>3 DEF TypeOK
<1>3. /\ store \in Maps(Nodes) /\ whose \in Maps(Agents \cup {Llm})
      /\ passes \in [Slots -> PassType]
      /\ writing \subseteq SaveType /\ file \in Seq(SaveType)
  BY EmptyIsMap, FreeType DEF Init
<1>4. QED
  BY <1>2, <1>3 DEF TypeInv

\* Of the steps that touch neither nodes nor passes.
LEMMA QuietType ==
  ASSUME TypeInv, UNCHANGED <<store, passes, whose, clock, ticks, wall, memCounter, reflecting, last>>,
         running' \in BOOLEAN, restarts' = restarts, reloaded' = reloaded, asks' \in [Agents -> Nat],
         embedding' \subseteq [agent : Agents, stamp : Nat],
         writing' \subseteq SaveType, file' \in Seq(SaveType)
  PROVE  TypeInv'
BY DEF TypeInv, TypeOK

LEMMA TickType ==
  ASSUME TypeInv, Tick
  PROVE  TypeInv'
<1> DEFINE f == [clock |-> clock', store |-> store]
<1>1. clock' \in 0..MaxClock /\ ticks' \in Nat /\ asks' \in [Agents -> Nat]
  BY UpkeepAssumption DEF Tick, TypeInv, TypeOK
<1>2. f \in SaveType
  BY <1>1 DEF TypeInv, SaveType
<1>3. writing' \in {writing, writing \cup {f}} /\ file' \in {file, <<>>}
  BY DEF Tick, disk
<1> HIDE DEF f
<1>4. writing' \subseteq SaveType /\ file' \in Seq(SaveType)
  <2>1. writing \subseteq SaveType /\ file \in Seq(SaveType) /\ <<>> \in Seq(SaveType)
    BY DEF TypeInv
  <2>2. QED
    BY <1>2, <1>3, <2>1
<1>5. UNCHANGED <<restarts, wall, memCounter, store, embedding, running, passes, reflecting, last,
                  reloaded, whose>>
  BY DEF Tick, memory, history
<1>6. QED
  BY <1>1, <1>4, <1>5 DEF TypeInv, TypeOK

LEMMA WrittenType ==
  ASSUME TypeInv, NEW e \in embedding, Written(e)
  PROVE  TypeInv'
<1>1. e.agent \in Agents /\ e.stamp \in Nat /\ memCounter \in Nat
  BY DEF TypeInv, TypeOK
<1>2. NewId(e) \in Ids
  BY <1>1 DEF NewId, Ids
<1>3. PICK imp \in Importances :
        store' = Put(store, NewId(e), [agent |-> e.agent, stamp |-> e.stamp, importance |-> imp])
  BY DEF Written
<1>4. [agent |-> e.agent, stamp |-> e.stamp, importance |-> imp] \in Nodes
  BY <1>1, UpkeepAssumption DEF Nodes
<1>5. store' \in Maps(Nodes)
  BY <1>2, <1>3, <1>4, PutIs DEF TypeInv
<1> DEFINE v == IF NewId(e) \in DOMAIN whose THEN Llm ELSE e.agent
<1>6. v \in Agents \cup {Llm} /\ whose' = Put(whose, NewId(e), v)
  BY <1>1 DEF Written, Given
<1> HIDE DEF v
<1>7. whose' \in Maps(Agents \cup {Llm})
  BY <1>2, <1>6, PutIs DEF TypeInv
<1>8. /\ DOMAIN store' \subseteq Ids /\ \A i \in DOMAIN store' : store'[i] \in Nodes
      /\ DOMAIN whose' \subseteq Ids /\ \A i \in DOMAIN whose' : whose'[i] \in Agents \cup {Llm}
  BY <1>5, <1>7, MapsAre
<1>9. /\ UNCHANGED <<clock, ticks, restarts, wall, running, asks, passes, reflecting, last, writing, file,
                     reloaded>>
      /\ embedding' \subseteq embedding /\ memCounter' = memCounter + 1
  BY DEF Written, upkeep, disk
<1>10. QED
  BY <1>1, <1>5, <1>7, <1>8, <1>9 DEF TypeInv, TypeOK

LEMMA BeginType ==
  ASSUME TypeInv, NEW a \in Agents, RunReflection(a)
  PROVE  TypeInv'
<1>1. UNCHANGED <<clock, ticks, restarts, wall, memCounter, store, embedding, running, last, writing, file,
                  reloaded, whose>>
  BY DEF RunReflection, memory, disk, history
<1>2. asks' \in [Agents -> Nat] /\ reflecting' \subseteq Agents
  BY DEF RunReflection, TypeInv, TypeOK
<1>3. Begun(a) \in PassType
  <2> DEFINE r == [i \in Owned(a) |-> store[i].importance]
  <2>1. \A i \in Owned(a) : i \in Ids /\ store[i].importance \in 1..10
    BY NodesAre DEF Owned, TypeInv
  <2>2. r \in [Owned(a) -> 1..10] /\ Owned(a) \subseteq Ids
    BY <2>1
  <2> HIDE DEF r
  <2>3. r \in Maps(1..10)
    BY <2>2, IsMap
  <2>4. Begun(a) = [Free EXCEPT !.agent = a, !.stage = "thinking", !.start = clock, !.read = r]
    BY DEF Begun, r
  <2>5. clock \in Nat
    BY UpkeepAssumption DEF TypeInv, TypeOK
  <2>6. QED
    BY <2>3, <2>4, <2>5, FreeType DEF PassType
<1>4. passes' \in [Slots -> PassType]
  BY <1>3 DEF RunReflection, TypeInv
<1>5. QED
  BY <1>1, <1>2, <1>4 DEF TypeInv, TypeOK

\* What the steps of a pass leave to its last act.
LEMMA PassStepType ==
  ASSUME TypeInv, wall' \in 1..MaxWall, store' \in Maps(Nodes), whose' \in Maps(Agents \cup {Llm}),
         passes' \in [Slots -> PassType], reflecting' \subseteq Agents, last' \in [Agents -> Nat],
         UNCHANGED <<clock, ticks, restarts, memCounter, embedding, running, asks, writing, file, reloaded>>
  PROVE  TypeInv'
<1>1. /\ DOMAIN store' \subseteq Ids /\ \A i \in DOMAIN store' : store'[i] \in Nodes
      /\ DOMAIN whose' \subseteq Ids /\ \A i \in DOMAIN whose' : whose'[i] \in Agents \cup {Llm}
  BY MapsAre
<1>2. QED
  BY <1>1 DEF TypeInv, TypeOK

LEMMA ReflectType == TypeInv => /\ reflecting \subseteq Agents /\ last \in [Agents -> Nat]
                               /\ passes \in [Slots -> PassType]
BY DEF TypeInv, TypeOK

LEMMA ListsAre ==
  ASSUME NEW p \in PassType, NEW listed \in Lists(p)
  PROVE  listed \in Seq(Ids) /\ \A k \in DOMAIN listed : listed[k] \in DOMAIN p.read \cup {Unheard}
<1> DEFINE L == DOMAIN p.read \cup {Unheard}
<1>1. PICK k \in 0..MaxListed : listed \in [1..k -> L]
  BY DEF Lists
<1>2. L \subseteq Ids
  BY PassTypeKept, MapsAre, UnheardIsId
<1> HIDE DEF L
<1>3. k \in Nat /\ listed \in [1..k -> Ids] /\ DOMAIN listed = 1..k
  BY <1>1, <1>2, UpkeepAssumption
<1>4. listed \in Seq(Ids)
  BY <1>3
<1>5. QED
  BY <1>1, <1>3, <1>4 DEF L

LEMMA AnsweredType ==
  ASSUME TypeInv, NEW s \in Slots, Answered(s)
  PROVE  TypeInv'
<1> DEFINE p == passes[s]
<1>1. p \in PassType
  BY DEF TypeInv
<1>2. PICK new \in 0..1, listed \in Lists(p) : \E w \in Instants(p, new) :
        /\ wall' = w
        /\ Onward(s, [p EXCEPT !.left = new, !.at = w, !.listed = listed, !.todo = listed])
  BY DEF Answered
<1>3. PICK w \in Instants(p, new) :
        /\ wall' = w
        /\ Onward(s, [p EXCEPT !.left = new, !.at = w, !.listed = listed, !.todo = listed])
  BY <1>2
<1> HIDE DEF p
<1>4. w \in 1..MaxWall
  BY DEF Instants, TypeInv, TypeOK
<1>5. listed \in Seq(Ids)
  BY <1>1, ListsAre
<1> DEFINE q == [p EXCEPT !.left = new, !.at = w, !.listed = listed, !.todo = listed]
<1>6. q \in PassType
  <2>1. new \in Int /\ w \in Nat
    BY <1>4, UpkeepAssumption
  <2>2. QED
    BY <1>1, <1>5, <2>1 DEF PassType
<1>7. Onward(s, q)
  BY <1>3
<1> HIDE DEF q
<1>8. /\ passes' \in [Slots -> PassType]
      /\ reflecting' \subseteq Agents /\ last' \in [Agents -> Nat]
  BY <1>6, <1>7, ReflectType, OnwardType
<1>9. UNCHANGED <<clock, ticks, restarts, memCounter, store, embedding, running, asks, writing, file,
                  reloaded, whose>>
  BY DEF Answered, memory, disk, history
<1>10. QED
  BY <1>3, <1>4, <1>8, <1>9, PassStepType DEF TypeInv

LEMMA BrokeType ==
  ASSUME TypeInv, NEW s \in Slots, Broke(s)
  PROVE  TypeInv'
<1>1. /\ passes' = [passes EXCEPT ![s] = Free] /\ last' = last
      /\ reflecting' = reflecting \ {passes[s].agent}
  BY DEF Broke, Fails
<1>2. passes' \in [Slots -> PassType] /\ reflecting' \subseteq Agents /\ last' \in [Agents -> Nat]
  BY <1>1, ReflectType, FreeType
<1>3. UNCHANGED <<clock, ticks, restarts, wall, memCounter, store, embedding, running, asks, writing, file,
                  reloaded, whose>>
  BY DEF Broke, memory, disk, history
<1>4. wall' \in 1..MaxWall
  BY <1>3 DEF TypeInv, TypeOK
<1>5. QED
  BY <1>2, <1>3, <1>4, PassStepType DEF TypeInv

LEMMA InsightType ==
  ASSUME TypeInv, PassInv, NEW s \in Slots, InsightStored(s)
  PROVE  TypeInv'
<1> DEFINE p == passes[s]
           q == [p EXCEPT !.left = @ - 1, !.made = @ + 1]
           node == [agent |-> p.agent, stamp |-> Wall(p.at), importance |-> 8]
<1>1. p \in PassType /\ p.at \in Nat /\ p.made \in Nat /\ p.left \in Int
  BY PassTypeKept DEF TypeInv
<1>2. p.agent \in Agents
  BY StageBusy DEF InsightStored, Busy
<1>3. InsightId(p) \in Ids
  BY <1>1 DEF InsightId, Ids
<1>4. node \in Nodes
  BY <1>1, <1>2, UpkeepAssumption DEF Nodes, Wall
<1>5. q \in PassType
  <2> HIDE DEF p
  <2>1. p.left - 1 \in Int /\ p.made + 1 \in Nat
    BY <1>1
  <2>2. [p EXCEPT !.left = p.left - 1, !.made = p.made + 1] \in PassType
    BY <1>1, <2>1 DEF PassType
  <2>3. QED
    BY <2>2
<1>6. Onward(s, q) /\ store' = Put(store, InsightId(p), node)
  BY DEF InsightStored
<1> DEFINE v == IF InsightId(p) \in DOMAIN whose THEN Llm ELSE p.agent
<1>7. v \in Agents \cup {Llm} /\ whose' = Put(whose, InsightId(p), v)
  BY <1>2 DEF InsightStored, Given
<1>8. UNCHANGED <<clock, ticks, restarts, wall, memCounter, embedding, running, asks, writing, file,
                  reloaded>>
  BY DEF InsightStored, disk
<1> HIDE DEF p, q, node, v
<1>9. store' \in Maps(Nodes) /\ whose' \in Maps(Agents \cup {Llm})
  BY <1>3, <1>4, <1>6, <1>7, PutIs DEF TypeInv
<1>10. passes' \in [Slots -> PassType] /\ reflecting' \subseteq Agents /\ last' \in [Agents -> Nat]
  BY <1>5, <1>6, ReflectType, OnwardType
<1>11. wall' \in 1..MaxWall
  BY <1>8 DEF TypeInv, TypeOK
<1>12. QED
  BY <1>8, <1>9, <1>10, <1>11, PassStepType

LEMMA GotType ==
  ASSUME TypeInv, NEW s \in Slots, passes[s].todo # <<>>, Got(s)
  PROVE  TypeInv'
<1> DEFINE p == passes[s]
           i == Head(p.todo)
           q == [p EXCEPT !.stage = "lowering", !.got = store[i].importance]
<1>1. p \in PassType /\ Skipped(p) \in PassType
  BY PassTypeKept DEF TypeInv
<1>2. UNCHANGED <<clock, ticks, restarts, wall, memCounter, store, embedding, running, asks, writing, file,
                  reloaded, whose>>
  BY DEF Got, memory, disk, history
<1>3. passes' \in [Slots -> PassType] /\ reflecting' \subseteq Agents /\ last' \in [Agents -> Nat]
  <2>1. CASE i \in DOMAIN store
    <3>1. store[i].importance \in 0..10
      BY <2>1, NodesAre DEF TypeInv
    <3>2. q \in PassType
      BY <1>1, <3>1 DEF PassType
    <3>3. passes' = [passes EXCEPT ![s] = q] /\ UNCHANGED <<reflecting, last>>
      BY <2>1 DEF Got
    <3> HIDE DEF q
    <3>4. QED
      BY <3>2, <3>3, ReflectType
  <2>2. CASE i \notin DOMAIN store
    <3>1. Onward(s, Skipped(p))
      BY <2>2 DEF Got
    <3>2. QED
      BY <1>1, <3>1, ReflectType, OnwardType
  <2>3. QED
    BY <2>1, <2>2
<1>4. wall' \in 1..MaxWall
  BY <1>2 DEF TypeInv, TypeOK
<1>5. QED
  BY <1>2, <1>3, <1>4, PassStepType DEF TypeInv

LEMMA LoweredType ==
  ASSUME TypeInv, NEW s \in Slots, passes[s].todo # <<>>, Lowered(s)
  PROVE  TypeInv'
<1> DEFINE p == passes[s]
           i == Head(p.todo)
           n == Halved(p.got)
<1>1. p \in PassType /\ Skipped(p) \in PassType /\ p.got \in 0..10
  BY PassTypeKept DEF TypeInv
<1>2. n \in 1..10
  BY <1>1, HalvedIs
<1>3. UNCHANGED <<clock, ticks, restarts, wall, memCounter, embedding, running, asks, writing, file,
                  reloaded, whose>>
  BY DEF Lowered, disk, history
<1>4. /\ Onward(s, Skipped(p))
      /\ store' = IF i \in DOMAIN store THEN [store EXCEPT ![i].importance = n] ELSE store
  BY DEF Lowered
<1> HIDE DEF n, i, p
<1>5. store' \in Maps(Nodes)
  BY <1>2, <1>4, RatedIs DEF TypeInv
<1>6. passes' \in [Slots -> PassType] /\ reflecting' \subseteq Agents /\ last' \in [Agents -> Nat]
  BY <1>1, <1>4, ReflectType, OnwardType
<1>7. wall' \in 1..MaxWall
  BY <1>3 DEF TypeInv, TypeOK
<1>8. QED
  BY <1>3, <1>5, <1>6, <1>7, PassStepType DEF TypeInv

LEMMA LoadType ==
  ASSUME TypeInv, Load
  PROVE  TypeInv'
<1>1. file # <<>> /\ store' = file[1].store /\ clock' = file[1].clock
  BY DEF Load, Restored
<1>2. clock' \in 0..MaxClock /\ store' \in Maps(Nodes)
  BY <1>1, RestoredType
<1>3. DOMAIN store' \subseteq Ids /\ \A i \in DOMAIN store' : store'[i] \in Nodes
  BY <1>2, MapsAre
<1>4. passes' = [s \in Slots |-> [passes[s] EXCEPT !.whole = passes[s] = Free]]
  BY DEF Load
<1>5. passes' \in [Slots -> PassType]
  <2>1. \A s \in Slots : [passes[s] EXCEPT !.whole = passes[s] = Free] \in PassType
    <3> TAKE s \in Slots
    <3>1. passes[s] \in PassType
      BY DEF TypeInv
    <3>2. PICK b \in BOOLEAN : b = (passes[s] = Free)
      OBVIOUS
    <3>3. [passes[s] EXCEPT !.whole = b] \in PassType
      BY <3>1 DEF PassType
    <3>4. QED
      BY <3>2, <3>3
  <2>2. QED
    BY <1>4, <2>1
<1>6. /\ UNCHANGED <<ticks, restarts, wall, memCounter, embedding, running, asks, reflecting, last,
                     writing, file, whose>>
      /\ reloaded' = "here"
  BY DEF Load, disk
<1>7. QED
  BY <1>2, <1>3, <1>5, <1>6 DEF TypeInv, TypeOK

LEMMA RestartType ==
  ASSUME TypeInv, Restart
  PROVE  TypeInv'
<1>1. clock' \in 0..MaxClock /\ store' \in Maps(Nodes)
  <2>1. CASE writing = {} /\ file # <<>>
    BY <2>1, RestoredType DEF Restart, Restored
  <2>2. CASE ~(writing = {} /\ file # <<>>)
    BY <2>2, EmptyIsMap, UpkeepAssumption DEF Restart
  <2>3. QED
    BY <2>1, <2>2
<1>2. DOMAIN store' \subseteq Ids /\ \A i \in DOMAIN store' : store'[i] \in Nodes
  BY <1>1, MapsAre
<1>3. restarts' \in 0..MaxRestarts
  BY UpkeepAssumption DEF Restart, TypeInv, TypeOK
<1>4. passes' \in [Slots -> PassType] /\ last' \in [Agents -> Nat]
  BY FreeType DEF Restart
<1>5. writing' = {} /\ file' \in Seq(SaveType)
  <2>1. file \in Seq(SaveType) /\ <<>> \in Seq(SaveType)
    BY DEF TypeInv
  <2>2. QED
    BY <2>1 DEF Restart
<1>6. /\ ticks' = 0 /\ memCounter' = 0 /\ embedding' = {} /\ reflecting' = {}
      /\ reloaded' \in {"never", "before"} /\ wall' = wall
  BY DEF Restart
<1>a. asks' = NoAsks /\ NoAsks \in [Agents -> Nat]
  BY DEF Restart, NoAsks
<1>7. running' \in BOOLEAN
  BY DEF Restart
<1>8. whose' \in Maps(Agents \cup {Llm})
  <2> DEFINE D == DOMAIN whose \cap DOMAIN store'
  <2>1. whose' = [i \in D |-> whose[i]]
    BY DEF Restart
  <2>2. D \subseteq Ids /\ \A i \in D : whose[i] \in Agents \cup {Llm}
    BY MapsAre DEF TypeInv
  <2>3. whose' \in [D -> Agents \cup {Llm}]
    BY <2>1, <2>2
  <2> HIDE DEF D
  <2>4. QED
    BY <2>2, <2>3, IsMap
<1>9. DOMAIN whose' \subseteq Ids /\ \A i \in DOMAIN whose' : whose'[i] \in Agents \cup {Llm}
  BY <1>8, MapsAre
<1>10. QED
  BY <1>1, <1>2, <1>3, <1>4, <1>5, <1>6, <1>a, <1>7, <1>8, <1>9 DEF TypeInv, TypeOK

-----------------------------------------------------------------------------
(* What a pass may count on at each stage: something is left to do where   *)
(* it says so, of what it has read or of an id the model made up.          *)

Listing(p) == \A k \in DOMAIN p.todo : p.todo[k] \in DOMAIN p.read \cup {Unheard}

Sound(p) ==
  /\ p.stage \in {"getting", "lowering"} => p.todo # <<>>
  /\ p.stage \in {"storing", "getting", "lowering"} => p.at >= 1
  /\ p.stage = "thinking" => p.made = 0
  /\ Listing(p)

SoundInv == \A s \in Slots : Sound(passes[s])

MemInv == TypeInv /\ PassInv /\ SoundInv

LEMMA FreeIsSound == Sound(Free)
BY DEF Free, Sound, Listing

LEMMA OnwardSound ==
  ASSUME passes \in [Slots -> PassType], SoundInv, NEW s \in Slots, NEW p \in PassType,
         p.at >= 1, Listing(p), Onward(s, p)
  PROVE  SoundInv'
<1>1. CASE p.left > 0 \/ p.todo # <<>>
  <2> DEFINE q == [p EXCEPT !.stage = IF p.left > 0 THEN "storing" ELSE "getting"]
  <2>1. passes' = [passes EXCEPT ![s] = q]
    BY <1>1 DEF Onward
  <2>2. Sound(q)
    BY <1>1 DEF Sound, Listing, PassType
  <2> HIDE DEF q
  <2>3. \A t \in Slots : passes'[t] = IF t = s THEN q ELSE passes[t]
    BY <2>1
  <2>4. QED
    BY <2>2, <2>3 DEF SoundInv, Sound, Listing
<1>2. CASE ~(p.left > 0 \/ p.todo # <<>>)
  <2>1. \A t \in Slots : passes'[t] = IF t = s THEN Free ELSE passes[t]
    BY <1>2 DEF Onward
  <2>2. QED
    BY <2>1, FreeIsSound DEF SoundInv, Sound, Listing
<1>3. QED
  BY <1>1, <1>2

LEMMA SkippedIs ==
  ASSUME NEW p \in PassType, p.todo # <<>>, Listing(p)
  PROVE  /\ Skipped(p) \in PassType /\ Listing(Skipped(p))
         /\ Skipped(p).read = p.read /\ Skipped(p).at = p.at /\ Skipped(p).listed = p.listed
         /\ Skipped(p).made = p.made /\ Skipped(p).left = p.left /\ Skipped(p).agent = p.agent
         /\ Skipped(p).whole = p.whole
         /\ \A m \in DOMAIN p.todo :
              p.todo[m] = Head(p.todo) \/ \E n \in DOMAIN Skipped(p).todo : Skipped(p).todo[n] = p.todo[m]
<1>1. Skipped(p) = [p EXCEPT !.todo = Tail(p.todo)]
  BY DEF Skipped
<1>2. p.todo \in Seq(Ids) /\ Skipped(p) \in PassType
  BY PassTypeKept
<1>3. /\ Skipped(p).read = p.read /\ Skipped(p).at = p.at /\ Skipped(p).listed = p.listed
      /\ Skipped(p).made = p.made /\ Skipped(p).left = p.left /\ Skipped(p).agent = p.agent
      /\ Skipped(p).whole = p.whole /\ Skipped(p).todo = Tail(p.todo)
  BY <1>1 DEF PassType
<1>4. \A n \in DOMAIN Tail(p.todo) : n + 1 \in DOMAIN p.todo /\ Tail(p.todo)[n] = p.todo[n + 1]
  BY <1>2
<1>5. Listing(Skipped(p))
  BY <1>3, <1>4 DEF Listing
<1>6. ASSUME NEW m \in DOMAIN p.todo
      PROVE  p.todo[m] = Head(p.todo) \/ \E n \in DOMAIN Tail(p.todo) : Tail(p.todo)[n] = p.todo[m]
  <2>1. CASE m = 1
    BY <1>2, <2>1
  <2>2. CASE m # 1
    <3>1. m - 1 \in DOMAIN Tail(p.todo) /\ Tail(p.todo)[m - 1] = p.todo[m]
      BY <1>2, <2>2
    <3>2. QED
      BY <3>1
  <2>3. QED
    BY <2>1, <2>2
<1>7. QED
  BY <1>2, <1>3, <1>5, <1>6

\* A slot whose pass is replaced by a sound one.
LEMMA StaysSound ==
  ASSUME passes \in [Slots -> PassType], SoundInv, NEW s \in Slots, NEW p, Sound(p),
         passes' = [passes EXCEPT ![s] = p]
  PROVE  SoundInv'
<1>1. \A t \in Slots : passes'[t] = IF t = s THEN p ELSE passes[t]
  OBVIOUS
<1>2. \A t \in Slots : Sound(passes'[t])
  BY <1>1 DEF SoundInv
<1>3. QED
  BY <1>2 DEF SoundInv, Sound, Listing

LEMMA AnsweredIs ==
  ASSUME TypeInv, NEW s \in Slots, Answered(s)
  PROVE  \E q \in PassType :
           /\ Onward(s, q) /\ Listing(q) /\ q.at >= 1 /\ q.todo = q.listed
           /\ q.read = passes[s].read /\ q.made = passes[s].made /\ q.whole = passes[s].whole
           /\ q.agent = passes[s].agent
<1> DEFINE p == passes[s]
<1>1. p \in PassType
  BY DEF TypeInv
<1>2. PICK new \in 0..1, listed \in Lists(p) : \E w \in Instants(p, new) :
        /\ wall' = w
        /\ Onward(s, [p EXCEPT !.left = new, !.at = w, !.listed = listed, !.todo = listed])
  BY DEF Answered
<1>3. PICK w \in Instants(p, new) :
        Onward(s, [p EXCEPT !.left = new, !.at = w, !.listed = listed, !.todo = listed])
  BY <1>2
<1> HIDE DEF p
<1>4. w \in 1..MaxWall
  BY DEF Instants, TypeInv, TypeOK
<1>5. listed \in Seq(Ids) /\ \A k \in DOMAIN listed : listed[k] \in DOMAIN p.read \cup {Unheard}
  BY <1>1, ListsAre
<1> DEFINE q == [p EXCEPT !.left = new, !.at = w, !.listed = listed, !.todo = listed]
<1>6. new \in Int /\ w \in Nat /\ w >= 1
  BY <1>4, UpkeepAssumption
<1>7. q \in PassType
  BY <1>1, <1>5, <1>6 DEF PassType
<1>8. /\ q.at = w /\ q.todo = listed /\ q.listed = listed /\ q.read = p.read /\ q.made = p.made
      /\ q.whole = p.whole /\ q.agent = p.agent
  BY <1>1 DEF PassType
<1>9. Onward(s, q)
  BY <1>3
<1> HIDE DEF q
<1>10. Listing(q)
  BY <1>5, <1>8 DEF Listing
<1>11. QED
  BY <1>6, <1>7, <1>8, <1>9, <1>10 DEF p

LEMMA InsightIs ==
  ASSUME TypeInv, SoundInv, NEW s \in Slots, InsightStored(s)
  PROVE  \E q \in PassType :
           /\ Onward(s, q) /\ Listing(q) /\ q.at = passes[s].at /\ q.at >= 1
           /\ q.todo = passes[s].todo /\ q.listed = passes[s].listed
           /\ q.read = passes[s].read /\ q.whole = passes[s].whole
           /\ q.agent = passes[s].agent /\ q.made = passes[s].made + 1 /\ q.left = passes[s].left - 1
<1> DEFINE p == passes[s]
           q == [p EXCEPT !.left = p.left - 1, !.made = p.made + 1]
<1>1. p \in PassType /\ p.made \in Nat /\ p.left \in Int
  BY PassTypeKept DEF TypeInv
<1>2. Sound(p) /\ p.stage = "storing"
  BY DEF SoundInv, InsightStored
<1>3. Onward(s, q)
  BY DEF InsightStored
<1> HIDE DEF p
<1>4. p.made + 1 \in Nat /\ p.left - 1 \in Int
  BY <1>1
<1>5. q \in PassType
  BY <1>1, <1>4 DEF PassType
<1>6. /\ q.at = p.at /\ q.todo = p.todo /\ q.listed = p.listed /\ q.read = p.read
      /\ q.whole = p.whole /\ q.agent = p.agent /\ q.made = p.made + 1 /\ q.left = p.left - 1
  BY <1>1 DEF PassType
<1> HIDE DEF q
<1>7. Listing(q) /\ p.at >= 1
  BY <1>2, <1>6 DEF Listing, Sound
<1>8. QED
  BY <1>3, <1>5, <1>6, <1>7 DEF p

LEMMA NextSound == MemInv /\ [Next]_vars => SoundInv'
<1> SUFFICES ASSUME MemInv, [Next]_vars PROVE SoundInv'
  OBVIOUS
<1>0. TypeInv /\ PassInv /\ SoundInv /\ passes \in [Slots -> PassType]
  BY DEF MemInv, TypeInv
<1>1. ASSUME passes' = passes PROVE SoundInv'
  BY <1>0, <1>1 DEF SoundInv, Sound, Listing
<1>2. CASE Tick \/ Start \/ Stop
  BY <1>1, <1>2 DEF Tick, Start, Stop
<1>3. CASE Load
  <2>1. \A s \in Slots : passes'[s] = [passes[s] EXCEPT !.whole = passes[s] = Free]
    BY <1>3 DEF Load
  <2>2. \A s \in Slots : passes[s] \in PassType /\ Sound(passes[s])
    BY <1>0 DEF SoundInv
  <2>3. ASSUME NEW s \in Slots PROVE Sound(passes'[s])
    <3>1. /\ passes'[s].stage = passes[s].stage /\ passes'[s].todo = passes[s].todo
          /\ passes'[s].at = passes[s].at /\ passes'[s].made = passes[s].made
          /\ passes'[s].read = passes[s].read
      BY <2>1, <2>2 DEF PassType
    <3>2. QED
      BY <2>2, <3>1 DEF Sound, Listing
  <2>4. QED
    BY <2>3 DEF SoundInv, Sound, Listing
<1>4. CASE Restart
  <2>1. \A s \in Slots : passes'[s] = Free
    BY <1>4 DEF Restart
  <2>2. QED
    BY <2>1, FreeIsSound DEF SoundInv, Sound, Listing
<1>5. ASSUME NEW a \in Agents, WriteBegins(a) PROVE SoundInv'
  BY <1>1, <1>5 DEF WriteBegins, upkeep
<1>6. ASSUME NEW a \in Agents, RunReflection(a) PROVE SoundInv'
  <2>1. CASE MayBegin(a)
    <3>1. PICK s \in Slots : passes' = [passes EXCEPT ![s] = Begun(a)]
      BY <1>6, <2>1 DEF RunReflection
    <3>2. Sound(Begun(a))
      BY DEF Begun, Free, Sound, Listing
    <3>3. QED
      BY <1>0, <3>1, <3>2, StaysSound
  <2>2. CASE ~MayBegin(a)
    BY <1>1, <1>6, <2>2 DEF RunReflection
  <2>3. QED
    BY <2>1, <2>2
<1>7. ASSUME NEW e \in embedding, Written(e) \/ WriteFails(e) PROVE SoundInv'
  BY <1>1, <1>7 DEF Written, WriteFails, upkeep
<1>8. ASSUME NEW f \in writing, SaveEnds(f) PROVE SoundInv'
  BY <1>1, <1>8 DEF SaveEnds, upkeep
<1>9. ASSUME NEW s \in Slots, Answered(s) PROVE SoundInv'
  <2>1. PICK q \in PassType : Onward(s, q) /\ Listing(q) /\ q.at >= 1
    BY <1>0, <1>9, AnsweredIs
  <2>2. QED
    BY <1>0, <2>1, OnwardSound
<1>10. ASSUME NEW s \in Slots, Broke(s) PROVE SoundInv'
  BY <1>0, <1>10, FreeIsSound, StaysSound DEF Broke, Fails
<1>11. ASSUME NEW s \in Slots, InsightStored(s) PROVE SoundInv'
  <2>1. PICK q \in PassType : Onward(s, q) /\ Listing(q) /\ q.at >= 1
    BY <1>0, <1>11, InsightIs
  <2>2. QED
    BY <1>0, <2>1, OnwardSound
<1>12. ASSUME NEW s \in Slots, Got(s) \/ Lowered(s) PROVE SoundInv'
  <2> DEFINE p == passes[s]
             q == [p EXCEPT !.stage = "lowering", !.got = store[Head(p.todo)].importance]
  <2>1. /\ p \in PassType /\ p.todo # <<>> /\ p.at >= 1 /\ Listing(p)
    BY <1>0, <1>12 DEF SoundInv, Sound, Got, Lowered
  <2>2. Onward(s, Skipped(p)) \/ passes' = [passes EXCEPT ![s] = q]
    BY <1>12 DEF Got, Lowered
  <2>3. Sound(q)
    BY <2>1 DEF Sound, Listing, PassType
  <2> HIDE DEF p, q
  <2>4. Skipped(p) \in PassType /\ Listing(Skipped(p)) /\ Skipped(p).at >= 1
    BY <2>1, SkippedIs
  <2>5. QED
    BY <1>0, <2>2, <2>3, <2>4, OnwardSound, StaysSound
<1>13. CASE UNCHANGED vars
  BY <1>1, <1>13 DEF vars, upkeep
<1>14. QED
  BY <1>2, <1>3, <1>4, <1>5, <1>6, <1>7, <1>8, <1>9, <1>10, <1>11, <1>12, <1>13 DEF Next

LEMMA NextTypeInv == MemInv /\ [Next]_vars => TypeInv'
<1> SUFFICES ASSUME MemInv, [Next]_vars PROVE TypeInv'
  OBVIOUS
<1>0. TypeInv /\ PassInv /\ SoundInv
  BY DEF MemInv
<1>1. CASE Tick
  BY <1>0, <1>1, TickType
<1>2. CASE Start \/ Stop
  <2>1. running' \in BOOLEAN
    BY <1>2 DEF Start, Stop
  <2>2. UNCHANGED <<clock, ticks, restarts, wall, memory, asks, passes, reflecting, last, disk, history>>
    BY <1>2 DEF Start, Stop
  <2>3. QED
    BY <1>0, <2>1, <2>2 DEF memory, disk, history, TypeInv, TypeOK
<1>3. CASE Load
  BY <1>0, <1>3, LoadType
<1>4. CASE Restart
  BY <1>0, <1>4, RestartType
<1>5. ASSUME NEW a \in Agents, WriteBegins(a) PROVE TypeInv'
  <2>1. clock \in Nat
    BY <1>0, UpkeepAssumption DEF TypeInv, TypeOK
  <2>2. embedding' \subseteq [agent : Agents, stamp : Nat]
    BY <1>0, <1>5, <2>1 DEF WriteBegins, TypeInv, TypeOK
  <2>3. UNCHANGED <<clock, ticks, restarts, wall, memCounter, store, upkeep, disk, history>>
    BY <1>5 DEF WriteBegins
  <2>4. QED
    BY <1>0, <2>2, <2>3 DEF upkeep, disk, history, TypeInv, TypeOK
<1>6. ASSUME NEW a \in Agents, RunReflection(a) PROVE TypeInv'
  BY <1>0, <1>6, BeginType
<1>7. ASSUME NEW e \in embedding, Written(e) PROVE TypeInv'
  BY <1>0, <1>7, WrittenType
<1>8. ASSUME NEW e \in embedding, WriteFails(e) PROVE TypeInv'
  BY <1>0, <1>8 DEF WriteFails, upkeep, disk, history, TypeInv, TypeOK
<1>9. ASSUME NEW f \in writing, SaveEnds(f) PROVE TypeInv'
  <2>1. writing' \subseteq SaveType /\ file' \in Seq(SaveType)
    BY <1>0, <1>9 DEF SaveEnds, TypeInv
  <2>2. UNCHANGED <<clock, ticks, restarts, wall, memory, upkeep, history>>
    BY <1>9 DEF SaveEnds
  <2>3. QED
    BY <1>0, <2>1, <2>2 DEF memory, upkeep, history, TypeInv, TypeOK
<1>10. ASSUME NEW s \in Slots, Answered(s) PROVE TypeInv'
  BY <1>0, <1>10, AnsweredType
<1>11. ASSUME NEW s \in Slots, Broke(s) PROVE TypeInv'
  BY <1>0, <1>11, BrokeType
<1>12. ASSUME NEW s \in Slots, InsightStored(s) PROVE TypeInv'
  BY <1>0, <1>12, InsightType
<1>13. ASSUME NEW s \in Slots, Got(s) PROVE TypeInv'
  BY <1>0, <1>13, GotType DEF SoundInv, Sound, Got
<1>14. ASSUME NEW s \in Slots, Lowered(s) PROVE TypeInv'
  BY <1>0, <1>14, LoweredType DEF SoundInv, Sound, Lowered
<1>15. CASE UNCHANGED vars
  BY <1>0, <1>15 DEF vars, memory, upkeep, disk, history, TypeInv, TypeOK
<1>16. QED
  BY <1>1, <1>2, <1>3, <1>4, <1>5, <1>6, <1>7, <1>8, <1>9, <1>10, <1>11, <1>12, <1>13, <1>14, <1>15
     DEF Next

LEMMA MemInvInit == Init => MemInv
<1>1. Init => SoundInv
  BY FreeIsSound DEF Init, SoundInv, Sound, Listing
<1>2. QED
  BY <1>1, InitTypeInv, PassInvInit DEF MemInv

LEMMA MemInvNext == MemInv /\ [Next]_vars => MemInv'
BY NextTypeInv, NextSound, PassInvNext DEF MemInv

\* Nodes, saves, passes and times keep their types (MemoryNode,
\* ReflectionResult), whatever the model lists and whatever is loaded.
THEOREM UpkeepTypeCorrect == Spec => []TypeOK
<1>1. MemInv => TypeOK
  BY DEF MemInv, TypeInv
<1>2. QED
  BY <1>1, MemInvInit, MemInvNext, PTL DEF Spec

-----------------------------------------------------------------------------
(* Ids.  There is a time, that of the save the process began with, which   *)
(* divides the memories it found from those it has written: what it found  *)
(* is of an earlier time, what it has written of a lower number than       *)
(* memCounter, and what is being written of no earlier time.  All of its   *)
(* saves are like its store.  For a new process to find such a time, a     *)
(* save holds nothing as late as its clock; a load in between takes the    *)
(* clock back, and with it this is lost.                                   *)

SavedNow == writing \cup (IF file = <<>> THEN {} ELSE {file[1]})

Split(nodes, b) == \A i \in DOMAIN nodes : i.by # Llm => i.at < b \/ i.n < memCounter
Earlier(nodes, t) == \A i \in DOMAIN nodes : i.by # Llm => i.at < t

Divides(b) ==
  /\ b <= clock /\ Split(store, b)
  /\ \A e \in embedding : b <= e.stamp
  /\ \A f \in SavedNow : b <= f.clock /\ Split(f.store, b)

InOrder ==
  /\ Earlier(store, clock + 1)
  /\ \A e \in embedding : e.stamp <= clock
  /\ \A f \in SavedNow : Earlier(f.store, f.clock)

IdInv ==
  /\ reloaded # "before" => \E b \in Nat : Divides(b)
  /\ reloaded = "never" => InOrder

LEMMA ClockType == TypeInv => clock \in Nat /\ memCounter \in Nat
BY UpkeepAssumption DEF TypeInv, TypeOK

LEMMA SavedTypes ==
  ASSUME TypeInv, NEW f \in SavedNow
  PROVE  f \in SaveType /\ f.clock \in Nat /\ f.store \in Maps(Nodes)
<1>1. f \in SaveType
  BY RestoredType DEF SavedNow, TypeInv
<1>2. QED
  BY <1>1, UpkeepAssumption DEF SaveType

LEMMA IdsAre ==
  ASSUME NEW i \in Ids
  PROVE  i.at \in Nat /\ i.n \in Nat
BY DEF Ids

LEMMA NodeIds ==
  ASSUME NEW m \in Maps(Nodes), NEW i \in DOMAIN m
  PROVE  i.at \in Nat /\ i.n \in Nat
BY NodesAre, IdsAre

\* Of the steps that leave memories, writers and saves alone.
LEMMA IdsStay ==
  ASSUME IdInv, UNCHANGED <<clock, memCounter, embedding, writing, file, reloaded>>,
         DOMAIN store' = DOMAIN store
  PROVE  IdInv'
<1>1. SavedNow' = SavedNow
  BY DEF SavedNow
<1>2. \A b : Divides(b) => Divides(b)'
  BY <1>1 DEF Divides, Split
<1>3. InOrder => InOrder'
  BY <1>1 DEF InOrder, Earlier
<1>4. QED
  BY <1>2, <1>3 DEF IdInv

LEMMA TickIds ==
  ASSUME MemInv, IdInv, Tick
  PROVE  IdInv'
<1> DEFINE f == [clock |-> clock', store |-> store]
<1>1. clock' = clock + 1 /\ UNCHANGED <<memCounter, store, embedding, reloaded>> /\ clock \in Nat
  BY ClockType DEF Tick, memory, history, MemInv
<1>2. f.clock = clock' /\ f.store = store
  OBVIOUS
<1>3. SavedNow' \subseteq SavedNow \cup {f}
  BY DEF Tick, disk, SavedNow
<1> HIDE DEF f
<1>4. \A b \in Nat : Divides(b) => Divides(b)'
  BY <1>1, <1>2, <1>3 DEF Divides, Split
<1>5. ASSUME InOrder PROVE InOrder'
  <2>1. \A i \in DOMAIN store : i.at \in Nat
    BY NodeIds DEF MemInv, TypeInv
  <2>2. Earlier(store, (clock + 1) + 1) /\ Earlier(f.store, f.clock)
    BY <1>1, <1>2, <1>5, <2>1 DEF InOrder, Earlier
  <2>3. \A e \in embedding : e.stamp <= clock + 1
    BY <1>1, <1>5 DEF InOrder, MemInv, TypeInv, TypeOK
  <2>4. QED
    BY <1>1, <1>3, <1>5, <2>2, <2>3 DEF InOrder, Earlier
<1>6. QED
  BY <1>1, <1>4, <1>5 DEF IdInv

LEMMA WritesIds ==
  ASSUME MemInv, IdInv, NEW a \in Agents, WriteBegins(a)
  PROVE  IdInv'
<1> DEFINE e == [agent |-> a, stamp |-> clock]
<1>1. UNCHANGED <<clock, memCounter, store, writing, file, reloaded>> /\ clock \in Nat
  BY ClockType DEF WriteBegins, disk, history, MemInv
<1>2. embedding' = embedding \cup {e} /\ e.stamp = clock
  BY DEF WriteBegins
<1> HIDE DEF e
<1>3. SavedNow' = SavedNow
  BY <1>1 DEF SavedNow
<1>4. \A b \in Nat : Divides(b) => Divides(b)'
  BY <1>1, <1>2, <1>3 DEF Divides, Split
<1>5. InOrder => InOrder'
  BY <1>1, <1>2, <1>3 DEF InOrder, Earlier
<1>6. QED
  BY <1>1, <1>4, <1>5 DEF IdInv

LEMMA WrittenIds ==
  ASSUME MemInv, IdInv, NEW e \in embedding, Written(e)
  PROVE  IdInv'
<1>1. /\ UNCHANGED <<clock, writing, file, reloaded>> /\ clock \in Nat /\ memCounter \in Nat
      /\ memCounter' = memCounter + 1 /\ embedding' \subseteq embedding
  BY ClockType DEF Written, disk, MemInv
<1>2. DOMAIN store' = DOMAIN store \cup {NewId(e)}
  BY DEF Written, Put
<1>3. NewId(e).n = memCounter /\ NewId(e).at = e.stamp
  BY DEF NewId
<1>4. SavedNow' = SavedNow
  BY <1>1 DEF SavedNow
<1>5. \A i \in DOMAIN store' : i.n \in Nat /\ i.at \in Nat
  <2>1. TypeInv'
    BY WrittenType DEF MemInv
  <2>2. store' \in Maps(Nodes)
    BY <2>1 DEF TypeInv
  <2>3. QED
    BY <2>2, NodeIds
<1>6. \A f \in SavedNow : \A i \in DOMAIN f.store : i.n \in Nat
  BY SavedTypes, NodeIds DEF MemInv
<1>7. \A b \in Nat : Divides(b) => Divides(b)'
  BY <1>1, <1>2, <1>3, <1>4, <1>5, <1>6 DEF Divides, Split
<1>8. InOrder => InOrder'
  <2>1. e.stamp \in Nat
    BY DEF MemInv, TypeInv, TypeOK
  <2>2. QED
    BY <1>1, <1>2, <1>3, <1>4, <1>5, <2>1 DEF InOrder, Earlier
<1>9. QED
  BY <1>1, <1>7, <1>8 DEF IdInv

LEMMA WriteFailsIds ==
  ASSUME IdInv, NEW e \in embedding, WriteFails(e)
  PROVE  IdInv'
<1>1. UNCHANGED <<clock, memCounter, store, writing, file, reloaded>> /\ embedding' \subseteq embedding
  BY DEF WriteFails, disk, history
<1>2. SavedNow' = SavedNow
  BY <1>1 DEF SavedNow
<1>3. QED
  BY <1>1, <1>2 DEF IdInv, Divides, Split, InOrder, Earlier

LEMMA SaveIds ==
  ASSUME IdInv, NEW f \in writing, SaveEnds(f)
  PROVE  IdInv'
<1>1. UNCHANGED <<clock, memCounter, store, embedding, reloaded>>
  BY DEF SaveEnds, memory, history
<1>2. SavedNow' \subseteq SavedNow
  BY DEF SaveEnds, SavedNow
<1>3. QED
  BY <1>1, <1>2 DEF IdInv, Divides, Split, InOrder, Earlier

LEMMA InsightIds ==
  ASSUME IdInv, NEW s \in Slots, InsightStored(s)
  PROVE  IdInv'
<1>1. UNCHANGED <<clock, memCounter, embedding, writing, file, reloaded>>
  BY DEF InsightStored, disk
<1>2. DOMAIN store' = DOMAIN store \cup {InsightId(passes[s])} /\ InsightId(passes[s]).by = Llm
  BY DEF InsightStored, Put, InsightId
<1>3. SavedNow' = SavedNow
  BY <1>1 DEF SavedNow
<1>4. \A b : Divides(b) => Divides(b)'
  BY <1>1, <1>2, <1>3 DEF Divides, Split
<1>5. InOrder => InOrder'
  BY <1>1, <1>2, <1>3 DEF InOrder, Earlier
<1>6. QED
  BY <1>1, <1>4, <1>5 DEF IdInv

LEMMA LoadIds ==
  ASSUME MemInv, IdInv, Load
  PROVE  IdInv'
<1>1. /\ UNCHANGED <<memCounter, embedding, writing, file>> /\ reloaded' = "here" /\ reloaded = "never"
      /\ file # <<>> /\ store' = file[1].store /\ clock' = file[1].clock
  BY DEF Load, Restored, disk
<1>2. file[1] \in SavedNow /\ SavedNow' = SavedNow
  BY <1>1 DEF SavedNow
<1>3. \A b \in Nat : Divides(b) => Divides(b)'
  BY <1>1, <1>2 DEF Divides, Split
<1>4. QED
  BY <1>1, <1>3 DEF IdInv

LEMMA RestartIds ==
  ASSUME MemInv, IdInv, Restart
  PROVE  IdInv'
<1>1. reloaded' = (IF reloaded = "never" THEN "never" ELSE "before") /\ embedding' = {} /\ writing' = {}
  BY DEF Restart
<1>2. CASE reloaded # "never"
  BY <1>1, <1>2 DEF IdInv
<1>3. CASE reloaded = "never" /\ writing = {} /\ file # <<>>
  <2>1. store' = file[1].store /\ clock' = file[1].clock /\ file' = file
    BY <1>3 DEF Restart, Restored
  <2>2. file[1] \in SavedNow /\ SavedNow' = {file[1]}
    BY <1>1, <1>3, <2>1 DEF SavedNow
  <2>3. clock' \in Nat
    BY <2>1, <2>2, SavedTypes DEF MemInv
  <2>4. Earlier(store', clock')
    BY <1>3, <2>1, <2>2 DEF IdInv, InOrder
  <2>5. PICK b \in Nat : b = clock'
    BY <2>3
  <2>6. Divides(b)'
    BY <1>1, <2>1, <2>2, <2>3, <2>4, <2>5 DEF Divides, Split, Earlier
  <2>7. InOrder'
    <3>1. \A i \in DOMAIN store' : i.at \in Nat
      BY <2>1, <2>2, SavedTypes, NodeIds DEF MemInv
    <3>2. Earlier(store', clock' + 1)
      BY <2>3, <2>4, <3>1 DEF Earlier
    <3>3. QED
      BY <1>1, <2>1, <2>2, <2>4, <3>2 DEF InOrder, Earlier
  <2>8. QED
    BY <2>6, <2>7 DEF IdInv
<1>4. CASE reloaded = "never" /\ ~(writing = {} /\ file # <<>>)
  <2>1. store' = Empty /\ clock' = 0 /\ file' = <<>>
    BY <1>4 DEF Restart
  <2>2. SavedNow' = {} /\ DOMAIN store' = {}
    BY <1>1, <2>1 DEF SavedNow, Empty
  <2>3. Divides(0)' /\ InOrder'
    BY <1>1, <2>1, <2>2 DEF Divides, Split, InOrder, Earlier
  <2>4. QED
    BY <2>3 DEF IdInv
<1>5. QED
  BY <1>2, <1>3, <1>4

LEMMA NextIds == MemInv /\ IdInv /\ [Next]_vars => IdInv'
<1> SUFFICES ASSUME MemInv, IdInv, [Next]_vars PROVE IdInv'
  OBVIOUS
<1>1. CASE Tick
  BY <1>1, TickIds
<1>2. CASE Start \/ Stop
  BY <1>2, IdsStay DEF Start, Stop, memory, disk, history
<1>3. CASE Load
  BY <1>3, LoadIds
<1>4. CASE Restart
  BY <1>4, RestartIds
<1>5. ASSUME NEW a \in Agents, WriteBegins(a) PROVE IdInv'
  BY <1>5, WritesIds
<1>6. ASSUME NEW a \in Agents, RunReflection(a) PROVE IdInv'
  BY <1>6, IdsStay DEF RunReflection, memory, disk, history
<1>7. ASSUME NEW e \in embedding, Written(e) PROVE IdInv'
  BY <1>7, WrittenIds
<1>8. ASSUME NEW e \in embedding, WriteFails(e) PROVE IdInv'
  BY <1>8, WriteFailsIds
<1>9. ASSUME NEW f \in writing, SaveEnds(f) PROVE IdInv'
  BY <1>9, SaveIds
<1>10. ASSUME NEW s \in Slots, Answered(s) \/ Broke(s) \/ Got(s) PROVE IdInv'
  BY <1>10, IdsStay DEF Answered, Broke, Got, memory, disk, history
<1>11. ASSUME NEW s \in Slots, InsightStored(s) PROVE IdInv'
  BY <1>11, InsightIds
<1>12. ASSUME NEW s \in Slots, Lowered(s) PROVE IdInv'
  <2>1. DOMAIN store' = DOMAIN store
    BY <1>12 DEF Lowered
  <2>2. QED
    BY <1>12, <2>1, IdsStay DEF Lowered, disk, history
<1>13. CASE UNCHANGED vars
  BY <1>13, IdsStay DEF vars, memory, disk, history
<1>14. QED
  BY <1>1, <1>2, <1>3, <1>4, <1>5, <1>6, <1>7, <1>8, <1>9, <1>10, <1>11, <1>12, <1>13 DEF Next

LEMMA InitIds == Init => IdInv
<1> SUFFICES ASSUME Init PROVE IdInv
  OBVIOUS
<1>1. SavedNow = {} /\ DOMAIN store = {} /\ embedding = {} /\ clock = 0
  BY DEF Init, SavedNow, Empty
<1>2. Divides(0) /\ InOrder
  BY <1>1 DEF Divides, Split, InOrder, Earlier
<1>3. QED
  BY <1>2 DEF IdInv

\* A memory that is written replaces no other (MemoryStoreImpl.store), in any
\* number of processes one after the other, until one begins after a load into
\* a running one.
THEOREM WrittenIdsAreFresh == Spec => []FreshIds
<1>1. MemInv /\ IdInv => FreshIds
  <2> SUFFICES ASSUME MemInv, IdInv, reloaded # "before", NEW e \in embedding, NewId(e) \in DOMAIN store
               PROVE  FALSE
    BY DEF FreshIds
  <2>1. PICK b \in Nat : Divides(b)
    BY DEF IdInv
  <2>2. e.agent \in Agents /\ e.stamp \in Nat /\ memCounter \in Nat
    BY DEF MemInv, TypeInv, TypeOK
  <2>3. NewId(e).by # Llm /\ NewId(e).at = e.stamp /\ NewId(e).n = memCounter
    BY <2>2, UpkeepAssumption DEF NewId
  <2>4. e.stamp < b \/ memCounter < memCounter
    BY <2>1, <2>3 DEF Divides, Split
  <2>5. b <= e.stamp
    BY <2>1 DEF Divides
  <2>6. QED
    BY <2>2, <2>4, <2>5
<1>2. QED
  BY <1>1, MemInvInit, MemInvNext, InitIds, NextIds, PTL DEF Spec

-----------------------------------------------------------------------------
(* A pass that sets the reflection time has done its work.  While it lasts *)
(* nobody else rates what it has read: an id that was given to one memory  *)
(* is of the agent who wrote it, and an agent has one pass.                *)

Backed(st, wh) == \A i \in DOMAIN st : i \in DOMAIN wh /\ (wh[i] # Llm => st[i].agent = wh[i])
OwnRead(p, wh) == \A i \in DOMAIN p.read : i \in DOMAIN wh /\ (wh[i] # Llm => wh[i] = p.agent)
Grown(wh, wh2) == \A i \in DOMAIN wh : i \in DOMAIN wh2 /\ (wh2[i] # Llm => wh2[i] = wh[i])

OwnInv ==
  /\ Unheard \notin DOMAIN whose
  /\ Backed(store, whose)
  /\ \A f \in SavedNow : Backed(f.store, whose)
  /\ \A s \in Slots : OwnRead(passes[s], whose)

\* What a pass has read and is still one memory.
Concerns(p, wh) == {i \in DOMAIN p.read : wh[i] # Llm}

Done(p, st, wh) ==
  /\ \A i \in Concerns(p, wh) : i \in DOMAIN st /\ st[i].importance <= p.read[i]
  /\ \A k \in DOMAIN p.listed : p.listed[k] \in Concerns(p, wh) =>
       \/ \E m \in DOMAIN p.todo : p.todo[m] = p.listed[k]
       \/ st[p.listed[k]].importance <= Halved(p.read[p.listed[k]])
  /\ p.made > 0 => [by |-> Llm, at |-> p.at, n |-> 0] \in DOMAIN st

Staged(p, wh) ==
  /\ p.stage = "lowering" /\ Head(p.todo) \in Concerns(p, wh) => p.got <= p.read[Head(p.todo)]
  /\ p.stage \in {"getting", "lowering"} => p.left <= 0

Worked(p, st, wh) == p.whole => Done(p, st, wh) /\ Staged(p, wh)

WorkInv == \A s \in Slots : Worked(passes[s], store, whose)

\* Nodes only get lighter for a pass.
Lightens(p, st, st2, wh2) ==
  /\ DOMAIN st \subseteq DOMAIN st2
  /\ \A i \in Concerns(p, wh2) : i \in DOMAIN st => st2[i].importance <= st[i].importance

LEMMA ImportanceType ==
  ASSUME NEW st \in Maps(Nodes), NEW i \in DOMAIN st
  PROVE  st[i].importance \in 1..10
BY NodesAre

LEMMA ReadType ==
  ASSUME NEW p \in PassType, NEW i \in DOMAIN p.read
  PROVE  p.read[i] \in 1..10 /\ Halved(p.read[i]) \in 1..10
<1>1. p.read \in Maps(1..10)
  BY PassTypeKept
<1>2. p.read[i] \in 1..10
  BY <1>1, MapsAre
<1>3. QED
  BY <1>2, HalvedIs

LEMMA Lighter ==
  ASSUME NEW p \in PassType, NEW st \in Maps(Nodes), NEW st2 \in Maps(Nodes), NEW wh, NEW wh2,
         OwnRead(p, wh), Grown(wh, wh2), Lightens(p, st, st2, wh2), Worked(p, st, wh)
  PROVE  Worked(p, st2, wh2)
<1> SUFFICES ASSUME p.whole PROVE Done(p, st2, wh2) /\ Staged(p, wh2)
  BY DEF Worked
<1>0. Done(p, st, wh) /\ Staged(p, wh)
  BY DEF Worked
<1>1. Concerns(p, wh2) \subseteq Concerns(p, wh)
  BY DEF Concerns, OwnRead, Grown
<1>2. \A i \in Concerns(p, wh2) : i \in DOMAIN p.read /\ i \in DOMAIN st /\ i \in DOMAIN st2
  BY <1>0, <1>1 DEF Done, Lightens, Concerns
<1>3. ASSUME NEW i \in Concerns(p, wh2)
      PROVE  /\ st2[i].importance <= p.read[i]
             /\ st[i].importance <= Halved(p.read[i]) => st2[i].importance <= Halved(p.read[i])
  <2>1. st[i].importance \in 1..10 /\ st2[i].importance \in 1..10
    BY <1>2, ImportanceType
  <2>2. p.read[i] \in 1..10 /\ Halved(p.read[i]) \in 1..10
    BY <1>2, ReadType
  <2>3. st2[i].importance <= st[i].importance /\ st[i].importance <= p.read[i]
    BY <1>0, <1>1, <1>2 DEF Lightens, Done
  <2>4. QED
    BY <2>1, <2>2, <2>3
<1>4. Done(p, st2, wh2)
  BY <1>0, <1>1, <1>2, <1>3 DEF Done, Lightens
<1>5. Staged(p, wh2)
  BY <1>0, <1>1 DEF Staged
<1>6. QED
  BY <1>4, <1>5

LEMMA FreeWorked == \A st, wh : Worked(Free, st, wh) /\ OwnRead(Free, wh)
BY DEF Worked, Done, Staged, Concerns, OwnRead, Free, Empty

\* Passes that differ in what they do next only.
Same(p, q) ==
  /\ p.agent = q.agent /\ p.read = q.read /\ p.listed = q.listed /\ p.todo = q.todo
  /\ p.at = q.at /\ p.made = q.made /\ p.left = q.left /\ p.whole = q.whole

LEMMA OnwardIs ==
  ASSUME passes \in [Slots -> PassType], NEW s \in Slots, NEW q \in PassType, Onward(s, q)
  PROVE  /\ \A t \in Slots \ {s} : passes'[t] = passes[t]
         /\ \/ passes'[s] = Free /\ q.left <= 0 /\ q.todo = <<>>
            \/ /\ Same(passes'[s], q) /\ passes'[s].stage \in {"storing", "getting"}
               /\ passes'[s].stage = "getting" => passes'[s].left <= 0
<1>1. q.left \in Int
  BY PassTypeKept
<1>2. CASE q.left > 0 \/ q.todo # <<>>
  <2> DEFINE r == [q EXCEPT !.stage = IF q.left > 0 THEN "storing" ELSE "getting"]
  <2>1. passes' = [passes EXCEPT ![s] = r]
    BY <1>2 DEF Onward
  <2>2. Same(r, q) /\ r.stage \in {"storing", "getting"} /\ (r.stage = "getting" => r.left <= 0)
    BY <1>1 DEF Same, PassType
  <2> HIDE DEF r
  <2>3. passes'[s] = r /\ \A t \in Slots \ {s} : passes'[t] = passes[t]
    BY <2>1
  <2>4. QED
    BY <2>2, <2>3
<1>3. CASE ~(q.left > 0 \/ q.todo # <<>>)
  <2>1. passes' = [passes EXCEPT ![s] = Free]
    BY <1>3 DEF Onward
  <2>2. QED
    BY <1>1, <1>3, <2>1
<1>4. QED
  BY <1>2, <1>3

LEMMA OnwardWorked ==
  ASSUME passes \in [Slots -> PassType], NEW s \in Slots, NEW q \in PassType, Onward(s, q),
         NEW st, NEW wh, OwnRead(q, wh), q.whole => Done(q, st, wh)
  PROVE  Worked(passes'[s], st, wh) /\ OwnRead(passes'[s], wh)
<1>1. CASE passes'[s] = Free
  BY <1>1, FreeWorked
<1>2. CASE /\ Same(passes'[s], q) /\ passes'[s].stage \in {"storing", "getting"}
           /\ passes'[s].stage = "getting" => passes'[s].left <= 0
  BY <1>2 DEF Same, Worked, Done, Staged, Concerns, OwnRead
<1>3. QED
  BY <1>1, <1>2, OnwardIs

LEMMA PutLightens ==
  ASSUME TypeInv, NEW p \in PassType, OwnRead(p, whose), NEW i \in Ids, NEW v \in Nodes,
         store' = Put(store, i, v), whose' = Given(i, v.agent)
  PROVE  Lightens(p, store, store', whose') /\ Grown(whose, whose')
<1>1. /\ DOMAIN store' = DOMAIN store \cup {i}
      /\ \A j \in DOMAIN store \cup {i} : store'[j] = IF j = i THEN v ELSE store[j]
  BY DEF Put
<1>2. /\ DOMAIN whose' = DOMAIN whose \cup {i}
      /\ \A j \in DOMAIN whose : whose'[j] = IF j = i THEN Llm ELSE whose[j]
  BY DEF Given, Put
<1>3. Grown(whose, whose')
  BY <1>2 DEF Grown
<1>4. \A j \in Concerns(p, whose') : j # i
  BY <1>2 DEF Concerns, OwnRead
<1>5. \A j \in DOMAIN store : store[j].importance \in 1..10
  BY ImportanceType DEF TypeInv
<1>6. QED
  BY <1>1, <1>3, <1>4, <1>5 DEF Lightens

\* A node that is put is of the agent the id was given to.
LEMMA PutBacked ==
  ASSUME TypeInv, NEW i, NEW v \in Nodes, i # Unheard, OwnInv,
         store' = Put(store, i, v), whose' = Given(i, v.agent)
  PROVE  Backed(store', whose') /\ Unheard \notin DOMAIN whose' /\ Grown(whose, whose')
<1>1. /\ DOMAIN store' = DOMAIN store \cup {i}
      /\ \A j \in DOMAIN store \cup {i} : store'[j] = IF j = i THEN v ELSE store[j]
  BY DEF Put
<1>2. /\ DOMAIN whose' = DOMAIN whose \cup {i}
      /\ \A j \in DOMAIN whose : whose'[j] = IF j = i THEN Llm ELSE whose[j]
      /\ i \notin DOMAIN whose => whose'[i] = v.agent
  BY DEF Given, Put
<1>3. Grown(whose, whose')
  BY <1>2 DEF Grown
<1>4. Backed(store', whose')
  BY <1>1, <1>2 DEF Backed, OwnInv
<1>5. QED
  BY <1>2, <1>3, <1>4 DEF OwnInv

\* Who owns what stays so while ids change hands to nobody.
LEMMA OwnsStill ==
  ASSUME OwnInv, Grown(whose, whose'), Backed(store', whose'), Unheard \notin DOMAIN whose',
         \A f \in SavedNow' : f \in SavedNow \/ Backed(f.store, whose'),
         \A s \in Slots : OwnRead(passes'[s], whose) \/ OwnRead(passes'[s], whose')
  PROVE  OwnInv'
<1>1. \A f : Backed(f.store, whose) => Backed(f.store, whose')
  BY DEF Backed, Grown
<1>2. \A p : OwnRead(p, whose) => OwnRead(p, whose')
  BY DEF OwnRead, Grown
<1>3. \A f \in SavedNow' : Backed(f.store, whose')
  BY <1>1 DEF OwnInv
<1>4. \A s \in Slots : OwnRead(passes'[s], whose')
  BY <1>2
<1>5. QED
  BY <1>3, <1>4 DEF OwnInv, Backed, OwnRead

LEMMA SameGrown == Grown(whose, whose)
BY DEF Grown

\* Of the steps that leave the ids, the saves and the passes alone.
LEMMA WorkStays ==
  ASSUME MemInv, OwnInv, WorkInv, UNCHANGED <<store, whose, passes, writing, file>>
  PROVE  OwnInv' /\ WorkInv'
<1>1. SavedNow' = SavedNow
  BY DEF SavedNow
<1>2. QED
  BY <1>1 DEF OwnInv, Backed, OwnRead, WorkInv, Worked, Done, Staged, Concerns

LEMMA TickWork ==
  ASSUME MemInv, OwnInv, WorkInv, Tick
  PROVE  OwnInv' /\ WorkInv'
<1> DEFINE f == [clock |-> clock', store |-> store]
<1>1. UNCHANGED <<store, whose, passes>>
  BY DEF Tick, memory, history
<1>2. f.store = store /\ SavedNow' \subseteq SavedNow \cup {f}
  BY DEF Tick, disk, SavedNow
<1> HIDE DEF f
<1>3. OwnInv'
  BY <1>1, <1>2 DEF OwnInv, Backed, OwnRead
<1>4. WorkInv'
  BY <1>1 DEF WorkInv, Worked, Done, Staged, Concerns
<1>5. QED
  BY <1>3, <1>4

LEMMA SaveWork ==
  ASSUME MemInv, OwnInv, WorkInv, NEW f \in writing, SaveEnds(f)
  PROVE  OwnInv' /\ WorkInv'
<1>1. UNCHANGED <<store, whose, passes>>
  BY DEF SaveEnds, memory, upkeep, history
<1>2. SavedNow' \subseteq SavedNow
  BY DEF SaveEnds, SavedNow
<1>3. OwnInv'
  BY <1>1, <1>2 DEF OwnInv, Backed, OwnRead
<1>4. WorkInv'
  BY <1>1 DEF WorkInv, Worked, Done, Staged, Concerns
<1>5. QED
  BY <1>3, <1>4

LEMMA WrittenWork ==
  ASSUME MemInv, OwnInv, WorkInv, NEW e \in embedding, Written(e)
  PROVE  OwnInv' /\ WorkInv'
<1>1. UNCHANGED <<passes, writing, file>>
  BY DEF Written, upkeep, disk
<1>2. PICK imp \in Importances :
        store' = Put(store, NewId(e), [agent |-> e.agent, stamp |-> e.stamp, importance |-> imp])
  BY DEF Written
<1> DEFINE v == [agent |-> e.agent, stamp |-> e.stamp, importance |-> imp]
<1>3. e.agent \in Agents /\ e.stamp \in Nat /\ memCounter \in Nat
  BY DEF MemInv, TypeInv, TypeOK
<1>4. v \in Nodes /\ v.agent = e.agent
  BY <1>3, UpkeepAssumption DEF Nodes
<1>5. NewId(e) \in Ids /\ NewId(e).by # Llm
  BY <1>3, UpkeepAssumption DEF NewId, Ids
<1>6. NewId(e) # Unheard
  BY <1>5 DEF Unheard
<1>7. store' = Put(store, NewId(e), v) /\ whose' = Given(NewId(e), v.agent)
  BY <1>2, <1>4 DEF Written
<1> HIDE DEF v
<1>8. Backed(store', whose') /\ Unheard \notin DOMAIN whose' /\ Grown(whose, whose')
  BY <1>4, <1>6, <1>7, PutBacked DEF MemInv
<1>9. SavedNow' = SavedNow
  BY <1>1 DEF SavedNow
<1>10. OwnInv'
  BY <1>1, <1>8, <1>9, OwnsStill DEF OwnInv
<1>11. TypeInv'
  BY WrittenType DEF MemInv
<1>12. ASSUME NEW s \in Slots PROVE Worked(passes[s], store', whose')
  <2>1. /\ passes[s] \in PassType /\ OwnRead(passes[s], whose) /\ Worked(passes[s], store, whose)
        /\ store \in Maps(Nodes) /\ store' \in Maps(Nodes)
    BY <1>11 DEF MemInv, TypeInv, OwnInv, WorkInv
  <2>2. Lightens(passes[s], store, store', whose')
    BY <1>4, <1>5, <1>7, <2>1, PutLightens DEF MemInv
  <2>3. QED
    BY <1>8, <2>1, <2>2, Lighter
<1>13. WorkInv'
  BY <1>1, <1>12 DEF WorkInv, Worked, Done, Staged, Concerns
<1>14. QED
  BY <1>10, <1>13

LEMMA BeginWork ==
  ASSUME MemInv, OwnInv, WorkInv, NEW a \in Agents, RunReflection(a)
  PROVE  OwnInv' /\ WorkInv'
<1>1. UNCHANGED <<store, whose, writing, file>>
  BY DEF RunReflection, memory, disk, history
<1>2. CASE ~MayBegin(a)
  <2>1. UNCHANGED passes
    BY <1>2 DEF RunReflection
  <2>2. QED
    BY <1>1, <2>1, WorkStays
<1>3. CASE MayBegin(a)
  <2>1. PICK s \in Slots : passes' = [passes EXCEPT ![s] = Begun(a)]
    BY <1>3 DEF RunReflection
  <2>2. \A t \in Slots : passes'[t] = IF t = s THEN Begun(a) ELSE passes[t]
    BY <2>1 DEF MemInv, TypeInv
  <2>3. /\ Begun(a).read = [i \in Owned(a) |-> store[i].importance] /\ Begun(a).agent = a
        /\ Begun(a).listed = <<>> /\ Begun(a).made = 0 /\ Begun(a).stage = "thinking"
    BY DEF Begun, Free
  <2>4. \A i \in DOMAIN store : store[i].importance \in 1..10
    BY ImportanceType DEF MemInv, TypeInv
  <2>5. OwnRead(Begun(a), whose)
    BY <2>3 DEF OwnRead, OwnInv, Backed, Owned
  <2>6. Worked(Begun(a), store, whose)
    BY <2>3, <2>4 DEF Worked, Done, Staged, Concerns, Owned
  <2>7. \A t \in Slots : OwnRead(passes'[t], whose) /\ Worked(passes'[t], store, whose)
    BY <2>2, <2>5, <2>6 DEF OwnInv, WorkInv
  <2>8. SavedNow' = SavedNow
    BY <1>1 DEF SavedNow
  <2>9. OwnInv'
    BY <1>1, <2>7, <2>8 DEF OwnInv, Backed, OwnRead
  <2>10. WorkInv'
    BY <1>1, <2>7 DEF WorkInv, Worked, Done, Staged, Concerns
  <2>11. QED
    BY <2>9, <2>10
<1>4. QED
  BY <1>2, <1>3

LEMMA LoadWork ==
  ASSUME MemInv, OwnInv, WorkInv, Load
  PROVE  OwnInv' /\ WorkInv'
<1>1. UNCHANGED <<whose, writing, file>> /\ file # <<>> /\ store' = file[1].store
  BY DEF Load, Restored, disk
<1>2. SavedNow' = SavedNow /\ file[1] \in SavedNow
  BY <1>1 DEF SavedNow
<1>3. ASSUME NEW s \in Slots
      PROVE  OwnRead(passes'[s], whose) /\ Worked(passes'[s], store', whose)
  <2>1. passes[s] \in PassType /\ OwnRead(passes[s], whose)
    BY DEF MemInv, TypeInv, OwnInv
  <2>2. passes'[s] = [passes[s] EXCEPT !.whole = passes[s] = Free]
    BY DEF Load
  <2>3. CASE passes[s] = Free
    <3>1. passes'[s].read = Free.read /\ passes'[s].listed = Free.listed
          /\ passes'[s].made = Free.made /\ passes'[s].stage = Free.stage
      BY <2>1, <2>2, <2>3 DEF PassType
    <3>2. QED
      BY <3>1 DEF Free, Empty, OwnRead, Worked, Done, Staged, Concerns
  <2>4. CASE passes[s] # Free
    <3>1. passes'[s].read = passes[s].read /\ passes'[s].agent = passes[s].agent /\ ~passes'[s].whole
      BY <2>1, <2>2, <2>4 DEF PassType
    <3>2. QED
      BY <2>1, <3>1 DEF OwnRead, Worked
  <2>5. QED
    BY <2>3, <2>4
<1>4. OwnInv'
  BY <1>1, <1>2, <1>3 DEF OwnInv, Backed, OwnRead
<1>5. WorkInv'
  BY <1>1, <1>3 DEF WorkInv, Worked, Done, Staged, Concerns
<1>6. QED
  BY <1>4, <1>5

LEMMA RestartWork ==
  ASSUME MemInv, OwnInv, WorkInv, Restart
  PROVE  OwnInv' /\ WorkInv'
<1>1. /\ writing' = {} /\ whose' = [i \in DOMAIN whose \cap DOMAIN store' |-> whose[i]]
      /\ \A s \in Slots : passes'[s] = Free
  BY DEF Restart
<1>2. \A s \in Slots : OwnRead(passes'[s], whose') /\ Worked(passes'[s], store', whose')
  BY <1>1, FreeWorked
<1>3. Backed(store', whose') /\ \A f \in SavedNow' : Backed(f.store, whose')
  <2>1. CASE writing = {} /\ file # <<>>
    <3>1. store' = file[1].store /\ file' = file
      BY <2>1 DEF Restart, Restored
    <3>2. file[1] \in SavedNow /\ SavedNow' = {file[1]}
      BY <1>1, <2>1, <3>1 DEF SavedNow
    <3>3. Backed(store', whose)
      BY <3>1, <3>2 DEF OwnInv
    <3>4. Backed(store', whose')
      BY <1>1, <3>3 DEF Backed
    <3>5. QED
      BY <3>1, <3>2, <3>4
  <2>2. CASE ~(writing = {} /\ file # <<>>)
    <3>1. DOMAIN store' = {} /\ file' = <<>>
      BY <2>2 DEF Restart, Empty
    <3>2. SavedNow' = {}
      BY <1>1, <3>1 DEF SavedNow
    <3>3. QED
      BY <3>1, <3>2 DEF Backed
  <2>3. QED
    BY <2>1, <2>2
<1>4. OwnInv'
  BY <1>1, <1>2, <1>3 DEF OwnInv, Backed, OwnRead
<1>5. WorkInv'
  BY <1>2 DEF WorkInv, Worked, Done, Staged, Concerns
<1>6. QED
  BY <1>4, <1>5

\* The step of a pass whose other passes get nothing heavier.
LEMMA PassWork ==
  ASSUME MemInv, OwnInv, WorkInv, NEW s \in Slots, NEW q \in PassType, Onward(s, q),
         q.read = passes[s].read, q.agent = passes[s].agent,
         q.whole => Done(q, store', whose'),
         Backed(store', whose'), Unheard \notin DOMAIN whose', Grown(whose, whose'),
         UNCHANGED <<writing, file>>,
         \A t \in Slots \ {s} : Worked(passes[t], store', whose')
  PROVE  OwnInv' /\ WorkInv'
<1>1. passes \in [Slots -> PassType]
  BY DEF MemInv, TypeInv
<1>2. \A p : OwnRead(p, whose) => OwnRead(p, whose')
  BY DEF OwnRead, Grown
<1>3. OwnRead(q, whose')
  <2>1. OwnRead(passes[s], whose)
    BY DEF OwnInv
  <2>2. OwnRead(q, whose)
    BY <2>1 DEF OwnRead
  <2>3. QED
    BY <1>2, <2>2
<1>4. Worked(passes'[s], store', whose') /\ OwnRead(passes'[s], whose')
  BY <1>1, <1>3, OnwardWorked
<1>5. \A t \in Slots \ {s} : passes'[t] = passes[t]
  BY <1>1, OnwardIs
<1>6. \A t \in Slots : OwnRead(passes'[t], whose')
  BY <1>2, <1>4, <1>5 DEF OwnInv
<1>7. \A t \in Slots : Worked(passes'[t], store', whose')
  BY <1>4, <1>5
<1>8. SavedNow' = SavedNow
  BY DEF SavedNow
<1>9. OwnInv'
  BY <1>6, <1>8, OwnsStill
<1>10. WorkInv'
  BY <1>7 DEF WorkInv, Worked, Done, Staged, Concerns
<1>11. QED
  BY <1>9, <1>10

LEMMA BrokeWork ==
  ASSUME MemInv, OwnInv, WorkInv, NEW s \in Slots, Broke(s)
  PROVE  OwnInv' /\ WorkInv'
<1>1. UNCHANGED <<store, whose, writing, file>>
  BY DEF Broke, memory, disk, history
<1>2. \A t \in Slots : passes'[t] = Free \/ passes'[t] = passes[t]
  BY DEF Broke, Fails, MemInv, TypeInv
<1>3. \A t \in Slots : OwnRead(passes'[t], whose) /\ Worked(passes'[t], store, whose)
  BY <1>2, FreeWorked DEF OwnInv, WorkInv
<1>4. SavedNow' = SavedNow
  BY <1>1 DEF SavedNow
<1>5. OwnInv'
  BY <1>1, <1>3, <1>4 DEF OwnInv, Backed, OwnRead
<1>6. WorkInv'
  BY <1>1, <1>3 DEF WorkInv, Worked, Done, Staged, Concerns
<1>7. QED
  BY <1>5, <1>6

LEMMA AnsweredWork ==
  ASSUME MemInv, OwnInv, WorkInv, NEW s \in Slots, Answered(s)
  PROVE  OwnInv' /\ WorkInv'
<1>1. UNCHANGED <<store, whose, writing, file>>
  BY DEF Answered, memory, disk, history
<1>2. PICK q \in PassType :
        /\ Onward(s, q) /\ Listing(q) /\ q.at >= 1 /\ q.todo = q.listed
        /\ q.read = passes[s].read /\ q.made = passes[s].made /\ q.whole = passes[s].whole
        /\ q.agent = passes[s].agent
  BY AnsweredIs DEF MemInv
<1>3. q.made = 0
  BY <1>2 DEF MemInv, SoundInv, Sound, Answered
<1>4. ASSUME q.whole PROVE Done(q, store, whose)
  <2>1. Done(passes[s], store, whose)
    BY <1>2, <1>4 DEF WorkInv, Worked
  <2>2. Concerns(q, whose) = Concerns(passes[s], whose)
    BY <1>2 DEF Concerns
  <2>3. QED
    BY <1>2, <1>3, <2>1, <2>2 DEF Done
<1>5. \A t \in Slots \ {s} : Worked(passes[t], store, whose)
  BY DEF WorkInv
<1>6. Backed(store', whose') /\ Unheard \notin DOMAIN whose'
  BY <1>1 DEF OwnInv, Backed
<1>7. Grown(whose, whose')
  BY <1>1 DEF Grown
<1>8. q.whole => Done(q, store', whose')
  BY <1>1, <1>4 DEF Done, Concerns
<1>9. \A t \in Slots \ {s} : Worked(passes[t], store', whose')
  BY <1>1, <1>5 DEF Worked, Done, Staged, Concerns
<1>10. QED
  BY <1>1, <1>2, <1>6, <1>7, <1>8, <1>9, PassWork

\* What the step of a pass towards its end leaves done: of each, q is what
\* the pass is when it has been made.
StepDone(s, q) ==
  /\ Onward(s, q)
  /\ q.read = passes[s].read /\ q.agent = passes[s].agent /\ q.listed = passes[s].listed
  /\ q.at = passes[s].at /\ q.whole = passes[s].whole
  /\ q.made + q.left = passes[s].made + passes[s].left
  /\ q.whole => Done(q, store', whose')

LEMMA InsightDone ==
  ASSUME MemInv, OwnInv, WorkInv, NEW s \in Slots, InsightStored(s)
  PROVE  /\ \E q \in PassType : StepDone(s, q)
         /\ Backed(store', whose') /\ Unheard \notin DOMAIN whose' /\ Grown(whose, whose')
         /\ \A t \in Slots : Worked(passes[t], store', whose')
<1> DEFINE p == passes[s]
           i == InsightId(p)
           v == [agent |-> p.agent, stamp |-> Wall(p.at), importance |-> 8]
<1>1. p \in PassType /\ p.at \in Nat /\ p.made \in Nat /\ p.left \in Int
  BY PassTypeKept DEF MemInv, TypeInv
<1>2. p.agent \in Agents
  BY StageBusy DEF InsightStored, Busy, MemInv
<1>3. p.at >= 1
  BY DEF MemInv, SoundInv, Sound, InsightStored
<1>4. i \in Ids /\ i # Unheard /\ i = [by |-> Llm, at |-> p.at, n |-> p.made]
  <2>1. i = [by |-> Llm, at |-> p.at, n |-> p.made]
    BY DEF InsightId
  <2>2. i.at >= 1 /\ i \in Ids
    BY <1>1, <1>3, <2>1 DEF Ids
  <2>3. Unheard.at = 0
    BY DEF Unheard
  <2>4. QED
    BY <2>1, <2>2, <2>3
<1>5. v \in Nodes /\ v.agent = p.agent
  BY <1>1, <1>2, UpkeepAssumption DEF Nodes, Wall
<1>6. store' = Put(store, i, v) /\ whose' = Given(i, v.agent)
  BY <1>5 DEF InsightStored
<1>7. PICK q \in PassType :
        /\ Onward(s, q) /\ Listing(q) /\ q.at = passes[s].at /\ q.at >= 1
        /\ q.todo = passes[s].todo /\ q.listed = passes[s].listed
        /\ q.read = passes[s].read /\ q.whole = passes[s].whole
        /\ q.agent = passes[s].agent /\ q.made = passes[s].made + 1 /\ q.left = passes[s].left - 1
  BY InsightIs DEF MemInv
<1> HIDE DEF i, v
<1>8. Backed(store', whose') /\ Unheard \notin DOMAIN whose' /\ Grown(whose, whose')
  BY <1>4, <1>5, <1>6, PutBacked DEF MemInv
<1>9. TypeInv'
  BY InsightType DEF MemInv
<1>10. ASSUME NEW t \in Slots PROVE Worked(passes[t], store', whose')
  <2>1. /\ passes[t] \in PassType /\ OwnRead(passes[t], whose) /\ Worked(passes[t], store, whose)
        /\ store \in Maps(Nodes) /\ store' \in Maps(Nodes)
    BY <1>9 DEF MemInv, TypeInv, OwnInv, WorkInv
  <2>2. Lightens(passes[t], store, store', whose')
    BY <1>4, <1>5, <1>6, <2>1, PutLightens DEF MemInv
  <2>3. QED
    BY <1>8, <2>1, <2>2, Lighter
<1>11. ASSUME q.whole PROVE Done(q, store', whose')
  <2>1. Done(p, store', whose')
    BY <1>7, <1>10, <1>11 DEF Worked
  <2>2. Concerns(q, whose') = Concerns(p, whose')
    BY <1>7 DEF Concerns
  <2>3. [by |-> Llm, at |-> p.at, n |-> 0] \in DOMAIN store'
    <3>1. CASE p.made = 0
      BY <1>4, <1>6, <3>1 DEF Put
    <3>2. CASE p.made # 0
      BY <1>1, <2>1, <3>2 DEF Done
    <3>3. QED
      BY <3>1, <3>2
  <2>4. QED
    BY <1>7, <2>1, <2>2, <2>3 DEF Done
<1>12. q.made + q.left = p.made + p.left
  BY <1>1, <1>7
<1>13. QED
  BY <1>7, <1>8, <1>10, <1>11, <1>12 DEF StepDone

\* An id that is not there is none of what the pass has read.
LEMMA GotDone ==
  ASSUME MemInv, OwnInv, WorkInv, NEW s \in Slots, Got(s), Head(passes[s].todo) \notin DOMAIN store
  PROVE  \E q \in PassType : StepDone(s, q)
<1> DEFINE p == passes[s]
           q == Skipped(p)
<1>1. p \in PassType /\ p.todo # <<>> /\ Listing(p)
  BY DEF MemInv, TypeInv, SoundInv, Sound, Got
<1>2. /\ q \in PassType /\ Listing(q)
      /\ q.read = p.read /\ q.at = p.at /\ q.listed = p.listed
      /\ q.made = p.made /\ q.left = p.left /\ q.agent = p.agent /\ q.whole = p.whole
      /\ \A m \in DOMAIN p.todo : p.todo[m] = Head(p.todo) \/ \E n \in DOMAIN q.todo : q.todo[n] = p.todo[m]
  BY <1>1, SkippedIs
<1>3. Onward(s, q) /\ UNCHANGED <<store, whose>>
  BY DEF Got, memory, history
<1> HIDE DEF q
<1>4. ASSUME q.whole PROVE Done(q, store, whose)
  <2>1. Done(p, store, whose)
    BY <1>2, <1>4 DEF WorkInv, Worked
  <2>2. Concerns(q, whose) = Concerns(p, whose) /\ Head(p.todo) \notin Concerns(p, whose)
    BY <1>2, <2>1 DEF Concerns, Done
  <2> HIDE DEF p
  <2>3. QED
    BY <1>2, <2>1, <2>2 DEF Done
<1>5. q.whole => Done(q, store', whose')
  BY <1>3, <1>4 DEF Done, Concerns
<1>6. QED
  BY <1>2, <1>3, <1>5 DEF StepDone

LEMMA LoweredDone ==
  ASSUME MemInv, OwnInv, WorkInv, NEW s \in Slots, Lowered(s)
  PROVE  /\ \E q \in PassType : StepDone(s, q)
         /\ Backed(store', whose')
         /\ \A t \in Slots \ {s} : Worked(passes[t], store', whose')
<1> DEFINE p == passes[s]
           q == Skipped(p)
           i == Head(p.todo)
           n == Halved(p.got)
<1>1. p \in PassType /\ p.todo # <<>> /\ Listing(p) /\ p.todo \in Seq(Ids)
  BY PassTypeKept DEF MemInv, TypeInv, SoundInv, Sound, Lowered
<1>2. /\ q \in PassType /\ Listing(q)
      /\ q.read = p.read /\ q.at = p.at /\ q.listed = p.listed
      /\ q.made = p.made /\ q.left = p.left /\ q.agent = p.agent /\ q.whole = p.whole
      /\ \A m \in DOMAIN p.todo : p.todo[m] = Head(p.todo) \/ \E k \in DOMAIN q.todo : q.todo[k] = p.todo[m]
  BY <1>1, SkippedIs
<1>3. Onward(s, q) /\ UNCHANGED whose /\ p.stage = "lowering"
      /\ store' = IF i \in DOMAIN store THEN [store EXCEPT ![i].importance = n] ELSE store
  BY DEF Lowered, history
<1>4. p.got \in 0..10 /\ n \in 1..10
  BY <1>1, PassTypeKept, HalvedIs
<1>5. i \in DOMAIN p.read \cup {Unheard}
  BY <1>1 DEF Listing
<1>6. Busy(p)
  BY <1>3, FreeIsFree, StageBusy DEF MemInv
<1> HIDE DEF n, q
<1>7. /\ store' \in Maps(Nodes) /\ DOMAIN store' = DOMAIN store
      /\ \A j \in DOMAIN store : /\ store'[j].agent = store[j].agent
                                 /\ j # i => store'[j] = store[j]
                                 /\ j = i => store'[j].importance = n
  <2>1. store \in Maps(Nodes)
    BY DEF MemInv, TypeInv
  <2> DEFINE r == IF i \in DOMAIN store THEN [store EXCEPT ![i].importance = n] ELSE store
  <2> HIDE DEF i
  <2>2. /\ r \in Maps(Nodes) /\ DOMAIN r = DOMAIN store
        /\ \A j \in DOMAIN store : /\ r[j].agent = store[j].agent
                                   /\ j # i => r[j] = store[j]
                                   /\ j = i => r[j].importance = n
    BY <1>4, <2>1, RatedIs
  <2>3. store' = r
    BY <1>3
  <2> HIDE DEF r
  <2>4. QED
    BY <2>2, <2>3
<1>8. Backed(store', whose')
  BY <1>3, <1>7 DEF OwnInv, Backed
<1>9. ASSUME NEW t \in Slots \ {s} PROVE Worked(passes[t], store', whose')
  <2>1. /\ passes[t] \in PassType /\ OwnRead(passes[t], whose) /\ Worked(passes[t], store, whose)
        /\ OwnRead(p, whose) /\ store \in Maps(Nodes)
    BY DEF MemInv, TypeInv, OwnInv, WorkInv
  <2>2. i \notin Concerns(passes[t], whose)
    <3> SUFFICES ASSUME i \in Concerns(passes[t], whose) PROVE FALSE
      OBVIOUS
    <3>1. i \in DOMAIN whose /\ whose[i] # Llm /\ whose[i] = passes[t].agent
      BY <2>1 DEF Concerns, OwnRead
    <3>2. i \in DOMAIN p.read
      BY <1>5, <3>1 DEF OwnInv
    <3>3. whose[i] = p.agent
      BY <2>1, <3>1, <3>2 DEF OwnRead
    <3>4. s = t
      BY <1>6, <3>1, <3>3 DEF MemInv, PassInv
    <3>5. QED
      BY <3>4
  <2>3. \A j \in DOMAIN store : store[j].importance \in 1..10
    BY <2>1, ImportanceType
  <2>4. Lightens(passes[t], store, store', whose')
    BY <1>3, <1>7, <2>2, <2>3 DEF Lightens, Concerns
  <2>5. Grown(whose, whose')
    BY <1>3 DEF Grown
  <2>6. QED
    BY <1>7, <2>1, <2>4, <2>5, Lighter
<1>10. ASSUME q.whole PROVE Done(q, store', whose)
  <2>1. Done(p, store, whose) /\ Staged(p, whose)
    BY <1>2, <1>10 DEF WorkInv, Worked
  <2>2. Concerns(q, whose) = Concerns(p, whose)
    BY <1>2 DEF Concerns
  <2>3. ASSUME NEW j \in Concerns(p, whose)
        PROVE  /\ j \in DOMAIN store' /\ store'[j].importance <= p.read[j]
               /\ j = i \/ store[j].importance <= Halved(p.read[j])
                    => store'[j].importance <= Halved(p.read[j])
    <3>1. j \in DOMAIN store /\ store[j].importance <= p.read[j] /\ j \in DOMAIN p.read
      BY <2>1 DEF Done, Concerns
    <3>2. CASE j # i
      BY <1>7, <3>1, <3>2
    <3>3. CASE j = i
      <4>1. p.got <= p.read[j] /\ p.read[j] \in 1..10
        BY <1>1, <1>3, <2>1, <3>1, <3>3, ReadType DEF Staged
      <4>2. Halved(p.got) <= Halved(p.read[j]) /\ Halved(p.read[j]) <= p.read[j] /\ Halved(p.read[j]) \in 1..10
        <5>1. p.read[j] \in 0..10 /\ p.got \in 0..p.read[j] /\ p.read[j] >= 1
          BY <1>4, <4>1
        <5>2. QED
          BY <5>1, HalvedIs
      <4>3. store'[j].importance = Halved(p.got)
        BY <1>7, <3>1, <3>3 DEF n
      <4>4. QED
        BY <1>4, <1>7, <3>1, <4>1, <4>2, <4>3 DEF n
    <3>4. QED
      BY <3>2, <3>3
  <2> HIDE DEF p, i
  <2>4. Head(p.todo) = i
    BY DEF i
  <2>5. QED
    BY <1>2, <1>7, <2>1, <2>2, <2>3, <2>4 DEF Done
<1>11. q.whole => Done(q, store', whose')
  BY <1>3, <1>10 DEF Done, Concerns
<1>12. QED
  BY <1>2, <1>3, <1>8, <1>9, <1>11 DEF StepDone

\* A step of a pass with what it leaves done.
LEMMA DoneWork ==
  ASSUME MemInv, OwnInv, WorkInv, NEW s \in Slots, \E q \in PassType : StepDone(s, q),
         Backed(store', whose'), Unheard \notin DOMAIN whose', Grown(whose, whose'),
         UNCHANGED <<writing, file>>,
         \A t \in Slots \ {s} : Worked(passes[t], store', whose')
  PROVE  OwnInv' /\ WorkInv'
<1>1. PICK q \in PassType : StepDone(s, q)
  OBVIOUS
<1>2. /\ Onward(s, q) /\ q.read = passes[s].read /\ q.agent = passes[s].agent
      /\ q.whole => Done(q, store', whose')
  BY <1>1 DEF StepDone
<1>3. QED
  BY <1>2, PassWork

LEMMA InsightWork ==
  ASSUME MemInv, OwnInv, WorkInv, NEW s \in Slots, InsightStored(s)
  PROVE  OwnInv' /\ WorkInv'
<1>1. UNCHANGED <<writing, file>>
  BY DEF InsightStored, disk
<1>2. /\ \E q \in PassType : StepDone(s, q)
      /\ Backed(store', whose') /\ Unheard \notin DOMAIN whose' /\ Grown(whose, whose')
      /\ \A t \in Slots : Worked(passes[t], store', whose')
  BY InsightDone
<1>3. QED
  BY <1>1, <1>2, DoneWork

LEMMA GotWork ==
  ASSUME MemInv, OwnInv, WorkInv, NEW s \in Slots, Got(s)
  PROVE  OwnInv' /\ WorkInv'
<1> DEFINE p == passes[s]
           i == Head(p.todo)
           r == [p EXCEPT !.stage = "lowering", !.got = store[i].importance]
<1>1. UNCHANGED <<store, whose, writing, file>>
  BY DEF Got, memory, disk, history
<1>2. CASE i \notin DOMAIN store
  <2>1. \E q \in PassType : StepDone(s, q)
    BY <1>2, GotDone
  <2>2. Backed(store', whose') /\ Unheard \notin DOMAIN whose'
    BY <1>1 DEF OwnInv, Backed
  <2>3. Grown(whose, whose')
    BY <1>1 DEF Grown
  <2>4. \A t \in Slots \ {s} : Worked(passes[t], store', whose')
    BY <1>1 DEF WorkInv, Worked, Done, Staged, Concerns
  <2>5. QED
    BY <1>1, <2>1, <2>2, <2>3, <2>4, DoneWork
<1>3. CASE i \in DOMAIN store
  <2>1. passes' = [passes EXCEPT ![s] = r] /\ p.stage = "getting"
    BY <1>3 DEF Got
  <2>2. p \in PassType /\ OwnRead(p, whose) /\ Worked(p, store, whose)
    BY DEF MemInv, TypeInv, OwnInv, WorkInv
  <2>3. /\ Same(r, p) /\ r.stage = "lowering" /\ r.got = store[i].importance
    BY <2>2 DEF Same, PassType
  <2>4. \A t \in Slots : passes'[t] = IF t = s THEN r ELSE passes[t]
    BY <2>1 DEF MemInv, TypeInv
  <2> HIDE DEF r
  <2>5. OwnRead(r, whose)
    BY <2>2, <2>3 DEF Same, OwnRead
  <2>6. Worked(r, store, whose)
    <3> SUFFICES ASSUME r.whole PROVE Done(r, store, whose) /\ Staged(r, whose)
      BY DEF Worked
    <3>1. Done(p, store, whose) /\ Staged(p, whose) /\ Concerns(r, whose) = Concerns(p, whose)
      BY <2>2, <2>3 DEF Same, Worked, Concerns
    <3> HIDE DEF p
    <3>2. Done(r, store, whose)
      BY <2>3, <3>1 DEF Same, Done
    <3>3. Staged(r, whose)
      <4>1. Head(r.todo) = i /\ r.left <= 0 /\ r.read = p.read
        BY <2>1, <2>3, <3>1 DEF Same, Staged
      <4>2. i \in Concerns(p, whose) => store[i].importance <= p.read[i]
        BY <3>1 DEF Done
      <4>3. QED
        BY <2>3, <3>1, <4>1, <4>2 DEF Staged
    <3>4. QED
      BY <3>2, <3>3
  <2>7. \A t \in Slots : OwnRead(passes'[t], whose) /\ Worked(passes'[t], store, whose)
    BY <2>4, <2>5, <2>6 DEF OwnInv, WorkInv
  <2>8. SavedNow' = SavedNow
    BY <1>1 DEF SavedNow
  <2>9. OwnInv'
    BY <1>1, <2>7, <2>8 DEF OwnInv, Backed, OwnRead
  <2>10. WorkInv'
    BY <1>1, <2>7 DEF WorkInv, Worked, Done, Staged, Concerns
  <2>11. QED
    BY <2>9, <2>10
<1>4. QED
  BY <1>2, <1>3

LEMMA LoweredWork ==
  ASSUME MemInv, OwnInv, WorkInv, NEW s \in Slots, Lowered(s)
  PROVE  OwnInv' /\ WorkInv'
<1>1. UNCHANGED <<whose, writing, file>>
  BY DEF Lowered, disk, history
<1>2. Unheard \notin DOMAIN whose'
  BY <1>1 DEF OwnInv
<1>3. Grown(whose, whose')
  BY <1>1 DEF Grown
<1>4. /\ \E q \in PassType : StepDone(s, q)
      /\ Backed(store', whose')
      /\ \A t \in Slots \ {s} : Worked(passes[t], store', whose')
  BY LoweredDone
<1>5. QED
  BY <1>1, <1>2, <1>3, <1>4, DoneWork

LEMMA WorkNext == MemInv /\ OwnInv /\ WorkInv /\ [Next]_vars => OwnInv' /\ WorkInv'
<1> SUFFICES ASSUME MemInv, OwnInv, WorkInv, [Next]_vars PROVE OwnInv' /\ WorkInv'
  OBVIOUS
<1>1. CASE Tick
  BY <1>1, TickWork
<1>2. CASE Start \/ Stop
  BY <1>2, WorkStays DEF Start, Stop, memory, disk, history
<1>3. CASE Load
  BY <1>3, LoadWork
<1>4. CASE Restart
  BY <1>4, RestartWork
<1>5. ASSUME NEW a \in Agents, WriteBegins(a) PROVE OwnInv' /\ WorkInv'
  BY <1>5, WorkStays DEF WriteBegins, upkeep, disk, history
<1>6. ASSUME NEW a \in Agents, RunReflection(a) PROVE OwnInv' /\ WorkInv'
  BY <1>6, BeginWork
<1>7. ASSUME NEW e \in embedding, Written(e) PROVE OwnInv' /\ WorkInv'
  BY <1>7, WrittenWork
<1>8. ASSUME NEW e \in embedding, WriteFails(e) PROVE OwnInv' /\ WorkInv'
  BY <1>8, WorkStays DEF WriteFails, upkeep, disk, history
<1>9. ASSUME NEW f \in writing, SaveEnds(f) PROVE OwnInv' /\ WorkInv'
  BY <1>9, SaveWork
<1>10. ASSUME NEW s \in Slots, Answered(s) PROVE OwnInv' /\ WorkInv'
  BY <1>10, AnsweredWork
<1>11. ASSUME NEW s \in Slots, Broke(s) PROVE OwnInv' /\ WorkInv'
  BY <1>11, BrokeWork
<1>12. ASSUME NEW s \in Slots, InsightStored(s) PROVE OwnInv' /\ WorkInv'
  BY <1>12, InsightWork
<1>13. ASSUME NEW s \in Slots, Got(s) PROVE OwnInv' /\ WorkInv'
  BY <1>13, GotWork
<1>14. ASSUME NEW s \in Slots, Lowered(s) PROVE OwnInv' /\ WorkInv'
  BY <1>14, LoweredWork
<1>15. CASE UNCHANGED vars
  BY <1>15, WorkStays DEF vars, memory, upkeep, disk, history
<1>16. QED
  BY <1>1, <1>2, <1>3, <1>4, <1>5, <1>6, <1>7, <1>8, <1>9, <1>10, <1>11, <1>12, <1>13, <1>14, <1>15
     DEF Next

LEMMA InitWork == Init => OwnInv /\ WorkInv
<1> SUFFICES ASSUME Init PROVE OwnInv /\ WorkInv
  OBVIOUS
<1>1. DOMAIN store = {} /\ DOMAIN whose = {} /\ SavedNow = {} /\ \A s \in Slots : passes[s] = Free
  BY DEF Init, SavedNow, Empty
<1>2. \A s \in Slots : OwnRead(passes[s], whose) /\ Worked(passes[s], store, whose)
  BY <1>1, FreeWorked
<1>3. QED
  BY <1>1, <1>2 DEF OwnInv, WorkInv, Backed

\* A pass that ends in the steps that may move the reflection time.
LEMMA EndIsDone ==
  ASSUME MemInv, NEW s \in Slots, \E q \in PassType : StepDone(s, q), passes'[s] = Free,
         passes[s].whole, passes[s].stage # "none"
  PROVE  DidItsWork(passes[s])
<1> DEFINE p == passes[s]
<1>1. PICK q \in PassType : StepDone(s, q)
  OBVIOUS
<1>2. /\ Onward(s, q) /\ q.read = p.read /\ q.agent = p.agent /\ q.listed = p.listed
      /\ q.at = p.at /\ q.made + q.left = p.made + p.left /\ Done(q, store', whose')
  BY <1>1 DEF StepDone
<1>3. passes \in [Slots -> PassType] /\ q.left \in Int /\ q.made \in Nat /\ q.agent \in Agents
  <2>1. p.agent \in Agents
    BY StageBusy DEF MemInv, Busy
  <2>2. QED
    BY <1>2, <2>1, PassTypeKept DEF MemInv, TypeInv
<1>4. q.left <= 0 /\ q.todo = <<>>
  <2>1. ~Same(Free, q)
    <3>1. Free.agent = Llm /\ Llm \notin Agents
      BY FreeIsFree
    <3>2. QED
      BY <1>3, <3>1 DEF Same
  <2>2. QED
    BY <1>2, <1>3, <2>1, OnwardIs
<1>5. ASSUME NEW k \in DOMAIN p.listed, p.listed[k] \in DOMAIN p.read, whose'[p.listed[k]] # Llm
      PROVE  p.listed[k] \in DOMAIN store' /\ store'[p.listed[k]].importance <= Halved(p.read[p.listed[k]])
  <2> HIDE DEF p
  <2>1. k \in DOMAIN q.listed /\ q.listed[k] = p.listed[k] /\ q.listed[k] \in Concerns(q, whose')
    BY <1>2, <1>5 DEF Concerns
  <2>2. ~\E m \in DOMAIN q.todo : q.todo[m] = q.listed[k]
    BY <1>4
  <2>3. QED
    BY <1>2, <2>1, <2>2 DEF Done
<1>6. p.made + p.left > 0 => [by |-> Llm, at |-> p.at, n |-> 0] \in DOMAIN store'
  <2> HIDE DEF p
  <2>1. p.made + p.left > 0 => q.made > 0
    <3>1. q.made + q.left > 0 => q.made > 0
      BY <1>3, <1>4
    <3>2. QED
      BY <1>2, <3>1
  <2>2. QED
    BY <1>2, <2>1 DEF Done
<1>7. QED
  BY <1>5, <1>6 DEF DidItsWork

\* Of all steps only those of a pass that has something left to do end it and
\* move the reflection time.
LEMMA WorkStep == MemInv /\ OwnInv /\ WorkInv /\ [Next]_vars =>
  \A s \in Slots : passes[s].whole /\ passes[s].stage \in {"storing", "getting", "lowering"}
                   /\ passes'[s] = Free /\ last' # last /\ ~Restart => DidItsWork(passes[s])
<1> SUFFICES ASSUME MemInv, OwnInv, WorkInv, [Next]_vars, NEW s \in Slots,
                    passes[s].whole, passes[s].stage \in {"storing", "getting", "lowering"},
                    passes'[s] = Free, last' # last, ~Restart
             PROVE  DidItsWork(passes[s])
  OBVIOUS
<1>0. passes \in [Slots -> PassType] /\ passes[s] # Free /\ passes[s].stage # "none"
  BY FreeIsFree DEF MemInv, TypeInv
<1>1. ASSUME NEW t \in Slots, NEW q \in PassType, Onward(t, q) PROVE t = s
  BY <1>0, <1>1, OnwardIs
<1>2. ~(Tick \/ Start \/ Stop \/ Load \/ UNCHANGED vars)
  BY DEF Tick, Start, Stop, Load, vars, upkeep
<1>3. \A a \in Agents : ~WriteBegins(a) /\ ~RunReflection(a)
  BY DEF WriteBegins, RunReflection, upkeep
<1>4. \A e \in embedding : ~Written(e) /\ ~WriteFails(e)
  BY DEF Written, WriteFails, upkeep
<1>5. \A f \in writing : ~SaveEnds(f)
  BY DEF SaveEnds, upkeep
<1>6. \A t \in Slots : ~Broke(t)
  BY DEF Broke, Fails
<1>7. ASSUME NEW t \in Slots, Answered(t) PROVE FALSE
  <2>1. PICK q \in PassType : Onward(t, q)
    BY <1>7, AnsweredIs DEF MemInv
  <2>2. t = s
    BY <1>1, <2>1
  <2>3. QED
    BY <1>7, <2>2 DEF Answered
<1>8. ASSUME NEW t \in Slots, \E q \in PassType : StepDone(t, q) PROVE DidItsWork(passes[s])
  <2>1. PICK q \in PassType : Onward(t, q)
    BY <1>8 DEF StepDone
  <2>2. t = s
    BY <1>1, <2>1
  <2>3. QED
    BY <1>0, <1>8, <2>2, EndIsDone
<1>9. ASSUME NEW t \in Slots, InsightStored(t) PROVE DidItsWork(passes[s])
  BY <1>8, <1>9, InsightDone
<1>10. ASSUME NEW t \in Slots, Got(t) PROVE DidItsWork(passes[s])
  <2>1. Head(passes[t].todo) \notin DOMAIN store
    BY <1>10 DEF Got
  <2>2. QED
    BY <1>8, <1>10, <2>1, GotDone
<1>11. ASSUME NEW t \in Slots, Lowered(t) PROVE DidItsWork(passes[s])
  BY <1>8, <1>11, LoweredDone
<1>12. QED
  BY <1>2, <1>3, <1>4, <1>5, <1>6, <1>7, <1>9, <1>10, <1>11 DEF Next

\* The reflection time is set by a pass that has done its work, of any number
\* of agents whose passes, writes and failures come in any order
\* (ReflectionLoopImpl.runReflection, and what it calls of VectorStore).
THEOREM TimeMeansWorkDone == Spec => TimeMeansDone
<1>1. /\ Init => MemInv /\ OwnInv /\ WorkInv
      /\ MemInv /\ OwnInv /\ WorkInv /\ [Next]_vars => (MemInv /\ OwnInv /\ WorkInv)'
  BY MemInvInit, MemInvNext, InitWork, WorkNext
<1>2. MemInv /\ OwnInv /\ WorkInv /\ [Next]_vars =>
        [\A s \in Slots : passes[s].whole /\ passes[s].stage \in {"storing", "getting", "lowering"}
                          /\ passes'[s] = Free /\ last' # last /\ ~Restart => DidItsWork(passes[s])]_vars
  BY WorkStep
<1>3. QED
  BY <1>1, <1>2, PTL DEF Spec, TimeMeansDone
-----------------------------------------------------------------------------
(* Who an agent is: the budget of changes to its self-model.               *)

LEMMA LessIs ==
  ASSUME NEW m \in Int, NEW n \in Int
  PROVE  Less(m, n) \in Int /\ Less(m, n) <= m /\ Less(m, n) <= n
BY DEF Less

LEMMA HalvesFit ==
  ASSUME NEW m \in Nat, NEW n \in Nat, n # 0
  PROVE  m \div n \in Nat
OBVIOUS

LEMMA WeightedFits ==
  ASSUME IdentityTypeOK, NEW a \in Agents
  PROVE  WeightedBudget(a) \in Nat
<1> DEFINE s == Less(salience[a], SalienceNormalization)
           m == 2 * MaxDeltasPerSession * s + SalienceNormalization
           n == 2 * SalienceNormalization
<1>1. s \in Nat
  BY IdentityAssumption DEF IdentityTypeOK, Less
<1>2. 2 * MaxDeltasPerSession \in Nat
  BY IdentityAssumption
<1>3. \A x, y \in Nat : x * y \in Nat
  OBVIOUS
<1>4. 2 * MaxDeltasPerSession * s \in Nat
  <2> HIDE DEF s
  <2>1. QED
    BY <1>1, <1>2, <1>3
<1>5. m \in Nat /\ n \in Nat /\ n # 0
  <2> HIDE DEF s
  <2>1. QED
    BY <1>4, IdentityAssumption
<1>6. WeightedBudget(a) = m \div n
  BY DEF WeightedBudget
<1> HIDE DEF m, n
<1>7. QED
  BY <1>5, <1>6, HalvesFit

\* What the manager accepts: no more than is asked for, and than is left.
LEMMA AcceptedIs ==
  ASSUME IdentityTypeOK, NEW a \in Agents, budget[a] <= MaxDeltasPerSession, NEW n \in Nat
  PROVE  /\ Accepted(a, n) \in Nat /\ Accepted(a, n) <= n
         /\ budget[a] + Accepted(a, n) <= MaxDeltasPerSession
<1>1. budget[a] \in Nat /\ MaxDeltasPerSession \in Nat /\ MaxDeltasPerUpdate \in Nat
  BY IdentityAssumption DEF IdentityTypeOK
<1>2. QED
  BY <1>1 DEF Accepted, Bound, Less

\* What is applied shows in the budget, and nowhere else.
LEMMA ApplyIs ==
  ASSUME IdentityTypeOK, NEW a \in Agents, NEW k \in Nat, Apply(a, k)
  PROVE  /\ models' \in [Agents -> Nat] /\ budget' \in [Agents -> Nat]
         /\ applied' \subseteq Agents
         /\ \A b \in Agents : budget'[b] = IF b = a THEN budget[a] + k ELSE budget[b]
<1>1. /\ models \in [Agents -> Nat] /\ budget \in [Agents -> Nat]
      /\ applied \subseteq Agents
  BY DEF IdentityTypeOK
<1>2. CASE k > 0
  <2>1. /\ models' = [models EXCEPT ![a] = models[a] + 1]
        /\ budget' = [budget EXCEPT ![a] = budget[a] + k]
        /\ applied' = applied \cup {a}
    BY <1>2 DEF Apply
  <2>2. models[a] + 1 \in Nat \ {0} /\ budget[a] + k \in Nat
    BY <1>1
  <2>3. models' \in [Agents -> Nat]
    BY <1>1, <2>1, <2>2
  <2>4. budget' \in [Agents -> Nat]
    BY <1>1, <2>1, <2>2
  <2>5. applied' \subseteq Agents
    BY <1>1, <2>1
  <2>6. \A b \in Agents : budget'[b] = IF b = a THEN budget[a] + k ELSE budget[b]
    BY <1>1, <2>1
  <2>7. QED
    BY <2>3, <2>4, <2>5, <2>6
<1>3. CASE ~(k > 0)
  <2>1. k = 0 /\ UNCHANGED <<models, budget, applied>>
    BY <1>3 DEF Apply
  <2>2. budget[a] + k = budget[a]
    BY <1>1, <2>1
  <2>3. QED
    BY <1>1, <2>1, <2>2
<1>4. QED
  BY <1>2, <1>3

LEMMA LandedFits ==
  ASSUME IdentityTypeOK, NEW a \in Agents, NEW i \in DOMAIN flights[a]
  PROVE  [flights EXCEPT ![a] = Landed(a, i)] \in [Agents -> Seq(Flights)]
<1> DEFINE f == flights[a]
<1>1. f \in Seq(Flights) /\ Len(f) \in Nat /\ i \in 1..Len(f)
  BY LenProperties DEF IdentityTypeOK
<1>2. \A j \in 1..Len(f) : f[j] \in Flights
  BY <1>1, ElementOfSeq
<1>3. SubSeq(f, 1, i - 1) \in Seq(Flights) /\ SubSeq(f, i + 1, Len(f)) \in Seq(Flights)
  BY <1>1, <1>2, SubSeqProperties
<1>4. Landed(a, i) \in Seq(Flights)
  BY <1>3, ConcatProperties DEF Landed
<1>5. QED
  BY <1>4 DEF IdentityTypeOK

LEMMA IdentityTickKeeps ==
  ASSUME IdentityTypeOK, BudgetsHold, IdentityTick
  PROVE  IdentityTypeOK' /\ BudgetsHold'
<1>1. flights' \in [Agents -> Seq(Flights)]
  <2>1. \A a \in Agents : [used |-> passesUsed[a], override |-> WeightedBudget(a),
                           deltas |-> deltasUsed[a]] \in Flights
    BY WeightedFits DEF IdentityTypeOK, Flights
  <2>2. \A a \in Agents : flights[a] \in Seq(Flights)
    BY DEF IdentityTypeOK
  <2>3. \A a \in Agents : Append(flights[a], [used |-> passesUsed[a], override |-> WeightedBudget(a),
                                              deltas |-> deltasUsed[a]]) \in Seq(Flights)
    BY <2>1, <2>2, AppendProperties
  <2>4. QED
    BY <2>2, <2>3 DEF IdentityTick
<1>2. begun' \in [Agents -> Nat]
  BY IdentityAssumption DEF IdentityTick, IdentityTypeOK, Less
<1>3. salience' \in [Agents -> Nat]
  BY DEF IdentityTick, IdentityTypeOK
<1>4. UNCHANGED <<passesUsed, deltasUsed, models, budget, applied, byTool, away>>
  BY DEF IdentityTick, manager
<1>5. IdentityTypeOK'
  BY <1>1, <1>2, <1>3, <1>4 DEF IdentityTypeOK
<1>6. BudgetsHold'
  BY <1>4 DEF BudgetsHold, DeltasBounded, BudgetsAgree
<1>7. QED
  BY <1>5, <1>6

LEMMA ProposedKeeps ==
  ASSUME IdentityTypeOK, BudgetsHold, NEW a \in Agents, NEW i \in DOMAIN flights[a], Proposed(a, i)
  PROVE  IdentityTypeOK' /\ BudgetsHold'
<1> DEFINE room == Less(MaxDeltasPerSession - deltasUsed[a], flights[a][i].override)
<1>1. PICK total \in 0..MaxProposed : \E valid \in 0..total :
        LET k == IF room <= 0 THEN 0 ELSE Accepted(a, Less(valid, room)) IN
        /\ Apply(a, k)
        /\ deltasUsed' = IF room > 0 /\ total > 0
                         THEN [deltasUsed EXCEPT ![a] = deltasUsed[a] + k] ELSE deltasUsed
  BY DEF Proposed, Used
<1>2. PICK valid \in 0..total :
        LET k == IF room <= 0 THEN 0 ELSE Accepted(a, Less(valid, room)) IN
        /\ Apply(a, k)
        /\ deltasUsed' = IF room > 0 /\ total > 0
                         THEN [deltasUsed EXCEPT ![a] = deltasUsed[a] + k] ELSE deltasUsed
  BY <1>1
<1> DEFINE k == IF room <= 0 THEN 0 ELSE Accepted(a, Less(valid, room))
<1>3. Apply(a, k) /\ deltasUsed' = IF room > 0 /\ total > 0
                                   THEN [deltasUsed EXCEPT ![a] = deltasUsed[a] + k] ELSE deltasUsed
  BY <1>2
<1>4. flights[a][i] \in Flights /\ deltasUsed[a] \in Nat /\ budget[a] \in Nat /\ byTool[a] \in Nat
  <2>1. flights[a] \in Seq(Flights) /\ i \in 1..Len(flights[a])
    BY LenProperties DEF IdentityTypeOK
  <2>2. QED
    BY <2>1, ElementOfSeq DEF IdentityTypeOK
<1>5. room \in Int /\ total \in Nat /\ valid \in Nat /\ valid <= total
  BY <1>4, IdentityAssumption DEF Flights, Less
<1> HIDE DEF room
<1>6. room > 0 => Less(valid, room) \in Nat /\ Less(valid, room) <= valid
  BY <1>5 DEF Less
<1>7. budget[a] <= MaxDeltasPerSession
  BY DEF BudgetsHold, DeltasBounded
<1>8. k \in Nat /\ budget[a] + k <= MaxDeltasPerSession /\ (room > 0 => k <= valid) /\ (room <= 0 => k = 0)
  <2>1. CASE room <= 0
    BY <1>4, <1>5, <1>7, <2>1, IdentityAssumption
  <2>2. CASE ~(room <= 0)
    <3>1. Less(valid, room) \in Nat /\ Less(valid, room) <= valid
      BY <1>5, <1>6, <2>2
    <3>2. /\ Accepted(a, Less(valid, room)) \in Nat
          /\ Accepted(a, Less(valid, room)) <= Less(valid, room)
          /\ budget[a] + Accepted(a, Less(valid, room)) <= MaxDeltasPerSession
      BY <1>7, <3>1, AcceptedIs
    <3>3. QED
      BY <1>5, <2>2, <3>1, <3>2
  <2>3. QED
    BY <2>1, <2>2
<1> HIDE DEF k
<1>9. /\ models' \in [Agents -> Nat] /\ budget' \in [Agents -> Nat] /\ applied' \subseteq Agents
      /\ \A b \in Agents : budget'[b] = IF b = a THEN budget[a] + k ELSE budget[b]
  BY <1>3, <1>8, ApplyIs
<1>10. \A b \in Agents : deltasUsed'[b] = IF b = a THEN deltasUsed[a] + k ELSE deltasUsed[b]
  <2>1. CASE room > 0 /\ total > 0
    BY <1>3, <2>1 DEF IdentityTypeOK
  <2>2. CASE ~(room > 0 /\ total > 0)
    <3>1. k = 0
      BY <1>5, <1>8, <2>2
    <3>2. QED
      BY <1>3, <1>4, <2>2, <3>1
  <2>3. QED
    BY <2>1, <2>2
<1>11. deltasUsed' \in [Agents -> Nat]
  BY <1>3, <1>4, <1>8 DEF IdentityTypeOK
<1>12. /\ passesUsed' = [passesUsed EXCEPT ![a] = flights[a][i].used + 1]
       /\ salience' = [salience EXCEPT ![a] = 0]
       /\ flights' = [flights EXCEPT ![a] = Landed(a, i)]
       /\ UNCHANGED <<begun, byTool, away>>
  BY DEF Proposed
<1>13. passesUsed' \in [Agents -> Nat] /\ salience' \in [Agents -> Nat]
  <2>1. flights[a][i].used + 1 \in Nat
    BY <1>4 DEF Flights
  <2>2. passesUsed \in [Agents -> Nat] /\ salience \in [Agents -> Nat]
    BY DEF IdentityTypeOK
  <2>3. passesUsed' \in [Agents -> Nat]
    BY <1>12, <2>1, <2>2
  <2>4. salience' \in [Agents -> Nat]
    BY <1>12, <2>2
  <2>5. QED
    BY <2>3, <2>4
<1>14. flights' \in [Agents -> Seq(Flights)]
  BY <1>12, LandedFits
<1>15. IdentityTypeOK'
  BY <1>9, <1>11, <1>12, <1>13, <1>14 DEF IdentityTypeOK
<1>16. BudgetsHold'
  BY <1>4, <1>8, <1>9, <1>10, <1>12 DEF BudgetsHold, DeltasBounded, BudgetsAgree
<1>17. QED
  BY <1>15, <1>16

LEMMA UpdateKeeps ==
  ASSUME IdentityTypeOK, BudgetsHold, NEW a \in Agents, UpdateSelfModel(a)
  PROVE  IdentityTypeOK' /\ BudgetsHold'
<1>1. PICK valid \in 0..MaxProposed : /\ Apply(a, Accepted(a, valid))
                                      /\ byTool' = [byTool EXCEPT ![a] = @ + Accepted(a, valid)]
  BY DEF UpdateSelfModel
<1> DEFINE k == Accepted(a, valid)
<1>2. valid \in Nat /\ budget[a] <= MaxDeltasPerSession
  BY IdentityAssumption DEF BudgetsHold, DeltasBounded
<1>3. k \in Nat /\ budget[a] + k <= MaxDeltasPerSession
  BY <1>2, AcceptedIs
<1>4. Apply(a, k) /\ byTool' = [byTool EXCEPT ![a] = byTool[a] + k]
  BY <1>1
<1> HIDE DEF k
<1>5. /\ models' \in [Agents -> Nat] /\ budget' \in [Agents -> Nat] /\ applied' \subseteq Agents
      /\ \A b \in Agents : budget'[b] = IF b = a THEN budget[a] + k ELSE budget[b]
  BY <1>3, <1>4, ApplyIs
<1>6. /\ byTool' \in [Agents -> Nat]
      /\ \A b \in Agents : byTool'[b] = IF b = a THEN byTool[a] + k ELSE byTool[b]
  BY <1>3, <1>4 DEF IdentityTypeOK
<1>7. UNCHANGED <<salience, flights, begun, passesUsed, deltasUsed, away>>
  BY DEF UpdateSelfModel, service
<1>8. IdentityTypeOK'
  BY <1>5, <1>6, <1>7 DEF IdentityTypeOK
<1>9. \A b \in Agents : budget[b] \in Nat /\ deltasUsed[b] \in Nat /\ byTool[b] \in Nat
  BY DEF IdentityTypeOK
<1>10. BudgetsHold'
  BY <1>3, <1>5, <1>6, <1>7, <1>9 DEF BudgetsHold, DeltasBounded, BudgetsAgree
<1>11. QED
  BY <1>8, <1>10

LEMMA StandingKeeps ==
  ASSUME IdentityTypeOK, UNCHANGED identityVars
  PROVE  IdentityTypeOK'
<1>1. UNCHANGED <<salience, flights, begun, passesUsed, deltasUsed>>
  BY DEF identityVars, service
<1>2. UNCHANGED <<models, budget, applied, byTool, away>>
  BY DEF identityVars, manager
<1>3. QED
  BY <1>1, <1>2 DEF IdentityTypeOK

LEMMA OtherKeeps ==
  ASSUME IdentityTypeOK, BudgetsHold,
         \/ \E a \in Agents : RecordSalience(a) \/ Despawn(a) \/ Respawn(a)
         \/ \E a \in Agents : \E i \in DOMAIN flights[a] : ProposalFails(a, i)
         \/ UNCHANGED identityVars
  PROVE  IdentityTypeOK' /\ BudgetsHold'
<1>1. BudgetsHold'
  <2>1. UNCHANGED <<budget, deltasUsed, byTool>>
    BY DEF RecordSalience, Despawn, Respawn, ProposalFails, identityVars, service, manager
  <2>2. QED
    BY <2>1 DEF BudgetsHold, DeltasBounded, BudgetsAgree
<1>2. ASSUME NEW a \in Agents, RecordSalience(a) PROVE IdentityTypeOK'
  <2>1. salience' \in [Agents -> Nat]
    <3>0. salience \in [Agents -> Nat]
      BY DEF IdentityTypeOK
    <3>1. salience \in [Agents -> Nat] /\ salience[a] + 1 \in Nat
      BY <3>0
    <3>2. salience' = [salience EXCEPT ![a] = salience[a] + 1]
      BY <1>2 DEF RecordSalience
    <3>3. QED
      BY <3>1, <3>2
  <2>2. UNCHANGED <<flights, begun, passesUsed, deltasUsed, models, budget, applied, byTool, away>>
    BY <1>2 DEF RecordSalience, manager
  <2>3. QED
    BY <2>1, <2>2 DEF IdentityTypeOK
<1>3. ASSUME NEW a \in Agents, Despawn(a) PROVE IdentityTypeOK'
  <2>1. models[a] \in Nat /\ Snapshot(models[a]) \in Nat
    BY DEF IdentityTypeOK, Snapshot
  <2>2. away' \in [Agents -> Nat]
    BY <1>3, <2>1 DEF Despawn, IdentityTypeOK
  <2>3. UNCHANGED <<salience, flights, begun, passesUsed, deltasUsed, models, budget, applied, byTool>>
    BY <1>3 DEF Despawn, service, manager
  <2>4. QED
    BY <2>2, <2>3 DEF IdentityTypeOK
<1>4. ASSUME NEW a \in Agents, Respawn(a) PROVE IdentityTypeOK'
  <2>0. /\ models \in [Agents -> Nat] /\ away \in [Agents -> Nat]
        /\ away[a] \in Nat /\ away[a] # 0 /\ models[a] \in Nat
    BY <1>4 DEF Respawn, Active, IdentityTypeOK
  <2> DEFINE n == IF away[a] = Snapshot(0) THEN (IF models[a] = 0 THEN 1 ELSE models[a]) ELSE away[a] - 1
  <2>1. n \in Nat
    BY <2>0
  <2>2. models' = [models EXCEPT ![a] = n]
    BY <1>4 DEF Respawn
  <2>3. away' = [away EXCEPT ![a] = 0]
    BY <1>4 DEF Respawn
  <2> HIDE DEF n
  <2>4. models' \in [Agents -> Nat] /\ away' \in [Agents -> Nat]
    BY <2>0, <2>1, <2>2, <2>3
  <2>5. UNCHANGED <<salience, flights, begun, passesUsed, deltasUsed, budget, applied, byTool>>
    BY <1>4 DEF Respawn, service
  <2>6. QED
    BY <2>4, <2>5 DEF IdentityTypeOK
<1>5. ASSUME NEW a \in Agents, NEW i \in DOMAIN flights[a], ProposalFails(a, i) PROVE IdentityTypeOK'
  <2>1. flights' \in [Agents -> Seq(Flights)]
    BY <1>5, LandedFits DEF ProposalFails
  <2>2. QED
    BY <1>5, <2>1 DEF ProposalFails, manager, IdentityTypeOK
<1>6. CASE UNCHANGED identityVars
  BY <1>1, <1>6, StandingKeeps
<1>7. QED
  BY <1>1, <1>2, <1>3, <1>4, <1>5, <1>6

LEMMA BudgetsOfIdentity == IdentitySpec => []BudgetsHold
<1>1. IdentityInit => IdentityTypeOK /\ BudgetsHold
  <2>1. <<>> \in Seq(Flights)
    BY EmptySeq
  <2>2. QED
    BY <2>1, IdentityAssumption
       DEF IdentityInit, IdentityTypeOK, BudgetsHold, DeltasBounded, BudgetsAgree
<1>2. IdentityTypeOK /\ BudgetsHold /\ [IdentityTick \/ IdentityStep]_identityVars
        => IdentityTypeOK' /\ BudgetsHold'
  BY IdentityTickKeeps, ProposedKeeps, UpdateKeeps, OtherKeeps DEF IdentityStep
<1>3. QED
  BY <1>1, <1>2, PTL DEF IdentitySpec

(* What else is in the minds of the agents.                                  *)
CONSTANTS Rooms, MaxQueue, MaxLog
VARIABLES queue, stage, location, low, talking, log, records, artifact, features

Mind == INSTANCE MindLoop

\* However many passes overlap, each with an idea of its own of what is left,
\* and whatever the tool adds: no more deltas are applied in a session than it
\* has, and the service and the manager agree on how many there were
\* (SelfModelManagerImpl.applySelfModelDeltas and consolidate).
THEOREM BudgetsAlwaysHold == Mind!Spec => []BudgetsHold
<1>1. Mind!Init => IdentityInit
  BY DEF Mind!Init, Mind!IdentityInit, IdentityInit
<1>2. Mind!IdentityTick => IdentityTick
  BY DEF Mind!IdentityTick, IdentityTick, Mind!Asks, Asks, Mind!ShouldConsolidate, ShouldConsolidate,
         Mind!Active, Active, Mind!Less, Less, Mind!WeightedBudget, WeightedBudget,
         Mind!manager, manager
<1>3. Mind!IdentityStep => IdentityStep
  BY DEF Mind!IdentityStep, IdentityStep, Mind!RecordSalience, RecordSalience,
         Mind!UpdateSelfModel, UpdateSelfModel, Mind!Despawn, Despawn, Mind!Respawn, Respawn,
         Mind!Proposed, Proposed, Mind!ProposalFails, ProposalFails, Mind!Landed, Landed,
         Mind!Used, Used, Mind!Apply, Apply, Mind!Accepted, Accepted, Mind!Bound, Bound,
         Mind!RateLimited, RateLimited, Mind!Snapshot, Snapshot, Mind!Less, Less, Mind!Active, Active,
         Mind!service, service, Mind!manager, manager
<1>4. UNCHANGED Mind!vars => UNCHANGED identityVars
  BY DEF Mind!vars, Mind!identityVars, Mind!service, Mind!manager, identityVars, service, manager
<1>5. UNCHANGED Mind!identityVars => UNCHANGED identityVars
  BY DEF Mind!identityVars, Mind!service, Mind!manager, identityVars, service, manager
<1>6. [Mind!Next]_(Mind!vars) => [IdentityTick \/ IdentityStep]_identityVars
  BY <1>2, <1>3, <1>4, <1>5 DEF Mind!Next, Mind!Tick
<1>7. QED
  BY <1>1, <1>6, BudgetsOfIdentity, PTL DEF Mind!Spec, IdentitySpec
=============================================================================
