---------------------------- MODULE Recollection ----------------------------
(***************************************************************************)
(* Which memories come to mind, which fade, and what a new one is worth:   *)
(* the retrieval engine, the decay service and the composer of importance. *)
(*                                                                         *)
(* The store is a sequence in the order of insertion.  Reals are scaled to *)
(* integers: Unit stands for 1.0 of a score, and the exponentials are      *)
(* tables that start at Unit and never grow.  Times never run backwards.   *)
(***************************************************************************)
EXTENDS Integers, Sequences, FiniteSets

CONSTANTS
  Owners,      \* agents
  Unit,        \* 1.0
  Recency,     \* e^(-recencyDecayRate t)
  Wear,        \* e^(-importanceDecayRate t), ten times slower
  Decay,       \* e^(-MemoryDecayConfig.decayRate t)
  Threshold    \* MemoryDecayConfig.pruneThreshold

Fading(f) ==
  /\ f \in [Nat -> 0..Unit] /\ f[0] = Unit
  /\ \A s, t \in Nat : s =< t => f[t] =< f[s]

Clamped(low, n, high) == IF n < low THEN low ELSE IF n > high THEN high ELSE n
-----------------------------------------------------------------------------
(* Retrieval.                                                              *)

Memories == [owner : Owners, stamp : Nat, seen : Nat, importance : 0..10, likeness : Int]

\* Descending and stable, as sort is.
Before(key, j, i) == key[j] > key[i] \/ (key[j] = key[i] /\ j < i)
Best(S, key, n) == {i \in S : Cardinality({j \in S : Before(key, j, i)}) < n}

\* score, with the default weights.
Worth(m, now) == Recency[now - m.stamp] + m.importance * Wear[now - m.seen] + m.likeness

\* queryByEmbedding looks at everybody's memories; retrieve keeps the agent's.
Candidates(store, k) == Best(DOMAIN store, [i \in DOMAIN store |-> store[i].likeness], 3 * k)
OwnCandidates(store, a, k) == {i \in Candidates(store, k) : store[i].owner = a}
Retrieved(store, a, k, now) ==
  Best(OwnCandidates(store, a, k), [i \in DOMAIN store |-> Worth(store[i], now)], k)
Touched(store, S, now) == [i \in DOMAIN store |-> IF i \in S THEN [store[i] EXCEPT !.seen = now] ELSE store[i]]

\* injectAssociative: the drives that go into the query.
Pressing(drives) == {d \in DOMAIN drives : drives[d] > 50}
-----------------------------------------------------------------------------
(* Decay: computed, never stored.                                          *)

Effective(m, now) == m.importance * Decay[now - m.seen]
PruneCandidates(store, a, now) ==
  {i \in DOMAIN store : store[i].owner = a /\ Effective(store[i], now) < Threshold}
Pruned(store, a, now) ==
  [i \in DOMAIN store \ PruneCandidates(store, a, now) |-> store[i]]
-----------------------------------------------------------------------------
(* What a new memory is worth, in hundredths (drives in their fifths).     *)
(* The prior is the importance head's, or neutral without usable weights.  *)

Neutral == 50
Prior(head, p) == IF head = "sound" THEN Clamped(0, p, 100) ELSE Neutral

Size(n) == IF n < 0 THEN -n ELSE n
DriveDelta(d) ==
  Clamped(0, Size(d.energy) + Size(d.hunger) + Size(d.social) + Size(d.comfort) + Size(d.curiosity), 500)

\* The most useful of the related memories.
UtilityOf(count) == Clamped(0, 10 * count.retrievals + 20 * count.successes, 100)
Utility(counts) ==
  IF counts = {} THEN 0
  ELSE CHOOSE u \in {UtilityOf(c) : c \in counts} : \A c \in counts : UtilityOf(c) =< u

\* 0.3 prior + 0.25 drives + 0.15 utility + 0.3 of what the LLM says, rounded.
Composed(prior, drive, utility, llm) ==
  Clamped(100, (6 * prior + drive + 3 * utility + 60 * Clamped(0, llm, 10) + 1) \div 2, 1000)
=============================================================================
