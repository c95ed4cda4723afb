----------------------------- MODULE SocialUrge -----------------------------
(***************************************************************************)
(* How much an agent of evol-hive feels like talking to another, and when  *)
(* the other counts as not responsive or as talked to too often.  Factors  *)
(* between 0 and 1.5 are in thousandths, rounded down.                     *)
(***************************************************************************)
EXTENDS Integers, FiniteSets, Sequences

CONSTANT TalkCap  \* SOCIAL_TALK_CAP, three in the code

ASSUME TalkCapAssumption == TalkCap \in Nat \ {0}

\* The parameter of a tool or a text, or the counter of a relationship, may be absent.
Untracked == -1
Counted(n) == IF n < 0 THEN 0 ELSE n
Within(low, v, high) == IF v < low THEN low ELSE IF v > high THEN high ELSE v

Strangers == [trust |-> 50, familiarity |-> 0, sent |-> Untracked, received |-> Untracked]
Relation(rels, b) == IF b \in DOMAIN rels THEN rels[b] ELSE Strangers
Gap(r) == Counted(r.sent) - Counted(r.received)
Tracked(r) == r.sent # Untracked \/ r.received # Untracked

\* SOCIAL_TALK_CAP messages without an answer are enough.
Capped(r) == Gap(r) >= TalkCap
-----------------------------------------------------------------------------
Surface == 450  \* SOCIAL_URGE_SURFACE_THRESHOLD
Decay == 700    \* SOCIAL_URGE_RECIPROCITY_DECAYED

\* Full at an empty social drive, half at a full one.
SocialDriveFactor(social) == 1000 - 5 * Within(0, social, 100)

SceneNovelty(age) == 1000 + (150 * (600 - Within(0, age, 600))) \div 600
PairNovelty(r) ==
  IF ~Tracked(r) THEN 1000
  ELSE 1000 + 30 * (5 - Within(0, Counted(r.sent) + Counted(r.received), 5))
NoveltyFactor(age, r) ==
  IF SceneNovelty(age) > PairNovelty(r) THEN SceneNovelty(age) ELSE PairNovelty(r)

Penalty(r) == Within(2, 10 - 2 * Within(0, Gap(r), 5), 10)
Boost(r) == 10 + Within(0, Counted(r.received), 5)
ReciprocityFactor(r) ==
  IF ~Tracked(r) THEN 1000
  ELSE Within(100, (Penalty(r) * Boost(r) * (150 + r.trust) * (450 + r.familiarity)) \div 10000, 1500)

Urge(seed, social, age, r) ==
  LET drive == (seed * SocialDriveFactor(social)) \div 1000
      novelty == (drive * NoveltyFactor(age, r)) \div 1000
  IN  Within(0, (novelty * ReciprocityFactor(r)) \div 1000, 1000)
=============================================================================
