--------------------------- MODULE MCMemoryUpkeep ---------------------------
(* Constants for the TLC run of MemoryUpkeep.  And samples on which TLC      *)
(* evaluates what MemoryUpkeep_proofs proves of retrieval and decay for   *)
(* any store, and what the game loop owes to the clock.                      *)
EXTENDS MemoryUpkeep, Recollection, GameLoop, TLC

CONSTANT ann

MCOwners == {"ann", "bob"}
MCRecency == <<900, 800, 700>> @@ (0 :> 1000)
MCWear == <<990, 980, 970>> @@ (0 :> 1000)
MCDecay == <<500, 250, 125>> @@ (0 :> 1000)
-----------------------------------------------------------------------------
Memory(who, made, used, weight, like) ==
  [owner |-> who, stamp |-> made, seen |-> used, importance |-> weight, likeness |-> like]
SampleMemories ==
  {Memory(who, 0, 0, weight, like) : who \in MCOwners, weight \in {1, 9}, like \in {-200, 500}}
    \cup {Memory("ann", 0, 1, 9, -200), Memory("ann", 1, 1, 1, 500)}
SampleStores == UNION {[1..n -> SampleMemories] : n \in 0..3}

\* What is recalled is the agent's own, and not more than asked for.
ASSUME RecallsOwnOnSamples ==
  \A s \in SampleStores : \A k \in 0..2 :
    LET R == Retrieved(s, "ann", k, 2)
    IN  (\A i \in R : s[i].owner = "ann") /\ Cardinality(R) =< k

\* Nothing that came close enough to be scored is worth more than what is recalled.
ASSUME RecallsBestOnSamples ==
  \A s \in SampleStores : \A k \in 1..2 :
    \A i \in Retrieved(s, "ann", k, 2), j \in OwnCandidates(s, "ann", k) :
      Worth(s[j], 2) > Worth(s[i], 2) => j \in Retrieved(s, "ann", k, 2)

\* To recall a memory never brings it, or another, nearer to being pruned.
ASSUME RecallKeepsOnSamples ==
  \A s \in SampleStores : \A k \in 0..2 :
    LET after == Touched(s, Retrieved(s, "ann", k, 2), 2)
    IN  PruneCandidates(after, "ann", 3) \subseteq PruneCandidates(s, "ann", 3)

\* Three times as many are fetched as are asked for, which leaves room for the
\* memories of others, but not for more than twice as many: an agent with a
\* memory that is asked for by name recalls nothing when three others are liker.
ASSUME CrowdedOut ==
  LET crowd == [i \in 1..4 |-> IF i = 4 THEN Memory("ann", 0, 0, 9, 400) ELSE Memory("bob", 0, 0, 1, 500)]
  IN  /\ Retrieved(crowd, "ann", 1, 2) = {}
      /\ Retrieved(Tail(crowd), "ann", 1, 2) = {3}

\* Importance stays on its scale, and what the LLM says moves it by less than
\* a third of the scale.
ASSUME ImportanceFitsOnSamples ==
  \A prior \in {0, 50, 100} : \A drive \in {0, 3, 500} : \A utility \in {0, 30, 100} : \A x, y \in {-1, 0, 1, 10, 12} :
    LET n(said) == Composed(prior, drive, utility, said)
    IN  n(x) \in 100..1000 /\ n(x) - n(y) =< 300 /\ (x =< y => n(x) =< n(y))
-----------------------------------------------------------------------------
Step(what, m) == [op |-> what, n |-> m]
SampleSteps == {Step("start", 2), Step("start", 7), Step("stop", 0), Step("frame", 6), Step("frame", 13),
                Step("scale", 0), Step("scale", 3)}
SampleSessions ==
  {t \in UNION {[1..n -> SampleSteps] : n \in 0..4} :
     \A i, j \in DOMAIN t : i < j /\ t[i].op \in {"start", "frame"} /\ t[j].op \in {"start", "frame"} => t[i].n < t[j].n}

\* No instant of the time the loop ran is lost or played twice, whatever the
\* length of the frames, the pauses and the changes of speed.
Played(steps) ==
  LET sum[i \in 0..Len(steps)] ==
        IF i = 0 THEN 0
        ELSE LET was == Session(SubSeq(steps, 1, i - 1))
             IN  sum[i - 1] + IF steps[i].op = "frame" /\ was.running THEN (steps[i].n - was.seen) * was.scale ELSE 0
  IN  sum[Len(steps)]
ASSUME NoTimeLost ==
  \A steps \in SampleSessions :
    LET loop == Session(steps)
    IN  loop.time = Delta * loop.tick /\ loop.left < Delta /\ loop.time + loop.left = Played(steps)

\* A load does not clear the accumulator: the loaded game goes on in mid-step.
ASSUME LeftoverSurvives ==
  Session(<<Step("start", 0), Step("frame", 1), Step("stop", 0), Step("restore", 5), Step("start", 9), Step("frame", 11)>>)
    = [running |-> TRUE, seen |-> 11, left |-> 0, tick |-> 6, time |-> 6 * Delta, scale |-> 1]
=============================================================================
