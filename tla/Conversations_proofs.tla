------------------------ MODULE Conversations_proofs ------------------------
(***************************************************************************)
(* What holds of conversations for any agents, rooms and limits.           *)
(*                                                                         *)
(* Two agents never silence each other.  The counters of a pair move in    *)
(* opposite directions with every talk, but a spawn resets the one of the  *)
(* newcomer only, and a dormant agent keeps his while the other goes on.   *)
(* What is kept is the sum: the debts of a pair, taking a dormant agent's  *)
(* from the store, never add up to more than Cap.  The same must hold of   *)
(* the world of a save in flight with the dormant agents of now, and of a  *)
(* save with its own.                                                      *)
(*                                                                         *)
(* Then the types; the mirrors; what a step can make of a conversation at  *)
(* all (Steps), and from it the bonus of an exchange, the sweep of those   *)
(* who are elsewhere, and the life of a conversation from its beginning to *)
(* the notes it leaves.                                                    *)
(***************************************************************************)
EXTENDS Conversations, TLAPS

Gaps == [Agents -> [Agents -> Int]]

Places == [Agents -> Rooms \cup {Nowhere}]

\* What a owes to b in a world with places r, counters g and dormant agents d.
Debt(r, g, d, a, b) == IF r[a] = Nowhere THEN d[a].gap[b] ELSE g[a][b]

Balanced(r, g, d) ==
  /\ r \in Places /\ g \in Gaps /\ d \in [Agents -> Asleep]
  /\ \A a \in Agents : r[a] = Nowhere => g[a] = Strangers
  /\ \A a \in Agents : d[a].stored => d[a].room \in Rooms
  /\ \A a, b \in Agents : g[a][b] <= Cap /\ d[a].gap[b] <= Cap
  /\ \A a, b \in Agents : a # b => Debt(r, g, d, a, b) + Debt(r, g, d, b, a) <= Cap

BInv ==
  /\ Balanced(room, gap, dormant)
  /\ draft.valid => Balanced(draft.room, draft.gap, dormant)
  /\ saved.valid => Balanced(saved.world.room, saved.world.gap, saved.dormant)
-----------------------------------------------------------------------------
(* Constants.                                                                *)

LEMMA CapType == Cap \in Nat /\ Cap > 0
BY LimitAssumption

LEMMA StrangersType == Strangers \in [Agents -> Int] /\ \A b \in Agents : Strangers[b] = 0
BY DEF Strangers

LEMMA NotDormantType == NotDormant \in Asleep /\ NotDormant.gap = Strangers
BY StrangersType DEF NotDormant, Asleep
-----------------------------------------------------------------------------
(* How the counters change.                                                  *)

\* A pair whose counters point to each other both below the cap stays so.
LEMMA BalancedIsHeard ==
  ASSUME NEW r, NEW g, NEW d, Balanced(r, g, d),
         NEW a \in Agents, NEW b \in Agents, a # b
  PROVE  g[a][b] < Cap \/ g[b][a] < Cap
<1>1. g[a][b] \in Int /\ g[b][a] \in Int
  BY DEF Balanced, Gaps
<1>2. Debt(r, g, d, a, b) + Debt(r, g, d, b, a) <= Cap
  BY DEF Balanced
<1>3. CASE r[a] = Nowhere
  <2>1. g[a][b] = 0
    BY <1>3, StrangersType DEF Balanced
  <2> QED
    BY <2>1, CapType
<1>4. CASE r[b] = Nowhere
  <2>1. g[b][a] = 0
    BY <1>4, StrangersType DEF Balanced
  <2> QED
    BY <2>1, CapType
<1>5. CASE r[a] # Nowhere /\ r[b] # Nowhere
  BY <1>1, <1>2, <1>5, CapType DEF Debt
<1> QED
  BY <1>3, <1>4, <1>5

LEMMA TalkIsGap ==
  ASSUME NEW g \in Gaps, NEW a \in Agents, NEW b \in Agents, a # b
  PROVE  [g EXCEPT ![a][b] = @ + 1, ![b][a] = @ - 1] \in Gaps
<1> DEFINE h == [g EXCEPT ![a][b] = @ + 1, ![b][a] = @ - 1]
<1> DEFINE row(x) == IF x = a THEN [g[a] EXCEPT ![b] = g[a][b] + 1]
                     ELSE IF x = b THEN [g[b] EXCEPT ![a] = g[b][a] - 1] ELSE g[x]
<1>1. h \in Gaps
  <2>1. h = [x \in Agents |-> row(x)]
    BY DEF Gaps
  <2>2. ASSUME NEW x \in Agents PROVE row(x) \in [Agents -> Int]
    <3>1. [g[a] EXCEPT ![b] = g[a][b] + 1] \in [Agents -> Int]
      BY DEF Gaps
    <3>2. [g[b] EXCEPT ![a] = g[b][a] - 1] \in [Agents -> Int]
      BY DEF Gaps
    <3>3. g[x] \in [Agents -> Int]
      BY DEF Gaps
    <3> QED
      BY <3>1, <3>2, <3>3
  <2> HIDE DEF row, h
  <2> QED
    BY <2>1, <2>2 DEF Gaps
<1> QED
  BY <1>1

\* A talk moves the counters of a pair in opposite directions.
LEMMA TalkKeepsBalance ==
  ASSUME NEW r, NEW g, NEW d, Balanced(r, g, d),
         NEW a \in Agents, NEW b \in Agents, a # b,
         r[a] # Nowhere, r[b] # Nowhere, g[a][b] < Cap
  PROVE  Balanced(r, [g EXCEPT ![a][b] = @ + 1, ![b][a] = @ - 1], d)
<1> DEFINE h == [g EXCEPT ![a][b] = @ + 1, ![b][a] = @ - 1]
<1>1. g \in Gaps /\ d \in [Agents -> Asleep] /\ r \in Places
  BY DEF Balanced
<1>2. h \in Gaps
  BY <1>1, TalkIsGap
<1>3. h[a][b] = g[a][b] + 1 /\ h[b][a] = g[b][a] - 1
  BY <1>1 DEF Gaps
<1>4. \A x, y \in Agents : <<x, y>> # <<a, b>> /\ <<x, y>> # <<b, a>> => h[x][y] = g[x][y]
  BY <1>1 DEF Gaps
<1>5. \A x \in Agents : x # a /\ x # b => h[x] = g[x]
  BY <1>1 DEF Gaps
<1>6. \A x, y \in Agents : g[x][y] \in Int /\ g[x][y] <= Cap
  BY <1>1 DEF Balanced, Gaps
<1> HIDE DEF h
<1>7. ASSUME NEW x \in Agents, r[x] = Nowhere PROVE h[x] = Strangers
  BY <1>5, <1>7 DEF Balanced
<1>8. ASSUME NEW x \in Agents, NEW y \in Agents PROVE h[x][y] <= Cap
  <2>1. CASE <<x, y>> = <<a, b>>
    BY <2>1, <1>3, <1>6, CapType
  <2>2. CASE <<x, y>> = <<b, a>>
    BY <2>2, <1>3, <1>6, CapType
  <2>3. CASE <<x, y>> # <<a, b>> /\ <<x, y>> # <<b, a>>
    BY <2>3, <1>4, <1>6
  <2> QED
    BY <2>1, <2>2, <2>3
<1>9. ASSUME NEW x \in Agents, NEW y \in Agents, x # y
      PROVE  Debt(r, h, d, x, y) + Debt(r, h, d, y, x) <= Cap
  <2>0. Debt(r, g, d, x, y) + Debt(r, g, d, y, x) <= Cap
    BY <1>9 DEF Balanced
  <2>1. CASE {x, y} = {a, b}
    <3>1. (x = a /\ y = b) \/ (x = b /\ y = a)
      BY <2>1
    <3>2. g[a][b] + g[b][a] <= Cap
      BY <3>1, <2>0, <1>6, CapType DEF Debt
    <3> QED
      BY <3>1, <3>2, <1>3, <1>6, CapType DEF Debt
  <2>2. CASE {x, y} # {a, b}
    <3>1. h[x][y] = g[x][y] /\ h[y][x] = g[y][x]
      BY <2>2, <1>4
    <3> QED
      BY <3>1, <2>0 DEF Debt
  <2> QED
    BY <2>1, <2>2
<1>10. /\ \A x, y \in Agents : d[x].gap[y] <= Cap
       /\ \A x \in Agents : d[x].stored => d[x].room \in Rooms
  BY DEF Balanced
<1> QED
  BY <1>1, <1>2, <1>7, <1>8, <1>9, <1>10 DEF Balanced, h

\* Where the active agents are does not matter.
LEMMA MoveKeepsBalance ==
  ASSUME NEW r, NEW g, NEW d, Balanced(r, g, d),
         NEW a \in Agents, r[a] # Nowhere, NEW p \in Rooms
  PROVE  Balanced([r EXCEPT ![a] = p], g, d)
<1> DEFINE q == [r EXCEPT ![a] = p]
<1>1. r \in Places /\ q \in Places
  BY DEF Balanced, Places
<1>2. \A x \in Agents : q[x] = Nowhere <=> r[x] = Nowhere
  BY <1>1, WorldAssumption DEF Places
<1> HIDE DEF q
<1>3. \A x, y \in Agents : Debt(q, g, d, x, y) = Debt(r, g, d, x, y)
  BY <1>2 DEF Debt
<1> QED
  BY <1>1, <1>2, <1>3 DEF Balanced, q

\* Falling asleep takes the counters along.
LEMMA DespawnKeepsBalance ==
  ASSUME NEW r, NEW g, NEW d, Balanced(r, g, d), NEW a \in Agents, r[a] # Nowhere
  PROVE  Balanced([r EXCEPT ![a] = Nowhere], [g EXCEPT ![a] = Strangers],
                  [d EXCEPT ![a] = [stored |-> TRUE, room |-> r[a], gap |-> g[a]]])
<1> DEFINE q == [r EXCEPT ![a] = Nowhere]
           h == [g EXCEPT ![a] = Strangers]
           e == [d EXCEPT ![a] = [stored |-> TRUE, room |-> r[a], gap |-> g[a]]]
<1>1. r \in Places /\ g \in Gaps /\ d \in [Agents -> Asleep]
  BY DEF Balanced
<1>2. [stored |-> TRUE, room |-> r[a], gap |-> g[a]] \in Asleep
  BY <1>1 DEF Asleep, Places, Gaps
<1>3. q \in Places /\ h \in Gaps
  BY <1>1, StrangersType DEF Places, Gaps
<1>4. e \in [Agents -> Asleep]
  BY <1>1, <1>2
<1>0. e[a].room = r[a]
  BY <1>1
<1>5. q[a] = Nowhere /\ h[a] = Strangers /\ e[a].gap = g[a]
  BY <1>1 DEF Places, Gaps
<1>6. \A x \in Agents : x # a => q[x] = r[x] /\ h[x] = g[x] /\ e[x] = d[x]
  BY <1>1 DEF Places, Gaps
<1> HIDE DEF q, h, e
<1>7. \A x, y \in Agents : Debt(q, h, e, x, y) = Debt(r, g, d, x, y)
  BY <1>5, <1>6 DEF Debt
<1>8. \A x \in Agents : q[x] = Nowhere => h[x] = Strangers
  BY <1>5, <1>6 DEF Balanced
<1>9. \A x, y \in Agents : h[x][y] <= Cap
  BY <1>5, <1>6, StrangersType, CapType DEF Balanced
<1>10. \A x, y \in Agents : e[x].gap[y] <= Cap
  BY <1>5, <1>6 DEF Balanced
<1>11. \A x \in Agents : e[x].stored => e[x].room \in Rooms
  BY <1>0, <1>1, <1>6 DEF Balanced, Places
<1> QED
  BY <1>3, <1>4, <1>7, <1>8, <1>9, <1>10, <1>11 DEF Balanced, q, h, e

\* A newcomer owes nothing, whatever the others hold against him.
LEMMA FreshKeepsBalance ==
  ASSUME NEW r, NEW g, NEW d, Balanced(r, g, d), NEW a \in Agents, NEW p \in Rooms
  PROVE  Balanced([r EXCEPT ![a] = p], [g EXCEPT ![a] = Strangers], d)
<1> DEFINE q == [r EXCEPT ![a] = p]
           h == [g EXCEPT ![a] = Strangers]
<1>1. r \in Places /\ g \in Gaps /\ d \in [Agents -> Asleep]
  BY DEF Balanced
<1>2. q \in Places /\ h \in Gaps
  BY <1>1, StrangersType DEF Places, Gaps
<1>3. q[a] # Nowhere /\ h[a] = Strangers
  BY <1>1, WorldAssumption DEF Places, Gaps
<1>4. \A x \in Agents : x # a => q[x] = r[x] /\ h[x] = g[x]
  BY <1>1 DEF Places, Gaps
<1> HIDE DEF q, h
<1>5. \A x \in Agents : q[x] = Nowhere => h[x] = Strangers
  BY <1>3, <1>4 DEF Balanced
<1>6. /\ \A x, y \in Agents : h[x][y] <= Cap /\ d[x].gap[y] <= Cap
      /\ \A x \in Agents : d[x].stored => d[x].room \in Rooms
  BY <1>3, <1>4, StrangersType, CapType DEF Balanced
<1>7. \A x, y \in Agents : h[x][y] \in Int /\ d[x].gap[y] \in Int
  BY <1>1, <1>2 DEF Gaps, Asleep
<1>8. ASSUME NEW x \in Agents, NEW y \in Agents, x # y
      PROVE  Debt(q, h, d, x, y) + Debt(q, h, d, y, x) <= Cap
  <2>1. CASE x = a
    <3>1. Debt(q, h, d, x, y) = 0
      BY <2>1, <1>3, StrangersType DEF Debt
    <3>2. Debt(q, h, d, y, x) \in Int /\ Debt(q, h, d, y, x) <= Cap
      BY <1>6, <1>7 DEF Debt
    <3> QED
      BY <3>1, <3>2, CapType
  <2>2. CASE y = a
    <3>1. Debt(q, h, d, y, x) = 0
      BY <2>2, <1>3, StrangersType DEF Debt
    <3>2. Debt(q, h, d, x, y) \in Int /\ Debt(q, h, d, x, y) <= Cap
      BY <1>6, <1>7 DEF Debt
    <3> QED
      BY <3>1, <3>2, CapType
  <2>3. CASE x # a /\ y # a
    <3>1. Debt(q, h, d, x, y) = Debt(r, g, d, x, y) /\ Debt(q, h, d, y, x) = Debt(r, g, d, y, x)
      BY <2>3, <1>4 DEF Debt
    <3> QED
      BY <3>1, <1>8 DEF Balanced
  <2> QED
    BY <2>1, <2>2, <2>3
<1> QED
  BY <1>1, <1>2, <1>5, <1>6, <1>8 DEF Balanced, q, h

\* Waking up brings them back.
LEMMA WakeKeepsBalance ==
  ASSUME NEW r, NEW g, NEW d, Balanced(r, g, d),
         NEW a \in Agents, r[a] = Nowhere, d[a].stored
  PROVE  Balanced([r EXCEPT ![a] = d[a].room], [g EXCEPT ![a] = d[a].gap],
                  [d EXCEPT ![a] = NotDormant])
<1> DEFINE q == [r EXCEPT ![a] = d[a].room]
           h == [g EXCEPT ![a] = d[a].gap]
           e == [d EXCEPT ![a] = NotDormant]
<1>1. r \in Places /\ g \in Gaps /\ d \in [Agents -> Asleep]
  BY DEF Balanced
<1>2. d[a].room \in Rooms /\ d[a].gap \in [Agents -> Int]
  BY <1>1 DEF Balanced, Asleep
<1>3. q \in Places /\ h \in Gaps
  BY <1>1, <1>2 DEF Places, Gaps
<1>4. e \in [Agents -> Asleep]
  BY <1>1, NotDormantType
<1>5. q[a] # Nowhere /\ h[a] = d[a].gap /\ e[a] = NotDormant
  BY <1>1, <1>2, WorldAssumption DEF Places, Gaps
<1>6. \A x \in Agents : x # a => q[x] = r[x] /\ h[x] = g[x] /\ e[x] = d[x]
  BY <1>1 DEF Places, Gaps
<1> HIDE DEF q, h, e
<1>7. \A x, y \in Agents : Debt(q, h, e, x, y) = Debt(r, g, d, x, y)
  BY <1>5, <1>6 DEF Debt
<1>8. \A x \in Agents : q[x] = Nowhere => h[x] = Strangers
  BY <1>5, <1>6 DEF Balanced
<1>9. \A x, y \in Agents : h[x][y] <= Cap
  BY <1>5, <1>6 DEF Balanced
<1>10. \A x, y \in Agents : e[x].gap[y] <= Cap
  BY <1>5, <1>6, NotDormantType, StrangersType, CapType DEF Balanced
<1>11. \A x \in Agents : e[x].stored => e[x].room \in Rooms
  <2>1. ~NotDormant.stored
    BY DEF NotDormant
  <2> QED
    BY <2>1, <1>5, <1>6 DEF Balanced
<1> QED
  BY <1>3, <1>4, <1>7, <1>8, <1>9, <1>10, <1>11 DEF Balanced, q, h, e
-----------------------------------------------------------------------------
(* The invariant.                                                            *)

LEMMA BInit == Init => BInv
<1> SUFFICES ASSUME Init PROVE BInv
  OBVIOUS
<1>1. room \in Places /\ \A a \in Agents : dormant[a] = NotDormant
  BY WorldAssumption DEF Init, Places
<1>2. gap \in Gaps /\ dormant \in [Agents -> Asleep] /\ \A a \in Agents : gap[a] = Strangers
  BY StrangersType, NotDormantType DEF Init, Gaps
<1>3. \A a, b \in Agents : Debt(room, gap, dormant, a, b) = 0
  BY <1>1, <1>2, StrangersType, NotDormantType DEF Debt
<1>4. \A a, b \in Agents : gap[a][b] <= Cap /\ dormant[a].gap[b] <= Cap
  BY <1>1, <1>2, StrangersType, NotDormantType, CapType
<1>5. \A a \in Agents : ~dormant[a].stored
  BY <1>1 DEF NotDormant
<1>6. Balanced(room, gap, dormant)
  BY <1>1, <1>2, <1>3, <1>4, <1>5, CapType DEF Balanced
<1>7. ~draft.valid /\ ~saved.valid
  BY DEF Init, NoDraft, NoSave
<1> QED
  BY <1>6, <1>7 DEF BInv

\* Whatever leaves the world and the saves alone.
LEMMA BSame ==
  ASSUME BInv, UNCHANGED <<room, gap, dormant, draft, saved>>
  PROVE  BInv'
BY DEF BInv

\* Whatever changes the world while no save is in flight.
LEMMA BWorld ==
  ASSUME BInv, Balanced(room, gap, dormant)', ~draft.valid, UNCHANGED <<draft, saved>>
  PROVE  BInv'
BY DEF BInv

LEMMA BStep ==
  ASSUME "inPlace" \notin LoadWays, BInv, [Next]_vars
  PROVE  BInv'
<1>1. Balanced(room, gap, dormant)
  BY DEF BInv
<1>2. ASSUME NEW a \in Agents, NEW b \in Agents, Talk(a, b) PROVE BInv'
  <2>1. a # b /\ room[a] # Nowhere /\ room[b] # Nowhere /\ gap[a][b] < Cap
    BY <1>2 DEF Talk, TalkTargets, Active
  <2>2. gap' = [gap EXCEPT ![a][b] = @ + 1, ![b][a] = @ - 1]
    BY <1>2 DEF Talk, CountTalk
  <2>3. UNCHANGED <<room, dormant, draft, saved>>
    BY <1>2 DEF Talk, saveVars
  <2>4. Balanced(room, gap, dormant)'
    <3>1. Balanced(room, [gap EXCEPT ![a][b] = @ + 1, ![b][a] = @ - 1], dormant)
      BY <1>1, <2>1, TalkKeepsBalance
    <3> QED
      BY <2>2, <2>3, <3>1
  <2> QED
    BY <2>3, <2>4 DEF BInv
<1>3. ASSUME NEW a \in Agents, NEW i \in Ids, Join(a, i) \/ Leave(a, i) PROVE BInv'
  BY <1>3, BSame DEF Join, Leave, agentVars, saveVars
<1>4. ASSUME NEW a \in Agents, NEW r \in Rooms, Move(a, r) PROVE BInv'
  <2>1. room' = [room EXCEPT ![a] = r] /\ room[a] # Nowhere
    BY <1>4 DEF Move, Active
  <2>2. UNCHANGED <<gap, dormant, draft, saved>>
    BY <1>4 DEF Move, saveVars
  <2>3. Balanced(room, gap, dormant)'
    BY <1>1, <2>1, <2>2, MoveKeepsBalance
  <2> QED
    BY <2>2, <2>3 DEF BInv
<1>5. ASSUME NEW a \in Agents, NEW r \in Rooms, SpawnFresh(a, r) PROVE BInv'
  <2>1. room' = [room EXCEPT ![a] = r] /\ gap' = [gap EXCEPT ![a] = Strangers]
    BY <1>5 DEF SpawnFresh
  <2>2. ~draft.valid /\ UNCHANGED <<dormant, draft, saved>>
    BY <1>5 DEF SpawnFresh, Churn, BetweenTurns, saveVars
  <2>3. Balanced(room, gap, dormant)'
    BY <1>1, <2>1, <2>2, FreshKeepsBalance
  <2> QED
    BY <2>2, <2>3, BWorld
<1>6. ASSUME NEW a \in Agents, Despawn(a) PROVE BInv'
  <2>1. /\ room[a] # Nowhere
        /\ room' = [room EXCEPT ![a] = Nowhere]
        /\ gap' = [gap EXCEPT ![a] = Strangers]
        /\ dormant' = [dormant EXCEPT ![a] = [stored |-> TRUE, room |-> room[a], gap |-> gap[a]]]
    BY <1>6 DEF Despawn, Active
  <2>2. ~draft.valid /\ UNCHANGED <<draft, saved>>
    BY <1>6 DEF Despawn, Churn, BetweenTurns, saveVars
  <2>3. Balanced(room, gap, dormant)'
    BY <1>1, <2>1, DespawnKeepsBalance
  <2> QED
    BY <2>2, <2>3, BWorld
<1>7. ASSUME NEW a \in Agents, SpawnDormant(a) PROVE BInv'
  <2>1. /\ room[a] = Nowhere /\ dormant[a].stored
        /\ room' = [room EXCEPT ![a] = dormant[a].room]
        /\ gap' = [gap EXCEPT ![a] = dormant[a].gap]
        /\ dormant' = [dormant EXCEPT ![a] = NotDormant]
    BY <1>7 DEF SpawnDormant, Active
  <2>2. ~draft.valid /\ UNCHANGED <<draft, saved>>
    BY <1>7 DEF SpawnDormant, Churn, BetweenTurns, saveVars
  <2>3. Balanced(room, gap, dormant)'
    BY <1>1, <2>1, WakeKeepsBalance
  <2> QED
    BY <2>2, <2>3, BWorld
<1>8. ASSUME SweepStep PROVE BInv'
  BY <1>8, BSame DEF SweepStep, Sweep, agentVars, saveVars
<1>9. ASSUME NEW k \in Key, NoteWritten(k) \/ NoteLost(k) PROVE BInv'
  BY <1>9, BSame DEF NoteWritten, NoteLost, agentVars, saveVars
<1>10. ASSUME SaveBegins PROVE BInv'
  <2>1. draft'.room = room /\ draft'.gap = gap
    BY <1>10 DEF SaveBegins
  <2>2. UNCHANGED <<room, gap, dormant, saved>>
    BY <1>10 DEF SaveBegins, agentVars
  <2> QED
    BY <2>1, <2>2 DEF BInv
<1>11. ASSUME SaveEnds PROVE BInv'
  <2>1. /\ draft.valid /\ ~draft'.valid
        /\ saved'.world = draft /\ saved'.dormant = dormant
    BY <1>11 DEF SaveEnds, NoDraft
  <2>2. UNCHANGED <<room, gap, dormant>>
    BY <1>11 DEF SaveEnds, agentVars
  <2> QED
    BY <2>1, <2>2 DEF BInv
<1>12. ASSUME Restart PROVE BInv'
  <2>1. /\ saved.valid /\ ~draft'.valid /\ UNCHANGED saved
        /\ room' = saved.world.room /\ gap' = saved.world.gap
        /\ dormant' = saved.dormant
    BY <1>12 DEF Restart, Restore, NoDraft
  <2> QED
    BY <2>1 DEF BInv
<1>13. ASSUME Load PROVE BInv'
  BY <1>13 DEF Load
<1>14. ASSUME UNCHANGED vars PROVE BInv'
  BY <1>14, BSame DEF vars, agentVars, saveVars
<1> QED
  BY <1>2, <1>3, <1>4, <1>5, <1>6, <1>7, <1>8, <1>9, <1>10, <1>11, <1>12, <1>13, <1>14
  DEF Next, Social
-----------------------------------------------------------------------------
(* Two agents of the same world never silence each other, however often they *)
(* fall asleep, are spawned anew or come back, across any number of restarts *)
(* (conversation-manager.ts and social-manager.ts:265: the talk cap).        *)
THEOREM NeverSilenced ==
  ASSUME "inPlace" \notin LoadWays
  PROVE  Spec => []NoMutualSilence
<1>1. Init => BInv
  BY BInit
<1>2. BInv /\ [Next]_vars => BInv'
  BY BStep
<1>3. BInv => NoMutualSilence
  BY BalancedIsHeard DEF BInv, NoMutualSilence
<1> QED
  BY <1>1, <1>2, <1>3, PTL DEF Spec
-----------------------------------------------------------------------------
(* Types.  What becomes of a conversation.                                   *)

LEMMA NoConversationType == NoConversation \in Conversation /\ ~Live(NoConversation)
<1>1. <<>> \in Turns
  BY LimitAssumption DEF Turns
<1> QED
  BY <1>1 DEF NoConversation, Conversation, Live

LEMMA LastOfType == ASSUME NEW s \in Seq(Agents) PROVE LastOf(s, Window) \in Turns
BY LimitAssumption DEF LastOf, Turns

LEMMA AppendTurnType ==
  ASSUME NEW c \in Conversation, NEW a \in Agents
  PROVE  AppendTurn(c, a) \in Conversation /\ AppendTurn(c, a).status = "active"
<1>1. Append(c.said, a) \in Seq(Agents)
  BY DEF Conversation, Turns
<1>2. LastOf(Append(c.said, a), Window) \in Turns
  BY <1>1, LastOfType
<1> QED
  BY <1>2 DEF AppendTurn, Conversation

LEMMA StayingType ==
  ASSUME NEW c \in Conversation, NEW who
  PROVE  Staying(c, who) \in Conversation /\ Staying(c, who).status = c.status
BY DEF Staying, Conversation

LEMMA ClosedType ==
  ASSUME NEW c \in Conversation
  PROVE  Closed(c) \in Conversation /\ Closed(c).status = "closed"
BY DEF Closed, Conversation

LEMMA IdleType ==
  ASSUME NEW c \in Conversation, NEW n \in Nat
  PROVE  [c EXCEPT !.idle = n] \in Conversation /\ [c EXCEPT !.idle = n].status = c.status
BY DEF Conversation

LEMMA DepartType ==
  ASSUME NEW c \in Conversation, NEW a, c.status # "none"
  PROVE  Depart(c, a) \in Conversation /\ Depart(c, a).status # "none"
BY StayingType, ClosedType DEF Depart

LEMMA SweptType ==
  ASSUME NEW c \in Conversation, NEW window, c.status # "none"
  PROVE  Swept(c, window) \in Conversation /\ Swept(c, window).status # "none"
<1>1. CASE Stayers(c) = {}
  BY <1>1, ClosedType DEF Swept
<1>2. CASE Stayers(c) # {} /\ Stayers(c) # c.members
  <2>1. Swept(c, window) = [Staying(c, Stayers(c)) EXCEPT !.idle = 0]
    BY <1>2 DEF Swept
  <2>2. Staying(c, Stayers(c)) \in Conversation /\ Staying(c, Stayers(c)).status = c.status
    BY StayingType
  <2> QED
    BY <2>1, <2>2, IdleType
<1>3. CASE Stayers(c) # {} /\ Stayers(c) = c.members
  <2>1. Swept(c, window) = IF Expired(c, window) THEN Closed(c) ELSE [c EXCEPT !.idle = c.idle + 1]
    BY <1>3 DEF Swept
  <2>2. c.idle + 1 \in Nat
    BY DEF Conversation
  <2>3. [c EXCEPT !.idle = c.idle + 1] \in Conversation /\ [c EXCEPT !.idle = c.idle + 1].status = c.status
    BY <2>2, IdleType
  <2> QED
    BY <2>1, <2>3, ClosedType
<1> QED
  BY <1>1, <1>2, <1>3
-----------------------------------------------------------------------------
(* What all commits have in common: the conversations that are not synced    *)
(* are as live as they were, and no conversation is forgotten.               *)

Commits ==
  \E changed \in SUBSET Ids, cs \in [Ids -> Conversation] :
    /\ Commit(changed, cs)
    /\ \A i \in Ids \ changed : Live(cs[i]) <=> Live(convs[i])
    /\ \A i \in Ids : convs[i].status # "none" => cs[i].status # "none"

LEMMA OneChange ==
  ASSUME TypeOK, NEW i \in Ids, NEW c \in Conversation, c.status # "none",
         Commit({i}, [convs EXCEPT ![i] = c])
  PROVE  Commits
<1> DEFINE cs == [convs EXCEPT ![i] = c]
<1>1. convs \in [Ids -> Conversation]
  BY DEF TypeOK
<1>2. cs \in [Ids -> Conversation]
  BY <1>1
<1>3. \A j \in Ids : cs[j] = IF j = i THEN c ELSE convs[j]
  BY <1>1
<1> HIDE DEF cs
<1>4. \A j \in Ids \ {i} : Live(cs[j]) <=> Live(convs[j])
  BY <1>3
<1>5. \A j \in Ids : convs[j].status # "none" => cs[j].status # "none"
  BY <1>3
<1>6. Commit({i}, cs)
  BY DEF cs
<1> QED
  BY <1>2, <1>4, <1>5, <1>6 DEF Commits

LEMMA OpenCommits ==
  ASSUME TypeOK, NEW a \in Agents, NEW b \in Agents, OpenConversation(a, b)
  PROVE  Commits
<1> DEFINE base == [NoConversation EXCEPT !.room = room[a], !.members = {a, b}]
           c == [AppendTurn(base, a) EXCEPT !.status = "open"]
<1>1. opened + 1 \in Ids
  <2>1. opened \in 0..MaxOpened
    BY DEF TypeOK
  <2>2. opened < MaxOpened
    BY DEF OpenConversation
  <2> QED
    BY <2>1, <2>2, LimitAssumption DEF Ids
<1>2. room[a] \in Rooms \cup {Nowhere}
  BY DEF TypeOK
<1>3. base \in Conversation
  BY <1>2, NoConversationType DEF Conversation
<1>4. AppendTurn(base, a) \in Conversation
  BY <1>3, AppendTurnType
<1>5. c \in Conversation /\ c.status = "open"
  BY <1>4 DEF Conversation
<1>6. Commit({opened + 1}, [convs EXCEPT ![opened + 1] = c])
  BY DEF OpenConversation
<1> HIDE DEF c
<1> QED
  BY <1>1, <1>5, <1>6, OneChange

LEMMA ContributeCommits ==
  ASSUME TypeOK, NEW a \in Agents, NEW i \in Ids, Live(convs[i]), Contribute(a, i)
  PROVE  Commits
<1>1. convs[i] \in Conversation /\ convs[i].status # "none"
  BY DEF TypeOK, Live
<1>2. CASE Commit({i}, [convs EXCEPT ![i] = Depart(convs[i], a)])
  BY <1>1, <1>2, DepartType, OneChange
<1>3. CASE Commit({i}, [convs EXCEPT ![i] = AppendTurn(convs[i], a)])
  BY <1>1, <1>3, AppendTurnType, OneChange
<1> QED
  BY <1>2, <1>3 DEF Contribute

LEMMA JoinCommits ==
  ASSUME TypeOK, NEW a \in Agents, NEW i \in Ids, Join(a, i)
  PROVE  Commits
<1> DEFINE c == [convs[i] EXCEPT !.members = convs[i].members \cup {a}, !.idle = 0]
<1>1. convs[i] \in Conversation /\ convs[i].status # "none"
  BY DEF Join, TypeOK, Live
<1>2. c \in Conversation /\ c.status # "none"
  BY <1>1 DEF Conversation
<1>3. convs \in [Ids -> Conversation]
  BY DEF TypeOK
<1>4. [convs EXCEPT ![i].members = @ \cup {a}, ![i].idle = 0] = [convs EXCEPT ![i] = c]
  BY <1>1, <1>3 DEF Conversation
<1>5. Commit({i}, [convs EXCEPT ![i] = c])
  BY <1>4 DEF Join
<1> HIDE DEF c
<1> QED
  BY <1>2, <1>5, OneChange

LEMMA LeaveCommits ==
  ASSUME TypeOK, NEW a \in Agents, NEW i \in Ids, Leave(a, i)
  PROVE  Commits
<1> DEFINE d == Depart(convs[i], a)
           c == IF Live(d) THEN [d EXCEPT !.idle = 0] ELSE d
<1>1. convs[i] \in Conversation /\ convs[i].status # "none"
  BY DEF TypeOK, Leave
<1>2. d \in Conversation /\ d.status # "none"
  BY <1>1, DepartType
<1>3. c \in Conversation /\ c.status # "none"
  BY <1>2, IdleType
<1>4. Commit({i}, [convs EXCEPT ![i] = c])
  BY DEF Leave
<1> HIDE DEF c, d
<1> QED
  BY <1>3, <1>4, OneChange

LEMMA DespawnCommits ==
  ASSUME TypeOK, NEW a \in Agents, Despawn(a)
  PROVE  Commits
<1> DEFINE his == {i \in Ids : Live(convs[i]) /\ a \in convs[i].members}
           cs == [i \in Ids |-> IF i \in his THEN Depart(convs[i], a) ELSE convs[i]]
<1>1. \A i \in Ids : convs[i] \in Conversation
  BY DEF TypeOK
<1>2. \A i \in his : convs[i].status # "none"
  BY DEF Live
<1>3. his \in SUBSET Ids
  OBVIOUS
<1>4. Commit(his, cs)
  BY DEF Despawn
<1> HIDE DEF his
<1>5. \A i \in Ids : cs[i] = IF i \in his THEN Depart(convs[i], a) ELSE convs[i]
  OBVIOUS
<1>6. cs \in [Ids -> Conversation]
  BY <1>1, <1>2, <1>3, DepartType
<1> HIDE DEF cs
<1>7. \A i \in Ids \ his : Live(cs[i]) <=> Live(convs[i])
  BY <1>5
<1>8. \A i \in Ids : convs[i].status # "none" => cs[i].status # "none"
  BY <1>1, <1>5, DepartType
<1> QED
  BY <1>3, <1>4, <1>6, <1>7, <1>8 DEF Commits

LEMMA SweepCommits ==
  ASSUME TypeOK, NEW window, Sweep(window)
  PROVE  Commits
<1> DEFINE live == {i \in Ids : Live(convs[i])}
           cs == [i \in Ids |-> IF i \in live THEN Swept(convs[i], window) ELSE convs[i]]
           changed == {i \in live : cs[i].members # convs[i].members \/ ~Live(cs[i])}
<1>1. \A i \in Ids : convs[i] \in Conversation
  BY DEF TypeOK
<1>2. Commit(changed, cs)
  BY DEF Sweep
<1>3. \A i \in live : i \in Ids /\ Live(convs[i]) /\ convs[i].status # "none"
  BY DEF Live
<1>4. \A i \in Ids : cs[i] = IF i \in live THEN Swept(convs[i], window) ELSE convs[i]
  OBVIOUS
<1>5. cs \in [Ids -> Conversation]
  BY <1>1, <1>3, SweptType
<1>6. changed \in SUBSET Ids
  OBVIOUS
<1>7. \A i \in Ids \ changed : Live(cs[i]) <=> Live(convs[i])
  <2> SUFFICES ASSUME NEW i \in Ids, i \notin changed PROVE Live(cs[i]) <=> Live(convs[i])
    OBVIOUS
  <2>1. CASE i \in live
    <3>1. Live(cs[i])
      BY <2>1
    <3> QED
      BY <3>1, <2>1
  <2>2. CASE i \notin live
    BY <2>2, <1>4
  <2> QED
    BY <2>1, <2>2
<1> HIDE DEF cs
<1>8. \A i \in Ids : convs[i].status # "none" => cs[i].status # "none"
  BY <1>1, <1>3, <1>4, SweptType
<1> HIDE DEF changed
<1> QED
  BY <1>2, <1>5, <1>6, <1>7, <1>8 DEF Commits

LEMMA CommitsType ==
  ASSUME TypeOK, Commits
  PROVE  convs' \in [Ids -> Conversation] /\ mirrors' \subseteq Ids /\ storing' \subseteq Key
BY DEF TypeOK, Commits, Commit, Mirrored, NotesDue

LEMMA CountType == \A n \in Count : UpTo2(n) \in Count /\ UpTo2(n + 1) \in Count
BY DEF Count, UpTo2

LEMMA GrantType ==
  ASSUME TypeOK, NEW due, due \subseteq Key, Grant(due)
  PROVE  granted' \subseteq Key /\ paid' \in [Key -> Count]
<1>1. \A k \in Key : paid[k] \in Count
  BY DEF TypeOK
<1> QED
  BY <1>1, CountType DEF Grant, TypeOK

LEMMA BonusDueType ==
  ASSUME NEW i \in Ids, NEW c \in Conversation, NEW a
  PROVE  BonusDue(i, c, a) \subseteq Key
BY DEF BonusDue, Key, Conversation

LEMMA NoDraftType == NoDraft \in Draft /\ ~NoDraft.valid
BY StrangersType DEF NoDraft, Draft, Count

LEMMA NoSaveType == NoSave \in Save /\ ~NoSave.valid
BY NoDraftType, NoConversationType, NotDormantType DEF NoSave, Save

Spent == [churn : 0..MaxChurn, saves : 0..MaxSaves, restarts : 0..MaxLoads, loads : 0..MaxLoads]

LEMMA TalkTypes ==
  ASSUME TypeOK, NEW a \in Agents, NEW b \in Agents, Talk(a, b)
  PROVE  TypeOK'
<1>1. gap' \in [Agents -> [Agents -> Int]]
  <2>1. a # b /\ gap \in Gaps
    BY DEF Talk, TalkTargets, TypeOK, Gaps
  <2>2. gap' = [gap EXCEPT ![a][b] = @ + 1, ![b][a] = @ - 1]
    BY DEF Talk, CountTalk
  <2>3. [gap EXCEPT ![a][b] = @ + 1, ![b][a] = @ - 1] \in Gaps
    BY <2>1, TalkIsGap
  <2> QED
    BY <2>2, <2>3 DEF Gaps
<1>2. Commits
  BY OpenCommits, ContributeCommits DEF Talk, Between
<1>3. convs' \in [Ids -> Conversation] /\ mirrors' \subseteq Ids /\ storing' \subseteq Key
  BY <1>2, CommitsType
<1>4. opened' \in 0..MaxOpened /\ granted' \subseteq Key /\ paid' \in [Key -> Count]
  <2>1. CASE OpenConversation(a, b)
    BY <2>1, LimitAssumption DEF OpenConversation, bonusVars, TypeOK
  <2>2. ASSUME NEW i \in Between(a, b), Contribute(a, i)
        PROVE  opened' \in 0..MaxOpened /\ granted' \subseteq Key /\ paid' \in [Key -> Count]
    <3>1. i \in Ids /\ convs[i] \in Conversation /\ opened' = opened
      BY <2>2 DEF Between, TypeOK, Contribute
    <3>2. CASE UNCHANGED bonusVars
      BY <3>1, <3>2 DEF bonusVars, TypeOK
    <3>3. CASE Grant(BonusDue(i, AppendTurn(convs[i], a), a))
      <4>1. BonusDue(i, AppendTurn(convs[i], a), a) \subseteq Key
        BY <3>1, AppendTurnType, BonusDueType
      <4>2. granted' \subseteq Key /\ paid' \in [Key -> Count]
        BY <3>3, <4>1, GrantType
      <4> QED
        BY <3>1, <4>2 DEF TypeOK
    <3> QED
      BY <2>2, <3>2, <3>3 DEF Contribute
  <2> QED
    BY <2>1, <2>2 DEF Talk
<1>5. UNCHANGED <<room, dormant, mutated, notes, draft, saved, strayed, spent>>
  BY DEF Talk, saveVars
<1> QED
  BY <1>1, <1>3, <1>4, <1>5 DEF TypeOK

LEMMA CommitTypes ==
  ASSUME TypeOK, Commits, UNCHANGED <<agentVars, opened, bonusVars, notes, saveVars, spent>>,
         strayed' \subseteq Agents
  PROVE  TypeOK'
<1>1. convs' \in [Ids -> Conversation] /\ mirrors' \subseteq Ids /\ storing' \subseteq Key
  BY CommitsType
<1>2. UNCHANGED <<room, gap, dormant, mutated, opened, granted, paid, notes, draft, saved, spent>>
  BY DEF agentVars, bonusVars, saveVars
<1> QED
  BY <1>1, <1>2 DEF TypeOK

LEMMA ChurnTypes ==
  ASSUME TypeOK, Churn,
         room' \in Places, gap' \in Gaps, dormant' \in [Agents -> Asleep],
         convs' \in [Ids -> Conversation], mirrors' \subseteq Ids, storing' \subseteq Key
  PROVE  TypeOK'
<1>1. spent' \in Spent /\ mutated' \in BOOLEAN
  BY LimitAssumption DEF Churn, TypeOK, Spent
<1>2. UNCHANGED <<opened, granted, paid, notes, draft, saved, strayed>>
  BY DEF Churn, bonusVars, saveVars
<1> QED
  BY <1>1, <1>2 DEF TypeOK, Spent, Places, Gaps
-----------------------------------------------------------------------------
LEMMA TInit == Init => TypeOK
<1> SUFFICES ASSUME Init PROVE TypeOK
  OBVIOUS
<1>1. room \in [Agents -> Rooms \cup {Nowhere}] /\ opened \in 0..MaxOpened
  BY WorldAssumption, LimitAssumption DEF Init
<1>2. gap \in [Agents -> [Agents -> Int]] /\ dormant \in [Agents -> Asleep]
  BY StrangersType, NotDormantType DEF Init
<1>3. convs \in [Ids -> Conversation] /\ granted \subseteq Key /\ mirrors \subseteq Ids
  BY NoConversationType DEF Init
<1>4. paid \in [Key -> Count] /\ notes \in [Key -> Count] /\ storing \subseteq Key
  BY DEF Init, Count
<1>5. draft \in Draft /\ saved \in Save /\ mutated \in BOOLEAN /\ strayed \subseteq Agents
  BY NoDraftType, NoSaveType DEF Init
<1>6. spent \in Spent
  BY LimitAssumption DEF Init, Spent
<1> QED
  BY <1>1, <1>2, <1>3, <1>4, <1>5, <1>6 DEF TypeOK, Spent

LEMMA TStep == TypeOK /\ [Next]_vars => TypeOK'
<1> SUFFICES ASSUME TypeOK, [Next]_vars PROVE TypeOK'
  OBVIOUS
<1>1. ASSUME NEW a \in Agents, NEW i \in Ids, Join(a, i) PROVE TypeOK'
  <2>1. Commits
    BY <1>1, JoinCommits
  <2> QED
    BY <1>1, <2>1, CommitTypes DEF Join, TypeOK
<1>2. ASSUME NEW a \in Agents, NEW i \in Ids, Leave(a, i) PROVE TypeOK'
  <2>1. Commits
    BY <1>2, LeaveCommits
  <2> QED
    BY <1>2, <2>1, CommitTypes DEF Leave, TypeOK
<1>3. ASSUME NEW window, Sweep(window) PROVE TypeOK'
  <2>1. Commits
    BY <1>3, SweepCommits
  <2> QED
    BY <1>3, <2>1, CommitTypes DEF Sweep
<1>4. ASSUME NEW a \in Agents, NEW r \in Rooms, Move(a, r) PROVE TypeOK'
  <2>1. room' \in [Agents -> Rooms \cup {Nowhere}] /\ strayed' \subseteq Agents
    BY <1>4 DEF Move, TypeOK
  <2>2. UNCHANGED <<gap, dormant, mutated, convVars, bonusVars, notes, saveVars, spent>>
    BY <1>4 DEF Move
  <2> QED
    BY <2>1, <2>2 DEF TypeOK, convVars, bonusVars, saveVars
<1>5. ASSUME NEW a \in Agents, NEW r \in Rooms, SpawnFresh(a, r) PROVE TypeOK'
  <2>1. room' \in Places /\ gap' \in Gaps
    BY <1>5, StrangersType DEF SpawnFresh, TypeOK, Places, Gaps
  <2>2. Churn /\ UNCHANGED <<dormant, convs, mirrors, storing>>
    BY <1>5 DEF SpawnFresh
  <2> QED
    BY <2>1, <2>2, ChurnTypes DEF TypeOK
<1>6. ASSUME NEW a \in Agents, SpawnDormant(a) PROVE TypeOK'
  <2>0. dormant[a] \in Asleep
    BY DEF TypeOK
  <2>1. room' \in Places /\ gap' \in Gaps
    BY <1>6, <2>0 DEF SpawnDormant, TypeOK, Places, Gaps, Asleep
  <2>2. dormant' \in [Agents -> Asleep]
    BY <1>6, NotDormantType DEF SpawnDormant, TypeOK
  <2>3. Churn /\ UNCHANGED <<convs, mirrors, storing>>
    BY <1>6 DEF SpawnDormant
  <2> QED
    BY <2>1, <2>2, <2>3, ChurnTypes DEF TypeOK
<1>7. ASSUME NEW a \in Agents, Despawn(a) PROVE TypeOK'
  <2>1. room' \in Places /\ gap' \in Gaps
    BY <1>7, StrangersType DEF Despawn, TypeOK, Places, Gaps
  <2>2. dormant' \in [Agents -> Asleep]
    <3>1. [stored |-> TRUE, room |-> room[a], gap |-> gap[a]] \in Asleep
      BY DEF TypeOK, Asleep
    <3> QED
      BY <1>7, <3>1 DEF Despawn, TypeOK
  <2>3. Churn
    BY <1>7 DEF Despawn
  <2>4. Commits
    BY <1>7, DespawnCommits
  <2> QED
    BY <2>1, <2>2, <2>3, <2>4, CommitsType, ChurnTypes
<1>8. ASSUME NEW k \in Key, NoteWritten(k) \/ NoteLost(k) PROVE TypeOK'
  <2>1. notes' \in [Key -> Count] /\ storing' \subseteq Key
    BY <1>8, CountType DEF NoteWritten, NoteLost, TypeOK
  <2>2. UNCHANGED <<agentVars, convs, opened, mirrors, bonusVars, saveVars, strayed, spent>>
    BY <1>8 DEF NoteWritten, NoteLost
  <2> QED
    BY <2>1, <2>2 DEF TypeOK, agentVars, bonusVars, saveVars
<1>9. ASSUME SaveBegins PROVE TypeOK'
  <2>1. draft' \in Draft
    BY <1>9 DEF SaveBegins, TypeOK, Draft
  <2>2. spent' \in Spent
    BY <1>9, LimitAssumption DEF SaveBegins, TypeOK, Spent
  <2>3. UNCHANGED <<agentVars, convVars, bonusVars, notes, saved, strayed>>
    BY <1>9 DEF SaveBegins
  <2> QED
    BY <2>1, <2>2, <2>3 DEF TypeOK, Spent, agentVars, convVars, bonusVars
<1>10. ASSUME SaveEnds PROVE TypeOK'
  <2>1. saved' \in Save /\ draft' \in Draft
    BY <1>10, NoDraftType DEF SaveEnds, TypeOK, Save
  <2>2. UNCHANGED <<agentVars, convVars, bonusVars, notes, strayed, spent>>
    BY <1>10 DEF SaveEnds
  <2> QED
    BY <2>1, <2>2 DEF TypeOK, agentVars, convVars, bonusVars
<1>11. Existing(saved.convs) \subseteq Ids /\ SavedMirrors \subseteq Ids
  BY DEF Existing, SavedMirrors, Mirrored, TypeOK, Save, Draft
<1>12. ASSUME Restore
       PROVE  /\ room' \in Places /\ gap' \in Gaps
              /\ paid' \in [Key -> Count] /\ notes' \in [Key -> Count]
              /\ strayed' \subseteq Agents /\ saved' \in Save
              /\ spent.restarts + 1 \in 0..MaxLoads /\ spent.loads + 1 \in 0..MaxLoads
  BY <1>12, LimitAssumption DEF Restore, TypeOK, Save, Draft, Places, Gaps
<1>13. ASSUME Restart PROVE TypeOK'
  <2>1. convs' \in [Ids -> Conversation] /\ dormant' \in [Agents -> Asleep] /\ mutated' \in BOOLEAN
    BY <1>13 DEF Restart, TypeOK, Save
  <2>2. opened' \in 0..MaxOpened /\ mirrors' \subseteq Ids /\ granted' = {} /\ storing' = {}
    BY <1>13, <1>11 DEF Restart
  <2>3. draft' \in Draft
    BY <1>13, NoDraftType DEF Restart
  <2>4. Restore
    BY <1>13 DEF Restart
  <2>5. spent' \in Spent
    BY <1>13, <2>4, <1>12 DEF Restart, TypeOK, Spent
  <2> QED
    BY <2>1, <2>2, <2>3, <2>4, <2>5, <1>12 DEF TypeOK, Spent, Places, Gaps
<1>14. ASSUME Load PROVE TypeOK'
  <2>1. convs' \in [Ids -> Conversation] /\ dormant' \in [Agents -> Asleep] /\ mutated' \in BOOLEAN
    BY <1>14 DEF Load, TypeOK, Save
  <2>2. mirrors' \subseteq Ids /\ UNCHANGED <<opened, granted, storing, draft>>
    BY <1>14, <1>11 DEF Load, TypeOK, Save, Draft
  <2>3. Restore
    BY <1>14 DEF Load
  <2>4. spent' \in Spent
    BY <1>14, <2>3, <1>12 DEF Load, TypeOK, Spent
  <2> QED
    BY <2>1, <2>2, <2>3, <2>4, <1>12 DEF TypeOK, Spent, Places, Gaps
<1>15. ASSUME UNCHANGED vars PROVE TypeOK'
  BY <1>15 DEF TypeOK, vars, agentVars, convVars, bonusVars, saveVars
<1> QED
  BY <1>1, <1>2, <1>3, <1>4, <1>5, <1>6, <1>7, <1>8, <1>9, <1>10, <1>13, <1>14, <1>15, TalkTypes
  DEF Next, Social, SweepStep

(* Every value of the conversations, their participants and their saves is of *)
(* its type, and no window of turns is longer than CONVERSATION_TURN_WINDOW  *)
(* (shared/src/types/conversation.ts:175), restarts and loads included.      *)
THEOREM TypeCorrect == Spec => []TypeOK
  BY TInit, TStep, PTL DEF Spec
-----------------------------------------------------------------------------
(* The mirrors.  Whoever changes which conversations are live commits that   *)
(* change; and a save, read before and after its await, holds no mirror of a *)
(* conversation it does not hold, for conversations are never forgotten.     *)

LiveIds(cs) == {i \in Ids : Live(cs[i])}

MInv ==
  /\ TypeOK
  /\ mirrors \subseteq LiveIds(convs)
  /\ spent.loads = 0 => mirrors = LiveIds(convs)
  /\ draft.valid => draft.mirrors \subseteq Existing(convs)
  /\ saved.valid => saved.world.mirrors \subseteq Existing(saved.convs)

\* What is live has not been forgotten.
LEMMA LiveExists == \A cs : LiveIds(cs) \subseteq Existing(cs)
BY DEF LiveIds, Existing, Live

\* Syncing what has changed keeps the mirrors exact.
LEMMA MirroredIsExact ==
  ASSUME NEW ms, NEW cs, NEW ds, NEW changed \in SUBSET Ids,
         \A i \in Ids \ changed : Live(ds[i]) <=> Live(cs[i])
  PROVE  /\ ms \subseteq LiveIds(cs) => Mirrored(ms, changed, ds) \subseteq LiveIds(ds)
         /\ ms = LiveIds(cs) => Mirrored(ms, changed, ds) = LiveIds(ds)
BY DEF Mirrored, LiveIds

\* Syncing every conversation of a save mends its mirrors.
LEMMA RestoredIsExact ==
  ASSUME NEW ms, NEW cs, ms \subseteq Existing(cs)
  PROVE  Mirrored(ms, Existing(cs), cs) = LiveIds(cs)
BY DEF Mirrored, LiveIds, Existing, Live

LEMMA MCommits ==
  ASSUME MInv, TypeOK', Commits, UNCHANGED <<draft, saved>>, spent'.loads = spent.loads
  PROVE  MInv'
<1>1. PICK changed \in SUBSET Ids, cs \in [Ids -> Conversation] :
        /\ Commit(changed, cs)
        /\ \A i \in Ids \ changed : Live(cs[i]) <=> Live(convs[i])
        /\ \A i \in Ids : convs[i].status # "none" => cs[i].status # "none"
  BY DEF Commits
<1>2. convs' = cs /\ mirrors' = Mirrored(mirrors, changed, cs)
  BY <1>1 DEF Commit
<1>3. /\ mirrors \subseteq LiveIds(convs) => mirrors' \subseteq LiveIds(cs)
      /\ mirrors = LiveIds(convs) => mirrors' = LiveIds(cs)
  BY <1>1, <1>2, MirroredIsExact
<1>4. Existing(convs) \subseteq Existing(cs)
  BY <1>1 DEF Existing
<1> QED
  BY <1>2, <1>3, <1>4 DEF MInv

LEMMA MSame ==
  ASSUME MInv, TypeOK', UNCHANGED <<convs, mirrors, draft, saved>>, spent'.loads = spent.loads
  PROVE  MInv'
BY DEF MInv

LEMMA MInit == Init => MInv
<1> SUFFICES ASSUME Init PROVE MInv
  OBVIOUS
<1>1. mirrors = {} /\ LiveIds(convs) = {}
  BY NoConversationType DEF Init, LiveIds
<1>2. ~draft.valid /\ ~saved.valid
  BY NoDraftType, NoSaveType DEF Init
<1> QED
  BY <1>1, <1>2, TInit DEF MInv

LEMMA MStep == MInv /\ [Next]_vars => MInv'
<1> SUFFICES ASSUME MInv, [Next]_vars PROVE MInv'
  OBVIOUS
<1>0. TypeOK /\ TypeOK'
  BY TStep DEF MInv
<1>1. ASSUME NEW a \in Agents, NEW b \in Agents, Talk(a, b) PROVE MInv'
  <2>1. Commits
    BY <1>0, <1>1, OpenCommits, ContributeCommits DEF Talk, Between
  <2> QED
    BY <1>0, <1>1, <2>1, MCommits DEF Talk, saveVars
<1>2. ASSUME NEW a \in Agents, NEW i \in Ids, Join(a, i) \/ Leave(a, i) PROVE MInv'
  <2>1. Commits
    BY <1>0, <1>2, JoinCommits, LeaveCommits
  <2> QED
    BY <1>0, <1>2, <2>1, MCommits DEF Join, Leave, saveVars
<1>3. ASSUME NEW window, Sweep(window) PROVE MInv'
  <2>1. Commits
    BY <1>0, <1>3, SweepCommits
  <2> QED
    BY <1>0, <1>3, <2>1, MCommits DEF Sweep, saveVars
<1>4. ASSUME Churn PROVE spent'.loads = spent.loads
  BY <1>0, <1>4 DEF Churn, TypeOK
<1>5. ASSUME NEW a \in Agents, Despawn(a) PROVE MInv'
  <2>1. Commits
    BY <1>0, <1>5, DespawnCommits
  <2>2. Churn
    BY <1>5 DEF Despawn
  <2> QED
    BY <1>0, <1>4, <2>1, <2>2, MCommits DEF Churn, saveVars
<1>6. ASSUME NEW a \in Agents, NEW r, SpawnFresh(a, r) \/ SpawnDormant(a) PROVE MInv'
  <2>1. Churn /\ UNCHANGED <<convs, mirrors>>
    BY <1>6 DEF SpawnFresh, SpawnDormant
  <2> QED
    BY <1>0, <1>4, <2>1, MSame DEF Churn, saveVars
<1>7. ASSUME NEW a \in Agents, NEW r, Move(a, r) PROVE MInv'
  BY <1>0, <1>7, MSame DEF Move, convVars, saveVars
<1>8. ASSUME NEW k \in Key, NoteWritten(k) \/ NoteLost(k) PROVE MInv'
  BY <1>0, <1>8, MSame DEF NoteWritten, NoteLost, saveVars
<1>9. ASSUME SaveBegins PROVE MInv'
  <2>1. draft'.mirrors = mirrors /\ UNCHANGED <<convs, mirrors, saved>>
    BY <1>9 DEF SaveBegins, convVars
  <2>2. spent'.loads = spent.loads
    BY <1>0, <1>9 DEF SaveBegins, TypeOK
  <2>3. mirrors \subseteq Existing(convs)
    BY LiveExists DEF MInv
  <2> QED
    BY <1>0, <2>1, <2>2, <2>3 DEF MInv
<1>10. ASSUME SaveEnds PROVE MInv'
  <2>1. /\ draft.valid /\ ~draft'.valid /\ UNCHANGED <<convs, mirrors, spent>>
        /\ saved'.world = draft /\ saved'.convs = convs
    BY <1>10, NoDraftType DEF SaveEnds, convVars
  <2> QED
    BY <1>0, <2>1 DEF MInv
<1>11. saved.valid => SavedMirrors = LiveIds(saved.convs)
  BY RestoredIsExact DEF MInv, SavedMirrors
<1>12. ASSUME Restart PROVE MInv'
  <2>1. /\ saved.valid /\ ~draft'.valid /\ UNCHANGED saved
        /\ convs' = saved.convs /\ mirrors' = SavedMirrors
    BY <1>12, NoDraftType DEF Restart, Restore
  <2> QED
    BY <1>0, <1>11, <2>1 DEF MInv
<1>13. ASSUME Load PROVE MInv'
  <2>1. saved.valid /\ ~draft.valid /\ UNCHANGED <<saved, draft>>
    BY <1>13 DEF Load, Restore, BetweenTurns
  <2>2. spent'.loads # 0
    <3>1. spent.loads \in Nat /\ spent'.loads = spent.loads + 1
      BY <1>0, <1>13 DEF Load, TypeOK
    <3> QED
      BY <3>1
  <2>3. mirrors' \subseteq LiveIds(convs')
    <3>1. CASE Existing(saved.convs) # {}
      BY <1>11, <1>13, <2>1, <3>1 DEF Load
    <3>2. CASE Existing(saved.convs) = {}
      <4>1. mirrors' = saved.world.mirrors
        BY <1>13, <3>2 DEF Load
      <4>2. saved.world.mirrors = {}
        BY <2>1, <3>2 DEF MInv
      <4> QED
        BY <4>1, <4>2
    <3> QED
      BY <3>1, <3>2
  <2> QED
    BY <1>0, <2>1, <2>2, <2>3 DEF MInv
<1>14. ASSUME UNCHANGED vars PROVE MInv'
  BY <1>0, <1>14, MSame DEF vars, convVars, saveVars
<1> QED
  BY <1>1, <1>2, <1>3, <1>5, <1>6, <1>7, <1>8, <1>9, <1>10, <1>12, <1>13, <1>14
  DEF Next, Social, SweepStep

(* The registry shows no dead conversation and, unless a save was loaded into *)
(* the running process, every live one (conversation-manager.ts:728, issue   *)
(* #224), for any number of saves, loads and restarts.                       *)
THEOREM MirrorsAreExact == Spec => []MirrorsExact
<1>1. MInv => MirrorsExact
  BY DEF MInv, MirrorsExact, LiveIds
<1> QED
  BY <1>1, MInit, MStep, PTL DEF Spec
-----------------------------------------------------------------------------
(* What a step makes of a conversation: it begins with two agents of a room, *)
(* or, being live, keeps its room and its voices and closes with those who   *)
(* are in it, or lives on with fewer of them or with newcomers of its room.  *)

\* Whoever has a turn that counts, or that is still remembered, has spoken.
Heard(c) == c.turned \subseteq c.voices /\ \A n \in DOMAIN c.said : c.said[n] \in c.voices

Begins(c, d) ==
  /\ c.status = "none" /\ Live(d) /\ Heard(d)
  /\ d.room \in Rooms
  /\ \A x \in d.members : room[x] = d.room
  /\ \E a, b \in Agents : a # b /\ d.members = {a, b}

Goes(c, d) ==
  /\ Live(c) /\ d.room = c.room /\ c.voices \subseteq d.voices
  /\ Heard(c) => Heard(d)
  /\ \/ d.status = "closed" /\ d.members = c.members
     \/ Live(d) /\ d.members \subseteq c.members /\ (c.members # {} => d.members # {})
     \/ Live(d) /\ c.members \subseteq d.members
                /\ \A x \in d.members \ c.members : room[x] = c.room

Steps(c, d) == d = c \/ Begins(c, d) \/ Goes(c, d)

AllStep == \A i \in Ids : Steps(convs[i], convs'[i])

AllGo == \A i \in Ids : convs'[i] = convs[i] \/ Goes(convs[i], convs'[i])

LEMMA ClosedGoes ==
  ASSUME NEW c \in Conversation, Live(c)
  PROVE  Goes(c, Closed(c))
BY DEF Goes, Closed, Conversation, Heard

LEMMA IdleGoes ==
  ASSUME NEW c \in Conversation, Live(c), NEW n \in Nat
  PROVE  Goes(c, [c EXCEPT !.idle = n])
BY DEF Goes, Conversation, Heard, Live

LEMMA StayingGoes ==
  ASSUME NEW c \in Conversation, Live(c), NEW who, c.members \cap who # {}, NEW n \in Nat
  PROVE  Goes(c, Staying(c, who)) /\ Goes(c, [Staying(c, who) EXCEPT !.idle = n])
BY DEF Goes, Staying, Conversation, Heard, Live

LEMMA DepartGoes ==
  ASSUME NEW c \in Conversation, Live(c), c.members # {}, NEW a, NEW n \in Nat
  PROVE  /\ Goes(c, Depart(c, a))
         /\ Live(Depart(c, a)) => Goes(c, [Depart(c, a) EXCEPT !.idle = n])
         /\ Live(Depart(c, a)) => a \notin Depart(c, a).members
<1>1. CASE c.members = {a}
  BY <1>1, ClosedGoes, ClosedType DEF Depart, Live
<1>2. CASE c.members # {a}
  <2>1. c.members \cap (c.members \ {a}) # {}
    BY <1>2
  <2>2. Depart(c, a) = Staying(c, c.members \ {a})
    BY <1>2 DEF Depart
  <2>3. a \notin Staying(c, c.members \ {a}).members
    BY DEF Staying, Conversation
  <2> QED
    BY <2>1, <2>2, <2>3, StayingGoes
<1> QED
  BY <1>1, <1>2

\* What is remembered of the turns was said.
LEMMA LastOfSaid ==
  ASSUME NEW t \in Seq(Agents), NEW n \in DOMAIN LastOf(t, Window)
  PROVE  \E k \in 1..Len(t) : LastOf(t, Window)[n] = t[k]
<1>0. Len(t) \in Nat /\ Window \in Nat /\ Window > 0
  BY LimitAssumption
<1>1. CASE Len(t) > Window
  <2> DEFINE m == Len(t) - Window + 1
  <2>1. LastOf(t, Window) = SubSeq(t, m, Len(t)) /\ m \in 1..Len(t)
    BY <1>0, <1>1 DEF LastOf
  <2>2. Len(SubSeq(t, m, Len(t))) = Window
    BY <1>0, <1>1
  <2>3. n \in 1..Window
    BY <2>1, <2>2, <1>0
  <2>4. SubSeq(t, m, Len(t))[n] = t[m + n - 1] /\ m + n - 1 \in 1..Len(t)
    BY <2>3, <1>0, <1>1
  <2> QED
    BY <2>1, <2>4
<1>2. CASE ~(Len(t) > Window)
  BY <1>2 DEF LastOf
<1> QED
  BY <1>1, <1>2

LEMMA LastTurnSaid ==
  ASSUME NEW s \in Seq(Agents), NEW a \in Agents,
         NEW n \in DOMAIN LastOf(Append(s, a), Window)
  PROVE  LastOf(Append(s, a), Window)[n] = a
         \/ \E m \in DOMAIN s : LastOf(Append(s, a), Window)[n] = s[m]
<1>1. Append(s, a) \in Seq(Agents)
  OBVIOUS
<1>2. PICK k \in 1..Len(Append(s, a)) : LastOf(Append(s, a), Window)[n] = Append(s, a)[k]
  BY <1>1, LastOfSaid
<1>3. Append(s, a)[k] = a \/ (k \in DOMAIN s /\ Append(s, a)[k] = s[k])
  OBVIOUS
<1> QED
  BY <1>2, <1>3

LEMMA AppendTurnIs ==
  ASSUME NEW c \in Conversation, NEW a \in Agents
  PROVE  /\ AppendTurn(c, a).room = c.room /\ AppendTurn(c, a).members = c.members
         /\ AppendTurn(c, a).voices = c.voices \cup {a}
         /\ Heard(c) => Heard(AppendTurn(c, a))
<1>1. /\ AppendTurn(c, a).room = c.room /\ AppendTurn(c, a).members = c.members
      /\ AppendTurn(c, a).voices = c.voices \cup {a}
      /\ AppendTurn(c, a).turned = c.turned \cup {a}
      /\ AppendTurn(c, a).said = LastOf(Append(c.said, a), Window)
  BY DEF AppendTurn, Conversation
<1>2. c.said \in Seq(Agents)
  BY DEF Conversation, Turns
<1>3. ASSUME Heard(c), NEW n \in DOMAIN AppendTurn(c, a).said
      PROVE  AppendTurn(c, a).said[n] \in AppendTurn(c, a).voices
  <2>1. AppendTurn(c, a).said[n] = a \/ \E m \in DOMAIN c.said : AppendTurn(c, a).said[n] = c.said[m]
    BY <1>1, <1>2, <1>3, LastTurnSaid
  <2> QED
    BY <1>1, <1>3, <2>1 DEF Heard
<1> QED
  BY <1>1, <1>3 DEF Heard

LEMMA AppendTurnGoes ==
  ASSUME NEW c \in Conversation, Live(c), NEW a \in Agents
  PROVE  Goes(c, AppendTurn(c, a))
BY AppendTurnIs, AppendTurnType DEF Goes, Live

LEMMA SweptGoes ==
  ASSUME NEW c \in Conversation, Live(c), NEW window
  PROVE  /\ Goes(c, Swept(c, window))
         /\ Live(Swept(c, window)) => Swept(c, window).members \subseteq Stayers(c)
<1>0. Stayers(c) \subseteq c.members
  BY DEF Stayers
<1>1. CASE Stayers(c) = {}
  BY <1>1, ClosedGoes, ClosedType DEF Swept, Live
<1>2. CASE Stayers(c) # {} /\ Stayers(c) # c.members
  <2>1. Swept(c, window) = [Staying(c, Stayers(c)) EXCEPT !.idle = 0]
    BY <1>2 DEF Swept
  <2>2. c.members \cap Stayers(c) # {}
    BY <1>0, <1>2
  <2>3. [Staying(c, Stayers(c)) EXCEPT !.idle = 0].members \subseteq Stayers(c)
    BY DEF Staying, Conversation
  <2> QED
    BY <2>1, <2>2, <2>3, StayingGoes
<1>3. CASE Stayers(c) # {} /\ Stayers(c) = c.members
  <2>1. Swept(c, window) = IF Expired(c, window) THEN Closed(c) ELSE [c EXCEPT !.idle = c.idle + 1]
    BY <1>3 DEF Swept
  <2>2. c.idle + 1 \in Nat /\ [c EXCEPT !.idle = c.idle + 1].members = c.members
    BY DEF Conversation
  <2> QED
    BY <1>3, <2>1, <2>2, ClosedGoes, ClosedType, IdleGoes DEF Live
<1> QED
  BY <1>1, <1>2, <1>3
-----------------------------------------------------------------------------
(* No identifier is used before its turn; a live conversation has a room and *)
(* somebody in it; and who counts as a speaker in it has spoken.             *)

WellKept(cs) ==
  \A i \in Ids :
    /\ cs[i].status # "none" => i <= opened
    /\ Live(cs[i]) => cs[i].members # {} /\ cs[i].room \in Rooms
    /\ Heard(cs[i])

KInv ==
  /\ MInv
  /\ WellKept(convs)
  /\ saved.valid => WellKept(saved.convs)

LEMMA NoConversationHeard == Heard(NoConversation)
BY DEF Heard, NoConversation

LEMMA OpenedType == opened \in 0..MaxOpened => opened \in Nat /\ \A i \in Ids : i \in Nat
BY LimitAssumption DEF Ids

LEMMA OpenSteps ==
  ASSUME KInv, NEW a \in Agents, NEW b \in TalkTargets(a), OpenConversation(a, b)
  PROVE  AllStep
<1> DEFINE base == [NoConversation EXCEPT !.room = room[a], !.members = {a, b}]
           c == [AppendTurn(base, a) EXCEPT !.status = "open"]
<1>0. TypeOK
  BY DEF KInv, MInv
<1>1. opened + 1 \in Ids /\ convs[opened + 1].status = "none"
  <2>1. opened \in 0..MaxOpened /\ opened < MaxOpened
    BY <1>0 DEF TypeOK, OpenConversation
  <2>2. opened + 1 \in Ids /\ ~(opened + 1 <= opened)
    BY <2>1, LimitAssumption DEF Ids
  <2> QED
    BY <2>2 DEF KInv, WellKept
<1>2. /\ b \in Agents /\ a # b
      /\ room[a] \in Rooms /\ room[b] = room[a]
  BY <1>0 DEF TalkTargets, Active, TypeOK
<1>3. base \in Conversation /\ base.room = room[a] /\ base.members = {a, b} /\ Heard(base)
  BY <1>2, NoConversationType, NoConversationHeard DEF Conversation, Heard
<1> HIDE DEF base
<1>4. /\ AppendTurn(base, a) \in Conversation
      /\ AppendTurn(base, a).room = room[a] /\ AppendTurn(base, a).members = {a, b}
      /\ Heard(AppendTurn(base, a))
  BY <1>3, AppendTurnType, AppendTurnIs
<1>5. /\ c.status = "open" /\ c.room = room[a] /\ c.members = {a, b} /\ Heard(c)
  BY <1>4 DEF Conversation, Heard
<1>6. convs' = [convs EXCEPT ![opened + 1] = c]
  BY DEF OpenConversation, Commit, base
<1> HIDE DEF c
<1>7. Begins(convs[opened + 1], c)
  BY <1>1, <1>2, <1>5 DEF Begins, Live
<1>8. convs \in [Ids -> Conversation]
  BY <1>0 DEF TypeOK
<1> QED
  BY <1>1, <1>6, <1>7, <1>8 DEF AllStep, Steps

LEMMA OneGoes ==
  ASSUME TypeOK, NEW i \in Ids, NEW c, Goes(convs[i], c), convs' = [convs EXCEPT ![i] = c]
  PROVE  AllGo
BY DEF TypeOK, AllGo

LEMMA ContributeGoes ==
  ASSUME KInv, NEW a \in Agents, NEW i \in Ids, Live(convs[i]), Contribute(a, i)
  PROVE  AllGo
<1>1. TypeOK /\ convs[i] \in Conversation /\ convs[i].members # {}
  BY DEF KInv, MInv, TypeOK, WellKept
<1>2. CASE convs' = [convs EXCEPT ![i] = Depart(convs[i], a)]
  <2>1. Goes(convs[i], Depart(convs[i], a))
    BY <1>1, DepartGoes
  <2> QED
    BY <1>1, <1>2, <2>1, OneGoes
<1>3. CASE convs' = [convs EXCEPT ![i] = AppendTurn(convs[i], a)]
  <2>1. Goes(convs[i], AppendTurn(convs[i], a))
    BY <1>1, AppendTurnGoes
  <2> QED
    BY <1>1, <1>3, <2>1, OneGoes
<1> QED
  BY <1>2, <1>3 DEF Contribute, Commit

LEMMA TalkSteps ==
  ASSUME KInv, NEW a \in Agents, NEW b \in Agents, Talk(a, b)
  PROVE  AllStep
BY OpenSteps, ContributeGoes DEF Talk, Between, AllGo, AllStep, Steps

LEMMA JoinGoes ==
  ASSUME KInv, NEW a \in Agents, NEW i \in Ids, Join(a, i)
  PROVE  AllGo
<1> DEFINE c == [convs[i] EXCEPT !.members = convs[i].members \cup {a}, !.idle = 0]
<1>1. TypeOK /\ convs \in [Ids -> Conversation] /\ convs[i] \in Conversation /\ Live(convs[i])
  BY DEF KInv, MInv, TypeOK, Join
<1>2. /\ c.members = convs[i].members \cup {a} /\ c.status = convs[i].status
      /\ c.room = convs[i].room /\ c.voices = convs[i].voices
      /\ c.turned = convs[i].turned /\ c.said = convs[i].said
  BY <1>1 DEF Conversation
<1>3. [convs EXCEPT ![i].members = @ \cup {a}, ![i].idle = 0] = [convs EXCEPT ![i] = c]
  BY <1>1 DEF Conversation
<1>4. convs' = [convs EXCEPT ![i] = c] /\ room[a] = convs[i].room
  BY <1>3 DEF Join, Commit
<1> HIDE DEF c
<1>5. Goes(convs[i], c)
  BY <1>1, <1>2, <1>4 DEF Goes, Live, Heard
<1> QED
  BY <1>1, <1>4, <1>5, OneGoes

LEMMA LeaveGoes ==
  ASSUME KInv, NEW a \in Agents, NEW i \in Ids, Leave(a, i)
  PROVE  AllGo
<1> DEFINE d == Depart(convs[i], a)
           c == IF Live(d) THEN [d EXCEPT !.idle = 0] ELSE d
<1>1. i \in LiveIds(convs)
  BY DEF KInv, MInv, Leave
<1>2. TypeOK /\ convs[i] \in Conversation /\ Live(convs[i]) /\ convs[i].members # {}
  BY <1>1 DEF KInv, MInv, TypeOK, LiveIds, WellKept
<1>3. Goes(convs[i], c)
  BY <1>2, DepartGoes
<1>4. convs' = [convs EXCEPT ![i] = c]
  BY DEF Leave, Commit
<1> HIDE DEF c, d
<1> QED
  BY <1>2, <1>3, <1>4, OneGoes

LEMMA DespawnGoes ==
  ASSUME KInv, NEW a \in Agents, Despawn(a)
  PROVE  /\ AllGo
         /\ \A i \in Ids : Live(convs'[i]) => Live(convs[i]) /\ a \notin convs'[i].members
<1> DEFINE his == {i \in Ids : Live(convs[i]) /\ a \in convs[i].members}
<1>1. \A i \in Ids : convs'[i] = IF i \in his THEN Depart(convs[i], a) ELSE convs[i]
  BY DEF Despawn, Commit
<1>2. \A i \in Ids : convs[i] \in Conversation /\ (Live(convs[i]) => convs[i].members # {})
  BY DEF KInv, MInv, TypeOK, WellKept
<1>3. ASSUME NEW i \in his
      PROVE  Goes(convs[i], convs'[i]) /\ (Live(convs'[i]) => a \notin convs'[i].members)
  BY <1>1, <1>2, DepartGoes
<1>4. \A i \in Ids \ his : convs'[i] = convs[i] /\ (Live(convs[i]) => a \notin convs[i].members)
  BY <1>1
<1>5. \A i \in his : Live(convs[i])
  OBVIOUS
<1> HIDE DEF his
<1> QED
  BY <1>3, <1>4, <1>5 DEF AllGo

LEMMA SweepGoes ==
  ASSUME KInv, NEW window, Sweep(window)
  PROVE  /\ AllGo
         /\ \A i \in Ids : Live(convs'[i]) =>
              Live(convs[i]) /\ convs'[i].members \subseteq Stayers(convs[i])
<1>1. \A i \in Ids : convs'[i] = IF Live(convs[i]) THEN Swept(convs[i], window) ELSE convs[i]
  BY DEF Sweep, Commit
<1>2. \A i \in Ids : convs[i] \in Conversation
  BY DEF KInv, MInv, TypeOK
<1>3. \A i \in Ids : Live(convs[i]) => 
        /\ Goes(convs[i], convs'[i])
        /\ Live(convs'[i]) => convs'[i].members \subseteq Stayers(convs[i])
  BY <1>1, <1>2, SweptGoes
<1> QED
  BY <1>1, <1>3 DEF AllGo
-----------------------------------------------------------------------------
\* A step of any kind, with its new identifier if it begins a conversation.
LEMMA KAllStep ==
  ASSUME KInv, MInv', AllStep, opened' \in Nat, opened <= opened',
         \A i \in Ids : convs[i].status = "none" /\ convs'[i].status # "none" => i <= opened',
         UNCHANGED saved
  PROVE  KInv'
<1>1. opened \in Nat /\ \A i \in Ids : i \in Nat
  BY OpenedType DEF KInv, MInv, TypeOK
<1>2. WellKept(convs)'
  <2> SUFFICES ASSUME NEW i \in Ids
               PROVE  /\ convs'[i].status # "none" => i <= opened'
                      /\ Live(convs'[i]) => convs'[i].members # {} /\ convs'[i].room \in Rooms
                      /\ Heard(convs'[i])
    BY DEF WellKept
  <2>0. /\ convs[i].status # "none" => i <= opened
        /\ Live(convs[i]) => convs[i].members # {} /\ convs[i].room \in Rooms
        /\ Heard(convs[i])
    BY DEF KInv, WellKept
  <2>1. convs'[i].status # "none" => i <= opened'
    BY <1>1, <2>0
  <2>2. Steps(convs[i], convs'[i])
    BY DEF AllStep
  <2>3. CASE convs'[i] = convs[i]
    BY <2>0, <2>1, <2>3
  <2>4. CASE Begins(convs[i], convs'[i])
    BY <2>0, <2>1, <2>4 DEF Begins
  <2>5. CASE Goes(convs[i], convs'[i])
    BY <2>0, <2>1, <2>5 DEF Goes, Live
  <2> QED
    BY <2>2, <2>3, <2>4, <2>5 DEF Steps
<1>3. saved.valid => WellKept(saved.convs)'
  BY <1>1 DEF KInv, WellKept
<1> QED
  BY <1>2, <1>3 DEF KInv

\* Nothing begins without a new identifier.
LEMMA KGoes ==
  ASSUME KInv, MInv', AllGo, UNCHANGED <<opened, saved>>
  PROVE  KInv'
<1>1. opened \in Nat
  BY OpenedType DEF KInv, MInv, TypeOK
<1>2. AllStep /\ \A i \in Ids : convs[i].status = "none" => convs'[i].status = "none"
  BY DEF AllGo, AllStep, Steps, Goes, Live
<1> QED
  BY <1>1, <1>2, KAllStep

LEMMA KSame ==
  ASSUME KInv, MInv', UNCHANGED <<convs, opened, saved>>
  PROVE  KInv'
BY DEF KInv, WellKept

LEMMA KOpens ==
  ASSUME KInv, MInv', NEW a \in Agents, NEW b \in TalkTargets(a), OpenConversation(a, b),
         UNCHANGED saved
  PROVE  KInv'
<1>1. AllStep
  BY OpenSteps
<1>2. opened \in Nat /\ opened' = opened + 1 /\ convs \in [Ids -> Conversation]
  BY OpenedType DEF KInv, MInv, TypeOK, OpenConversation
<1>3. \A i \in Ids : i # opened + 1 => convs'[i] = convs[i]
  BY <1>2 DEF OpenConversation, Commit
<1>4. \A i \in Ids : convs[i].status = "none" /\ convs'[i].status # "none" => i <= opened'
  BY <1>2, <1>3
<1> QED
  BY <1>1, <1>2, <1>4, KAllStep

LEMMA KInit == Init => KInv
<1> SUFFICES ASSUME Init PROVE KInv
  OBVIOUS
<1>1. \A i \in Ids : convs[i] = NoConversation
  BY DEF Init
<1>2. NoConversation.status = "none" /\ ~saved.valid
  BY NoSaveType DEF NoConversation, Init
<1> QED
  BY <1>1, <1>2, MInit, NoConversationType, NoConversationHeard DEF KInv, WellKept

LEMMA KStep == KInv /\ [Next]_vars => KInv'
<1> SUFFICES ASSUME KInv, [Next]_vars PROVE KInv'
  OBVIOUS
<1>0. TypeOK /\ MInv'
  BY MStep DEF KInv, MInv
<1>1. ASSUME NEW a \in Agents, NEW b \in Agents, Talk(a, b) PROVE KInv'
  <2>1. b \in TalkTargets(a) /\ UNCHANGED saved
    BY <1>1 DEF Talk, saveVars
  <2>2. CASE OpenConversation(a, b)
    BY <1>0, <2>1, <2>2, KOpens
  <2>3. ASSUME NEW i \in Between(a, b), Contribute(a, i) PROVE KInv'
    <3>1. AllGo /\ UNCHANGED opened
      BY <2>3, ContributeGoes DEF Between, Contribute
    <3> QED
      BY <1>0, <2>1, <3>1, KGoes
  <2> QED
    BY <1>1, <2>2, <2>3 DEF Talk
<1>2. ASSUME NEW a \in Agents, NEW i \in Ids, Join(a, i) \/ Leave(a, i) PROVE KInv'
  BY <1>0, <1>2, JoinGoes, LeaveGoes, KGoes DEF Join, Leave, saveVars
<1>3. ASSUME NEW window, Sweep(window) PROVE KInv'
  <2>1. AllGo
    BY <1>3, SweepGoes
  <2> QED
    BY <1>0, <1>3, <2>1, KGoes DEF Sweep, saveVars
<1>4. ASSUME NEW a \in Agents, Despawn(a) PROVE KInv'
  <2>1. AllGo
    BY <1>4, DespawnGoes
  <2>2. UNCHANGED <<opened, saved>>
    BY <1>4 DEF Despawn, Churn, saveVars
  <2> QED
    BY <1>0, <2>1, <2>2, KGoes
<1>5. ASSUME NEW a \in Agents, NEW r,
             Move(a, r) \/ SpawnFresh(a, r) \/ SpawnDormant(a)
      PROVE  KInv'
  BY <1>0, <1>5, KSame DEF Move, SpawnFresh, SpawnDormant, Churn, convVars, saveVars
<1>6. ASSUME NEW k \in Key, NoteWritten(k) \/ NoteLost(k) PROVE KInv'
  BY <1>0, <1>6, KSame DEF NoteWritten, NoteLost, saveVars
<1>7. ASSUME SaveBegins PROVE KInv'
  BY <1>0, <1>7, KSame DEF SaveBegins, convVars
<1>8. ASSUME SaveEnds PROVE KInv'
  <2>1. saved'.convs = convs /\ UNCHANGED <<convs, opened>>
    BY <1>8 DEF SaveEnds, convVars
  <2> QED
    BY <1>0, <2>1 DEF KInv, WellKept
<1>9. ASSUME Restart PROVE KInv'
  <2>1. saved.valid /\ convs' = saved.convs /\ UNCHANGED saved
    BY <1>9 DEF Restart, Restore
  <2>2. opened' \in Nat /\ \A i \in Ids : saved.convs[i].status # "none" => i <= opened'
    BY <1>9, LimitAssumption DEF Restart, Existing
  <2> QED
    BY <1>0, <2>1, <2>2 DEF KInv, WellKept
<1>10. ASSUME Load PROVE KInv'
  <2>1. saved.valid /\ (convs' = saved.convs \/ convs' = convs) /\ UNCHANGED <<opened, saved>>
    BY <1>10 DEF Load, Restore
  <2> QED
    BY <1>0, <2>1 DEF KInv, WellKept
<1>11. ASSUME UNCHANGED vars PROVE KInv'
  BY <1>0, <1>11, KSame DEF vars, convVars, saveVars
<1> QED
  BY <1>1, <1>2, <1>3, <1>4, <1>5, <1>6, <1>7, <1>8, <1>9, <1>10, <1>11
  DEF Next, Social, SweepStep
-----------------------------------------------------------------------------
(* The exchange bonus.  Voices are never unsaid, so what was a fair payment  *)
(* stays one, in the world, in a save in flight and in a save.               *)

Rewarded(p, cs) ==
  \A k \in Key : p[k] > 0 =>
    /\ cs[k[1]].status # "none"
    /\ k[2] \in cs[k[1]].voices /\ cs[k[1]].voices \ {k[2]} # {}

RInv ==
  /\ KInv
  /\ Rewarded(paid, convs)
  /\ draft.valid => Rewarded(draft.paid, convs)
  /\ saved.valid => Rewarded(saved.world.paid, saved.convs)

LEMMA RewardedLasts ==
  ASSUME NEW p, Rewarded(p, convs), AllStep
  PROVE  Rewarded(p, convs')
<1> SUFFICES ASSUME NEW k \in Key, p[k] > 0
             PROVE  /\ convs'[k[1]].status # "none"
                    /\ k[2] \in convs'[k[1]].voices /\ convs'[k[1]].voices \ {k[2]} # {}
  BY DEF Rewarded
<1>1. k[1] \in Ids
  BY DEF Key
<1>2. /\ convs[k[1]].status # "none"
      /\ k[2] \in convs[k[1]].voices /\ convs[k[1]].voices \ {k[2]} # {}
  BY DEF Rewarded
<1>3. Steps(convs[k[1]], convs'[k[1]])
  BY <1>1 DEF AllStep
<1>4. CASE convs'[k[1]] = convs[k[1]]
  BY <1>2, <1>4
<1>5. CASE Goes(convs[k[1]], convs'[k[1]])
  <2>1. convs[k[1]].voices \subseteq convs'[k[1]].voices /\ convs'[k[1]].status # "none"
    BY <1>5 DEF Goes, Live
  <2> QED
    BY <1>2, <2>1
<1> QED
  BY <1>2, <1>3, <1>4, <1>5 DEF Steps, Begins

\* A bonus is due to somebody else than the one who speaks, who spoke before.
LEMMA BonusIsFair ==
  ASSUME NEW c \in Conversation, Heard(c), NEW a \in Agents, NEW i,
         NEW k \in BonusDue(i, AppendTurn(c, a), a)
  PROVE  /\ k[1] = i /\ k \notin granted
         /\ k[2] \in AppendTurn(c, a).voices /\ AppendTurn(c, a).voices \ {k[2]} # {}
<1> DEFINE d == AppendTurn(c, a)
<1>1. Heard(d) /\ a \in d.voices
  BY AppendTurnIs
<1> HIDE DEF d
<1>2. /\ k \in {i} \X (d.members \ {a}) /\ k \notin granted
      /\ k[2] \in d.turned \/ \E m \in DOMAIN d.said : d.said[m] = k[2]
  BY DEF BonusDue, d
<1>3. k[1] = i /\ k[2] # a
  BY <1>2
<1>4. k[2] \in d.voices
  BY <1>1, <1>2 DEF Heard
<1> QED
  BY <1>1, <1>2, <1>3, <1>4 DEF d

LEMMA RContribute ==
  ASSUME KInv, Rewarded(paid, convs), NEW a \in Agents, NEW i \in Ids,
         Live(convs[i]), Contribute(a, i), AllStep
  PROVE  Rewarded(paid, convs)'
<1>0. TypeOK /\ convs[i] \in Conversation /\ Heard(convs[i])
  BY DEF KInv, MInv, TypeOK, WellKept
<1>1. Rewarded(paid, convs')
  BY RewardedLasts
<1>2. CASE UNCHANGED bonusVars
  BY <1>1, <1>2 DEF bonusVars
<1>3. CASE /\ convs' = [convs EXCEPT ![i] = AppendTurn(convs[i], a)]
           /\ Grant(BonusDue(i, AppendTurn(convs[i], a), a))
  <2> DEFINE due == BonusDue(i, AppendTurn(convs[i], a), a)
  <2>1. convs'[i] = AppendTurn(convs[i], a) /\ AppendTurn(convs[i], a).status # "none"
    BY <1>0, <1>3, AppendTurnType DEF TypeOK
  <2>2. \A k \in due : /\ k[1] = i /\ k[2] \in convs'[i].voices
                         /\ convs'[i].voices \ {k[2]} # {}
    BY <1>0, <2>1, BonusIsFair
  <2>3. \A k \in Key : paid'[k] = IF k \in due THEN UpTo2(paid[k] + 1) ELSE paid[k]
    BY <1>3 DEF Grant
  <2> HIDE DEF due
  <2> SUFFICES ASSUME NEW k \in Key, paid'[k] > 0
               PROVE  /\ convs'[k[1]].status # "none"
                      /\ k[2] \in convs'[k[1]].voices /\ convs'[k[1]].voices \ {k[2]} # {}
    BY DEF Rewarded
  <2>4. CASE k \in due
    BY <2>1, <2>2, <2>4
  <2>5. CASE k \notin due
    BY <1>1, <2>3, <2>5 DEF Rewarded
  <2> QED
    BY <2>4, <2>5
<1> QED
  BY <1>2, <1>3 DEF Contribute, Commit

LEMMA RAllStep ==
  ASSUME RInv, KInv', AllStep, Rewarded(paid, convs)', UNCHANGED <<draft, saved>>
  PROVE  RInv'
BY RewardedLasts DEF RInv

LEMMA RGoes ==
  ASSUME RInv, KInv', AllGo, UNCHANGED <<paid, draft, saved>>
  PROVE  RInv'
<1>1. AllStep
  BY DEF AllGo, AllStep, Steps
<1> QED
  BY <1>1, RewardedLasts DEF RInv

LEMMA RSame ==
  ASSUME RInv, KInv', UNCHANGED <<convs, paid, draft, saved>>
  PROVE  RInv'
BY DEF RInv, Rewarded

LEMMA RInit == Init => RInv
<1> SUFFICES ASSUME Init PROVE RInv
  OBVIOUS
<1>1. ~draft.valid /\ ~saved.valid /\ \A k \in Key : paid[k] = 0
  BY NoDraftType, NoSaveType DEF Init
<1> QED
  BY <1>1, KInit DEF RInv, Rewarded

LEMMA RStep == RInv /\ [Next]_vars => RInv'
<1> SUFFICES ASSUME RInv, [Next]_vars PROVE RInv'
  OBVIOUS
<1>0. KInv /\ KInv' /\ Rewarded(paid, convs)
  BY KStep DEF RInv
<1>1. ASSUME NEW a \in Agents, NEW b \in Agents, Talk(a, b) PROVE RInv'
  <2>1. AllStep /\ UNCHANGED <<draft, saved>>
    BY <1>0, <1>1, TalkSteps DEF Talk, saveVars
  <2>2. Rewarded(paid, convs)'
    <3>1. CASE UNCHANGED paid
      BY <1>0, <2>1, <3>1, RewardedLasts
    <3>2. ASSUME NEW i \in Between(a, b), Contribute(a, i) PROVE Rewarded(paid, convs)'
      BY <1>0, <2>1, <3>2, RContribute DEF Between
    <3> QED
      BY <1>1, <3>1, <3>2 DEF Talk, OpenConversation, bonusVars
  <2> QED
    BY <1>0, <2>1, <2>2, RAllStep
<1>2. ASSUME NEW a \in Agents, NEW i \in Ids, Join(a, i) \/ Leave(a, i) PROVE RInv'
  BY <1>0, <1>2, JoinGoes, LeaveGoes, RGoes DEF Join, Leave, bonusVars, saveVars
<1>3. ASSUME NEW window, Sweep(window) PROVE RInv'
  <2>1. AllGo
    BY <1>0, <1>3, SweepGoes
  <2> QED
    BY <1>0, <1>3, <2>1, RGoes DEF Sweep, bonusVars, saveVars
<1>4. ASSUME NEW a \in Agents, Despawn(a) PROVE RInv'
  <2>1. AllGo
    BY <1>0, <1>4, DespawnGoes
  <2>2. UNCHANGED <<paid, draft, saved>>
    BY <1>4 DEF Despawn, Churn, bonusVars, saveVars
  <2> QED
    BY <1>0, <2>1, <2>2, RGoes
<1>5. ASSUME NEW a \in Agents, NEW r,
             Move(a, r) \/ SpawnFresh(a, r) \/ SpawnDormant(a)
      PROVE  RInv'
  BY <1>0, <1>5, RSame DEF Move, SpawnFresh, SpawnDormant, Churn, convVars, bonusVars, saveVars
<1>6. ASSUME NEW k \in Key, NoteWritten(k) \/ NoteLost(k) PROVE RInv'
  BY <1>0, <1>6, RSame DEF NoteWritten, NoteLost, bonusVars, saveVars
<1>7. ASSUME SaveBegins PROVE RInv'
  <2>1. draft'.paid = paid /\ UNCHANGED <<convs, paid, saved>>
    BY <1>7 DEF SaveBegins, convVars, bonusVars
  <2> QED
    BY <1>0, <2>1 DEF RInv, Rewarded
<1>8. ASSUME SaveEnds PROVE RInv'
  <2>1. /\ draft.valid /\ ~draft'.valid /\ UNCHANGED <<convs, paid>>
        /\ saved'.world = draft /\ saved'.convs = convs
    BY <1>8, NoDraftType DEF SaveEnds, convVars, bonusVars
  <2> QED
    BY <1>0, <2>1 DEF RInv, Rewarded
<1>9. ASSUME Restart PROVE RInv'
  <2>1. /\ saved.valid /\ ~draft'.valid /\ UNCHANGED saved
        /\ convs' = saved.convs /\ paid' = saved.world.paid
    BY <1>9, NoDraftType DEF Restart, Restore
  <2> QED
    BY <1>0, <2>1 DEF RInv
<1>10. ASSUME Load PROVE RInv'
  <2>1. /\ saved.valid /\ ~draft.valid /\ UNCHANGED <<draft, saved>>
        /\ paid' = saved.world.paid
    BY <1>10 DEF Load, Restore, BetweenTurns
  <2>2. CASE Existing(saved.convs) # {}
    <3>1. convs' = saved.convs
      BY <1>10, <2>2 DEF Load
    <3> QED
      BY <1>0, <2>1, <3>1 DEF RInv
  <2>3. CASE Existing(saved.convs) = {}
    <3>1. \A k \in Key : ~(saved.world.paid[k] > 0)
      BY <2>1, <2>3 DEF RInv, Rewarded, Existing, Key
    <3> QED
      BY <1>0, <2>1, <3>1 DEF RInv, Rewarded
  <2> QED
    BY <2>2, <2>3
<1>11. ASSUME UNCHANGED vars PROVE RInv'
  BY <1>0, <1>11, RSame DEF vars, convVars, bonusVars, saveVars
<1> QED
  BY <1>1, <1>2, <1>3, <1>4, <1>5, <1>6, <1>7, <1>8, <1>9, <1>10, <1>11
  DEF Next, Social, SweepStep

(* The bonus of an exchange (conversation-manager.ts:468)                    *)
(* never rewards a monologue: who was paid has spoken, and so has somebody   *)
(* else, through saves, restarts and loads.                                  *)
THEOREM MonologuesEarnNothing == Spec => []NoRewardForMonologue
<1>1. RInv => NoRewardForMonologue
  BY DEF RInv, Rewarded, NoRewardForMonologue
<1> QED
  BY <1>1, RInit, RStep, PTL DEF Spec
-----------------------------------------------------------------------------
(* The grants are not saved, but a process that never restarts forgets none  *)
(* of them; and what a save holds was granted before it was made.            *)

\* No process is started from a save.
NoRestart == "restart" \notin LoadWays \/ MaxLoads = 0

Once(p) == \A k \in Key : p[k] <= 1 /\ (p[k] > 0 => k \in granted)

OInv ==
  /\ TypeOK
  /\ Once(paid)
  /\ draft.valid => Once(draft.paid)
  /\ saved.valid => Once(saved.world.paid)

LEMMA OSame ==
  ASSUME OInv, TypeOK', UNCHANGED <<granted, paid, draft, saved>>
  PROVE  OInv'
BY DEF OInv, Once

LEMMA OContribute ==
  ASSUME OInv, TypeOK', NEW a \in Agents, NEW i \in Ids, Contribute(a, i),
         UNCHANGED <<draft, saved>>
  PROVE  OInv'
<1>1. CASE UNCHANGED bonusVars
  BY <1>1, OSame DEF bonusVars
<1>2. CASE Grant(BonusDue(i, AppendTurn(convs[i], a), a))
  <2> DEFINE due == BonusDue(i, AppendTurn(convs[i], a), a)
  <2>1. \A k \in due : k \notin granted
    BY DEF BonusDue
  <2>2. /\ \A k \in Key : paid'[k] = IF k \in due THEN UpTo2(paid[k] + 1) ELSE paid[k]
        /\ granted' = granted \cup due
    BY <1>2 DEF Grant
  <2> HIDE DEF due
  <2>3. \A k \in Key : paid[k] \in Count
    BY DEF OInv, TypeOK
  <2>4. ASSUME NEW k \in Key PROVE paid'[k] <= 1 /\ (paid'[k] > 0 => k \in granted')
    <3>1. CASE k \in due
      <4>1. paid[k] = 0
        BY <2>1, <2>3, <3>1 DEF OInv, Once, Count
      <4>2. paid'[k] = 1
        BY <2>2, <3>1, <4>1 DEF UpTo2
      <4> QED
        BY <2>2, <3>1, <4>2
    <3>2. CASE k \notin due
      BY <2>2, <3>2 DEF OInv, Once
    <3> QED
      BY <3>1, <3>2
  <2> QED
    BY <2>2, <2>4 DEF OInv, Once
<1> QED
  BY <1>1, <1>2 DEF Contribute

LEMMA OInit == Init => OInv
<1> SUFFICES ASSUME Init PROVE OInv
  OBVIOUS
<1>1. ~draft.valid /\ ~saved.valid /\ \A k \in Key : paid[k] = 0
  BY NoDraftType, NoSaveType DEF Init
<1> QED
  BY <1>1, TInit DEF OInv, Once

LEMMA OStep ==
  ASSUME NoRestart, OInv, [Next]_vars
  PROVE  OInv'
<1>0. TypeOK /\ TypeOK'
  BY TStep DEF OInv
<1>1. ASSUME NEW a \in Agents, NEW b \in Agents, Talk(a, b) PROVE OInv'
  <2>1. UNCHANGED <<draft, saved>>
    BY <1>1 DEF Talk, saveVars
  <2>2. CASE UNCHANGED bonusVars
    BY <1>0, <2>1, <2>2, OSame DEF bonusVars
  <2>3. ASSUME NEW i \in Between(a, b), Contribute(a, i) PROVE OInv'
    BY <1>0, <2>1, <2>3, OContribute DEF Between
  <2> QED
    BY <1>1, <2>2, <2>3 DEF Talk, OpenConversation
<1>2. ASSUME NEW a \in Agents, NEW i \in Ids, Join(a, i) \/ Leave(a, i) PROVE OInv'
  BY <1>0, <1>2, OSame DEF Join, Leave, bonusVars, saveVars
<1>3. ASSUME NEW window, Sweep(window) PROVE OInv'
  BY <1>0, <1>3, OSame DEF Sweep, bonusVars, saveVars
<1>4. ASSUME NEW a \in Agents, NEW r,
             Move(a, r) \/ SpawnFresh(a, r) \/ SpawnDormant(a) \/ Despawn(a)
      PROVE  OInv'
  BY <1>0, <1>4, OSame DEF Move, SpawnFresh, SpawnDormant, Despawn, Churn, bonusVars, saveVars
<1>5. ASSUME NEW k \in Key, NoteWritten(k) \/ NoteLost(k) PROVE OInv'
  BY <1>0, <1>5, OSame DEF NoteWritten, NoteLost, bonusVars, saveVars
<1>6. ASSUME SaveBegins PROVE OInv'
  <2>1. draft'.paid = paid /\ UNCHANGED <<granted, paid, saved>>
    BY <1>6 DEF SaveBegins, bonusVars
  <2> QED
    BY <1>0, <2>1 DEF OInv, Once
<1>7. ASSUME SaveEnds PROVE OInv'
  <2>1. draft.valid /\ ~draft'.valid /\ UNCHANGED <<granted, paid>> /\ saved'.world = draft
    BY <1>7, NoDraftType DEF SaveEnds, bonusVars
  <2> QED
    BY <1>0, <2>1 DEF OInv, Once
<1>8. ~Restart
  <2>1. ~(spent.restarts + spent.loads < 0)
    BY <1>0 DEF TypeOK
  <2> QED
    BY <2>1 DEF Restart, Restore, NoRestart
<1>9. ASSUME Load PROVE OInv'
  <2>1. saved.valid /\ paid' = saved.world.paid /\ UNCHANGED <<granted, draft, saved>>
    BY <1>9 DEF Load, Restore
  <2> QED
    BY <1>0, <2>1 DEF OInv, Once
<1>10. ASSUME UNCHANGED vars PROVE OInv'
  BY <1>0, <1>10, OSame DEF vars, bonusVars, saveVars
<1> QED
  BY <1>1, <1>2, <1>3, <1>4, <1>5, <1>6, <1>7, <1>8, <1>9, <1>10 DEF Next, Social, SweepStep

(* Without restarts the bonus is that of an exchange and of one only         *)
(* (conversation-manager.ts:473, exchangeRestored), however often an agent   *)
(* leaves and comes back, and whatever is loaded into the running process.   *)
THEOREM BonusesAreFair ==
  ASSUME NoRestart
  PROVE  Spec => []FairBonus
<1>1. OInv /\ [Next]_vars => OInv'
  BY OStep
<1>2. OInv => BonusOnce
  BY DEF OInv, Once, BonusOnce
<1>3. RInv => NoRewardForMonologue
  BY DEF RInv, Rewarded, NoRewardForMonologue
<1>4. NoRewardForMonologue /\ BonusOnce => FairBonus
  BY DEF FairBonus
<1> QED
  BY <1>1, <1>2, <1>3, <1>4, OInit, RInit, RStep, PTL DEF Spec
-----------------------------------------------------------------------------
(* Who has moved since the last sweep.  A save reads the places before its   *)
(* await and the conversations after it; whoever walks in between is one who *)
(* has moved, since no sweep comes between them.                             *)

InTheirRooms(r, cs, walkers) ==
  \A i \in Ids : Live(cs[i]) => \A x \in cs[i].members : r[x] # cs[i].room => x \in walkers

SInv ==
  /\ KInv
  /\ InTheirRooms(room, convs, strayed)
  /\ draft.valid => \A a \in Agents : draft.room[a] # room[a] => a \in strayed
  /\ saved.valid => InTheirRooms(saved.world.room, saved.convs, saved.strayed)

\* Whoever comes into a conversation is in its room.
LEMMA StepsInRooms ==
  ASSUME InTheirRooms(room, convs, strayed), AllStep
  PROVE  InTheirRooms(room, convs', strayed)
<1> SUFFICES ASSUME NEW i \in Ids, Live(convs'[i]), NEW x \in convs'[i].members,
                    room[x] # convs'[i].room
             PROVE  x \in strayed
  BY DEF InTheirRooms
<1>1. Steps(convs[i], convs'[i])
  BY DEF AllStep
<1>2. CASE convs'[i] = convs[i]
  BY <1>2 DEF InTheirRooms
<1>3. ~Begins(convs[i], convs'[i])
  BY DEF Begins
<1>4. CASE Goes(convs[i], convs'[i])
  <2>1. Live(convs[i]) /\ convs'[i].room = convs[i].room
    BY <1>4 DEF Goes
  <2>2. x \in convs[i].members
    BY <1>4, <2>1 DEF Goes, Live
  <2> QED
    BY <2>1, <2>2 DEF InTheirRooms
<1> QED
  BY <1>1, <1>2, <1>3, <1>4 DEF Steps

LEMMA SAllStep ==
  ASSUME SInv, KInv', AllStep, UNCHANGED <<room, strayed, draft, saved>>
  PROVE  SInv'
BY StepsInRooms DEF SInv

LEMMA SSame ==
  ASSUME SInv, KInv', UNCHANGED <<room, convs, strayed, draft, saved>>
  PROVE  SInv'
BY DEF SInv, InTheirRooms

\* Nobody who is not active is in a live conversation as one of its room.
LEMMA SSpawn ==
  ASSUME SInv, KInv', NEW a \in Agents, room[a] = Nowhere, NEW r,
         room' = [room EXCEPT ![a] = r],
         ~draft.valid, UNCHANGED <<convs, strayed, draft, saved>>
  PROVE  SInv'
<1>1. room \in [Agents -> Rooms \cup {Nowhere}]
  BY DEF SInv, KInv, MInv, TypeOK
<1>2. \A x : x \in Agents /\ x # a => room'[x] = room[x]
  BY <1>1
<1>3. \A i \in Ids : Live(convs[i]) => convs[i].room # Nowhere /\ convs[i].members \subseteq Agents
  BY WorldAssumption DEF SInv, KInv, MInv, TypeOK, WellKept, Conversation
<1>4. InTheirRooms(room', convs, strayed)
  BY <1>2, <1>3 DEF SInv, InTheirRooms
<1> QED
  BY <1>4 DEF SInv

LEMMA SInit == Init => SInv
<1> SUFFICES ASSUME Init PROVE SInv
  OBVIOUS
<1>1. ~draft.valid /\ ~saved.valid /\ \A i \in Ids : ~Live(convs[i])
  BY NoDraftType, NoSaveType, NoConversationType DEF Init
<1> QED
  BY <1>1, KInit DEF SInv, InTheirRooms

LEMMA SStep ==
  ASSUME "inPlace" \notin LoadWays, SInv, [Next]_vars
  PROVE  SInv'
<1>0. KInv /\ KInv' /\ InTheirRooms(room, convs, strayed)
  BY KStep DEF SInv
<1>1. ASSUME NEW a \in Agents, NEW b \in Agents, Talk(a, b) PROVE SInv'
  <2>1. AllStep
    BY <1>0, <1>1, TalkSteps
  <2> QED
    BY <1>0, <1>1, <2>1, SAllStep DEF Talk, saveVars
<1>2. AllGo => AllStep
  BY DEF AllGo, AllStep, Steps
<1>3. ASSUME NEW a \in Agents, NEW i \in Ids, Join(a, i) \/ Leave(a, i) PROVE SInv'
  BY <1>0, <1>2, <1>3, JoinGoes, LeaveGoes, SAllStep DEF Join, Leave, agentVars, saveVars
<1>4. ASSUME NEW window, Sweep(window) PROVE SInv'
  <2>1. \A i \in Ids : Live(convs'[i]) =>
          Live(convs[i]) /\ convs'[i].members \subseteq Stayers(convs[i])
    BY <1>0, <1>4, SweepGoes
  <2>2. \A i \in Ids : Live(convs'[i]) => convs'[i].room = convs[i].room
    <3>1. AllGo
      BY <1>0, <1>4, SweepGoes
    <3> QED
      BY <3>1 DEF AllGo, Goes
  <2>3. ~draft.valid /\ UNCHANGED <<room, draft, saved>>
    BY <1>4 DEF Sweep, BetweenTurns, agentVars, saveVars
  <2>4. InTheirRooms(room, convs, strayed)'
    BY <2>1, <2>2, <2>3 DEF InTheirRooms, Stayers
  <2> QED
    BY <1>0, <2>3, <2>4 DEF SInv
<1>5. ASSUME NEW a \in Agents, Despawn(a) PROVE SInv'
  <2>1. /\ ~draft.valid /\ UNCHANGED <<strayed, draft, saved>>
        /\ room' = [room EXCEPT ![a] = Nowhere]
    BY <1>5 DEF Despawn, Churn, BetweenTurns, saveVars
  <2>2. InTheirRooms(room, convs', strayed)
    BY <1>0, <1>2, <1>5, DespawnGoes, StepsInRooms
  <2>3. \A i \in Ids : Live(convs'[i]) => a \notin convs'[i].members
    BY <1>0, <1>5, DespawnGoes
  <2>4. /\ room \in [Agents -> Rooms \cup {Nowhere}]
        /\ \A i \in Ids : convs'[i].members \subseteq Agents
    BY <1>0 DEF KInv, MInv, TypeOK, Conversation
  <2>5. InTheirRooms(room, convs, strayed)'
    BY <2>1, <2>2, <2>3, <2>4 DEF InTheirRooms
  <2> QED
    BY <1>0, <2>1, <2>5 DEF SInv
<1>6. ASSUME NEW a \in Agents, NEW r \in Rooms, Move(a, r) PROVE SInv'
  <2>1. /\ room' = [room EXCEPT ![a] = r] /\ strayed' = strayed \cup {a}
        /\ UNCHANGED <<convs, draft, saved>>
    BY <1>6 DEF Move, convVars, saveVars
  <2>2. \A x \in Agents : x # a => room'[x] = room[x]
    BY <1>0, <2>1 DEF KInv, MInv, TypeOK
  <2>3. \A i \in Ids : convs[i].members \subseteq Agents
    BY <1>0 DEF KInv, MInv, TypeOK, Conversation
  <2>4. InTheirRooms(room, convs, strayed)'
    BY <1>0, <2>1, <2>2, <2>3 DEF InTheirRooms
  <2>5. draft.valid => \A x \in Agents : draft.room[x] # room'[x] => x \in strayed'
    BY <2>1, <2>2 DEF SInv
  <2> QED
    BY <1>0, <2>1, <2>4, <2>5 DEF SInv
<1>7. ASSUME NEW a \in Agents, NEW r, SpawnFresh(a, r) \/ SpawnDormant(a) PROVE SInv'
  <2>1. /\ room[a] = Nowhere /\ ~draft.valid /\ UNCHANGED <<convs, strayed, draft, saved>>
    BY <1>7 DEF SpawnFresh, SpawnDormant, Active, Churn, BetweenTurns, saveVars
  <2>2. PICK p : room' = [room EXCEPT ![a] = p]
    BY <1>7 DEF SpawnFresh, SpawnDormant
  <2> QED
    BY <1>0, <2>1, <2>2, SSpawn
<1>8. ASSUME NEW k \in Key, NoteWritten(k) \/ NoteLost(k) PROVE SInv'
  BY <1>0, <1>8, SSame DEF NoteWritten, NoteLost, agentVars, saveVars
<1>9. ASSUME SaveBegins PROVE SInv'
  <2>1. draft'.room = room /\ UNCHANGED <<room, convs, strayed, saved>>
    BY <1>9 DEF SaveBegins, agentVars, convVars
  <2> QED
    BY <1>0, <2>1 DEF SInv
<1>10. ASSUME SaveEnds PROVE SInv'
  <2>1. /\ draft.valid /\ ~draft'.valid /\ UNCHANGED <<room, convs, strayed>>
        /\ saved'.world = draft /\ saved'.convs = convs /\ saved'.strayed = strayed
    BY <1>10, NoDraftType DEF SaveEnds, agentVars, convVars
  <2>2. \A i \in Ids : convs[i].members \subseteq Agents
    BY <1>0 DEF KInv, MInv, TypeOK, Conversation
  <2>3. InTheirRooms(draft.room, convs, strayed)
    BY <1>0, <2>1, <2>2 DEF SInv, InTheirRooms
  <2> QED
    BY <1>0, <2>1, <2>3 DEF SInv
<1>11. ASSUME Restart PROVE SInv'
  <2>1. /\ saved.valid /\ ~draft'.valid /\ UNCHANGED saved
        /\ convs' = saved.convs /\ room' = saved.world.room /\ strayed' = saved.strayed
    BY <1>11, NoDraftType DEF Restart, Restore
  <2> QED
    BY <1>0, <2>1 DEF SInv
<1>12. ~Load
  BY DEF Load
<1>13. ASSUME UNCHANGED vars PROVE SInv'
  BY <1>0, <1>13, SSame DEF vars, agentVars, convVars, saveVars
<1> QED
  BY <1>1, <1>3, <1>4, <1>5, <1>6, <1>7, <1>8, <1>9, <1>10, <1>11, <1>12, <1>13
  DEF Next, Social, SweepStep

(* Nobody is kept in a conversation of another room beyond the next sweep    *)
(* (conversation-manager.ts:586, the co-location sweep): not by despawning,  *)
(* not by waking up elsewhere, not by walking while a save is being made.    *)
THEOREM StrayersAreSwept ==
  ASSUME "inPlace" \notin LoadWays
  PROVE  Spec => []StrayersSwept
<1>1. SInv /\ [Next]_vars => SInv'
  BY SStep
<1>2. SInv => StrayersSwept
  BY DEF SInv, InTheirRooms, StrayersSwept
<1> QED
  BY <1>1, <1>2, SInit, PTL DEF Spec
-----------------------------------------------------------------------------
(* The life of a conversation.  No note is due, on its way or stored while a *)
(* conversation may still go on; with neither restarts nor a store that      *)
(* rejects notes, what it leaves when it ends is what it is remembered by.   *)

LInv ==
  /\ KInv
  /\ \A k \in Key : convs[k[1]].status # "closed" => k \notin storing /\ notes[k] = 0

NotedOf(i) == {a \in Agents : <<i, a>> \in storing \/ notes[<<i, a>>] > 0}

\* One conversation in a step of ConversationLife.
Lives(i) ==
  \/ /\ Phase(convs'[i]) = Phase(convs[i]) /\ convs'[i].members = convs[i].members
     /\ NotedOf(i)' = NotedOf(i)
  \/ /\ Phase(convs[i]) = "none" /\ Phase(convs'[i]) = "live"
     /\ NotedOf(i)' = {} /\ \E a, b \in Agents : a # b /\ convs'[i].members = {a, b}
  \/ /\ Phase(convs[i]) = "live" /\ Phase(convs'[i]) = "live"
     /\ convs[i].members \subseteq convs'[i].members /\ NotedOf(i)' = NotedOf(i)
  \/ /\ Phase(convs[i]) = "live" /\ Phase(convs'[i]) = "live"
     /\ convs'[i].members \subseteq convs[i].members /\ convs'[i].members # {}
     /\ NotedOf(i)' = NotedOf(i)
  \/ /\ Phase(convs[i]) = "live" /\ Phase(convs'[i]) = "over"
     /\ convs'[i].members = convs[i].members /\ NotedOf(i)' = convs[i].members

AllLive == \A i \in Ids : Lives(i)

LEMMA LivesIsLife == AllLive => Life!LifeNext
<1> SUFFICES ASSUME AllLive, NEW i \in Ids
             PROVE  Life!Rest(i) \/ Life!Begin(i) \/ Life!Come(i) \/ Life!Go(i) \/ Life!End(i)
  BY DEF Life!LifeNext
<1>1. Lives(i)
  BY DEF AllLive
<1>2. CASE /\ Phase(convs'[i]) = Phase(convs[i]) /\ convs'[i].members = convs[i].members
           /\ NotedOf(i)' = NotedOf(i)
  <2>1. Life!Rest(i)
    BY <1>2 DEF NotedOf, Life!Rest
  <2> QED
    BY <2>1
<1>3. CASE /\ Phase(convs[i]) = "none" /\ Phase(convs'[i]) = "live"
           /\ NotedOf(i)' = {} /\ \E a, b \in Agents : a # b /\ convs'[i].members = {a, b}
  <2>1. Life!Begin(i)
    BY <1>3 DEF NotedOf, Life!Begin
  <2> QED
    BY <2>1
<1>4. CASE /\ Phase(convs[i]) = "live" /\ Phase(convs'[i]) = "live"
           /\ convs[i].members \subseteq convs'[i].members /\ NotedOf(i)' = NotedOf(i)
  <2>1. Life!Come(i)
    BY <1>4 DEF NotedOf, Life!Come
  <2> QED
    BY <2>1
<1>5. CASE /\ Phase(convs[i]) = "live" /\ Phase(convs'[i]) = "live"
           /\ convs'[i].members \subseteq convs[i].members /\ convs'[i].members # {}
           /\ NotedOf(i)' = NotedOf(i)
  <2>1. Life!Go(i)
    BY <1>5 DEF NotedOf, Life!Go
  <2> QED
    BY <2>1
<1>6. CASE /\ Phase(convs[i]) = "live" /\ Phase(convs'[i]) = "over"
           /\ convs'[i].members = convs[i].members /\ NotedOf(i)' = convs[i].members
  <2>1. Life!End(i)
    BY <1>6 DEF NotedOf, Life!End
  <2> QED
    BY <2>1
<1> QED
  BY <1>1, <1>2, <1>3, <1>4, <1>5, <1>6 DEF Lives

\* The notes of the conversations that end in a step, and no others.
EndingsNoted ==
  /\ notes' = notes
  /\ storing' = storing \cup
       {k \in Key : Live(convs[k[1]]) /\ ~Live(convs'[k[1]]) /\ k[2] \in convs'[k[1]].members}

LEMMA StepLives ==
  ASSUME LInv, TypeOK', AllStep, EndingsNoted
  PROVE  /\ AllLive
         /\ \A k \in Key : convs'[k[1]].status # "closed" => k \notin storing' /\ notes'[k] = 0
<1>0. TypeOK
  BY DEF LInv, KInv, MInv
<1>1. \A i \in Ids, x \in Agents :
        <<i, x>> \in storing' <=>
          \/ <<i, x>> \in storing
          \/ Live(convs[i]) /\ ~Live(convs'[i]) /\ x \in convs'[i].members
  BY DEF EndingsNoted, Key
<1>2. \A i \in Ids : convs[i].status # "closed" =>
        \A x \in Agents : <<i, x>> \notin storing /\ notes[<<i, x>>] = 0
  BY DEF LInv, Key
<1>3. ASSUME NEW i \in Ids
      PROVE  /\ Lives(i)
             /\ convs'[i].status # "closed" =>
                  \A x \in Agents : <<i, x>> \notin storing' /\ notes'[<<i, x>>] = 0
  <2>0. /\ convs'[i].members \subseteq Agents
        /\ convs[i].status \in {"none", "open", "active", "closed"}
        /\ convs'[i].status \in {"none", "open", "active", "closed"}
        /\ Live(convs[i]) => convs[i].members # {}
    BY <1>0 DEF TypeOK, Conversation, LInv, KInv, WellKept
  <2>1. ASSUME Live(convs[i]) => Live(convs'[i])
        PROVE  NotedOf(i)' = NotedOf(i) /\ \A x \in Agents : <<i, x>> \in storing' <=> <<i, x>> \in storing
    BY <1>1, <2>1 DEF NotedOf, EndingsNoted
  <2>2. ASSUME convs[i].status # "closed"
        PROVE  NotedOf(i) = {}
    BY <1>2, <2>2 DEF NotedOf
  <2>3. Steps(convs[i], convs'[i])
    BY DEF AllStep
  <2>4. CASE convs'[i] = convs[i]
    BY <1>2, <2>1, <2>4 DEF Lives, EndingsNoted
  <2>5. CASE Begins(convs[i], convs'[i])
    <3>1. convs[i].status = "none" /\ ~Live(convs[i]) /\ Live(convs'[i])
      BY <2>5 DEF Begins, Live
    <3>2. \E a, b \in Agents : a # b /\ convs'[i].members = {a, b}
      BY <2>5 DEF Begins
    <3> QED
      BY <1>2, <2>1, <2>2, <3>1, <3>2 DEF Lives, Phase, EndingsNoted
  <2>6. CASE Goes(convs[i], convs'[i])
    <3>1. Live(convs[i]) /\ convs[i].status # "closed" /\ convs[i].status # "none"
      BY <2>6 DEF Goes, Live
    <3>2. CASE convs'[i].status = "closed" /\ convs'[i].members = convs[i].members
      <4>1. ~Live(convs'[i])
        BY <3>2 DEF Live
      <4>2. NotedOf(i)' = convs[i].members
        BY <1>1, <1>2, <2>0, <3>1, <3>2, <4>1 DEF NotedOf, EndingsNoted
      <4> QED
        BY <3>1, <3>2, <4>1, <4>2 DEF Lives, Phase
    <3>3. CASE /\ Live(convs'[i]) /\ convs'[i].members \subseteq convs[i].members
               /\ convs[i].members # {} => convs'[i].members # {}
      BY <1>2, <2>0, <2>1, <3>1, <3>3 DEF Lives, Phase, EndingsNoted
    <3>4. CASE Live(convs'[i]) /\ convs[i].members \subseteq convs'[i].members
      BY <1>2, <2>1, <3>1, <3>4 DEF Lives, Phase, EndingsNoted
    <3> QED
      BY <2>6, <3>2, <3>3, <3>4 DEF Goes
  <2> QED
    BY <2>3, <2>4, <2>5, <2>6 DEF Steps
<1> QED
  BY <1>3 DEF AllLive, Key

\* Whatever leaves the conversations and their notes alone.
LEMMA RestLives ==
  ASSUME UNCHANGED <<convs, storing, notes>>
  PROVE  AllLive
BY DEF AllLive, Lives, NotedOf

LEMMA LInit == Init => LInv /\ Life!LifeInit
<1> SUFFICES ASSUME Init PROVE LInv /\ Life!LifeInit
  OBVIOUS
<1>1. /\ convs = [i \in Ids |-> NoConversation] /\ storing = {}
      /\ notes = [k \in Key |-> 0]
  BY DEF Init
<1>2. NoConversation.status = "none" /\ NoConversation.members = {}
  BY DEF NoConversation
<1>3. LInv
  BY <1>1, KInit DEF LInv
<1>4. \A i \in Ids : Phase(convs[i]) = "none" /\ convs[i].members = {}
  BY <1>1, <1>2 DEF Phase, Live
<1>5. \A i \in Ids : NotedOf(i) = {}
  BY <1>1 DEF NotedOf, Key
<1> QED
  BY <1>3, <1>4, <1>5 DEF Life!LifeInit, NotedOf

LEMMA LStep ==
  ASSUME MaxLoads = 0, ~WritesFail, LInv, [Next]_vars
  PROVE  LInv' /\ AllLive
<1>0. KInv /\ KInv' /\ TypeOK /\ TypeOK'
  BY KStep DEF LInv, KInv, MInv
<1>1. ASSUME AllStep, EndingsNoted PROVE LInv' /\ AllLive
  BY <1>0, <1>1, StepLives DEF LInv
<1>2. ASSUME AllGo, EndingsNoted PROVE LInv' /\ AllLive
  BY <1>1, <1>2 DEF AllGo, AllStep, Steps
<1>3. ASSUME UNCHANGED <<convs, storing, notes>> PROVE LInv' /\ AllLive
  BY <1>0, <1>3, RestLives DEF LInv
<1>4. ASSUME NEW changed, NEW cs, Commit(changed, cs), notes' = notes PROVE EndingsNoted
  BY <1>4 DEF Commit, NotesDue, EndingsNoted
<1>5. ASSUME NEW a \in Agents, NEW b \in Agents, Talk(a, b) PROVE LInv' /\ AllLive
  <2>1. AllStep /\ notes' = notes
    BY <1>0, <1>5, TalkSteps DEF Talk
  <2>2. EndingsNoted
    BY <1>4, <1>5, <2>1 DEF Talk, OpenConversation, Contribute
  <2> QED
    BY <1>1, <2>1, <2>2
<1>6. ASSUME NEW a \in Agents, NEW i \in Ids, Join(a, i) PROVE LInv' /\ AllLive
  <2>1. AllGo
    BY <1>0, <1>6, JoinGoes
  <2>2. EndingsNoted
    BY <1>4, <1>6 DEF Join
  <2> QED
    BY <1>2, <2>1, <2>2
<1>7. ASSUME NEW a \in Agents, NEW i \in Ids, Leave(a, i) PROVE LInv' /\ AllLive
  <2>1. AllGo
    BY <1>0, <1>7, LeaveGoes
  <2>2. EndingsNoted
    BY <1>4, <1>7 DEF Leave
  <2> QED
    BY <1>2, <2>1, <2>2
<1>8. ASSUME NEW window, Sweep(window) PROVE LInv' /\ AllLive
  <2>1. AllGo
    BY <1>0, <1>8, SweepGoes
  <2>2. EndingsNoted
    BY <1>4, <1>8 DEF Sweep
  <2> QED
    BY <1>2, <2>1, <2>2
<1>9. ASSUME NEW a \in Agents, Despawn(a) PROVE LInv' /\ AllLive
  <2>1. AllGo
    BY <1>0, <1>9, DespawnGoes
  <2>2. notes' = notes
    BY <1>9 DEF Despawn, Churn
  <2>3. EndingsNoted
    BY <1>4, <1>9, <2>2 DEF Despawn
  <2> QED
    BY <1>2, <2>1, <2>3
<1>10. ASSUME NEW a \in Agents, NEW r,
              Move(a, r) \/ SpawnFresh(a, r) \/ SpawnDormant(a)
       PROVE  LInv' /\ AllLive
  BY <1>3, <1>10 DEF Move, SpawnFresh, SpawnDormant, Churn, convVars
<1>11. ASSUME NEW k \in Key, NoteWritten(k) PROVE LInv' /\ AllLive
  <2>1. /\ k \in storing /\ convs' = convs
        /\ storing' = storing \ {k} /\ notes' = [notes EXCEPT ![k] = UpTo2(notes[k] + 1)]
    BY <1>11 DEF NoteWritten
  <2>2. notes \in [Key -> Count] /\ UpTo2(notes[k] + 1) > 0
    BY <1>0 DEF TypeOK, UpTo2, Count
  <2>3. \A j \in Key : (j \in storing' \/ notes'[j] > 0) <=> (j \in storing \/ notes[j] > 0)
    BY <2>1, <2>2
  <2>4. \A i \in Ids : NotedOf(i)' = NotedOf(i)
    BY <2>3 DEF NotedOf, Key
  <2>5. AllLive
    BY <2>1, <2>4 DEF AllLive, Lives
  <2>6. convs[k[1]].status = "closed"
    BY <2>1 DEF LInv
  <2>7. \A j \in Key : convs'[j[1]].status # "closed" => j \notin storing' /\ notes'[j] = 0
    BY <2>1, <2>2, <2>6 DEF LInv
  <2> QED
    BY <1>0, <2>5, <2>7 DEF LInv
<1>12. ASSUME NEW k \in Key PROVE ~NoteLost(k)
  BY DEF NoteLost
<1>13. ASSUME SaveBegins \/ SaveEnds PROVE LInv' /\ AllLive
  BY <1>3, <1>13 DEF SaveBegins, SaveEnds, convVars
<1>14. ~Restart /\ ~Load
  <2>1. ~(spent.restarts + spent.loads < 0)
    BY <1>0 DEF TypeOK
  <2> QED
    BY <2>1 DEF Restart, Load, Restore
<1>15. ASSUME UNCHANGED vars PROVE LInv' /\ AllLive
  BY <1>3, <1>15 DEF vars, convVars
<1> QED
  BY <1>5, <1>6, <1>7, <1>8, <1>9, <1>10, <1>11, <1>12, <1>13, <1>14, <1>15
  DEF Next, Social, SweepStep

(* In a process that is not restarted, and with a memory store that takes    *)
(* every note, conversations live the life of ConversationLife: they begin   *)
(* with two, are never empty while they are live, end once, and their ending *)
(* is noted for those, and only those, who stayed                            *)
(* (conversation-manager.ts:582, tick, and close).                           *)
THEOREM LivesAsPromised ==
  ASSUME MaxLoads = 0, ~WritesFail
  PROVE  Spec => ImplementsLife
<1>1. Init => LInv /\ Life!LifeInit
  BY LInit
<1>2. LInv /\ [Next]_vars => LInv'
  BY LStep
<1>3. LInv /\ [Next]_vars =>
        [Life!LifeNext]_<<[i \in Ids |-> Phase(convs[i])], [i \in Ids |-> convs[i].members],
          [i \in Ids |-> {a \in Agents : <<i, a>> \in storing \/ notes[<<i, a>>] > 0}]>>
  BY LStep, LivesIsLife
<1> QED
  BY <1>1, <1>2, <1>3, PTL DEF Spec, ImplementsLife, Life!LifeSpec
=============================================================================
