-------------------------- MODULE Navigation_proofs --------------------------
(***************************************************************************)
(* Proofs about Navigation: what the state is made of, that every walk     *)
(* leads on from where its agent is, over connections of the scene, and    *)
(* that the offer of a room and the answer of navigation agree, for every  *)
(* scene, number of agents and order of their steps.                       *)
(***************************************************************************)
EXTENDS Navigation, FiniteSetTheorems, SequenceTheorems, WellFoundedInduction, TLAPS

-----------------------------------------------------------------------------
(* Ways.                                                                   *)

LEMMA LeastNumber ==
  ASSUME NEW S \in SUBSET Nat, S # {}
  PROVE  \E n \in S : \A m \in S : n <= m
<1>1. PICK n \in S : \A m \in S : <<m, n>> \notin OpToRel(<, Nat)
  BY NatLessThanWellFounded, WFMin
<1>2. \A m, k \in Nat : m < k => <<m, k>> \in OpToRel(<, Nat)
  BY DEF OpToRel
<1>3. SUFFICES ASSUME NEW m \in S
               PROVE  n <= m
  OBVIOUS
<1>4. n \in Nat /\ m \in Nat /\ ~(m < n)
  BY <1>1, <1>2
<1>5. QED
  BY <1>4

LEMMA WaysAre ==
  ASSUME NEW links, NEW from, NEW to, NEW r \in Ways(links, from, to)
  PROVE  r \in Seq(Rooms) /\ r # <<>> /\ Chained(links, from, r)
<1>1. Cardinality(Rooms) \in Nat
  BY NavigationAssumption, FS_CardinalityType
<1>2. PICK n \in 1..Cardinality(Rooms) - 1 : r \in [1..n -> Rooms]
  BY DEF Ways
<1>3. n \in Nat /\ 1 \in 1..n
  BY <1>1, <1>2
<1>4. r \in Seq(Rooms)
  BY <1>2, <1>3, SeqDef
<1>5. r # <<>>
  BY <1>2, <1>3, EmptySeq
<1>6. QED
  BY <1>4, <1>5 DEF Ways

\* A route is a shortest way; without a way it is empty.
LEMMA RouteIs ==
  ASSUME NEW from, NEW to
  PROVE  /\ Route(from, to) \in Seq(Rooms)
         /\ Chained(open \cap Corridors, from, Route(from, to))
         /\ Route(from, to) # <<>> => Route(from, to) \in Ways(open \cap Corridors, from, to)
<1> DEFINE ways == Ways(open \cap Corridors, from, to)
<1>1. CASE ways = {}
  <2>1. Route(from, to) = <<>>
    BY <1>1 DEF Route
  <2>2. QED
    BY <2>1, EmptySeq DEF Chained
<1>2. CASE ways # {}
  <2> DEFINE lengths == {Len(r) : r \in ways}
  <2>0. ASSUME NEW r \in ways
        PROVE  Len(r) \in Nat
    BY WaysAre, LenProperties
  <2>1. lengths \in SUBSET Nat /\ lengths # {}
    BY <1>2, <2>0
  <2>2. PICK n \in lengths : \A m \in lengths : n <= m
    BY <2>1, LeastNumber
  <2>3. \E r \in ways : \A s \in ways : Len(r) <= Len(s)
    BY <2>2
  <2>4. Route(from, to) = CHOOSE r \in ways : \A s \in ways : Len(r) <= Len(s)
    BY <1>2 DEF Route
  <2>5. Route(from, to) \in ways
    BY <2>3, <2>4
  <2>6. QED
    BY <2>5, WaysAre
<1>3. QED
  BY <1>1, <1>2

\* More connections, and what follows the first room.
LEMMA ChainedMore ==
  ASSUME NEW links, NEW more, links \subseteq more, NEW from, NEW r, Chained(links, from, r)
  PROVE  Chained(more, from, r)
BY DEF Chained

LEMMA ChainedOn ==
  ASSUME NEW links, NEW from, NEW r \in Seq(Rooms), r # <<>>, Chained(links, from, r)
  PROVE  /\ Head(r) \in Rooms /\ Tail(r) \in Seq(Rooms)
         /\ {from, Head(r)} \in links /\ Chained(links, Head(r), Tail(r))
<1>1. /\ Head(r) \in Rooms /\ Tail(r) \in Seq(Rooms) /\ Head(r) = r[1]
      /\ Len(r) \in Nat /\ Len(r) # 0 /\ DOMAIN r = 1..Len(r)
      /\ Len(Tail(r)) = Len(r) - 1 /\ \A i \in 1..Len(Tail(r)) : Tail(r)[i] = r[i + 1]
  BY HeadTailProperties, LenProperties, EmptySeq
<1>2. DOMAIN Tail(r) = 1..Len(Tail(r))
  BY <1>1, LenProperties
<1>3. \A i \in 1..Len(r) : {IF i = 1 THEN from ELSE r[i - 1], r[i]} \in links
  BY <1>1 DEF Chained
<1>4. {from, Head(r)} \in links
  BY <1>1, <1>3
<1>5. ASSUME NEW i \in 1..Len(Tail(r))
      PROVE  {IF i = 1 THEN Head(r) ELSE Tail(r)[i - 1], Tail(r)[i]} \in links
  <2>1. i + 1 \in 1..Len(r) /\ i + 1 # 1 /\ (i + 1) - 1 = i
    BY <1>1
  <2>2. {r[i], r[i + 1]} \in links
    BY <1>3, <2>1
  <2>3. i # 1 => Tail(r)[i - 1] = r[i]
    BY <1>1
  <2>4. QED
    BY <1>1, <2>2, <2>3
<1>6. QED
  BY <1>1, <1>2, <1>4, <1>5 DEF Chained
-----------------------------------------------------------------------------
(* Types.                                                                  *)

LEMMA PathsAre ==
  ASSUME NEW from \in Places, NEW to \in Places
  PROVE  Path(from, to) \in Seq(Places)
BY DEF Path

LEMMA WalkToIs ==
  ASSUME TypeOK, NEW a \in Agents, NEW r
  PROVE  /\ WalkTo(a, r) \in Walks
         /\ Chained(Corridors, location[a], WalkTo(a, r).rooms)
<1>1. /\ Route(location[a], r) \in Seq(Rooms)
      /\ Chained(open \cap Corridors, location[a], Route(location[a], r))
  BY RouteIs
<1>2. (IF position[a] = Nowhere THEN "cell" ELSE position[a]) \in Places
  BY DEF TypeOK, Places
<1>3. Path(IF position[a] = Nowhere THEN "cell" ELSE position[a], "door") \in Seq(Places)
  BY <1>2, PathsAre DEF Places
<1>4. Chained(Corridors, location[a], Route(location[a], r))
  <2>1. open \cap Corridors \subseteq Corridors
    OBVIOUS
  <2>2. QED
    BY <1>1, <2>1, ChainedMore
<1>5. QED
  BY <1>1, <1>3, <1>4 DEF WalkTo, Walks

LEMMA ApproachIs ==
  ASSUME TypeOK, NEW a \in Agents, NEW t \in Things, Approachable(a, t)
  PROVE  /\ Approach(a, t) \in Walks
         /\ Chained(Corridors, location[a], Approach(a, t).rooms)
<1>1. position[a] \in Places /\ t \in Places
  BY DEF TypeOK, Places, Approachable
<1>2. Path(position[a], t) \in Seq(Places)
  BY <1>1, PathsAre
<1>3. <<>> \in Seq(Rooms) /\ Chained(Corridors, location[a], <<>>)
  BY EmptySeq DEF Chained
<1>4. QED
  BY <1>2, <1>3 DEF Approach, Walks

\* StillAstray types the history variable: it is a Boolean of each agent.
LEMMA StillBoolean ==
  ASSUME TypeOK, StillAstray
  PROVE  astray' \in [Agents -> BOOLEAN]
BY DEF TypeOK, StillAstray

\* Of a walk: there is none, or it is made of places and rooms and leads on.
WalkFits(w) == w = NoWalk \/ w \in Walks
WalkLeads(w, from, lost) == w # NoWalk => Leads(w.rooms, from, lost)

\* A walk made where its agent is leads on from there; and what leads on from
\* there does so whether its agent is astray or not.
LEMMA LeadsAnyway ==
  ASSUME NEW rooms \in Seq(Rooms), NEW from, NEW lost, Chained(Corridors, from, rooms)
  PROVE  Leads(rooms, from, lost)
BY ChainedOn DEF Leads

LEMMA MadeHere ==
  ASSUME NEW w \in Walks, NEW from, NEW lost, Chained(Corridors, from, w.rooms)
  PROVE  WalkLeads(w, from, lost)
<1>1. w.rooms \in Seq(Rooms)
  BY DEF Walks
<1>2. QED
  BY <1>1, LeadsAnyway DEF WalkLeads

LEMMA AnswersAre ==
  ASSUME TypeOK, NEW a \in Agents, NEW area \in Areas
  PROVE  /\ WalkFits(Answer(a, area).walk)
         /\ Answer(a, area).area \in Areas \cup {Nowhere}
         /\ \/ Answer(a, area).walk = walks[a]
            \/ \A lost : WalkLeads(Answer(a, area).walk, location[a], lost)
<1>1. WalkFits(walks[a]) /\ pending[a] \in Areas \cup {Nowhere}
  BY DEF TypeOK, WalkFits
<1>2. \A r : WalkFits(WalkTo(a, r)) /\ \A lost : WalkLeads(WalkTo(a, r), location[a], lost)
  BY WalkToIs, MadeHere DEF WalkFits
<1>3. \A t \in Things : Approachable(a, t) =>
        WalkFits(Approach(a, t)) /\ \A lost : WalkLeads(Approach(a, t), location[a], lost)
  BY ApproachIs, MadeHere DEF WalkFits
<1>4. CASE pending[a] # Nowhere /\ (Walking(a) \/ Site(a) = location[a])
  <2>1. Answer(a, area) = Polled(a)
    BY <1>4 DEF Answer
  <2>2. pending[a] \notin Rooms => pending[a] \in Things
    BY <1>1, <1>4 DEF Areas
  <2>3. QED
    BY <1>1, <1>3, <2>1, <2>2 DEF Polled, Reply
<1>5. CASE ~(pending[a] # Nowhere /\ (Walking(a) \/ Site(a) = location[a]))
  <2>1. Answer(a, area) = Routed(a, area)
    BY <1>5 DEF Answer
  <2>2. QED
    BY <1>1, <1>2, <1>3, <2>1 DEF Routed, Reply
<1>6. QED
  BY <1>4, <1>5
-----------------------------------------------------------------------------
(* One step of a walk.                                                     *)

\* What a walker is after a tick: where it was, with the rooms ahead it had,
\* or in the first of those rooms, with the rest of them.  That room is next
\* door, unless the walker was astray; then the rest leads on from it.
Stepped(a, to) ==
  /\ to.room \in Rooms /\ to.at \in Places \cup {Nowhere}
  /\ WalkFits(to.walk)
  /\ WalkLeads(walks[a], location[a], astray[a]) =>
       \/ /\ to.room = location[a]
          /\ to.walk = NoWalk \/ to.walk.rooms = walks[a].rooms
       \/ /\ \A lost : WalkLeads(to.walk, to.room, lost)
          /\ ~astray[a] => {location[a], to.room} \in Corridors
          /\ to.room = Head(walks[a].rooms)
          /\ to.walk.rooms # walks[a].rooms

LEMMA TailDiffers ==
  ASSUME NEW r \in Seq(Rooms), r # <<>>
  PROVE  Tail(r) # r
<1>1. Len(r) \in Nat /\ Len(Tail(r)) = Len(r) - 1
  BY HeadTailProperties, LenProperties
<1>2. \A n \in Nat : n - 1 # n
  OBVIOUS
<1>3. Len(Tail(r)) # Len(r)
  BY <1>1, <1>2
<1>4. QED
  BY <1>3

\* No walk has no rooms of the scene ahead.
LEMMA NowhereAhead == NoWalk.rooms \notin Seq(Rooms)
<1>1. NoWalk.rooms = <<Nowhere>> /\ Nowhere \notin Rooms
  BY NavigationAssumption DEF NoWalk
<1>2. SUFFICES ASSUME <<Nowhere>> \in Seq(Rooms)
               PROVE  FALSE
  BY <1>1
<1>3. Len(<<Nowhere>>) = 1 /\ <<Nowhere>>[1] = Nowhere
  OBVIOUS
<1>4. <<Nowhere>>[1] \in Rooms
  BY <1>2, <1>3, ElementOfSeq
<1>5. QED
  BY <1>1, <1>3, <1>4

LEMMA AdvancedIs ==
  ASSUME TypeOK, NEW a \in Agents, Walking(a)
  PROVE  Stepped(a, Advanced(a))
<1> DEFINE w == walks[a]
           rest == IF w.cells = <<>> THEN <<>> ELSE Tail(w.cells)
<1>1. w \in Walks /\ w # NoWalk
  BY DEF TypeOK, Walking
<1>2. w.cells \in Seq(Places) /\ w.rooms \in Seq(Rooms) /\ w = [cells |-> w.cells, rooms |-> w.rooms]
  BY <1>1 DEF Walks
<1>3. At(a) \in Places \cup {Nowhere} /\ rest \in Seq(Places) /\ location[a] \in Rooms
  <2>1. position[a] \in Places \cup {Nowhere} /\ location[a] \in Rooms
    BY DEF TypeOK
  <2>2. w.cells # <<>> => Head(w.cells) \in Places /\ Tail(w.cells) \in Seq(Places)
    BY <1>2, HeadTailProperties
  <2>3. QED
    BY <2>1, <2>2, EmptySeq DEF At
<1>4. "door" \in Places /\ <<>> \in Seq(Places)
  BY EmptySeq DEF Places
<1>5. WalkFits(NoWalk) /\ \A r, lost : WalkLeads(NoWalk, r, lost)
  BY DEF WalkFits, WalkLeads
<1>6. CASE rest # <<>>
  <2>1. Advanced(a) = Here(a, At(a), [w EXCEPT !.cells = rest])
    BY <1>6 DEF Advanced
  <2>2. [w EXCEPT !.cells = rest] \in Walks /\ [w EXCEPT !.cells = rest].rooms = w.rooms
    BY <1>2, <1>3 DEF Walks
  <2>3. PICK v \in Walks : v.rooms = w.rooms /\ Advanced(a) = Here(a, At(a), v)
    BY <2>1, <2>2
  <2>4. WalkFits(v)
    BY DEF WalkFits
  <2>5. QED
    BY <1>3, <2>3, <2>4 DEF Here, Stepped
<1>7. CASE rest = <<>> /\ w.rooms # <<>> /\ Crosses(a)
  <2> DEFINE next == IF RestOf(w) = <<>> THEN NoWalk ELSE [cells |-> <<"door">>, rooms |-> RestOf(w)]
  <2>1. Advanced(a) = Into(Head(w.rooms), "door", next)
    BY <1>7 DEF Advanced
  <2>2. Head(w.rooms) \in Rooms /\ RestOf(w) \in Seq(Rooms)
    BY <1>2, <1>7, HeadTailProperties DEF RestOf
  <2>3. <<"door">> \in Seq(Places)
    BY <1>4
  <2>4. WalkFits(next)
    BY <1>5, <2>2, <2>3 DEF WalkFits, Walks
  <2>5. ASSUME WalkLeads(w, location[a], astray[a])
        PROVE  /\ \A lost : WalkLeads(next, Head(w.rooms), lost)
               /\ ~astray[a] => {location[a], Head(w.rooms)} \in Corridors
    <3>1. Leads(w.rooms, location[a], astray[a])
      BY <1>1, <2>5 DEF WalkLeads
    <3>2. /\ Chained(Corridors, Head(w.rooms), RestOf(w))
          /\ ~astray[a] => {location[a], Head(w.rooms)} \in Corridors
      BY <1>2, <1>7, <3>1, ChainedOn DEF RestOf, Leads
    <3>3. \A lost : Leads(RestOf(w), Head(w.rooms), lost)
      BY <2>2, <3>2, LeadsAnyway
    <3>4. QED
      BY <3>2, <3>3 DEF WalkLeads
  <2>6. next.rooms # w.rooms
    <3>1. w.rooms # NoWalk.rooms
      BY <1>2, NowhereAhead
    <3>2. RestOf(w) # w.rooms
      BY <1>2, <1>7, TailDiffers DEF RestOf
    <3>3. QED
      BY <3>1, <3>2
  <2>7. QED
    BY <1>4, <2>1, <2>2, <2>4, <2>5, <2>6 DEF Into, Stepped
<1>8. CASE rest = <<>> /\ ~(w.rooms # <<>> /\ Crosses(a)) /\ Len(w.rooms) > 1
  <2>1. Advanced(a) = Here(a, At(a), [w EXCEPT !.cells = <<>>])
    BY <1>8 DEF Advanced
  <2>2. [w EXCEPT !.cells = <<>>] \in Walks /\ [w EXCEPT !.cells = <<>>].rooms = w.rooms
    BY <1>2, <1>4 DEF Walks
  <2>3. PICK v \in Walks : v.rooms = w.rooms /\ Advanced(a) = Here(a, At(a), v)
    BY <2>1, <2>2
  <2>4. WalkFits(v)
    BY DEF WalkFits
  <2>5. QED
    BY <1>3, <2>3, <2>4 DEF Here, Stepped
<1>9. CASE /\ rest = <<>> /\ ~(w.rooms # <<>> /\ Crosses(a)) /\ ~(Len(w.rooms) > 1)
           /\ w.rooms # <<>> /\ Head(w.rooms) # location[a]
  <2>1. Advanced(a) = Into(Head(w.rooms), At(a), NoWalk)
    BY <1>9 DEF Advanced
  <2>2. Head(w.rooms) \in Rooms
    BY <1>2, <1>9, HeadTailProperties
  <2>3. WalkLeads(w, location[a], astray[a]) /\ ~astray[a] => {location[a], Head(w.rooms)} \in Corridors
    <3>1. SUFFICES ASSUME WalkLeads(w, location[a], astray[a]), ~astray[a]
                   PROVE  {location[a], Head(w.rooms)} \in Corridors
      OBVIOUS
    <3>2. Chained(Corridors, location[a], w.rooms)
      BY <1>1, <3>1 DEF WalkLeads, Leads
    <3>3. QED
      BY <1>2, <1>9, <3>2, ChainedOn
  <2>4. NoWalk.rooms # w.rooms
    BY <1>2, NowhereAhead
  <2>5. QED
    BY <1>3, <1>5, <2>1, <2>2, <2>3, <2>4 DEF Into, Stepped
<1>10. CASE /\ rest = <<>> /\ ~(w.rooms # <<>> /\ Crosses(a)) /\ ~(Len(w.rooms) > 1)
            /\ ~(w.rooms # <<>> /\ Head(w.rooms) # location[a])
  <2>1. Advanced(a) = Here(a, At(a), NoWalk)
    BY <1>10 DEF Advanced
  <2>2. QED
    BY <1>3, <1>5, <2>1 DEF Here, Stepped
<1>11. QED
  BY <1>6, <1>7, <1>8, <1>9, <1>10
-----------------------------------------------------------------------------
(* The types hold in every state.                                          *)

LEMMA TypesAtFirst ==
  ASSUME Init
  PROVE  TypeOK
<1>1. memory \in [Agents -> Memories]
  BY NavigationAssumption DEF Init, Memories
<1>2. /\ active \subseteq Agents /\ location \in [Agents -> Rooms]
      /\ position \in [Agents -> Places \cup {Nowhere}]
      /\ open \subseteq Corridors /\ home \in [Things -> Rooms \cup {Nowhere}]
  BY NavigationAssumption DEF Init, Places
<1>3. /\ walks \in [Agents -> Walks \cup {NoWalk}]
      /\ pending \in [Agents -> Areas \cup {Nowhere}] /\ step \in [Agents -> Areas \cup {Nowhere}]
  BY DEF Init
<1>4. spent \in [sent : 0..MaxSent, moved : 0..MaxMoved]
  BY NavigationAssumption DEF Init
<1>5. astray \in [Agents -> BOOLEAN]
  BY DEF Init
<1>6. QED
  BY <1>1, <1>2, <1>3, <1>4, <1>5 DEF TypeOK

LEMMA TypesPerceive ==
  ASSUME TypeOK, NEW a \in Agents, Perceive(a)
  PROVE  TypeOK'
<1> DEFINE seen == [t \in Things |->
       IF memory[a].seen[t] # Nowhere \/ home[t] = location[a] THEN home[t] ELSE Nowhere]
<1>1. memory \in [Agents -> Memories] /\ seen \in [Things -> Rooms \cup {Nowhere}]
  BY DEF TypeOK
<1>2. memory[a] \in Memories
  BY <1>1
<1>3. [memory[a] EXCEPT !.seen = seen] \in Memories
  BY <1>1, <1>2 DEF Memories
<1>4. memory' = [memory EXCEPT ![a] = [memory[a] EXCEPT !.seen = seen]]
  BY <1>1 DEF Perceive
<1>5. memory' \in [Agents -> Memories]
  BY <1>1, <1>3, <1>4
<1>6. QED
  BY <1>5 DEF TypeOK, Perceive, scene, Areas

LEMMA TypesTold ==
  ASSUME TypeOK, NEW a \in Agents, NEW rooms \in SUBSET Rooms, NEW things \in SUBSET Things,
         Told(a, rooms, things)
  PROVE  TypeOK'
<1> DEFINE m == memory[a]
           told == [m EXCEPT
             !.visited = @ \cup rooms,
             !.doors = @ \cup {p \in Corridors : p \cap rooms # {}},
             !.seen = [t \in Things |-> IF @[t] = Nowhere /\ t \in things THEN home[t] ELSE @[t]]]
<1>1. memory \in [Agents -> Memories] /\ m \in Memories /\ home \in [Things -> Rooms \cup {Nowhere}]
  BY DEF TypeOK
<1>2. [t \in Things |-> IF m.seen[t] = Nowhere /\ t \in things THEN home[t] ELSE m.seen[t]]
        \in [Things -> Rooms \cup {Nowhere}]
  BY <1>1 DEF Memories
<1>3. told \in Memories
  BY <1>1, <1>2 DEF Memories
<1>4. memory' = [memory EXCEPT ![a] = told]
  BY <1>1 DEF Told
<1>5. memory' \in [Agents -> Memories]
  BY <1>1, <1>3, <1>4
<1>6. QED
  BY <1>5 DEF TypeOK, Told, scene, Areas

LEMMA TypesNavigate ==
  ASSUME TypeOK, NEW a \in Agents, Navigate(a)
  PROVE  TypeOK'
<1>1. PICK area \in IF step[a] = Nowhere THEN Areas ELSE {step[a]} :
        /\ walks' = [walks EXCEPT ![a] = Answer(a, area).walk]
        /\ pending' = [pending EXCEPT ![a] = Answer(a, area).area]
        /\ step' = [step EXCEPT ![a] = IF Answer(a, area).status = "walking" THEN area ELSE Nowhere]
  BY DEF Navigate
<1>2. area \in Areas
  BY <1>1 DEF TypeOK
<1>3. WalkFits(Answer(a, area).walk) /\ Answer(a, area).area \in Areas \cup {Nowhere}
  BY <1>2, AnswersAre
<1>4. walks' \in [Agents -> Walks \cup {NoWalk}]
  BY <1>1, <1>3 DEF TypeOK, WalkFits
<1>5. /\ pending' \in [Agents -> Areas \cup {Nowhere}]
      /\ step' \in [Agents -> Areas \cup {Nowhere}]
  BY <1>1, <1>2, <1>3 DEF TypeOK
<1>6. astray' \in [Agents -> BOOLEAN]
  BY StillBoolean DEF Navigate
<1>7. QED
  BY <1>4, <1>5, <1>6 DEF TypeOK, Navigate, places, scene, Areas

\* The same walk, by other cells.
LEMMA CellsLook ==
  ASSUME TypeOK, NEW a \in Agents, NEW looks \in Looks
  PROVE  LET other == [walks[a] EXCEPT !.cells = [i \in DOMAIN @ |-> looks[@[i]]]]
         IN  WalkFits(other) /\ other.rooms = walks[a].rooms
<1> DEFINE cells == [i \in DOMAIN walks[a].cells |-> looks[walks[a].cells[i]]]
           other == [walks[a] EXCEPT !.cells = cells]
<1>1. CASE walks[a] = NoWalk
  <2>1. DOMAIN <<>> = {} /\ <<>> \in Seq(Places)
    BY EmptySeq
  <2>2. cells = <<>>
    BY <1>1, <2>1 DEF NoWalk
  <2>3. other = NoWalk
    BY <1>1, <2>2 DEF NoWalk
  <2>4. QED
    BY <1>1, <2>3 DEF WalkFits
<1>2. CASE walks[a] # NoWalk
  <2>1. walks[a] \in Walks /\ walks[a].cells \in Seq(Places)
    BY <1>2 DEF TypeOK, Walks
  <2>2. looks \in [Places -> Places]
    BY DEF Looks
  <2>3. /\ Len(walks[a].cells) \in Nat /\ DOMAIN walks[a].cells = 1..Len(walks[a].cells)
        /\ \A i \in DOMAIN walks[a].cells : walks[a].cells[i] \in Places
    BY <2>1, LenProperties, ElementOfSeq
  <2>4. cells \in [1..Len(walks[a].cells) -> Places]
    BY <2>2, <2>3
  <2>5. cells \in Seq(Places)
    BY <2>3, <2>4, SeqDef
  <2>6. other \in Walks /\ other.rooms = walks[a].rooms
    BY <2>1, <2>5 DEF Walks
  <2>7. QED
    BY <2>6 DEF WalkFits
<1>3. QED
  BY <1>1, <1>2

LEMMA TypesGoTo ==
  ASSUME TypeOK, NEW a \in Agents, NEW r \in Rooms, GoTo(a, r)
  PROVE  TypeOK'
<1>1. spent' \in [sent : 0..MaxSent, moved : 0..MaxMoved]
  BY NavigationAssumption DEF TypeOK, GoTo
<1>2. location' \in [Agents -> Rooms]
  BY DEF TypeOK, GoTo
<1>3. CASE r \in Fixtures
  <2>1. PICK looks \in Looks :
          /\ position' = [position EXCEPT ![a] = IF @ = Nowhere THEN @ ELSE looks[@]]
          /\ walks' = [walks EXCEPT ![a].cells = [i \in DOMAIN @ |-> looks[@[i]]]]
    BY <1>3 DEF GoTo
  <2>2. position' \in [Agents -> Places \cup {Nowhere}]
    BY <2>1 DEF TypeOK, Looks
  <2>3. walks' \in [Agents -> Walks \cup {NoWalk}]
    <3> DEFINE other == [walks[a] EXCEPT !.cells = [i \in DOMAIN @ |-> looks[@[i]]]]
    <3>1. WalkFits(other)
      BY CellsLook
    <3>2. walks \in [Agents -> Walks \cup {NoWalk}]
      BY DEF TypeOK
    <3>3. walks' = [walks EXCEPT ![a] = other]
      BY <2>1, <3>2
    <3>4. QED
      BY <3>1, <3>2, <3>3 DEF WalkFits
  <2>4. astray' \in [Agents -> BOOLEAN]
    BY <1>3 DEF TypeOK, GoTo, Walking
  <2>5. QED
    BY <1>1, <1>2, <2>2, <2>3, <2>4 DEF TypeOK, GoTo, scene, Areas
<1>4. CASE r \notin Fixtures
  <2>1. walks' = walks \/ walks' = [walks EXCEPT ![a] = WalkTo(a, r)]
    BY <1>4 DEF GoTo
  <2>2. walks' \in [Agents -> Walks \cup {NoWalk}]
    BY <2>1, WalkToIs DEF TypeOK
  <2>3. astray' \in [Agents -> BOOLEAN]
    BY <1>4, StillBoolean DEF GoTo
  <2>4. QED
    BY <1>1, <1>2, <1>4, <2>2, <2>3 DEF TypeOK, GoTo, scene, Areas
<1>5. QED
  BY <1>3, <1>4

LEMMA DiscoveredIs ==
  ASSUME TypeOK, NEW m \in Memories, NEW r \in Rooms
  PROVE  Discovered(m, r) \in Memories
<1>1. DoorsOf(r) \subseteq Corridors
  BY DEF TypeOK, DoorsOf
<1>2. QED
  BY <1>1 DEF Discovered, Memories

LEMMA TypesTick ==
  ASSUME TypeOK, Tick
  PROVE  TypeOK'
<1>1. \A a \in Walkers : a \in Agents /\ Stepped(a, Advanced(a))
  BY AdvancedIs DEF Walkers, TypeOK
<1>2. location' \in [Agents -> Rooms] /\ position' \in [Agents -> Places \cup {Nowhere}]
  BY <1>1 DEF TypeOK, Tick, Stepped
<1>3. walks' \in [Agents -> Walks \cup {NoWalk}]
  BY <1>1 DEF TypeOK, Tick, Stepped, WalkFits
<1>4. memory' \in [Agents -> Memories]
  <2>1. \A a \in Walkers : Discovered(memory[a], Advanced(a).room) \in Memories
    BY <1>1, DiscoveredIs DEF TypeOK, Stepped
  <2>2. memory' = [a \in Agents |-> IF a \in Walkers /\ Advanced(a).came
                     THEN Discovered(memory[a], Advanced(a).room) ELSE memory[a]]
    BY DEF Tick
  <2>3. QED
    BY <2>1, <2>2 DEF TypeOK
<1>5. astray' \in [Agents -> BOOLEAN]
  BY StillBoolean DEF Tick
<1>6. QED
  BY <1>2, <1>3, <1>4, <1>5 DEF TypeOK, Tick, scene, Areas

LEMMA TypesPopulation ==
  ASSUME TypeOK, NEW a \in Agents, Despawn(a) \/ Wake(a) \/ SpawnFresh(a)
  PROVE  TypeOK'
<1>1. NoMemory \in Memories /\ Start \in Rooms
  BY NavigationAssumption DEF NoMemory, Memories
<1>2. CASE Despawn(a)
  BY <1>2, StillBoolean DEF TypeOK, Despawn, places, scene, Areas
<1>3. CASE Wake(a)
  BY <1>3 DEF TypeOK, Wake, places, scene, Areas
<1>4. CASE SpawnFresh(a)
  BY <1>1, <1>4 DEF TypeOK, SpawnFresh, scene, Areas
<1>5. QED
  BY <1>2, <1>3, <1>4

LEMMA TypesScene ==
  ASSUME TypeOK,
         (\E p \in Corridors : SetDoor(p)) \/ (\E t \in Things : Relocate(t)) \/ UNCHANGED vars
  PROVE  TypeOK'
<1>1. CASE \E p \in Corridors : SetDoor(p)
  BY <1>1 DEF TypeOK, SetDoor, places, Areas
<1>2. CASE \E t \in Things : Relocate(t)
  <2>1. PICK t \in Things : Relocate(t)
    BY <1>2
  <2>2. spent' \in [sent : 0..MaxSent, moved : 0..MaxMoved]
    BY <2>1, NavigationAssumption DEF TypeOK, Relocate
  <2>3. home' \in [Things -> Rooms \cup {Nowhere}]
    BY <2>1 DEF TypeOK, Relocate
  <2>4. QED
    BY <2>1, <2>2, <2>3 DEF TypeOK, Relocate, places, Areas
<1>3. CASE UNCHANGED vars
  BY <1>3 DEF TypeOK, vars, places, scene, Areas
<1>4. QED
  BY <1>1, <1>2, <1>3

\* One step of the system, by who makes it.
LEMMA StepsAre ==
  ASSUME [Next]_vars
  PROVE  \/ Tick
         \/ \E a \in Agents :
              \/ Perceive(a) \/ Navigate(a)
              \/ Despawn(a) \/ Wake(a) \/ SpawnFresh(a)
              \/ \E r \in Rooms : GoTo(a, r)
              \/ \E rooms \in SUBSET Rooms, things \in SUBSET Things : Told(a, rooms, things)
         \/ \/ \E p \in Corridors : SetDoor(p)
            \/ \E t \in Things : Relocate(t)
            \/ UNCHANGED vars
BY DEF Next

(* The types are right: every path goes through places, every walk through *)
(* rooms of the scene, and what an agent knows is of this scene, whoever   *)
(* told it and whatever replaced a walk.                                   *)
THEOREM NavigationTypes == Spec => []TypeOK
<1>1. ASSUME TypeOK, [Next]_vars
      PROVE  TypeOK'
  BY <1>1, StepsAre, TypesPerceive, TypesTold, TypesNavigate, TypesGoTo, TypesTick,
     TypesPopulation, TypesScene
<1>2. QED
  BY <1>1, TypesAtFirst, PTL DEF Spec
-----------------------------------------------------------------------------
(* Walks lead on.  A handler that teleports leaves the walk of before in   *)
(* place: its agent is astray until that walk takes it into a room.        *)

\* Who is gone does not walk, and every walk leads on.
RouteInv ==
  /\ TypeOK
  /\ \A a \in Agents : a \notin active => walks[a] = NoWalk
  /\ \A a \in Agents : WalkLeads(walks[a], location[a], astray[a])

LEMMA RouteInvMeans == RouteInv => OnRoute
BY DEF RouteInv, OnRoute, WalkLeads, Walking

LEMMA RouteAtFirst ==
  ASSUME Init
  PROVE  RouteInv
BY TypesAtFirst DEF RouteInv, Init, WalkLeads

\* Where a step leaves the agents, and what it leaves of their walks.
RoutesGoOn ==
  /\ \A a \in Agents : a \notin active => walks[a] = NoWalk
  /\ \A a \in Agents : WalkLeads(walks[a], location[a], astray[a])

\* A step takes an agent no further than next door; but one that is astray the
\* walk it was taken out of may fetch back, into the next room of that walk.
OnlyNextDoor ==
  \A a \in active :
    \/ location'[a] = location[a]
    \/ {location[a], location'[a]} \in Corridors
    \/ astray[a] /\ Walking(a) /\ location'[a] = Head(walks[a].rooms) /\ ~astray'[a]

LEMMA RouteNavigate ==
  ASSUME RouteInv, NEW a \in Agents, Navigate(a)
  PROVE  RoutesGoOn' /\ OnlyNextDoor
<1>1. PICK area \in IF step[a] = Nowhere THEN Areas ELSE {step[a]} :
        walks' = [walks EXCEPT ![a] = Answer(a, area).walk]
  BY DEF Navigate
<1>2. area \in Areas
  BY <1>1 DEF RouteInv, TypeOK
<1>3. \/ Answer(a, area).walk = walks[a]
      \/ \A lost : WalkLeads(Answer(a, area).walk, location[a], lost)
  BY <1>2, AnswersAre DEF RouteInv
<1>4. location' = location /\ active' = active /\ a \in active
  BY DEF Navigate, places
<1>5. \A b \in Agents : walks'[b] = IF b = a THEN Answer(a, area).walk ELSE walks[b]
  BY <1>1 DEF RouteInv, TypeOK
<1>6. \A b \in Agents : walks'[b] = walks[b] => astray'[b] = astray[b]
  BY DEF Navigate, StillAstray, RouteInv, TypeOK
<1>7. \A b \in Agents : WalkLeads(walks'[b], location'[b], astray'[b])
  BY <1>3, <1>4, <1>5, <1>6 DEF RouteInv
<1>8. QED
  BY <1>4, <1>5, <1>7 DEF RouteInv, RoutesGoOn, OnlyNextDoor, WalkLeads

\* Next door, by requestWalk, or in one step, which may take it out of a walk.
LEMMA RouteGoTo ==
  ASSUME RouteInv, NEW a \in Agents, NEW r \in Rooms, GoTo(a, r)
  PROVE  RoutesGoOn' /\ OnlyNextDoor
<1>1. active' = active /\ a \in active /\ {location[a], r} \in open /\ open \subseteq Corridors
  BY DEF GoTo, RouteInv, TypeOK
<1>2. CASE r \in Fixtures
  <2>1. PICK looks \in Looks :
          walks' = [walks EXCEPT ![a].cells = [i \in DOMAIN @ |-> looks[@[i]]]]
    BY <1>2 DEF GoTo
  <2> DEFINE other == [walks[a] EXCEPT !.cells = [i \in DOMAIN @ |-> looks[@[i]]]]
  <2>2. other.rooms = walks[a].rooms /\ WalkFits(other)
    BY CellsLook DEF RouteInv
  <2>3. walks' = [walks EXCEPT ![a] = other]
    BY <2>1 DEF RouteInv, TypeOK
  <2> HIDE DEF other
  <2>4. /\ location' = [location EXCEPT ![a] = r]
        /\ astray' = [astray EXCEPT ![a] = Walking(a)]
    BY <1>2 DEF GoTo
  <2>5. /\ walks'[a] = other /\ location'[a] = r /\ astray'[a] = Walking(a)
        /\ \A b \in Agents \ {a} :
             walks'[b] = walks[b] /\ location'[b] = location[b] /\ astray'[b] = astray[b]
    BY <2>3, <2>4 DEF RouteInv, TypeOK
  <2>6. WalkLeads(other, r, Walking(a))
    <3>1. SUFFICES ASSUME other # NoWalk
                   PROVE  Leads(other.rooms, r, Walking(a))
      BY DEF WalkLeads
    <3>2. walks[a] # NoWalk /\ walks[a] \in Walks
      <4>1. other \in Walks
        BY <2>2, <3>1 DEF WalkFits
      <4>2. walks[a].rooms \in Seq(Rooms)
        BY <2>2, <4>1 DEF Walks
      <4>3. walks[a] # NoWalk
        BY <4>2, NowhereAhead
      <4>4. QED
        BY <4>3 DEF RouteInv, TypeOK
    <3>3. Leads(walks[a].rooms, location[a], astray[a])
      BY <3>2 DEF RouteInv, WalkLeads
    <3>4. walks[a].rooms \in Seq(Rooms)
      BY <3>2 DEF Walks
    <3>5. walks[a].rooms # <<>> => Chained(Corridors, Head(walks[a].rooms), Tail(walks[a].rooms))
      BY <3>3, <3>4, ChainedOn DEF Leads
    <3>6. QED
      BY <2>2, <3>2, <3>5 DEF Leads, Walking
  <2>7. \A b \in Agents : WalkLeads(walks'[b], location'[b], astray'[b])
    BY <2>5, <2>6 DEF RouteInv
  <2>8. \A b \in Agents : b \notin active' => walks'[b] = NoWalk
    BY <1>1, <2>5 DEF RouteInv
  <2>9. OnlyNextDoor
    BY <1>1, <2>5 DEF OnlyNextDoor, RouteInv, TypeOK
  <2>10. QED
    BY <2>7, <2>8, <2>9 DEF RoutesGoOn, WalkLeads
<1>3. CASE r \notin Fixtures
  <2>1. walks' = walks \/ walks' = [walks EXCEPT ![a] = WalkTo(a, r)]
    BY <1>3 DEF GoTo
  <2>2. location' = location /\ StillAstray
    BY <1>3 DEF GoTo
  <2>3. \A lost : WalkLeads(WalkTo(a, r), location[a], lost)
    BY WalkToIs, MadeHere DEF RouteInv
  <2>4. \A b \in Agents : walks'[b] = walks[b] \/ (b = a /\ walks'[b] = WalkTo(a, r))
    BY <2>1 DEF RouteInv, TypeOK
  <2>5. \A b \in Agents : walks'[b] = walks[b] => astray'[b] = astray[b]
    BY <2>2 DEF StillAstray, RouteInv, TypeOK
  <2>6. \A b \in Agents : WalkLeads(walks'[b], location'[b], astray'[b])
    BY <2>2, <2>3, <2>4, <2>5 DEF RouteInv
  <2>7. QED
    BY <1>1, <2>2, <2>4, <2>6 DEF RouteInv, RoutesGoOn, OnlyNextDoor, WalkLeads
<1>4. QED
  BY <1>2, <1>3

LEMMA RouteTick ==
  ASSUME RouteInv, Tick
  PROVE  RoutesGoOn' /\ OnlyNextDoor
<1>1. \A a \in Walkers : /\ a \in Agents /\ a \in active /\ Walking(a)
                         /\ Stepped(a, Advanced(a))
  BY AdvancedIs DEF Walkers, TypeOK, RouteInv
<1>2. \A a \in Walkers : /\ location'[a] = Advanced(a).room
                         /\ walks'[a] = Advanced(a).walk
  BY <1>1 DEF Tick
<1>3. \A a \in Agents \ Walkers : location'[a] = location[a] /\ walks'[a] = walks[a]
  BY DEF Tick
<1>4. active' = active /\ active \subseteq Agents
  BY DEF Tick, RouteInv, TypeOK
<1>5. \A a \in Agents : astray'[a] = (astray[a] /\ walks'[a].rooms = walks[a].rooms)
  BY DEF Tick, StillAstray
<1>6. ASSUME NEW a \in Agents
      PROVE  /\ WalkLeads(walks'[a], location'[a], astray'[a])
             /\ \/ location'[a] = location[a]
                \/ {location[a], location'[a]} \in Corridors
                \/ astray[a] /\ Walking(a) /\ location'[a] = Head(walks[a].rooms) /\ ~astray'[a]
  <2>1. WalkLeads(walks[a], location[a], astray[a]) /\ astray[a] \in BOOLEAN
    BY DEF RouteInv, TypeOK
  <2>2. CASE a \notin Walkers
    <3>1. walks'[a] = walks[a] /\ location'[a] = location[a]
      BY <1>3, <2>2
    <3>2. astray'[a] = astray[a]
      BY <1>5, <2>1, <3>1
    <3>3. QED
      BY <2>1, <3>1, <3>2
  <2>3. CASE a \in Walkers
    <3>1. /\ location'[a] = Advanced(a).room /\ walks'[a] = Advanced(a).walk
          /\ Stepped(a, Advanced(a)) /\ Walking(a)
      BY <1>1, <1>2, <2>3
    <3>2. CASE /\ Advanced(a).room = location[a]
               /\ Advanced(a).walk = NoWalk \/ Advanced(a).walk.rooms = walks[a].rooms
      <4>1. CASE walks'[a] = NoWalk
        BY <3>1, <3>2, <4>1 DEF WalkLeads
      <4>2. CASE walks'[a].rooms = walks[a].rooms
        <5>1. astray'[a] = astray[a]
          BY <1>5, <2>1, <4>2
        <5>2. Leads(walks[a].rooms, location[a], astray[a])
          BY <2>1, <3>1 DEF WalkLeads, Walking
        <5>3. QED
          BY <3>1, <3>2, <4>2, <5>1, <5>2 DEF WalkLeads
      <4>3. QED
        BY <3>1, <3>2, <4>1, <4>2
    <3>3. CASE /\ \A lost : WalkLeads(Advanced(a).walk, Advanced(a).room, lost)
               /\ ~astray[a] => {location[a], Advanced(a).room} \in Corridors
               /\ Advanced(a).room = Head(walks[a].rooms)
               /\ Advanced(a).walk.rooms # walks[a].rooms
      <4>1. WalkLeads(walks'[a], location'[a], astray'[a])
        BY <3>1, <3>3
      <4>2. ~astray'[a]
        BY <1>5, <3>1, <3>3
      <4>3. QED
        BY <3>1, <3>3, <4>1, <4>2
    <3>4. QED
      BY <2>1, <3>1, <3>2, <3>3 DEF Stepped
  <2>4. QED
    BY <2>2, <2>3
<1>7. OnlyNextDoor
  BY <1>4, <1>6 DEF OnlyNextDoor
<1>8. \A a \in Agents : a \notin active' => walks'[a] = NoWalk
  BY <1>1, <1>3, <1>4 DEF RouteInv
<1>9. QED
  BY <1>6, <1>7, <1>8 DEF RoutesGoOn, WalkLeads

\* Only a fresh spawn moves an agent, one that is gone and so has no walk.
LEMMA RoutePopulation ==
  ASSUME RouteInv, NEW a \in Agents, Despawn(a) \/ Wake(a) \/ SpawnFresh(a)
  PROVE  RoutesGoOn' /\ OnlyNextDoor
<1>1. CASE Despawn(a)
  <2>1. /\ walks' = [walks EXCEPT ![a] = NoWalk] /\ active' = active \ {a}
        /\ location' = location /\ StillAstray
    BY <1>1 DEF Despawn, places
  <2>2. \A b \in Agents \ {a} : walks'[b] = walks[b] /\ astray'[b] = astray[b]
    BY <2>1 DEF RouteInv, TypeOK, StillAstray
  <2>3. walks'[a] = NoWalk
    BY <2>1 DEF RouteInv, TypeOK
  <2>4. QED
    BY <2>1, <2>2, <2>3 DEF RouteInv, RoutesGoOn, OnlyNextDoor, WalkLeads
<1>2. CASE Wake(a)
  BY <1>2 DEF Wake, places, RouteInv, RoutesGoOn, OnlyNextDoor, WalkLeads
<1>3. CASE SpawnFresh(a)
  <2>1. /\ walks[a] = NoWalk /\ walks' = walks /\ astray' = astray
        /\ a \notin active /\ active' = active \cup {a}
    BY <1>3 DEF SpawnFresh, RouteInv
  <2>2. \A b \in Agents \ {a} : location'[b] = location[b]
    BY <1>3 DEF SpawnFresh, RouteInv, TypeOK
  <2>3. active \subseteq Agents
    BY DEF RouteInv, TypeOK
  <2>4. QED
    BY <2>1, <2>2, <2>3 DEF RouteInv, RoutesGoOn, OnlyNextDoor, WalkLeads
<1>4. QED
  BY <1>1, <1>2, <1>3

LEMMA RouteElse ==
  ASSUME RouteInv,
         \/ \E a \in Agents : Perceive(a)
         \/ \E a \in Agents, rooms \in SUBSET Rooms, things \in SUBSET Things :
              Told(a, rooms, things)
         \/ \E p \in Corridors : SetDoor(p)
         \/ \E t \in Things : Relocate(t)
         \/ UNCHANGED vars
  PROVE  RoutesGoOn' /\ OnlyNextDoor
<1>1. location' = location /\ walks' = walks /\ active' = active /\ astray' = astray
  BY DEF Perceive, Told, SetDoor, Relocate, vars, places
<1>2. QED
  BY <1>1 DEF RouteInv, RoutesGoOn, OnlyNextDoor, WalkLeads

LEMMA RouteStep ==
  ASSUME RouteInv, [Next]_vars
  PROVE  RouteInv' /\ OnlyNextDoor
<1>1. TypeOK'
  BY StepsAre, TypesPerceive, TypesTold, TypesNavigate, TypesGoTo, TypesTick,
     TypesPopulation, TypesScene DEF RouteInv
<1>2. RoutesGoOn' /\ OnlyNextDoor
  BY StepsAre, RouteNavigate, RouteGoTo, RouteTick, RoutePopulation, RouteElse
<1>3. QED
  BY <1>1, <1>2 DEF RouteInv, RoutesGoOn

(* A walk leads on from where its agent is, over connections of the scene, *)
(* whatever replaces it and whoever is despawned and spawned meanwhile; of *)
(* an agent that a teleporting handler has taken out of its walk, it leads *)
(* on from the next room of that walk.                                     *)
THEOREM WalksLeadOn == Spec => []OnRoute
<1>1. Init => RouteInv
  BY RouteAtFirst
<1>2. RouteInv /\ [Next]_vars => RouteInv'
  BY RouteStep
<1>3. RouteInv => OnRoute
  BY RouteInvMeans
<1>4. QED
  BY <1>1, <1>2, <1>3, PTL DEF Spec

(* So no step, and no tick, takes an agent to a room that is not next door *)
(* to the one it is in, but this: a tick may fetch an agent that a handler *)
(* has taken out of its walk, into the next room of that walk, and once.   *)
THEOREM NobodyJumps == Spec => [][OnlyNextDoor]_vars
<1>1. Init => RouteInv
  BY RouteAtFirst
<1>2. RouteInv /\ [Next]_vars => RouteInv' /\ [OnlyNextDoor]_vars
  BY RouteStep
<1>3. QED
  BY <1>1, <1>2, PTL DEF Spec

(* Of a room that is offered for its door alone navigation says the same   *)
(* as the offer: with no walk pending the answer is never that there is no *)
(* way, whatever doors were closed since the door was seen.                *)
THEOREM OfferedDoorsOpen == Spec => []OffersWalkable
<1>1. ASSUME NEW a \in active, NEW r \in (Offered(a) \cap Rooms) \ memory[a].visited,
             pending[a] = Nowhere
      PROVE  Answer(a, r).status \in {"walking", "arrived"}
  <2>1. r \in Rooms /\ r \notin Things
    BY NavigationAssumption
  <2>2. KnownRoom(a, r) /\ Reaches(location[a], r)
    BY <2>1 DEF Offered, CanReach
  <2>3. Answer(a, r) = Routed(a, r)
    BY <1>1 DEF Answer
  <2>4. QED
    BY <2>1, <2>2, <2>3 DEF Routed, Reply
<1>2. OffersWalkable
  BY <1>1 DEF OffersWalkable
<1>3. QED
  BY <1>2, PTL


=============================================================================
