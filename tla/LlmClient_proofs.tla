--------------------------- MODULE LlmClient_proofs ---------------------------
(***************************************************************************)
(* Theorems about the LLM client, for any callers, retries, iterations and *)
(* batches, with or without tools.                                         *)
(*                                                                         *)
(* Callers do not interact, so everything is said of one call and of the   *)
(* batch service.  CallInv joins the types of a call to what its stage     *)
(* says of the rest of it and to the count of its requests; BatchInv says  *)
(* the same of a batch.                                                    *)
(***************************************************************************)
EXTENDS LlmClient, TLAPS

-----------------------------------------------------------------------------
(* The count.  Iterations(k) is the number of rounds of one tool loop, M   *)
(* the number of attempts of a round, Done(r) the rounds that are over.    *)
M == MaxRetries + 1
Iterations(k) == IF Looping(k) THEN MaxIterations ELSE 1
Done(r) == (IF r.repairing THEN Iterations(r.kind) ELSE 0)
           + (IF r.verdict = "iterations" THEN r.round - 1 ELSE r.round)

Counted(r) == r.sent <= Done(r) * M + r.attempt + 1

\* What the stage of a call says of the rest of it.
Staged(r) ==
  /\ r.stage # "over" => r.verdict = "open" /\ r.round < Iterations(r.kind)
  /\ r.stage = "over" => r.verdict # "open"
  /\ r.verdict = "iterations" => r.round = MaxIterations /\ Looping(r.kind)
  /\ r.verdict # "iterations" => r.round < Iterations(r.kind)
  /\ r.stage = "sleeping" => r.attempt < MaxRetries
  /\ r.stage = "reading" => r.heard \in Replies
  /\ r.stage = "recalling" => r.heard = "recall" /\ Looping(r.kind)
  /\ r.stage = "embedding" => r.heard \in Bodies \ {"null"} /\ r.kind = "consolidation"
  /\ r.repairing => r.kind = "plan"

\* EndsTruly, said of one call.
Truly(r) ==
  /\ r.verdict = "timeout" => r.heard = "timeout" /\ (r.attempt = MaxRetries \/ ~RetryOnTimeout)
  /\ r.verdict = "network" => r.heard = "network" /\ r.attempt = MaxRetries
  /\ r.verdict = "rateLimit" => r.heard = "limited" /\ r.attempt = MaxRetries
  /\ r.verdict = "http" => r.heard = "refused"
  /\ r.verdict = "iterations" => r.heard \in Tools /\ r.round = MaxIterations
  /\ r.verdict = "response" => r.heard \in Bodies \ {"proper"}
  /\ r.verdict = "typeError" => r.heard = "null" /\ r.kind # "plan"
  /\ r.verdict = "answer" => /\ r.heard \in Bodies \ {"null"}
                             /\ r.kind \in {"plan", "execute"} => r.heard = "proper"

CallInv(r) == r \in Calls /\ Staged(r) /\ Counted(r) /\ Truly(r)

Parts(b) ==
  /\ b \in Batches
  /\ {e \in b.asked : b.by[e] = "none"} = b.waiting \cup b.left
  /\ b.waiting \cap b.members = {} /\ b.left \subseteq b.members

BatchInv(b) ==
  /\ Parts(b)
  /\ b.alone # Nobody => b.alone \in b.left \ b.valid

Inv ==
  /\ call \in [Callers -> Calls]
  /\ \A c \in Callers : CallInv(call[c])
  /\ used \in [Agents -> 0..MaxMutations]
  /\ BatchInv(batch)
-----------------------------------------------------------------------------
(* Arithmetic.                                                             *)

LEMMA Numbers == /\ MaxRetries \in Nat /\ MaxIterations \in Nat \ {0} /\ MaxMutations \in Nat
                 /\ M \in Nat \ {0} /\ M = MaxRetries + 1
BY ClientAssumption DEF M

LEMMA SomeIterations ==
  ASSUME NEW k
  PROVE  Iterations(k) \in Nat \ {0} /\ Iterations(k) <= MaxIterations
BY ClientAssumption DEF Iterations

LEMMA Distributes ==
  ASSUME NEW a \in Nat, NEW b \in Nat, NEW n \in Nat
  PROVE  (a + b) * n = a * n + b * n
OBVIOUS

LEMMA OneMore ==
  ASSUME NEW a \in Nat
  PROVE  (a + 1) * M = a * M + MaxRetries + 1 /\ a * M \in Nat
<1>1. (a + 1) * M = a * M + 1 * M
  BY Distributes, Numbers
<1>2. a * M \in Nat
  BY Numbers
<1>3. QED
  BY <1>1, <1>2, Numbers

LEMMA Monotone ==
  ASSUME NEW a \in Nat, NEW b \in Nat, a <= b
  PROVE  a * M <= b * M
<1>1. PICK d \in Nat : b = a + d
  <2>1. b - a \in Nat /\ b = a + (b - a)
    OBVIOUS
  <2>2. QED
    BY <2>1
<1>2. b * M = a * M + d * M
  BY <1>1, Distributes, Numbers
<1>3. a * M \in Nat /\ d * M \in Nat
  BY Numbers
<1>4. QED
  BY <1>2, <1>3

LEMMA DoneNat ==
  ASSUME NEW r, CallInv(r)
  PROVE  Done(r) \in Nat /\ Done(r) * M \in Nat
<1>1. r.round \in Nat /\ (r.verdict = "iterations" => r.round >= 1)
  BY Numbers DEF CallInv, Calls, Staged
<1>2. Done(r) \in Nat
  BY <1>1, SomeIterations DEF Done
<1>3. QED
  BY <1>2, Numbers
-----------------------------------------------------------------------------
(* Calls.  Each step of a call keeps its invariant.                        *)

LEMMA IdleInv == CallInv(Idle)
<1>1. Idle \in Calls
  BY Numbers DEF Idle, Calls, Kinds, Stages, Verdicts
<1>2. Staged(Idle) /\ Truly(Idle)
  BY SomeIterations DEF Idle, Staged, Truly
<1>3. Done(Idle) = 0
  BY Numbers DEF Idle, Done
<1>4. Counted(Idle)
  BY <1>3, Numbers DEF Counted, Idle
<1>5. QED
  BY <1>1, <1>2, <1>4 DEF CallInv

LEMMA OpenedInv ==
  ASSUME NEW k \in Kinds
  PROVE  CallInv(Opened(k))
<1> DEFINE r == Opened(k)
<1>0. /\ r.kind = k /\ r.stage = "fetching" /\ r.attempt = 0 /\ r.round = 0
      /\ r.repairing = FALSE /\ r.sent = 1 /\ r.verdict = "open" /\ r.heard = "nothing"
  BY DEF Opened, Idle
<1>1. r \in Calls
  BY IdleInv DEF CallInv, Opened, Calls, Stages, Verdicts
<1>2. Staged(r) /\ Truly(r)
  BY <1>0, SomeIterations DEF Staged, Truly
<1>3. Done(r) = 0 /\ r.sent = 1 /\ r.attempt = 0
  BY <1>0 DEF Done
<1>4. Counted(r)
  BY <1>3, Numbers DEF Counted
<1>5. QED
  BY <1>1, <1>2, <1>4 DEF CallInv

\* A call that waits for something hears something else; the count is not
\* concerned.
LEMMA HeardInv ==
  ASSUME NEW r, CallInv(r), r.verdict = "open",
         NEW s \in Stages \ {"over"}, NEW h \in {"timeout", "network"} \cup Replies \cup Bodies,
         s = "sleeping" => r.attempt < MaxRetries,
         s = "reading" => h \in Replies,
         s = "recalling" => h = "recall" /\ Looping(r.kind),
         s = "embedding" => h \in Bodies \ {"null"} /\ r.kind = "consolidation"
  PROVE  CallInv([r EXCEPT !.stage = s, !.heard = h])
<1> DEFINE q == [r EXCEPT !.stage = s, !.heard = h]
<1>1. q \in Calls
  BY DEF CallInv, Calls
<1>2. Staged(q) /\ Truly(q)
  BY DEF CallInv, Calls, Staged, Truly
<1>3. Done(q) = Done(r) /\ q.sent = r.sent /\ q.attempt = r.attempt
  BY DEF CallInv, Calls, Done
<1>4. Counted(q)
  BY <1>3 DEF CallInv, Counted
<1>5. QED
  BY <1>1, <1>2, <1>4 DEF CallInv

\* A call that ends without an iteration of its tool loop.
LEMMA OverInv ==
  ASSUME NEW r, CallInv(r), r.verdict = "open",
         NEW v \in Verdicts \ {"open", "iterations", "none"},
         NEW h \in {"timeout", "network"} \cup Replies \cup Bodies,
         Truly([r EXCEPT !.stage = "over", !.verdict = v, !.heard = h])
  PROVE  CallInv([r EXCEPT !.stage = "over", !.verdict = v, !.heard = h])
<1> DEFINE q == [r EXCEPT !.stage = "over", !.verdict = v, !.heard = h]
<1>1. q \in Calls
  BY DEF CallInv, Calls, Stages
<1>2. Staged(q)
  BY DEF CallInv, Calls, Staged
<1>3. Done(q) = Done(r) /\ q.sent = r.sent /\ q.attempt = r.attempt
  BY DEF CallInv, Calls, Done
<1>4. Counted(q)
  BY <1>3 DEF CallInv, Counted
<1>5. QED
  BY <1>1, <1>2, <1>4 DEF CallInv

LEMMA AttemptedInv ==
  ASSUME NEW r, CallInv(r), r.stage = "sleeping"
  PROVE  CallInv(Attempted(r))
<1> DEFINE q == Attempted(r)
<1>0. /\ q = [r EXCEPT !.stage = "fetching", !.attempt = r.attempt + 1, !.sent = r.sent + 1]
      /\ r.attempt + 1 \in 0..MaxRetries /\ r.sent + 1 \in Nat
  BY Numbers DEF Attempted, CallInv, Calls, Staged
<1>1. q \in Calls
  BY <1>0 DEF CallInv, Calls, Stages
<1>2. Staged(q) /\ Truly(q)
  BY <1>0 DEF CallInv, Calls, Staged, Truly
<1>3. Done(q) = Done(r) /\ q.sent = r.sent + 1 /\ q.attempt = r.attempt + 1
  BY <1>0 DEF CallInv, Calls, Done
<1>4. r.sent \in Nat /\ r.attempt \in Nat /\ Done(r) * M \in Nat
  BY DoneNat, Numbers DEF CallInv, Calls
<1>5. Counted(q)
  BY <1>3, <1>4 DEF CallInv, Counted
<1>6. QED
  BY <1>1, <1>2, <1>5 DEF CallInv

\* Whatever the tool was, its round is over.
LEMMA ToldToolInv ==
  ASSUME NEW r, CallInv(r), r.verdict = "open", NEW h \in Tools, Looping(r.kind)
  PROVE  CallInv(ToldTool([r EXCEPT !.heard = h]))
<1> DEFINE p == [r EXCEPT !.heard = h]
           q == ToldTool(p)
<1>1. /\ r.round < MaxIterations /\ r.round \in Nat /\ r.sent \in Nat
      /\ r.attempt \in 0..MaxRetries /\ r.stage # "over"
  BY DEF CallInv, Calls, Staged, Iterations
<1>2. Done(r) \in Nat /\ Done(r) * M \in Nat
  BY DoneNat
<1>3. r.sent <= Done(r) * M + r.attempt + 1
  BY DEF CallInv, Counted
<1>4. (Done(r) + 1) * M = Done(r) * M + MaxRetries + 1
  BY <1>2, OneMore
<1>5. CASE r.round + 1 < MaxIterations
  <2>1. q = [r EXCEPT !.heard = h, !.stage = "fetching", !.attempt = 0,
                      !.sent = r.sent + 1, !.round = r.round + 1]
    BY <1>5 DEF ToldTool, Requested, CallInv, Calls
  <2>a. 0 \in 0..MaxRetries /\ r.sent + 1 \in Nat /\ r.round + 1 \in 0..MaxIterations
    BY <1>1, <1>5, Numbers
  <2>2. q \in Calls
    BY <2>1, <2>a DEF CallInv, Calls, Stages, Bodies
  <2>3. Staged(q) /\ Truly(q)
    BY <1>1, <1>5, <2>1 DEF CallInv, Calls, Staged, Truly, Iterations
  <2>b. Iterations(r.kind) \in Nat
    BY SomeIterations
  <2>c. /\ q.repairing = r.repairing /\ q.kind = r.kind /\ q.verdict = "open"
        /\ q.round = r.round + 1
    BY <2>1 DEF CallInv, Calls
  <2>4. Done(q) = Done(r) + 1
    BY <1>1, <2>b, <2>c DEF Done
  <2>5. q.sent = r.sent + 1 /\ q.attempt = 0
    BY <2>1 DEF CallInv, Calls
  <2>6. q.sent <= Done(q) * M + q.attempt + 1
    BY <1>1, <1>2, <1>3, <1>4, <2>4, <2>5, Numbers
  <2>7. QED
    BY <2>2, <2>3, <2>6 DEF CallInv, Counted
<1>6. CASE ~(r.round + 1 < MaxIterations)
  <2>1. q = [r EXCEPT !.heard = h, !.stage = "over", !.verdict = "iterations",
                      !.round = r.round + 1]
    BY <1>6 DEF ToldTool, Over, CallInv, Calls
  <2>a. r.round + 1 = MaxIterations /\ r.round + 1 \in 0..MaxIterations
    BY <1>1, <1>6, Numbers
  <2>2. q \in Calls
    BY <2>1, <2>a DEF CallInv, Calls, Stages, Verdicts, Bodies
  <2>3. Staged(q) /\ Truly(q)
    BY <2>1, <2>a DEF CallInv, Calls, Staged, Truly
  <2>b. Iterations(r.kind) \in Nat
    BY SomeIterations
  <2>c. /\ q.repairing = r.repairing /\ q.kind = r.kind /\ q.verdict = "iterations"
        /\ q.round = r.round + 1
    BY <2>1 DEF CallInv, Calls
  <2>4. Done(q) = Done(r)
    BY <1>1, <2>b, <2>c DEF Done
  <2>5. q.sent = r.sent /\ q.attempt = r.attempt
    BY <2>1 DEF CallInv, Calls
  <2>6. QED
    BY <1>3, <2>2, <2>3, <2>4, <2>5 DEF CallInv, Counted
<1>7. QED
  BY <1>5, <1>6

LEMMA RepairedInv ==
  ASSUME NEW r, CallInv(r), r.verdict = "open", NEW h \in Bodies,
         r.kind = "plan", ~r.repairing
  PROVE  CallInv(Repaired([r EXCEPT !.heard = h]))
<1> DEFINE p == [r EXCEPT !.heard = h]
           q == Repaired(p)
           it == Iterations(r.kind)
<1>1. /\ r.round < it /\ r.round \in Nat /\ r.sent \in Nat /\ it \in Nat
      /\ r.attempt \in 0..MaxRetries /\ r.stage # "over" /\ it >= 1
  BY SomeIterations DEF CallInv, Calls, Staged
<1>2. Done(r) = r.round /\ Done(r) \in Nat /\ Done(r) * M \in Nat
  BY <1>1, DoneNat DEF Done
<1>3. r.sent <= Done(r) * M + r.attempt + 1
  BY DEF CallInv, Counted
<1>4. (Done(r) + 1) * M = Done(r) * M + MaxRetries + 1
  BY <1>2, OneMore
<1>5. (Done(r) + 1) * M <= it * M
  BY <1>1, <1>2, Monotone
<1>6. q = [r EXCEPT !.heard = h, !.stage = "fetching", !.attempt = 0,
                    !.sent = r.sent + 1, !.round = 0, !.repairing = TRUE]
  BY DEF Repaired, Requested, CallInv, Calls
<1>a. 0 \in 0..MaxRetries /\ r.sent + 1 \in Nat /\ 0 \in 0..MaxIterations
  BY <1>1, Numbers
<1>7. q \in Calls
  BY <1>6, <1>a DEF CallInv, Calls, Stages, Bodies
<1>b. /\ q.kind = r.kind /\ q.stage = "fetching" /\ q.attempt = 0 /\ q.round = 0
      /\ q.repairing = TRUE /\ q.verdict = "open" /\ q.heard = h
  BY <1>6 DEF CallInv, Calls
<1>8. Staged(q) /\ Truly(q)
  BY <1>1, <1>b DEF Staged, Truly
<1>9. Done(q) = it
  BY <1>1, <1>b DEF Done
<1>10. q.sent = r.sent + 1 /\ q.attempt = 0
  BY <1>6 DEF CallInv, Calls
<1>11. it * M \in Nat
  BY <1>1, Numbers
<1>12. q.sent <= Done(q) * M + q.attempt + 1
  BY <1>1, <1>2, <1>3, <1>4, <1>5, <1>9, <1>10, <1>11, Numbers
<1>13. QED
  BY <1>7, <1>8, <1>12 DEF CallInv, Counted
-----------------------------------------------------------------------------
(* The steps of a call.                                                    *)

LEMMA FailedInv ==
  ASSUME NEW r, CallInv(r), r.verdict = "open",
         NEW v \in {"timeout", "network", "rateLimit"},
         NEW h \in {"timeout", "network", "limited"},
         <<v, h>> \in {<<"timeout", "timeout">>, <<"network", "network">>, <<"rateLimit", "limited">>}
  PROVE  CallInv(Failed([r EXCEPT !.heard = h], v))
<1> DEFINE p == [r EXCEPT !.heard = h]
<1>0. p.attempt = r.attempt /\ r.attempt \in 0..MaxRetries
  BY DEF CallInv, Calls
<1>1. CASE r.attempt < MaxRetries
  <2>1. Failed(p, v) = [r EXCEPT !.stage = "sleeping", !.heard = h]
    BY <1>0, <1>1 DEF Failed, CallInv, Calls
  <2>2. CallInv([r EXCEPT !.stage = "sleeping", !.heard = h])
    BY <1>1, HeardInv DEF Stages, Replies
  <2>3. QED
    BY <2>1, <2>2
<1>2. CASE ~(r.attempt < MaxRetries)
  <2>1. Failed(p, v) = [r EXCEPT !.stage = "over", !.verdict = v, !.heard = h]
    BY <1>0, <1>2 DEF Failed, Over, CallInv, Calls
  <2>2. Truly([r EXCEPT !.stage = "over", !.verdict = v, !.heard = h])
    BY <1>0, <1>2, Numbers DEF Truly, CallInv, Calls
  <2>3. CallInv([r EXCEPT !.stage = "over", !.verdict = v, !.heard = h])
    BY <2>2, OverInv DEF Verdicts, Replies
  <2>4. QED
    BY <2>1, <2>3
<1>3. QED
  BY <1>1, <1>2

\* A call that ends with a verdict that says nothing of attempts.
LEMMA ClosedInv ==
  ASSUME NEW r, CallInv(r), r.verdict = "open", NEW h \in Replies \cup Bodies,
         NEW v \in {"http", "response", "typeError", "answer", "embedder"},
         v = "http" => h = "refused",
         v = "response" => h \in Bodies \ {"proper"},
         v = "typeError" => h = "null" /\ r.kind # "plan",
         v = "answer" => h \in Bodies \ {"null"} /\ (r.kind \in {"plan", "execute"} => h = "proper")
  PROVE  CallInv(Over([r EXCEPT !.heard = h], v))
<1>1. Over([r EXCEPT !.heard = h], v) = [r EXCEPT !.stage = "over", !.verdict = v, !.heard = h]
  BY DEF Over, CallInv, Calls
<1>2. Truly([r EXCEPT !.stage = "over", !.verdict = v, !.heard = h])
  BY DEF Truly, CallInv, Calls
<1>3. CallInv([r EXCEPT !.stage = "over", !.verdict = v, !.heard = h])
  BY <1>2, OverInv DEF Verdicts
<1>4. QED
  BY <1>1, <1>3

LEMMA JudgedInv ==
  ASSUME NEW r, CallInv(r), r.stage = "reading",
         NEW b \in Bodies
  PROVE  CallInv(Judged([r EXCEPT !.heard = b], b))
<1> DEFINE p == [r EXCEPT !.heard = b]
<1>1. r.verdict = "open" /\ p.kind = r.kind /\ p.repairing = r.repairing /\ r.kind \in Kinds
  BY DEF CallInv, Calls, Staged
<1>0. CASE b = "null" /\ r.kind # "plan"
  <2>1. Judged(p, b) = Over(p, "typeError")
    BY <1>1, <1>0 DEF Kinds, Judged, ActionChosen, PlanDecoded,
                            BatchDecoded, ReflectDecoded, Consolidated
  <2>2. QED
    BY <1>1, <1>0, <2>1, ClosedInv
<1>2. CASE r.kind \in {"reflect", "batch"} /\ b # "null"
  <2>1. Judged(p, b) = Over(p, "answer")
    BY <1>1, <1>2 DEF Judged, ActionChosen, PlanDecoded,
                            BatchDecoded, ReflectDecoded, Consolidated
  <2>2. QED
    BY <1>1, <1>2, <2>1, ClosedInv
<1>3. CASE r.kind = "consolidation" /\ b # "null"
  <2>1. Judged(p, b) = [p EXCEPT !.stage = "embedding"]
    BY <1>1, <1>3 DEF Judged, ActionChosen, PlanDecoded,
                            BatchDecoded, ReflectDecoded, Consolidated
  <2>2. [p EXCEPT !.stage = "embedding"] = [r EXCEPT !.stage = "embedding", !.heard = b]
    BY DEF CallInv, Calls
  <2>3. CallInv([r EXCEPT !.stage = "embedding", !.heard = b])
    BY <1>1, <1>3, HeardInv DEF Stages
  <2>4. QED
    BY <2>1, <2>2, <2>3
<1>4. CASE r.kind \in {"plan", "execute"} /\ b = "proper"
  <2>1. Judged(p, b) = Over(p, "answer")
    BY <1>1, <1>4 DEF Judged, ActionChosen, PlanDecoded,
                            BatchDecoded, ReflectDecoded, Consolidated
  <2>2. QED
    BY <1>1, <1>4, <2>1, ClosedInv
<1>5. CASE r.kind = "plan" /\ b # "proper" /\ ~r.repairing
  <2>1. Judged(p, b) = Repaired(p)
    BY <1>1, <1>5 DEF Judged, ActionChosen, PlanDecoded,
                            BatchDecoded, ReflectDecoded, Consolidated
  <2>2. QED
    BY <1>1, <1>5, <2>1, RepairedInv
<1>6. CASE /\ r.kind \in {"plan", "execute"} /\ b # "proper"
           /\ IF r.kind = "plan" THEN r.repairing ELSE b # "null"
  <2>1. Judged(p, b) = Over(p, "response")
    BY <1>1, <1>6 DEF Judged, ActionChosen, PlanDecoded,
                            BatchDecoded, ReflectDecoded, Consolidated
  <2>2. QED
    BY <1>1, <1>6, <2>1, ClosedInv
<1>7. QED
  BY <1>1, <1>0, <1>2, <1>3, <1>4, <1>5, <1>6 DEF Kinds

LEMMA UnderstoodInv ==
  ASSUME NEW r, CallInv(r), r.stage = "reading", NEW b \in Bodies
  PROVE  CallInv(Understood([r EXCEPT !.heard = b], b))
<1> DEFINE p == [r EXCEPT !.heard = b]
<1>1. r.verdict = "open" /\ p.kind = r.kind
  BY DEF CallInv, Calls, Staged
<1>2. CASE b \in {"noCall", "garbled"}
  <2>1. Understood(p, b) = Over(p, "response")
    BY <1>1, <1>2 DEF Understood, Tools
  <2>2. QED
    BY <1>1, <1>2, <2>1, ClosedInv DEF Bodies
<1>3. CASE b \in Tools /\ Looping(r.kind) /\ b = "recall"
  <2>1. Understood(p, b) = [p EXCEPT !.stage = "recalling"]
    BY <1>1, <1>3 DEF Understood, Tools
  <2>2. [p EXCEPT !.stage = "recalling"] = [r EXCEPT !.stage = "recalling", !.heard = b]
    BY DEF CallInv, Calls
  <2>3. CallInv([r EXCEPT !.stage = "recalling", !.heard = b])
    BY <1>1, <1>3, HeardInv DEF Stages
  <2>4. QED
    BY <2>1, <2>2, <2>3
<1>4. CASE b \in Tools /\ Looping(r.kind) /\ b # "recall"
  <2>1. Understood(p, b) = ToldTool(p)
    BY <1>1, <1>4 DEF Understood, Tools
  <2>2. QED
    BY <1>1, <1>4, <2>1, ToldToolInv
<1>5. CASE b = "garbledTool" /\ ~Looping(r.kind)
  <2>1. Understood(p, b) = Over(p, "response")
    BY <1>1, <1>5 DEF Understood, Tools
  <2>2. QED
    BY <1>1, <1>5, <2>1, ClosedInv DEF Bodies
<1>6. CASE ~(b \in {"noCall", "garbled"}) /\ ~(b \in Tools /\ Looping(r.kind))
           /\ ~(b = "garbledTool" /\ ~Looping(r.kind))
  <2>1. Understood(p, b) = Judged(p, b)
    BY <1>1, <1>6 DEF Understood
  <2>2. QED
    BY <2>1, JudgedInv
<1>7. QED
  BY <1>2, <1>3, <1>4, <1>5, <1>6
-----------------------------------------------------------------------------
(* Batches.                                                                *)

LEMMA NoBatchInv == BatchInv(NoBatch)
BY DEF BatchInv, Parts, NoBatch, Batches, Sources

\* The loop over the members moves entries from left to by.
LEMMA AdvancedInv ==
  ASSUME NEW b, Parts(b), NEW N \in SUBSET b.left, NEW K \in SUBSET b.left,
         NEW e \in Entries \cup {Nobody},
         e # Nobody => e \in b.left \ (b.valid \cup N \cup K)
  PROVE  BatchInv(Advanced(b, N, K, e))
<1> DEFINE q == Advanced(b, N, K, e)
<1>1. /\ q.asked = b.asked /\ q.waiting = b.waiting /\ q.members = b.members
      /\ q.left = b.left \ (N \cup K) /\ q.valid = b.valid /\ q.alone = e
      /\ q.by = [f \in Entries |-> IF f \in N THEN "batch" ELSE IF f \in K THEN "alone" ELSE b.by[f]]
  BY DEF Advanced, Parts, Batches
<1>2. q \in Batches
  BY DEF Advanced, Parts, Batches, Sources
<1>3. \A f \in b.asked : q.by[f] = "none" <=> b.by[f] = "none" /\ f \notin N \cup K
  BY <1>1 DEF Parts, Batches
<1>4. (N \cup K) \cap b.waiting = {}
  BY DEF Parts
<1>5. {f \in b.asked : b.by[f] = "none"} = b.waiting \cup b.left
  BY DEF Parts
<1>6. {f \in q.asked : q.by[f] = "none"} = q.waiting \cup q.left
  BY <1>1, <1>3, <1>4, <1>5
<1>7. q.waiting \cap q.members = {} /\ q.left \subseteq q.members
  BY <1>1 DEF Parts
<1>8. q.alone # Nobody => q.alone \in q.left \ q.valid
  BY <1>1
<1>9. QED
  BY <1>2, <1>6, <1>7, <1>8 DEF BatchInv, Parts

\* The batch is left well, and the batch service with a call of its own or
\* with none.
Turned == \E r : CallInv(r) /\ Goes(Batch, r)

LEMMA TurnsInv ==
  ASSUME NEW b, Parts(b), Turns(b)
  PROVE  BatchInv(batch') /\ Turned
<1>0. b.left \subseteq Entries /\ b.valid \subseteq Entries
  BY DEF Parts, Batches
<1>1. CASE \E K \in SUBSET Alone(b) : \E e \in Alone(b) \ K, N \in SUBSET (b.left \ Alone(b)) :
             batch' = Advanced(b, N, K, e) /\ Goes(Batch, Opened("plan"))
  <2>0. PICK K \in SUBSET Alone(b) : \E e \in Alone(b) \ K, N \in SUBSET (b.left \ Alone(b)) :
             batch' = Advanced(b, N, K, e) /\ Goes(Batch, Opened("plan"))
    BY <1>1
  <2>1. PICK e \in Alone(b) \ K, N \in SUBSET (b.left \ Alone(b)) :
             batch' = Advanced(b, N, K, e) /\ Goes(Batch, Opened("plan"))
    BY <2>0
  <2>2. e \in b.left \ (b.valid \cup N \cup K) /\ e \in Entries
    BY <1>0, <2>1 DEF Alone
  <2>3. N \in SUBSET b.left /\ K \in SUBSET b.left
    BY DEF Alone
  <2>4. BatchInv(Advanced(b, N, K, e))
    BY <2>2, <2>3, AdvancedInv
  <2>5. CallInv(Opened("plan"))
    BY OpenedInv DEF Kinds
  <2>6. QED
    BY <2>1, <2>4, <2>5 DEF Turned
<1>2. CASE /\ batch' = [Advanced(b, b.left \ Alone(b), Alone(b), Nobody) EXCEPT !.members = {}]
           /\ Goes(Batch, Idle)
  <2> DEFINE p == Advanced(b, b.left \ Alone(b), Alone(b), Nobody)
  <2>0. b.left \ Alone(b) \in SUBSET b.left /\ Alone(b) \in SUBSET b.left
    BY DEF Alone
  <2>1. BatchInv(p)
    BY <2>0, AdvancedInv
  <2>2. p.left = {} /\ p.alone = Nobody
    BY DEF Advanced, Parts, Batches
  <2>3. batch' = [p EXCEPT !.members = {}] /\ Turned
    BY <1>2, IdleInv DEF Turned
  <2> HIDE DEF p
  <2>4. QED
    BY <2>1, <2>2, <2>3 DEF BatchInv, Parts, Batches
<1>3. QED
  BY <1>1, <1>2 DEF Turns
-----------------------------------------------------------------------------
(* The invariant.                                                          *)

LEMMA InitInv == Init => Inv
<1> SUFFICES ASSUME Init PROVE Inv
  OBVIOUS
<1>1. Idle \in Calls /\ CallInv(Idle)
  BY IdleInv DEF CallInv
<1>2. 0 \in 0..MaxMutations
  BY Numbers
<1>3. QED
  BY <1>1, <1>2, NoBatchInv DEF Init, Inv

\* One call goes on; nothing else changes.
LEMMA GoesInv ==
  ASSUME Inv, NEW c \in Callers, NEW r, CallInv(r), Goes(c, r)
  PROVE  call' \in [Callers -> Calls] /\ \A d \in Callers : CallInv(call'[d])
<1>1. r \in Calls
  BY DEF CallInv
<1>2. QED
  BY <1>1 DEF Inv, Goes

LEMMA NextInv == Inv /\ [Next]_vars => Inv'
<1> SUFFICES ASSUME Inv, [Next]_vars PROVE Inv'
  OBVIOUS
<1> USE DEF Callers
<1>0. /\ \A c \in Callers : CallInv(call[c])
      /\ \A c \in Callers : call[c].stage # "over" => call[c].verdict = "open"
  BY DEF Inv, CallInv, Staged
\* What remains to be shown of an action that changes one call.
<1>G. ASSUME NEW c \in Callers, NEW r, CallInv(r), Goes(c, r),
             used' \in [Agents -> 0..MaxMutations], BatchInv(batch')
      PROVE  Inv'
  <2>1. call' \in [Callers -> Calls] /\ \A d \in Callers : CallInv(call'[d])
    BY <1>G, GoesInv
  <2>2. QED
    BY <1>G, <2>1 DEF Inv, CallInv, Calls, Staged, Counted, Truly, Done, Iterations, BatchInv, Parts
<1>U. UNCHANGED <<used, batch>> => used' \in [Agents -> 0..MaxMutations] /\ BatchInv(batch')
  BY DEF Inv
<1>1. ASSUME NEW a \in Agents, NEW k \in Kinds \ {"batch"}, Begin(a, k) PROVE Inv'
  BY <1>1, <1>G, <1>U, OpenedInv DEF Begin
<1>2. ASSUME NEW a \in Agents, Returns(a) PROVE Inv'
  BY <1>2, <1>G, <1>U, IdleInv DEF Returns
<1>3. ASSUME NEW c \in Callers, TimesOut(c) PROVE Inv'
  <2>1. call[c].verdict = "open"
    BY <1>0, <1>3 DEF TimesOut, In
  <2>2. CASE RetryOnTimeout
    <3>1. CallInv(Failed([call[c] EXCEPT !.heard = "timeout"], "timeout"))
      BY <1>0, <2>1, FailedInv
    <3>2. QED
      BY <1>3, <1>G, <1>U, <2>2, <3>1 DEF TimesOut
  <2>3. CASE ~RetryOnTimeout
    <3> DEFINE r == call[c]
               q == Over([r EXCEPT !.heard = "timeout"], "timeout")
    <3>1. CallInv(r)
      BY <1>0
    <3>2. q = [r EXCEPT !.stage = "over", !.verdict = "timeout", !.heard = "timeout"]
      BY <3>1 DEF Over, CallInv, Calls
    <3>3. Truly([r EXCEPT !.stage = "over", !.verdict = "timeout", !.heard = "timeout"])
      BY <2>3, <3>1 DEF Truly, CallInv, Calls
    <3>4. CallInv([r EXCEPT !.stage = "over", !.verdict = "timeout", !.heard = "timeout"])
      BY <2>1, <3>1, <3>3, OverInv DEF Verdicts
    <3>5. CallInv(q)
      BY <3>2, <3>4
    <3>6. Goes(c, q)
      BY <1>3, <2>3 DEF TimesOut
    <3> HIDE DEF q
    <3>7. QED
      BY <1>3, <1>G, <1>U, <3>5, <3>6 DEF TimesOut
  <2>4. QED
    BY <2>2, <2>3
<1>4. ASSUME NEW c \in Callers, Unreachable(c) PROVE Inv'
  <2>1. CallInv(Failed([call[c] EXCEPT !.heard = "network"], "network"))
    BY <1>0, <1>4, FailedInv DEF Unreachable, In
  <2>2. QED
    BY <1>4, <1>G, <1>U, <2>1 DEF Unreachable
<1>5. ASSUME NEW c \in Callers, Backoff(c) PROVE Inv'
  <2>1. CallInv(Attempted(call[c]))
    BY <1>0, <1>5, AttemptedInv DEF Backoff, In
  <2>2. QED
    BY <1>5, <1>G, <1>U, <2>1 DEF Backoff
<1>6. ASSUME NEW c \in Callers, NEW s \in Replies, Headers(c, s) PROVE Inv'
  <2>1. CallInv([call[c] EXCEPT !.stage = "reading", !.heard = s])
    BY <1>0, <1>6, HeardInv DEF Headers, In, Stages
  <2>2. QED
    BY <1>6, <1>G, <1>U, <2>1 DEF Headers
<1>7. ASSUME NEW c \in Callers, LimitedBody(c) PROVE Inv'
  <2>1. call[c].verdict = "open" /\ call[c].heard = "limited" /\ CallInv(call[c])
    BY <1>0, <1>7 DEF LimitedBody, In
  <2>2. CallInv(Failed([call[c] EXCEPT !.heard = "limited"], "rateLimit"))
    BY <2>1, FailedInv
  <2>3. [call[c] EXCEPT !.heard = "limited"] = call[c]
    BY <2>1 DEF CallInv, Calls
  <2>4. CallInv(Failed(call[c], "rateLimit"))
    BY <2>2, <2>3
  <2>5. QED
    BY <1>7, <1>G, <1>U, <2>4 DEF LimitedBody
<1>8. ASSUME NEW c \in Callers, RefusedBody(c) PROVE Inv'
  <2>1. call[c].verdict = "open" /\ call[c].heard = "refused" /\ CallInv(call[c])
    BY <1>0, <1>8 DEF RefusedBody, In
  <2>2. CallInv(Over([call[c] EXCEPT !.heard = "refused"], "http"))
    BY <2>1, ClosedInv DEF Replies
  <2>3. [call[c] EXCEPT !.heard = "refused"] = call[c]
    BY <2>1 DEF CallInv, Calls
  <2>4. CallInv(Over(call[c], "http"))
    BY <2>2, <2>3
  <2>5. QED
    BY <1>8, <1>G, <1>U, <2>4 DEF RefusedBody
<1>9. ASSUME NEW c \in Callers, NEW b \in Bodies, OkBody(c, b) PROVE Inv'
  <2>1. CallInv(Understood([call[c] EXCEPT !.heard = b], b))
    BY <1>0, <1>9, UnderstoodInv DEF OkBody, In
  <2>2. used' \in [Agents -> 0..MaxMutations]
    <3>1. CASE UNCHANGED used
      BY <3>1 DEF Inv
    <3>2. CASE /\ c \in Agents /\ used[c] < MaxMutations
               /\ used' = [used EXCEPT ![c] = @ + 1]
      <4>1. used[c] + 1 \in 0..MaxMutations
        BY <3>2, Numbers DEF Inv
      <4>2. QED
        BY <3>2, <4>1 DEF Inv
    <3>3. QED
      BY <1>9, <3>1, <3>2 DEF OkBody
  <2>3. BatchInv(batch')
    BY <1>9 DEF OkBody, Inv
  <2>4. QED
    BY <1>9, <1>G, <2>1, <2>2, <2>3 DEF OkBody
<1>10. ASSUME NEW c \in Callers, Recalled(c) PROVE Inv'
  <2>1. call[c].verdict = "open" /\ call[c].heard = "recall" /\ Looping(call[c].kind)
    BY <1>0, <1>10 DEF Recalled, In, CallInv, Staged
  <2>2. CallInv(ToldTool([call[c] EXCEPT !.heard = "recall"]))
    BY <1>0, <2>1, ToldToolInv DEF Tools
  <2>3. [call[c] EXCEPT !.heard = "recall"] = call[c]
    BY <1>0, <2>1 DEF CallInv, Calls
  <2>4. CallInv(ToldTool(call[c]))
    BY <2>2, <2>3
  <2>5. QED
    BY <1>10, <1>G, <1>U, <2>4 DEF Recalled
<1>11. ASSUME NEW c \in Callers, NEW v \in {"answer", "embedder"}, Embedded(c, v) PROVE Inv'
  <2> DEFINE r == call[c]
  <2>1. /\ r.verdict = "open" /\ r.heard \in Bodies \ {"null"} /\ r.kind = "consolidation"
        /\ CallInv(r)
    BY <1>0, <1>11 DEF Embedded, In, CallInv, Staged
  <2>2. CallInv(Over([r EXCEPT !.heard = r.heard], v))
    BY <2>1, ClosedInv
  <2>3. [r EXCEPT !.heard = r.heard] = r
    BY <2>1 DEF CallInv, Calls
  <2>4. CallInv(Over(r, v))
    BY <2>2, <2>3
  <2>5. QED
    BY <1>11, <1>G, <1>U, <2>4 DEF Embedded
<1>12. ASSUME NEW S \in SUBSET Entries, BatchBegins(S) PROVE Inv'
  <2> DEFINE q == [NoBatch EXCEPT !.asked = S, !.waiting = S]
  <2>1. BatchInv(q)
    BY DEF BatchInv, Parts, NoBatch, Batches, Sources
  <2>2. batch' = q /\ UNCHANGED <<call, used>>
    BY <1>12 DEF BatchBegins
  <2> HIDE DEF q
  <2>3. QED
    BY <2>1, <2>2 DEF Inv
<1>13. ASSUME BatchReturns PROVE Inv'
  BY <1>13, NoBatchInv DEF BatchReturns, Inv
<1>14. ASSUME NEW N \in SUBSET Entries, BatchAsks(N) PROVE Inv'
  <2>1. N \subseteq batch.waiting
    BY <1>14 DEF BatchAsks, Chunks
  <2>2. /\ batch.members = {} /\ BatchInv(batch)
        /\ batch' = [batch EXCEPT !.waiting = @ \ N, !.members = N, !.left = N, !.valid = {}]
    BY <1>14 DEF BatchAsks, Inv
  <2>3. BatchInv(batch')
    BY <2>1, <2>2 DEF BatchInv, Parts, Batches
  <2>4. CallInv(Opened("batch"))
    BY OpenedInv DEF Kinds
  <2>5. QED
    BY <1>14, <1>G, <2>3, <2>4 DEF BatchAsks, Inv
<1>15. ASSUME NEW V \in SUBSET Entries, BatchAnswered(V) PROVE Inv'
  <2> DEFINE p == [batch EXCEPT !.valid = V]
  <2>1. Turns(p) /\ UNCHANGED used
    BY <1>15 DEF BatchAnswered
  <2>2. Parts(p)
    BY <1>15 DEF BatchAnswered, Inv, BatchInv, Parts, Batches
  <2> HIDE DEF p
  <2>3. BatchInv(batch') /\ Turned
    BY <2>1, <2>2, TurnsInv
  <2>4. PICK r : CallInv(r) /\ Goes(Batch, r)
    BY <2>3 DEF Turned
  <2>5. QED
    BY <1>G, <2>1, <2>3, <2>4 DEF Inv
<1>16. ASSUME AloneAnswered PROVE Inv'
  <2> DEFINE e == batch.alone
  <2>1. PICK source \in {"alone", "failed"} : Turns([batch EXCEPT !.left = @ \ {e}, !.by[e] = source])
    BY <1>16 DEF AloneAnswered
  <2> DEFINE p == [batch EXCEPT !.left = @ \ {e}, !.by[e] = source]
  <2>2. /\ BatchInv(batch) /\ e \in batch.left \ batch.valid /\ e \in Entries
        /\ source \in Sources \ {"none"} /\ UNCHANGED used
    BY <1>16 DEF AloneAnswered, Inv, BatchInv, Parts, Batches, Sources
  <2>3. Parts(p)
    <3>1. /\ p.asked = batch.asked /\ p.waiting = batch.waiting /\ p.members = batch.members
          /\ p.left = batch.left \ {e} /\ p.by = [batch.by EXCEPT ![e] = source]
      BY <2>2 DEF BatchInv, Parts, Batches
    <3>2. p \in Batches
      BY <2>2 DEF BatchInv, Parts, Batches
    <3>3. {f \in p.asked : p.by[f] = "none"} = p.waiting \cup p.left
      BY <2>2, <3>1 DEF BatchInv, Parts, Batches
    <3>4. QED
      BY <2>2, <3>1, <3>2, <3>3 DEF BatchInv, Parts
  <2> HIDE DEF p
  <2>5. BatchInv(batch') /\ Turned
    BY <2>1, <2>3, TurnsInv DEF p
  <2>6. PICK r : CallInv(r) /\ Goes(Batch, r)
    BY <2>5 DEF Turned
  <2>7. QED
    BY <1>G, <2>2, <2>5, <2>6 DEF Inv
<1>17. ASSUME AloneAsksAgain PROVE Inv'
  <2>1. BatchInv(batch) /\ batch' = [batch EXCEPT !.again = TRUE]
    BY <1>17 DEF AloneAsksAgain, Inv
  <2>2. BatchInv(batch')
    BY <2>1 DEF BatchInv, Parts, Batches
  <2>3. CallInv(Opened("plan"))
    BY OpenedInv DEF Kinds
  <2>4. QED
    BY <1>17, <1>G, <2>2, <2>3 DEF AloneAsksAgain, Inv
<1>18. ASSUME UNCHANGED vars PROVE Inv'
  BY <1>18 DEF vars, Inv
<1>19. QED
  BY <1>1, <1>2, <1>3, <1>4, <1>5, <1>6, <1>7, <1>8, <1>9, <1>10, <1>11, <1>12, <1>13, <1>14,
     <1>15, <1>16, <1>17, <1>18 DEF Next

LEMMA Invariant == Spec => []Inv
BY InitInv, NextInv, PTL DEF Spec
-----------------------------------------------------------------------------
\* Calls, budgets and batches keep their types: no attempt beyond the
\* retries of sendRequest, no round beyond those of requestChat.
THEOREM TypeCorrect == Spec => []TypeOK
<1>1. Inv => TypeOK
  BY DEF Inv, TypeOK, BatchInv, Parts
<1>2. QED
  BY <1>1, Invariant, PTL

\* For any retries and iterations, a call of the client costs at most their
\* product, twice for a plan.
THEOREM CallsAreBounded == Spec => []RequestsBounded
<1>1. ASSUME Inv, NEW c \in Callers
      PROVE  call[c].sent <= Rounds(call[c].kind) * (MaxRetries + 1)
  <2> DEFINE r == call[c]
             it == Iterations(r.kind)
             n == IF r.kind = "plan" THEN 2 ELSE 1
  <2>1. CallInv(r)
    BY <1>1 DEF Inv
  <2>2. it \in Nat \ {0} /\ Done(r) \in Nat /\ Done(r) * M \in Nat
    BY <2>1, SomeIterations, DoneNat
  <2>3. (r.verdict = "iterations" => r.round - 1 < it) /\ (r.verdict # "iterations" => r.round < it)
    BY <2>1, Numbers DEF CallInv, Staged, Iterations, Calls
  <2>4. Done(r) + 1 <= it * n
    <3>1. CASE r.repairing
      <4>1. Done(r) + 1 <= it + it /\ n = 2
        BY <2>1, <2>2, <2>3, <3>1 DEF Done, CallInv, Staged, Calls
      <4>2. QED
        BY <2>2, <4>1
    <3>2. CASE ~r.repairing
      <4>1. Done(r) + 1 <= it /\ n \in {1, 2}
        BY <2>1, <2>2, <2>3, <3>2 DEF Done, CallInv, Calls
      <4>2. QED
        BY <2>2, <4>1
    <3>3. QED
      BY <3>1, <3>2
  <2>5. it * n = Rounds(r.kind) /\ it * n \in Nat
    BY <2>2 DEF Rounds, Iterations
  <2>6. (Done(r) + 1) * M <= Rounds(r.kind) * M
    BY <2>2, <2>4, <2>5, Monotone
  <2>7. (Done(r) + 1) * M = Done(r) * M + MaxRetries + 1
    BY <2>2, OneMore
  <2>8. r.sent <= Done(r) * M + r.attempt + 1 /\ r.attempt \in 0..MaxRetries /\ r.sent \in Nat
    BY <2>1 DEF CallInv, Counted, Calls
  <2>9. Rounds(r.kind) * M \in Nat
    BY <2>5, Numbers
  <2>10. r.sent <= Rounds(r.kind) * M
    BY <2>2, <2>6, <2>7, <2>8, <2>9, Numbers
  <2>11. QED
    BY <2>10 DEF M
<1>2. Inv => RequestsBounded
  BY <1>1 DEF RequestsBounded
<1>3. QED
  BY <1>2, Invariant, PTL

\* A call never ends in an error it did not meet last, or for want of a
\* retry it still had.
THEOREM EndingsAreTrue == Spec => []EndsTruly
<1>1. Inv => EndsTruly
  BY DEF Inv, CallInv, Truly, EndsTruly
<1>2. QED
  BY <1>1, Invariant, PTL

\* No entry of a batch is forgotten or planned for twice.
THEOREM BatchIsComplete == Spec => []PlannedOnce
<1>1. Inv => PlannedOnce
  BY DEF Inv, BatchInv, Parts, PlannedOnce
<1>2. QED
  BY <1>1, Invariant, PTL
=============================================================================
