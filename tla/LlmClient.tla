------------------------------ MODULE LlmClient ------------------------------
(***************************************************************************)
(* The LLM client of evol-hive.  A call of one of its methods makes a      *)
(* request, with retries, backoff and a timer for each attempt; a request  *)
(* answered with a cognitive tool has the tool executed and is followed by *)
(* another; a plan of the wrong shape is asked for once more.  The batch   *)
(* plan service is a caller of its own: one call for the agents of a room, *)
(* then a call for each agent it brought no plan.                          *)
(*                                                                         *)
(* Callers share nothing: the client keeps no state between calls, and a   *)
(* budget of the executor belongs to one agent.  So what runs between two  *)
(* waits of one caller may be several actions, and one busy caller at a    *)
(* time shows TLC what there is to see.                                    *)
(***************************************************************************)
EXTENDS Integers, FiniteSets

CONSTANTS
  Agents,          \* agents whose cycles call the client
  Batch,           \* the batch plan service
  Entries,         \* agents that plans are made for in batches
  RoomOf,          \* where they are
  Nobody,          \* no agent
  MaxRetries,      \* maxRetries
  MaxIterations,   \* maxToolCallIterations
  MaxBatchSize,    \* maxBatchSize
  MaxMutations,    \* maxSceneMutationsPerCycle
  RetryOnTimeout,  \* retryOnTimeout
  WithTools,       \* is there a cognitiveToolExecutor?
  MaxBusy          \* bound on the callers with something under way

ASSUME ClientAssumption ==
  /\ Batch \notin Agents /\ Nobody \notin Entries /\ IsFiniteSet(Entries)
  /\ MaxRetries \in Nat /\ MaxIterations \in Nat \ {0}
  /\ MaxBatchSize \in Nat \ {0} /\ MaxMutations \in Nat
  /\ RetryOnTimeout \in BOOLEAN /\ WithTools \in BOOLEAN
  /\ MaxBusy \in Nat

VARIABLES
  call,     \* of each caller: the call under way, or what came of it
  used,     \* sceneMutationBudget: proposals accepted, by agent
  batch     \* batchPlan and processBatch

vars == <<call, used, batch>>
Callers == Agents \cup {Batch}
-----------------------------------------------------------------------------
(* Calls.  stage says what the call waits for:                             *)
(*   fetching    the headers of an answer, with the abort timer running    *)
(*   reading     its body; the timer has been cleared                      *)
(*   sleeping    the backoff before the next attempt                       *)
(*   recalling   the memory query of a cognitive tool                      *)
(*   embedding   the embedding of a consolidated memory                    *)
(*   over        nothing: its caller goes on                               *)
(* heard is what the last attempt brought; sent counts the requests.       *)
Kinds == {"execute", "plan", "reflect", "consolidation", "batch"}
Stages == {"over", "fetching", "reading", "sleeping", "recalling", "embedding"}

\* A body may be null where the arguments of a terminal tool, or what is in
\* them, should be an object: valid JSON, and nothing a field can be read of.
Replies == {"limited", "refused", "ok"}
Tools == {"recall", "act", "propose", "garbledTool"}
Bodies == Tools \cup {"noCall", "garbled", "null", "misshaped", "proper"}
Verdicts == {"none", "open", "answer", "timeout", "network", "rateLimit", "http",
             "response", "typeError", "iterations", "embedder"}

Calls == [kind : Kinds, stage : Stages, attempt : 0..MaxRetries, round : 0..MaxIterations,
          repairing : BOOLEAN, sent : Nat, verdict : Verdicts,
          heard : {"nothing", "timeout", "network"} \cup Replies \cup Bodies]

Idle == [kind |-> "plan", stage |-> "over", attempt |-> 0, round |-> 0, repairing |-> FALSE,
         sent |-> 0, verdict |-> "none", heard |-> "nothing"]

Opened(k) == [Idle EXCEPT !.kind = k, !.stage = "fetching", !.sent = 1,
                          !.verdict = "open", !.heard = "nothing"]

\* requestChat runs the tool loop only with an executor and an agentId.
Looping(k) == WithTools /\ k \in {"execute", "plan", "reflect"}

Over(r, v) == [r EXCEPT !.stage = "over", !.verdict = v]

\* sendRequest begins anew, or with the next attempt.
Requested(r) == [r EXCEPT !.stage = "fetching", !.attempt = 0, !.sent = @ + 1]
Attempted(r) == [r EXCEPT !.stage = "fetching", !.attempt = @ + 1, !.sent = @ + 1]

\* An attempt that may be repeated has failed; v is the error of the last.
Failed(r, v) == IF r.attempt < MaxRetries THEN [r EXCEPT !.stage = "sleeping"] ELSE Over(r, v)

\* A plausible mistake: only tools that worked count as iterations.
ToldToolFree(r) ==
  IF r.heard = "garbledTool" THEN Requested(r)
  ELSE IF r.round + 1 < MaxIterations THEN [Requested(r) EXCEPT !.round = @ + 1]
  ELSE [Over(r, "iterations") EXCEPT !.round = @ + 1]

\* The result of a tool, or its error, goes into the next request.
ToldTool(r) ==
  IF r.round + 1 < MaxIterations THEN [Requested(r) EXCEPT !.round = @ + 1]
  ELSE [Over(r, "iterations") EXCEPT !.round = @ + 1]

\* completePlan asks once more for a plan of the wrong shape, with a tool
\* loop of its own.
Repaired(r) == [Requested(r) EXCEPT !.round = 0, !.repairing = TRUE]

\* What the five methods make of the arguments of a terminal tool.  Only
\* completePlan is on its guard against a null.
ActionChosen(r, b) ==
  Over(r, CASE b = "proper" -> "answer" [] b = "null" -> "typeError" [] OTHER -> "response")

PlanDecoded(r, b) ==
  IF b = "proper" THEN Over(r, "answer")
  ELSE IF r.repairing THEN Over(r, "response") ELSE Repaired(r)

\* Whatever is there of a batch, or of a reflection, is taken.
BatchDecoded(r, b) == Over(r, IF b = "null" THEN "typeError" ELSE "answer")
ReflectDecoded(r, b) == Over(r, IF b = "null" THEN "typeError" ELSE "answer")

Consolidated(r, b) ==
  IF b = "null" THEN Over(r, "typeError") ELSE [r EXCEPT !.stage = "embedding"]

Judged(r, b) ==
  CASE r.kind = "execute"       -> ActionChosen(r, b)
    [] r.kind = "plan"          -> PlanDecoded(r, b)
    [] r.kind = "batch"         -> BatchDecoded(r, b)
    [] r.kind = "reflect"       -> ReflectDecoded(r, b)
    [] r.kind = "consolidation" -> Consolidated(r, b)

\* Without the loop a cognitive tool is what a terminal one would be, one
\* without the fields that are looked for.
Understood(r, b) ==
  CASE b \in {"noCall", "garbled"} -> Over(r, "response")
    [] b \in Tools /\ Looping(r.kind) ->
         IF b = "recall" THEN [r EXCEPT !.stage = "recalling"] ELSE ToldTool(r)
    [] b = "garbledTool" /\ ~Looping(r.kind) -> Over(r, "response")
    [] OTHER -> Judged(r, b)
-----------------------------------------------------------------------------
(* The batch plan service.  asked are the entries of the last batchPlan,   *)
(* waiting those of batches to come, members those of the batch under way, *)
(* left those of them that have no result yet, valid those the answer      *)
(* holds a plan for, alone the agent planService.plan is awaited for, again *)
(* says that it has asked a second time; by says whence each result came.  *)
Sources == {"none", "batch", "alone", "failed"}
Batches == [asked : SUBSET Entries, waiting : SUBSET Entries, members : SUBSET Entries,
            left : SUBSET Entries, valid : SUBSET Entries, alone : Entries \cup {Nobody},
            again : BOOLEAN, by : [Entries -> Sources]]

NoBatch == [asked |-> {}, waiting |-> {}, members |-> {}, left |-> {}, valid |-> {},
            alone |-> Nobody, again |-> FALSE, by |-> [e \in Entries |-> "none"]]

\* Batches are cut from one room at a time, and full as long as they can be.
\* In what order is left open.
Chunks(S) ==
  {M \in SUBSET S \ {{}} :
     /\ \A e, f \in M : RoomOf[e] = RoomOf[f]
     /\ Cardinality(M) <= MaxBatchSize
     /\ \/ Cardinality(M) = MaxBatchSize
        \/ \A e \in M : {f \in S : RoomOf[f] = RoomOf[e]} \subseteq M}

\* The loop over the members, up to the first planService.plan makes a call
\* for: N are stored, K had a plan and keep it, then it is e's turn.
Advanced(b, N, K, e) ==
  [b EXCEPT !.left = @ \ (N \cup K), !.alone = e, !.again = FALSE,
            !.by = [f \in Entries |-> IF f \in N THEN "batch" ELSE IF f \in K THEN "alone" ELSE b.by[f]]]

\* A plausible mistake: whoever the answer has no plan for, whether he got
\* one since or not.
AloneAgain(b) == b.members \ b.valid

Alone(b) == b.left \ b.valid

-----------------------------------------------------------------------------
Init ==
  /\ call = [c \in Callers |-> Idle]
  /\ used = [a \in Agents |-> 0]
  /\ batch = NoBatch

In(c, s) == call[c].stage = s
Goes(c, r) == call' = [call EXCEPT ![c] = r]

\* On with the members, to the next call or to the end.
Turns(b) ==
  \/ \E K \in SUBSET Alone(b) : \E e \in Alone(b) \ K, N \in SUBSET (b.left \ Alone(b)) :
       batch' = Advanced(b, N, K, e) /\ Goes(Batch, Opened("plan"))
  \/ /\ batch' = [Advanced(b, b.left \ Alone(b), Alone(b), Nobody) EXCEPT !.members = {}]
     /\ Goes(Batch, Idle)

Busy == {c \in Callers : call[c] # Idle} \cup (IF batch.asked = {} THEN {} ELSE {Batch})
Vacant == Cardinality(Busy) < MaxBusy

\* completePlan, completeStructured, completeReflect, completeReflection
Begin(a, k) ==
  /\ call[a] = Idle /\ Vacant
  /\ Goes(a, Opened(k))
  /\ UNCHANGED <<used, batch>>

\* The caller takes what the call returns or throws.
Returns(a) ==
  /\ In(a, "over") /\ call[a] # Idle
  /\ Goes(a, Idle)
  /\ UNCHANGED <<used, batch>>

\* A plausible mistake: only the first attempt gets a timer.
TimesOutOnce(c) ==
  LET r == [call[c] EXCEPT !.heard = "timeout"]
  IN /\ In(c, "fetching") /\ call[c].attempt = 0
     /\ Goes(c, IF RetryOnTimeout THEN Failed(r, "timeout") ELSE Over(r, "timeout"))
     /\ UNCHANGED <<used, batch>>

\* sendRequest: the timer aborts the attempt, or fetch fails.
TimesOut(c) ==
  LET r == [call[c] EXCEPT !.heard = "timeout"]
  IN /\ In(c, "fetching")
     /\ Goes(c, IF RetryOnTimeout THEN Failed(r, "timeout") ELSE Over(r, "timeout"))
     /\ UNCHANGED <<used, batch>>

Unreachable(c) ==
  /\ In(c, "fetching")
  /\ Goes(c, Failed([call[c] EXCEPT !.heard = "network"], "network"))
  /\ UNCHANGED <<used, batch>>

Headers(c, s) ==
  /\ In(c, "fetching")
  /\ Goes(c, [call[c] EXCEPT !.stage = "reading", !.heard = s])
  /\ UNCHANGED <<used, batch>>

Backoff(c) ==
  /\ In(c, "sleeping")
  /\ Goes(c, Attempted(call[c]))
  /\ UNCHANGED <<used, batch>>

\* A plausible mistake: a limit met at the last attempt counts as an answer
\* of the network.
LimitedBodyLost(c) ==
  /\ In(c, "reading") /\ call[c].heard = "limited"
  /\ Goes(c, Failed(call[c], "network"))
  /\ UNCHANGED <<used, batch>>

\* sendRequest: the body of a 429, and of any other error.
LimitedBody(c) ==
  /\ In(c, "reading") /\ call[c].heard = "limited"
  /\ Goes(c, Failed(call[c], "rateLimit"))
  /\ UNCHANGED <<used, batch>>

RefusedBody(c) ==
  /\ In(c, "reading") /\ call[c].heard = "refused"
  /\ Goes(c, Over(call[c], "http"))
  /\ UNCHANGED <<used, batch>>

\* The envelope, and what the method or the tool loop makes of it.  A
\* proposal to change the scene is accepted, within the budget, or not.
OkBody(c, b) ==
  /\ In(c, "reading") /\ call[c].heard = "ok"
  /\ Goes(c, Understood([call[c] EXCEPT !.heard = b], b))
  /\ \/ UNCHANGED used
     \/ /\ b = "propose" /\ c \in Agents /\ Looping(call[c].kind)
        /\ used[c] < MaxMutations
        /\ used' = [used EXCEPT ![c] = @ + 1]
  /\ UNCHANGED batch

Recalled(c) ==
  /\ In(c, "recalling")
  /\ Goes(c, ToldTool(call[c]))
  /\ UNCHANGED <<used, batch>>

\* completeReflection: one embedding after the other; any of them may throw.
Embedded(c, v) ==
  /\ In(c, "embedding")
  /\ v \in {"answer", "embedder"}
  /\ Goes(c, Over(call[c], v))
  /\ UNCHANGED <<used, batch>>

\* batchPlan
BatchBegins(S) ==
  /\ batch.asked = {} /\ S # {} /\ Vacant
  /\ batch' = [NoBatch EXCEPT !.asked = S, !.waiting = S]
  /\ UNCHANGED <<call, used>>

\* batchPlan returns a result for each of its entries.
BatchReturns ==
  /\ batch.asked # {} /\ batch.waiting = {} /\ batch.members = {}
  /\ batch' = NoBatch
  /\ UNCHANGED <<call, used>>

\* processBatch
BatchAsks(M) ==
  /\ batch.members = {}
  /\ M \in Chunks(batch.waiting)
  /\ batch' = [batch EXCEPT !.waiting = @ \ M, !.members = M, !.left = M, !.valid = {}]
  /\ Goes(Batch, Opened("batch"))
  /\ UNCHANGED used

\* The batch call is over: V have a valid plan in its answer.
BatchAnswered(V) ==
  /\ In(Batch, "over") /\ batch.members # {} /\ batch.alone = Nobody
  /\ V \subseteq batch.members
  /\ V # {} => call[Batch].verdict = "answer" /\ call[Batch].heard = "proper"
  /\ Turns([batch EXCEPT !.valid = V])
  /\ UNCHANGED used

\* planService.plan of the agent planned for alone: a plan that does not bind
\* is asked for once more.
AloneAsksAgain ==
  /\ In(Batch, "over") /\ batch.alone # Nobody /\ ~batch.again
  /\ call[Batch].verdict = "answer"
  /\ batch' = [batch EXCEPT !.again = TRUE]
  /\ Goes(Batch, Opened("plan"))
  /\ UNCHANGED used

\* It has come back: an answer may be turned down, and the floor plan may
\* stand in for one that was none.
AloneAnswered ==
  LET e == batch.alone
  IN /\ In(Batch, "over") /\ e # Nobody
     /\ \E source \in {"alone", "failed"} :
          /\ source = "alone" => call[Batch].verdict \in {"answer", "response"}
          /\ Turns([batch EXCEPT !.left = @ \ {e}, !.by[e] = source])
     /\ UNCHANGED used

Next ==
  \/ \E a \in Agents, k \in Kinds \ {"batch"} : Begin(a, k)
  \/ \E a \in Agents : Returns(a)
  \/ \E c \in Callers :
       \/ TimesOut(c) \/ Unreachable(c) \/ Backoff(c)
       \/ \E s \in Replies : Headers(c, s)
       \/ LimitedBody(c) \/ RefusedBody(c)
       \/ \E b \in Bodies : OkBody(c, b)
       \/ Recalled(c)
       \/ \E v \in {"answer", "embedder"} : Embedded(c, v)
  \/ \E S \in SUBSET Entries : BatchBegins(S) \/ BatchAsks(S) \/ BatchAnswered(S)
  \/ AloneAsksAgain \/ AloneAnswered \/ BatchReturns

Spec == Init /\ [][Next]_vars

\* Timers fire, and what has begun to arrive arrives; a server need not
\* begin to answer.
Fairness ==
  /\ \A c \in Callers :
       /\ WF_vars(TimesOut(c)) /\ WF_vars(Backoff(c))
       /\ WF_vars(LimitedBody(c) \/ RefusedBody(c) \/ \E b \in Bodies : OkBody(c, b))
       /\ WF_vars(Recalled(c)) /\ WF_vars(\E v \in {"answer", "embedder"} : Embedded(c, v))
  /\ WF_vars(AloneAnswered) /\ WF_vars(BatchReturns)
  /\ WF_vars(\E M \in SUBSET Entries : BatchAsks(M) \/ BatchAnswered(M))

FairSpec == Spec /\ Fairness
-----------------------------------------------------------------------------
(* Properties.                                                             *)

\* Each variable holds values of its type: no attempt beyond the retries,
\* no round beyond the iterations, no budget exceeded.
TypeOK ==
  /\ call \in [Callers -> Calls]
  /\ used \in [Agents -> 0..MaxMutations]
  /\ batch \in Batches

\* A call costs so many requests at most: retries, tool rounds and the
\* repair of a plan are loops one in the other, each with a bound of its
\* own, and none may start the other anew.
Rounds(k) == (IF Looping(k) THEN MaxIterations ELSE 1) * (IF k = "plan" THEN 2 ELSE 1)

RequestsBounded ==
  \A c \in Callers : call[c].sent <= Rounds(call[c].kind) * (MaxRetries + 1)

\* A call ends in the error of its last attempt, and in an answer only if
\* that attempt brought one the method can use; an attempt that may be
\* repeated ends it only when the retries are used up.
EndsTruly ==
  \A c \in Callers :
    LET r == call[c]
        spent == r.attempt = MaxRetries
    IN CASE r.verdict = "timeout"    -> r.heard = "timeout" /\ (spent \/ ~RetryOnTimeout)
         [] r.verdict = "network"    -> r.heard = "network" /\ spent
         [] r.verdict = "rateLimit"  -> r.heard = "limited" /\ spent
         [] r.verdict = "http"       -> r.heard = "refused"
         [] r.verdict = "iterations" -> r.heard \in Tools /\ r.round = MaxIterations
         [] r.verdict = "response"   -> r.heard \in Bodies \ {"proper"}
         [] r.verdict = "typeError"  -> r.heard = "null" /\ r.kind # "plan"
         [] r.verdict = "answer"     -> r.heard \in Bodies \ {"null"}
                                        /\ r.kind \in {"plan", "execute"} => r.heard = "proper"
         [] OTHER -> TRUE

\* Every entry of a batch gets exactly one result: those without one are
\* those that are still to come, and nobody who has one is planned for
\* again, alone or in another batch.
PlannedOnce ==
  /\ {e \in batch.asked : batch.by[e] = "none"} = batch.waiting \cup batch.left
  /\ batch.waiting \cap batch.members = {} /\ batch.left \subseteq batch.members
  /\ batch.alone # Nobody => batch.alone \in batch.left \ batch.valid

\* Every call ends, in an answer or an error, and so does every batch.
EveryCallEnds ==
  /\ \A c \in Callers : ~In(c, "over") ~> In(c, "over")
  /\ batch.asked # {} ~> batch.asked = {}
=============================================================================
