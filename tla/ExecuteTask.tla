------------------------------ MODULE ExecuteTask ------------------------------
(***************************************************************************)
(* POST /v1/jecp: the hub's own capabilities, run in the handler and billed *)
(* as a free call, from the wallet or against the mandate the agent sent.  *)
(* The means of payment is chosen before the capability runs and the money *)
(* is taken afterwards, so calls of one agent interleave in between.  With *)
(* delivery mode "stream" the rest of the handler is the body of an SSE    *)
(* answer.  One agent; the degraded mode without a database changes no     *)
(* state and is left out.                                                  *)
(*                                                                         *)
(* jecp.deduct_balance is not in the repository: as the handler uses it,   *)
(* it takes the amount if the balance covers it, in one transaction.       *)
(***************************************************************************)
EXTENDS Integers, FiniteSets

CONSTANTS
    Calls,          \* HTTP requests of the run
    Ids, Inputs,    \* request ids; payloads (capability, action, input)
    Jobs,           \* the requests the client may send
    FreeCalls,      \* agent_profiles.free_calls_remaining at the start
    Funds,          \* the wallet's balance at the start
    NoRow,
    Faults,
    MaxInFlight     \* bound: calls in progress at once

Job == [id : Ids, input : Inputs, stream : BOOLEAN, cost : Nat, budget : BOOLEAN]
AllFaults == {"db", "drop", "crash"}
Billings  == {"none", "free", "wallet", "charged"}
Row       == [input : Inputs, bill : Billings \ {"none"}]

ASSUME ExecuteAssumption ==
    /\ Jobs \subseteq Job
    /\ FreeCalls \in Nat /\ Funds \in Nat /\ MaxInFlight \in Nat
    /\ Faults \subseteq AllFaults
    /\ IsFiniteSet(Calls)
    /\ NoRow \notin Row

VARIABLES
    job,        \* job[c]: the request call c carries
    pc,         \* pc[c]: the await at which the handler of c stands
    hadFree,    \* hadFree[c]: free calls were left when c was authenticated
    method,     \* method[c]: billing_method
    answer,     \* answer[c]: the billing of the answer, once it is decided
    cache,      \* cache[i]: idempotency row of request id i, or NoRow
    free,       \* agent_profiles.free_calls_remaining
    total,      \* agent_profiles.total_calls since the start
    balance,    \* wallets.balance_usdc
    tasks,      \* jecp_tasks: state by task id
    ran,        \* calls whose capability ran to success
    deducted    \* calls deduct_balance took the price of

callVars == <<job, hadFree, method>>
agentVars == <<free, total, balance, deducted>>
vars == <<callVars, pc, answer, cache, agentVars, tasks, ran>>

Working  == {"auth", "lookup", "gate", "pay", "consume", "balance", "open", "run",
             "deduct", "count", "close_done", "close_failed", "store"}
Finished == {"answered", "replayed", "refused", "failed", "dropped"}

\* The handler draws a task id before record_task and another one before it
\* runs the capability.
RecordedId(c)  == <<c, 1>>
CompletedId(c) == <<c, 2>>
TaskIds        == Calls \X {1, 2}

TypeOK ==
    /\ job \in [Calls -> Jobs]
    /\ pc \in [Calls -> Working \union Finished \union {"unsent"}]
    /\ hadFree \in [Calls -> BOOLEAN]
    /\ method \in [Calls -> {"none", "free_call", "wallet", "mandate"}]
    /\ answer \in [Calls -> Billings]
    /\ cache \in [Ids -> Row \union {NoRow}]
    /\ free \in Nat /\ total \in Nat /\ balance \in Nat
    /\ tasks \in [TaskIds -> {"absent", "working", "completed", "failed"}]
    /\ ran \subseteq Calls
    /\ deducted \subseteq Calls

Init ==
    /\ job \in [Calls -> Jobs]
    /\ pc = [c \in Calls |-> "unsent"]
    /\ hadFree = [c \in Calls |-> FALSE]
    /\ method = [c \in Calls |-> "none"]
    /\ answer = [c \in Calls |-> "none"]
    /\ cache = [i \in Ids |-> NoRow]
    /\ free = FreeCalls /\ total = 0 /\ balance = Funds
    /\ tasks = [t \in TaskIds |-> "absent"]
    /\ ran = {} /\ deducted = {}

InFlight == {c \in Calls : pc[c] \in Working}
Goto(c, there) == pc' = [pc EXCEPT ![c] = there]
Cost(c) == job[c].cost

(***************************************************************************)
(* Admission                                                               *)
(***************************************************************************)
Receive(c) ==
    /\ pc[c] = "unsent" /\ Cardinality(InFlight) < MaxInFlight
    /\ Goto(c, "auth") \/ Goto(c, "refused")
    /\ UNCHANGED <<callVars, answer, cache, agentVars, tasks, ran>>

\* authenticate_agent reads the agent's row, free_calls_remaining included.
Authenticate(c) ==
    /\ pc[c] = "auth"
    /\ \/ Goto(c, "lookup") /\ hadFree' = [hadFree EXCEPT ![c] = free > 0]
       \/ Goto(c, "refused") /\ hadFree' = hadFree
    /\ UNCHANGED <<job, method, answer, cache, agentVars, tasks, ran>>

\* A failed lookup counts as a miss.
Lookup(c) ==
    LET row == cache[job[c].id]
    IN  /\ pc[c] = "lookup"
        /\ \/ /\ row = NoRow \/ "db" \in Faults
              /\ Goto(c, "gate")
              /\ answer' = answer
           \/ /\ row # NoRow /\ row.input = job[c].input
              /\ Goto(c, "replayed")
              /\ answer' = [answer EXCEPT ![c] = row.bill]
           \/ /\ row # NoRow /\ row.input # job[c].input
              /\ Goto(c, "refused")
              /\ answer' = answer
        /\ UNCHANGED <<callVars, cache, agentVars, tasks, ran>>

\* Provenance, trust tier, rate limit and mandate, any of which may refuse.
Gate(c) ==
    /\ pc[c] = "gate"
    /\ Goto(c, "pay") \/ Goto(c, "refused")
    /\ UNCHANGED <<callVars, answer, cache, agentVars, tasks, ran>>

(***************************************************************************)
(* The means of payment, from the row read at authentication               *)
(***************************************************************************)
ChooseFree(c) ==
    /\ pc[c] = "pay"
    /\ Cost(c) = 0 \/ hadFree[c]
    /\ method' = [method EXCEPT ![c] = "free_call"]
    /\ Goto(c, IF hadFree[c] THEN "consume" ELSE "open")
    /\ UNCHANGED <<job, hadFree, answer, cache, agentVars, tasks, ran>>

\* Bug: the counter stays.
ConsumeNothing(c) ==
    /\ pc[c] = "consume"
    /\ Goto(c, "open")
    /\ UNCHANGED <<callVars, answer, cache, agentVars, tasks, ran>>

\* UPDATE ... WHERE free_calls_remaining > 0; what it returns is not looked at.
Consume(c) ==
    /\ pc[c] = "consume"
    /\ \/ /\ free > 0
          /\ free' = free - 1 /\ total' = total + 1
       \/ /\ free = 0 \/ "db" \in Faults
          /\ UNCHANGED <<free, total>>
    /\ Goto(c, "open")
    /\ UNCHANGED <<callVars, answer, cache, balance, deducted, tasks, ran>>

\* A failed read of the balance counts as an empty wallet.
ChoosePaid(c) ==
    /\ pc[c] = "pay"
    /\ Cost(c) > 0 /\ ~hadFree[c]
    /\ \/ /\ balance >= Cost(c)
          /\ method' = [method EXCEPT ![c] = "wallet"]
          /\ Goto(c, "open")
       \/ /\ balance < Cost(c) \/ "db" \in Faults
          /\ job[c].budget
          /\ method' = [method EXCEPT ![c] = "mandate"]
          /\ Goto(c, "open")
       \/ /\ balance < Cost(c) \/ "db" \in Faults
          /\ ~job[c].budget
          /\ method' = method
          /\ Goto(c, "refused")
    /\ UNCHANGED <<job, hadFree, answer, cache, agentVars, tasks, ran>>

OpenTask(c) ==
    /\ pc[c] = "open"
    /\ \/ tasks' = [tasks EXCEPT ![RecordedId(c)] = "working"]
       \/ "db" \in Faults /\ tasks' = tasks
    /\ Goto(c, "run")
    /\ UNCHANGED <<callVars, answer, cache, agentVars, ran>>

(***************************************************************************)
(* Running the capability and billing it                                   *)
(***************************************************************************)
AfterRun(c) ==
    CASE method[c] = "wallet"    -> "deduct"
      [] method[c] = "mandate"   -> "count"
      [] method[c] = "free_call" -> "close_done"

\* Bug: a run that fails is billed like one that succeeds.
RunBilledAnyway(c) ==
    /\ pc[c] = "run" /\ ~job[c].stream
    /\ Goto(c, AfterRun(c))
    /\ ran' = ran \union {c} \/ ran' = ran
    /\ UNCHANGED <<callVars, answer, cache, agentVars, tasks>>

Run(c) ==
    /\ pc[c] = "run" /\ ~job[c].stream
    /\ \/ Goto(c, AfterRun(c)) /\ ran' = ran \union {c}
       \/ Goto(c, "close_failed") /\ ran' = ran
    /\ UNCHANGED <<callVars, answer, cache, agentVars, tasks>>

\* SSE: the billing is told from the method alone; nothing is deducted.
RunStream(c) ==
    /\ pc[c] = "run" /\ job[c].stream
    /\ \/ /\ ran' = ran \union {c}
          /\ answer' = [answer EXCEPT ![c] = IF method[c] = "free_call" THEN "free" ELSE "charged"]
          /\ Goto(c, "close_done")
       \/ /\ Goto(c, "close_failed")
          /\ UNCHANGED <<ran, answer>>
    /\ UNCHANGED <<callVars, cache, agentVars, tasks>>

Take(c) == balance' = balance - Cost(c) /\ deducted' = deducted \union {c}

\* Bug: a deduction that finds too little is answered as if it had succeeded.
DeductUnchecked(c) ==
    /\ pc[c] = "deduct"
    /\ IF balance >= Cost(c) THEN Take(c) ELSE UNCHANGED <<balance, deducted>>
    /\ Goto(c, "count")
    /\ UNCHANGED <<callVars, answer, cache, free, total, tasks, ran>>

\* deduct_wallet: taken; too little left, which ends the call; or an error,
\* with or without the money taken, after which the call is free.
Deduct(c) ==
    /\ pc[c] = "deduct"
    /\ \/ /\ balance >= Cost(c)
          /\ Take(c)
          /\ Goto(c, "count")
          /\ answer' = answer
       \/ /\ balance < Cost(c)
          /\ UNCHANGED <<balance, deducted, answer>>
          /\ Goto(c, "failed")
       \/ /\ "db" \in Faults
          /\ (balance >= Cost(c) /\ Take(c)) \/ UNCHANGED <<balance, deducted>>
          /\ answer' = [answer EXCEPT ![c] = "free"]
          /\ Goto(c, "close_done")
    /\ UNCHANGED <<callVars, cache, free, total, tasks, ran>>

\* increment_agent_calls, then the billing of the answer.
Count(c) ==
    /\ pc[c] = "count"
    /\ total' = total + 1 \/ ("db" \in Faults /\ total' = total)
    /\ answer' = [answer EXCEPT ![c] = IF method[c] = "wallet" THEN "wallet" ELSE "charged"]
    /\ Goto(c, "close_done")
    /\ UNCHANGED <<callVars, cache, free, balance, deducted, tasks, ran>>

\* UPDATE jecp_tasks ... WHERE id: the rows with that id, which may be none.
Close(c, state) ==
    \/ tasks' = [t \in TaskIds |-> IF t = CompletedId(c) /\ tasks[t] # "absent"
                                   THEN state ELSE tasks[t]]
    \/ "db" \in Faults /\ tasks' = tasks

CloseDone(c) ==
    /\ pc[c] = "close_done"
    /\ Close(c, "completed")
    /\ answer' = IF answer[c] = "none" THEN [answer EXCEPT ![c] = "free"] ELSE answer
    /\ Goto(c, IF job[c].stream THEN "answered" ELSE "store")
    /\ UNCHANGED <<callVars, cache, agentVars, ran>>

CloseFailed(c) ==
    /\ pc[c] = "close_failed"
    /\ Close(c, "failed")
    /\ Goto(c, "failed")
    /\ UNCHANGED <<callVars, answer, cache, agentVars, ran>>

\* The stored function: the first row for an id may stand or be overwritten.
CacheStore(i, row) ==
    \/ cache' = [cache EXCEPT ![i] = row]
    \/ cache[i] # NoRow /\ cache' = cache

\* Bug: the answer is not kept.
StoreNothing(c) ==
    /\ pc[c] = "store"
    /\ Goto(c, "answered")
    /\ UNCHANGED <<callVars, answer, cache, agentVars, tasks, ran>>

Store(c) ==
    /\ pc[c] = "store"
    /\ \/ CacheStore(job[c].id, [input |-> job[c].input, bill |-> answer[c]])
       \/ "db" \in Faults /\ cache' = cache
    /\ Goto(c, "answered")
    /\ UNCHANGED <<callVars, answer, agentVars, tasks, ran>>

(***************************************************************************)
(* Clients and machines that go away                                       *)
(***************************************************************************)
\* The client disconnects: the handler stops at its await.
Drop(c) ==
    /\ "drop" \in Faults
    /\ pc[c] \in Working
    /\ Goto(c, "dropped")
    /\ UNCHANGED <<callVars, answer, cache, agentVars, tasks, ran>>

Crash ==
    /\ "crash" \in Faults
    /\ InFlight # {}
    /\ pc' = [c \in Calls |-> IF c \in InFlight THEN "dropped" ELSE pc[c]]
    /\ UNCHANGED <<callVars, answer, cache, agentVars, tasks, ran>>

Handle(c) ==
    \/ Authenticate(c) \/ Lookup(c) \/ Gate(c) \/ ChooseFree(c) \/ Consume(c)
    \/ ChoosePaid(c) \/ OpenTask(c) \/ Run(c) \/ RunStream(c) \/ Deduct(c) \/ Count(c)
    \/ CloseDone(c) \/ CloseFailed(c) \/ Store(c)

Quiescent == (\A c \in Calls : pc[c] \in Finished) /\ UNCHANGED vars

Next ==
    \/ \E c \in Calls : Receive(c) \/ Handle(c) \/ Drop(c)
    \/ Crash
    \/ Quiescent

Spec == Init /\ [][Next]_vars

(***************************************************************************)
(* Properties                                                              *)
(***************************************************************************)
Charged == {"wallet", "charged"}

\* The wallet is debited only for calls whose capability ran to success,
\* whatever is lost between the run, the deduction and the answer.
DeductedOnlyIfRan == deducted \subseteq {c \in ran : method[c] = "wallet" /\ ~job[c].stream}

\* A call answered "wallet" was debited, and a replay that says so repeats a
\* call that was, also when concurrent calls chose the wallet on one balance.
WalletAnswerTrue ==
    /\ \A c \in Calls : answer[c] = "wallet" => \E d \in deducted : job[d].id = job[c].id
    /\ \A c \in Calls : answer[c] = "wallet" /\ pc[c] # "replayed" => c \in deducted

\* What the idempotency cache replays was said about the same payload, by a
\* call that ran.
CachedAnswerTrue ==
    \A i \in Ids : cache[i] # NoRow =>
        \E c \in ran : /\ job[c].id = i /\ job[c].input = cache[i].input
                       /\ answer[c] = cache[i].bill

\* The promise of Accounts: whatever overlaps, fails or is dropped between the choice
\* of the means of payment, the run, the deduction and the answer, each call is
\* performed once, debited its price once, after that, billed once, and truly
\* (routes/jecp.rs:77-404).
Promise == INSTANCE Accounts WITH
    performed <- ran, debited <- deducted, bill <- answer, kept <- cache
KeepsAccounts == Promise!Spec

SameRequest(c, d) == job[c].id = job[d].id /\ job[c].input = job[d].input

\* With one call at a time and no faults a request id is one run on the JSON
\* path: its repetition is answered from the cache.
RanOnce ==
    \A c, d \in ran : c # d /\ SameRequest(c, d) => job[c].stream \/ job[d].stream

\* A priced call is free only while free calls last.
FreeCallsLast ==
    Cardinality({c \in ran : method[c] = "free_call" /\ Cost(c) > 0}) <= FreeCalls

\* The comment on the choice of the wallet, "actual deduction": a call by
\* wallet that is told it was charged has been debited.
WalletCallPays ==
    \A c \in Calls : method[c] = "wallet" /\ answer[c] \in Charged => c \in deducted
===============================================================================
