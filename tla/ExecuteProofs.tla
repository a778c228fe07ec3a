----------------------------- MODULE ExecuteProofs -----------------------------
(***************************************************************************)
(* Theorems about ExecuteTask, for every number of calls and every balance *)
(* and under every fault, and about the instance of MCExecuteTask in which *)
(* one call runs at a time.                                                *)
(***************************************************************************)
EXTENDS MCExecuteTask, FiniteSetTheorems, TLAPS

\* How far a call by wallet has come: it is deducted from only after its run
\* succeeded, and only on the JSON path.
StageInv ==
    /\ \A c \in Calls : pc[c] \in {"deduct", "count", "close_done", "store", "answered"} => c \in ran
    /\ \A c \in Calls : pc[c] = "deduct" => method[c] = "wallet" /\ ~job[c].stream
    /\ \A c \in Calls : pc[c] = "count" /\ method[c] = "wallet" => c \in deducted
    /\ \A c \in Calls : pc[c] = "pay" => c \notin deducted
    /\ \A c \in Calls : pc[c] \in {"count", "consume", "open", "run", "deduct"} => method[c] # "none"
    /\ \A c \in Calls : pc[c] = "store" => answer[c] # "none" /\ ~job[c].stream
    /\ \A c \in Calls : pc[c] \in {"unsent", "auth", "lookup", "gate", "pay"} => c \notin ran
    /\ \A c \in Calls : pc[c] \in {"unsent", "auth", "lookup", "gate"} => c \notin deducted

LEMMA JobFields ==
    ASSUME TypeOK, NEW c \in Calls
    PROVE  /\ job[c].id \in Ids /\ job[c].input \in Inputs /\ job[c].stream \in BOOLEAN
           /\ Cost(c) \in Nat
  BY ExecuteAssumption DEF TypeOK, Job, Cost

\* Every step keeps every variable in its type.
LEMMA TypeStep ==
    ASSUME TypeOK, StageInv, [Next]_vars
    PROVE  TypeOK'
<1> USE DEF TypeOK, Goto, Working, Finished, callVars, agentVars
<1>1. ASSUME NEW c \in Calls,
             Receive(c) \/ Authenticate(c) \/ Gate(c) \/ ChooseFree(c) \/ ChoosePaid(c) \/ Drop(c)
      PROVE  TypeOK'
  <2>1. CASE Receive(c) \/ Gate(c)
    BY <2>1 DEF Receive, Gate
  <2>5. CASE Drop(c)
    BY <2>5 DEF Drop
  <2>2. CASE Authenticate(c)
    <3>1. (free > 0) \in BOOLEAN
      OBVIOUS
    <3>2. hadFree' \in [Calls -> BOOLEAN]
      <4>1. CASE hadFree' = hadFree
        BY <4>1
      <4>2. CASE hadFree' = [hadFree EXCEPT ![c] = free > 0]
        BY <3>1, <4>2, Zenon
      <4> QED BY <2>2, <4>1, <4>2 DEF Authenticate
    <3> QED BY <2>2, <3>2 DEF Authenticate
  <2>3. CASE ChooseFree(c)
    BY <2>3 DEF ChooseFree
  <2>4. CASE ChoosePaid(c)
    BY <2>4 DEF ChoosePaid
  <2> QED BY <1>1, <2>1, <2>2, <2>3, <2>4, <2>5
<1>2. ASSUME NEW c \in Calls, Lookup(c) PROVE TypeOK'
  <2>1. cache[job[c].id] # NoRow => cache[job[c].id] \in Row
    BY JobFields
  <2>2. answer' \in [Calls -> Billings]
    BY <1>2, <2>1 DEF Lookup, Row
  <2> QED BY <1>2, <2>2 DEF Lookup
<1>3. ASSUME NEW c \in Calls, Consume(c) PROVE TypeOK'
  BY <1>3 DEF Consume
<1>4. ASSUME NEW c \in Calls, OpenTask(c) PROVE TypeOK'
  BY <1>4 DEF OpenTask, TaskIds, RecordedId
<1>5. ASSUME NEW c \in Calls, Run(c) PROVE TypeOK'
  <2>1. AfterRun(c) \in {"deduct", "count", "close_done"}
    BY <1>5 DEF Run, AfterRun, StageInv
  <2> QED BY <1>5, <2>1 DEF Run
<1>6. ASSUME NEW c \in Calls, RunStream(c) PROVE TypeOK'
  BY <1>6 DEF RunStream, Billings
<1>7. ASSUME NEW c \in Calls, Deduct(c) PROVE TypeOK'
  <2>1. balance' \in Nat /\ deducted' \subseteq Calls
    BY <1>7, JobFields DEF Deduct, Take
  <2> QED BY <1>7, <2>1 DEF Deduct, Billings
<1>8. ASSUME NEW c \in Calls, Count(c) PROVE TypeOK'
  BY <1>8 DEF Count, Billings
<1>9. ASSUME NEW c \in Calls, CloseDone(c) \/ CloseFailed(c) PROVE TypeOK'
  <2>1. tasks' \in [TaskIds -> {"absent", "working", "completed", "failed"}]
    BY <1>9 DEF CloseDone, CloseFailed, Close
  <2> QED BY <1>9, <2>1 DEF CloseDone, CloseFailed, Billings
<1>10. ASSUME NEW c \in Calls, Store(c) PROVE TypeOK'
  <2>1. [input |-> job[c].input, bill |-> answer[c]] \in Row
    BY <1>10, JobFields DEF Store, Row, StageInv
  <2>2. cache' \in [Ids -> Row \union {NoRow}]
    BY <1>10, <2>1 DEF Store, CacheStore
  <2> QED BY <1>10, <2>2 DEF Store
<1>11. CASE Crash
  BY <1>11 DEF Crash, InFlight
<1>12. CASE UNCHANGED vars
  BY <1>12 DEF vars
<1> QED
  BY <1>1, <1>2, <1>3, <1>4, <1>5, <1>6, <1>7, <1>8, <1>9, <1>10, <1>11, <1>12
  DEF Next, Handle, Quiescent

LEMMA StageStep ==
    ASSUME TypeOK, StageInv, [Next]_vars
    PROVE  StageInv'
<1> USE DEF TypeOK, StageInv, Goto, callVars, agentVars
<1>1. ASSUME NEW c \in Calls,
             Receive(c) \/ Authenticate(c) \/ Lookup(c) \/ Gate(c) \/ Drop(c)
      PROVE  StageInv'
  BY <1>1 DEF Receive, Authenticate, Lookup, Gate, Drop, Working
<1>2. ASSUME NEW c \in Calls, ChooseFree(c) \/ ChoosePaid(c) \/ Consume(c) \/ OpenTask(c)
      PROVE  StageInv'
  BY <1>2 DEF ChooseFree, ChoosePaid, Consume, OpenTask
<1>3. ASSUME NEW c \in Calls, Run(c) PROVE StageInv'
  <2>1. /\ AfterRun(c) \in {"deduct", "count", "close_done"}
        /\ AfterRun(c) = "deduct" => method[c] = "wallet"
        /\ AfterRun(c) = "count" => method[c] = "mandate"
    BY <1>3 DEF Run, AfterRun
  <2> QED BY <1>3, <2>1 DEF Run
<1>4. ASSUME NEW c \in Calls, RunStream(c) PROVE StageInv'
  BY <1>4 DEF RunStream
<1>5. ASSUME NEW c \in Calls, Deduct(c) PROVE StageInv'
  BY <1>5 DEF Deduct, Take
<1>6. ASSUME NEW c \in Calls, Count(c) \/ CloseFailed(c) \/ Store(c) PROVE StageInv'
  BY <1>6 DEF Count, CloseFailed, Store
<1>7. ASSUME NEW c \in Calls, CloseDone(c) PROVE StageInv'
  BY <1>7, JobFields DEF CloseDone
<1>8. CASE Crash
  BY <1>8 DEF Crash
<1>9. CASE UNCHANGED vars
  BY <1>9 DEF vars
<1> QED
  BY <1>1, <1>2, <1>3, <1>4, <1>5, <1>6, <1>7, <1>8, <1>9 DEF Next, Handle, Quiescent

\* Only a deduction debits, and the means of payment of a call that has been
\* debited does not change.
LEMMA DeductedStep ==
    ASSUME TypeOK, StageInv, DeductedOnlyIfRan, [Next]_vars
    PROVE  DeductedOnlyIfRan'
<1> USE DEF TypeOK, StageInv, DeductedOnlyIfRan, Goto, callVars, agentVars
<1>1. ASSUME NEW c \in Calls, Deduct(c) PROVE DeductedOnlyIfRan'
  BY <1>1 DEF Deduct, Take
<1>2. ASSUME NEW c \in Calls, ChooseFree(c) \/ ChoosePaid(c) PROVE DeductedOnlyIfRan'
  BY <1>2 DEF ChooseFree, ChoosePaid
<1>3. CASE UNCHANGED <<job, method, deducted>> /\ ran \subseteq ran'
  BY <1>3
<1> QED
  BY <1>1, <1>2, <1>3
  DEF Next, Handle, Quiescent, Receive, Authenticate, Lookup, Gate, Consume, OpenTask, Run,
      RunStream, Count, CloseDone, CloseFailed, Store, Drop, Crash, vars

\* The call that stored a row is over, so what it answered is settled.
StoredInv ==
    \A i \in Ids : cache[i] # NoRow =>
        \E c \in ran : /\ pc[c] = "answered" /\ job[c].id = i
                       /\ job[c].input = cache[i].input /\ answer[c] = cache[i].bill

LEMMA StoredStep ==
    ASSUME TypeOK, StageInv, StoredInv, [Next]_vars
    PROVE  StoredInv'
<1> USE DEF TypeOK
<1>1. \A c \in Calls : pc[c] = "answered" =>
          pc'[c] = "answered" /\ answer'[c] = answer[c] /\ job'[c] = job[c]
  <2>1. ASSUME NEW d \in Calls, Receive(d) \/ Handle(d) \/ Drop(d),
               NEW c \in Calls, pc[c] = "answered"
        PROVE  pc'[c] = "answered" /\ answer'[c] = answer[c] /\ job'[c] = job[c]
    <3>1. pc[d] # "answered" /\ job' = job /\ (answer' = answer \/ \E b : answer' = [answer EXCEPT ![d] = b])
      BY <2>1 DEF Handle, Receive, Authenticate, Lookup, Gate, ChooseFree, ChoosePaid, Consume,
                  OpenTask, Run, RunStream, Deduct, Count, CloseDone, CloseFailed, Store, Drop,
                  Working, callVars
    <3>2. \E there : pc' = [pc EXCEPT ![d] = there]
      BY <2>1 DEF Handle, Receive, Authenticate, Lookup, Gate, ChooseFree, ChoosePaid, Consume,
                  OpenTask, Run, RunStream, Deduct, Count, CloseDone, CloseFailed, Store, Drop,
                  Goto
    <3> QED BY <2>1, <3>1, <3>2
  <2>2. CASE Crash \/ UNCHANGED vars
    BY <2>2 DEF Crash, InFlight, Working, callVars, vars
  <2> QED BY <2>1, <2>2 DEF Next, Quiescent
<1>2. ran \subseteq ran'
  BY DEF Next, Handle, Quiescent, Receive, Authenticate, Lookup, Gate, ChooseFree, ChoosePaid,
         Consume, OpenTask, Run, RunStream, Deduct, Count, CloseDone, CloseFailed, Store, Drop,
         Crash, vars
<1>3. ASSUME NEW i \in Ids, cache'[i] = cache[i], cache[i] # NoRow
      PROVE  \E c \in ran' : /\ pc'[c] = "answered" /\ job'[c].id = i
                             /\ job'[c].input = cache'[i].input /\ answer'[c] = cache'[i].bill
  <2>1. PICK c \in ran : /\ pc[c] = "answered" /\ job[c].id = i
                         /\ job[c].input = cache[i].input /\ answer[c] = cache[i].bill
    BY <1>3 DEF StoredInv
  <2> QED BY <1>1, <1>2, <1>3, <2>1
<1>4. CASE cache' = cache
  BY <1>3, <1>4 DEF StoredInv
<1>5. ASSUME NEW c \in Calls, Store(c), cache' # cache PROVE StoredInv'
  <2>1. cache' = [cache EXCEPT ![job[c].id] = [input |-> job[c].input, bill |-> answer[c]]]
    BY <1>5 DEF Store, CacheStore
  <2>2. c \in ran' /\ pc'[c] = "answered" /\ answer'[c] = answer[c] /\ job'[c] = job[c]
    BY <1>5 DEF Store, StageInv, Goto, callVars
  <2> SUFFICES ASSUME NEW i \in Ids, cache'[i] # NoRow
               PROVE  \E d \in ran' : /\ pc'[d] = "answered" /\ job'[d].id = i
                                      /\ job'[d].input = cache'[i].input
                                      /\ answer'[d] = cache'[i].bill
    BY DEF StoredInv
  <2>3. CASE i = job[c].id
    BY <2>1, <2>2, <2>3
  <2>4. CASE i # job[c].id
    BY <1>3, <2>1, <2>4
  <2> QED BY <2>3, <2>4
<1> QED
  BY <1>4, <1>5
  DEF Next, Handle, Quiescent, Receive, Authenticate, Lookup, Gate, ChooseFree, ChoosePaid,
      Consume, OpenTask, Run, RunStream, Deduct, Count, CloseDone, CloseFailed, Drop, Crash, vars

\* Only Count answers "wallet" of itself, after the deduction; a replay repeats
\* a row whose storer did.
LEMMA WalletAnswerStep ==
    ASSUME TypeOK, StageInv, StoredInv, WalletAnswerTrue, [Next]_vars
    PROVE  WalletAnswerTrue'
<1> USE DEF TypeOK, StageInv, WalletAnswerTrue, Goto, callVars, agentVars
<1>1. job' = job /\ deducted \subseteq deducted'
  BY DEF Next, Handle, Quiescent, Receive, Authenticate, Lookup, Gate, ChooseFree, ChoosePaid,
         Consume, OpenTask, Run, RunStream, Deduct, Take, Count, CloseDone, CloseFailed, Store,
         Drop, Crash, vars
<1>2. ASSUME NEW c \in Calls, Lookup(c) PROVE WalletAnswerTrue'
  <2>1. CASE answer' = answer
    BY <1>1, <1>2, <2>1 DEF Lookup
  <2>2. CASE /\ cache[job[c].id] # NoRow /\ Goto(c, "replayed")
             /\ answer' = [answer EXCEPT ![c] = cache[job[c].id].bill]
    <3>1. cache[job[c].id].bill = "wallet" => \E d \in deducted : job[d].id = job[c].id
      BY <2>2, JobFields DEF StoredInv
    <3> QED BY <1>1, <2>2, <3>1
  <2> QED BY <1>2, <2>1, <2>2 DEF Lookup
<1>3. ASSUME NEW c \in Calls, Count(c) PROVE WalletAnswerTrue'
  <2>1. answer'[c] = "wallet" => c \in deducted'
    BY <1>1, <1>3 DEF Count
  <2>2. \A d \in Calls : d # c => answer'[d] = answer[d] /\ pc'[d] = pc[d]
    BY <1>3 DEF Count
  <2> QED BY <1>1, <2>1, <2>2
<1>4. ASSUME NEW c \in Calls,
             Deduct(c) \/ RunStream(c) \/ CloseDone(c)
      PROVE  WalletAnswerTrue'
  BY <1>1, <1>4 DEF Deduct, RunStream, CloseDone
<1>5. CASE answer' = answer /\ \A c \in Calls : pc[c] = "replayed" => pc'[c] = "replayed"
  BY <1>1, <1>5
<1>6. ASSUME NEW c \in Calls,
             Receive(c) \/ Authenticate(c) \/ Gate(c) \/ ChooseFree(c) \/ ChoosePaid(c)
             \/ Consume(c) \/ OpenTask(c) \/ Run(c) \/ CloseFailed(c) \/ Store(c) \/ Drop(c)
      PROVE  WalletAnswerTrue'
  <2>1. /\ answer' = answer /\ pc[c] # "replayed"
        /\ \A d \in Calls : d # c => pc'[d] = pc[d]
    BY <1>6 DEF Receive, Authenticate, Gate, ChooseFree, ChoosePaid, Consume, OpenTask, Run,
                CloseFailed, Store, Drop, Working
  <2> QED BY <1>5, <2>1
<1>7. CASE Crash \/ UNCHANGED vars
  BY <1>5, <1>7 DEF Crash, InFlight, Working, vars
<1> QED
  BY <1>2, <1>3, <1>4, <1>6, <1>7 DEF Next, Handle, Quiescent

TaskInv == TypeOK /\ StageInv /\ DeductedOnlyIfRan /\ StoredInv /\ WalletAnswerTrue

\* TaskInv holds in every reachable state.
THEOREM Invariance == Spec => []TaskInv
<1>1. Init => TaskInv
  BY ExecuteAssumption
  DEF Init, TaskInv, TypeOK, StageInv, StoredInv, DeductedOnlyIfRan, WalletAnswerTrue, Billings
<1>2. TaskInv /\ [Next]_vars => TaskInv'
  BY TypeStep, StageStep, DeductedStep, StoredStep, WalletAnswerStep DEF TaskInv
<1> QED BY <1>1, <1>2, PTL DEF Spec

\* Every variable of POST /v1/jecp keeps its type: no balance and no counter of
\* free calls becomes negative.
THEOREM TypeCorrect == Spec => []TypeOK
  BY Invariance, PTL DEF TaskInv

\* The wallet is debited only for calls that ran to success on the JSON path,
\* for any number of calls in progress and under every fault.
THEOREM DeductionSafety == Spec => []DeductedOnlyIfRan
  BY Invariance, PTL DEF TaskInv

\* What the idempotency cache holds was answered by a call that ran on the same
\* payload.
THEOREM CacheSafety == Spec => []CachedAnswerTrue
<1>1. TaskInv => CachedAnswerTrue
  BY DEF TaskInv, StoredInv, CachedAnswerTrue
<1> QED BY <1>1, Invariance, PTL

\* A call answered "wallet" was debited, and a replay that says so repeats a call
\* that was, for any number of calls on one balance and under every fault.
THEOREM WalletAnswers == Spec => []WalletAnswerTrue
  BY Invariance, PTL DEF TaskInv

(***************************************************************************)
(* The calls keep the promise of Accounts                                  *)
(***************************************************************************)
Unbilled == {"unsent", "auth", "lookup", "gate", "pay", "consume", "open", "run", "deduct", "count"}

\* A call that is to run has not run, one that is to pay has not paid, and one that is
\* to be billed has not been told anything.
BillInv ==
    /\ \A c \in Calls : pc[c] \in Unbilled => answer[c] = "none"
    /\ \A c \in Calls : pc[c] \in {"consume", "open", "run"} => c \notin ran
    /\ \A c \in Calls : pc[c] \in {"consume", "open", "run", "deduct"} => c \notin deducted
    /\ \A c \in Calls : pc[c] = "close_done" /\ job[c].stream => answer[c] # "none"
    /\ \A c \in Calls : method[c] \in {"wallet", "mandate"} => Cost(c) > 0
    /\ \A c \in Calls : pc[c] = "count" => method[c] \in {"wallet", "mandate"} /\ ~job[c].stream

LEMMA BillStep ==
    ASSUME TypeOK, StageInv, BillInv, [Next]_vars
    PROVE  BillInv'
<1> USE DEF TypeOK, StageInv, BillInv, Unbilled, Goto, callVars, agentVars, Cost
<1>1. ASSUME NEW c \in Calls, Receive(c) \/ Authenticate(c) \/ Gate(c) \/ Drop(c)
      PROVE  BillInv'
  BY <1>1 DEF Receive, Authenticate, Gate, Drop
<1>2. ASSUME NEW c \in Calls, Lookup(c) PROVE BillInv'
  BY <1>2 DEF Lookup
<1>3. ASSUME NEW c \in Calls, ChooseFree(c) \/ ChoosePaid(c) PROVE BillInv'
  BY <1>3 DEF ChooseFree, ChoosePaid
<1>4. ASSUME NEW c \in Calls, Consume(c) \/ OpenTask(c) PROVE BillInv'
  BY <1>4 DEF Consume, OpenTask
<1>5. ASSUME NEW c \in Calls, Run(c) PROVE BillInv'
  <2>1. /\ AfterRun(c) \in {"deduct", "count", "close_done"}
        /\ AfterRun(c) = "count" => method[c] = "mandate"
    BY <1>5 DEF Run, AfterRun
  <2> QED BY <1>5, <2>1 DEF Run
<1>6. ASSUME NEW c \in Calls, RunStream(c) PROVE BillInv'
  BY <1>6 DEF RunStream
<1>7. ASSUME NEW c \in Calls, Deduct(c) PROVE BillInv'
  BY <1>7 DEF Deduct, Take
<1>8. ASSUME NEW c \in Calls, Count(c) PROVE BillInv'
  BY <1>8 DEF Count
<1>9. ASSUME NEW c \in Calls, CloseDone(c) \/ CloseFailed(c) \/ Store(c) PROVE BillInv'
  BY <1>9 DEF CloseDone, CloseFailed, Store
<1>10. CASE Crash
  BY <1>10 DEF Crash
<1>11. CASE UNCHANGED vars
  BY <1>11 DEF vars
<1> QED
  BY <1>1, <1>2, <1>3, <1>4, <1>5, <1>6, <1>7, <1>8, <1>9, <1>10, <1>11
  DEF Next, Handle, Quiescent

\* Every step of a handler is one of the account or changes nothing of it.
LEMMA PromiseStep ==
    ASSUME TypeOK, StageInv, DeductedOnlyIfRan, BillInv, [Next]_vars
    PROVE  [Promise!Next]_(Promise!vars)
<1> USE DEF TypeOK, StageInv, BillInv, Unbilled, callVars, agentVars, Cost
<1>1. ASSUME UNCHANGED <<job, free, total, balance, ran, deducted, answer, cache>>
      PROVE  UNCHANGED Promise!vars
  BY <1>1 DEF Promise!vars
<1>2. ASSUME NEW c \in Calls,
             \/ Receive(c) \/ Authenticate(c) \/ Gate(c) \/ ChooseFree(c) \/ ChoosePaid(c)
             \/ OpenTask(c) \/ CloseFailed(c) \/ Drop(c)
      PROVE  UNCHANGED Promise!vars
  BY <1>1, <1>2
  DEF Receive, Authenticate, Gate, ChooseFree, ChoosePaid, OpenTask, CloseFailed, Drop
<1>3. ASSUME NEW c \in Calls, Lookup(c) PROVE Promise!Repeat(c) \/ UNCHANGED Promise!vars
  <2>1. CASE answer' = answer
    BY <1>1, <1>3, <2>1 DEF Lookup
  <2>2. CASE answer' # answer
    BY <1>3, <2>2 DEF Lookup, Promise!Repeat
  <2> QED BY <2>1, <2>2
<1>4. ASSUME NEW c \in Calls, Consume(c) PROVE Promise!Grant \/ UNCHANGED Promise!vars
  <2>1. CASE UNCHANGED <<free, total>>
    BY <1>1, <1>4, <2>1 DEF Consume
  <2>2. CASE ~ UNCHANGED <<free, total>>
    BY <1>4, <2>2 DEF Consume, Promise!Grant
  <2> QED BY <2>1, <2>2
<1>5. ASSUME NEW c \in Calls, Run(c) PROVE Promise!Perform(c) \/ UNCHANGED Promise!vars
  <2>1. CASE ran' = ran
    BY <1>1, <1>5, <2>1 DEF Run
  <2>2. CASE ran' # ran
    BY <1>5, <2>2 DEF Run, Promise!Perform
  <2> QED BY <2>1, <2>2
<1>6. ASSUME NEW c \in Calls, RunStream(c) PROVE Promise!Perform(c) \/ UNCHANGED Promise!vars
  <2>1. CASE ran' = ran
    <3>1. answer' = answer
      BY <1>6, <2>1 DEF RunStream
    <3> QED BY <1>1, <1>6, <2>1, <3>1 DEF RunStream
  <2>2. CASE ran' # ran
    <3>1. PICK told \in {"free", "charged"} :
              /\ told = IF method[c] = "free_call" THEN "free" ELSE "charged"
              /\ answer' = [answer EXCEPT ![c] = told]
      BY <1>6, <2>2 DEF RunStream
    <3>2. Promise!May(c, told)
      <4>1. c \notin deducted /\ (told = "charged" => job[c].cost > 0)
        BY <1>6, <3>1 DEF RunStream
      <4> QED BY <3>1, <4>1 DEF Promise!May
    <3> QED BY <1>6, <2>2, <3>1, <3>2 DEF RunStream, Promise!Perform
  <2> QED BY <2>1, <2>2
<1>7. ASSUME NEW c \in Calls, pc[c] \in {"deduct", "count"}
      PROVE  c \in Promise!Unbilled
  BY <1>7 DEF Promise!Unbilled
<1>8. ASSUME NEW c \in Calls, Deduct(c)
      PROVE  \/ Promise!Debit(c) \/ Promise!Bill(c, "free") \/ UNCHANGED Promise!vars
  <2>1. c \in Promise!Unbilled \ deducted /\ job[c].cost > 0
    BY <1>7, <1>8 DEF Deduct
  <2>2. CASE balance >= Cost(c) /\ Take(c) /\ (answer' = answer \/ answer' = [answer EXCEPT ![c] = "free"])
    BY <1>8, <2>1, <2>2 DEF Deduct, Take, Promise!Debit, Promise!Take
  <2>3. CASE UNCHANGED <<balance, deducted, answer>>
    BY <1>1, <1>8, <2>3 DEF Deduct
  <2>4. CASE UNCHANGED <<balance, deducted>> /\ answer' = [answer EXCEPT ![c] = "free"]
    BY <1>8, <2>1, <2>4 DEF Deduct, Promise!Bill, Promise!May
  <2> QED BY <1>8, <2>2, <2>3, <2>4 DEF Deduct
<1>9. ASSUME NEW c \in Calls, Count(c)
      PROVE  Promise!Bill(c, "wallet") \/ Promise!Bill(c, "charged")
  <2>1. c \in Promise!Unbilled /\ job[c].cost > 0 /\ method[c] \in {"wallet", "mandate"}
    BY <1>7, <1>9 DEF Count
  <2>2. CASE method[c] = "wallet"
    <3>1. c \in deducted
      BY <1>9, <2>2 DEF Count
    <3> QED BY <1>9, <2>1, <2>2, <3>1 DEF Count, Promise!Bill, Promise!May
  <2>3. CASE method[c] = "mandate"
    <3>1. c \notin deducted
      BY <2>3 DEF DeductedOnlyIfRan
    <3> QED BY <1>9, <2>1, <2>3, <3>1 DEF Count, Promise!Bill, Promise!May
  <2> QED BY <2>1, <2>2, <2>3
<1>10. ASSUME NEW c \in Calls, CloseDone(c)
       PROVE  Promise!Bill(c, "free") \/ UNCHANGED Promise!vars
  <2>1. CASE answer' = answer
    BY <1>1, <1>10, <2>1 DEF CloseDone
  <2>2. CASE answer' # answer
    <3>1. c \in Promise!Unbilled /\ answer' = [answer EXCEPT ![c] = "free"]
      BY <1>10, <2>2, JobFields DEF CloseDone, Promise!Unbilled
    <3> QED BY <1>10, <3>1 DEF CloseDone, Promise!Bill, Promise!May
  <2> QED BY <2>1, <2>2
<1>11. ASSUME NEW c \in Calls, Store(c) PROVE Promise!Keep(c) \/ UNCHANGED Promise!vars
  <2>1. CASE cache' = cache
    BY <1>1, <1>11, <2>1 DEF Store
  <2>2. CASE cache' # cache
    BY <1>11, <2>2 DEF Store, CacheStore, Promise!Keep
  <2> QED BY <2>1, <2>2
<1>12. ASSUME Crash \/ Quiescent \/ UNCHANGED vars PROVE UNCHANGED Promise!vars
  BY <1>1, <1>12 DEF Crash, Quiescent, vars
<1> HIDE DEF TypeOK, StageInv, BillInv, Unbilled, callVars, agentVars, Cost
<1>13. ASSUME NEW c \in Calls, Handle(c) PROVE Promise!Next \/ UNCHANGED Promise!vars
  BY <1>2, <1>3, <1>4, <1>5, <1>6, <1>8, <1>9, <1>10, <1>11, <1>13 DEF Handle, Promise!Next
<1> QED BY <1>2, <1>12, <1>13 DEF Next

\* POST /v1/jecp implements Accounts, for every number of calls at once, every wallet,
\* any number of free calls and under every fault.
THEOREM Implementation == Spec => KeepsAccounts
<1>1. Init => BillInv /\ Promise!Init
  BY ExecuteAssumption DEF Init, BillInv, Unbilled, Promise!Init
<1>2. TaskInv /\ BillInv /\ [Next]_vars => BillInv' /\ [Promise!Next]_(Promise!vars)
  BY BillStep, PromiseStep DEF TaskInv
<1> QED BY <1>1, <1>2, Invariance, PTL DEF Spec, KeepsAccounts, Promise!Spec

(***************************************************************************)
(* One call at a time, and nothing fails                                   *)
(***************************************************************************)
Missed == {"gate", "pay", "consume", "open", "run", "deduct", "count", "close_done",
           "close_failed", "store"}

\* A call past the lookup found no row for its id, and the only call that could
\* have stored one since is itself; what was read of the balance and of the free
\* calls still holds when it is used.
AloneInv ==
    /\ \A c, d \in Calls : pc[c] \in Working /\ pc[d] \in Working => c = d
    /\ \A c \in Calls : pc[c] \in Missed => cache[job[c].id] = NoRow
    /\ \A c \in ran : ~job[c].stream =>
           \/ pc[c] \in {"deduct", "count", "close_done", "store"}
           \/ pc[c] = "answered" /\ cache[job[c].id] # NoRow
    /\ \A c \in Calls : method[c] = "wallet" /\ pc[c] \in {"open", "run", "deduct"} =>
           balance >= Cost(c)
    /\ \A c \in Calls : pc[c] \in {"consume", "open", "run"} => c \notin ran

\* The calls that were counted against the free ones.
Consumed == {c \in Calls : hadFree[c] /\ method[c] = "free_call" /\ pc[c] # "consume"}

FreeInv ==
    /\ \A c \in Calls : hadFree[c] /\ pc[c] \in {"lookup", "gate", "pay", "consume"} => free > 0
    /\ \A c \in Calls : method[c] = "free_call" /\ Cost(c) > 0 => hadFree[c]
    /\ \A c \in Calls : pc[c] = "consume" => hadFree[c] /\ method[c] = "free_call"
    /\ \A c \in Calls : pc[c] \in {"unsent", "auth", "lookup", "gate", "pay"} => method[c] = "none"
    /\ Cardinality(Consumed) + free = FreeCalls

\* Each instance of the run takes steps of the specification.
LEMMA SameCardinality == \A S : Serial!Cardinality(S) = Cardinality(S)
  BY DEF Cardinality, Serial!Cardinality

LEMMA Alone ==
    ASSUME NEW c \in Calls, Serial!Receive(c)
    PROVE  Receive(c) /\ \A d \in Calls : pc[d] \notin Working
<1>1. Cardinality(InFlight) < 1
  BY SameCardinality DEF Serial!Receive, InFlight, Serial!InFlight, Working, Serial!Working
<1>2. IsFiniteSet(InFlight)
  BY ExecuteAssumption, FS_Subset DEF InFlight
<1>3. InFlight = {}
  <2>1. Cardinality(InFlight) = 0
    BY <1>1, <1>2, FS_CardinalityType
  <2> QED BY <1>2, <2>1, FS_EmptySet
<1>4. Cardinality(InFlight) < MaxInFlight
  BY <1>1, <1>2, FS_CardinalityType, ModesAssumption, ExecuteAssumption
<1>5. \A d \in Calls : pc[d] \notin Working
  BY <1>3 DEF InFlight
<1> QED
  BY <1>4, <1>5
  DEF Serial!Receive, Receive, Goto, Serial!Goto, callVars, Serial!callVars, agentVars,
      Serial!agentVars

\* A step of one call at a time without failures is a step of the specification.
LEMMA SerialIsAStep ==
    ASSUME Serial!Next
    PROVE  [Next]_vars
<1> USE DEF Goto, Serial!Goto, callVars, Serial!callVars, agentVars, Serial!agentVars, Cost,
            Serial!Cost
<1>1. ASSUME NEW c \in Calls, Serial!Receive(c) PROVE Receive(c)
  BY <1>1, Alone
<1>2. ASSUME NEW c \in Calls,
             \/ Serial!Authenticate(c) \/ Serial!Lookup(c) \/ Serial!Gate(c)
             \/ Serial!ChooseFree(c) \/ Serial!ChoosePaid(c) \/ Serial!Consume(c)
      PROVE  Handle(c)
  BY <1>2
  DEF Handle, Serial!Authenticate, Serial!Lookup, Serial!Gate, Serial!ChooseFree,
      Serial!ChoosePaid, Serial!Consume, Authenticate, Lookup, Gate, ChooseFree, ChoosePaid,
      Consume
<1>3. ASSUME NEW c \in Calls,
             \/ Serial!OpenTask(c) \/ Serial!Run(c) \/ Serial!RunStream(c) \/ Serial!Deduct(c)
             \/ Serial!Count(c)
      PROVE  Handle(c)
  BY <1>3
  DEF Handle, Serial!OpenTask, Serial!Run, Serial!RunStream, Serial!Deduct, Serial!Count,
      Serial!AfterRun, Serial!Take, OpenTask, Run, RunStream, Deduct, Count, AfterRun, Take,
      RecordedId, Serial!RecordedId
<1>4. ASSUME NEW c \in Calls, Serial!CloseDone(c) \/ Serial!CloseFailed(c) \/ Serial!Store(c)
      PROVE  Handle(c)
  BY <1>4
  DEF Handle, Serial!CloseDone, Serial!CloseFailed, Serial!Store, Serial!Close,
      Serial!CacheStore, CloseDone, CloseFailed, Store, Close, CacheStore, CompletedId,
      Serial!CompletedId, TaskIds, Serial!TaskIds
<1>5. Serial!Quiescent => UNCHANGED vars
  BY DEF Serial!Quiescent, vars, Serial!vars
<1> QED
  BY <1>1, <1>2, <1>3, <1>4, <1>5
  DEF Serial!Next, Serial!Handle, Serial!Drop, Serial!Crash, Next

LEMMA AloneStep ==
    ASSUME TypeOK, StageInv, AloneInv, FreeInv, Serial!Next
    PROVE  AloneInv'
<1> USE ExecuteAssumption
    DEF TypeOK, AloneInv, Working, Missed, Goto, Serial!Goto, callVars, Serial!callVars,
        agentVars, Serial!agentVars, Cost, Serial!Cost
<1>1. ASSUME NEW c \in Calls, Serial!Receive(c) PROVE AloneInv'
  <2>1. \A d \in Calls : pc[d] \notin Working
    BY <1>1, Alone
  <2> QED BY <1>1, <2>1 DEF Serial!Receive
<1>2. ASSUME NEW c \in Calls,
             Serial!Authenticate(c) \/ Serial!Lookup(c) \/ Serial!Gate(c)
      PROVE  AloneInv'
  BY <1>2 DEF Serial!Authenticate, Serial!Lookup, Serial!Gate, StageInv
<1>3. ASSUME NEW c \in Calls,
             Serial!ChooseFree(c) \/ Serial!ChoosePaid(c) \/ Serial!Consume(c)
      PROVE  AloneInv'
  <2>1. CASE Serial!ChooseFree(c)
    BY <2>1 DEF Serial!ChooseFree, StageInv
  <2>2. CASE Serial!ChoosePaid(c)
    BY <2>2 DEF Serial!ChoosePaid, StageInv
  <2>3. CASE Serial!Consume(c)
    <3>1. method[c] = "free_call" /\ job[c].id \in Ids
      BY <2>3, JobFields DEF Serial!Consume, FreeInv
    <3> QED BY <2>3, <3>1 DEF Serial!Consume
  <2> QED BY <1>3, <2>1, <2>2, <2>3
<1>4. ASSUME NEW c \in Calls, Serial!OpenTask(c) \/ Serial!RunStream(c) PROVE AloneInv'
  BY <1>4 DEF Serial!OpenTask, Serial!RunStream, StageInv
<1>5. ASSUME NEW c \in Calls, Serial!Run(c) PROVE AloneInv'
  <2>1. /\ Serial!AfterRun(c) \in {"deduct", "count", "close_done"}
        /\ Serial!AfterRun(c) = "deduct" => method[c] = "wallet"
    BY <1>5 DEF Serial!Run, Serial!AfterRun, StageInv
  <2> QED BY <1>5, <2>1 DEF Serial!Run
<1>6. ASSUME NEW c \in Calls, Serial!Deduct(c) PROVE AloneInv'
  <2>1. /\ pc'[c] = "count" /\ \A d \in Calls : d # c => pc'[d] = pc[d]
        /\ UNCHANGED <<job, method, cache, ran>>
    BY <1>6, JobFields DEF Serial!Deduct, StageInv
  <2> QED BY <1>6, <2>1 DEF Serial!Deduct
<1>7. ASSUME NEW c \in Calls,
             Serial!Count(c) \/ Serial!CloseDone(c) \/ Serial!CloseFailed(c)
      PROVE  AloneInv'
  BY <1>7 DEF Serial!Count, Serial!CloseDone, Serial!CloseFailed
<1>8. ASSUME NEW c \in Calls, Serial!Store(c) PROVE AloneInv'
  <2>1. [input |-> job[c].input, bill |-> answer[c]] \in Row
    BY <1>8, JobFields DEF Serial!Store, Row, StageInv
  <2>2. /\ cache'[job[c].id] # NoRow
        /\ \A i \in Ids : i # job[c].id => cache'[i] = cache[i]
    BY <1>8, <2>1, JobFields DEF Serial!Store, Serial!CacheStore
  <2>3. \A d \in Calls : job[d].id \in Ids
    BY JobFields
  <2>4. /\ pc[c] = "store" /\ pc' = [pc EXCEPT ![c] = "answered"]
        /\ UNCHANGED <<job, method, balance, ran>>
    BY <1>8 DEF Serial!Store
  <2> QED BY <2>2, <2>3, <2>4
<1>9. ASSUME UNCHANGED vars PROVE AloneInv'
  BY <1>9 DEF vars
<1> QED
  BY <1>1, <1>2, <1>3, <1>4, <1>5, <1>6, <1>7, <1>8, <1>9
  DEF Serial!Next, Serial!Handle, Serial!Drop, Serial!Crash, Serial!Quiescent, Serial!vars, vars

\* A call runs only where no row was found, so after no other call of its id.
LEMMA RanOnceStep ==
    ASSUME TypeOK, AloneInv, RanOnce, Serial!Next
    PROVE  RanOnce'
<1> USE DEF TypeOK, AloneInv, RanOnce, SameRequest, Working, Missed, Serial!Goto,
            Serial!callVars, Serial!agentVars
<1>1. ASSUME NEW c \in Calls, Serial!Run(c) PROVE RanOnce'
  <2>1. \A d \in ran : ~job[d].stream /\ d # c => job[d].id # job[c].id
    BY <1>1 DEF Serial!Run
  <2> QED BY <1>1, <2>1 DEF Serial!Run
<1>2. ASSUME NEW c \in Calls, Serial!RunStream(c) PROVE RanOnce'
  BY <1>2 DEF Serial!RunStream
<1>3. CASE UNCHANGED <<job, ran>>
  BY <1>3
<1> QED
  BY <1>1, <1>2, <1>3
  DEF Serial!Next, Serial!Handle, Serial!Drop, Serial!Crash, Serial!Quiescent, Serial!vars,
      Serial!Receive, Serial!Authenticate, Serial!Lookup, Serial!Gate, Serial!ChooseFree,
      Serial!ChoosePaid, Serial!Consume, Serial!OpenTask, Serial!Deduct, Serial!Count,
      Serial!CloseDone, Serial!CloseFailed, Serial!Store

LEMMA FreeStep ==
    ASSUME TypeOK, StageInv, AloneInv, FreeInv, Serial!Next
    PROVE  FreeInv'
<1> USE ExecuteAssumption
    DEF TypeOK, FreeInv, AloneInv, Working, Missed, Goto, Serial!Goto, callVars, Serial!callVars,
        agentVars, Serial!agentVars, Cost, Serial!Cost
<1>0. IsFiniteSet(Consumed)
  BY FS_Subset DEF Consumed
<1>1. ASSUME NEW c \in Calls, Serial!Consume(c) PROVE FreeInv'
  <2>1. /\ free > 0 /\ free' = free - 1 /\ UNCHANGED <<job, method, hadFree>>
        /\ pc[c] = "consume" /\ pc' = [pc EXCEPT ![c] = "open"]
    BY <1>1 DEF Serial!Consume
  <2>2. c \notin Consumed /\ Consumed' = Consumed \union {c}
    BY <2>1 DEF Consumed
  <2>3. Cardinality(Consumed)' = Cardinality(Consumed) + 1
    BY <1>0, <2>2, FS_AddElement
  <2>4. Cardinality(Consumed') + free' = FreeCalls
    BY <1>0, <2>1, <2>3, FS_CardinalityType
  <2>5. \A d \in Calls : pc'[d] \notin {"lookup", "gate", "pay", "consume"}
    BY <2>1
  <2> QED BY <2>1, <2>4, <2>5
<1>2. ASSUME NEW c \in Calls, Consumed' = Consumed, free' = free, job' = job,
             \A d \in Calls : d # c => /\ pc'[d] = pc[d] /\ hadFree'[d] = hadFree[d]
                                       /\ method'[d] = method[d],
             hadFree'[c] /\ pc'[c] \in {"lookup", "gate", "pay", "consume"} => free > 0,
             method'[c] = "free_call" /\ Cost(c) > 0 => hadFree'[c],
             pc'[c] = "consume" => hadFree'[c] /\ method'[c] = "free_call",
             pc'[c] \in {"unsent", "auth", "lookup", "gate", "pay"} => method'[c] = "none"
      PROVE  FreeInv'
  BY <1>2
<1>3. ASSUME NEW c \in Calls,
             Serial!Receive(c) \/ Serial!Authenticate(c) \/ Serial!Lookup(c)
             \/ Serial!Gate(c) \/ Serial!ChooseFree(c) \/ Serial!ChoosePaid(c)
      PROVE  FreeInv'
  <2>1. /\ free' = free /\ job' = job
        /\ \A d \in Calls : d # c => /\ pc'[d] = pc[d] /\ hadFree'[d] = hadFree[d]
                                     /\ method'[d] = method[d]
    BY <1>3
    DEF Serial!Receive, Serial!Authenticate, Serial!Lookup, Serial!Gate, Serial!ChooseFree,
        Serial!ChoosePaid
  <2>2. c \notin Consumed /\ c \notin Consumed'
    BY <1>3
    DEF Consumed, Serial!Receive, Serial!Authenticate, Serial!Lookup, Serial!Gate,
        Serial!ChooseFree, Serial!ChoosePaid
  <2>3. Consumed' = Consumed
    BY <2>1, <2>2 DEF Consumed
  <2>4. /\ hadFree'[c] /\ pc'[c] \in {"lookup", "gate", "pay", "consume"} => free > 0
        /\ method'[c] = "free_call" /\ Cost(c) > 0 => hadFree'[c]
        /\ pc'[c] = "consume" => hadFree'[c] /\ method'[c] = "free_call"
        /\ pc'[c] \in {"unsent", "auth", "lookup", "gate", "pay"} => method'[c] = "none"
    <3>1. CASE Serial!Receive(c) \/ Serial!Lookup(c) \/ Serial!Gate(c)
      BY <3>1 DEF Serial!Receive, Serial!Lookup, Serial!Gate
    <3>2. CASE Serial!Authenticate(c)
      BY <3>2 DEF Serial!Authenticate
    <3>3. CASE Serial!ChooseFree(c)
      BY <3>3, JobFields DEF Serial!ChooseFree
    <3>4. CASE Serial!ChoosePaid(c)
      BY <3>4 DEF Serial!ChoosePaid
    <3> QED BY <1>3, <3>1, <3>2, <3>3, <3>4
  <2> HIDE DEF FreeInv
  <2> QED BY <1>2, <2>1, <2>3, <2>4
<1>4. ASSUME UNCHANGED <<job, hadFree, method, free>>,
             \A c \in Calls : pc'[c] \in {"lookup", "gate", "pay", "consume", "unsent", "auth"}
                               => pc'[c] = pc[c],
             \A c \in Calls : pc[c] = "consume" => pc'[c] = "consume"
      PROVE  FreeInv'
  <2>1. Consumed' = Consumed
    BY <1>4 DEF Consumed
  <2> QED BY <1>4, <2>1
<1>5. ASSUME NEW c \in Calls,
             Serial!OpenTask(c) \/ Serial!RunStream(c) \/ Serial!Deduct(c) \/ Serial!Count(c)
             \/ Serial!CloseDone(c) \/ Serial!CloseFailed(c) \/ Serial!Store(c)
      PROVE  FreeInv'
  BY <1>4, <1>5
  DEF Serial!OpenTask, Serial!RunStream, Serial!Deduct, Serial!Count, Serial!CloseDone,
      Serial!CloseFailed, Serial!Store
<1>6. ASSUME NEW c \in Calls, Serial!Run(c) PROVE FreeInv'
  <2>1. Serial!AfterRun(c) \in {"deduct", "count", "close_done"}
    BY <1>6 DEF Serial!Run, Serial!AfterRun, StageInv
  <2> QED BY <1>4, <1>6, <2>1 DEF Serial!Run
<1>7. CASE UNCHANGED vars
  BY <1>4, <1>7 DEF vars
<1> QED
  BY <1>1, <1>3, <1>5, <1>6, <1>7
  DEF Serial!Next, Serial!Handle, Serial!Drop, Serial!Crash, Serial!Quiescent, Serial!vars, vars

\* What holds in the serial instance, beside what always does.
SerialInv == mode = "serial" => TypeOK /\ StageInv /\ AloneInv /\ FreeInv /\ RanOnce

LEMMA SerialStart == MCInit => SerialInv
<1> SUFFICES ASSUME Serial!Init, mode = "serial"
             PROVE  TypeOK /\ StageInv /\ AloneInv /\ FreeInv /\ RanOnce
  BY DEF MCInit, SerialInv
<1> USE DEF Serial!Init, TypeOK
<1>1. TypeOK
  BY ModesAssumption, ExecuteAssumption DEF Billings, Finished, TaskIds, Serial!TaskIds
<1>2. StageInv
  BY DEF StageInv
<1>3. AloneInv /\ RanOnce
  BY DEF AloneInv, Working, Missed, RanOnce
<1>4. Consumed = {}
  BY DEF Consumed
<1>5. Cardinality(Consumed) = 0
  BY <1>4, FS_EmptySet
<1>6. FreeInv
  BY <1>5, ExecuteAssumption DEF FreeInv
<1> QED BY <1>1, <1>2, <1>3, <1>6

LEMMA SerialStep ==
    ASSUME SerialInv, [MCNext]_<<vars, mode>>
    PROVE  SerialInv'
<1> SUFFICES ASSUME mode' = "serial"
             PROVE  (TypeOK /\ StageInv /\ AloneInv /\ FreeInv /\ RanOnce)'
  BY DEF SerialInv
<1>1. mode = "serial"
  BY DEF MCNext
<1>2. TypeOK /\ StageInv /\ AloneInv /\ FreeInv /\ RanOnce
  BY <1>1 DEF SerialInv
<1>3. CASE Serial!Next
  BY <1>2, <1>3, SerialIsAStep, TypeStep, StageStep, AloneStep, FreeStep, RanOnceStep
<1>4. CASE UNCHANGED vars
  BY <1>2, <1>4
  DEF vars, callVars, agentVars, TypeOK, StageInv, AloneInv, FreeInv, RanOnce, Consumed, Cost,
      SameRequest
<1> QED BY <1>1, <1>3, <1>4 DEF MCNext

\* With one call at a time and no faults, for every set of requests, every wallet
\* and any number of free calls: a request id is one run on the JSON path, and no
\* more priced runs are free than the agent had free calls.
THEOREM SerialCounting == MCSpec => []SerialCallsCounted
<1>1. SerialInv => SerialCallsCounted
  <2> SUFFICES ASSUME SerialInv, mode = "serial"
               PROVE  RanOnce /\ FreeCallsLast
    BY DEF SerialCallsCounted
  <2> DEFINE priced == {c \in ran : method[c] = "free_call" /\ Cost(c) > 0}
  <2>1. priced \subseteq Consumed
    BY DEF SerialInv, TypeOK, AloneInv, FreeInv, Consumed
  <2>2. IsFiniteSet(Consumed)
    BY ExecuteAssumption, FS_Subset DEF Consumed
  <2>3. IsFiniteSet(priced) /\ Cardinality(priced) <= Cardinality(Consumed)
    BY <2>1, <2>2, FS_Subset
  <2>4. Cardinality(priced) \in Nat /\ Cardinality(Consumed) \in Nat
    BY <2>2, <2>3, FS_CardinalityType
  <2>5. free \in Nat /\ Cardinality(Consumed) + free = FreeCalls /\ RanOnce
    BY DEF SerialInv, TypeOK, FreeInv
  <2> HIDE DEF priced
  <2>6. Cardinality(priced) <= FreeCalls
    BY <2>3, <2>4, <2>5, ExecuteAssumption
  <2> QED BY <2>5, <2>6 DEF FreeCallsLast, priced
<1>2. SerialInv /\ [MCNext]_<<vars, mode>> => SerialInv'
  BY SerialStep
<1> QED BY <1>1, <1>2, SerialStart, PTL DEF MCSpec
================================================================================
