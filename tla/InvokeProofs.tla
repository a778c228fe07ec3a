----------------------------- MODULE InvokeProofs -----------------------------
(* Theorems about Invoke, for every value of its constants. *)
EXTENDS Invoke, FiniteSetTheorems, TLAPS

(***************************************************************************)
(* Type correctness                                                        *)
(***************************************************************************)
LEMMA RequestFields ==
    ASSUME NEW r \in Requests
    PROVE  /\ r.agent \in Agents /\ r.id \in Ids /\ r.input \in Inputs
           /\ r.nonce \in Nonces \union {NoNonce}
           /\ r.pay \in Payments \union {NoPayment}
  BY RequestAssumption DEF Request

\* A step of a handler keeps every variable in its type.
LEMMA HandleType ==
    ASSUME TypeOK, StageInv, NEW c \in Calls, Handle(c)
    PROVE  TypeOK'
<1> USE DEF TypeOK, Goto, PCs, Working, Finished, Bills, clientVars, moneyVars, taskVars
<1>0. /\ req[c] \in Requests /\ req[c].agent \in Agents /\ Key(c) \in Agents \X Ids
      /\ Hash(c) \in Hashes
      /\ req[c].nonce # NoNonce => req[c].nonce \in Nonces
      /\ req[c].pay # NoPayment => req[c].pay \in Payments
  BY RequestFields DEF Key, Hash, Hashes
<1>1. CASE Admit(c)
  BY <1>0, <1>1 DEF Admit
<1>2. CASE Lookup(c)
  <2>1. cache[Key(c)] \in Row \union {NoRow}
    BY <1>0
  <2>2. cache[Key(c)] # NoRow => cache[Key(c)].bill \in Bills
    BY <2>1 DEF Row
  <2> QED BY <1>2, <2>2 DEF Lookup
<1>3. CASE Resolve(c)
  BY <1>3 DEF Resolve
<1>4. CASE CheckPayment(c)
  BY <1>4 DEF CheckPayment
<1>5. CASE RecordPayment(c)
  BY <1>5 DEF RecordPayment
<1>6. CASE Preflight(c)
  BY <1>6 DEF Preflight
<1>7. CASE Forward(c)
  <2>1. pc' \in [Calls -> PCs]
    BY <1>7 DEF Forward
  <2>2. served' \subseteq Calls
    BY <1>7 DEF Forward
  <2>3. spawned' \subseteq Tasks \X Calls
    BY <1>7 DEF Forward, CountCapability, Tasks
  <2> QED BY <1>7, <2>1, <2>2, <2>3 DEF Forward
<1>8. CASE AdmitStream(c) \/ ResolveStream(c) \/ OpenStream(c) \/ Relay(c)
  BY <1>8 DEF AdmitStream, ResolveStream, OpenStream, Relay
<1>9. CASE SettlePayment(c)
  <2>1. req[c].pay \in Payments
    BY <1>9, <1>0 DEF SettlePayment, StageInv, PaysOnChain
  <2> QED BY <1>9, <2>1 DEF SettlePayment
<1>10. CASE Charge(c) \/ ChargeStream(c)
  <2>1. pc' \in [Calls -> PCs]
    BY <1>10 DEF Charge, ChargeStream
  <2>2. PICK debited \in BOOLEAN : ChargeOutcome(c, debited)
    BY <1>10 DEF Charge, ChargeStream
  <2>3. wallet' \in [Agents -> Nat] /\ bill' \in [Calls -> Bills] /\ charged' \subseteq Calls
    BY <2>2, <1>0, MoneyAssumption DEF ChargeOutcome, Debit, NoDebit
  <2>4. spawned' \subseteq Tasks \X Calls
    BY <1>10 DEF Charge, ChargeStream, CountCapability, Notify, Tasks
  <2> QED BY <1>10, <2>1, <2>3, <2>4 DEF Charge, ChargeStream
<1>11. CASE Store(c)
  <2>1. [hash |-> Hash(c), bill |-> bill[c]] \in Row
    BY <1>11, <1>0 DEF Store, StageInv, Row
  <2>2. cache' \in [Agents \X Ids -> Row \union {NoRow}]
    BY <1>11, <2>1 DEF Store, CacheStore
  <2> QED BY <1>11, <2>2 DEF Store
<1> QED
  BY <1>1, <1>2, <1>3, <1>4, <1>5, <1>6, <1>7, <1>8, <1>9, <1>10, <1>11 DEF Handle

LEMMA NextType ==
    ASSUME TypeOK, StageInv, [Next]_vars
    PROVE  TypeOK'
<1>1. CASE \E c \in Calls : Handle(c)
  BY <1>1, HandleType
<1> USE DEF TypeOK, Goto, clientVars, moneyVars, taskVars
<1>2. CASE \E c \in Calls : Receive(c) \/ Drop(c)
  BY <1>2 DEF Receive, Drop, PCs, Working, Finished
<1>3. CASE \E c \in Calls : RunTask(c)
  BY <1>3 DEF RunTask, RunNotify, RunCountCapability, RunCountProvider,
              CountProvider, Tasks
<1>4. CASE \E s \in Sessions : TopUp(s)
  BY <1>4, MoneyAssumption DEF TopUp
<1>5. CASE \E m \in Machines : Crash(m)
  BY <1>5 DEF Crash, InFlight, PCs, Finished
<1>6. CASE UNCHANGED vars
  BY <1>6 DEF vars
<1> QED
  BY <1>1, <1>2, <1>3, <1>4, <1>5, <1>6 DEF Next, Quiescent

(***************************************************************************)
(* Stages and effects: what the handler of a call knows at each await      *)
(***************************************************************************)
\* A step of the handler of c keeps the stage and effect invariants.
LEMMA HandleStage ==
    ASSUME IInv, NEW c \in Calls, Handle(c)
    PROVE  StageInv' /\ EffectInv' /\ UniqueInv'
<1> USE DEF IInv, TypeOK, StageInv, EffectInv, UniqueInv, Goto, PaysOnChain, Stream,
            clientVars, moneyVars, taskVars
<1>1. CASE Admit(c)
  BY <1>1 DEF Admit
<1>2. CASE Lookup(c)
  BY <1>2 DEF Lookup
<1>3. CASE Resolve(c)
  BY <1>3 DEF Resolve
<1>4. CASE CheckPayment(c)
  BY <1>4 DEF CheckPayment
<1>5. CASE SettlePayment(c)
  BY <1>5 DEF SettlePayment
<1>6. CASE RecordPayment(c)
  BY <1>6 DEF RecordPayment, Recorded
<1>7. CASE Preflight(c)
  BY <1>7 DEF Preflight
<1>8. CASE Forward(c)
  BY <1>8 DEF Forward
<1>9. CASE AdmitStream(c) \/ ResolveStream(c) \/ OpenStream(c)
  BY <1>9 DEF AdmitStream, ResolveStream, OpenStream
<1>10. CASE Relay(c)
  BY <1>10 DEF Relay
<1>11. CASE Charge(c)
  BY <1>11 DEF Charge, ChargeOutcome, Debit, NoDebit
<1>12. CASE ChargeStream(c)
  BY <1>12 DEF ChargeStream, ChargeOutcome, Debit, NoDebit
<1>13. CASE Store(c)
  BY <1>13 DEF Store
<1> QED
  BY <1>1, <1>2, <1>3, <1>4, <1>5, <1>6, <1>7, <1>8, <1>9, <1>10, <1>11, <1>12, <1>13
  DEF Handle

\* Arrivals, tasks, top-ups and faults keep them too.
LEMMA EnvironmentStage ==
    ASSUME IInv, [Next]_vars, \A c \in Calls : ~Handle(c)
    PROVE  StageInv' /\ EffectInv' /\ UniqueInv'
<1> USE DEF IInv, TypeOK, StageInv, EffectInv, UniqueInv, Goto, PaysOnChain, Stream,
            clientVars, moneyVars, taskVars
<1>1. CASE \E c \in Calls : Receive(c)
  BY <1>1 DEF Receive
<1>2. CASE \E c \in Calls : Drop(c)
  BY <1>2 DEF Drop, InFlight, Working
<1>3. CASE \E c \in Calls : RunTask(c)
  BY <1>3 DEF RunTask, RunNotify, RunCountCapability, RunCountProvider
<1>4. CASE \E s \in Sessions : TopUp(s)
  BY <1>4 DEF TopUp
<1>5. CASE \E m \in Machines : Crash(m)
  BY <1>5 DEF Crash, InFlight, Working
<1>6. CASE UNCHANGED vars
  BY <1>6 DEF vars
<1> QED
  BY <1>1, <1>2, <1>3, <1>4, <1>5, <1>6 DEF Next, Quiescent

(***************************************************************************)
(* Background tasks and the cache                                          *)
(***************************************************************************)
\* What calls have already caused is never undone.
LEMMA EffectsGrow ==
    ASSUME IInv, [Next]_vars
    PROVE  /\ req' = req
           /\ served \subseteq served' /\ charged \subseteq charged'
           /\ settlements \subseteq settlements'
<1> USE DEF clientVars, moneyVars, taskVars
<1>1. CASE \E c \in Calls : Handle(c)
  BY <1>1 DEF Handle, Admit, AdmitStream, Lookup, Resolve, ResolveStream, CheckPayment,
              SettlePayment, RecordPayment, Preflight, Forward, OpenStream, Relay,
              Charge, ChargeStream, ChargeOutcome, Debit, NoDebit, Store
<1>2. CASE \E c \in Calls : Receive(c) \/ Drop(c) \/ RunTask(c)
  BY <1>2 DEF Receive, Drop, RunTask, RunNotify, RunCountCapability, RunCountProvider
<1>3. CASE \E s \in Sessions : TopUp(s)
  BY <1>3 DEF TopUp
<1>4. CASE \E m \in Machines : Crash(m)
  BY <1>4 DEF Crash
<1>5. CASE UNCHANGED vars
  BY <1>5 DEF vars
<1> QED
  BY <1>1, <1>2, <1>3, <1>4, <1>5 DEF Next, Quiescent

LEMMA TaskStep ==
    ASSUME IInv, [Next]_vars
    PROVE  TaskInv' /\ CountersNeverLead'
<1> USE EffectsGrow DEF IInv, TypeOK, TaskInv, CountersNeverLead, Notify, CountCapability,
        CountProvider, clientVars, moneyVars, taskVars
<1>1. CASE \E c \in Calls : Forward(c)
  BY <1>1 DEF Forward
<1>2. CASE \E c \in Calls : Charge(c) \/ ChargeStream(c)
  <2>1. PICK c \in Calls : Charge(c) \/ ChargeStream(c)
    BY <1>2
  <2>2. c \in served
    BY <2>1 DEF StageInv, Charge, ChargeStream
  <2>3. PICK debited \in BOOLEAN :
          /\ debited => c \in charged'
          /\ spawned' \subseteq spawned \union {CountCapability(c)}
                        \union (IF debited THEN {Notify(c)} ELSE {})
    BY <2>1 DEF Charge, ChargeStream, ChargeOutcome, Debit
  <2>4. UNCHANGED <<notified, capCalls, provCalls>>
    BY <2>1 DEF Charge, ChargeStream
  <2> QED BY <2>2, <2>3, <2>4
<1>3. CASE \E c \in Calls : RunTask(c)
  BY <1>3 DEF RunTask, RunNotify, RunCountCapability, RunCountProvider
<1>4. CASE \E m \in Machines : Crash(m)
  BY <1>4 DEF Crash
<1>5. CASE UNCHANGED taskVars
  BY <1>5
<1> QED
  BY <1>1, <1>2, <1>3, <1>4, <1>5
  DEF Next, Quiescent, vars, Handle, Receive, Drop, TopUp, Admit, AdmitStream, Lookup,
      Resolve, ResolveStream, CheckPayment, SettlePayment, RecordPayment, Preflight,
      OpenStream, Relay, Store

\* Only Store writes a row, and the call that writes it is its witness.
LEMMA CacheStep ==
    ASSUME IInv, [Next]_vars
    PROVE  CachedAnswerTrue'
<1>1. /\ req' = req /\ served \subseteq served' /\ charged \subseteq charged'
      /\ settlements \subseteq settlements'
  BY EffectsGrow
<1>2. \A c \in Calls : Key(c)' = Key(c) /\ Hash(c)' = Hash(c)
  BY <1>1 DEF Key, Hash
<1>3. ASSUME NEW k \in Agents \X Ids, cache'[k] # NoRow, cache'[k] = cache[k]
      PROVE  \E c \in served' :
                 /\ Key(c)' = k /\ Hash(c)' = cache'[k].hash
                 /\ cache'[k].bill = "charged" => c \in charged'
                 /\ cache'[k].bill = "x402" => c \in settlements'
  BY <1>1, <1>2, <1>3 DEF IInv, TypeOK, CachedAnswerTrue
<1>4. CASE \E c \in Calls : Store(c)
  <2>1. PICK c \in Calls : Store(c)
    BY <1>4
  <2>2. /\ c \in served'
        /\ bill[c] = "charged" => c \in charged'
        /\ bill[c] = "x402" => c \in settlements'
    BY <1>1, <2>1 DEF Store, IInv, StageInv
  <2>3. Key(c) \in Agents \X Ids
    BY RequestFields DEF Key, IInv, TypeOK
  <2>4. \A k \in Agents \X Ids :
          \/ cache'[k] = cache[k]
          \/ k = Key(c) /\ cache'[k] = [hash |-> Hash(c), bill |-> bill[c]]
    BY <2>1, <2>3 DEF Store, CacheStore, IInv, TypeOK
  <2> QED BY <1>2, <1>3, <2>2, <2>4 DEF CachedAnswerTrue
<1>5. CASE cache' = cache
  BY <1>3, <1>5 DEF CachedAnswerTrue
<1> QED
  BY <1>4, <1>5
  DEF Next, Quiescent, vars, taskVars, moneyVars, Handle, Receive, Drop, TopUp, Crash, RunTask,
      RunNotify, RunCountCapability, RunCountProvider, Admit, AdmitStream, Lookup,
      Resolve, ResolveStream, CheckPayment, SettlePayment, RecordPayment, Preflight,
      Forward, OpenStream, Relay, Charge, ChargeStream

(***************************************************************************)
(* The invariant and what follows from it                                  *)
(***************************************************************************)
LEMMA InitInv == Init => IInv
  BY MoneyAssumption
  DEF Init, IInv, TypeOK, StageInv, EffectInv, UniqueInv, TaskInv, CountersNeverLead,
      CachedAnswerTrue, PCs, Bills

LEMMA NextInv == IInv /\ [Next]_vars => IInv'
<1> SUFFICES ASSUME IInv, [Next]_vars PROVE IInv'
  OBVIOUS
<1>1. TypeOK'
  BY NextType DEF IInv
<1>2. StageInv' /\ EffectInv' /\ UniqueInv'
  BY HandleStage, EnvironmentStage
<1> QED
  BY <1>1, <1>2, TaskStep, CacheStep DEF IInv

\* IInv holds in every reachable state.
THEOREM Invariance == Spec => []IInv
  BY InitInv, NextInv, PTL DEF Spec

\* Every variable of the handler keeps its type; a wallet never goes negative.
THEOREM TypeCorrect == Spec => []TypeOK
  BY Invariance, PTL DEF IInv

\* A wallet is debited only for a served call that was not settled on chain.
THEOREM ChargeSafety == Spec => []ChargedOnlyIfServed
<1>1. IInv => ChargedOnlyIfServed
  BY DEF IInv, TypeOK, EffectInv, ChargedOnlyIfServed
<1> QED BY <1>1, Invariance, PTL

\* An X-Payment authorisation settles one call, and is on the chain.
THEOREM PaymentSafety == Spec => []PaymentSpentOnce
<1>1. IInv => PaymentSpentOnce
  BY DEF IInv, TypeOK, EffectInv, UniqueInv, PaymentSpentOnce
<1> QED BY <1>1, Invariance, PTL

\* A cached answer is the answer of a served call with that key and payload.
THEOREM CacheSafety == Spec => []CachedAnswerTrue
  BY Invariance, PTL DEF IInv

\* Counters and events never run ahead of the calls they count.
THEOREM CounterSafety == Spec => []CountersNeverLead
  BY Invariance, PTL DEF IInv

(***************************************************************************)
(* Conservation on the wallet rail                                         *)
(***************************************************************************)
WalletInv == IsFiniteSet(topped) /\ WalletConserved

\* Each of the three things a step can do to the wallets.
LEMMA WalletCases ==
    ASSUME IInv, [Next]_vars
    PROVE  \/ UNCHANGED <<wallet, charged, topped>>
           \/ \E c \in Calls \ charged :
                 /\ wallet[req[c].agent] >= Price
                 /\ wallet' = [wallet EXCEPT ![req[c].agent] = @ - Price]
                 /\ charged' = charged \union {c} /\ topped' = topped
           \/ \E s \in Sessions \ topped :
                 /\ wallet' = [wallet EXCEPT ![Owner[s]] = @ + TopUpAmount]
                 /\ topped' = topped \union {s} /\ charged' = charged
<1> USE DEF clientVars, moneyVars, taskVars
<1>1. CASE \E c \in Calls : Charge(c) \/ ChargeStream(c)
  BY <1>1 DEF Charge, ChargeStream, ChargeOutcome, Debit, NoDebit, IInv, StageInv
<1>2. CASE \E s \in Sessions : TopUp(s)
  BY <1>2 DEF TopUp
<1>3. CASE UNCHANGED <<wallet, charged, topped>>
  BY <1>3
<1> QED
  BY <1>1, <1>2, <1>3
  DEF Next, Quiescent, vars, Handle, Receive, Drop, Crash, RunTask, RunNotify,
      RunCountCapability, RunCountProvider, Admit, AdmitStream, Lookup, Resolve,
      ResolveStream, CheckPayment, SettlePayment, RecordPayment, Preflight, Forward,
      OpenStream, Relay, Store

\* A step that debits or credits keeps every wallet's balance equation.
LEMMA WalletStep ==
    ASSUME IInv, WalletInv, [Next]_vars
    PROVE  WalletInv'
<1>1. req' = req
  BY EffectsGrow
<1>2. /\ wallet \in [Agents -> Nat] /\ charged \subseteq Calls /\ topped \subseteq Sessions
      /\ IsFiniteSet(charged) /\ IsFiniteSet(topped)
      /\ \A c \in Calls : req[c].agent \in Agents
  BY BoundAssumption, RequestFields, FS_Subset DEF IInv, TypeOK, WalletInv
<1>3. \A a \in Agents : /\ IsFiniteSet(DebitedBy(a)) /\ IsFiniteSet(ToppedFor(a))
                        /\ Cardinality(DebitedBy(a)) \in Nat
                        /\ Cardinality(ToppedFor(a)) \in Nat
  BY <1>2, FS_Subset, FS_CardinalityType DEF DebitedBy, ToppedFor
<1>4. CASE UNCHANGED <<wallet, charged, topped>>
  BY <1>1, <1>4 DEF WalletInv, WalletConserved, DebitedBy, ToppedFor
<1>5. ASSUME NEW c \in Calls \ charged, wallet[req[c].agent] >= Price,
             wallet' = [wallet EXCEPT ![req[c].agent] = @ - Price],
             charged' = charged \union {c}, topped' = topped
      PROVE  WalletInv'
  <2>1. IsFiniteSet(topped')
    BY <1>2, <1>5
  <2> SUFFICES ASSUME NEW a \in Agents
               PROVE  /\ wallet'[a] >= 0
                      /\ wallet'[a] + Price * Cardinality(DebitedBy(a)')
                           = Opening + TopUpAmount * Cardinality(ToppedFor(a)')
    BY <2>1 DEF WalletInv, WalletConserved
  <2>2. ToppedFor(a)' = ToppedFor(a)
    BY <1>5 DEF ToppedFor
  <2>3. CASE a # req[c].agent
    <3>1. DebitedBy(a)' = DebitedBy(a)
      BY <1>1, <1>2, <1>5, <2>3 DEF DebitedBy
    <3> QED BY <1>2, <1>5, <2>2, <2>3, <3>1 DEF WalletInv, WalletConserved
  <2>4. CASE a = req[c].agent
    <3>1. DebitedBy(a)' = DebitedBy(a) \union {c} /\ c \notin DebitedBy(a)
      BY <1>1, <1>2, <1>5, <2>4 DEF DebitedBy
    <3>2. Cardinality(DebitedBy(a)') = Cardinality(DebitedBy(a)) + 1
      BY <1>3, <3>1, FS_AddElement
    <3>3. wallet'[a] = wallet[a] - Price /\ wallet'[a] >= 0
      BY <1>2, <1>5, <2>4, MoneyAssumption
    <3> HIDE DEF DebitedBy, ToppedFor
    <3>4. \A n \in Nat : Price * (n + 1) = Price * n + Price
      BY MoneyAssumption
    <3>5. Price * Cardinality(DebitedBy(a)') = Price * Cardinality(DebitedBy(a)) + Price
      BY <1>3, <3>2, <3>4
    <3>6. /\ Price * Cardinality(DebitedBy(a)) \in Nat
          /\ TopUpAmount * Cardinality(ToppedFor(a)) \in Nat
      BY <1>3, MoneyAssumption
    <3>7. wallet[a] + Price * Cardinality(DebitedBy(a))
            = Opening + TopUpAmount * Cardinality(ToppedFor(a))
      BY DEF WalletInv, WalletConserved
    <3> QED BY <1>2, <2>2, <3>3, <3>5, <3>6, <3>7, MoneyAssumption
  <2> QED BY <2>3, <2>4
<1>6. ASSUME NEW s \in Sessions \ topped,
             wallet' = [wallet EXCEPT ![Owner[s]] = @ + TopUpAmount],
             topped' = topped \union {s}, charged' = charged
      PROVE  WalletInv'
  <2>1. IsFiniteSet(topped')
    BY <1>2, <1>6, FS_AddElement
  <2> SUFFICES ASSUME NEW a \in Agents
               PROVE  /\ wallet'[a] >= 0
                      /\ wallet'[a] + Price * Cardinality(DebitedBy(a)')
                           = Opening + TopUpAmount * Cardinality(ToppedFor(a)')
    BY <2>1 DEF WalletInv, WalletConserved
  <2>2. DebitedBy(a)' = DebitedBy(a)
    BY <1>1, <1>6 DEF DebitedBy
  <2>3. CASE a # Owner[s]
    <3>1. ToppedFor(a)' = ToppedFor(a)
      BY <1>2, <1>6, <2>3 DEF ToppedFor
    <3> QED BY <1>2, <1>6, <2>2, <2>3, <3>1 DEF WalletInv, WalletConserved
  <2>4. CASE a = Owner[s]
    <3>1. ToppedFor(a)' = ToppedFor(a) \union {s} /\ s \notin ToppedFor(a)
      BY <1>2, <1>6, <2>4 DEF ToppedFor
    <3>2. Cardinality(ToppedFor(a)') = Cardinality(ToppedFor(a)) + 1
      BY <1>3, <3>1, FS_AddElement
    <3>3. wallet'[a] = wallet[a] + TopUpAmount /\ wallet'[a] >= 0
      BY <1>2, <1>6, <2>4, MoneyAssumption
    <3>4. \A n \in Nat : TopUpAmount * (n + 1) = TopUpAmount * n + TopUpAmount
      BY MoneyAssumption
    <3>5. TopUpAmount * Cardinality(ToppedFor(a)')
            = TopUpAmount * Cardinality(ToppedFor(a)) + TopUpAmount
      BY <1>3, <3>2, <3>4
    <3>6. /\ Price * Cardinality(DebitedBy(a)) \in Nat
          /\ TopUpAmount * Cardinality(ToppedFor(a)) \in Nat
      BY <1>3, MoneyAssumption
    <3>7. wallet[a] + Price * Cardinality(DebitedBy(a))
            = Opening + TopUpAmount * Cardinality(ToppedFor(a))
      BY DEF WalletInv, WalletConserved
    <3> QED BY <1>2, <2>2, <3>3, <3>5, <3>6, <3>7, MoneyAssumption
  <2> QED BY <2>3, <2>4
<1> QED
  BY <1>4, <1>5, <1>6, WalletCases

\* What a wallet holds is what was paid in less the price of its charged calls.
THEOREM WalletSafety == Spec => []WalletConserved
<1>1. Init => WalletInv
  <2>1. \A a \in Agents : Init => DebitedBy(a) = {} /\ ToppedFor(a) = {}
    BY DEF Init, DebitedBy, ToppedFor
  <2> SUFFICES ASSUME Init PROVE WalletInv
    OBVIOUS
  <2>2. \A a \in Agents : /\ Cardinality(DebitedBy(a)) = 0 /\ Cardinality(ToppedFor(a)) = 0
                          /\ wallet[a] = Opening
    BY <2>1, FS_EmptySet DEF Init
  <2>3. IsFiniteSet(topped)
    BY FS_EmptySet DEF Init
  <2> QED BY <2>2, <2>3, MoneyAssumption DEF WalletInv, WalletConserved
<1>2. IInv /\ WalletInv /\ [Next]_vars => WalletInv'
  BY WalletStep
<1>3. WalletInv => WalletConserved
  BY DEF WalletInv
<1> QED BY <1>1, <1>2, <1>3, Invariance, PTL DEF Spec

(***************************************************************************)
(* The Hub implements the abstract ledger                                  *)
(***************************************************************************)
\* A step that records, serves or debits is that step of PaidCalls.
LEMMA LedgerHandle ==
    ASSUME IInv, NEW c \in Calls, Handle(c), req' = req
    PROVE  [Ledger!Next]_(Ledger!vars)
<1> USE DEF clientVars, moneyVars, taskVars, Goto, PaysOnChain, Stream
<1>1. CASE RecordPayment(c)
  <2>1. CASE settlements' = settlements
    BY <1>1, <2>1 DEF RecordPayment, Ledger!vars
  <2>2. CASE settlements' # settlements
    BY <1>1, <2>2 DEF RecordPayment, Recorded, IInv, TypeOK, StageInv, EffectInv, Ledger!vars,
                      Ledger!Next, Ledger!Settle
  <2> QED BY <2>1, <2>2
<1>2. CASE Forward(c) \/ Relay(c)
  <2>1. c \notin served /\ (PaysOnChain(c) => c \in settlements)
    BY <1>2 DEF Forward, Relay, IInv, TypeOK, StageInv, EffectInv
  <2>2. served' = served \/ served' = served \union {c}
    BY <1>2 DEF Forward, Relay
  <2>3. UNCHANGED <<req, wallet, topped, committed, settlements, charged>>
    BY <1>2 DEF Forward, Relay
  <2> QED BY <2>1, <2>2, <2>3 DEF Ledger!vars, Ledger!Next, Ledger!Serve
<1>3. CASE Charge(c) \/ ChargeStream(c)
  <2>1. c \in served \ charged /\ ~PaysOnChain(c)
    BY <1>3 DEF Charge, ChargeStream, IInv, StageInv
  <2>2. UNCHANGED <<req, topped, committed, settlements, served>>
    BY <1>3 DEF Charge, ChargeStream
  <2>3. \/ UNCHANGED <<wallet, charged>>
        \/ /\ wallet[req[c].agent] >= Price
           /\ wallet' = [wallet EXCEPT ![req[c].agent] = @ - Price]
           /\ charged' = charged \union {c}
    BY <1>3 DEF Charge, ChargeStream, ChargeOutcome, Debit, NoDebit
  <2> QED BY <2>1, <2>2, <2>3 DEF Ledger!vars, Ledger!Next, Ledger!Charge
<1>4. CASE UNCHANGED <<req, wallet, topped, committed, settlements, served, charged>>
  BY <1>4 DEF Ledger!vars
<1>5. CASE SettlePayment(c)
  <2>1. PaysOnChain(c) /\ UNCHANGED <<req, wallet, topped, settlements, served, charged>>
    BY <1>5 DEF SettlePayment, IInv, StageInv
  <2>2. committed' = committed \/ committed' = committed \union {req[c].pay}
    BY <1>5 DEF SettlePayment
  <2> QED BY <2>1, <2>2 DEF Ledger!vars, Ledger!Next, Ledger!Transfer
<1> QED
  BY <1>1, <1>2, <1>3, <1>4, <1>5
  DEF Handle, Admit, AdmitStream, Lookup, Resolve, ResolveStream, CheckPayment,
      Preflight, OpenStream, Store

LEMMA LedgerStep ==
    ASSUME IInv, [Next]_vars
    PROVE  [Ledger!Next]_(Ledger!vars)
<1> USE DEF clientVars, moneyVars, taskVars, PaysOnChain, Stream
<1>1. CASE \E c \in Calls : Handle(c)
  BY <1>1, LedgerHandle, EffectsGrow
<1>2. CASE \E s \in Sessions : TopUp(s)
  BY <1>2 DEF TopUp, Ledger!vars, Ledger!Next, Ledger!TopUp
<1>3. CASE UNCHANGED <<req, wallet, topped, committed, settlements, served, charged>>
  BY <1>3 DEF Ledger!vars
<1> QED
  BY <1>1, <1>2, <1>3
  DEF Next, Quiescent, vars, Receive, Drop, Crash, RunTask, RunNotify,
      RunCountCapability, RunCountProvider

\* Every behaviour of the handler is a behaviour of PaidCalls: the two rails, the
\* cache, the replay cache and the background tasks together keep its promise.
THEOREM Implementation == Spec => KeepsLedger
<1>1. Init => Ledger!Init
  BY DEF Init, Ledger!Init
<1>2. IInv /\ [Next]_vars => [Ledger!Next]_(Ledger!vars)
  BY LedgerStep
<1> QED BY <1>1, <1>2, Invariance, PTL DEF Spec, KeepsLedger, Ledger!Spec
=============================================================================
