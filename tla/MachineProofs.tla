------------------------------ MODULE MachineProofs ------------------------------
(***************************************************************************)
(* Theorems about Relayer, Pools and FeatureFlags, which are what a        *)
(* machine does by itself, and about Subscriptions, SnsEngine,             *)
(* ReplayCache, RateLimiter and TxSignature.                               *)
(***************************************************************************)
EXTENDS Relayer, Pools, FeatureFlags, Subscriptions, SnsEngine, ReplayCache,
        RateLimiter, TxSignature, FiniteSetTheorems, SequenceTheorems,
        WellFoundedInduction, TLAPS

(***************************************************************************)
(* Pools                                                                   *)
(***************************************************************************)
\* For each of the 2^32 values of DB_MAX_CONNECTIONS: no pool is below its floor,
\* the four fit in the total, and no multiplication that wraps breaks either.
THEOREM PoolsFitAlways == PoolsFit
<1> SUFFICES ASSUME NEW max_connections \in Unsigned
             PROVE  LET total == Configured(max_connections)
                        budget == ComputeBudget(total)
                    IN  /\ BudgetSum(budget) <= total
                        /\ budget.invoke >= 4 /\ budget.provider >= 2
                        /\ budget.background >= 2 /\ budget.read >= 2
  BY DEF PoolsFit
<1> DEFINE total == Configured(max_connections)
<1>1. 2 ^ 32 = 4294967296
  OBVIOUS
<1>2. total \in Nat /\ total >= 14
  BY <1>1 DEF Configured, Larger, Unsigned, MIN_TOTAL_POOL_BUDGET
<1> QED BY <1>1, <1>2 DEF BudgetSum, ComputeBudget, Larger, Wrapped

(***************************************************************************)
(* Relayer: types                                                          *)
(***************************************************************************)
Relay == [at : {"idle", "nonce", "gas", "sign", "send", "sent", "failed"},
          hub : Hubs, nonce : Nonce, fee : Fees]

LEMMA CountIsNatural == Cardinality(Relays) \in Nat
  BY RelayerAssumption, FS_CardinalityType

LEMMA EnterTyped ==
    ASSUME RelayerTypeOK, NEW s \in Relays, Enter(s)
    PROVE  /\ pool' \in [Nonce -> Transaction]
           /\ pool'[relays[s].nonce] # Empty
           /\ \A n \in Nonce : pool[n] # Empty => pool'[n] # Empty
<1> DEFINE entered == [by |-> s, fee |-> relays[s].fee]
<1>1. entered \in Transaction /\ relays[s].nonce \in Nonce
  BY DEF RelayerTypeOK, Transaction
<1>2. entered # Empty
  BY RelayerAssumption DEF Empty
<1>3. pool' = [pool EXCEPT ![relays[s].nonce] = entered]
  BY DEF Enter
<1> HIDE DEF entered
<1> QED BY <1>1, <1>2, <1>3 DEF RelayerTypeOK

LEMMA RelayTypeStep ==
    ASSUME RelayerTypeOK, [RelayerNext]_relayVars
    PROVE  RelayerTypeOK'
<1> USE DEF RelayerTypeOK, Move, Return
<1>1. ASSUME NEW m \in Hubs, Boot(m) PROVE RelayerTypeOK'
  BY <1>1 DEF Boot
<1>2. ASSUME NEW s \in Relays, NEW m \in Hubs, BeginRelay(s, m) PROVE RelayerTypeOK'
  BY <1>2 DEF BeginRelay, Lock
<1>3. ASSUME NEW s \in Relays, GetNonce(s) \/ GetGas(s) \/ KmsSign(s) \/ FailRelay(s)
      PROVE  RelayerTypeOK'
  BY <1>3 DEF GetNonce, GetGas, KmsSign, FailRelay
<1>4. ASSUME NEW s \in Relays, SendRaw(s) PROVE RelayerTypeOK'
  <2>1. pool' \in [Nonce -> Transaction]
    BY <1>4, EnterTyped DEF SendRaw
  <2>2. travelling' \subseteq Relays
    BY <1>4 DEF SendRaw
  <2> QED BY <1>4, <2>1, <2>2 DEF SendRaw
<1>5. ASSUME NEW s \in Relays, ArriveLate(s) PROVE RelayerTypeOK'
  <2>1. pool' \in [Nonce -> Transaction]
    BY <1>5, EnterTyped DEF ArriveLate
  <2> QED BY <1>5, <2>1 DEF ArriveLate
<1>6. CASE Mine
  BY <1>6, CountIsNatural DEF Mine, Nonce
<1>7. CASE UNCHANGED relayVars
  BY <1>7 DEF relayVars
<1> QED BY <1>1, <1>2, <1>3, <1>4, <1>5, <1>6, <1>7 DEF RelayerNext

LEMMA RelayTypeStart == RelayerInit => RelayerTypeOK
  BY CountIsNatural, RelayerAssumption
  DEF RelayerInit, RelayerTypeOK, NewRelay, Nonce, Empty, Transaction

\* Every variable of the relayer keeps its type, the account's nonces within the
\* number of submissions.
THEOREM RelayerTypeSafety == RelayerSpec => []RelayerTypeOK
<1>1. RelayerInit => RelayerTypeOK
  BY RelayTypeStart
<1>2. RelayerTypeOK /\ [RelayerNext]_relayVars => RelayerTypeOK'
  BY RelayTypeStep
<1> QED BY <1>1, <1>2, PTL DEF RelayerSpec

(***************************************************************************)
(* Relayer: one nonce, one receipt                                         *)
(***************************************************************************)
InFlight(s) == relays[s].at \in {"nonce", "gas", "sign", "send"}
HasNonce(s) == relays[s].at \in {"gas", "sign", "send"}
Answered(s) == relays[s].at = "sent"

\* A submission in progress holds its machine's lock, so there is one of them; and
\* the nonce of a transaction that was answered is taken before the lock is free.
NonceInv ==
    /\ RelayerTypeOK
    /\ \A s \in Relays :
        /\ InFlight(s) => nonceLock[relays[s].hub] = s
        /\ Answered(s) => pool[relays[s].nonce] # Empty
    /\ \A s, t \in Relays :
        s # t /\ relays[s].hub = relays[t].hub /\ Answered(s) /\ (Answered(t) \/ HasNonce(t))
            => relays[s].nonce # relays[t].nonce

\* A step that changes submission s only, leaves its machine and keeps the pool's
\* nonces taken keeps what is true of the others.
LEMMA OthersKeep ==
    ASSUME NonceInv, RelayerTypeOK', NEW s \in Relays,
           \A t \in Relays \ {s} : relays'[t] = relays[t],
           relays'[s].hub = relays[s].hub,
           \A n \in Nonce : pool[n] # Empty => pool'[n] # Empty,
           \/ InFlight(s)' /\ nonceLock' = nonceLock
           \/ InFlight(s) /\ ~InFlight(s)'
              /\ nonceLock' = [nonceLock EXCEPT ![relays[s].hub] = "nobody"],
           InFlight(s),
           Answered(s)' => pool'[relays'[s].nonce] # Empty,
           HasNonce(s)' \/ Answered(s)' =>
            \/ HasNonce(s) /\ relays'[s].nonce = relays[s].nonce
            \/ pool[relays'[s].nonce] = Empty
    PROVE  NonceInv'
<1> USE DEF InFlight, HasNonce, Answered
<1>1. \A t \in Relays : relays[t].nonce \in Nonce /\ relays[t].hub \in Hubs
  BY DEF NonceInv, RelayerTypeOK
<1>2. nonceLock[relays[s].hub] = s
  BY DEF NonceInv
<1>3. ASSUME NEW t \in Relays \ {s} PROVE ~InFlight(t) \/ relays[t].hub # relays[s].hub
  BY <1>2 DEF NonceInv
<1>4. ASSUME NEW t \in Relays
      PROVE  /\ InFlight(t)' => nonceLock'[relays'[t].hub] = t
             /\ Answered(t)' => pool'[relays'[t].nonce] # Empty
  <2>1. CASE t = s
    BY <1>1, <1>2, <2>1 DEF NonceInv, RelayerTypeOK
  <2>2. CASE t # s
    BY <1>1, <1>3, <2>2 DEF NonceInv, RelayerTypeOK
  <2> QED BY <2>1, <2>2
<1>5. ASSUME NEW t \in Relays, NEW u \in Relays, t # u, relays'[t].hub = relays'[u].hub,
             Answered(t)', Answered(u)' \/ HasNonce(u)'
      PROVE  relays'[t].nonce # relays'[u].nonce
  <2>1. CASE t # s /\ u # s
    BY <1>5, <2>1 DEF NonceInv
  <2>2. CASE t = s
    \* u is of the same machine and not in flight: it was answered.
    <3>1. u # s /\ relays'[u] = relays[u] /\ relays[u].hub = relays[s].hub
      BY <1>5, <2>2
    <3>2. Answered(u) /\ pool[relays[u].nonce] # Empty
      BY <1>3, <1>5, <3>1 DEF NonceInv
    <3> QED BY <1>5, <2>2, <3>1, <3>2 DEF NonceInv
  <2>3. CASE u = s
    <3>1. t # s /\ relays'[t] = relays[t] /\ relays[t].hub = relays[s].hub
      BY <1>5, <2>3
    <3>2. Answered(t) /\ pool[relays[t].nonce] # Empty
      BY <1>5, <3>1 DEF NonceInv
    <3> QED BY <1>5, <2>3, <3>1, <3>2 DEF NonceInv
  <2> QED BY <2>1, <2>2, <2>3
<1> QED BY <1>4, <1>5 DEF NonceInv

LEMMA NonceStep ==
    ASSUME NonceInv, [RelayerNext]_relayVars
    PROVE  NonceInv'
<1> USE DEF NonceInv, InFlight, HasNonce, Answered
<1>1. RelayerTypeOK'
  BY RelayTypeStep
<1>2. ASSUME NEW s \in Relays, NEW m \in Hubs, BeginRelay(s, m) PROVE NonceInv'
  <2>1. /\ relays[s].at = "idle" /\ pool' = pool
        /\ relays'[s].at \in {"failed", "nonce"} /\ relays'[s].hub = m
        /\ \A t \in Relays \ {s} : relays'[t] = relays[t]
    BY <1>2 DEF BeginRelay, RelayerTypeOK
  <2>2. \/ relays'[s].at = "failed" /\ nonceLock' = nonceLock
        \/ nonceLock[m] = "nobody" /\ nonceLock' = [nonceLock EXCEPT ![m] = s]
    BY <1>2 DEF BeginRelay, Lock, RelayerTypeOK
  <2>3. ASSUME NEW t \in Relays PROVE InFlight(t)' => nonceLock'[relays'[t].hub] = t
    <3>1. CASE t = s
      BY <2>1, <2>2, <3>1 DEF RelayerTypeOK
    <3>2. CASE t # s
      <4>1. relays'[t] = relays[t] /\ relays[t].hub \in Hubs
        BY <2>1, <3>2 DEF RelayerTypeOK
      <4>2. ASSUME InFlight(t) PROVE nonceLock[relays[t].hub] = t /\ t # "nobody"
        BY <4>2, RelayerAssumption
      <4>3. InFlight(t) => nonceLock'[relays[t].hub] = nonceLock[relays[t].hub]
        BY <2>2, <4>1, <4>2 DEF RelayerTypeOK
      <4> QED BY <4>1, <4>2, <4>3
    <3> QED BY <3>1, <3>2
  <2> QED BY <1>1, <2>1, <2>3
<1>3. ASSUME NEW s \in Relays, GetNonce(s) PROVE NonceInv'
  BY <1>1, <1>3, OthersKeep DEF GetNonce, Pending, RelayerTypeOK
<1>4. ASSUME NEW s \in Relays, GetGas(s) \/ KmsSign(s) PROVE NonceInv'
  BY <1>1, <1>4, OthersKeep DEF GetGas, KmsSign, Move, RelayerTypeOK
<1>5. ASSUME NEW s \in Relays, FailRelay(s) PROVE NonceInv'
  BY <1>1, <1>5, OthersKeep DEF FailRelay, Return, Move, RelayerTypeOK
<1>6. ASSUME NEW s \in Relays, SendRaw(s) PROVE NonceInv'
  <2>1. \A n \in Nonce : pool[n] # Empty => pool'[n] # Empty
    BY <1>6, EnterTyped DEF SendRaw
  <2>2. PICK answer \in {"sent", "failed"} :
            Return(s, answer) /\ (answer = "sent" => Enter(s))
    BY <1>6 DEF SendRaw
  <2>3. Answered(s)' => pool'[relays'[s].nonce] # Empty
    BY <2>2, EnterTyped DEF Return, Move, RelayerTypeOK
  <2> QED BY <1>1, <1>6, <2>1, <2>2, <2>3, OthersKeep DEF SendRaw, Return, Move, RelayerTypeOK
<1>7. ASSUME NEW s \in Relays, ArriveLate(s) PROVE NonceInv'
  <2>1. \A n \in Nonce : pool[n] # Empty => pool'[n] # Empty
    BY <1>7, EnterTyped DEF ArriveLate
  <2>2. UNCHANGED <<relays, nonceLock>>
    BY <1>7 DEF ArriveLate
  <2>3. \A t \in Relays : relays[t].nonce \in Nonce
    BY DEF RelayerTypeOK
  <2> QED BY <1>1, <2>1, <2>2, <2>3
<1>8. CASE UNCHANGED <<relays, nonceLock, pool>>
  BY <1>1, <1>8
<1> QED BY <1>2, <1>3, <1>4, <1>5, <1>6, <1>7, <1>8 DEF RelayerNext, Boot, Mine, relayVars

\* Two submissions that a machine answers with a transaction hash never have one
\* nonce, however many are sent, lost or late (x402_relayer_aws_kms.rs:632).
THEOREM ReceiptsDistinctSafety == RelayerSpec => []ReceiptsDistinct
<1>1. RelayerInit => NonceInv
  BY RelayTypeStart
  DEF RelayerInit, NewRelay, NonceInv, InFlight, HasNonce, Answered
<1>2. NonceInv /\ [RelayerNext]_relayVars => NonceInv'
  BY NonceStep
<1>3. NonceInv => ReceiptsDistinct
  BY DEF NonceInv, ReceiptsDistinct, Answered
<1> QED BY <1>1, <1>2, <1>3, PTL DEF RelayerSpec

(***************************************************************************)
(* Feature flags                                                           *)
(***************************************************************************)
LEMMA FlagTypeStep ==
    ASSUME FlagTypeOK, [FlagNext]_flagVars
    PROVE  FlagTypeOK'
<1> USE DEF FlagTypeOK, Values
<1>1. ASSUME NEW g \in Gates, BeginGate(g) \/ Peek(g) \/ Query(g) \/ Write(g)
      PROVE  FlagTypeOK'
  BY <1>1 DEF BeginGate, Peek, Query, Write
<1>2. ASSUME NEW v \in Values, Switch(v) PROVE FlagTypeOK'
  BY <1>2 DEF Switch
<1>3. CASE Beat
  BY <1>3, FlagAssumption DEF Beat
<1>4. CASE UNCHANGED flagVars
  BY <1>4 DEF flagVars
<1> QED BY <1>1, <1>2, <1>3, <1>4 DEF FlagNext

\* The row has its value now; what the cache holds the row said when it was
\* fetched or later; so did it what a refresh is about to write.
FreshInv ==
    /\ lastSeen[flag] = beat
    /\ \A v \in Values : lastSeen[v] <= beat
    /\ fetchedAt >= 0 => lastSeen[cached] >= fetchedAt
    /\ \A g \in Gates :
        /\ gates[g].now <= beat
        /\ gates[g].at = "write" => lastSeen[gates[g].value] >= gates[g].now
    /\ FreshEnough

LEMMA FreshStep ==
    ASSUME FlagTypeOK, FreshInv, [FlagNext]_flagVars
    PROVE  FreshInv'
<1> USE FlagAssumption DEF FlagTypeOK, FreshInv, FreshEnough, Values
<1>1. ASSUME NEW g \in Gates, BeginGate(g) PROVE FreshInv'
  BY <1>1 DEF BeginGate
<1>2. ASSUME NEW g \in Gates, Peek(g) PROVE FreshInv'
  <2>1. CASE Young(g)
    BY <1>2, <2>1 DEF Peek, Young
  <2>2. CASE ~Young(g)
    BY <1>2, <2>2 DEF Peek
  <2> QED BY <2>1, <2>2
<1>3. ASSUME NEW g \in Gates, Query(g) PROVE FreshInv'
  BY <1>3 DEF Query
<1>4. ASSUME NEW g \in Gates, Write(g) PROVE FreshInv'
  <2>1. /\ gates[g].at = "write" /\ gates[g].now \in Nat /\ gates[g].value \in Values
        /\ lastSeen[gates[g].value] \in Int /\ lastSeen[gates[g].value] >= gates[g].now
    BY <1>4 DEF Write
  <2>2. UNCHANGED <<beat, flag, lastSeen>> /\ cached' = gates[g].value /\ fetchedAt' = gates[g].now
    BY <1>4 DEF Write
  <2>3. ASSUME NEW h \in Gates
        PROVE  /\ gates'[h].now = gates[h].now /\ gates'[h].value = gates[h].value
               /\ gates'[h].at = IF h = g THEN "told" ELSE gates[h].at
    BY <1>4, <2>3 DEF Write
  <2>4. ASSUME NEW h \in Gates, gates'[h].at = "told"
        PROVE  lastSeen[gates[h].value] >= 0 /\ lastSeen[gates[h].value] > gates[h].now - FlagTtl
    <3>1. CASE h = g
      BY <2>1, <3>1
    <3>2. CASE h # g
      BY <2>3, <2>4, <3>2
    <3> QED BY <3>1, <3>2
  <2> QED BY <1>4, <2>1, <2>2, <2>3, <2>4 DEF Write
<1>5. ASSUME NEW v \in Values, Switch(v) PROVE FreshInv'
  BY <1>5 DEF Switch
<1>6. CASE Beat
  BY <1>6 DEF Beat
<1>7. CASE UNCHANGED flagVars
  BY <1>7 DEF flagVars
<1> QED BY <1>1, <1>2, <1>3, <1>4, <1>5, <1>6, <1>7 DEF FlagNext

\* What is_enabled tells its caller from the cache or from the rows, the row did
\* say since a time to live before the call, however many refreshes overlap and
\* in whatever order they write (feature_flag.rs:52, 82).
THEOREM FreshEnoughSafety == FlagSpec => []FreshEnough
<1>1. FlagInit => FlagTypeOK /\ FreshInv
  BY FlagAssumption DEF FlagInit, FlagTypeOK, FreshInv, FreshEnough, Values
<1>2. FlagTypeOK /\ FreshInv /\ [FlagNext]_flagVars => FlagTypeOK' /\ FreshInv'
  BY FlagTypeStep, FreshStep
<1>3. FreshInv => FreshEnough
  BY DEF FreshInv
<1> QED BY <1>1, <1>2, <1>3, PTL DEF FlagSpec

(***************************************************************************)
(* Subscriptions                                                           *)
(***************************************************************************)
\* A row keeps the secret of the POST that named it.
OwnSecret ==
    \A row \in subscriptions : \E c, who, url, status :
        row = [id |-> c, who |-> who, url |-> url, status |-> status, secret |-> c]

\* Who was told of a subscription by the POST that made it was told the secret
\* that is in its row, through every later POST, PATCH, deletion and lost answer
\* (routes/subscriptions.rs:138).
THEOREM SecretSafety == SubscriptionSpec => []SecretWasTold
<1>1. SubscriptionInit => OwnSecret
  BY DEF SubscriptionInit, OwnSecret
<1>2. OwnSecret /\ [SubscriptionNext]_subVars => OwnSecret'
  <2> SUFFICES ASSUME OwnSecret, [SubscriptionNext]_subVars PROVE OwnSecret'
    OBVIOUS
  <2>1. ASSUME NEW c \in Requests, CreateSubscription(c) PROVE OwnSecret'
    BY <2>1 DEF OwnSecret, CreateSubscription, Upsert, Keeps, Same
  <2>2. ASSUME NEW c \in Requests, UpdateSubscription(c) PROVE OwnSecret'
    <3>1. CASE UNCHANGED subscriptions
      BY <3>1 DEF OwnSecret
    <3>2. ASSUME NEW row \in subscriptions, NEW url, NEW status,
                 subscriptions' = (subscriptions \ {row}) \union
                     {[row EXCEPT !.url = url, !.status = status]}
          PROVE  OwnSecret'
      <4>1. PICK d, who, u, s :
                row = [id |-> d, who |-> who, url |-> u, status |-> s, secret |-> d]
        BY DEF OwnSecret
      <4> DEFINE half == [id |-> d, who |-> who, url |-> url, status |-> s, secret |-> d]
                 new == [id |-> d, who |-> who, url |-> url, status |-> status, secret |-> d]
      <4>2. [row EXCEPT !.url = url] = half
        BY <4>1
      <4>3. [half EXCEPT !.status = status] = new
        OBVIOUS
      <4>4. [row EXCEPT !.url = url, !.status = status] = [[row EXCEPT !.url = url] EXCEPT !.status = status]
        BY <4>1
      <4>5. subscriptions' = (subscriptions \ {row}) \union {new}
        BY <3>2, <4>2, <4>3, <4>4
      <4> QED BY <4>5 DEF OwnSecret
    <3> QED BY <2>2, <3>1, <3>2 DEF UpdateSubscription
  <2>3. ASSUME NEW c \in Requests, DeleteSubscription(c) PROVE OwnSecret'
    BY <2>3 DEF OwnSecret, DeleteSubscription, Keeps
  <2>4. ASSUME NEW c \in Requests,
               BeginCall(c) \/ CheckOwner(c) \/ RefuseUpdate(c) \/ TestSubscription(c)
        PROVE  UNCHANGED subscriptions
    BY <2>4 DEF BeginCall, CheckOwner, RefuseUpdate, TestSubscription
  <2> QED BY <2>1, <2>2, <2>3, <2>4 DEF SubscriptionNext, subVars, OwnSecret
<1>3. OwnSecret => SecretWasTold
  BY DEF OwnSecret, SecretWasTold
<1> QED BY <1>1, <1>2, <1>3, PTL DEF SubscriptionSpec

\* Every set of numbers that is not empty has a least one.
LEMMA Least ==
    ASSUME NEW S \in SUBSET Nat, S # {}
    PROVE  \E m \in S : \A k \in S : m <= k
<1> DEFINE R == OpToRel(<, Nat)
<1>1. IsWellFoundedOn(R, Nat)
  BY NatLessThanWellFounded
<1>2. \A x, y \in Nat : x < y => <<x, y>> \in R
  BY DEF OpToRel
<1> HIDE DEF R
<1>3. \E x \in S : \A y \in S : ~ (<<y, x>> \in R)
  BY <1>1, WFMin
<1>4. PICK x \in S : \A y \in S : ~ (<<y, x>> \in R)
  BY <1>3
<1>5. ASSUME NEW y \in S PROVE x <= y
  <2>1. x \in Nat /\ y \in Nat
    OBVIOUS
  <2>2. ~ (y < x)
    BY <1>2, <1>4, <2>1
  <2> QED BY <2>1, <2>2
<1> QED BY <1>5

(***************************************************************************)
(* SnsEngine                                                               *)
(***************************************************************************)
LEMMA ToTyped ==
    ASSUME NEW r \in EngineCall, NEW at \in {"request", "store"}, NEW p \in 0 .. MaxPosts
    PROVE  /\ Turned(r, at, p) \in EngineCall
           /\ Turned(r, at, p).deed = r.deed /\ Turned(r, at, p).told = r.told
           /\ Turned(r, at, p).previous = r.previous
           /\ Turned(r, at, p).at = at /\ Turned(r, at, p).place = p
<1> USE EngineAssumption
<1> DEFINE moved == [r EXCEPT !.at = at]
           placed == [moved EXCEPT !.place = p]
<1>1. /\ moved \in EngineCall /\ moved.deed = r.deed /\ moved.told = r.told
      /\ moved.previous = r.previous /\ moved.at = at
  BY DEF EngineCall
<1> HIDE DEF moved
<1>2. /\ placed \in EngineCall /\ placed.deed = r.deed /\ placed.told = r.told
      /\ placed.previous = r.previous /\ placed.at = at /\ placed.place = p
  BY <1>1 DEF EngineCall
<1> HIDE DEF placed
<1>3. Turned(r, at, p) = [placed EXCEPT !.attempt = 1]
  BY DEF Turned, placed, moved
<1> QED BY <1>2, <1>3 DEF EngineCall

LEMMA StoreTyped ==
    ASSUME NEW r \in EngineCall
    PROVE  /\ ToStore(r) \in EngineCall /\ ToStore(r).deed = r.deed /\ ToStore(r).told = r.told
           /\ ToStore(r).previous = r.previous /\ ToStore(r).at = "store"
<1>1. "store" \in {"request", "store"} /\ 0 \in 0 .. MaxPosts
  BY EngineAssumption
<1> QED BY <1>1, ToTyped DEF ToStore

\* The call goes to the store, or to a place that is still to be sent.
LEMMA OnwardMoves ==
    ASSUME NEW r \in EngineCall, NEW p \in 0 .. MaxPosts
    PROVE  /\ Onward(r, p) \in EngineCall
           /\ Onward(r, p).deed = r.deed /\ Onward(r, p).told = r.told
           /\ Onward(r, p).previous = r.previous
           /\ \/ Onward(r, p).at = "store"
              \/ Onward(r, p).at = "request" /\ Onward(r, p).place \in Places /\ Onward(r, p).place > p
<1> USE EngineAssumption
<1>1. CASE Left(r, p) = {}
  BY <1>1, StoreTyped DEF Onward
<1>2. CASE Left(r, p) # {}
  <2> DEFINE next == CHOOSE q \in Left(r, p) : \A k \in Left(r, p) : q <= k
  <2>1. Left(r, p) \subseteq Nat
    BY DEF Left
  <2>2. next \in Left(r, p)
    BY <1>2, <2>1, Least
  <2>3. next \in Places /\ next > p
    BY <2>2 DEF Left, Places, EngineCall
  <2>4. Onward(r, p) = Turned(r, "request", next)
    BY <1>2 DEF Onward
  <2> HIDE DEF next
  <2>5. "request" \in {"request", "store"} /\ next \in 0 .. MaxPosts
    BY <2>3 DEF Places
  <2> DEFINE sent == Turned(r, "request", next)
  <2>6. /\ sent \in EngineCall /\ sent.deed = r.deed /\ sent.told = r.told
        /\ sent.previous = r.previous /\ sent.at = "request" /\ sent.place = next
    BY <2>5, ToTyped
  <2> HIDE DEF sent
  <2>7. Onward(r, p) = sent
    BY <2>4 DEF sent
  <2> QED BY <2>3, <2>6, <2>7
<1> QED BY <1>1, <1>2

LEMMA WritingMoves ==
    ASSUME NEW r \in EngineCall
    PROVE  /\ AfterWriting(r) \in EngineCall
           /\ AfterWriting(r).deed = r.deed /\ AfterWriting(r).told = r.told
           /\ AfterWriting(r).previous = r.previous
           /\ \/ AfterWriting(r).at \in {"store", "failed"}
              \/ /\ AfterWriting(r).at = "request" /\ AfterWriting(r).place \in Places
                 /\ r.deed # "analyze"
<1> USE EngineAssumption
<1>1. CASE r.deed = "ab-test" /\ r.written = 0
  BY <1>1 DEF AfterWriting, EngineCall
<1>2. CASE r.deed = "analyze"
  BY <1>2, StoreTyped DEF AfterWriting
<1>3. CASE ~ (r.deed = "ab-test" /\ r.written = 0) /\ r.deed # "analyze"
  <2>1. AfterWriting(r) = Onward(r, 0)
    BY <1>3 DEF AfterWriting
  <2> QED BY <1>3, <2>1, OnwardMoves
<1> QED BY <1>1, <1>2, <1>3

\* What the handler makes of an answer: the place is told it, the call goes on
\* and never fails, and the next post of a thread replies to one that was posted.
LEMMA AnswerMoves ==
    ASSUME NEW r \in EngineCall, r.place \in Places, NEW answer \in Answers,
           platform \in Seq(Post)
    PROVE  /\ After(r, answer) \in EngineCall
           /\ After(r, answer).deed = r.deed
           /\ r.deed # "trend" => After(r, answer).told = [r.told EXCEPT ![r.place] = answer]
           /\ \A q \in Places : q # r.place => After(r, answer).told[q] = r.told[q]
           /\ r.deed = "thread" => After(r, answer).previous = Previous(r, answer)
           /\ \/ After(r, answer).at = "store"
              \/ /\ After(r, answer).at = "request" /\ After(r, answer).place \in Places
                 /\ After(r, answer).place > r.place
<1> USE EngineAssumption
<1>0. Len(platform) + 1 \in Nat
  OBVIOUS
<1>1. CASE r.deed = "thread"
  <2> DEFINE told == [Told(r, Posted(answer)) EXCEPT !.previous = Previous(r, answer)]
  <2>1. /\ told \in EngineCall /\ told.deed = r.deed /\ told.place = r.place
        /\ told.told = [r.told EXCEPT ![r.place] = answer]
        /\ told.previous = Previous(r, answer)
    BY <1>0 DEF EngineCall, Told, Posted, Previous
  <2>2. After(r, answer) = IF answer = "error" THEN ToStore(told) ELSE Onward(told, told.place)
    BY <1>1, <2>1 DEF After, AfterThreadPost
  <2> HIDE DEF told
  <2>3. told.place \in 0 .. MaxPosts
    BY <2>1 DEF EngineCall
  <2>5. r.told \in [Places -> Answers \union {"nothing"}]
    BY DEF EngineCall
  <2> DEFINE on == Onward(told, told.place)
             kept == ToStore(told)
  <2>6. /\ on \in EngineCall /\ on.deed = told.deed /\ on.told = told.told
        /\ on.previous = told.previous
        /\ \/ on.at = "store"
           \/ on.at = "request" /\ on.place \in Places /\ on.place > told.place
    BY <2>1, <2>3, OnwardMoves
  <2>4. /\ kept \in EngineCall /\ kept.deed = told.deed /\ kept.told = told.told
        /\ kept.previous = told.previous /\ kept.at = "store"
    BY <2>1, StoreTyped
  <2>7. After(r, answer) = on \/ After(r, answer) = kept
    BY <2>2
  <2> HIDE DEF on, kept
  <2> QED BY <1>1, <2>1, <2>4, <2>5, <2>6, <2>7
<1>2. CASE r.deed = "trend"
  <2> DEFINE told == Told(r, PostedAnyway(answer))
  <2>1. /\ told \in EngineCall /\ told.deed = r.deed
        /\ \A q \in Places : q # r.place => told.told[q] = r.told[q]
    BY DEF EngineCall, Told, PostedAnyway, Answers, Success
  <2>2. After(r, answer) = ToStore(told)
    BY <1>2 DEF After, AfterPulse
  <2> HIDE DEF told
  <2> QED BY <1>2, <2>1, <2>2, StoreTyped
<1>3. CASE r.deed \notin {"thread", "trend"}
  <2> DEFINE told == Told(r, answer)
  <2>1. /\ told \in EngineCall /\ told.deed = r.deed /\ told.place = r.place
        /\ told.told = [r.told EXCEPT ![r.place] = answer]
    BY DEF EngineCall, Told
  <2>2. After(r, answer) = Onward(told, told.place)
    BY <1>3, <2>1 DEF After, AfterScheduled
  <2> HIDE DEF told
  <2>3. told.place \in 0 .. MaxPosts
    BY <2>1 DEF EngineCall
  <2>5. r.told \in [Places -> Answers \union {"nothing"}]
    BY DEF EngineCall
  <2> DEFINE on == Onward(told, told.place)
  <2>6. /\ on \in EngineCall /\ on.deed = told.deed /\ on.told = told.told
        /\ \/ on.at = "store"
           \/ on.at = "request" /\ on.place \in Places /\ on.place > told.place
    BY <2>1, <2>3, OnwardMoves
  <2>7. After(r, answer) = on
    BY <2>2
  <2> HIDE DEF on
  <2> QED BY <1>3, <2>1, <2>5, <2>6, <2>7
<1> QED BY <1>1, <1>2, <1>3

(***************************************************************************)
(* SnsEngine: what a call has done at each stage                           *)
(***************************************************************************)
Untouched(c) ==
    /\ c \notin stored /\ engine[c].previous = 0
    /\ \A i \in DOMAIN platform : platform[i].call # c
    /\ \A p \in Places :
           <<c, p>> \notin scheduled /\ lost[c][p] = 0 /\ engine[c].told[p] = "nothing"

\* Before its first request, and so when it fails, a call has left no trace;
\* while it sends, nothing is told or published from the places ahead.
EngineStage ==
    \A c \in EngineCalls :
        /\ engine[c].at \in {"idle", "write", "failed"} => Untouched(c)
        /\ engine[c].at = "request" =>
            /\ engine[c].deed # "analyze" /\ engine[c].place \in Places
            /\ \A q \in Places : q >= engine[c].place => engine[c].told[q] = "nothing"
            /\ \A i \in DOMAIN platform :
                   platform[i].call = c => platform[i].place <= engine[c].place

\* The part of PostsAccounted about the posts.
Accounted ==
    \A c \in EngineCalls, p \in Places :
        /\ engine[c].deed = "thread" =>
               Copies(c, p) = lost[c][p] + IF engine[c].told[p] \in Success THEN 1 ELSE 0
        /\ engine[c].deed \in Scheduled =>
               (<<c, p>> \in scheduled <=> engine[c].told[p] \in Success \/ lost[c][p] > 0)

\* Every success with an id was followed by one without.
Unlinked(told) ==
    \A q \in Places : told[q] = "yes" => \E u \in Places : u > q /\ told[u] = "unnamed"

\* `previous` is the index of the last post that was reported, if it had an id.
LastReported ==
    \A c \in EngineCalls : engine[c].deed = "thread" =>
        IF engine[c].previous = 0 THEN Unlinked(engine[c].told)
        ELSE /\ engine[c].previous \in DOMAIN platform
             /\ platform[engine[c].previous].call = c
             /\ engine[c].told[platform[engine[c].previous].place] = "yes"
             /\ \A q \in Places : engine[c].told[q] \in Success => q <= platform[engine[c].previous].place

Replies ==
    \A i \in DOMAIN platform : engine[platform[i].call].deed = "thread" =>
        platform[i].reply \in DOMAIN platform \union {0}

EngineInv ==
    EngineTypeOK /\ EngineStage /\ Accounted /\ LastReported /\ Replies /\ ThreadChained

LEMMA CopiesNatural ==
    ASSUME platform \in Seq(Post), NEW c, NEW p
    PROVE  Copies(c, p) \in Nat
<1>1. IsFiniteSet(DOMAIN platform)
  <2>1. DOMAIN platform = 1 .. Len(platform) /\ Len(platform) \in Nat
    OBVIOUS
  <2> QED BY <2>1, FS_Interval
<1> QED BY <1>1, FS_Subset, FS_CardinalityType DEF Copies

\* A post that is published is one more copy of its own place.
LEMMA CopiesAppend ==
    ASSUME platform \in Seq(Post), NEW post \in Post, platform' = Append(platform, post),
           NEW c, NEW p
    PROVE  /\ Copies(c, p)' = Copies(c, p) + (IF post.call = c /\ post.place = p THEN 1 ELSE 0)
<1> DEFINE Has(s) == {i \in DOMAIN s : s[i].call = c /\ s[i].place = p}
           n == Len(platform) + 1
<1>1. /\ n \notin DOMAIN platform /\ DOMAIN platform' = DOMAIN platform \union {n}
      /\ platform'[n] = post /\ \A i \in DOMAIN platform : platform'[i] = platform[i]
  OBVIOUS
<1>2. Has(platform') = IF post.call = c /\ post.place = p THEN Has(platform) \union {n} ELSE Has(platform)
  BY <1>1
<1>3. IsFiniteSet(Has(platform)) /\ n \notin Has(platform)
  <2>1. DOMAIN platform = 1 .. Len(platform) /\ Len(platform) \in Nat
    OBVIOUS
  <2>2. IsFiniteSet(DOMAIN platform)
    BY <2>1, FS_Interval
  <2> QED BY <2>2, <1>1, FS_Subset
<1>4. Copies(c, p) = Cardinality(Has(platform)) /\ Copies(c, p)' = Cardinality(Has(platform'))
  BY DEF Copies
<1> HIDE DEF Has, n
<1>5. Cardinality(Has(platform)) \in Nat
  BY <1>3, FS_CardinalityType
<1>6. Cardinality(Has(platform) \union {n}) = Cardinality(Has(platform)) + 1
  BY <1>3, FS_AddElement
<1> QED BY <1>2, <1>4, <1>5, <1>6

\* A step of call c that sends nothing.
LEMMA QuietStep ==
    ASSUME EngineInv, NEW c \in EngineCalls, NEW r \in EngineCall, Set(c, r),
           r.deed = engine[c].deed, r.told = engine[c].told, r.previous = engine[c].previous,
           UNCHANGED <<platform, scheduled, lost>>,
           stored' = stored \/ (stored' = stored \union {c} /\ r.at = "done"),
           r.at \in {"idle", "write", "failed"} => engine[c].at \in {"idle", "write"},
           r.at = "request" => /\ engine[c].at = "write" /\ r.place \in Places
                               /\ r.deed # "analyze"
    PROVE  EngineInv'
<1> USE DEF EngineInv, EngineTypeOK, Set
<1>1. /\ engine'[c] = r /\ \A d \in EngineCalls : d # c => engine'[d] = engine[d]
      /\ engine' \in [EngineCalls -> EngineCall]
  OBVIOUS
<1>2. \A d \in EngineCalls : /\ engine'[d].deed = engine[d].deed
                             /\ engine'[d].told = engine[d].told
                             /\ engine'[d].previous = engine[d].previous
  BY <1>1
<1>3. EngineTypeOK'
  BY <1>1
<1>4. EngineStage'
  <2> SUFFICES ASSUME NEW d \in EngineCalls
               PROVE  EngineStage!(d)'
    BY DEF EngineStage
  <2>1. CASE d # c
    BY <1>1, <2>1 DEF EngineStage, Untouched
  <2>2. CASE d = c /\ r.at \in {"idle", "write", "failed"}
    BY <1>1, <2>2 DEF EngineStage, Untouched
  <2>3. CASE d = c /\ r.at = "request"
    <3>1. Untouched(c)
      BY <2>3 DEF EngineStage
    <3> QED BY <1>1, <2>3, <3>1 DEF Untouched
  <2> QED BY <1>1, <2>1, <2>2, <2>3
<1>5. \A d, p : Copies(d, p)' = Copies(d, p)
  BY DEF Copies
<1> HIDE DEF Set
<1>6. Accounted'
  <2> SUFFICES ASSUME NEW d \in EngineCalls, NEW p \in Places
               PROVE  Accounted!(d, p)'
    BY Zenon DEF Accounted
  <2>1. Accounted!(d, p)
    BY DEF Accounted
  <2> QED BY <1>2, <1>5, <2>1
<1>7. LastReported'
  <2> SUFFICES ASSUME NEW d \in EngineCalls
               PROVE  LastReported!(d)'
    BY DEF LastReported
  <2>1. LastReported!(d)
    BY DEF LastReported
  <2> QED BY <1>2, <2>1
<1>8. Replies'
  <2>1. \A i \in DOMAIN platform : platform[i].call \in EngineCalls
    <3>1. \A i \in DOMAIN platform : platform[i] \in Post
      OBVIOUS
    <3> QED BY <3>1 DEF Post
  <2> QED BY <1>2, <2>1 DEF Replies
<1>9. ThreadChained'
  <2>1. \A d, p : Reported(d, p)' = {q \in Places : q < p /\ engine'[d].told[q] \in Success}
    BY DEF Reported
  <2>2. \A d \in EngineCalls : \A p : Reported(d, p)' = Reported(d, p)
    BY <1>2, <2>1 DEF Reported
  <2>3. \A i \in DOMAIN platform : platform[i].call \in EngineCalls
    <3>1. \A i \in DOMAIN platform : platform[i] \in Post
      OBVIOUS
    <3> QED BY <3>1 DEF Post
  <2> SUFFICES ASSUME NEW i \in DOMAIN platform
               PROVE  ThreadChained!(i)'
    BY DEF ThreadChained
  <2>4. ThreadChained!(i)
    BY DEF ThreadChained
  <2>5. PICK d \in EngineCalls : d = platform[i].call
    BY <2>3
  <2>6. /\ platform'[i] = platform[i] /\ platform' = platform
        /\ engine'[d].deed = engine[d].deed /\ engine'[d].told = engine[d].told
        /\ Reported(d, platform[i].place)' = Reported(d, platform[i].place)
    BY <1>2, <2>2
  <2>7. Reported(platform[i].call, platform[i].place)' = Reported(d, platform[i].place)
    BY <2>5, <2>6 DEF Reported
  <2> QED BY <2>4, <2>5, <2>6, <2>7
<1> QED BY <1>3, <1>4, <1>6, <1>7, <1>8, <1>9

\* What one request does: it is performed or not, the call is told or tries
\* again, and exactly the performed requests without an answer are lost ones.
LEMMA RequestMoves ==
    ASSUME EngineInv, NEW c \in EngineCalls, NEW deed, RequestWithRetry(c, deed)
    PROVE  /\ engine[c].at = "request" /\ engine[c].place \in Places
           /\ engine[c].deed # "analyze" /\ engine[c].told[engine[c].place] = "nothing"
           /\ engine'[c] \in EngineCall /\ engine'[c].deed = engine[c].deed
           /\ engine' = [engine EXCEPT ![c] = engine'[c]]
           /\ \A q \in Places : q # engine[c].place => engine'[c].told[q] = engine[c].told[q]
           /\ \/ engine'[c].at = "store"
              \/ /\ engine'[c].at = "request" /\ engine'[c].place = engine[c].place
                 /\ engine'[c].told = engine[c].told
              \/ /\ engine'[c].at = "request" /\ engine'[c].place \in Places
                 /\ engine'[c].place > engine[c].place
           /\ engine[c].deed = "thread" =>
                  engine'[c].previous = Previous(engine[c], engine'[c].told[engine[c].place])
           /\ \/ /\ Perform(c, engine[c].place) /\ lost' = lost
                 /\ engine[c].deed # "trend" => engine'[c].told[engine[c].place] \in Success
              \/ /\ Perform(c, engine[c].place)
                 /\ lost' = [lost EXCEPT ![c][engine[c].place] = @ + 1]
                 /\ engine[c].deed # "trend" => engine'[c].told[engine[c].place] \notin Success
              \/ /\ Leave /\ lost' = lost
                 /\ engine[c].deed # "trend" => engine'[c].told[engine[c].place] \notin Success
           /\ stored' = stored
<1> DEFINE r == engine[c]
           n == r.place
           tried == [r EXCEPT !.attempt = @ + 1]
<1>1. /\ r \in EngineCall /\ r.at = "request" /\ n \in Places /\ r.deed # "analyze"
      /\ r.told[n] = "nothing" /\ platform \in Seq(Post)
  <2>1. n \in Nat => n >= n
    OBVIOUS
  <2> QED BY EngineAssumption, <2>1 DEF EngineInv, EngineTypeOK, EngineStage, RequestWithRetry, Places
<1>2. engine' = [engine EXCEPT ![c] = engine'[c]] /\ stored' = stored
  BY DEF RequestWithRetry, Set, EngineInv, EngineTypeOK
<1> DEFINE next == engine'[c]
           Moved ==
               /\ next \in EngineCall /\ next.deed = r.deed
               /\ \A q \in Places : q # n => next.told[q] = r.told[q]
               /\ \/ next.at = "store"
                  \/ next.at = "request" /\ next.place = n /\ next.told = r.told
                  \/ next.at = "request" /\ next.place \in Places /\ next.place > n
               /\ r.deed = "thread" =>
                      next.previous = Previous(r, next.told[n])
<1>3. ASSUME NEW answer \in Answers, Set(c, After(r, answer))
      PROVE  Moved /\ (r.deed # "trend" => next.told[n] = answer)
  <2> DEFINE after == After(r, answer)
  <2>1. next = after
    BY <1>3 DEF Set, EngineInv, EngineTypeOK
  <2>2. /\ after \in EngineCall /\ after.deed = r.deed
        /\ r.deed # "trend" => after.told = [r.told EXCEPT ![n] = answer]
        /\ \A q \in Places : q # n => after.told[q] = r.told[q]
        /\ r.deed = "thread" => after.previous = Previous(r, answer)
        /\ \/ after.at = "store"
           \/ after.at = "request" /\ after.place \in Places /\ after.place > n
    BY <1>1, AnswerMoves
  <2> HIDE DEF after
  <2>3. r.told \in [Places -> Answers \union {"nothing"}]
    BY <1>1 DEF EngineCall
  <2> HIDE DEF r, n, next
  <2>4. r.deed # "trend" => next.told[n] = answer
    BY <1>1, <2>1, <2>2, <2>3
  <2>5. r.deed = "thread" => next.told[n] = answer /\ next.previous = Previous(r, answer)
    BY <2>1, <2>2, <2>4
  <2> QED BY <2>1, <2>2, <2>4, <2>5
<1>4. ASSUME Set(c, tried), r.attempt < MaxRetries
      PROVE  Moved /\ next.told[n] \notin Success
  <2>1. next = tried
    BY <1>4 DEF Set, EngineInv, EngineTypeOK
  <2>2. /\ tried \in EngineCall /\ tried.deed = r.deed /\ tried.told = r.told /\ tried.at = r.at
        /\ tried.place = n /\ tried.previous = r.previous
    BY <1>1, <1>4, EngineAssumption DEF EngineCall
  <2>3. Previous(r, "nothing") = r.previous
    BY DEF Previous
  <2> HIDE DEF tried, r, n, next
  <2> QED BY <1>1, <2>1, <2>2, <2>3 DEF Success
<1>5. \/ /\ \E answer \in Success : Set(c, After(r, answer))
         /\ Perform(c, n) /\ lost' = lost
      \/ (Set(c, After(r, "no")) \/ Set(c, After(r, "error"))) /\ Leave /\ lost' = lost
      \/ /\ (Set(c, tried) /\ r.attempt < MaxRetries) \/ Set(c, After(r, "error"))
         /\ \/ Leave /\ lost' = lost
            \/ Perform(c, n) /\ lost' = [lost EXCEPT ![c][n] = @ + 1]
  BY DEF RequestWithRetry, Confirms, Success
<1>6. Moved
  <2>1. Success \subseteq Answers /\ {"no", "error"} \subseteq Answers
    BY DEF Answers
  <2> QED BY <1>3, <1>4, <1>5, <2>1
<1>7. \/ Perform(c, n) /\ lost' = lost /\ (r.deed # "trend" => next.told[n] \in Success)
      \/ /\ Perform(c, n) /\ lost' = [lost EXCEPT ![c][n] = @ + 1]
         /\ r.deed # "trend" => next.told[n] \notin Success
      \/ Leave /\ lost' = lost /\ (r.deed # "trend" => next.told[n] \notin Success)
  <2>1. \A answer \in Answers :
            Set(c, After(r, answer)) => (r.deed # "trend" => next.told[n] = answer)
    BY <1>3
  <2> HIDE DEF r, n, next, tried
  <2> QED BY <1>4, <1>5, <2>1 DEF Answers, Success
<1> QED BY <1>1, <1>2, <1>6, <1>7

LEMMA RequestStep ==
    ASSUME EngineInv, NEW c \in EngineCalls, NEW deed, RequestWithRetry(c, deed)
    PROVE  EngineInv'
<1> DEFINE r == engine[c]
           n == engine[c].place
           next == engine'[c]
           post == [call |-> c, place |-> n, reply |-> r.previous]
<1>1. /\ r.at = "request" /\ n \in Places /\ r.deed # "analyze" /\ r.told[n] = "nothing"
      /\ next \in EngineCall /\ next.deed = r.deed /\ engine' = [engine EXCEPT ![c] = next]
      /\ \A q \in Places : q # n => next.told[q] = r.told[q]
      /\ \/ next.at = "store"
         \/ next.at = "request" /\ next.place = n /\ next.told = r.told
         \/ next.at = "request" /\ next.place \in Places /\ next.place > n
      /\ r.deed = "thread" =>
             next.previous = Previous(r, next.told[n])
      /\ stored' = stored
  BY RequestMoves
<1>2. \/ Perform(c, n) /\ lost' = lost /\ (r.deed # "trend" => next.told[n] \in Success)
      \/ /\ Perform(c, n) /\ lost' = [lost EXCEPT ![c][n] = @ + 1]
         /\ r.deed # "trend" => next.told[n] \notin Success
      \/ Leave /\ lost' = lost /\ (r.deed # "trend" => next.told[n] \notin Success)
  BY RequestMoves
<1>3. /\ engine \in [EngineCalls -> EngineCall] /\ platform \in Seq(Post) /\ r \in EngineCall
      /\ scheduled \subseteq EngineCalls \X Places /\ stored \subseteq EngineCalls
      /\ lost \in [EngineCalls -> [Places -> Nat]]
  BY DEF EngineInv, EngineTypeOK
<1>4. post \in Post /\ post.call = c /\ post.place = n /\ post.reply = r.previous
  BY <1>1, <1>3 DEF EngineCall, Post
<1>5. /\ Leave => platform' = platform /\ scheduled' = scheduled
      /\ Perform(c, n) /\ r.deed \in Published =>
             platform' = Append(platform, post) /\ scheduled' = scheduled
      /\ Perform(c, n) /\ r.deed \notin Published =>
             platform' = platform /\ scheduled' = scheduled \union {<<c, n>>}
  BY DEF Perform, Leave
<1> HIDE DEF post
<1>6. \/ platform' = platform
      \/ platform' = Append(platform, post) /\ r.deed \in Published
  BY <1>2, <1>5
<1>7. /\ platform' \in Seq(Post) /\ DOMAIN platform \subseteq DOMAIN platform'
      /\ \A i \in DOMAIN platform : platform'[i] = platform[i]
      /\ \A i \in DOMAIN platform' : i \notin DOMAIN platform =>
             i = Len(platform) + 1 /\ platform'[i] = post
  <2>1. CASE platform' = platform
    BY <1>3, <2>1
  <2>2. CASE platform' = Append(platform, post)
    <3>1. platform' \in Seq(Post)
      BY <1>3, <1>4, <2>2
    <3>2. Len(platform') = Len(platform) + 1 /\ Len(platform) \in Nat
      BY <1>3, <2>2
    <3>3. DOMAIN platform' = 1 .. Len(platform') /\ DOMAIN platform = 1 .. Len(platform)
      BY <1>3, <3>1
    <3>4. \A i \in 1 .. Len(platform) + 1 :
              platform'[i] = IF i <= Len(platform) THEN platform[i] ELSE post
      BY <1>3, <2>2
    <3> QED BY <3>1, <3>2, <3>3, <3>4
  <2> QED BY <1>6, <2>1, <2>2
<1>8. engine'[c] = next /\ \A d \in EngineCalls : d # c => engine'[d] = engine[d]
  BY <1>1, <1>3
<1>9. /\ lost' \in [EngineCalls -> [Places -> Nat]]
      /\ \A d \in EngineCalls, p \in Places : d # c \/ p # n => lost'[d][p] = lost[d][p]
  <2>1. CASE lost' = lost
    BY <1>3, <2>1
  <2>2. CASE lost' = [lost EXCEPT ![c][n] = @ + 1]
    <3>1. lost[c] \in [Places -> Nat] /\ lost[c][n] + 1 \in Nat
      BY <1>1, <1>3
    <3>2. [lost[c] EXCEPT ![n] = @ + 1] \in [Places -> Nat]
      BY <3>1
    <3>3. lost' = [lost EXCEPT ![c] = [lost[c] EXCEPT ![n] = @ + 1]]
      BY <2>2
    <3> QED BY <1>3, <3>1, <3>2, <3>3
  <2> QED BY <1>2, <2>1, <2>2
<1>10. /\ scheduled' \subseteq EngineCalls \X Places
       /\ \A d, p : d # c \/ p # n => (<<d, p>> \in scheduled' <=> <<d, p>> \in scheduled)
  BY <1>1, <1>2, <1>3, <1>5
<1>0. \A i \in DOMAIN platform : platform[i].call \in EngineCalls /\ platform[i].place \in Places
  <2>1. \A i \in DOMAIN platform : platform[i] \in Post
    BY <1>3
  <2> QED BY <2>1 DEF Post
<1> HIDE DEF r, n, next
<1>11. EngineTypeOK'
  BY <1>1, <1>3, <1>7, <1>9, <1>10 DEF EngineTypeOK
<1>12. EngineStage'
  <2> SUFFICES ASSUME NEW d \in EngineCalls PROVE EngineStage!(d)'
    BY DEF EngineStage
  <2>0. EngineStage!(d)
    BY DEF EngineInv, EngineStage
  <2>1. CASE d # c
    <3>1. \A i \in DOMAIN platform' : platform'[i].call = d =>
              i \in DOMAIN platform /\ platform'[i] = platform[i]
      BY <1>4, <1>7, <2>1
    <3>2. Untouched(d) => Untouched(d)'
      BY <1>1, <1>8, <1>9, <1>10, <2>1, <3>1 DEF Untouched
    <3>3. engine'[d] = engine[d]
      BY <1>8, <2>1
    <3> QED BY <2>0, <3>1, <3>2, <3>3
  <2>2. CASE d = c
    <3>1. \A i \in DOMAIN platform' : platform'[i].call = c => platform'[i].place <= n
      <4>1. \A i \in DOMAIN platform : platform[i].call = c => platform[i].place <= n
        BY <1>1, <2>0, <2>2 DEF r, n
      <4> QED BY <1>1, <1>4, <1>7, <4>1 DEF Places
    <3>2. \A i \in DOMAIN platform' : platform'[i].place \in Places
      <4>1. \A i \in DOMAIN platform' : platform'[i] \in Post
        BY <1>7
      <4> QED BY <4>1 DEF Post
    <3>3. \A q \in Places : q >= n => r.told[q] = "nothing"
      BY <1>1, <2>0, <2>2 DEF r, n
    <3> QED BY <1>1, <1>8, <2>2, <3>1, <3>2, <3>3, EngineAssumption DEF Places
  <2> QED BY <2>1, <2>2
<1>13. Accounted'
  <2> SUFFICES ASSUME NEW d \in EngineCalls, NEW p \in Places PROVE Accounted!(d, p)'
    BY Zenon DEF Accounted
  <2>0. Accounted!(d, p)
    BY DEF EngineInv, Accounted
  <2>1. Copies(d, p) \in Nat /\ lost[d][p] \in Nat
    BY <1>3, CopiesNatural
  <2>2. platform' = platform => Copies(d, p)' = Copies(d, p)
    BY DEF Copies
  <2>3. platform' = Append(platform, post) =>
            Copies(d, p)' = Copies(d, p) + (IF c = d /\ n = p THEN 1 ELSE 0)
    BY <1>3, <1>4, CopiesAppend
  <2>4. CASE d # c \/ p # n
    <3>1. /\ Copies(d, p)' = Copies(d, p) /\ lost'[d][p] = lost[d][p]
          /\ <<d, p>> \in scheduled' <=> <<d, p>> \in scheduled
          /\ engine'[d].deed = engine[d].deed /\ engine'[d].told[p] = engine[d].told[p]
      BY <1>1, <1>6, <1>8, <1>9, <1>10, <2>1, <2>2, <2>3, <2>4 DEF r
    <3> QED BY <2>0, <3>1
  <2>5. CASE d = c /\ p = n
    <3>1. engine[d].told[p] = "nothing" /\ engine[d].deed = r.deed
      BY <1>1, <2>5 DEF r
    <3>2. lost' = [lost EXCEPT ![c][n] = @ + 1] => lost'[d][p] = lost[d][p] + 1
      BY <1>3, <2>5
    <3>3. CASE r.deed = "thread"
      <4>1. Copies(d, p) = lost[d][p]
        BY <2>0, <3>1, <3>3, <2>1 DEF Success
      <4>2. /\ Leave => platform' = platform
            /\ Perform(c, n) => platform' = Append(platform, post)
        BY <1>5, <3>3 DEF Published
      <4>3. Copies(d, p)' = lost'[d][p] + IF next.told[n] \in Success THEN 1 ELSE 0
        BY <1>2, <2>1, <2>2, <2>3, <2>5, <3>2, <3>3, <4>1, <4>2
      <4> QED BY <1>1, <1>8, <2>5, <3>3, <4>3 DEF Scheduled
    <3>4. CASE r.deed \in Scheduled
      <4>1. <<d, p>> \in scheduled <=> lost[d][p] > 0
        BY <2>0, <3>1, <3>4 DEF Success
      <4>2. /\ Leave => scheduled' = scheduled
            /\ Perform(c, n) => <<d, p>> \in scheduled'
        BY <1>5, <2>5, <3>4 DEF Published, Scheduled
      <4>3. r.deed \notin {"trend", "thread"}
        BY <3>4 DEF Scheduled
      <4>4. <<d, p>> \in scheduled' <=> next.told[n] \in Success \/ lost'[d][p] > 0
        BY <1>2, <2>1, <3>2, <4>1, <4>2, <4>3
      <4> QED BY <1>1, <1>8, <2>5, <4>3, <4>4
    <3> QED BY <1>1, <1>8, <2>5, <3>3, <3>4
  <2> QED BY <2>4, <2>5
<1>14. LastReported'
  <2> SUFFICES ASSUME NEW d \in EngineCalls, engine'[d].deed = "thread"
               PROVE  LastReported!(d)'
    BY DEF LastReported
  <2>0. LastReported!(d)
    BY DEF EngineInv, LastReported
  <2>1. CASE d # c \/ next.told[n] \notin Success
    <3>1. engine'[d].deed = engine[d].deed /\ engine'[d].previous = engine[d].previous
      BY <1>1, <1>8, <2>1 DEF r, Previous, Success
    <3>2. \A q \in Places, answer \in Success :
              engine'[d].told[q] = answer <=> engine[d].told[q] = answer
      BY <1>1, <1>8, <2>1 DEF r, Success
    <3>3. Unlinked(engine'[d].told) <=> Unlinked(engine[d].told)
      BY <3>2 DEF Unlinked, Success
    <3>4. \A q \in Places : engine'[d].told[q] \in Success <=> engine[d].told[q] \in Success
      BY <3>2
    <3>5. \A q \in Places : engine'[d].told[q] = "yes" <=> engine[d].told[q] = "yes"
      BY <3>2 DEF Success
    <3> QED BY <1>0, <1>7, <2>0, <3>1, <3>3, <3>4, <3>5
  <2>2. CASE d = c /\ next.told[n] \in Success
    <3>1. r.deed = "thread"
      BY <1>1, <1>8, <2>2
    <3>2. \A q \in Places : next.told[q] \in Success => q <= n
      <4>1. \A q \in Places : q >= n => r.told[q] = "nothing"
        BY <1>1 DEF r, n, EngineInv, EngineStage
      <4>2. \A q \in Places : q <= n \/ (q >= n /\ q # n)
        BY <1>1, EngineAssumption DEF Places
      <4> QED BY <1>1, <4>1, <4>2 DEF Success
    <3>3. CASE next.told[n] = "yes"
      <4>1. platform' = Append(platform, post)
        BY <1>2, <1>5, <2>2, <3>1 DEF Published
      <4>2. next.previous = Len(platform) + 1
        BY <1>1, <3>1, <3>3 DEF Previous
      <4>3. /\ next.previous # 0
            /\ next.previous \in DOMAIN platform' /\ platform'[next.previous] = post
        BY <1>1, <1>3, <1>4, <4>1, <4>2
      <4> QED BY <1>4, <1>8, <2>2, <3>2, <3>3, <4>3
    <3>4. CASE next.told[n] = "unnamed"
      <4>1. next.previous = 0
        BY <1>1, <3>1, <3>4 DEF Previous
      <4>2. \A q \in Places : next.told[q] = "yes" => n > q
        BY <1>1, <3>2, <3>4, EngineAssumption DEF Places, Success
      <4>3. Unlinked(next.told)
        BY <1>1, <3>4, <4>2 DEF Unlinked
      <4> QED BY <1>8, <2>2, <4>1, <4>3
    <3> QED BY <2>2, <3>3, <3>4 DEF Success
  <2> QED BY <2>1, <2>2
<1>15. Replies'
  <2> SUFFICES ASSUME NEW i \in DOMAIN platform' PROVE Replies!(i)'
    BY DEF Replies
  <2>1. CASE i \in DOMAIN platform
    <3>1. engine'[platform'[i].call].deed = engine[platform[i].call].deed
      BY <1>0, <1>1, <1>7, <1>8, <2>1 DEF r
    <3> QED BY <1>7, <2>1, <3>1 DEF EngineInv, Replies
  <2>2. CASE i \notin DOMAIN platform
    <3>1. r.deed = "thread" => r.previous \in DOMAIN platform \union {0}
      BY DEF r, EngineInv, LastReported
    <3> QED BY <1>1, <1>4, <1>7, <1>8, <2>2, <3>1
  <2> QED BY <2>1, <2>2
<1>16. ThreadChained'
  <2> SUFFICES ASSUME NEW i \in DOMAIN platform' PROVE ThreadChained!(i)'
    BY DEF ThreadChained
  <2>1. CASE i \in DOMAIN platform
    <3> DEFINE d == platform[i].call
               p == platform[i].place
    <3>1. ThreadChained!(i) /\ Replies!(i)
      BY <2>1 DEF EngineInv, ThreadChained, Replies
    <3>2. /\ d \in EngineCalls /\ p \in Places /\ platform'[i] = platform[i]
          /\ engine'[d].deed = engine[d].deed
      BY <1>0, <1>1, <1>7, <1>8, <2>1 DEF r
    <3>3. \A q \in Places : q < p => engine'[d].told[q] = engine[d].told[q]
      <4>1. CASE d # c
        BY <1>8, <3>2, <4>1
      <4>2. CASE d = c
        <5>1. p <= n
          BY <1>1, <2>1, <4>2 DEF EngineInv, EngineStage, r, n
        <5> QED BY <1>1, <1>8, <3>2, <4>2, <5>1, EngineAssumption DEF r, Places
      <4> QED BY <4>1, <4>2
    <3>4. {q \in Places : q < p /\ engine'[d].told[q] \in Success} = Reported(d, p)
      BY <3>3 DEF Reported
    <3>7. \A q \in Reported(d, p) : engine'[d].told[q] = engine[d].told[q]
      BY <3>3 DEF Reported
    <3>5. platform'[i].call = d /\ platform'[i].place = p
      BY <3>2
    <3>6. Reported(platform[i].call, platform[i].place)' = Reported(d, p)
      BY <3>4, <3>5 DEF Reported
    <3>8. engine[d].deed = "thread" /\ platform[i].reply # 0
              => platform'[platform[i].reply] = platform[platform[i].reply]
      BY <1>7, <2>1, <3>1, <3>2
    <3> HIDE DEF d, p
    <3> QED BY <3>1, <3>2, <3>5, <3>6, <3>7, <3>8 DEF d, p
  <2>2. CASE i \notin DOMAIN platform
    <3>1. platform'[i] = post
      BY <1>7, <2>2
    <3>2. /\ r.deed = "thread" =>
              IF r.previous = 0 THEN Unlinked(r.told)
              ELSE /\ r.previous \in DOMAIN platform /\ platform[r.previous].call = c
                   /\ r.told[platform[r.previous].place] = "yes"
                   /\ \A q \in Places : r.told[q] \in Success => q <= platform[r.previous].place
      BY DEF EngineInv, LastReported, r
    <3>3. \A q \in Places : q >= n => r.told[q] = "nothing"
      BY <1>1 DEF r, n, EngineInv, EngineStage
    <3>4. \A q \in Places : q < n => next.told[q] = r.told[q]
      BY <1>1, EngineAssumption DEF Places
    <3>5. \A q \in Places : r.told[q] \in Success => q < n
      BY <1>1, <3>3, EngineAssumption DEF Places, Success
    <3>6. Reported(platform[i].call, platform[i].place)' = {q \in Places : r.told[q] \in Success}
      <4>1. Reported(platform[i].call, platform[i].place)'
              = {q \in Places : q < n /\ next.told[q] \in Success}
        BY <1>4, <1>8, <3>1 DEF Reported
      <4> QED BY <3>4, <3>5, <4>1
    <3>7. \A q \in Places : r.told[q] \in Success => next.told[q] = r.told[q]
      BY <3>4, <3>5
    <3>8. r.deed = "thread" /\ r.previous = 0 =>
              \A q \in Places : r.told[q] \in Success /\ next.told[q] = "yes" =>
                  \E u \in Places : r.told[u] \in Success /\ u > q /\ next.told[u] = "unnamed"
      BY <3>2, <3>7 DEF Unlinked, Success
    <3> QED BY <1>0, <1>1, <1>4, <1>7, <1>8, <3>1, <3>2, <3>6, <3>7, <3>8 DEF Success
  <2> QED BY <2>1, <2>2
<1> QED BY <1>11, <1>12, <1>13, <1>14, <1>15, <1>16 DEF EngineInv

LEMMA NewCallTyped ==
    ASSUME NEW deed \in Deeds, NEW bridge \in BOOLEAN
    PROVE  NewCall(deed, bridge) \in EngineCall
<1>1. [p \in Places |-> "nothing"] \in [Places -> Answers \union {"nothing"}]
  OBVIOUS
<1> QED BY <1>1, EngineAssumption DEF NewCall, EngineCall

LEMMA EngineStart == EngineInit => EngineInv
<1> SUFFICES ASSUME EngineInit PROVE EngineInv
  OBVIOUS
<1>1. PICK deed \in [EngineCalls -> Deeds], bridge \in BOOLEAN :
          engine = [c \in EngineCalls |-> NewCall(deed[c], bridge)]
  BY DEF EngineInit
<1>2. platform = <<>> /\ scheduled = {} /\ stored = {} /\ lost = [c \in EngineCalls |-> [p \in Places |-> 0]]
  BY DEF EngineInit
<1>3. \A c \in EngineCalls : engine[c] \in EngineCall
  BY <1>1, NewCallTyped
<1>4. EngineTypeOK
  BY <1>1, <1>2, <1>3 DEF EngineTypeOK
<1>5. \A c \in EngineCalls :
          /\ engine[c].at = "idle" /\ engine[c].previous = 0
          /\ \A p \in Places : engine[c].told[p] = "nothing" /\ lost[c][p] = 0
  BY <1>1, <1>2 DEF NewCall
<1>6. \A c, p : Copies(c, p) = 0
  BY <1>2, FS_EmptySet DEF Copies
<1>7. EngineStage
  BY <1>2, <1>5 DEF EngineStage, Untouched
<1>8. Accounted
  BY <1>2, <1>5, <1>6 DEF Accounted, Success
<1> QED BY <1>2, <1>4, <1>5, <1>7, <1>8
      DEF EngineInv, LastReported, Unlinked, Replies, ThreadChained

LEMMA EngineStep ==
    ASSUME EngineInv, [EngineNext]_engineVars
    PROVE  EngineInv'
<1>0. engine \in [EngineCalls -> EngineCall] /\ stored \subseteq EngineCalls
  BY DEF EngineInv, EngineTypeOK
<1>1. ASSUME NEW c \in EngineCalls, NEW deeds, NEW there, there \subseteq {"write", "failed"},
             Begins(c, deeds, there)
      PROVE  EngineInv'
  <2>1. PICK at \in there : Set(c, [engine[c] EXCEPT !.at = at])
    BY <1>1 DEF Begins
  <2> DEFINE begun == [engine[c] EXCEPT !.at = at]
  <2>2. /\ begun \in EngineCall /\ begun.deed = engine[c].deed /\ begun.told = engine[c].told
        /\ begun.previous = engine[c].previous /\ begun.at \in {"write", "failed"}
    BY <1>0, <1>1, <2>1 DEF EngineCall
  <2>3. Set(c, begun)
    BY <2>1
  <2>4. /\ engine[c].at = "idle"
        /\ UNCHANGED <<platform, scheduled, lost>> /\ stored' = stored
    BY <1>1 DEF Begins, Outside
  <2> HIDE DEF begun
  <2> QED BY <2>2, <2>3, <2>4, QuietStep
<1>2. ASSUME NEW c \in EngineCalls, NEW deeds, NEW limit \in 0 .. MaxPosts, Writes(c, deeds, limit)
      PROVE  EngineInv'
  <2>1. PICK k \in 0 .. limit, texts \in SUBSET Places :
            Set(c, AfterWriting([engine[c] EXCEPT !.written = k, !.texts = texts \intersect 1 .. k]))
    BY <1>2 DEF Writes
  <2> DEFINE counted == [engine[c] EXCEPT !.written = k]
             written == [counted EXCEPT !.texts = texts \intersect 1 .. k]
             after == AfterWriting(written)
  <2>2. /\ counted \in EngineCall /\ counted.deed = engine[c].deed
        /\ counted.told = engine[c].told /\ counted.previous = engine[c].previous
    BY <1>0, <1>2, EngineAssumption DEF EngineCall
  <2>3. Set(c, after)
    BY <2>1
  <2> HIDE DEF counted
  <2>4. /\ written \in EngineCall /\ written.deed = engine[c].deed
        /\ written.told = engine[c].told /\ written.previous = engine[c].previous
    BY <2>2 DEF EngineCall
  <2> HIDE DEF written
  <2>5. /\ after \in EngineCall /\ after.deed = engine[c].deed /\ after.told = engine[c].told
        /\ after.previous = engine[c].previous
        /\ \/ after.at \in {"store", "failed"}
           \/ after.at = "request" /\ after.place \in Places /\ engine[c].deed # "analyze"
    BY <2>4, WritingMoves
  <2> HIDE DEF after
  <2>6. /\ engine[c].at = "write"
        /\ UNCHANGED <<platform, scheduled, lost>> /\ stored' = stored
    BY <1>2 DEF Writes, Outside
  <2> QED BY <2>3, <2>5, <2>6, QuietStep
<1>3. ASSUME NEW c \in EngineCalls, WriteCampaign(c) PROVE EngineInv'
  <2>0. /\ engine[c].at = "write" /\ engine[c].deed = "campaign"
        /\ UNCHANGED <<platform, scheduled, lost>> /\ stored' = stored
    BY <1>3 DEF WriteCampaign, Outside
  <2>1. CASE engine[c].written < MaxPosts /\ Set(c, [engine[c] EXCEPT !.written = @ + 1])
    <3> DEFINE more == [engine[c] EXCEPT !.written = @ + 1]
    <3>1. /\ more \in EngineCall /\ more.deed = engine[c].deed /\ more.told = engine[c].told
          /\ more.previous = engine[c].previous /\ more.at = engine[c].at
      BY <1>0, <2>1, EngineAssumption DEF EngineCall
    <3>2. Set(c, more)
      BY <2>1
    <3> HIDE DEF more
    <3> QED BY <2>0, <3>1, <3>2, QuietStep
  <2>2. CASE Set(c, Onward(engine[c], 0))
    <3> DEFINE on == Onward(engine[c], 0)
    <3>1. /\ on \in EngineCall /\ on.deed = engine[c].deed /\ on.told = engine[c].told
          /\ on.previous = engine[c].previous
          /\ on.at = "store" \/ (on.at = "request" /\ on.place \in Places)
      <4>1. engine[c] \in EngineCall /\ 0 \in 0 .. MaxPosts
        BY <1>0, EngineAssumption
      <4> QED BY <4>1, OnwardMoves
    <3>2. Set(c, on)
      BY <2>2
    <3> HIDE DEF on
    <3> QED BY <2>0, <3>1, <3>2, QuietStep
  <2> QED BY <1>3, <2>1, <2>2 DEF WriteCampaign
<1>4. ASSUME NEW c \in EngineCalls, LoseClaude(c) PROVE EngineInv'
  <2> DEFINE end == [engine[c] EXCEPT !.at = "failed"]
  <2>1. /\ end \in EngineCall /\ end.deed = engine[c].deed /\ end.told = engine[c].told
        /\ end.previous = engine[c].previous /\ end.at = "failed"
    BY <1>0 DEF EngineCall
  <2>2. Set(c, end)
    BY <1>4 DEF LoseClaude
  <2> HIDE DEF end
  <2>3. /\ engine[c].at = "write"
        /\ UNCHANGED <<platform, scheduled, lost>> /\ stored' = stored
    BY <1>4 DEF LoseClaude, Outside
  <2> QED BY <2>1, <2>2, <2>3, QuietStep
<1>5. ASSUME NEW c \in EngineCalls, NEW deeds, NEW kept, kept \in {{}, {c}}, Stores(c, deeds, kept)
      PROVE  EngineInv'
  <2> DEFINE end == [engine[c] EXCEPT !.at = "done"]
  <2>1. /\ end \in EngineCall /\ end.deed = engine[c].deed /\ end.told = engine[c].told
        /\ end.previous = engine[c].previous /\ end.at = "done"
    BY <1>0 DEF EngineCall
  <2>2. Set(c, end) /\ (stored' = stored \/ stored' = stored \union {c})
    BY <1>5 DEF Stores
  <2> HIDE DEF end
  <2> QED BY <1>5, <2>1, <2>2, QuietStep DEF Stores
<1>6. CASE UNCHANGED engineVars
  <2>1. UNCHANGED <<engine, platform, scheduled, stored, lost>>
    BY <1>6 DEF engineVars
  <2>2. EngineTypeOK' /\ EngineStage' /\ LastReported' /\ Replies'
    BY <2>1 DEF EngineInv, EngineTypeOK, EngineStage, Untouched, LastReported, Replies
  <2>3. Accounted'
    BY <2>1 DEF EngineInv, Accounted, Copies
  <2>4. ThreadChained'
    BY <2>1 DEF EngineInv, ThreadChained, Reported
  <2> QED BY <2>2, <2>3, <2>4 DEF EngineInv
<1>7. 1 \in 0 .. MaxPosts /\ 0 \in 0 .. MaxPosts /\ MaxPosts \in 0 .. MaxPosts
  BY EngineAssumption
<1>8. ASSUME NEW c \in EngineCalls,
             \/ BeginCampaign(c) \/ BeginThread(c) \/ BeginTest(c) \/ BeginPulse(c)
             \/ BeginAutopilot(c) \/ FetchMetrics(c)
      PROVE  EngineInv'
  BY <1>1, <1>8
  DEF BeginCampaign, BeginThread, BeginTest, BeginPulse, BeginAutopilot, FetchMetrics
<1>9. ASSUME NEW c \in EngineCalls,
             \/ WriteThread(c) \/ WritePulse(c) \/ WriteTomorrow(c) \/ WriteVariants(c)
             \/ Analyze(c)
      PROVE  EngineInv'
  BY <1>2, <1>7, <1>9 DEF WriteThread, WritePulse, WriteTomorrow, WriteVariants, Analyze
<1>10. ASSUME NEW c \in EngineCalls,
              \/ ScheduleCampaign(c) \/ PostThread(c) \/ ScheduleThread(c)
              \/ ScheduleVariants(c) \/ PostPulse(c) \/ ScheduleTomorrow(c)
       PROVE  EngineInv'
  BY <1>10, RequestStep
  DEF ScheduleCampaign, PostThread, ScheduleThread, ScheduleVariants, PostPulse, ScheduleTomorrow
<1>11. ASSUME NEW c \in EngineCalls,
              \/ StoreCampaign(c) \/ StoreTest(c) \/ StoreLearnings(c) \/ StoreSnapshots(c)
              \/ EndPosts(c)
       PROVE  EngineInv'
  BY <1>5, <1>11 DEF StoreCampaign, StoreTest, StoreLearnings, StoreSnapshots, EndPosts
<1> QED BY <1>3, <1>4, <1>6, <1>8, <1>9, <1>10, <1>11 DEF EngineNext

\* EngineInv holds in every reachable state.
THEOREM EngineInvariance == EngineSpec => []EngineInv
  BY EngineStart, EngineStep, PTL DEF EngineSpec

\* What a call reports is what happened but for answers that were lost, and a
\* call that failed left no trace, for any number of calls, posts and retries.
THEOREM PostsAccountedSafety == EngineSpec => []PostsAccounted
<1>1. EngineInv => PostsAccounted
  <2>1. ASSUME EngineStage, NEW c \in EngineCalls, NEW p \in Places, engine[c].at = "failed"
        PROVE  c \notin stored /\ Copies(c, p) = 0 /\ <<c, p>> \notin scheduled
    <3>1. Untouched(c)
      BY <2>1 DEF EngineStage
    <3>2. {i \in DOMAIN platform : platform[i].call = c /\ platform[i].place = p} = {}
      BY <3>1 DEF Untouched
    <3> QED BY <3>1, <3>2, FS_EmptySet DEF Untouched, Copies
  <2> QED BY <2>1 DEF EngineInv, Accounted, PostsAccounted
<1> QED BY <1>1, EngineInvariance, PTL

\* Every post of a thread replies to the last earlier one that was reported,
\* whatever was refused, repeated or lost, for any number of calls at once.
THEOREM ThreadChainedSafety == EngineSpec => []ThreadChained
<1>1. EngineInv => ThreadChained
  BY DEF EngineInv
<1> QED BY <1>1, EngineInvariance, PTL

(***************************************************************************)
(* ReplayCache: a nonce is accepted once                                   *)
(*                                                                         *)
(* An entry of the list is followed by no more entries than messages were  *)
(* accepted after its own.  So while fewer than Capacity of them were, it  *)
(* is not the first of a full list, and only its age can take it away.     *)
(***************************************************************************)
Remembered(i) ==
    \E p \in DOMAIN entries : entries[p] = accepted[i] /\ Len(entries) - p <= Len(accepted) - i

RecentRemembered ==
    \A i \in DOMAIN accepted :
        Len(accepted) - i < Capacity /\ ~Stale(accepted[i]) => Remembered(i)

ReplayInv == ReplayTypeOK /\ RecentRemembered /\ NonceOnce

\* Taking one entry out of a list keeps the others, in their order.
LEMMA TakenOut ==
    ASSUME NEW list \in Seq(Entry), NEW i \in DOMAIN list
    PROVE  /\ WithoutAt(list, i) \in Seq(Entry)
           /\ Len(WithoutAt(list, i)) = Len(list) - 1
           /\ \A p \in DOMAIN list : p # i =>
                  \E q \in DOMAIN WithoutAt(list, i) :
                      /\ WithoutAt(list, i)[q] = list[p]
                      /\ Len(list) - 1 - q <= Len(list) - p
<1> DEFINE W == WithoutAt(list, i)
<1>1. W = [k \in 1..Len(list) - 1 |-> IF k < i THEN list[k] ELSE list[k + 1]]
  BY DEF WithoutAt
<1>2. Len(list) \in Nat /\ Len(list) - 1 \in Nat /\ DOMAIN list = 1..Len(list)
  OBVIOUS
<1>3. \A k \in 1..Len(list) - 1 : W[k] \in Entry
  BY <1>1, <1>2
<1>4. W \in Seq(Entry) /\ Len(W) = Len(list) - 1
  <2>1. ASSUME NEW m \in Nat, m = Len(list) - 1
        PROVE  W \in Seq(Entry) /\ Len(W) = m
    <3>1. W \in [1..m -> Entry]
      BY <1>1, <1>3, <2>1
    <3> HIDE DEF W
    <3> QED BY <3>1
  <2> QED BY <2>1, <1>2
<1>5. ASSUME NEW p \in DOMAIN list, p # i
      PROVE  \E q \in DOMAIN W : W[q] = list[p] /\ Len(list) - 1 - q <= Len(list) - p
  <2>1. CASE p < i
    BY <1>1, <1>2, <1>4, <2>1
  <2>2. CASE p > i
    <3>1. p - 1 \in DOMAIN W /\ W[p - 1] = list[p]
      BY <1>1, <1>2, <1>4, <2>2
    <3> QED BY <3>1, <1>2
  <2> QED BY <1>2, <1>5, <2>1, <2>2
<1> QED BY <1>4, <1>5

\* What is swept for a nonce is an entry that is stale, and nothing else.
LEMMA SweptKeeps ==
    ASSUME ReplayTypeOK, NEW n \in Nonces
    PROVE  /\ Swept(n) \in Seq(Entry) /\ Len(Swept(n)) <= Len(entries)
           /\ \A p \in DOMAIN entries : ~Stale(entries[p]) =>
                  \E q \in DOMAIN Swept(n) :
                      /\ Swept(n)[q] = entries[p]
                      /\ Len(Swept(n)) - q <= Len(entries) - p
<1> DEFINE past == {i \in DOMAIN entries : entries[i].nonce = n /\ Stale(entries[i])}
<1>1. CASE past = {}
  BY <1>1 DEF Swept, ReplayTypeOK
<1>2. CASE past # {}
  <2> DEFINE old == CHOOSE i \in past : TRUE
  <2>1. old \in past
    BY <1>2
  <2>2. Swept(n) = WithoutAt(entries, old)
    BY <1>2 DEF Swept
  <2>3. old \in DOMAIN entries /\ Stale(entries[old]) /\ entries \in Seq(Entry)
    BY <2>1 DEF ReplayTypeOK
  <2> HIDE DEF old, past
  <2>4. /\ WithoutAt(entries, old) \in Seq(Entry)
        /\ Len(WithoutAt(entries, old)) = Len(entries) - 1
        /\ \A p \in DOMAIN entries : p # old =>
               \E q \in DOMAIN WithoutAt(entries, old) :
                   /\ WithoutAt(entries, old)[q] = entries[p]
                   /\ Len(entries) - 1 - q <= Len(entries) - p
    BY <2>3, TakenOut
  <2>5. Len(entries) \in Nat
    BY <2>3
  <2> QED BY <2>2, <2>3, <2>4, <2>5
<1> QED BY <1>1, <1>2

\* The new entry is the list's last; the first one goes when the list is full.
LEMMA PutKeeps ==
    ASSUME NEW list \in Seq(Entry), NEW n \in Nonces, instant \in 0..MaxInstant,
           Len(list) <= Capacity
    PROVE  /\ Put(list, n) \in Seq(Entry) /\ Len(Put(list, n)) <= Capacity
           /\ Put(list, n)[Len(Put(list, n))] = [nonce |-> n, inserted |-> instant]
           /\ Len(Put(list, n)) \in DOMAIN Put(list, n)
           /\ \A q \in DOMAIN list : Len(list) - q < Capacity - 1 =>
                  \E r \in DOMAIN Put(list, n) :
                      /\ Put(list, n)[r] = list[q]
                      /\ Len(Put(list, n)) - r <= Len(list) - q + 1
<1> DEFINE new == [nonce |-> n, inserted |-> instant]
           kept == IF Len(list) >= Capacity THEN Tail(list) ELSE list
<1>1. new \in Entry
  BY DEF Entry
<1>2. Capacity \in Nat \ {0} /\ Len(list) \in Nat
  BY ReplayAssumption
<1>3. kept \in Seq(Entry) /\ Len(kept) < Capacity /\ Len(kept) \in Nat
  BY <1>2
<1>4. Put(list, n) = Append(kept, new)
  BY DEF Put
<1>5. ASSUME NEW q \in DOMAIN list, Len(list) - q < Capacity - 1
      PROVE  \E r \in DOMAIN kept : kept[r] = list[q] /\ Len(kept) - r <= Len(list) - q
  <2>1. CASE Len(list) >= Capacity
    <3>1. q - 1 \in 1..Len(list) - 1
      BY <1>2, <1>5, <2>1
    <3>2. kept = Tail(list) /\ Len(kept) = Len(list) - 1 /\ kept[q - 1] = list[q]
      BY <1>2, <2>1, <3>1
    <3> QED BY <1>2, <3>1, <3>2
  <2>2. CASE ~(Len(list) >= Capacity)
    BY <1>2, <2>2
  <2> QED BY <2>1, <2>2
<1> HIDE DEF kept, new
<1>6. /\ Append(kept, new) \in Seq(Entry) /\ Len(Append(kept, new)) = Len(kept) + 1
      /\ Append(kept, new)[Len(kept) + 1] = new
      /\ \A r \in DOMAIN kept : Append(kept, new)[r] = kept[r]
      /\ DOMAIN Append(kept, new) = 1..Len(kept) + 1 /\ DOMAIN kept = 1..Len(kept)
  BY <1>1, <1>3
<1>7. Put(list, n)[Len(Put(list, n))] = [nonce |-> n, inserted |-> instant]
  BY <1>4, <1>6 DEF new
<1>8. ASSUME NEW q \in DOMAIN list, Len(list) - q < Capacity - 1
      PROVE  \E r \in DOMAIN Put(list, n) :
                 Put(list, n)[r] = list[q] /\ Len(Put(list, n)) - r <= Len(list) - q + 1
  <2>1. PICK r \in DOMAIN kept : kept[r] = list[q] /\ Len(kept) - r <= Len(list) - q
    BY <1>5, <1>8
  <2>2. r \in 1..Len(kept) /\ Append(kept, new)[r] = list[q]
    BY <1>6, <2>1
  <2>3. q \in Int
    BY <1>2
  <2> QED BY <1>2, <1>3, <1>4, <1>6, <2>1, <2>2, <2>3
<1> QED BY <1>2, <1>3, <1>4, <1>6, <1>7, <1>8

LEMMA AcceptStep ==
    ASSUME ReplayInv, NEW n \in Nonces, NEW stamp \in Stamps, Accept(n, stamp)
    PROVE  ReplayInv'
<1> DEFINE list == Swept(n)
           new == [nonce |-> n, inserted |-> instant]
<1>1. /\ list \in Seq(Entry) /\ Len(list) <= Len(entries)
      /\ \A p \in DOMAIN entries : ~Stale(entries[p]) =>
             \E q \in DOMAIN list : list[q] = entries[p] /\ Len(list) - q <= Len(entries) - p
  BY SweptKeeps DEF ReplayInv
<1>2. /\ ~Holds(list, n) /\ entries' = Put(list, n) /\ accepted' = Append(accepted, new)
      /\ UNCHANGED <<instant, hits>>
  BY DEF Accept
<1>3. evictions' \in Nat
  BY DEF Accept, ReplayInv, ReplayTypeOK
<1>4. /\ Capacity \in Nat \ {0} /\ Ttl * Fraction \in Nat /\ instant \in 0..MaxInstant
      /\ MaxInstant \in Nat /\ Len(list) \in Nat /\ Len(entries) \in Nat
      /\ Len(entries) <= Capacity /\ Len(list) <= Capacity
  BY <1>1, ReplayAssumption DEF ReplayInv, ReplayTypeOK
<1> HIDE DEF list
<1>5. /\ Put(list, n) \in Seq(Entry) /\ Len(Put(list, n)) <= Capacity
      /\ Put(list, n)[Len(Put(list, n))] = new
      /\ Len(Put(list, n)) \in DOMAIN Put(list, n)
      /\ \A q \in DOMAIN list : Len(list) - q < Capacity - 1 =>
             \E r \in DOMAIN Put(list, n) :
                 Put(list, n)[r] = list[q] /\ Len(Put(list, n)) - r <= Len(list) - q + 1
  BY <1>1, <1>4, PutKeeps
<1>6. new \in Entry
  BY <1>4 DEF Entry
<1>7. new.nonce = n /\ new.inserted = instant
  OBVIOUS
<1> HIDE DEF new
<1>8. /\ accepted \in Seq(Entry) /\ accepted' \in Seq(Entry) /\ Len(accepted) \in Nat
      /\ DOMAIN accepted = 1..Len(accepted) /\ Len(accepted') = Len(accepted) + 1
      /\ DOMAIN accepted' = 1..Len(accepted) + 1 /\ accepted'[Len(accepted) + 1] = new
      /\ \A i \in DOMAIN accepted : accepted'[i] = accepted[i]
  BY <1>2, <1>6 DEF ReplayInv, ReplayTypeOK
<1>9. ReplayTypeOK'
  BY <1>2, <1>3, <1>5, <1>8 DEF ReplayInv, ReplayTypeOK
<1>10. ASSUME NEW i \in DOMAIN accepted, Len(accepted) - i < Capacity, ~Stale(accepted[i])
       PROVE  \E q \in DOMAIN list :
                  list[q] = accepted[i] /\ Len(list) - q <= Len(accepted) - i
  <2>1. PICK p \in DOMAIN entries :
            entries[p] = accepted[i] /\ Len(entries) - p <= Len(accepted) - i
    BY <1>10 DEF ReplayInv, RecentRemembered, Remembered
  <2>2. PICK q \in DOMAIN list : list[q] = entries[p] /\ Len(list) - q <= Len(entries) - p
    BY <1>1, <1>10, <2>1
  <2>3. p \in Int /\ q \in Int /\ i \in Int
    BY <1>1, <1>8, <2>1 DEF ReplayInv, ReplayTypeOK
  <2> QED BY <1>4, <1>8, <2>1, <2>2, <2>3
<1>11. RecentRemembered'
  <2> SUFFICES ASSUME NEW i \in DOMAIN accepted', Len(accepted') - i < Capacity,
                      ~(instant' - accepted'[i].inserted > Ttl * Fraction)
               PROVE  \E p \in DOMAIN entries' :
                          entries'[p] = accepted'[i] /\ Len(entries') - p <= Len(accepted') - i
    BY DEF RecentRemembered, Remembered, Stale
  <2>1. CASE i = Len(accepted) + 1
    <3>1. entries'[Len(entries')] = accepted'[i] /\ Len(entries') \in DOMAIN entries'
      BY <1>2, <1>5, <1>8, <2>1
    <3>2. Len(entries') \in Nat
      BY <1>9 DEF ReplayTypeOK
    <3> QED BY <1>8, <2>1, <3>1, <3>2
  <2>2. CASE i \in DOMAIN accepted
    <3>1. ~Stale(accepted[i]) /\ accepted'[i] = accepted[i] /\ i \in Int
      BY <1>2, <1>8, <2>2 DEF Stale
    <3>2. Len(accepted) - i < Capacity - 1 /\ Len(accepted) - i < Capacity
      BY <1>4, <1>8, <3>1
    <3>3. PICK q \in DOMAIN list : list[q] = accepted[i] /\ Len(list) - q <= Len(accepted) - i
      BY <1>10, <2>2, <3>1, <3>2
    <3>4. q \in Int /\ Len(list) - q < Capacity - 1
      BY <1>1, <1>4, <1>8, <3>1, <3>2, <3>3
    <3>5. PICK r \in DOMAIN Put(list, n) :
              Put(list, n)[r] = list[q] /\ Len(Put(list, n)) - r <= Len(list) - q + 1
      BY <1>5, <3>3, <3>4
    <3>6. r \in Int /\ Len(Put(list, n)) \in Nat
      BY <1>5
    <3>7. r \in DOMAIN entries' /\ entries'[r] = accepted'[i]
      BY <1>2, <3>1, <3>3, <3>5
    <3>8. Len(entries') = Len(Put(list, n))
      BY <1>2
    <3>9. Len(entries') - r <= Len(accepted') - i
      BY <1>4, <1>8, <3>1, <3>3, <3>4, <3>5, <3>6, <3>8
    <3> QED BY <3>7, <3>9
  <2> QED BY <1>8, <2>1, <2>2
<1>12. NonceOnce'
  <2> SUFFICES ASSUME NEW i \in DOMAIN accepted', NEW j \in DOMAIN accepted', i < j,
                      accepted'[i].nonce = accepted'[j].nonce
               PROVE  \/ accepted'[j].inserted - accepted'[i].inserted > Ttl * Fraction
                      \/ j - i - 1 >= Capacity
    BY DEF NonceOnce
  <2>1. CASE j \in DOMAIN accepted
    <3>1. i \in DOMAIN accepted
      BY <1>8, <2>1
    <3> QED BY <1>8, <2>1, <3>1 DEF ReplayInv, NonceOnce
  <2>2. CASE j = Len(accepted) + 1
    <3>1. i \in DOMAIN accepted /\ accepted'[i] = accepted[i] /\ accepted'[j] = new
      BY <1>8, <2>2
    <3>2. accepted[i].nonce = n
      BY <1>7, <3>1
    <3>3. CASE Stale(accepted[i])
      BY <1>7, <3>1, <3>3 DEF Stale
    <3>4. CASE ~Stale(accepted[i])
      <4>1. ~(Len(accepted) - i < Capacity)
        BY <1>2, <1>10, <3>1, <3>2, <3>4 DEF Holds
      <4> QED BY <1>4, <1>8, <2>2, <3>1, <4>1
    <3> QED BY <3>3, <3>4
  <2> QED BY <1>8, <2>1, <2>2
<1> QED BY <1>9, <1>11, <1>12 DEF ReplayInv

LEMMA ReplayStep == ReplayInv /\ [ReplayNext]_replayVars => ReplayInv'
<1> SUFFICES ASSUME ReplayInv, [ReplayNext]_replayVars PROVE ReplayInv'
  OBVIOUS
<1>1. ASSUME UNCHANGED <<entries, evictions, accepted>>, hits' \in 0..MaxHits,
             instant' \in 0..MaxInstant, instant' >= instant
      PROVE  ReplayInv'
  <2>1. ReplayTypeOK'
    BY <1>1 DEF ReplayInv, ReplayTypeOK
  <2>2. NonceOnce'
    BY <1>1 DEF ReplayInv, NonceOnce
  <2>3. ASSUME NEW i \in DOMAIN accepted, Stale(accepted[i]) PROVE Stale(accepted[i])'
    <3>1. accepted[i] \in Entry
      BY DEF ReplayInv, ReplayTypeOK
    <3> DEFINE e == accepted[i]
    <3>3. e.inserted \in Nat /\ instant \in Nat
      BY <3>1, ReplayAssumption DEF ReplayInv, ReplayTypeOK, Entry
    <3>2. Ttl * Fraction \in Nat /\ instant' \in Nat
      BY <1>1, ReplayAssumption
    <3> QED BY <1>1, <2>3, <3>2, <3>3 DEF Stale
  <2>4. RecentRemembered'
    <3> SUFFICES ASSUME NEW i \in DOMAIN accepted, Len(accepted) - i < Capacity,
                        ~Stale(accepted[i])'
                 PROVE  Remembered(i)'
      BY <1>1 DEF RecentRemembered
    <3>1. Remembered(i)
      BY <2>3 DEF ReplayInv, RecentRemembered
    <3> QED BY <1>1, <3>1 DEF Remembered
  <2> QED BY <2>1, <2>2, <2>4 DEF ReplayInv
<1>2. /\ instant \in 0..MaxInstant /\ hits \in 0..MaxHits
      /\ MaxInstant \in Nat /\ MaxHits \in Nat
  BY ReplayAssumption DEF ReplayInv, ReplayTypeOK
<1>3. ASSUME NEW n \in Nonces, NEW t \in Stamps, Reject(n, t) PROVE ReplayInv'
  BY <1>1, <1>2, <1>3 DEF Reject
<1>4. CASE PassInstant
  BY <1>1, <1>2, <1>4 DEF PassInstant
<1>5. CASE UNCHANGED replayVars
  BY <1>1, <1>2, <1>5 DEF replayVars
<1> QED BY AcceptStep, <1>3, <1>4, <1>5 DEF ReplayNext

LEMMA ReplayStart == ReplayInit => ReplayInv
<1> SUFFICES ASSUME ReplayInit PROVE ReplayInv
  OBVIOUS
<1>1. ReplayTypeOK
  BY ReplayAssumption DEF ReplayInit, ReplayTypeOK
<1> QED BY <1>1 DEF ReplayInit, ReplayInv, RecentRemembered, NonceOnce

\* A nonce is accepted again only after its time to live or Capacity other
\* messages, for any number of nonces and messages and any capacity.
THEOREM NonceOnceSafety == ReplaySpec => []NonceOnce
<1>1. ReplayInv => NonceOnce
  BY DEF ReplayInv
<1> QED BY <1>1, ReplayStart, ReplayStep, PTL DEF ReplaySpec

(***************************************************************************)
(* RateLimiter: the window and the promise                                 *)
(*                                                                         *)
(* No check is stamped later than the clock, so none drops an entry that   *)
(* is less than a window old.  A window never holds more than the highest  *)
(* limit, so a promise stands either on an entry that is gone by then or   *)
(* on a window that has room already.                                      *)
(***************************************************************************)
NobodyAhead == \A c \in Checks : checks[c].stamp <= ticks

EntriesPast == \A a \in Callers : \A e \in windows[a] : e.stamp <= ticks

RecentKept == \A a \in Callers : Recent(a) \subseteq windows[a]

Bounded ==
    \A a \in Callers :
        /\ IsFiniteSet(windows[a]) /\ IsFiniteSet(granted[a])
        /\ Cardinality(windows[a]) <= Highest

PromiseKept ==
    \A a \in Callers :
        promised[a] # Never =>
            \/ Cardinality(windows[a]) < Highest
            \/ \E e \in windows[a] : e.stamp + Span <= promised[a]

LimiterInv ==
    LimiterTypeOK /\ NobodyAhead /\ EntriesPast /\ RecentKept /\ Bounded /\ PromiseKept

LEMMA HighestLimit == Highest \in Limits /\ Highest \in Nat /\ \A l \in Limits : l <= Highest
<1>1. PICK h \in Limits : \A k \in Limits : k <= h
  BY LimiterAssumption
<1>2. Highest \in Limits /\ \A k \in Limits : k <= Highest
  BY <1>1 DEF Highest
<1> QED BY <1>2, LimiterAssumption

LEMMA SpanNatural == Span \in Nat /\ MaxRetry * PerSecond \in Nat
  BY LimiterAssumption DEF Span

\* Whole seconds are below the window exactly when the instants are.
LEMMA WholeSeconds ==
    ASSUME NEW now \in Nat, NEW t \in Nat
    PROVE  /\ Seconds(now, t) \in Nat
           /\ now - t < Span => Seconds(now, t) < Window
           /\ now - t >= Span => Seconds(now, t) >= Window
           /\ now - t >= Seconds(now, t) * PerSecond \/ Seconds(now, t) = 0
<1>1. CASE ~(now > t)
  BY <1>1, LimiterAssumption, SpanNatural DEF Seconds, Span
<1>2. CASE now > t
  <2> DEFINE d == now - t
             q == d \div PerSecond
  <2>1. d \in Nat /\ PerSecond \in Nat \ {0} /\ Window \in Nat \ {0}
    BY <1>2, LimiterAssumption
  <2>2. q \in Nat /\ PerSecond * q <= d /\ d < PerSecond * (q + 1)
    BY <2>1
  <2>3. Seconds(now, t) = q
    BY <1>2 DEF Seconds
  <2> HIDE DEF q, d
  <2>4. q >= Window => PerSecond * q >= PerSecond * Window
    BY <2>1, <2>2
  <2>5. q + 1 <= Window => PerSecond * (q + 1) <= PerSecond * Window
    BY <2>1, <2>2
  <2>6. Span = PerSecond * Window /\ q * PerSecond = PerSecond * q
    BY <2>1, <2>2 DEF Span
  <2>7. /\ PerSecond * q \in Nat /\ PerSecond * (q + 1) \in Nat /\ PerSecond * Window \in Nat
    BY <2>1, <2>2
  <2>8. /\ d < Span => q < Window
        /\ d >= Span => q >= Window
        /\ d >= q * PerSecond
    BY <2>1, <2>2, <2>4, <2>5, <2>6, <2>7
  <2>9. d = now - t
    BY DEF d
  <2> QED BY <2>2, <2>3, <2>8, <2>9
<1> QED BY <1>1, <1>2

\* A check keeps what is less than a window old at its own stamp.
LEMMA KeptRecent ==
    ASSUME LimiterInv, NEW a \in Callers, NEW now \in 0..MaxTicks, now <= ticks
    PROVE  /\ Kept(now, windows[a]) \subseteq windows[a]
           /\ Recent(a) \subseteq Kept(now, windows[a])
           /\ IsFiniteSet(Kept(now, windows[a]))
           /\ Cardinality(Kept(now, windows[a])) \in Nat
           /\ Cardinality(Kept(now, windows[a])) <= Highest
           /\ Kept(now, windows[a]) # windows[a] => Cardinality(Kept(now, windows[a])) < Highest
<1> DEFINE kept == Kept(now, windows[a])
           W == windows[a]
<1>1. W \subseteq Stamped /\ granted[a] \subseteq Stamped /\ ticks \in Nat /\ now \in Nat
  BY LimiterAssumption DEF LimiterInv, LimiterTypeOK
<1>2. IsFiniteSet(W) /\ Cardinality(W) <= Highest
  BY DEF LimiterInv, Bounded
<1>3. kept \subseteq W
  BY DEF Kept
<1>4. Recent(a) \subseteq kept
  <2> SUFFICES ASSUME NEW e \in Recent(a) PROVE e \in kept
    OBVIOUS
  <2>1. e \in W /\ e \in granted[a] /\ ticks - e.stamp < Span
    BY DEF LimiterInv, RecentKept, Recent
  <2>2. e.stamp \in Nat
    BY <1>1, <2>1, LimiterAssumption DEF Stamped
  <2>3. now - e.stamp < Span
    BY <1>1, <2>1, <2>2, SpanNatural
  <2> QED BY <1>1, <2>1, <2>2, <2>3, WholeSeconds DEF Kept
<1> HIDE DEF kept, W
<1>5. /\ IsFiniteSet(kept) /\ Cardinality(kept) <= Cardinality(W)
      /\ Cardinality(W) = Cardinality(kept) => kept = W
  BY <1>2, <1>3, FS_Subset
<1>6. Cardinality(kept) \in Nat /\ Cardinality(W) \in Nat
  BY <1>2, <1>5, FS_CardinalityType
<1>7. Cardinality(kept) <= Highest /\ (kept # W => Cardinality(kept) < Highest)
  BY <1>2, <1>5, <1>6, HighestLimit
<1>8. kept = Kept(now, windows[a]) /\ W = windows[a]
  BY DEF kept, W
<1> QED BY <1>3, <1>4, <1>5, <1>6, <1>7, <1>8

\* There is a twin for every instant.
LEMMA FreshEntry ==
    ASSUME LimiterInv, NEW a \in Callers, NEW t \in 0..MaxTicks
    PROVE  /\ Fresh(a, t) \in Stamped /\ Fresh(a, t).stamp = t
           /\ Fresh(a, t) \notin windows[a] /\ Fresh(a, t) \notin granted[a]
<1> DEFINE known == windows[a] \union granted[a]
           size == Cardinality(known)
           numbers == 0..size
           twin == CHOOSE n \in numbers : [stamp |-> t, twin |-> n] \notin known
           f == [n \in numbers |-> [stamp |-> t, twin |-> n]]
<1>1. IsFiniteSet(known)
  BY FS_Union DEF LimiterInv, Bounded
<1>2. size \in Nat
  BY <1>1, FS_CardinalityType
<1> HIDE DEF known, size
<1>3. IsFiniteSet(numbers) /\ Cardinality(numbers) = size + 1
  BY <1>2, FS_Interval
<1>4. \E n \in numbers : [stamp |-> t, twin |-> n] \notin known
  <2> SUFFICES ASSUME \A n \in numbers : [stamp |-> t, twin |-> n] \in known PROVE FALSE
    OBVIOUS
  <2>1. f \in [numbers -> known]
    OBVIOUS
  <2>2. \A x, y \in numbers : f[x] = f[y] => x = y
    <3> SUFFICES ASSUME NEW x \in numbers, NEW y \in numbers, f[x] = f[y] PROVE x = y
      OBVIOUS
    <3>1. [stamp |-> t, twin |-> x] = [stamp |-> t, twin |-> y]
      OBVIOUS
    <3>2. [stamp |-> t, twin |-> x].twin = [stamp |-> t, twin |-> y].twin
      BY <3>1
    <3> QED BY <3>2
  <2>3. Cardinality(known) < Cardinality(numbers)
    BY <1>2, <1>3 DEF size
  <2> HIDE DEF f, numbers
  <2>4. \E x, y \in numbers : x # y /\ f[x] = f[y]
    BY <1>1, <1>3, <2>1, <2>3, FS_PigeonHole
  <2> QED BY <2>2, <2>4
<1>5. twin \in numbers /\ [stamp |-> t, twin |-> twin] \notin known
  BY <1>4
<1>6. Fresh(a, t) = [stamp |-> t, twin |-> twin]
  BY DEF Fresh, known, size
<1> HIDE DEF twin
<1>7. Fresh(a, t) \in Stamped /\ Fresh(a, t).stamp = t
  BY <1>2, <1>5, <1>6 DEF Stamped
<1> QED BY <1>5, <1>6, <1>7 DEF known

LEMMA CheckTyped ==
    ASSUME LimiterTypeOK, NEW c \in Checks
    PROVE  /\ checks[c].stage \in {"idle", "waiting", "granted", "refused"}
           /\ checks[c].caller \in Callers /\ checks[c].limit \in Limits
           /\ checks[c].stamp \in 0..MaxTicks
           /\ \A stage \in {"granted", "refused"} :
                  [checks EXCEPT ![c].stage = stage]
                      \in [Checks -> [stage : {"idle", "waiting", "granted", "refused"},
                                      caller : Callers, limit : Limits, stamp : 0..MaxTicks]]
  BY DEF LimiterTypeOK

LEMMA GrantStep ==
    ASSUME LimiterInv, NEW c \in Checks, Grant(c)
    PROVE  LimiterInv' /\ Cardinality(Recent(checks[c].caller)) < checks[c].limit
<1> DEFINE a == checks[c].caller
           limit == checks[c].limit
           now == checks[c].stamp
           kept == Kept(now, windows[a])
           new == Fresh(a, now)
<1>1. a \in Callers /\ limit \in Limits /\ now \in 0..MaxTicks /\ now <= ticks
  BY CheckTyped DEF LimiterInv, NobodyAhead
<1>2. limit \in Nat /\ limit <= Highest /\ Highest \in Nat
  BY <1>1, LimiterAssumption, HighestLimit
<1>3. /\ kept \subseteq windows[a] /\ Recent(a) \subseteq kept /\ IsFiniteSet(kept)
      /\ Cardinality(kept) \in Nat
  BY <1>1, KeptRecent
<1>4. new \in Stamped /\ new.stamp = now /\ new \notin windows[a] /\ new \notin granted[a]
  BY <1>1, FreshEntry
<1>5. /\ Cardinality(kept) < limit
      /\ windows' = [windows EXCEPT ![a] = kept \union {new}]
      /\ granted' = [granted EXCEPT ![a] = granted[a] \union {new}]
      /\ promised' = [promised EXCEPT ![a] = Never]
      /\ checks' = [checks EXCEPT ![c].stage = "granted"]
      /\ UNCHANGED ticks
  BY DEF Grant
<1> HIDE DEF new, kept, a, limit, now
<1>6. Cardinality(Recent(a)) < limit
  <2>1. Cardinality(Recent(a)) <= Cardinality(kept) /\ IsFiniteSet(Recent(a))
    BY <1>3, FS_Subset
  <2>2. Cardinality(Recent(a)) \in Nat
    BY <2>1, FS_CardinalityType
  <2> QED BY <1>2, <1>3, <1>5, <2>1, <2>2
<1>7. /\ IsFiniteSet(kept \union {new})
      /\ Cardinality(kept \union {new}) = Cardinality(kept) + 1
  BY <1>3, <1>4, FS_AddElement
<1>8. /\ windows \in [Callers -> SUBSET Stamped] /\ granted \in [Callers -> SUBSET Stamped]
      /\ promised \in [Callers -> 0..Never]
  BY DEF LimiterInv, LimiterTypeOK
<1>9. Never \in 0..Never
  BY SpanNatural, LimiterAssumption DEF Never
<1>10. LimiterTypeOK'
  <2>1. kept \subseteq Stamped
    BY <1>1, <1>3, <1>8
  <2>2. windows' \in [Callers -> SUBSET Stamped] /\ granted' \in [Callers -> SUBSET Stamped]
    BY <1>1, <1>4, <1>5, <1>8, <2>1
  <2>3. promised' \in [Callers -> 0..Never]
    BY <1>1, <1>5, <1>8, <1>9
  <2>4. checks' \in [Checks -> [stage : {"idle", "waiting", "granted", "refused"},
                                caller : Callers, limit : Limits, stamp : 0..MaxTicks]]
    BY <1>5, CheckTyped DEF LimiterInv
  <2> QED BY <1>5, <2>2, <2>3, <2>4 DEF LimiterInv, LimiterTypeOK
<1>11. NobodyAhead'
  BY <1>5 DEF LimiterInv, LimiterTypeOK, NobodyAhead
<1>15. EntriesPast'
  <2> SUFFICES ASSUME NEW b \in Callers, NEW e \in windows'[b] PROVE e.stamp <= ticks
    BY <1>5 DEF EntriesPast
  <2>1. e \in windows[b] \/ e = new
    BY <1>1, <1>3, <1>5, <1>8
  <2> QED BY <1>1, <1>4, <2>1 DEF LimiterInv, EntriesPast
<1>12. RecentKept'
  <2> SUFFICES ASSUME NEW b \in Callers, NEW e \in granted'[b], ticks - e.stamp < Span
               PROVE  e \in windows'[b]
    BY <1>5 DEF RecentKept, Recent
  <2>1. CASE b # a
    BY <1>5, <1>8, <2>1 DEF LimiterInv, RecentKept, Recent
  <2>2. CASE b = a
    <3>1. e = new \/ e \in granted[a]
      BY <1>1, <1>5, <1>8, <2>2
    <3>2. e \in granted[a] => e \in kept
      BY <1>3 DEF Recent
    <3> QED BY <1>1, <1>5, <1>8, <2>2, <3>1, <3>2
  <2> QED BY <2>1, <2>2
<1>13. Bounded'
  <2> SUFFICES ASSUME NEW b \in Callers
               PROVE  /\ IsFiniteSet(windows'[b]) /\ IsFiniteSet(granted'[b])
                      /\ Cardinality(windows'[b]) <= Highest
    BY DEF Bounded, Highest
  <2>1. CASE b # a
    BY <1>5, <1>8, <2>1 DEF LimiterInv, Bounded
  <2>2. CASE b = a
    <3>1. windows'[b] = kept \union {new} /\ granted'[b] = granted[a] \union {new}
      BY <1>1, <1>5, <1>8, <2>2
    <3>2. IsFiniteSet(granted[a] \union {new})
      BY <1>1, FS_AddElement DEF LimiterInv, Bounded
    <3>3. Cardinality(kept) + 1 <= Highest
      BY <1>2, <1>3, <1>5
    <3> QED BY <1>7, <3>1, <3>2, <3>3
  <2> QED BY <2>1, <2>2
<1>14. PromiseKept'
  <2> SUFFICES ASSUME NEW b \in Callers, promised'[b] # Never
               PROVE  \/ Cardinality(windows'[b]) < Highest
                      \/ \E e \in windows'[b] : e.stamp + Span <= promised'[b]
    BY DEF PromiseKept, Highest, Never, Span
  <2>1. b # a
    BY <1>1, <1>5, <1>8
  <2> QED BY <1>5, <1>8, <2>1 DEF LimiterInv, PromiseKept
<1> QED BY <1>6, <1>10, <1>11, <1>12, <1>13, <1>14, <1>15
   DEF LimiterInv, a, limit

\* A step that gives nothing away: each window loses what its caller may lose.
LEMMA ShrinkStep ==
    ASSUME LimiterInv, LimiterTypeOK', NobodyAhead', UNCHANGED <<ticks, granted>>,
           \A a \in Callers :
               /\ \/ windows'[a] = windows[a]
                  \/ \E now \in 0..MaxTicks : now <= ticks /\ windows'[a] = Kept(now, windows[a])
               /\ \/ promised'[a] = promised[a]
                  \/ \E e \in windows'[a] : e.stamp + Span <= promised'[a]
    PROVE  LimiterInv'
<1>1. ASSUME NEW a \in Callers
      PROVE  /\ windows'[a] \subseteq windows[a] /\ Recent(a) \subseteq windows'[a]
             /\ IsFiniteSet(windows'[a]) /\ Cardinality(windows'[a]) <= Highest
             /\ windows'[a] # windows[a] => Cardinality(windows'[a]) < Highest
  <2>1. CASE windows'[a] = windows[a]
    BY <2>1 DEF LimiterInv, RecentKept, Bounded
  <2>2. ASSUME NEW now \in 0..MaxTicks, now <= ticks, windows'[a] = Kept(now, windows[a])
        PROVE  <1>1!2
    BY <2>2, KeptRecent
  <2> QED BY <2>1, <2>2
<1>2. RecentKept' /\ EntriesPast'
  BY <1>1 DEF LimiterInv, RecentKept, EntriesPast, Recent, Span
<1>3. Bounded'
  BY <1>1 DEF LimiterInv, Bounded, Highest
<1>4. PromiseKept'
  <2> SUFFICES ASSUME NEW a \in Callers, promised'[a] # Never
               PROVE  \/ Cardinality(windows'[a]) < Highest
                      \/ \E e \in windows'[a] : e.stamp + Span <= promised'[a]
    BY DEF PromiseKept, Highest, Never, Span
  <2>1. CASE promised'[a] = promised[a]
    BY <1>1, <2>1 DEF LimiterInv, PromiseKept
  <2> QED BY <2>1
<1> QED BY <1>2, <1>3, <1>4 DEF LimiterInv

LEMMA RefuseStep ==
    ASSUME LimiterInv, NEW c \in Checks, Refuse(c)
    PROVE  /\ LimiterInv'
           /\ checks[c].limit = Highest => checks[c].stamp < promised[checks[c].caller]
<1> DEFINE a == checks[c].caller
           limit == checks[c].limit
           now == checks[c].stamp
           kept == Kept(now, windows[a])
           at == ticks + RetryAfter(now, kept) * PerSecond
<1>1. a \in Callers /\ limit \in Limits /\ now \in 0..MaxTicks /\ now <= ticks
  BY CheckTyped DEF LimiterInv, NobodyAhead
<1>2. /\ limit \in Nat \ {0} /\ Highest \in Nat /\ Span \in Nat
      /\ ticks \in 0..MaxTicks /\ ticks \in Nat /\ now \in Nat /\ MaxTicks \in Nat
      /\ PerSecond \in Nat \ {0} /\ Window \in Nat \ {0} /\ MaxRetry \in Nat
      /\ Window <= MaxRetry
  <2>1. ticks \in 0..MaxTicks
    BY DEF LimiterInv, LimiterTypeOK
  <2>2. /\ MaxTicks \in Nat /\ PerSecond \in Nat \ {0} /\ Window \in Nat \ {0}
        /\ MaxRetry \in Nat /\ Window <= MaxRetry /\ limit \in Nat \ {0}
    BY <1>1, LimiterAssumption
  <2>3. ticks \in Nat /\ now \in Nat
    BY <1>1, <2>1, <2>2
  <2>4. Highest \in Nat /\ Span \in Nat
    BY HighestLimit, SpanNatural
  <2> QED BY <2>1, <2>2, <2>3, <2>4
<1>11. Never = MaxTicks + MaxRetry * PerSecond + 1 /\ MaxRetry * PerSecond \in Nat
  BY SpanNatural DEF Never
<1>3. /\ kept \subseteq windows[a] /\ IsFiniteSet(kept) /\ Cardinality(kept) \in Nat
      /\ kept # windows[a] => Cardinality(kept) < Highest
  BY <1>1, KeptRecent
<1>4. /\ Cardinality(kept) >= limit
      /\ windows' = [windows EXCEPT ![a] = kept]
      /\ promised' = IF limit = Highest /\ promised[a] = Never
                     THEN [promised EXCEPT ![a] = at] ELSE promised
      /\ checks' = [checks EXCEPT ![c].stage = "refused"]
      /\ UNCHANGED <<ticks, granted>>
  BY DEF Refuse
<1>5. \A e \in kept : Seconds(now, e.stamp) < Window
  BY DEF Kept
<1>6. at = ticks + RetryAfter(now, kept) * PerSecond
  OBVIOUS
<1> HIDE DEF kept, a, limit, now, at
<1>7. windows \in [Callers -> SUBSET Stamped] /\ promised \in [Callers -> 0..Never]
  BY DEF LimiterInv, LimiterTypeOK
<1>8. kept # {}
  BY <1>2, <1>3, <1>4, FS_EmptySet
<1>9. \A e \in kept : e.stamp \in Nat /\ e.stamp <= MaxTicks
  BY <1>1, <1>2, <1>3, <1>7 DEF Stamped
<1>10. (\E e \in kept : e.stamp + Span <= at) /\ at \in 0..Never
  <2> DEFINE oldest == CHOOSE e \in kept : \A d \in kept : e.stamp <= d.stamp
             raw == Window - Seconds(now, oldest.stamp)
  <2>1. \E e \in kept : \A d \in kept : e.stamp <= d.stamp
    <3> DEFINE stamps == {e.stamp : e \in kept}
    <3>1. stamps \in SUBSET Nat /\ stamps # {}
      BY <1>8, <1>9
    <3>2. PICK m \in stamps : \A k \in stamps : m <= k
      <4> HIDE DEF stamps
      <4> QED BY <3>1, Least
    <3> QED BY <3>2
  <2>2. oldest \in kept
    BY <2>1
  <2>3. RetryAfter(now, kept) = IF raw < 1 THEN 1 ELSE IF raw > MaxRetry THEN MaxRetry ELSE raw
    BY DEF RetryAfter
  <2>4. oldest.stamp \in Nat /\ Seconds(now, oldest.stamp) < Window
    BY <1>5, <1>9, <2>2
  <2> DEFINE old == oldest.stamp
  <2>5. old \in Nat
    BY <2>4
  <2> HIDE DEF oldest
  <2>6. /\ Seconds(now, old) \in Nat
        /\ now - old >= Seconds(now, old) * PerSecond \/ Seconds(now, old) = 0
    <3> HIDE DEF old
    <3> QED BY <1>2, <2>5, WholeSeconds
  <2> DEFINE sec == Seconds(now, old)
  <2>7. /\ sec \in Nat /\ sec < Window /\ (now - old >= sec * PerSecond \/ sec = 0)
        /\ raw = Window - sec
    BY <2>4, <2>6
  <2>8. old <= ticks
    BY <1>1, <1>3, <2>2 DEF LimiterInv, EntriesPast
  <2> HIDE DEF old, sec
  <2>9. RetryAfter(now, kept) = Window - sec
    BY <1>2, <2>3, <2>7
  <2> HIDE DEF raw
  <2>10. /\ (Window - sec) * PerSecond = Span - sec * PerSecond
         /\ sec * PerSecond \in Nat /\ (sec = 0 => sec * PerSecond = 0)
    BY <1>2, <2>7 DEF Span
  <2>11. /\ (Window - sec) * PerSecond \in Nat
         /\ (Window - sec) * PerSecond <= MaxRetry * PerSecond
    BY <1>2, <2>7
  <2>12. at = ticks + Span - sec * PerSecond /\ at \in Int
    BY <1>2, <1>6, <2>9, <2>10
  <2>13. old + Span <= at
    BY <1>1, <1>2, <2>5, <2>7, <2>8, <2>10, <2>12
  <2>14. at \in 0..Never
    BY <1>2, <1>6, <1>11, <2>9, <2>11
  <2> QED BY <2>2, <2>13, <2>14 DEF old
<1>12. checks[c].limit = Highest => now < promised[a]
  <2> SUFFICES ASSUME limit = Highest PROVE now < promised[a]
    BY DEF limit
  <2>1. Never > now
    BY <1>1, <1>2, <1>11
  <2>2. CASE promised[a] # Never
    <3>1. Cardinality(windows[a]) <= Highest /\ IsFiniteSet(windows[a])
      BY <1>1 DEF LimiterInv, Bounded
    <3>2. Cardinality(windows[a]) \in Nat
      BY <3>1, FS_CardinalityType
    <3>3. kept = windows[a]
      BY <1>2, <1>3, <1>4
    <3>4. PICK e \in kept : e.stamp + Span <= promised[a]
      BY <1>1, <1>2, <1>4, <2>2, <3>2, <3>3 DEF LimiterInv, PromiseKept
    <3> DEFINE t == e.stamp
               p == promised[a]
    <3>5. t \in Nat /\ p \in Nat /\ t + Span <= p /\ Seconds(now, t) < Window
      BY <1>1, <1>2, <1>5, <1>7, <1>9, <1>11, <3>4
    <3> HIDE DEF t, p
    <3>6. ~(now - t >= Span)
      BY <1>2, <3>5, WholeSeconds
    <3>7. now < p
      BY <1>2, <3>5, <3>6
    <3> QED BY <3>7 DEF p
  <2> QED BY <2>1, <2>2
<1>13. LimiterInv'
  <2>1. kept \in SUBSET Stamped
    BY <1>1, <1>3, <1>7
  <2>2. windows' \in [Callers -> SUBSET Stamped]
    BY <1>1, <1>4, <1>7, <2>1
  <2>3. promised' \in [Callers -> 0..Never]
    BY <1>1, <1>4, <1>7, <1>10
  <2>4. checks' \in [Checks -> [stage : {"idle", "waiting", "granted", "refused"},
                                caller : Callers, limit : Limits, stamp : 0..MaxTicks]]
    BY <1>4, CheckTyped DEF LimiterInv
  <2>5. LimiterTypeOK'
    BY <1>4, <2>2, <2>3, <2>4 DEF LimiterInv, LimiterTypeOK, Stamped, Never
  <2>6. NobodyAhead'
    BY <1>4 DEF LimiterInv, LimiterTypeOK, NobodyAhead
  <2>7. ASSUME NEW b \in Callers
        PROVE  /\ \/ windows'[b] = windows[b]
                  \/ \E t \in 0..MaxTicks : t <= ticks /\ windows'[b] = Kept(t, windows[b])
               /\ \/ promised'[b] = promised[b]
                  \/ \E e \in windows'[b] : e.stamp + Span <= promised'[b]
    <3>1. CASE b # a
      BY <1>4, <1>7, <3>1
    <3>2. CASE b = a
      <4>1. windows'[b] = kept /\ kept = Kept(now, windows[b])
        BY <1>1, <1>4, <1>7, <3>2 DEF kept
      <4>2. promised'[b] = promised[b] \/ promised'[b] = at
        BY <1>1, <1>4, <1>7, <3>2
      <4> QED BY <1>1, <1>10, <4>1, <4>2
    <3> QED BY <3>1, <3>2
  <2> QED BY <1>4, <2>5, <2>6, <2>7, ShrinkStep
<1> QED BY <1>12, <1>13 DEF a, now

LEMMA LimiterStep ==
    ASSUME LimiterInv, [LimiterNext]_limiterVars
    PROVE  /\ LimiterInv'
           /\ \A c \in Checks :
                  checks[c].stage = "waiting" /\ checks'[c].stage = "granted" =>
                      Cardinality(Recent(checks[c].caller)) < checks[c].limit
           /\ \A c \in Checks :
                  checks[c].stage = "waiting" /\ checks'[c].stage = "refused"
                    /\ checks[c].limit = Highest => checks[c].stamp < promised[checks[c].caller]
<1> DEFINE Granted ==
               \A c \in Checks :
                   checks[c].stage = "waiting" /\ checks'[c].stage = "granted" =>
                       Cardinality(Recent(checks[c].caller)) < checks[c].limit
           Refused ==
               \A c \in Checks :
                   checks[c].stage = "waiting" /\ checks'[c].stage = "refused"
                     /\ checks[c].limit = Highest => checks[c].stamp < promised[checks[c].caller]
<1> SUFFICES LimiterInv' /\ Granted /\ Refused
  OBVIOUS
<1>1. checks \in [Checks -> [stage : {"idle", "waiting", "granted", "refused"},
                             caller : Callers, limit : Limits, stamp : 0..MaxTicks]]
  BY DEF LimiterInv, LimiterTypeOK
<1>2. ticks \in 0..MaxTicks /\ ticks \in Nat /\ MaxTicks \in Nat
  BY LimiterAssumption DEF LimiterInv, LimiterTypeOK
<1>3. ASSUME NEW c \in Checks, NEW a \in Callers, NEW l \in Limits, BeginCheck(c, a, l)
      PROVE  LimiterInv' /\ Granted /\ Refused
  <2> DEFINE new == [stage |-> "waiting", caller |-> a, limit |-> l, stamp |-> ticks]
  <2>1. checks' = [checks EXCEPT ![c] = new] /\ UNCHANGED <<ticks, windows, granted, promised>>
    BY <1>3 DEF BeginCheck
  <2>2. /\ new \in [stage : {"idle", "waiting", "granted", "refused"},
                    caller : Callers, limit : Limits, stamp : 0..MaxTicks]
        /\ new.stage = "waiting" /\ new.stamp = ticks
    BY <1>2
  <2> HIDE DEF new
  <2>3. \A d \in Checks : checks'[d] = new \/ checks'[d] = checks[d]
    BY <1>1, <2>1
  <2>4. LimiterTypeOK'
    BY <1>1, <2>1, <2>2 DEF LimiterInv, LimiterTypeOK
  <2>5. NobodyAhead'
    BY <1>2, <2>1, <2>2, <2>3 DEF LimiterInv, NobodyAhead
  <2>6. LimiterInv'
    BY <2>1, <2>4, <2>5, ShrinkStep
  <2> QED BY <2>2, <2>3, <2>6
<1>4. ASSUME NEW c \in Checks, Grant(c) PROVE LimiterInv' /\ Granted /\ Refused
  <2>1. \A d \in Checks : d # c => checks'[d] = checks[d]
    BY <1>1, <1>4 DEF Grant
  <2>2. checks'[c].stage = "granted"
    BY <1>1, <1>4 DEF Grant
  <2> QED BY <1>4, <2>1, <2>2, GrantStep
<1>5. ASSUME NEW c \in Checks, Refuse(c) PROVE LimiterInv' /\ Granted /\ Refused
  <2>1. \A d \in Checks : d # c => checks'[d] = checks[d]
    BY <1>1, <1>5 DEF Refuse
  <2>2. checks'[c].stage = "refused"
    BY <1>1, <1>5 DEF Refuse
  <2> QED BY <1>5, <2>1, <2>2, RefuseStep
<1>6. CASE Cleanup
  <2>1. /\ windows' = [a \in Callers |-> Kept(ticks, windows[a])]
        /\ UNCHANGED <<ticks, checks, granted, promised>>
    BY <1>6 DEF Cleanup
  <2>2. \A a \in Callers : windows'[a] = Kept(ticks, windows[a])
    BY <2>1
  <2>3. windows' \in [Callers -> SUBSET Stamped]
    BY <2>1 DEF LimiterInv, LimiterTypeOK, Kept
  <2>4. LimiterTypeOK'
    BY <2>1, <2>3 DEF LimiterInv, LimiterTypeOK
  <2>5. NobodyAhead'
    BY <2>1 DEF LimiterInv, NobodyAhead
  <2>6. LimiterInv'
    BY <1>2, <2>1, <2>2, <2>4, <2>5, ShrinkStep
  <2> QED BY <2>1, <2>6
<1>7. CASE PassTick
  <2>1. /\ ticks < MaxTicks /\ ticks' = ticks + 1
        /\ granted' = [a \in Callers |-> {e \in granted[a] : ticks' - e.stamp < Span}]
        /\ UNCHANGED <<checks, windows, promised>>
    BY <1>7 DEF PassTick
  <2>2. \A a \in Callers : granted'[a] = {e \in granted[a] : ticks' - e.stamp < Span}
    BY <2>1
  <2>3. LimiterTypeOK'
    <3>1. granted' \in [Callers -> SUBSET Stamped]
      BY <2>1 DEF LimiterInv, LimiterTypeOK
    <3>2. ticks' \in 0..MaxTicks
      BY <1>2, <2>1
    <3> QED BY <2>1, <3>1, <3>2 DEF LimiterInv, LimiterTypeOK
  <2>4. NobodyAhead'
    <3> SUFFICES ASSUME NEW c \in Checks PROVE checks[c].stamp <= ticks + 1
      BY <2>1 DEF NobodyAhead
    <3>1. checks[c].stamp \in 0..MaxTicks /\ checks[c].stamp <= ticks
      BY CheckTyped DEF LimiterInv, NobodyAhead
    <3> QED BY <1>2, <3>1
  <2>5. \A a \in Callers : \A e \in Stamped : e.stamp \in Nat
    BY <1>2 DEF Stamped
  <2>6. EntriesPast'
    <3> SUFFICES ASSUME NEW a \in Callers, NEW e \in windows[a] PROVE e.stamp <= ticks + 1
      BY <2>1 DEF EntriesPast
    <3>1. e.stamp <= ticks /\ e.stamp \in Nat
      BY <2>5 DEF LimiterInv, LimiterTypeOK, EntriesPast
    <3> QED BY <1>2, <3>1
  <2>7. RecentKept'
    <3> SUFFICES ASSUME NEW a \in Callers, NEW e \in granted'[a], ticks' - e.stamp < Span
                 PROVE  e \in windows'[a]
      BY DEF RecentKept, Recent, Span
    <3>1. e \in granted[a] /\ e.stamp \in Nat
      BY <2>2, <2>5 DEF LimiterInv, LimiterTypeOK
    <3>2. ticks - e.stamp < Span
      BY <1>2, <2>1, <3>1, SpanNatural
    <3> QED BY <2>1, <3>1, <3>2 DEF LimiterInv, RecentKept, Recent
  <2>8. Bounded'
    <3> SUFFICES ASSUME NEW a \in Callers PROVE IsFiniteSet(granted'[a])
      BY <2>1 DEF LimiterInv, Bounded, Highest
    <3>1. granted'[a] \in SUBSET granted[a] /\ IsFiniteSet(granted[a])
      BY <2>2 DEF LimiterInv, Bounded
    <3> QED BY <3>1, FS_Subset
  <2>9. PromiseKept'
    BY <2>1 DEF LimiterInv, PromiseKept, Highest, Never, Span
  <2> QED BY <2>1, <2>3, <2>4, <2>6, <2>7, <2>8, <2>9 DEF LimiterInv
<1>8. CASE UNCHANGED limiterVars
  <2>1. UNCHANGED <<ticks, checks, windows, granted, promised>>
    BY <1>8 DEF limiterVars
  <2>2. LimiterTypeOK' /\ NobodyAhead'
    BY <2>1 DEF LimiterInv, LimiterTypeOK, NobodyAhead
  <2> QED BY <2>1, <2>2, ShrinkStep
<1> HIDE DEF Granted, Refused
<1> QED BY <1>3, <1>4, <1>5, <1>6, <1>7, <1>8 DEF LimiterNext

LEMMA LimiterStart == LimiterInit => LimiterInv
<1> SUFFICES ASSUME LimiterInit PROVE LimiterInv
  OBVIOUS
<1>1. 0 \in 0..MaxTicks /\ Never \in 0..Never
  BY LimiterAssumption, SpanNatural DEF Never
<1>2. Callers # {} => (CHOOSE a \in Callers : TRUE) \in Callers
  OBVIOUS
<1>3. LimiterTypeOK
  BY <1>1, <1>2, LimiterAssumption, HighestLimit DEF LimiterInit, LimiterTypeOK
<1>4. \A a \in Callers : windows[a] = {} /\ granted[a] = {} /\ promised[a] = Never
  BY DEF LimiterInit
<1>5. Bounded
  BY <1>4, HighestLimit, FS_EmptySet DEF Bounded
<1>6. NobodyAhead
  BY DEF LimiterInit, NobodyAhead
<1>7. EntriesPast /\ RecentKept /\ PromiseKept
  BY <1>4 DEF EntriesPast, RecentKept, Recent, PromiseKept
<1> QED BY <1>3, <1>5, <1>6, <1>7 DEF LimiterInv

\* LimiterInv holds in every reachable state.
THEOREM LimiterInvariance == LimiterSpec => []LimiterInv
  BY LimiterStart, LimiterStep, PTL DEF LimiterSpec

\* A granted call is within its limit of the calls of the last window, for any
\* number of checks at once, in whatever order late stamps get the lock.
THEOREM WindowRespectedSafety == LimiterSpec => WindowRespected
  BY LimiterStep, LimiterInvariance, PTL DEF LimiterSpec, WindowRespected

\* A caller of the highest limit that waits for its Retry-After is not refused
\* again before another call of the agent is granted.
THEOREM RetryHonestSafety == LimiterSpec => RetryHonest
  BY LimiterStep, LimiterInvariance, PTL DEF LimiterSpec, RetryHonest

(***************************************************************************)
(* TxSignature: what its recursive functions compute                       *)
(***************************************************************************)
\* A set of numbers with 0 in it and every successor up to top has them all.
LEMMA Steps ==
    ASSUME NEW top \in Nat, NEW S, 0 \in S,
           \A k \in 0 .. top - 1 : k \in S => k + 1 \in S
    PROVE  \A k \in 0 .. top : k \in S
<1> DEFINE Missing == {k \in 0 .. top : k \notin S}
<1>1. CASE Missing = {}
  BY <1>1
<1>2. CASE Missing # {}
  <2>1. Missing \in SUBSET Nat
    OBVIOUS
  <2>2. \E m \in Missing : \A k \in Missing : m <= k
    <3> HIDE DEF Missing
    <3> QED BY <1>2, <2>1, Least
  <2>3. PICK m \in Missing : \A k \in Missing : m <= k
    BY <2>2
  <2>4. m # 0 /\ m - 1 \in 0 .. top - 1 /\ m - 1 \notin Missing
    BY <2>3
  <2> QED BY <2>3, <2>4
<1> QED BY <1>1, <1>2

\* The recursion for the worth of digits has a solution.
LEMMA Worth ==
    ASSUME NEW d \in Seq(Digit)
    PROVE  /\ Prefixes(d) \in [0 .. Len(d) -> Nat]
           /\ Prefixes(d)[0] = 0
           /\ \A n \in 1 .. Len(d) : Prefixes(d)[n] = Prefixes(d)[n - 1] * Base + d[n]
<1> DEFINE Solves(g, k) == g[0] = 0 /\ \A n \in 1 .. k : g[n] = g[n - 1] * Base + d[n]
           Solved == {k \in 0 .. Len(d) : \E g \in [0 .. k -> Nat] : Solves(g, k)}
<1>1. Len(d) \in Nat /\ \A n \in 1 .. Len(d) : d[n] \in Nat
  BY SignatureAssumption DEF Digit
<1>2. 0 \in Solved
  <2> DEFINE g == [n \in 0 .. 0 |-> 0]
  <2>1. g \in [0 .. 0 -> Nat]
    OBVIOUS
  <2>2. Solves(g, 0)
    OBVIOUS
  <2>3. 0 \in 0 .. Len(d)
    BY <1>1
  <2> HIDE DEF g, Solves
  <2> QED BY <2>1, <2>2, <2>3
<1>3. ASSUME NEW k \in 0 .. Len(d) - 1, k \in Solved  PROVE k + 1 \in Solved
  <2>1. PICK g \in [0 .. k -> Nat] : Solves(g, k)
    BY <1>3
  <2> DEFINE h == [n \in 0 .. k + 1 |-> IF n = k + 1 THEN g[k] * Base + d[k + 1] ELSE g[n]]
  <2>2. h \in [0 .. k + 1 -> Nat]
    <3>1. g[k] * Base + d[k + 1] \in Nat
      BY <1>1, <2>1, SignatureAssumption
    <3> QED BY <3>1
  <2>3. Solves(h, k + 1)
    <3>1. h[0] = 0
      BY <2>1
    <3>2. ASSUME NEW n \in 1 .. k + 1  PROVE h[n] = h[n - 1] * Base + d[n]
      <4>1. CASE n = k + 1
        BY <4>1
      <4>2. CASE n \in 1 .. k
        BY <2>1, <4>2
      <4> QED BY <4>1, <4>2
    <3> QED BY <3>1, <3>2
  <2>4. k + 1 \in 0 .. Len(d)
    BY <1>1
  <2> QED BY <2>2, <2>3, <2>4
<1>4. Len(d) \in Solved
  <2> HIDE DEF Solved
  <2>1. \A k \in 0 .. Len(d) : k \in Solved
    BY <1>1, <1>2, <1>3, Steps
  <2> QED BY <1>1, <2>1
<1>5. PICK g \in [0 .. Len(d) -> Nat] : Solves(g, Len(d))
  BY <1>4
<1>6. g = [n \in 0 .. Len(d) |-> IF n = 0 THEN 0 ELSE g[n - 1] * Base + d[n]]
  <2> DEFINE h == [n \in 0 .. Len(d) |-> IF n = 0 THEN 0 ELSE g[n - 1] * Base + d[n]]
  <2>1. \A n \in 0 .. Len(d) : g[n] = h[n]
    BY <1>5
  <2> QED BY <2>1
<1> DEFINE p == Prefixes(d)
<1>7. p = [n \in 0 .. Len(d) |-> IF n = 0 THEN 0 ELSE p[n - 1] * Base + d[n]]
  BY <1>6 DEF Prefixes
<1> HIDE DEF p
<1>8. p[0] = 0
  BY <1>1, <1>7
<1>9. ASSUME NEW n \in 1 .. Len(d) PROVE p[n] = p[n - 1] * Base + d[n]
  <2>1. n \in 0 .. Len(d) /\ n # 0
    BY <1>1
  <2> QED BY <1>7, <2>1
<1>10. \A n \in 0 .. Len(d) : p[n] \in Nat
  <2> DEFINE S == {n \in 0 .. Len(d) : p[n] \in Nat}
  <2>1. 0 \in S
    BY <1>1, <1>8
  <2>2. ASSUME NEW k \in 0 .. Len(d) - 1, k \in S PROVE k + 1 \in S
    <3>1. k + 1 \in 1 .. Len(d) /\ p[k] \in Nat
      BY <1>1, <2>2
    <3>2. p[k + 1] = p[k] * Base + d[k + 1]
      BY <1>9, <3>1
    <3>3. d[k + 1] \in Nat /\ Base \in Nat
      BY <1>1, <3>1, SignatureAssumption
    <3>4. \A x, y, z \in Nat : x * y + z \in Nat
      OBVIOUS
    <3>5. p[k + 1] \in Nat
      BY <3>1, <3>2, <3>3, <3>4
    <3> QED BY <3>1, <3>5
  <2>3. \A k \in 0 .. Len(d) : k \in S
    <3> HIDE DEF S
    <3> QED BY <1>1, <2>1, <2>2, Steps
  <2> QED BY <2>3
<1>11. p \in [0 .. Len(d) -> Nat]
  BY <1>7, <1>10
<1> QED BY <1>8, <1>9, <1>11 DEF p

\* The recursion for the borrows has a solution as well.
LEMMA Borrowing ==
    ASSUME NEW s \in Numbers
    PROVE  /\ Borrows(s) \in [0 .. Width -> {0, 1}]
           /\ Borrows(s)[Width] = 0
           /\ \A i \in 0 .. Width - 1 :
                Borrows(s)[i] = IF Order[i + 1] - s[i + 1] - Borrows(s)[i + 1] >= 0 THEN 0 ELSE 1
<1> DEFINE Lent(g, i) == IF i = Width \/ Order[i + 1] - s[i + 1] - g[i + 1] >= 0 THEN 0 ELSE 1
           Solved == {k \in 0 .. Width : \E g \in [Width - k .. Width -> {0, 1}] :
                                           \A i \in Width - k .. Width : g[i] = Lent(g, i)}
<1>1. Width \in Nat
  BY SignatureAssumption
<1>2. 0 \in Solved
  <2> DEFINE g == [i \in Width - 0 .. Width |-> 0]
  <2>1. g \in [Width - 0 .. Width -> {0, 1}]
    OBVIOUS
  <2>2. \A i \in Width - 0 .. Width : g[i] = Lent(g, i)
    BY <1>1
  <2>3. 0 \in 0 .. Width
    BY <1>1
  <2> HIDE DEF g, Lent
  <2> QED BY <2>1, <2>2, <2>3
<1>3. ASSUME NEW k \in 0 .. Width - 1, k \in Solved  PROVE k + 1 \in Solved
  <2>1. PICK g \in [Width - k .. Width -> {0, 1}] : \A i \in Width - k .. Width : g[i] = Lent(g, i)
    BY <1>3
  <2> DEFINE first == Width - (k + 1)
             h == [i \in first .. Width |-> IF i = first THEN Lent(g, first) ELSE g[i]]
  <2>2. h \in [first .. Width -> {0, 1}]
    BY <1>1, <2>1
  <2>3. ASSUME NEW i \in first .. Width  PROVE h[i] = Lent(h, i)
    <3>1. CASE i = first
      <4>1. h[first + 1] = g[first + 1] /\ h[first] = Lent(g, first)
        BY <1>1
      <4> QED BY <3>1, <4>1
    <3>2. CASE i # first
      <4>1. i \in Width - k .. Width /\ h[i] = g[i] /\ g[i] = Lent(g, i)
        BY <1>1, <2>1, <3>2
      <4>2. CASE i = Width
        BY <4>1, <4>2
      <4>3. CASE i # Width
        <5>1. i + 1 \in first .. Width /\ i + 1 # first
          BY <1>1, <4>1, <4>3
        <5>2. h[i + 1] = g[i + 1]
          BY <5>1
        <5> QED BY <4>1, <5>2
      <4> QED BY <4>2, <4>3
    <3> QED BY <3>1, <3>2
  <2>4. k + 1 \in 0 .. Width
    BY <1>1
  <2> QED BY <2>2, <2>3, <2>4
<1>4. Width \in Solved
  <2> HIDE DEF Solved
  <2>1. \A k \in 0 .. Width : k \in Solved
    BY <1>1, <1>2, <1>3, Steps
  <2> QED BY <1>1, <2>1
<1>5. PICK g \in [0 .. Width -> {0, 1}] : \A i \in 0 .. Width : g[i] = Lent(g, i)
  <2>1. Width - Width = 0
    BY <1>1
  <2> QED BY <1>4, <2>1
<1>6. g = [i \in 0 .. Width |-> Lent(g, i)]
  <2> DEFINE h == [i \in 0 .. Width |-> Lent(g, i)]
  <2>1. \A i \in 0 .. Width : g[i] = h[i]
    BY <1>5
  <2> QED BY <2>1
<1> DEFINE b == Borrows(s)
<1>7. b = [i \in 0 .. Width |-> Lent(b, i)]
  BY <1>6 DEF Borrows
<1> HIDE DEF b
<1>8. \A i \in 0 .. Width : b[i] = Lent(b, i) /\ b[i] \in {0, 1}
  BY <1>7
<1>9. b \in [0 .. Width -> {0, 1}] /\ b[Width] = 0
  BY <1>1, <1>7, <1>8
<1>10. \A i \in 0 .. Width - 1 : b[i] = IF Order[i + 1] - s[i + 1] - b[i + 1] >= 0 THEN 0 ELSE 1
  BY <1>1, <1>8
<1> QED BY <1>9, <1>10 DEF b

\* A number is a sequence of Width digits.
LEMMA NumberIs ==
    ASSUME NEW x
    PROVE  /\ x \in Numbers <=> x \in Seq(Digit) /\ Len(x) = Width
           /\ x \in Numbers => /\ \A i \in 1 .. Width : x[i] \in Digit /\ x[i] \in 0 .. Base - 1
                               /\ Value(x) = Prefixes(x)[Width] /\ Value(x) \in Nat
<1>1. Width \in Nat
  BY SignatureAssumption
<1>2. ASSUME x \in Numbers PROVE x \in Seq(Digit) /\ Len(x) = Width
  BY <1>1, <1>2 DEF Numbers
<1>3. ASSUME x \in Seq(Digit), Len(x) = Width PROVE x \in Numbers
  BY <1>3 DEF Numbers
<1>4. ASSUME x \in Numbers PROVE Value(x) = Prefixes(x)[Width] /\ Value(x) \in Nat
  <2>1. Width \in 0 .. Width
    BY <1>1
  <2> QED BY <1>2, <1>4, <2>1, Worth DEF Value
<1>5. ASSUME x \in Numbers, NEW i \in 1 .. Width PROVE x[i] \in Digit /\ x[i] \in 0 .. Base - 1
  BY <1>5 DEF Numbers, Digit
<1> QED BY <1>2, <1>3, <1>4, <1>5

\* Of two numbers the one with the larger first differing digit is the larger.
LEMMA FirstDifference ==
    ASSUME NEW a \in Numbers, NEW b \in Numbers, NEW i \in 1 .. Width,
           a[i] > b[i], \A k \in 1 .. i - 1 : a[k] = b[k]
    PROVE  Value(a) > Value(b)
<1>1. Width \in Nat /\ i \in Nat /\ Base \in Nat /\ Base >= 4
  BY SignatureAssumption
<1>2. a \in Seq(Digit) /\ Len(a) = Width /\ b \in Seq(Digit) /\ Len(b) = Width
  BY NumberIs
<1> DEFINE p == Prefixes(a)
           q == Prefixes(b)
<1>3. /\ p \in [0 .. Width -> Nat] /\ q \in [0 .. Width -> Nat]
      /\ p[0] = 0 /\ q[0] = 0
      /\ \A n \in 1 .. Width : p[n] = p[n - 1] * Base + a[n]
      /\ \A n \in 1 .. Width : q[n] = q[n - 1] * Base + b[n]
  BY <1>2, Worth
<1>4. \A k \in 1 .. Width : a[k] \in 0 .. Base - 1 /\ b[k] \in 0 .. Base - 1
  BY NumberIs
<1> HIDE DEF p, q
<1>5. p[i - 1] = q[i - 1]
  <2> DEFINE S == {n \in 0 .. Width : n < i => p[n] = q[n]}
  <2>1. 0 \in S
    BY <1>1, <1>3
  <2>2. ASSUME NEW k \in 0 .. Width - 1, k \in S PROVE k + 1 \in S
    <3>1. k + 1 \in 1 .. Width /\ k \in 0 .. Width
      BY <1>1
    <3>2. CASE k + 1 < i
      <4>1. k + 1 \in 1 .. i - 1 /\ p[k] = q[k]
        BY <1>1, <2>2, <3>1, <3>2
      <4>2. a[k + 1] = b[k + 1]
        BY <4>1
      <4>3. p[k + 1] = p[k] * Base + a[k + 1] /\ q[k + 1] = q[k] * Base + b[k + 1]
        BY <1>3, <3>1
      <4> QED BY <3>1, <4>1, <4>2, <4>3
    <3>3. CASE ~ (k + 1 < i)
      BY <3>1, <3>3
    <3> QED BY <3>2, <3>3
  <2>3. \A k \in 0 .. Width : k \in S
    <3> HIDE DEF S
    <3> QED BY <1>1, <2>1, <2>2, Steps
  <2>4. i - 1 \in 0 .. Width /\ i - 1 < i
    BY <1>1
  <2> QED BY <2>3, <2>4
<1>6. p[Width] > q[Width]
  <2> DEFINE S == {n \in 0 .. Width : n >= i => p[n] > q[n]}
  <2>1. 0 \in S
    BY <1>1
  <2>2. ASSUME NEW k \in 0 .. Width - 1, k \in S PROVE k + 1 \in S
    <3>1. k + 1 \in 1 .. Width /\ k \in 0 .. Width /\ p[k] \in Nat /\ q[k] \in Nat
      BY <1>1, <1>3
    <3>2. p[k + 1] = p[k] * Base + a[k + 1] /\ q[k + 1] = q[k] * Base + b[k + 1]
      BY <1>3, <3>1
    <3>3. a[k + 1] \in 0 .. Base - 1 /\ b[k + 1] \in 0 .. Base - 1
      BY <1>4, <3>1
    <3>4. CASE k + 1 = i
      <4>1. p[k] = q[k] /\ a[k + 1] > b[k + 1]
        <5>1. k = i - 1
          BY <1>1, <3>4
        <5> QED BY <1>5, <3>4, <5>1
      <4>2. p[k] * Base \in Nat
        BY <1>1, <3>1
      <4>3. p[k + 1] > q[k + 1]
        <5> DEFINE w == p[k] * Base
        <5>1. p[k + 1] = w + a[k + 1] /\ q[k + 1] = w + b[k + 1] /\ w \in Nat
          BY <3>2, <4>1, <4>2
        <5> HIDE DEF w
        <5> QED BY <3>3, <4>1, <5>1
      <4> QED BY <3>1, <4>3
    <3>5. CASE k >= i
      <4>1. p[k] >= q[k] + 1
        BY <2>2, <3>1, <3>5
      <4>2. \A x, y, c \in Nat : x >= y + 1 => x * c >= y * c + c
        <5>1. \A x, y, c \in Nat : x >= y + 1 => (x - y - 1) * c >= 0
          <6>1. \A u, v \in Nat : u * v \in Nat
            OBVIOUS
          <6>2. \A x, y \in Nat : x >= y + 1 => x - y - 1 \in Nat
            OBVIOUS
          <6> QED BY <6>1, <6>2
        <5> QED BY <5>1
      <4>3. p[k] * Base >= q[k] * Base + Base
        BY <1>1, <3>1, <4>1, <4>2
      <4>4. p[k] * Base \in Nat /\ q[k] * Base \in Nat
        BY <1>1, <3>1
      <4>5. p[k + 1] > q[k + 1]
        <5> DEFINE w == p[k] * Base
                   v == q[k] * Base
        <5>1. p[k + 1] = w + a[k + 1] /\ q[k + 1] = v + b[k + 1] /\ w \in Nat /\ v \in Nat /\ w >= v + Base
          BY <3>2, <4>3, <4>4
        <5> HIDE DEF w, v
        <5> QED BY <1>1, <3>3, <5>1
      <4> QED BY <3>1, <4>5
    <3>6. CASE k + 1 < i
      BY <1>1, <3>1, <3>6
    <3>7. k + 1 = i \/ k >= i \/ k + 1 < i
      BY <1>1, <3>1
    <3> QED BY <3>4, <3>5, <3>6, <3>7
  <2>3. \A k \in 0 .. Width : k \in S
    <3> HIDE DEF S
    <3> QED BY <1>1, <2>1, <2>2, Steps
  <2>4. Width \in 0 .. Width /\ Width >= i
    BY <1>1
  <2> QED BY <2>3, <2>4
<1> QED BY <1>6, NumberIs DEF p, q

\* The comparison digit by digit compares the numbers.
LEMMA HighIsAboveHalf ==
    ASSUME NEW s \in Numbers
    PROVE  IsHighS(s) <=> Value(s) > Value(HalfOrder)
<1>1. HalfOrder \in Numbers /\ Width \in Nat
  BY SignatureAssumption
<1>2. Value(s) \in Nat /\ Value(HalfOrder) \in Nat
  BY <1>1, NumberIs
<1>3. ASSUME IsHighS(s) PROVE Value(s) > Value(HalfOrder)
  BY <1>1, <1>3, FirstDifference DEF IsHighS
<1>4. ASSUME ~ IsHighS(s) PROVE ~ (Value(s) > Value(HalfOrder))
  <2> DEFINE Differ == {i \in 1 .. Width : s[i] # HalfOrder[i]}
  <2>1. CASE Differ = {}
    <3>1. \A i \in 1 .. Width : s[i] = HalfOrder[i]
      BY <2>1
    <3>2. s = HalfOrder
      BY <1>1, <3>1 DEF Numbers
    <3> QED BY <1>2, <3>2
  <2>2. CASE Differ # {}
    <3>1. Differ \in SUBSET Nat
      OBVIOUS
    <3>2. \E i \in Differ : \A k \in Differ : i <= k
      <4> HIDE DEF Differ
      <4> QED BY <2>2, <3>1, Least
    <3>3. PICK i \in Differ : \A k \in Differ : i <= k
      BY <3>2
    <3>4. i \in 1 .. Width /\ \A k \in 1 .. i - 1 : s[k] = HalfOrder[k]
      BY <1>1, <3>3
    <3>5. s[i] \in Nat /\ HalfOrder[i] \in Nat
      BY <1>1, <3>4, NumberIs
    <3>6. ~ (s[i] > HalfOrder[i])
      BY <1>4, <3>4 DEF IsHighS
    <3>7. HalfOrder[i] > s[i]
      BY <3>3, <3>5, <3>6
    <3>8. \A k \in 1 .. i - 1 : HalfOrder[k] = s[k]
      BY <3>4
    <3>9. Value(HalfOrder) > Value(s)
      BY <1>1, <3>4, <3>7, <3>8, FirstDifference
    <3> QED BY <1>2, <3>9
  <2> QED BY <2>1, <2>2
<1> QED BY <1>3, <1>4

\* Subtraction with borrows subtracts, for every number that is not above the order.
LEMMA SubtractSubtracts ==
    ASSUME NEW s \in Numbers, Value(s) <= Value(Order)
    PROVE  Subtract(s) \in Numbers /\ Value(Subtract(s)) = Value(Order) - Value(s)
<1> DEFINE t == Subtract(s)
           b == Borrows(s)
           o == Prefixes(Order)
           p == Prefixes(s)
           q == Prefixes(t)
<1>1. Width \in Nat /\ Base \in Nat /\ Base >= 4 /\ Order \in Numbers
  BY SignatureAssumption
<1>2. /\ b \in [0 .. Width -> {0, 1}] /\ b[Width] = 0
      /\ \A i \in 1 .. Width : b[i - 1] = IF Order[i] - s[i] - b[i] >= 0 THEN 0 ELSE 1
  <2>1. \A i \in 0 .. Width - 1 : b[i] = IF Order[i + 1] - s[i + 1] - b[i + 1] >= 0 THEN 0 ELSE 1
    BY Borrowing
  <2>2. \A i \in 1 .. Width : i - 1 \in 0 .. Width - 1 /\ i - 1 + 1 = i
    BY <1>1
  <2>3. \A i \in 1 .. Width : b[i - 1] = IF Order[i] - s[i] - b[i] >= 0 THEN 0 ELSE 1
    <3> HIDE DEF b
    <3> QED BY <2>1, <2>2
  <2> QED BY <2>3, Borrowing
<1>3. \A i \in 1 .. Width : s[i] \in 0 .. Base - 1 /\ Order[i] \in 0 .. Base - 1
  BY <1>1, NumberIs
<1>4. t = [i \in 1 .. Width |-> IF Order[i] - s[i] - b[i] < 0 THEN Order[i] - s[i] - b[i] + Base
                                ELSE Order[i] - s[i] - b[i]]
  BY DEF Subtract
<1> HIDE DEF b, t
<1>5. ASSUME NEW i \in 1 .. Width
      PROVE  t[i] \in 0 .. Base - 1 /\ Order[i] - s[i] - b[i] = t[i] - Base * b[i - 1]
  <2>1. b[i] \in {0, 1} /\ i \in 0 .. Width
    BY <1>1, <1>2
  <2>2. t[i] = IF Order[i] - s[i] - b[i] < 0 THEN Order[i] - s[i] - b[i] + Base
               ELSE Order[i] - s[i] - b[i]
    BY <1>4
  <2>3. b[i - 1] = IF Order[i] - s[i] - b[i] >= 0 THEN 0 ELSE 1
    BY <1>2
  <2>4. s[i] \in 0 .. Base - 1 /\ Order[i] \in 0 .. Base - 1
    BY <1>3
  <2>5. CASE Order[i] - s[i] - b[i] >= 0
    <3>1. b[i - 1] = 0 /\ t[i] = Order[i] - s[i] - b[i]
      BY <1>1, <2>1, <2>2, <2>3, <2>4, <2>5
    <3> QED BY <1>1, <2>1, <2>4, <2>5, <3>1
  <2>6. CASE Order[i] - s[i] - b[i] < 0
    <3>1. b[i - 1] = 1 /\ t[i] = Order[i] - s[i] - b[i] + Base
      BY <1>1, <2>1, <2>2, <2>3, <2>4, <2>6
    <3> QED BY <1>1, <2>1, <2>4, <2>6, <3>1
  <2>7. Order[i] - s[i] - b[i] \in Int
    BY <1>1, <2>1, <2>4
  <2> QED BY <2>5, <2>6, <2>7
<1>6. t \in Numbers
  BY <1>4, <1>5 DEF Numbers, Digit
<1>7. /\ o \in [0 .. Width -> Nat] /\ p \in [0 .. Width -> Nat] /\ q \in [0 .. Width -> Nat]
      /\ o[0] = 0 /\ p[0] = 0 /\ q[0] = 0
      /\ \A n \in 1 .. Width : /\ o[n] = o[n - 1] * Base + Order[n]
                               /\ p[n] = p[n - 1] * Base + s[n]
                               /\ q[n] = q[n - 1] * Base + t[n]
  BY <1>1, <1>6, NumberIs, Worth
<1>8. Value(Order) = o[Width] /\ Value(s) = p[Width] /\ Value(t) = q[Width]
  BY <1>1, <1>6, NumberIs
<1> HIDE DEF o, p, q
\* The difference of the prefixes, less what is borrowed from them, follows the
\* recursion of the prefixes of t.
<1>9. ASSUME NEW k \in 0 .. Width - 1
      PROVE  /\ k \in 0 .. Width /\ k + 1 \in 0 .. Width
             /\ o[k] \in Nat /\ p[k] \in Nat /\ q[k] \in Nat /\ b[k] \in {0, 1}
             /\ o[k + 1] \in Nat /\ p[k + 1] \in Nat /\ q[k + 1] \in Nat /\ b[k + 1] \in {0, 1}
             /\ t[k + 1] \in Nat
             /\ o[k + 1] - p[k + 1] - b[k + 1] = (o[k] - p[k] - b[k]) * Base + t[k + 1]
             /\ q[k + 1] = q[k] * Base + t[k + 1]
  <2>1. k + 1 \in 1 .. Width /\ k \in 0 .. Width /\ k + 1 \in 0 .. Width /\ k + 1 - 1 = k
    BY <1>1
  <2>2. /\ o[k] \in Nat /\ p[k] \in Nat /\ q[k] \in Nat /\ b[k] \in {0, 1}
        /\ o[k + 1] \in Nat /\ p[k + 1] \in Nat /\ q[k + 1] \in Nat /\ b[k + 1] \in {0, 1}
    BY <1>2, <1>7, <2>1
  <2>3. /\ o[k + 1] = o[k] * Base + Order[k + 1]
        /\ p[k + 1] = p[k] * Base + s[k + 1]
        /\ q[k + 1] = q[k] * Base + t[k + 1]
    BY <1>7, <2>1
  <2>4. /\ s[k + 1] \in Nat /\ Order[k + 1] \in Nat /\ t[k + 1] \in Nat
        /\ Order[k + 1] - s[k + 1] - b[k + 1] = t[k + 1] - Base * b[k]
    BY <1>1, <1>3, <1>5, <2>1
  <2>5. \A x, y, z \in Int : (x - y - z) * Base = x * Base - y * Base - Base * z
    BY <1>1
  <2>6. \A x \in Int : x * Base \in Int /\ Base * x \in Int
    BY <1>1
  <2>7. (o[k] - p[k] - b[k]) * Base = o[k] * Base - p[k] * Base - Base * b[k]
    <3>1. o[k] \in Int /\ p[k] \in Int /\ b[k] \in Int
      BY <2>2
    <3> DEFINE x == o[k]
               y == p[k]
               z == b[k]
    <3>2. x \in Int /\ y \in Int /\ z \in Int
      BY <3>1
    <3> HIDE DEF x, y, z
    <3>3. (x - y - z) * Base = x * Base - y * Base - Base * z
      BY <2>5, <3>2, Zenon
    <3> QED BY <3>3 DEF x, y, z
  <2>8. o[k] * Base \in Int /\ p[k] * Base \in Int /\ Base * b[k] \in Int
    BY <2>2, <2>6
  <2> DEFINE u == o[k] * Base
             v == p[k] * Base
             w == Base * b[k]
             d == (o[k] - p[k] - b[k]) * Base
  <2>9. /\ u \in Int /\ v \in Int /\ w \in Int /\ d = u - v - w
        /\ o[k + 1] = u + Order[k + 1] /\ p[k + 1] = v + s[k + 1]
        /\ Order[k + 1] - s[k + 1] - b[k + 1] = t[k + 1] - w
    BY <2>3, <2>4, <2>7, <2>8
  <2>10. o[k + 1] - p[k + 1] - b[k + 1] = d + t[k + 1]
    <3> HIDE DEF u, v, w, d
    <3> QED BY <2>2, <2>4, <2>9
  <2> QED BY <2>1, <2>2, <2>3, <2>4, <2>10
<1>10. Value(s) \in Nat /\ Value(Order) \in Nat
  BY <1>1, NumberIs
<1>11. b[0] = 0
  <2>1. SUFFICES ASSUME b[0] = 1 PROVE FALSE
    <3>1. 0 \in 0 .. Width
      BY <1>1
    <3> QED BY <1>2, <3>1
  \* A debt of the first digits is not paid by the digits that follow.
  <2> DEFINE S == {n \in 0 .. Width : o[n] - p[n] - b[n] <= 0 - 1}
  <2>2. 0 \in S
    BY <1>1, <1>7, <2>1
  <2>3. ASSUME NEW k \in 0 .. Width - 1, k \in S PROVE k + 1 \in S
    <3>1. t[k + 1] <= Base - 1
      <4>1. k + 1 \in 1 .. Width
        BY <1>1
      <4> QED BY <1>1, <1>5, <4>1
    <3>2. \A x \in Int : x <= 0 - 1 => x * Base <= 0 - Base
      <4>1. \A x \in Int : x <= 0 - 1 => (0 - 1 - x) * Base \in Nat
        BY <1>1
      <4>2. \A x \in Int : (0 - 1 - x) * Base = 0 - Base - x * Base /\ x * Base \in Int
        BY <1>1
      <4> QED BY <1>1, <4>1, <4>2
    <3>3. (o[k] - p[k] - b[k]) * Base <= 0 - Base /\ (o[k] - p[k] - b[k]) * Base \in Int
      <4>1. o[k] - p[k] - b[k] \in Int /\ o[k] - p[k] - b[k] <= 0 - 1
        BY <1>9, <2>3
      <4> DEFINE x == o[k] - p[k] - b[k]
      <4>2. x \in Int /\ x <= 0 - 1
        BY <4>1
      <4> HIDE DEF x
      <4>3. x * Base <= 0 - Base /\ x * Base \in Int
        BY <1>1, <3>2, <4>2
      <4> QED BY <4>3 DEF x
    <3> DEFINE d == (o[k] - p[k] - b[k]) * Base
    <3>4. d <= 0 - Base /\ d \in Int /\ o[k + 1] - p[k + 1] - b[k + 1] = d + t[k + 1]
      BY <1>9, <3>3
    <3>5. o[k + 1] - p[k + 1] - b[k + 1] <= 0 - 1
      <4> HIDE DEF d
      <4> QED BY <1>1, <1>9, <3>1, <3>4
    <3> QED BY <1>9, <3>5
  <2>4. \A k \in 0 .. Width : k \in S
    <3> HIDE DEF S
    <3> QED BY <1>1, <2>2, <2>3, Steps
  <2>5. Width \in S
    BY <1>1, <2>4
  <2> QED BY <1>2, <1>8, <1>10, <2>5
<1>12. q[Width] = o[Width] - p[Width] - b[Width]
  <2> DEFINE S == {n \in 0 .. Width : q[n] = o[n] - p[n] - b[n]}
  <2>1. 0 \in S
    BY <1>1, <1>7, <1>11
  <2>2. ASSUME NEW k \in 0 .. Width - 1, k \in S PROVE k + 1 \in S
    BY <1>9, <2>2
  <2>3. \A k \in 0 .. Width : k \in S
    <3> HIDE DEF S
    <3> QED BY <1>1, <2>1, <2>2, Steps
  <2> QED BY <1>1, <2>3
<1>13. Value(t) = Value(Order) - Value(s)
  BY <1>2, <1>8, <1>10, <1>12
<1> QED BY <1>6, <1>13 DEF t

\* What is signed: s or what it lacks to the order, whichever is not above half of it.
LEMMA NormalizeIsLow ==
    ASSUME NEW s \in Scalars
    PROVE  /\ NormalizeS(s) \in Numbers
           /\ Value(NormalizeS(s)) > 0 /\ Value(NormalizeS(s)) <= Value(HalfOrder)
           /\ \/ Value(NormalizeS(s)) = Value(s)
              \/ Value(NormalizeS(s)) = Value(Order) - Value(s)
<1>1. /\ s \in Numbers /\ Value(s) > 0 /\ Value(s) < Value(Order) /\ Value(s) \in Nat
      /\ Value(HalfOrder) \in Nat /\ Value(Order) = 2 * Value(HalfOrder) + 1
  BY SignatureAssumption, NumberIs DEF Scalars
<1>2. CASE IsHighS(s)
  <2>1. Value(s) > Value(HalfOrder)
    BY <1>1, <1>2, HighIsAboveHalf
  <2>2. Subtract(s) \in Numbers /\ Value(Subtract(s)) = Value(Order) - Value(s)
    BY <1>1, SubtractSubtracts
  <2>3. NormalizeS(s) = Subtract(s)
    BY <1>2 DEF NormalizeS
  <2> QED BY <1>1, <2>1, <2>2, <2>3
<1>3. CASE ~ IsHighS(s)
  <2>1. ~ (Value(s) > Value(HalfOrder))
    BY <1>1, <1>3, HighIsAboveHalf
  <2>2. NormalizeS(s) = s
    BY <1>3 DEF NormalizeS
  <2> QED BY <1>1, <2>1, <2>2
<1> QED BY <1>2, <1>3

(***************************************************************************)
(* TxSignature: what is written into a sequence and read from it           *)
(***************************************************************************)
\* The digits that padding puts before a number.
Zeros(n) == [i \in 1 .. n |-> 0]

\* The pieces of a concatenation.
LEMMA Pieces ==
    ASSUME NEW a \in Seq(Int), NEW b \in Seq(Int)
    PROVE  /\ Len(a) \in Nat /\ Len(b) \in Nat
           /\ a \o b \in Seq(Int) /\ Len(a \o b) = Len(a) + Len(b)
           /\ \A i \in 1 .. Len(a) : (a \o b)[i] = a[i]
           /\ SubSeq(a \o b, 1, Len(a)) = a
           /\ SubSeq(a \o b, Len(a) + 1, Len(a) + Len(b)) = b
<1>1. /\ Len(a) \in Nat /\ Len(b) \in Nat
      /\ a \o b \in Seq(Int) /\ Len(a \o b) = Len(a) + Len(b)
      /\ \A i \in 1 .. Len(a) + Len(b) : (a \o b)[i] = IF i <= Len(a) THEN a[i] ELSE b[i - Len(a)]
      /\ \A i \in 1 .. Len(a) : a[i] \in Int
      /\ \A i \in 1 .. Len(b) : b[i] \in Int
  BY ConcatProperties, ElementOfSeq, LenProperties
<1> DEFINE ab == a \o b
           m == Len(a)
           n == Len(b)
<1>2. \A i \in 1 .. m + n : ab[i] \in Int
  BY <1>1, ElementOfSeq
<1>3. SubSeq(ab, 1, m) = a
  <2> DEFINE t == SubSeq(ab, 1, m)
  <2>1. \A i \in 1 .. m : ab[i] \in Int
    BY <1>1, <1>2
  <2>2. /\ t \in Seq(Int) /\ Len(t) = IF 1 <= m THEN m - 1 + 1 ELSE 0
        /\ \A i \in 1 .. m - 1 + 1 : t[i] = ab[1 + i - 1]
    <3> HIDE DEF ab
    <3> QED BY <1>1, <2>1, SubSeqProperties
  <2>3. Len(t) = Len(a)
    BY <1>1, <2>2
  <2>4. \A i \in 1 .. Len(t) : t[i] = a[i]
    BY <1>1, <2>2
  <2> QED BY <2>2, <2>3, <2>4, SeqEqual
<1>4. SubSeq(ab, m + 1, m + n) = b
  <2> DEFINE t == SubSeq(ab, m + 1, m + n)
  <2>1. \A i \in m + 1 .. m + n : ab[i] \in Int
    BY <1>1, <1>2
  <2>2. /\ t \in Seq(Int) /\ Len(t) = IF m + 1 <= m + n THEN m + n - (m + 1) + 1 ELSE 0
        /\ \A i \in 1 .. m + n - (m + 1) + 1 : t[i] = ab[m + 1 + i - 1]
    <3> HIDE DEF ab
    <3> QED BY <1>1, <2>1, SubSeqProperties
  <2>3. Len(t) = Len(b)
    BY <1>1, <2>2
  <2>4. \A i \in 1 .. Len(t) : t[i] = b[i]
    BY <1>1, <2>2
  <2> QED BY <2>2, <2>3, <2>4, SeqEqual
<1> QED BY <1>1, <1>3, <1>4

\* Octets are integers, of which the lemmas on sequences speak.
LEMMA DigitsAreIntegers == ASSUME NEW d \in Seq(Digit) PROVE d \in Seq(Int)
  BY SignatureAssumption, SeqMonotonic DEF Digit

\* Leading zeros are worth nothing.
LEMMA ZerosWorth ==
    ASSUME NEW d \in Seq(Digit), NEW n \in 0 .. Len(d), \A i \in 1 .. n : d[i] = 0
    PROVE  Prefixes(d)[n] = 0
<1> DEFINE p == Prefixes(d)
           S == {k \in 0 .. n : p[k] = 0}
<1>1. /\ Len(d) \in Nat /\ p[0] = 0 /\ p \in [0 .. Len(d) -> Nat]
      /\ \A k \in 1 .. Len(d) : p[k] = p[k - 1] * Base + d[k]
  BY Worth, LenProperties
<1> HIDE DEF p
<1>2. 0 \in S
  BY <1>1
<1>3. ASSUME NEW k \in 0 .. n - 1, k \in S PROVE k + 1 \in S
  <2>1. k + 1 \in 1 .. n /\ k + 1 \in 1 .. Len(d) /\ k + 1 - 1 = k /\ p[k] = 0
    BY <1>1, <1>3
  <2>2. p[k + 1] = 0 * Base + 0
    BY <1>1, <2>1
  <2> QED BY <2>1, <2>2, SignatureAssumption
<1>4. \A k \in 0 .. n : k \in S
  <2> HIDE DEF S
  <2> QED BY <1>2, <1>3, Steps
<1> QED BY <1>4 DEF p

\* What StripLeadingZeros cuts off is zeros, all of them, and they are worth nothing.
LEMMA Stripped ==
    ASSUME NEW d \in Seq(Digit)
    PROVE  LET t == StripLeadingZeros(d)
           IN  /\ t \in Seq(Digit) /\ Len(t) \in 0 .. Len(d)
               /\ t # <<>> => t[1] # 0
               /\ Len(d) \in Nat /\ Zeros(Len(d) - Len(t)) \in Seq(Digit)
               /\ d = Zeros(Len(d) - Len(t)) \o t
               /\ Value(t) = Value(d)
               /\ t = <<>> => Value(d) = 0
<1> DEFINE t == StripLeadingZeros(d)
           n == Len(d)
           nonzero == {i \in 1 .. n : d[i] # 0}
<1>1. n \in Nat /\ Base \in Nat /\ Base >= 4 /\ \A i \in 1 .. n : d[i] \in Digit
  BY SignatureAssumption, LenProperties, ElementOfSeq
<1>2. 0 \in Digit
  BY <1>1 DEF Digit
<1>3. \A k \in Nat : Zeros(k) \in Seq(Digit) /\ Len(Zeros(k)) = k /\ \A i \in 1 .. k : Zeros(k)[i] = 0
  BY <1>2 DEF Zeros
<1>4. CASE nonzero = {}
  <2>1. t = <<>>
    BY <1>4 DEF StripLeadingZeros
  <2>2. \A i \in 1 .. n : d[i] = 0
    BY <1>4
  <2>3. Value(d) = 0
    BY <1>1, <2>2, ZerosWorth DEF Value
  <2>4. <<>> \in Seq(Digit) /\ Len(<<>>) = 0
    BY EmptySeq
  <2>5. Value(<<>>) = 0
    BY <2>4, Worth DEF Value
  <2>6. d = Zeros(n)
    BY <1>1, <1>3, <2>2, SeqEqual
  <2>7. Zeros(n) \o <<>> = Zeros(n)
    BY <1>1, <1>3, ConcatEmptySeq
  <2>8. n - Len(<<>>) = n /\ 0 \in 0 .. n
    BY <1>1, <2>4
  <2> QED BY <1>1, <1>3, <2>1, <2>3, <2>4, <2>5, <2>6, <2>7, <2>8
<1>5. CASE nonzero # {}
  <2> DEFINE first == CHOOSE i \in nonzero : \A k \in nonzero : i <= k
  <2>1. \E i \in nonzero : \A k \in nonzero : i <= k
    <3>1. nonzero \in SUBSET Nat
      OBVIOUS
    <3> HIDE DEF nonzero
    <3> QED BY <1>5, <3>1, Least
  <2>2. first \in nonzero /\ \A k \in nonzero : first <= k
    <3> HIDE DEF nonzero
    <3> QED BY <2>1
  <2>3. t = SubSeq(d, first, n)
    BY <1>5 DEF StripLeadingZeros
  <2> HIDE DEF first, t
  <2>4. first \in 1 .. n /\ d[first] # 0 /\ \A i \in 1 .. first - 1 : d[i] = 0
    BY <1>1, <2>2
  <2>5. /\ t \in Seq(Digit) /\ Len(t) = n - first + 1
        /\ \A i \in 1 .. n - first + 1 : t[i] = d[first + i - 1]
    <3>1. \A i \in first .. n : d[i] \in Digit
      BY <1>1, <2>4
    <3> QED BY <1>1, <2>3, <2>4, <3>1, SubSeqProperties
  <2>6. Len(t) \in 0 .. n /\ n - Len(t) = first - 1 /\ first - 1 \in Nat
    BY <1>1, <2>4, <2>5
  <2>7. t # <<>> /\ t[1] # 0
    BY <1>1, <2>4, <2>5
  <2>8. d = Zeros(first - 1) \o t
    <3> DEFINE z == Zeros(first - 1)
               e == z \o t
    <3>1. z \in Seq(Digit) /\ Len(z) = first - 1 /\ \A i \in 1 .. first - 1 : z[i] = 0
      BY <1>3, <2>6
    <3> HIDE DEF z
    <3>2. /\ e \in Seq(Digit) /\ Len(e) = Len(z) + Len(t)
          /\ \A i \in 1 .. Len(z) + Len(t) : e[i] = IF i <= Len(z) THEN z[i] ELSE t[i - Len(z)]
      BY <2>5, <3>1, ConcatProperties
    <3>3. Len(e) = n
      BY <1>1, <2>4, <2>5, <3>1, <3>2
    <3>4. ASSUME NEW i \in 1 .. n PROVE d[i] = e[i]
      <4>1. e[i] = IF i <= first - 1 THEN z[i] ELSE t[i - (first - 1)]
        BY <1>1, <2>4, <2>5, <3>1, <3>2
      <4>2. CASE i <= first - 1
        <5>1. i \in 1 .. first - 1
          BY <2>4, <4>2
        <5> QED BY <2>4, <3>1, <4>1, <4>2, <5>1
      <4>3. CASE ~ (i <= first - 1)
        <5>1. i - (first - 1) \in 1 .. n - first + 1 /\ first + (i - (first - 1)) - 1 = i
          BY <1>1, <2>4, <4>3
        <5> QED BY <2>5, <4>1, <4>3, <5>1
      <4> QED BY <4>2, <4>3
    <3> HIDE DEF e
    <3>5. d = e
      BY <3>2, <3>3, <3>4, SeqEqual
    <3> QED BY <3>5 DEF e, z
  <2>9. Value(t) = Value(d)
    <3> DEFINE p == Prefixes(d)
               q == Prefixes(t)
               m == n - first + 1
               S == {k \in 0 .. m : q[k] = p[first - 1 + k]}
    <3>1. /\ p \in [0 .. n -> Nat] /\ \A k \in 1 .. n : p[k] = p[k - 1] * Base + d[k]
      BY Worth
    <3>2. /\ q[0] = 0 /\ \A k \in 1 .. m : q[k] = q[k - 1] * Base + t[k]
      BY <2>5, Worth
    <3>3. m \in Nat
      BY <1>1, <2>4
    <3>4. p[first - 1] = 0
      <4>1. first - 1 \in 0 .. n
        BY <1>1, <2>4
      <4> QED BY <2>4, <4>1, ZerosWorth
    <3> HIDE DEF p, q
    <3>5. 0 \in S
      BY <2>6, <3>2, <3>3, <3>4
    <3>6. ASSUME NEW k \in 0 .. m - 1, k \in S PROVE k + 1 \in S
      <4>1. k + 1 \in 1 .. m /\ k + 1 \in 0 .. m /\ k + 1 - 1 = k
        BY <3>3
      <4>2. /\ first - 1 + (k + 1) \in 1 .. n
            /\ first - 1 + (k + 1) - 1 = first - 1 + k
            /\ first + (k + 1) - 1 = first - 1 + (k + 1)
        BY <1>1, <2>4, <3>3
      <4>3. q[k + 1] = q[k] * Base + t[k + 1] /\ q[k] = p[first - 1 + k]
        BY <3>2, <3>6, <4>1
      <4>4. p[first - 1 + (k + 1)] = p[first - 1 + k] * Base + d[first - 1 + (k + 1)]
        <5> DEFINE j == first - 1 + (k + 1)
        <5>1. j \in 1 .. n /\ j - 1 = first - 1 + k
          BY <1>1, <2>4, <3>3
        <5>2. p[j] = p[j - 1] * Base + d[j]
          <6> HIDE DEF j
          <6> QED BY <3>1, <5>1
        <5> QED BY <5>1, <5>2
      <4>5. t[k + 1] = d[first - 1 + (k + 1)]
        BY <2>5, <4>1, <4>2
      <4> QED BY <4>1, <4>3, <4>4, <4>5
    <3>7. \A k \in 0 .. m : k \in S
      <4> HIDE DEF S, m
      <4> QED BY <3>3, <3>5, <3>6, Steps
    <3>8. m \in 0 .. m /\ first - 1 + m = n
      BY <1>1, <2>4, <3>3
    <3>9. q[m] = p[n]
      BY <3>7, <3>8
    <3> QED BY <2>5, <3>9 DEF Value, p, q
  <2> QED BY <1>1, <1>3, <2>5, <2>6, <2>7, <2>8, <2>9 DEF t
<1> QED BY <1>4, <1>5

\* The content of a message of DER or RLP with two octets or one before it, and what follows.
LEMMA Framed ==
    ASSUME NEW k \in Int, NEW body \in Seq(Int), NEW rest \in Seq(Int)
    PROVE  /\ LET m == (<<k>> \o body) \o rest
              IN  /\ m \in Seq(Int) /\ Len(m) = 1 + Len(body) + Len(rest) /\ m[1] = k
                  /\ SubSeq(m, 2, 1 + Len(body)) = body
                  /\ SubSeq(m, 2 + Len(body), Len(m)) = rest
           /\ \A n \in Int :
                LET m == (<<k, n>> \o body) \o rest
                IN  /\ m \in Seq(Int) /\ Len(m) = 2 + Len(body) + Len(rest) /\ m[1] = k /\ m[2] = n
                    /\ SubSeq(m, 3, 2 + Len(body)) = body
                    /\ SubSeq(m, 3 + Len(body), Len(m)) = rest
<1>1. ASSUME NEW h \in Seq(Int), NEW l \in Nat, Len(h) = l
      PROVE  LET m == (h \o body) \o rest
             IN  /\ m \in Seq(Int) /\ Len(m) = l + Len(body) + Len(rest)
                 /\ \A i \in 1 .. l : m[i] = h[i]
                 /\ SubSeq(m, l + 1, l + Len(body)) = body
                 /\ SubSeq(m, l + 1 + Len(body), Len(m)) = rest
  <2> DEFINE a == h \o body
             m == a \o rest
             c == body \o rest
  <2>1. /\ a \in Seq(Int) /\ Len(a) = l + Len(body) /\ Len(body) \in Nat /\ Len(rest) \in Nat
        /\ \A i \in 1 .. l : a[i] = h[i]
    BY <1>1, Pieces
  <2>2. /\ c \in Seq(Int) /\ Len(c) = Len(body) + Len(rest)
        /\ SubSeq(c, 1, Len(body)) = body
    BY Pieces
  <2>3. m = h \o c
    BY <1>1, ConcatAssociative
  <2> HIDE DEF a, c
  <2>4. /\ m \in Seq(Int) /\ Len(m) = Len(a) + Len(rest)
        /\ \A i \in 1 .. Len(a) : m[i] = a[i]
        /\ SubSeq(m, Len(a) + 1, Len(a) + Len(rest)) = rest
        /\ SubSeq(m, 1, Len(a)) = a
    BY <2>1, Pieces
  <2>5. SubSeq(a, l + 1, l + Len(body)) = body
    BY <1>1, Pieces DEF a
  <2>6. SubSeq(m, l + 1, l + Len(body)) = body
    <3>1. CASE Len(body) = 0
      <4>1. l + Len(body) < l + 1
        BY <3>1, <1>1
      <4>2. SubSeq(m, l + 1, l + Len(body)) = <<>> /\ SubSeq(a, l + 1, l + Len(body)) = <<>>
        BY <4>1, <2>1, <1>1, SubSeqEmpty
      <4> QED BY <2>5, <4>2
    <3>2. CASE Len(body) # 0
      <4>1. l + 1 \in 1 .. Len(a) /\ l + Len(body) \in 1 .. Len(a)
        BY <1>1, <2>1, <3>2
      <4>2. SubSeq(m, l + 1, l + Len(body)) = SubSeq(a, l + 1, l + Len(body))
        BY <2>1, <4>1, SubSeqOfConcat1
      <4> QED BY <2>5, <4>2
    <3> QED BY <3>1, <3>2
  <2>7. SubSeq(m, l + 1 + Len(body), Len(m)) = rest
    <3>1. Len(a) + 1 = l + 1 + Len(body)
      BY <2>1, <1>1
    <3> HIDE DEF m
    <3> QED BY <3>1, <2>4
  <2>8. \A i \in 1 .. l : m[i] = h[i]
    <3>1. \A i \in 1 .. l : i \in 1 .. Len(a)
      BY <1>1, <2>1
    <3> HIDE DEF m
    <3> QED BY <3>1, <2>1, <2>4
  <2> QED BY <1>1, <2>1, <2>4, <2>6, <2>7, <2>8 DEF a
<1>2. <<k>> \in Seq(Int) /\ Len(<<k>>) = 1 /\ <<k>>[1] = k
  OBVIOUS
<1>3. ASSUME NEW n \in Int
      PROVE  <<k, n>> \in Seq(Int) /\ Len(<<k, n>>) = 2 /\ <<k, n>>[1] = k /\ <<k, n>>[2] = n
  OBVIOUS
<1>4. LET m == (<<k>> \o body) \o rest
      IN  /\ m \in Seq(Int) /\ Len(m) = 1 + Len(body) + Len(rest) /\ m[1] = k
          /\ SubSeq(m, 2, 1 + Len(body)) = body
          /\ SubSeq(m, 2 + Len(body), Len(m)) = rest
  <2> DEFINE h == <<k>>
  <2>1. h \in Seq(Int) /\ Len(h) = 1 /\ h[1] = k
    BY <1>2
  <2> HIDE DEF h
  <2> DEFINE m == (h \o body) \o rest
  <2>2. /\ m \in Seq(Int) /\ Len(m) = 1 + Len(body) + Len(rest)
        /\ \A i \in 1 .. 1 : m[i] = h[i]
        /\ SubSeq(m, 1 + 1, 1 + Len(body)) = body
        /\ SubSeq(m, 1 + 1 + Len(body), Len(m)) = rest
    BY <1>1, <2>1
  <2> HIDE DEF m
  <2>3. m[1] = k
    BY <2>1, <2>2
  <2> QED BY <2>2, <2>3 DEF m, h
<1>5. ASSUME NEW n \in Int
      PROVE  LET m == (<<k, n>> \o body) \o rest
             IN  /\ m \in Seq(Int) /\ Len(m) = 2 + Len(body) + Len(rest) /\ m[1] = k /\ m[2] = n
                 /\ SubSeq(m, 3, 2 + Len(body)) = body
                 /\ SubSeq(m, 3 + Len(body), Len(m)) = rest
  <2> DEFINE h == <<k, n>>
  <2>1. h \in Seq(Int) /\ Len(h) = 2 /\ h[1] = k /\ h[2] = n
    BY <1>3
  <2> HIDE DEF h
  <2> DEFINE m == (h \o body) \o rest
  <2>2. /\ m \in Seq(Int) /\ Len(m) = 2 + Len(body) + Len(rest)
        /\ \A i \in 1 .. 2 : m[i] = h[i]
        /\ SubSeq(m, 2 + 1, 2 + Len(body)) = body
        /\ SubSeq(m, 2 + 1 + Len(body), Len(m)) = rest
    BY <1>1, <2>1
  <2> HIDE DEF m
  <2>3. m[1] = k /\ m[2] = n
    BY <2>1, <2>2
  <2> QED BY <2>2, <2>3 DEF m, h
<1> QED BY <1>4, <1>5

\* The number that DerInt wrote is read back, whole and as wide as it was, and
\* what follows it is left.
LEMMA DerReadsBack ==
    ASSUME NEW x \in Numbers, Value(x) > 0, NEW rest \in Seq(Int)
    PROVE  /\ DerInt(x) \in Seq(Int) /\ Len(DerInt(x)) \in Nat /\ Len(DerInt(x)) >= 3
           /\ ReadDerInt(DerInt(x) \o rest) = [digits |-> x, rest |-> rest]
<1> DEFINE t == StripLeadingZeros(x)
           led == <<0>> \o t
           signed == IF t[1] >= Sign THEN led ELSE t
           l == Len(signed)
<1>1. Width \in Nat /\ Width > 0 /\ Base \in Nat /\ Base >= 4 /\ 0 \in Digit
  BY SignatureAssumption DEF Digit
<1>2. /\ x \in Seq(Digit) /\ Len(x) = Width /\ Value(x) \in Nat
  BY NumberIs
<1>3. /\ t \in Seq(Digit) /\ Len(t) \in 0 .. Width /\ t # <<>> /\ t[1] # 0
      /\ Zeros(Width - Len(t)) \in Seq(Digit)
      /\ x = Zeros(Width - Len(t)) \o t
  <2>1. /\ t \in Seq(Digit) /\ Len(t) \in 0 .. Len(x)
        /\ t # <<>> => t[1] # 0
        /\ Zeros(Len(x) - Len(t)) \in Seq(Digit)
        /\ x = Zeros(Len(x) - Len(t)) \o t
        /\ t = <<>> => Value(x) = 0
    BY <1>2, Stripped
  <2> HIDE DEF t
  <2>2. t # <<>>
    BY <1>2, <2>1
  <2> QED BY <1>2, <2>1, <2>2
<1>4. Len(t) \in 1 .. Width
  BY <1>1, <1>3, EmptySeq
<1> HIDE DEF t
<1>5. t \in Seq(Int) /\ <<0>> \in Seq(Digit) /\ <<0>> \in Seq(Int) /\ Len(<<0>>) = 1
  BY <1>1, <1>3, DigitsAreIntegers
<1>6. \/ signed = t
      \/ signed = led
  OBVIOUS
<1>7. /\ led \in Seq(Digit) /\ Len(led) = 1 + Len(t) /\ led[1] = 0
      /\ Tail(led) = t
  <2>1. /\ led \in Seq(Digit) /\ Len(led) = 1 + Len(t)
        /\ \A i \in 1 .. 1 + Len(t) : led[i] = IF i <= 1 THEN 0 ELSE t[i - 1]
    BY <1>3, <1>5, ConcatProperties
  <2> DEFINE e == led
  <2>2. e # <<>>
    BY <1>4, <2>1
  <2>3. /\ Tail(e) \in Seq(Digit) /\ Len(Tail(e)) = Len(e) - 1
        /\ \A i \in 1 .. Len(Tail(e)) : Tail(e)[i] = e[i + 1]
    <3> HIDE DEF led
    <3> QED BY <2>1, <2>2, HeadTailProperties
  <2>4. Tail(e) = t
    <3>1. Len(Tail(e)) = Len(t)
      BY <1>4, <2>1, <2>3
    <3>2. \A i \in 1 .. Len(Tail(e)) : Tail(e)[i] = t[i]
      BY <1>4, <2>1, <2>3, <3>1
    <3> QED BY <1>3, <2>3, <3>1, <3>2, SeqEqual
  <2> QED BY <1>4, <2>1, <2>4
<1> HIDE DEF signed, led
<1>8. signed \in Seq(Int) /\ l \in 1 .. Width + 1 /\ signed \in Seq(Digit)
  <2>1. signed \in Seq(Digit)
    BY <1>3, <1>6, <1>7
  <2>2. l \in 1 .. Width + 1
    BY <1>1, <1>4, <1>6, <1>7
  <2> QED BY <2>1, <2>2, DigitsAreIntegers
<1> DEFINE raw == StripSignByte(signed)
\* Without the sign octet, or with it when there is room for it.
<1>9. \/ raw = t
      \/ raw = led /\ Len(t) < Width
  <2>1. CASE signed = t
    BY <1>3, <1>4, <2>1 DEF StripSignByte
  <2>2. CASE signed = led
    <3>1. CASE Len(t) = Width
      <4>1. Len(led) = Width + 1 /\ led[1] = 0 /\ Tail(led) = t
        BY <1>1, <1>7, <3>1
      <4> QED BY <2>2, <4>1 DEF StripSignByte
    <3>2. CASE Len(t) # Width
      <4>1. Len(led) # Width + 1 /\ Len(t) < Width
        BY <1>1, <1>4, <1>7, <3>2
      <4> QED BY <2>2, <4>1 DEF StripSignByte
    <3> QED BY <3>1, <3>2
  <2> QED BY <1>6, <2>1, <2>2
<1> HIDE DEF raw
<1>10. Len(raw) <= Width /\ Zeros(Width - Len(raw)) \o raw = x
  <2>1. CASE raw = t
    BY <1>1, <1>3, <1>4, <2>1
  <2>2. CASE raw = led /\ Len(t) < Width
    <3> DEFINE n == Width - Len(t)
               z == Zeros(n - 1)
    <3>1. n \in Nat /\ n - 1 \in Nat /\ Width - Len(raw) = n - 1 /\ Len(raw) <= Width
      <4>1. Len(raw) = 1 + Len(t)
        BY <1>7, <2>2
      <4>2. Len(t) \in Nat /\ Len(t) < Width
        BY <1>4, <2>2
      <4> QED BY <1>1, <4>1, <4>2
    <3>2. z \in Seq(Digit) /\ Len(z) = n - 1 /\ \A i \in 1 .. n - 1 : z[i] = 0
      BY <1>1, <3>1 DEF Zeros
    <3>3. z \o <<0>> = Zeros(n)
      <4> HIDE DEF z
      <4> DEFINE e == z \o <<0>>
      <4>1. /\ e \in Seq(Digit) /\ Len(e) = n - 1 + 1
            /\ \A i \in 1 .. n - 1 + 1 : e[i] = IF i <= n - 1 THEN z[i] ELSE <<0>>[i - (n - 1)]
        BY <1>5, <3>2, ConcatProperties
      <4>2. Zeros(n) \in Seq(Digit) /\ Len(Zeros(n)) = n /\ \A i \in 1 .. n : Zeros(n)[i] = 0
        BY <1>1, <3>1 DEF Zeros
      <4>3. \A i \in 1 .. n : e[i] = 0
        BY <3>1, <3>2, <4>1
      <4> HIDE DEF e
      <4>4. e = Zeros(n)
        <5> HIDE DEF n
        <5> QED BY <3>1, <4>1, <4>2, <4>3, SeqEqual
      <4> QED BY <4>4 DEF e
    <3>4. z \o led = (z \o <<0>>) \o t
      <4>1. \A a, b, c \in Seq(Digit) : a \o (b \o c) = (a \o b) \o c
        BY ConcatAssociative
      <4>2. z \in Seq(Digit) /\ <<0>> \in Seq(Digit) /\ t \in Seq(Digit)
        BY <1>3, <1>5, <3>2
      <4> HIDE DEF z
      <4>3. z \o (<<0>> \o t) = (z \o <<0>>) \o t
        BY <4>1, <4>2, Zenon
      <4> QED BY <4>3 DEF led
    <3>5. Zeros(Width - Len(raw)) = z
      BY <3>1
    <3> QED BY <1>3, <2>2, <3>1, <3>3, <3>4, <3>5
  <2> QED BY <1>9, <2>1, <2>2
<1>11. DerInt(x) = <<2, l>> \o signed
  BY DEF DerInt, signed, led, t
<1> DEFINE buf == DerInt(x) \o rest
<1>12. /\ buf \in Seq(Int) /\ Len(buf) = 2 + l + Len(rest) /\ buf[1] = 2 /\ buf[2] = l
       /\ SubSeq(buf, 3, 2 + l) = signed
       /\ SubSeq(buf, 3 + l, Len(buf)) = rest
  BY <1>1, <1>8, <1>11, Framed
<1>13. DerInt(x) \in Seq(Int) /\ Len(DerInt(x)) = 2 + l
  <2>1. l \in Int
    BY <1>1, <1>8
  <2>2. <<2, l>> \in Seq(Int) /\ Len(<<2, l>>) = 2
    BY <2>1
  <2> QED BY <1>8, <1>11, <2>2, ConcatProperties
<1>14. Len(rest) \in Nat
  BY LenProperties
<1> HIDE DEF buf, l
<1>15. ReadDerInt(buf) = [digits |-> Zeros(Width - Len(raw)) \o raw, rest |-> rest]
  <2>1. ~ (Len(buf) < 2 \/ buf[1] # 2 \/ buf[2] \notin 1 .. Width + 1 \/ Len(buf) < 2 + buf[2])
    BY <1>1, <1>8, <1>12, <1>14 DEF l
  <2>2. SubSeq(buf, 3, 2 + buf[2]) = signed /\ SubSeq(buf, 3 + buf[2], Len(buf)) = rest
    BY <1>12
  <2>3. ~ (Len(raw) > Width)
    <3>1. Len(raw) \in Nat
      BY <1>3, <1>7, <1>9, LenProperties
    <3> QED BY <1>1, <1>10, <3>1
  <2> QED BY <2>1, <2>2, <2>3 DEF ReadDerInt, Zeros, raw
<1>16. Len(DerInt(x)) \in Nat /\ Len(DerInt(x)) >= 3
  BY <1>1, <1>8, <1>13 DEF l
<1> QED BY <1>10, <1>13, <1>15, <1>16 DEF buf

\* What KMS answers for r and s is well formed and gives r and s.
LEMMA AnswerReadsBack ==
    ASSUME NEW r \in Scalars, NEW s \in Scalars
    PROVE  LET body == DerInt(r) \o DerInt(s)
           IN  ParseDerSignature(<<48, Len(body)>> \o body) = [ok |-> TRUE, r |-> r, s |-> s]
<1> DEFINE body == DerInt(r) \o DerInt(s)
           der == <<48, Len(body)>> \o body
<1>1. r \in Numbers /\ s \in Numbers /\ Value(r) > 0 /\ Value(s) > 0
  BY DEF Scalars
<1>2. <<>> \in Seq(Int)
  BY EmptySeq
<1>3. /\ DerInt(r) \in Seq(Int) /\ Len(DerInt(r)) \in Nat /\ Len(DerInt(r)) >= 3
      /\ DerInt(s) \in Seq(Int) /\ Len(DerInt(s)) \in Nat /\ Len(DerInt(s)) >= 3
  BY <1>1, <1>2, DerReadsBack
<1>4. ReadDerInt(body) = [digits |-> r, rest |-> DerInt(s)]
  BY <1>1, <1>3, DerReadsBack
<1>5. ReadDerInt(DerInt(s)) = [digits |-> s, rest |-> <<>>]
  <2>1. DerInt(s) \o <<>> = DerInt(s)
    BY <1>3, ConcatEmptySeq
  <2>2. ReadDerInt(DerInt(s) \o <<>>) = [digits |-> s, rest |-> <<>>]
    BY <1>1, <1>2, DerReadsBack
  <2> QED BY <2>1, <2>2
<1>6. body \in Seq(Int) /\ Len(body) = Len(DerInt(r)) + Len(DerInt(s)) /\ Len(body) \in Int
  BY <1>3, ConcatProperties
<1> HIDE DEF body
<1>7. /\ der \in Seq(Int) /\ Len(der) = 2 + Len(body) /\ der[1] = 48 /\ der[2] = Len(body)
      /\ SubSeq(der, 3, 2 + Len(body)) = body
  <2>1. LET m == (<<48, Len(body)>> \o body) \o <<>>
        IN  /\ m \in Seq(Int) /\ Len(m) = 2 + Len(body) + Len(<<>>) /\ m[1] = 48 /\ m[2] = Len(body)
            /\ SubSeq(m, 3, 2 + Len(body)) = body
    BY <1>2, <1>6, Framed
  <2>2. der \in Seq(Int)
    <3> <<48, Len(body)>> \in Seq(Int)
      BY <1>6
    <3> QED BY <1>6, ConcatProperties
  <2>3. der \o <<>> = der
    BY <2>2, ConcatEmptySeq
  <2>4. 2 + Len(body) + Len(<<>>) = 2 + Len(body)
    BY <1>6, EmptySeq
  <2> QED BY <2>1, <2>2, <2>3, <2>4
<1> HIDE DEF der
<1>8. r # <<>> /\ s # <<>>
  <2>1. Len(r) = Width /\ Len(s) = Width /\ Width # 0
    BY <1>1, NumberIs, SignatureAssumption
  <2>2. Len(<<>>) = 0
    BY EmptySeq
  <2> QED BY <2>1, <2>2
<1>9. Len(der) >= 8 /\ 2 + der[2] <= Len(der)
  BY <1>3, <1>6, <1>7
<1>10. ReadDerInt(SubSeq(der, 3, 2 + der[2])) = [digits |-> r, rest |-> DerInt(s)]
  BY <1>4, <1>7
<1>11. ParseDerSignature(der) = [ok |-> TRUE, r |-> r, s |-> s]
  <2> DEFINE first == ReadDerInt(SubSeq(der, 3, 2 + der[2]))
             second == ReadDerInt(first.rest)
  <2>1. first.digits = r /\ first.rest = DerInt(s)
    BY <1>10
  <2>2. second.digits = s /\ second.rest = <<>>
    BY <1>5, <2>1
  <2>3. /\ Len(der) >= 8 /\ der[1] = 48 /\ 2 + der[2] <= Len(der)
        /\ first.digits # <<>> /\ second.digits # <<>> /\ second.rest = <<>>
    BY <1>7, <1>8, <1>9, <2>1, <2>2
  <2>4. ParseDerSignature(der) = [ok |-> TRUE, r |-> first.digits, s |-> second.digits]
    BY <2>3 DEF ParseDerSignature
  <2> QED BY <2>1, <2>2, <2>4
<1> QED BY <1>11 DEF der, body

\* A number in RLP is read back without its leading zeros, and what follows is left.
LEMMA RlpReadsBack ==
    ASSUME NEW d \in Seq(Digit), NEW rest \in Seq(Int)
    PROVE  /\ IntToRlp(d) \in Seq(Int)
           /\ RlpItem(IntToRlp(d) \o rest) = StripLeadingZeros(d)
           /\ RlpRest(IntToRlp(d) \o rest) = rest
<1> DEFINE t == StripLeadingZeros(d)
           out == IntToRlp(d)
           m == out \o rest
<1>1. Sign \in Nat
  BY SignatureAssumption DEF Sign
<1>2. t \in Seq(Digit)
  BY Stripped
<1>3. t \in Seq(Int) /\ Len(t) \in Nat /\ Len(rest) \in Nat
  BY <1>2, DigitsAreIntegers, LenProperties
<1>4. out = IF Len(t) = 1 /\ t[1] < Sign THEN t ELSE <<Sign + Len(t)>> \o t
  BY DEF IntToRlp, BytesToRlp
<1> HIDE DEF t, out
<1>5. CASE Len(t) = 1 /\ t[1] < Sign
  <2>1. out = t
    BY <1>4, <1>5
  <2>2. /\ m \in Seq(Int) /\ Len(m) = 1 + Len(rest) /\ \A i \in 1 .. 1 : m[i] = t[i]
        /\ SubSeq(m, 1 + 1, 1 + Len(rest)) = rest
    <3>1. /\ t \o rest \in Seq(Int) /\ Len(t \o rest) = Len(t) + Len(rest)
          /\ \A i \in 1 .. Len(t) : (t \o rest)[i] = t[i]
          /\ SubSeq(t \o rest, Len(t) + 1, Len(t) + Len(rest)) = rest
      BY <1>3, Pieces
    <3>2. Len(t) = 1 /\ t \o rest = m
      BY <1>5, <2>1
    <3> HIDE DEF m
    <3> QED BY <3>1, <3>2
  <2> HIDE DEF m
  <2>3. m[1] = t[1] /\ m[1] < Sign
    BY <1>5, <2>2
  <2>4. t = <<m[1]>>
    <3>1. t[1] \in Int
      <4>1. 1 \in 1 .. Len(t)
        BY <1>5
      <4> QED BY <1>3, <4>1, ElementOfSeq
    <3>2. <<m[1]>> \in Seq(Int) /\ Len(<<m[1]>>) = 1 /\ <<m[1]>>[1] = m[1]
      BY <2>3, <3>1
    <3>3. \A i \in 1 .. Len(t) : t[i] = <<m[1]>>[i]
      BY <1>5, <2>3, <3>2
    <3> QED BY <1>3, <1>5, <3>2, <3>3, SeqEqual
  <2>5. RlpItem(m) = t
    BY <2>3, <2>4 DEF RlpItem
  <2>6. RlpRest(m) = rest
    <3>1. RlpRest(m) = SubSeq(m, 2 + 0, Len(m))
      BY <2>3 DEF RlpRest
    <3>2. 2 + 0 = 1 + 1
      OBVIOUS
    <3> QED BY <2>2, <3>1, <3>2
  <2> QED BY <1>3, <2>1, <2>5, <2>6 DEF m, t, out
<1>6. CASE ~ (Len(t) = 1 /\ t[1] < Sign)
  <2>1. out = <<Sign + Len(t)>> \o t /\ Sign + Len(t) \in Int
    BY <1>1, <1>3, <1>4, <1>6
  <2>2. /\ m \in Seq(Int) /\ Len(m) = 1 + Len(t) + Len(rest) /\ m[1] = Sign + Len(t)
        /\ SubSeq(m, 2, 1 + Len(t)) = t
        /\ SubSeq(m, 2 + Len(t), Len(m)) = rest
    BY <1>3, <2>1, Framed
  <2>3. out \in Seq(Int)
    <3>1. <<Sign + Len(t)>> \in Seq(Int)
      BY <2>1
    <3> QED BY <1>3, <2>1, <3>1, ConcatProperties
  <2> HIDE DEF m
  <2>4. ~ (m[1] < Sign) /\ m[1] - Sign = Len(t) /\ 1 + m[1] - Sign = 1 + Len(t)
    BY <1>1, <1>3, <2>2
  <2>5. RlpItem(m) = t /\ RlpRest(m) = rest
    BY <2>2, <2>4 DEF RlpItem, RlpRest
  <2> QED BY <2>3, <2>5 DEF m, t, out
<1> QED BY <1>5, <1>6

(***************************************************************************)
(* TxSignature: the invariant                                              *)
(***************************************************************************)
\* The inductive invariant: what is passed on at each stage, in terms of what KMS drew.
Signatures == [at : {"digest", "der", "signed", "sent"}, r : Scalars, s : Scalars,
               parity : {0, 1}, octets : Seq(Int)]

SignatureInv ==
    /\ signing \in Signatures
    /\ signing.at = "der" =>
        LET body == DerInt(signing.r) \o DerInt(signing.s)
        IN  signing.octets = <<48, Len(body)>> \o body
    /\ signing.at = "signed" => signing.octets = signing.r \o NormalizeS(signing.s)
    /\ signing.at = "sent" =>
        \E y \in Parities(Value(signing.r), Value(NormalizeS(signing.s))) :
            signing.octets = IntToRlp(<<y>>) \o IntToRlp(signing.r) \o IntToRlp(NormalizeS(signing.s))

\* One case per action; what each reads is what the one before wrote.
LEMMA SignatureStep ==
    ASSUME SignatureInv, SignatureNext
    PROVE  SignatureInv'
<1> DEFINE r == signing.r
           s == signing.s
           low == NormalizeS(s)
<1>1. signing \in Signatures
  BY DEF SignatureInv
<1>2. /\ r \in Scalars /\ s \in Scalars /\ r \in Numbers /\ s \in Numbers
      /\ Value(r) > 0 /\ Value(s) > 0
  BY <1>1 DEF Signatures, Scalars
<1>3. <<>> \in Seq(Int)
  BY EmptySeq
<1>4. /\ low \in Numbers
      /\ Value(low) = Value(s) \/ Value(low) = Value(Order) - Value(s)
  BY <1>2, NormalizeIsLow
<1>5. /\ r \in Seq(Digit) /\ Len(r) = Width /\ low \in Seq(Digit) /\ Len(low) = Width
      /\ r \in Seq(Int) /\ low \in Seq(Int) /\ Width \in Nat
  BY <1>2, <1>4, NumberIs, DigitsAreIntegers, SignatureAssumption
<1>6. CASE KmsSigns
  <2> DEFINE body == DerInt(r) \o DerInt(s)
             out == <<48, Len(body)>> \o body
  <2>1. signing' = [signing EXCEPT !.at = "der", !.octets = out]
    BY <1>6 DEF KmsSigns
  <2>2. out \in Seq(Int)
    <3>1. DerInt(r) \in Seq(Int) /\ DerInt(s) \in Seq(Int)
      BY <1>2, <1>3, DerReadsBack
    <3>2. body \in Seq(Int) /\ Len(body) \in Int
      BY <3>1, ConcatProperties, LenProperties
    <3> HIDE DEF body
    <3>3. <<48, Len(body)>> \in Seq(Int)
      BY <3>2
    <3> QED BY <3>2, <3>3, ConcatProperties
  <2> HIDE DEF out
  <2>3. /\ signing' \in Signatures /\ signing'.at = "der" /\ signing'.octets = out
        /\ signing'.r = r /\ signing'.s = s
    BY <1>1, <2>1, <2>2 DEF Signatures
  <2> QED BY <2>3 DEF SignatureInv, out
<1>7. CASE KmsSignature
  <2>1. signing.at = "der"
    BY <1>7 DEF KmsSignature
  <2>2. ParseDerSignature(signing.octets) = [ok |-> TRUE, r |-> r, s |-> s]
    <3>1. LET body == DerInt(r) \o DerInt(s) IN signing.octets = <<48, Len(body)>> \o body
      BY <2>1 DEF SignatureInv
    <3> QED BY <1>2, <3>1, AnswerReadsBack
  <2> DEFINE out == r \o low
  <2>3. signing' = [signing EXCEPT !.at = "signed", !.octets = out]
    BY <1>7, <2>2 DEF KmsSignature
  <2>4. out \in Seq(Int)
    BY <1>5, ConcatProperties
  <2> HIDE DEF out
  <2>5. /\ signing' \in Signatures /\ signing'.at = "signed" /\ signing'.octets = out
        /\ signing'.r = r /\ signing'.s = s
    BY <1>1, <2>3, <2>4 DEF Signatures
  <2> QED BY <2>5 DEF SignatureInv, out
<1>8. CASE EncodeSigned
  <2>1. signing.at = "signed" /\ signing.octets = r \o low
    BY <1>8 DEF EncodeSigned, SignatureInv
  <2>2. SubSeq(signing.octets, 1, Width) = r /\ SubSeq(signing.octets, Width + 1, 2 * Width) = low
    <3>1. SubSeq(r \o low, 1, Width) = r /\ SubSeq(r \o low, Width + 1, Width + Width) = low
      <4>1. /\ SubSeq(r \o low, 1, Len(r)) = r
            /\ SubSeq(r \o low, Len(r) + 1, Len(r) + Len(low)) = low
        BY <1>5, Pieces
      <4> HIDE DEF r, low
      <4> QED BY <1>5, <4>1
    <3>2. 2 * Width = Width + Width
      BY <1>5
    <3> QED BY <2>1, <3>1, <3>2
  <2> DEFINE found == Parities(Value(r), Value(low))
             y == CHOOSE one \in found : TRUE
             out == IntToRlp(<<y>>) \o IntToRlp(r) \o IntToRlp(low)
  <2>3. found # {} /\ found \subseteq {0, 1}
    <3>1. signing.parity \in {0, 1} /\ 1 - signing.parity \in {0, 1}
      BY <1>1 DEF Signatures
    <3> DEFINE v == Value(low)
    <3>2. v = Value(s) \/ v = Value(Order) - Value(s)
      BY <1>4
    <3> HIDE DEF v, low
    <3>3. found = Parities(Value(r), v)
      BY DEF v
    <3>4. signing.parity \in Parities(Value(r), v) \/ 1 - signing.parity \in Parities(Value(r), v)
      BY <3>1, <3>2 DEF Parities
    <3>5. found \subseteq {0, 1}
      BY DEF Parities
    <3> QED BY <3>3, <3>4, <3>5
  <2> HIDE DEF found
  <2>4. y \in found /\ y \in {0, 1}
    BY <2>3
  <2>5. signing' = [signing EXCEPT !.at = "sent", !.octets = out]
    <3>1. RecoverYParity(r, low) = found
      BY DEF RecoverYParity, found
    <3> QED BY <1>8, <2>2, <2>3, <3>1 DEF EncodeSigned
  <2> HIDE DEF y
  <2>6. out \in Seq(Int)
    <3>1. <<y>> \in Seq(Digit)
      <4>1. y \in Digit
        BY <2>4, SignatureAssumption DEF Digit
      <4> QED BY <4>1
    <3>2. IntToRlp(<<y>>) \in Seq(Int) /\ IntToRlp(r) \in Seq(Int) /\ IntToRlp(low) \in Seq(Int)
      BY <1>3, <1>5, <3>1, RlpReadsBack
    <3> QED BY <3>2, ConcatProperties
  <2> HIDE DEF out
  <2>7. /\ signing' \in Signatures /\ signing'.at = "sent" /\ signing'.octets = out
        /\ signing'.r = r /\ signing'.s = s /\ signing'.parity = signing.parity
    BY <1>1, <2>5, <2>6 DEF Signatures
  <2>8. Parities(Value(r), Value(low))' = found
    BY <2>7 DEF Parities, found
  <2>9. \E one \in Parities(Value(signing.r), Value(NormalizeS(signing.s)))' :
            signing'.octets = IntToRlp(<<one>>) \o IntToRlp(signing'.r) \o IntToRlp(NormalizeS(signing'.s))
    BY <2>4, <2>7, <2>8 DEF out
  <2> QED BY <2>7, <2>9 DEF SignatureInv
<1> QED BY <1>6, <1>7, <1>8 DEF SignatureNext

\* What a node reads from the transaction is what the invariant says was put into it.
LEMMA SignatureReads ==
    ASSUME SignatureInv
    PROVE  SignatureTrue
<1>1. signing \in Signatures /\ signing.at # "failed"
  BY DEF SignatureInv, Signatures
<1>2. ASSUME signing.at = "sent" PROVE SignatureTrue
  <2> DEFINE r == signing.r
             low == NormalizeS(signing.s)
  <2>1. /\ r \in Numbers /\ low \in Numbers /\ Value(low) <= Value(HalfOrder)
    BY <1>1, NormalizeIsLow DEF Signatures, Scalars
  <2>2. r \in Seq(Digit) /\ low \in Seq(Digit) /\ <<>> \in Seq(Int)
    BY <2>1, NumberIs, EmptySeq
  <2>3. PICK y \in Parities(Value(r), Value(low)) :
            signing.octets = IntToRlp(<<y>>) \o IntToRlp(r) \o IntToRlp(low)
    BY <1>2 DEF SignatureInv
  <2>4. y \in {0, 1} /\ y \in Digit
    BY SignatureAssumption DEF Parities, Digit
  <2>5. <<y>> \in Seq(Digit) /\ Len(<<y>>) = 1 /\ <<y>>[1] = y
    BY <2>4
  <2>6. Value(<<y>>) = y
    <3>1. 1 \in 1 .. Len(<<y>>) /\ 1 - 1 = 0
      BY <2>5
    <3> DEFINE d == <<y>>
    <3>2. d \in Seq(Digit) /\ Len(d) = 1 /\ d[1] = y
      BY <2>5
    <3> HIDE DEF d
    <3>3. Prefixes(d)[1] = Prefixes(d)[1 - 1] * Base + d[1] /\ Prefixes(d)[0] = 0
      BY <3>2, Worth
    <3>4. Prefixes(d)[1] = y
      BY <2>4, <3>2, <3>3, SignatureAssumption
    <3>5. Value(d) = y
      BY <3>2, <3>4 DEF Value
    <3> QED BY <3>5 DEF d
  <2> DEFINE a == IntToRlp(<<y>>)
             b == IntToRlp(r)
             c == IntToRlp(low)
  <2>7. a \in Seq(Int) /\ b \in Seq(Int) /\ c \in Seq(Int)
    BY <2>2, <2>5, RlpReadsBack
  <2>8. (a \o b) \o c = a \o (b \o c) /\ b \o c \in Seq(Int) /\ c \o <<>> = c
    BY <2>7, ConcatAssociative, ConcatProperties, ConcatEmptySeq
  <2> DEFINE m == signing.octets
  <2>9. m = a \o (b \o c)
    BY <2>3, <2>8
  <2>10. RlpItem(m) = StripLeadingZeros(<<y>>) /\ RlpRest(m) = b \o c
    BY <2>5, <2>8, <2>9, RlpReadsBack
  <2>11. RlpItem(b \o c) = StripLeadingZeros(r) /\ RlpRest(b \o c) = c
    BY <2>2, <2>7, RlpReadsBack
  <2>12. RlpItem(c) = StripLeadingZeros(low) /\ RlpRest(c) = <<>>
    <3>1. RlpItem(c \o <<>>) = StripLeadingZeros(low) /\ RlpRest(c \o <<>>) = <<>>
      BY <2>2, RlpReadsBack
    <3> QED BY <2>8, <3>1
  <2> HIDE DEF a, b, c
  <2>13. ASSUME NEW d \in Seq(Digit)
         PROVE  /\ Value(StripLeadingZeros(d)) = Value(d)
                /\ StripLeadingZeros(d) # <<>> => StripLeadingZeros(d)[1] # 0
    BY Stripped
  <2> DEFINE Ending == /\ Value(RlpItem(c)) <= Value(HalfOrder)
                       /\ Value(RlpItem(m)) \in Parities(Value(RlpItem(b \o c)), Value(RlpItem(c)))
                       /\ \A item \in {RlpItem(m), RlpItem(b \o c), RlpItem(c)} :
                            item # <<>> => item[1] # 0
                       /\ RlpRest(c) = <<>>
  <2>14. Ending
    <3>1. Value(RlpItem(c)) = Value(low) /\ Value(RlpItem(b \o c)) = Value(r) /\ Value(RlpItem(m)) = y
      BY <2>2, <2>5, <2>6, <2>10, <2>11, <2>12, <2>13
    <3>2. \A item \in {RlpItem(m), RlpItem(b \o c), RlpItem(c)} : item # <<>> => item[1] # 0
      BY <2>2, <2>5, <2>10, <2>11, <2>12, <2>13
    <3> QED BY <2>1, <2>12, <3>1, <3>2
  <2> HIDE DEF Ending
  <2>15. SignatureTrue <=> signing.at # "failed" /\ (signing.at = "sent" => Ending)
    BY <2>10, <2>11 DEF SignatureTrue, Ending
  <2> QED BY <1>1, <2>14, <2>15
<1> QED BY <1>1, <1>2 DEF SignatureTrue

\* Whatever the base, the width, the order of the curve and the numbers KMS
\* draws: the transaction is sent, a node reads from it the r that was drawn and
\* a second number that is s or its complement and not above half the order, the
\* parity names the relayer, and no number has a leading zero.
THEOREM SignatureSafety == SignatureSpec => []SignatureTrue
<1>1. SignatureInit => SignatureInv
  <2>1. \A x \in FirstParts : x \in Scalars
    BY SignatureAssumption
  <2>2. <<>> \in Seq(Int)
    BY EmptySeq
  <2> QED BY <2>1, <2>2 DEF SignatureInit, SignatureInv, Signatures
<1>2. SignatureInv /\ [SignatureNext]_signing => SignatureInv'
  <2>1. ASSUME SignatureInv, UNCHANGED signing PROVE SignatureInv'
    BY <2>1 DEF SignatureInv, Signatures, Parities
  <2> QED BY <2>1, SignatureStep
<1>3. SignatureInv => SignatureTrue
  BY SignatureReads
<1> QED BY <1>1, <1>2, <1>3, PTL DEF SignatureSpec
==================================================================================
