-------------------------------- MODULE Invoke --------------------------------
(***************************************************************************)
(* POST /v1/invoke: the JSON path and the SSE path, each call advancing    *)
(* from one await to the next while other calls, top-ups, client           *)
(* disconnects and machine restarts interleave.                            *)
(*                                                                         *)
(* A call is one HTTP request.  A client that retries sends a new call     *)
(* with the same agent and id; req fixes at the start what every call of   *)
(* the run will carry, so that two calls may be the same bytes, the same   *)
(* id with another payload, or unrelated.  Stored functions of the         *)
(* database (invoke_charge, topup_balance, cache_lookup, cache_store) and  *)
(* the provider, the facilitator and the chain are not in the repository:  *)
(* they appear as the handler uses them.                                   *)
(***************************************************************************)
EXTENDS Integers, FiniteSets

CONSTANTS
    Agents, Ids, Inputs,    \* agents, request ids, (capability, action, input) triples
    Calls,                  \* HTTP requests of the run
    Machines,               \* Hub processes; a replay cache lives in each
    Nonces, NoNonce,        \* provenance v2 nonces; a request without provenance
    Payments, NoPayment,    \* X-Payment authorisations; a request without one
    Requests,               \* the requests clients may send
    NoRow,                  \* an absent cache row
    Sessions, Owner,        \* Stripe checkout sessions and the agents they top up
    Price, Opening, TopUpAmount,    \* micro-USDC
    Faults,                 \* which faults the environment injects
    MaxInFlight             \* bound: calls in progress at once

AllFaults == {"drop", "crash", "db", "provider", "facilitator"}

Request == [agent : Agents, id : Ids, input : Inputs, mode : {"json", "stream"},
            nonce : Nonces \union {NoNonce}, pay : Payments \union {NoPayment}]

ASSUME MoneyAssumption ==
    /\ Price \in Nat /\ Opening \in Nat /\ TopUpAmount \in Nat
    /\ Owner \in [Sessions -> Agents]
ASSUME RequestAssumption == Requests \subseteq Request
ASSUME NullAssumption ==
    /\ NoNonce \notin Nonces
    /\ NoPayment \notin Payments
    /\ \A h \in Inputs \X (Nonces \union {NoNonce}) \X (Payments \union {NoPayment}),
          b \in {"charged", "uncharged", "x402"} : NoRow # [hash |-> h, bill |-> b]
ASSUME BoundAssumption ==
    /\ Faults \subseteq AllFaults
    /\ MaxInFlight \in Nat
    /\ IsFiniteSet(Calls)

VARIABLES
    req,            \* req[c]: the request call c carries
    host,           \* host[c]: the machine that call c reaches
    pc,             \* pc[c]: the await at which the handler of c stands
    bill,           \* bill[c]: the billing summary the handler of c has built
    seen,           \* seen[m]: (agent, nonce) pairs in m's replay cache
    cache,          \* cache[a, i]: the idempotency row of agent a, request id i
    wallet,         \* wallet[a]: prepaid balance
    topped,         \* Stripe sessions already credited
    committed,      \* authorisations whose transfer is on the chain
    settlements,    \* calls that have a row in x402_settlements
    served,         \* calls whose provider answered with success
    charged,        \* calls debited by invoke_charge
    spawned,        \* background tasks started and not yet run
    notified,       \* calls with an invocation.completed event in the outbox
    capCalls,       \* calls counted in capabilities.total_calls
    provCalls       \* calls counted in providers.total_calls

clientVars == <<req, host>>
moneyVars  == <<wallet, topped, committed, settlements, served, charged>>
taskVars   == <<spawned, notified, capCalls, provCalls>>
vars == <<clientVars, pc, bill, seen, cache, moneyVars, taskVars>>

(***************************************************************************)
(* Vocabulary                                                              *)
(***************************************************************************)
Working  == {"admit", "lookup", "resolve", "check", "settle", "record",
             "preflight", "forward", "relay", "charge", "store"}
Finished == {"answered", "replayed", "conflict", "nonce_replay", "reused",
             "refused", "dropped"}
PCs      == Working \union Finished \union {"unsent"}
Bills    == {"none", "charged", "uncharged", "x402"}
Tasks    == {"notify", "count_capability", "count_provider"}

Stream(c) == req[c].mode = "stream"
\* Only the JSON path looks at the X-Payment header.
PaysOnChain(c) == ~Stream(c) /\ req[c].pay # NoPayment

Key(c)  == <<req[c].agent, req[c].id>>
\* compute_input_hash: the payload, the provenance string, the X-Payment header.
Hash(c) == <<req[c].input, req[c].nonce, req[c].pay>>
Hashes  == Inputs \X (Nonces \union {NoNonce}) \X (Payments \union {NoPayment})
Row     == [hash : Hashes, bill : Bills \ {"none"}]

InFlight == {c \in Calls : pc[c] \in Working}
Goto(c, there) == pc' = [pc EXCEPT ![c] = there]

TypeOK ==
    /\ req \in [Calls -> Requests]
    /\ host \in [Calls -> Machines]
    /\ pc \in [Calls -> PCs]
    /\ bill \in [Calls -> Bills]
    /\ seen \in [Machines -> SUBSET (Agents \X Nonces)]
    /\ cache \in [Agents \X Ids -> Row \union {NoRow}]
    /\ wallet \in [Agents -> Nat]
    /\ topped \subseteq Sessions
    /\ committed \subseteq Payments
    /\ settlements \subseteq Calls
    /\ served \subseteq Calls
    /\ charged \subseteq Calls
    /\ spawned \subseteq Tasks \X Calls
    /\ notified \subseteq Calls
    /\ capCalls \subseteq Calls
    /\ provCalls \subseteq Calls

Init ==
    /\ req \in [Calls -> Requests]
    /\ host \in [Calls -> Machines]
    /\ pc = [c \in Calls |-> "unsent"]
    /\ bill = [c \in Calls |-> "none"]
    /\ seen = [m \in Machines |-> {}]
    /\ cache = [k \in Agents \X Ids |-> NoRow]
    /\ wallet = [a \in Agents |-> Opening]
    /\ topped = {} /\ committed = {} /\ settlements = {}
    /\ served = {} /\ charged = {}
    /\ spawned = {} /\ notified = {} /\ capCalls = {} /\ provCalls = {}

(***************************************************************************)
(* Before the money: arrival, admission, idempotency cache, resolution     *)
(***************************************************************************)
Receive(c) ==
    /\ pc[c] = "unsent"
    /\ Cardinality(InFlight) < MaxInFlight
    /\ Goto(c, "admit")
    /\ UNCHANGED <<clientVars, bill, seen, cache, moneyVars, taskVars>>

\* JSON path: agent authentication, provenance with its replay cache, rate
\* limit, in this order.  The nonce stays recorded when the rate limiter refuses.
Admit(c) ==
    LET pair   == <<req[c].agent, req[c].nonce>>
        proven == req[c].nonce # NoNonce
    IN  /\ pc[c] = "admit" /\ ~Stream(c)
        /\ \/ /\ Goto(c, "refused")             \* request, key or clock skew
              /\ seen' = seen
           \/ /\ proven /\ pair \in seen[host[c]]
              /\ Goto(c, "nonce_replay")
              /\ seen' = seen
           \/ /\ proven => pair \notin seen[host[c]]
              /\ seen' = IF proven
                         THEN [seen EXCEPT ![host[c]] = @ \union {pair}]
                         ELSE seen
              /\ Goto(c, "lookup") \/ Goto(c, "refused")    \* rate limited
        /\ UNCHANGED <<clientVars, bill, cache, moneyVars, taskVars>>

\* SSE path: authentication and rate limit only, then straight to resolution:
\* no provenance and no idempotency cache.
AdmitStream(c) ==
    /\ pc[c] = "admit" /\ Stream(c)
    /\ Goto(c, "resolve") \/ Goto(c, "refused")
    /\ UNCHANGED <<clientVars, bill, seen, cache, moneyVars, taskVars>>

\* A failed lookup is ignored and the call goes on as if nothing were cached.
Lookup(c) ==
    LET row == cache[Key(c)]
    IN  /\ pc[c] = "lookup"
        /\ \/ /\ row = NoRow \/ "db" \in Faults
              /\ Goto(c, "resolve")
              /\ bill' = bill
           \/ /\ row # NoRow /\ row.hash = Hash(c)
              /\ Goto(c, "replayed")
              /\ bill' = [bill EXCEPT ![c] = row.bill]
           \/ /\ row # NoRow /\ row.hash # Hash(c)
              /\ Goto(c, "conflict")
              /\ bill' = bill
        /\ UNCHANGED <<clientVars, seen, cache, moneyVars, taskVars>>

\* JSON path: capability row, sunset, input schema, price, trust tier, mandate;
\* any of them may refuse the call before money is looked at.
Resolve(c) ==
    /\ pc[c] = "resolve" /\ ~Stream(c)
    /\ \/ Goto(c, IF PaysOnChain(c) THEN "check" ELSE "preflight")
       \/ Goto(c, "refused")
    /\ UNCHANGED <<clientVars, bill, seen, cache, moneyVars, taskVars>>

\* SSE path: capability row, streaming flag, price, trust tier, mandate.
ResolveStream(c) ==
    /\ pc[c] = "resolve" /\ Stream(c)
    /\ Goto(c, "preflight") \/ Goto(c, "refused")
    /\ UNCHANGED <<clientVars, bill, seen, cache, moneyVars, taskVars>>

\* The stored function: the first row for a key may stand or be overwritten.
CacheStore(k, row) ==
    \/ cache' = [cache EXCEPT ![k] = row]
    \/ cache[k] # NoRow /\ cache' = cache

(***************************************************************************)
(* dispatch_x402: replay check, facilitator, settlement row                *)
(***************************************************************************)
Recorded(p) == \E d \in settlements : req[d].pay = p

\* Switch, manifest, header decoding and validation, then exists_by_nonce.
CheckPayment(c) ==
    /\ pc[c] = "check"
    /\ \/ Goto(c, "refused")
       \/ Recorded(req[c].pay) /\ Goto(c, "reused")
       \/ ~Recorded(req[c].pay) /\ Goto(c, "settle")
    /\ UNCHANGED <<clientVars, bill, seen, cache, moneyVars, taskVars>>

\* Facilitator /verify and /settle.  The chain executes an authorisation once;
\* for one already executed the facilitator either reports the transaction it
\* knows or fails.  A timeout may hide a transfer that was executed.
SettlePayment(c) ==
    LET p == req[c].pay
    IN  /\ pc[c] = "settle"
        /\ \/ Goto(c, "refused") /\ committed' = committed
           \/ Goto(c, "record")  /\ committed' = committed \union {p}
           \/ /\ "facilitator" \in Faults
              /\ Goto(c, "refused") /\ committed' = committed \union {p}
        /\ UNCHANGED <<clientVars, bill, seen, cache, wallet, topped, settlements,
                       served, charged, taskVars>>

\* Bug: the pre-flight replay check is trusted, the table has no UNIQUE.
RecordPaymentUnconstrained(c) ==
    /\ pc[c] = "record"
    /\ settlements' = settlements \union {c}
    /\ bill' = [bill EXCEPT ![c] = "x402"]
    /\ Goto(c, "forward")
    /\ UNCHANGED <<clientVars, seen, cache, wallet, topped, committed, served,
                   charged, taskVars>>

\* INSERT under UNIQUE(payer, nonce) and UNIQUE(tx_hash); another database
\* error refuses the call although the transfer is on the chain, and although the
\* row is there if only the reply was lost.
RecordPayment(c) ==
    /\ pc[c] = "record"
    /\ \/ /\ ~Recorded(req[c].pay)
          /\ settlements' = settlements \union {c}
          /\ bill' = [bill EXCEPT ![c] = "x402"]
          /\ Goto(c, "forward")
       \/ /\ Recorded(req[c].pay)
          /\ Goto(c, "reused")
          /\ UNCHANGED <<settlements, bill>>
       \/ /\ "db" \in Faults
          /\ \/ UNCHANGED settlements
             \/ ~Recorded(req[c].pay) /\ settlements' = settlements \union {c}
          /\ Goto(c, "refused")
          /\ UNCHANGED bill
    /\ UNCHANGED <<clientVars, seen, cache, wallet, topped, committed, served,
                   charged, taskVars>>

(***************************************************************************)
(* Wallet rail, provider, billing, cache                                   *)
(***************************************************************************)
\* The balance read here is not reserved.
Preflight(c) ==
    /\ pc[c] = "preflight"
    /\ \/ /\ wallet[req[c].agent] >= Price
          /\ Goto(c, "forward")
       \/ /\ wallet[req[c].agent] < Price \/ "db" \in Faults
          /\ Goto(c, "refused")
    /\ UNCHANGED <<clientVars, bill, seen, cache, moneyVars, taskVars>>

CountCapability(c) == <<"count_capability", c>>
CountProvider(c)   == <<"count_provider", c>>
Notify(c)          == <<"notify", c>>

\* Bug: a call settled on chain is billed to the wallet as well.
ForwardBillingTwice(c) ==
    /\ pc[c] = "forward" /\ ~Stream(c)
    /\ served' = served \union {c}
    /\ Goto(c, "charge")
    /\ UNCHANGED <<clientVars, bill, seen, cache, wallet, topped, committed,
                   settlements, charged, taskVars>>

\* JSON path.  A URL the guard rejects, an unreachable provider or an error
\* status ends the call: nothing charged, nothing cached, and what was settled
\* stays settled.  After a 2xx a call paid on chain goes straight to its answer.
Forward(c) ==
    /\ pc[c] = "forward" /\ ~Stream(c)
    /\ \/ /\ "provider" \in Faults
          /\ Goto(c, "refused")
          /\ UNCHANGED <<served, spawned>>
       \/ /\ served' = served \union {c}
          /\ IF PaysOnChain(c)
             THEN /\ Goto(c, "store")
                  /\ spawned' = spawned \union {CountCapability(c)}
             ELSE Goto(c, "charge") /\ spawned' = spawned
    /\ UNCHANGED <<clientVars, bill, seen, cache, wallet, topped, committed,
                   settlements, charged, notified, capCalls, provCalls>>

\* SSE path: the same refusals, and a 2xx only opens the relay.
OpenStream(c) ==
    /\ pc[c] = "forward" /\ Stream(c)
    /\ \/ "provider" \in Faults /\ Goto(c, "refused")
       \/ Goto(c, "relay")
    /\ UNCHANGED <<clientVars, bill, seen, cache, moneyVars, taskVars>>

\* Bug: every end of the stream is billed, "completed" or not.
RelayBillingEveryEnd(c) ==
    /\ pc[c] = "relay"
    /\ Goto(c, "charge")
    /\ served' \in {served, served \union {c}}
    /\ UNCHANGED <<clientVars, bill, seen, cache, wallet, topped, committed,
                   settlements, charged, taskVars>>

\* The SSE loop ends on "completed", on the provider's own error or cancelled
\* event, on a read error, on end of stream, or on one of its two timeouts.
Relay(c) ==
    /\ pc[c] = "relay"
    /\ \/ Goto(c, "charge") /\ served' = served \union {c}
       \/ "provider" \in Faults /\ Goto(c, "refused") /\ served' = served
    /\ UNCHANGED <<clientVars, bill, seen, cache, wallet, topped, committed,
                   settlements, charged, taskVars>>

\* invoke_charge: one transaction that debits or finds the balance too low.
\* Its failure is not fatal and is reported as uncharged, also when the
\* transaction had committed and only its reply was lost.
Debit(c, reported) ==
    /\ wallet[req[c].agent] >= Price
    /\ wallet' = [wallet EXCEPT ![req[c].agent] = @ - Price]
    /\ charged' = charged \union {c}
    /\ bill' = [bill EXCEPT ![c] = reported]

\* Bug: a charge that found the balance too low is reported as made.
NoDebitReportedCharged(c) ==
    /\ bill' = [bill EXCEPT ![c] = "charged"]
    /\ UNCHANGED <<wallet, charged>>

NoDebit(c) ==
    /\ bill' = [bill EXCEPT ![c] = "uncharged"]
    /\ UNCHANGED <<wallet, charged>>

\* Bug: the charge does not spawn its event.
ChargeSilently(c) ==
    /\ pc[c] = "charge" /\ ~Stream(c)
    /\ Debit(c, "charged") \/ (NoDebit(c) /\ wallet[req[c].agent] < Price)
    /\ Goto(c, "store")
    /\ UNCHANGED <<clientVars, seen, cache, topped, committed, settlements,
                   served, taskVars>>

\* What invoke_charge may do, and whether the handler learns that it debited.
ChargeOutcome(c, debited) ==
    \/ debited /\ Debit(c, "charged")
    \/ /\ ~debited /\ NoDebit(c)
       /\ wallet[req[c].agent] < Price \/ "db" \in Faults
    \/ ~debited /\ "db" \in Faults /\ Debit(c, "uncharged")

\* JSON path: the counters are spawned whatever the charge returned.
Charge(c) ==
    /\ pc[c] = "charge" /\ ~Stream(c)
    /\ \E debited \in BOOLEAN :
          /\ ChargeOutcome(c, debited)
          /\ spawned' = spawned \union {CountCapability(c)}
                          \union (IF debited THEN {Notify(c)} ELSE {})
    /\ Goto(c, "store")
    /\ UNCHANGED <<clientVars, seen, cache, topped, committed, settlements,
                   served, notified, capCalls, provCalls>>

\* Bug: the SSE path charges without the event that the JSON path spawns.
ChargeStreamSilently(c) ==
    /\ pc[c] = "charge" /\ Stream(c)
    /\ \E debited \in BOOLEAN : ChargeOutcome(c, debited)
    /\ Goto(c, "answered")
    /\ UNCHANGED <<clientVars, seen, cache, topped, committed, settlements,
                   served, taskVars>>

\* SSE path: run_invoke_charge, then the "completed" event; the call is neither
\* counted nor cached.
ChargeStream(c) ==
    /\ pc[c] = "charge" /\ Stream(c)
    /\ \E debited \in BOOLEAN :
          /\ ChargeOutcome(c, debited)
          /\ spawned' = IF debited THEN spawned \union {Notify(c)} ELSE spawned
    /\ Goto(c, "answered")
    /\ UNCHANGED <<clientVars, seen, cache, topped, committed, settlements,
                   served, notified, capCalls, provCalls>>

\* A failed cache_store is logged and the answer is sent all the same.
Store(c) ==
    /\ pc[c] = "store"
    /\ \/ CacheStore(Key(c), [hash |-> Hash(c), bill |-> bill[c]])
       \/ "db" \in Faults /\ cache' = cache
    /\ Goto(c, "answered")
    /\ UNCHANGED <<clientVars, bill, seen, moneyVars, taskVars>>

(***************************************************************************)
(* Spawned tasks, top-ups and faults                                       *)
(***************************************************************************)
\* webhooks::enqueue for agent and provider; its errors are swallowed.
RunNotify(c) ==
    /\ Notify(c) \in spawned
    /\ spawned' = spawned \ {Notify(c)}
    /\ \/ notified' = notified \union {c}
       \/ "db" \in Faults /\ notified' = notified
    /\ UNCHANGED <<clientVars, pc, bill, seen, cache, moneyVars, capCalls, provCalls>>

\* increment_capability_calls: two UPDATEs outside a transaction, the provider's
\* only after the capability's succeeded.
RunCountCapability(c) ==
    /\ CountCapability(c) \in spawned
    /\ \/ /\ capCalls' = capCalls \union {c}
          /\ spawned' = (spawned \ {CountCapability(c)}) \union {CountProvider(c)}
       \/ /\ "db" \in Faults
          /\ capCalls' = capCalls
          /\ spawned' = spawned \ {CountCapability(c)}
    /\ UNCHANGED <<clientVars, pc, bill, seen, cache, moneyVars, notified, provCalls>>

RunCountProvider(c) ==
    /\ CountProvider(c) \in spawned
    /\ \/ provCalls' = provCalls \union {c}
       \/ "db" \in Faults /\ provCalls' = provCalls
    /\ spawned' = spawned \ {CountProvider(c)}
    /\ UNCHANGED <<clientVars, pc, bill, seen, cache, moneyVars, notified, capCalls>>

\* Bug: every delivery of a session is credited.
TopUpEveryDelivery(s) ==
    /\ wallet[Owner[s]] < Opening + 2 * TopUpAmount
    /\ topped' = topped \union {s}
    /\ wallet' = [wallet EXCEPT ![Owner[s]] = @ + TopUpAmount]
    /\ UNCHANGED <<clientVars, pc, bill, seen, cache, committed, settlements, served,
                   charged, taskVars>>

\* topup_wallet is idempotent on the Stripe session; a second delivery of the
\* session changes nothing.
TopUp(s) ==
    /\ s \notin topped
    /\ topped' = topped \union {s}
    /\ wallet' = [wallet EXCEPT ![Owner[s]] = @ + TopUpAmount]
    /\ UNCHANGED <<clientVars, pc, bill, seen, cache, committed, settlements, served,
                   charged, taskVars>>

\* The client goes away: the server drops the handler at its current await.
\* Tasks it spawned keep running.
Drop(c) ==
    /\ "drop" \in Faults
    /\ c \in InFlight
    /\ Goto(c, "dropped")
    /\ UNCHANGED <<clientVars, bill, seen, cache, moneyVars, taskVars>>

\* A machine restarts: its handlers, its tasks and its replay cache are gone.
Crash(m) ==
    /\ "crash" \in Faults
    /\ \E c \in InFlight : host[c] = m
    /\ pc' = [c \in Calls |-> IF c \in InFlight /\ host[c] = m THEN "dropped" ELSE pc[c]]
    /\ seen' = [seen EXCEPT ![m] = {}]
    /\ spawned' = {t \in spawned : host[t[2]] # m}
    /\ UNCHANGED <<clientVars, bill, cache, moneyVars, notified, capCalls, provCalls>>

\* Every call has ended and every task has run.
Quiescent ==
    /\ \A c \in Calls : pc[c] \in Finished
    /\ spawned = {}
    /\ UNCHANGED vars

Handle(c) ==
    \/ Admit(c) \/ Lookup(c) \/ Resolve(c)
    \/ CheckPayment(c) \/ SettlePayment(c) \/ RecordPayment(c)
    \/ Preflight(c) \/ Forward(c) \/ Charge(c) \/ Store(c)
    \/ AdmitStream(c) \/ ResolveStream(c) \/ OpenStream(c) \/ Relay(c) \/ ChargeStream(c)

RunTask(c) == RunNotify(c) \/ RunCountCapability(c) \/ RunCountProvider(c)

Next ==
    \/ \E c \in Calls : Receive(c) \/ Handle(c) \/ RunTask(c) \/ Drop(c)
    \/ \E s \in Sessions : TopUp(s)
    \/ \E m \in Machines : Crash(m)
    \/ Quiescent

Spec == Init /\ [][Next]_vars

\* The runtime polls a spawned task until it is done, so a task whose statements
\* the database answers runs to its end.  Nothing more is assumed: a handler may
\* stand still for ever, since a stream and its timeouts only advance while the
\* client reads, and a statement has no timeout once its connection is acquired.
Fairness == \A c \in Calls : WF_vars(RunTask(c))
FairSpec == Spec /\ Fairness

(***************************************************************************)
(* Properties                                                              *)
(***************************************************************************)
\* A wallet is debited only for a call that the provider answered with
\* success, and never for a call that was settled on chain, whatever is lost
\* between the forward, the charge and the answer.
ChargedOnlyIfServed == charged \subseteq served \ settlements

\* No money appears or vanishes on the wallet rail: what a wallet holds is what
\* was paid in less the price of every call invoke_charge debited, also when
\* concurrent calls passed the pre-flight check on the same balance.
DebitedBy(a)  == {c \in charged : req[c].agent = a}
ToppedFor(a)  == {s \in topped : Owner[s] = a}
WalletConserved ==
    \A a \in Agents :
        /\ wallet[a] >= 0
        /\ wallet[a] + Price * Cardinality(DebitedBy(a))
             = Opening + TopUpAmount * Cardinality(ToppedFor(a))

\* Two calls presenting the same X-Payment, even under different request ids
\* and after both passed exists_by_nonce, do not both get settled; a recorded
\* settlement was executed on the chain; a JSON call with X-Payment is served
\* only once its settlement is recorded.
PaymentSpentOnce ==
    /\ \A c, d \in settlements : req[c].pay = req[d].pay => c = d
    /\ \A c \in settlements : req[c].pay \in committed
    /\ \A c \in served : PaysOnChain(c) => c \in settlements

\* A cached answer tells the truth about another call of the same agent, id and
\* payload: that call was served, and was charged or settled if the row says so.
CachedAnswerTrue ==
    \A k \in Agents \X Ids : cache[k] # NoRow =>
        \E c \in served :
            /\ Key(c) = k /\ Hash(c) = cache[k].hash
            /\ cache[k].bill = "charged" => c \in charged
            /\ cache[k].bill = "x402" => c \in settlements

\* The catalogue's counters may lag and may lose calls in a crash, but never
\* run ahead: the provider's is bounded by the capability's, that one by the
\* calls really served; invocation.completed is announced only for a charge.
CountersNeverLead ==
    /\ provCalls \subseteq capCalls
    /\ capCalls \subseteq served
    /\ notified \subseteq charged

\* The Hub keeps the promise of PaidCalls.
Ledger == INSTANCE PaidCalls WITH
    payer   <- [c \in Calls |-> req[c].agent],
    auth    <- [c \in Calls |-> req[c].pay],
    onChain <- {c \in Calls : PaysOnChain(c)},
    transferred <- committed
KeepsLedger == Ledger!Spec

\* Calls with the same agent and id are one call (spec/openapi.yaml:690), so
\* the provider performs it once.  Two overlapping calls both miss the cache, and
\* nothing reserves the id between the lookup and the store.
ServedOnce == \A c, d \in served : Key(c) = Key(d) => c = d

\* A client that is told "charged", by its JSON call, by its stream or by a row
\* replayed from the cache, is told of a charge that reaches the outbox: its own
\* if it was charged, else that of a call with the same id and payload.  It does
\* so though clients leave and handlers stall; only a restart or a failed enqueue,
\* neither of them in this run, can lose the event.
EveryChargeNotified ==
    \A c \in Calls : bill[c] = "charged" ~>
        \E d \in notified :
            IF c \in charged THEN d = c ELSE Key(d) = Key(c) /\ Hash(d) = Hash(c)

(***************************************************************************)
(* The inductive invariant behind the safety properties: what each await   *)
(* knows about its call, what each effect says about where its call is,    *)
(* and what a background task still owes.                                  *)
(***************************************************************************)
StageInv == \A c \in Calls :
    /\ pc[c] \in {"check", "settle", "record"} => PaysOnChain(c)
    /\ pc[c] = "record" => req[c].pay \in committed
    /\ pc[c] = "preflight" => ~PaysOnChain(c)
    /\ pc[c] = "relay" => Stream(c)
    /\ pc[c] \in {"forward", "store"} /\ PaysOnChain(c) => c \in settlements
    /\ pc[c] = "charge" => c \in served \ charged /\ ~PaysOnChain(c)
    /\ pc[c] = "store" =>
          /\ c \in served
          /\ bill[c] \in {"charged", "uncharged", "x402"}
          /\ bill[c] = "charged" => c \in charged
          /\ bill[c] = "x402" => c \in settlements
    /\ pc[c] = "forward" /\ PaysOnChain(c) => bill[c] = "x402"

EffectInv == \A c \in Calls :
    /\ c \in served =>
          /\ pc[c] \in {"charge", "store", "answered", "dropped"}
          /\ PaysOnChain(c) => c \in settlements
    /\ c \in charged =>
          /\ c \in served /\ ~PaysOnChain(c)
          /\ pc[c] \in {"store", "answered", "dropped"}
    /\ c \in settlements =>
          /\ PaysOnChain(c) /\ req[c].pay \in committed
          /\ pc[c] \in {"forward", "store", "answered", "refused", "dropped"}

UniqueInv == \A c, d \in settlements : req[c].pay = req[d].pay => c = d

TaskInv == \A c \in Calls :
    /\ CountCapability(c) \in spawned => c \in served
    /\ CountProvider(c) \in spawned => c \in capCalls
    /\ Notify(c) \in spawned => c \in charged

IInv ==
    /\ TypeOK /\ StageInv /\ EffectInv /\ UniqueInv
    /\ TaskInv /\ CountersNeverLead /\ CachedAnswerTrue
=============================================================================
