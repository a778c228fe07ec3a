# A formal model of the JECP hub

The hub (`jecp-server`) is a Rust service in front of PostgreSQL. Agents call
capabilities through it, it takes their money from a prepaid wallet or through
an x402 payment on the Base chain, forwards the call to a provider, and tells
subscribers by webhook. Several machines run the same binary (`fly.toml` keeps
at least one and starts more); they share the database and nothing else.

This directory holds TLA+ modules for the parts that move money or messages and
for those that decide who may, TLC configurations that check them on small
instances, and TLAPS proofs that the main safety properties hold for every size.
Paths below are relative to the repository's `src/`.

## 1. Inventory

| Component | State it keeps | Operations | Interacts with |
|---|---|---|---|
| `POST /v1/invoke` (`routes/invoke.rs`) | idempotency rows, wallets, settlement rows, counters; per machine the provenance nonces | JSON call, SSE call, top-up | provider, facilitator, outbox |
| x402 rail (`routes/invoke_x402.rs`, `protocol/x402_*`, `services/x402_facilitator.rs`) | settlement rows; authorisations on the chain | check, verify, settle, record | invoke, facilitator |
| x402 reconciler (`services/x402_reconciler.rs`) | status, attempts and age of each settlement | one tick a minute on every machine | Base RPC |
| Refund API (`routes/refunds.rs`) | refund rows, refunded transactions | request, approve, deny, auto-approval loop | outbox |
| Webhook outbox (`services/webhooks.rs`) | outbox rows with claim, attempts, next attempt | enqueue, claim, post, retry, abandon | subscriptions, endpoints |
| Subscriptions (`routes/subscriptions.rs`) | owner, endpoint, status, secret, failure count | create, update, delete, test | outbox |
| Built-in tasks (`routes/jecp.rs`) | free calls, call counter, wallet, tasks, idempotency rows | JSON call, SSE call | capabilities |
| Agent authentication (`auth/`) | keys, previous keys, call counters, nonces | authenticate, provenance v1 and v2 | both call paths |
| Key rotation (`routes/keys.rs`) | current and previous key, end of grace, rotations of 24 h | rotate agent, rotate provider | authentication |
| Replay cache (`auth/replay_cache.rs`) | nonces with their time, in LRU order, per machine | check and record, sweep | both call paths |
| Rate limiter (`middleware/rate_limit.rs`) | call times per agent, per machine | check, cleanup | both call paths |
| Feature flags (`middleware/feature_flag.rs`) | a map with its time of fetching, per machine | is_enabled | x402 rail, reconciler |
| Catalogue (`routes/manifests.rs`, `routes/capabilities.rs`) | versions of capabilities and their status | publish, promote, sunset, resolve, page | invoke, relayer |
| Providers (`routes/providers.rs`) | registration, payout address, DNS and Stripe state | register, verify, connect | catalogue, resolvers, Stripe |
| Relayer (`services/x402_relayer*.rs`) | a lock per machine; the account's nonces on the chain | register a capability | KMS, Base RPC |
| SNS engine (`capabilities/sns_engine`, `services/sns_bridge.rs`) | campaigns, tests, learnings, snapshots | six actions | Claude, SNS bridge |
| Connection pools (`services/database.rs`) | four pools | start-up | database |
| Supervisor (`services/supervisor.rs`) | backoff of each loop | restart | the three loops |

What is hard in this code: nearly every handler reads, awaits, and writes in
another statement, so handlers interleave between the two; errors of many writes
are ignored by design; a handler is dropped at its current await when its client
goes away, and background tasks go with their machine; leases, ages and backoffs
race with slow work; an RPC node lags behind the chain it reports on.
`PROJECT.json` lists each such place at its line under "hazards".

What makes each part correct:

* **invoke**: money moves once per served call, one authorisation pays once,
  a cached answer is true, a request id is one call, a charge that a client is told
  of is announced, and a stream is relayed and metered as the provider sent it.
* **x402 rail**: "settled" means that the money moved; a payment refused for good
  did not move and will not.
* **reconciler**: a verdict is true of the transaction, deep enough, and final;
  every settlement gets one.
* **refunds**: no credit without consent, a verdict stands, limits hold, every
  request is resolved and every approval paid.
* **outbox and subscriptions**: one handler per row, outcomes final and true, an
  event given up only after all its attempts, every event settled; a subscriber
  can verify what it gets.
* **tasks**: a debit only for work done, "wallet" only if debited, free calls
  last as long as granted.
* **keys, nonces, limits, flags**: nobody is locked out by a rotation and no key
  rotates twice, a nonce is accepted once, no window holds more calls than the
  limit, a switch is obeyed within its time to live.
* **catalogue and providers**: what is listed belongs to someone who was verified;
  what has ended stays ended; paging misses nothing.
* **relayer**: distinct nonces for distinct receipts; a signature the chain takes.
* **SNS engine**: what is reported is what is on the platform.

## 2. Modules and their correspondence to the code

`MC*.tla` only define constants of small instances. `*Proofs.tla` hold theorems.

### `Invoke.tla`, with the abstract `PaidCalls.tla`

One action per await of the handlers. `pc[c]` names the await at which the
handler of call `c` stands, so that everything between two awaits is one step:
`Receive`, `Admit` (authentication, provenance, rate limit), `Lookup`,
`Resolve`, `CheckPayment`/`SettlePayment`/`RecordPayment` (dispatch_x402),
`Preflight`, `Forward`, `Charge`, `Store`; the SSE path has `AdmitStream`,
`ResolveStream`, `OpenStream`, `Relay` and `ChargeStream`. `RunNotify`,
`RunCountCapability` and `RunCountProvider` are spawned tasks; `Drop` is a client
that goes away, `Crash(m)` a machine that restarts with its replay cache.

`req` is fixed at the start and holds what every call of the run will carry, so
a retry is another call with the same agent and id. Stored functions
(`jecp.invoke_charge`, `topup_balance`, `cache_store`) are not in the repository
and appear as the handlers use them: `Debit` takes the price if the balance
covers it, in one transaction; `CacheStore` may keep the first row or replace it.

`RecordPayment` may fail in the database and have written its row all the same:
the reply was lost, and the caller gets the error.

`PaidCalls` is the promise about money without handlers, caches or failures:
top up, transfer on the chain, settle, serve, charge. Two modules implement it,
checked by TLC and proved: `Invoke` (`KeepsLedger`), where wallets, services and
settlements meet, and `PaymentPath` (`KeepsPromise`), which takes the steps from
the header to the settlement row one by one and knows what the facilitator did
besides what it said. The refinement mappings stand in those modules.

### `Settlement.tla`, with the abstract `Verdicts.tla`

`Fetch`, `ReadHead`, `Ask` and `Apply` are the four awaits of `reconcile_once`;
`Abort` is a failed update, a panic or a restart. `effect[r]` fixes what the
transaction of row `r` does when it is included; `Mine` and `Reorg` are the
chain, `Minute` the clock. Ages and attempts are capped where the code no longer
tells values apart. As in the code the head is read once per tick, the attempts
and age come from the SELECT, and the UPDATE names the row by id only.

`Verdicts` is the promise without ticks, batches or RPC: machines take open rows, and
with each one a machine holds it looks, judges or gives up, in one step, by what the
transaction does and where its block is at that moment, and then has let it go.
`Settlement` implements it with any number of machines (`KeepsVerdicts`), checked by
TLC and proved: although the row is selected, its receipt asked for and the UPDATE made
at different moments, nothing that the verdict rests on can change in between. What
the update by id alone costs is in the promise too: a verdict may be overruled by
those who held the row when it was passed, once by each (`holders`), and by nobody
else. A row that nobody holds has its verdict for good (`RestingIsFinal`, proved).
A look without a chain head is the exception the code makes, and `Verdicts` has it as
`unseen`.

### `Refunds.tla`, with the abstract `Paybacks.tla`

`CheckTransaction`, `CountDay`, `CountPair`, `InsertRefund` are the queries of a
request; `ReadRefund`, `UpdateRefund`, `ProcessRefund`, `FireEvents` those of
approve and deny; `AutoApprove` and `AutoProcess` the loop. The stored functions
`process_refund` and `auto_approve_pending_refunds` are external, as described
in the module's head. Age is kept in three classes: within 24 h, within the
window of 168 h, past it.

`Paybacks` is the promise without queries or a loop: ask, within the limits, decide
once or let the window lapse, repay once, tell what was done. Refunds implements it
as long as one call or batch is at work and nothing fails (`SerialKeepsPaybacks`,
checked by TLC and proved); section 3 says how overlapping verdicts break it. What is
left of the limits when requests overlap is `OverrunBounded`: fewer rows too many
than there can be requests in progress. `uncounted` remembers which requests passed a
limit because its COUNT failed, and leaves their rows out.

### `WebhookOutbox.tla`, with the abstract `Deliveries.tla`

`Claim` is the one statement that selects and stamps; `Take`, `Answer`,
`WriteDelivered`, `ResetFailures`, `WriteRefused`, `WriteRetry`, `WriteAbandoned`
and `CountFailure` are what the worker does with one row, each await a step, each
write free to fail (`Unless`). A tick is 30 s, the longest a post may take: while
a post is under way at most one tick passes (`Passing`, `late`). `age[r]` counts
ticks since the claim up to `Lease` and then stays at `Free`, which also stands for
a NULL `claimed_at`; both make a row claimable. `acked`, `failed` and `refused`
are history: what really happened at the endpoints.

`Deliveries` is the promise about events without workers, batches, leases or clocks:
announce, accept, fail, refuse, count, deliver, give up. Only a waiting event is
posted, and the attempts on record rise one by one, although each is read at a
claim and written back after a post. An event whose lease ran out in a worker's hands
is `loose`: it may be posted again after its outcome, get both outcomes and have its
count set back, but every outcome is still true. `WebhookOutbox` implements it for
every batch and lease (`KeepsDeliveries`, with `overdue` for `loose`), checked by TLC
and proved.

### `ExecuteTask.tla`, with the abstract `Accounts.tla`

`Authenticate` reads the free calls that `ChooseFree` and `ChoosePaid` decide on
later. `Consume`, `OpenTask`, `Run` or `RunStream`, `Deduct`, `Count`, `CloseDone`,
`CloseFailed` and `Store` follow in the order of the handler. Provenance, trust
tier, rate limit and mandate are one step that may refuse (`Gate`).

`Accounts` is the promise to an agent without a means of payment chosen in advance:
grant, perform, debit, bill, keep, repeat. `ExecuteTask` implements it under every
fault and overlap (`KeepsAccounts`), checked by TLC and proved. It promises that a
debited call was performed, that "wallet" means debited and "charged" not, and not
what the code does not keep: a call may be debited and told that it was free (a lost
reply, `routes/jecp.rs:248`), or performed and never billed (a client that leaves).

### `PaymentPath.tla`

The x402 branch of an invocation once more, which `Invoke` has in three steps:
`CheckHeader` (headers, switches, manifest and the checks of `x402_verify.rs` in
their order), `LookupNonce`, `VerifyPayment`, `SettleAuthorisation` and
`InsertSettlement`, with the code and the cause of every refusal. `PostSigned` is
the facilitator's client: timeout, certificate pin, broken transfer, cut body,
signature, 5xx, 4xx, in that order. External is what happens behind it: a transfer
takes place at most once, perhaps after the request for it was given up
(`MovesLate`), and only what the facilitator signs need be true (`Truthful`).
Amounts are integers; `Shares` is the split with its remainder.

### `SseStream.tla`

`SseParser` (`Feed`, `ProcessLine`, `Dispatch`) and the relay (`RelayEvent`) that
shows, meters and charges. The code's two loops, over the lines of a piece and over
the events they complete, are taken a symbol (`StreamPiece`) and an event at a time;
`EndPiece` may come behind any symbol. `Invoke` has all this as the one action
`Relay`, which succeeds or fails.

### `Subscriptions.tla`

POST, PATCH, DELETE and test. PATCH and test look at the row in one statement and
write in another (`CheckOwner`, then `UpdateSubscription` or `TestSubscription`);
`Upsert` keeps the secret of the row as `ON CONFLICT` does; answers can be lost.
`WebhookOutbox` has the worker on the other side and sees only a row's status.

### `KeyRotation.tla`

An actor has an active key and a previous one with an end of grace. Agents are
found by one statement (`AuthenticateAgent`), providers by up to two
(`AuthenticateProvider`, `Match`), between which a rotation may come. The stored
functions that rotate are external, atomic, and, as the handlers rely on, check the
agent's key again under their lock (`StillActive`); the providers' one does not.
`held` and `spent` are history.

### `RateLimiter.tla`, `ReplayCache.tla`, `FeatureFlags.tla`

State in the memory of one machine. A check of the limiter takes its stamp in
`BeginCheck` and gets the lock later (`Grant`, `Refuse`), so stamps enter a window
out of order; ticks are finer than the seconds that the code compares. The code
filters and counts a window and never looks at its order, so here it is a set, in
which calls with one stamp differ by their `twin`. The replay
cache is a sequence in LRU order with the time of each nonce; the clock is read
after the lock, so a check is one step. A read of a flag finds a fresh map or
fetches one, in two steps, so refreshes overlap; a failed fetch leaves the old map
and a flag nobody knows is on.

### `Relayer.tla`, `TxSignature.tla`

`BeginRelay` takes the machine's lock; `GetNonce`, `GetGas`, `KmsSign` and `SendRaw`
are its requests, each of which may fail; `ArriveLate` is a transaction whose
sender gave up. `pool` is what the node keeps for the account by nonce, with the
rule that a higher fee replaces. `TxSignature` follows the digits of one signature
from KMS's DER through low-s normalisation and the search for the parity into RLP;
`Base`, `Width`, `Order` and `HalfOrder` stand for 256, 32 and the code's two arrays of
the order of the curve and its half. A number is its digits, as in the code: the
comparison and the subtraction are digit by digit (`IsHighS`, `Subtract`, with
`Borrows` for the variable of the loop), and `Value`, what the digits are worth, is
there for the property alone.

### `SnsEngine.tla`

A call of one of the six actions: begin, have Claude write, send the posts over
`RequestWithRetry`, store. The actions differ in who may fail: Claude's failure
ends a call uncharged before anything is sent, an error of the bridge ends a thread
but not a campaign, a failed INSERT is logged. `lost` counts answers that were lost
after the bridge had acted. A post may succeed without an id (`unnamed`), since
`external_id` is optional; the next post of the thread then replies to none.

### `Registration.tla`, `Catalogue.tla`

`Registration` has the insert with its unique namespace, the payout address written
in a second statement, the three resolvers of a DNS proof (`Resolve`,
`Consensus`, `ConcludeLookup`), and Stripe's bridge, which writes the row itself.
`Catalogue` extends it: editors read the provider (`BeginEdit`) and the version
(`ReadStatus`), relay, and write in a guarded UPDATE (`UpdateStatus`); the client
pages by a cursor on (calls, time, id) while `Serve` changes the calls.

### `Pools.tla`

The division of the connections into four pools, in 32-bit arithmetic.

### `MCComponents.tla`, `MCCatalogue.tla`

The components from `PaymentPath` to `SnsEngine` share no state, so one run can
check them all: a behaviour of `MCComponents` is one of one component (`part`),
and the others stay as they started. `MCCatalogue` has three parts with different
bounds: registration and proof, the life of a version, and paging.

## 3. Runs

Every property of a passing run has a mutant in `PROJECT.json`: a definition
changed as a plausible bug would change it (marked "Bug" where it stands), with
which TLC finds the property violated on the same configuration. Type invariants
are proved (section 5) or were checked while writing, and take no place here.

| Run | Bounds | Shows |
|---|---|---|
| `invoke_money` | two overlapping calls drawn from six requests (two ids, two payloads, JSON and SSE, X-Payment, provenance), one wallet, one top-up, all faults | `WalletConserved`, `PaymentSpentOnce`, `CachedAnswerTrue`, `KeepsLedger` (which implies `ChargedOnlyIfServed`: only a served call can be charged) |
| `invoke_liveness` | the same calls, clients that leave, provider and facilitator that fail, handlers that may stand still, fair tasks | `EveryChargeNotified` |
| `settlement_book` | two machines on one row, of which one may stop for ever, and one machine on two rows; a batch of one, two blocks, depth one, all faults of RPC, chain and database, fairness | `StatusTrue`, `KeepsVerdicts`, `EverySettlementResolved` |
| `refund_book` | three instances in one, chosen at the start (`mode`): four calls on two charges, one call or batch at a time without failures, fairness; three calls, two at once with the loop, failures of the database and of process_refund, restarts; the same for three requests for three charges with limits of two and one | `CreditNeedsConsent`, `OverrunBounded` in all; `SerialKeepsPaybacks` (which implies `SerialMoneyFollowsVerdict`), `SerialEveryRequestResolved` in the first |
| `outbox_book` | two workers, two rows, a batch of two against a lease of one tick, three attempts, one fault, a subscription that changes, fairness | `OneHandler`, `OutcomeTrue`, `KeepsDeliveries`, `EveryEventSettled` |
| `execute_faults` | two instances in one: three calls one at a time without faults; three calls, two at once, one free call, a wallet for one, all faults | `KeepsAccounts`, `WalletAnswerTrue`, `CachedAnswerTrue` in both; `SerialCallsCounted` in the first |
| `components` | ten components, one in each behaviour (below) | fifteen properties (below) |
| `catalogue` | one namespace with two registrants, one verifier, three resolvers of which one says anything; two editors on two versions; one editor on three versions, a client with pages of one, one call served of each | `VerifiedWasPublished`, `ActiveWasProven`, `ListedOnce`, `EndsAreFinal` |

The parts of `components`:

| Part | Bounds | Shows |
|---|---|---|
| rate limiter | two checks at once, limits 1 and 2, a window of 2 s in half seconds, 7 ticks | `WindowRespected`, `RetryHonest` |
| replay cache | three nonces, two places, 2 s to live, skew of 1 s, 5 messages | `NonceOnce` |
| feature flags | two overlapping reads, 2 beats to live, 4 beats, failing reads | `FreshEnough` |
| keys | two requests at once of one agent or one provider, grace 1 to 2 h, two rotations, failures | `OneWinner`, `NeverLockedOut` |
| x402 payment | two attempts with one authorisation, two prices, time before, within and past its validity, answers lost, cut, late or not the facilitator's | `SettledIsPaid`, `RefusedIsUnpaid`, `KeepsPromise` |
| relayer | three submissions on a machine, two fees, lost and late requests | `ReceiptsDistinct` |
| signature | two digits in base 16, order 227 (`<<14, 3>>`), its half 113; seven r with leading zeros and sign bits, every s | `SignatureTrue` |
| SNS engine | one call of each action, three posts, three attempts for each, lost answers | `PostsAccounted`, `ThreadChained` |
| stream | three events of six kinds, both line ends, every cut | `StreamRelayed` |
| subscriptions | three requests of two subscribers for two endpoints, failures, lost answers | `SecretWasTold` |

Why the bounds suffice: each hazard involves two actors that meet on one row and
a third event (a fault, a tick, a retry), and the instances have two machines or
calls and one of each event. Wallets hold one call's price and not two; the
batch of the outbox outlasts its lease; capacities and attempts are two or three, so
that the first and the last differ; the chain grows past the depth that counts; times to
live and windows end within the run's clock.
The proofs cover every value of the constants, the code's included (12 attempts, 60 s,
32 bytes). Where the relation of two numbers matters the instance keeps it: a batch of
50 rows at up to 30 s each against a lease of 10 such ticks is larger than the lease,
and so is the batch of two here; no theorem about the outbox assumes the contrary.
In `settlement_book` a second machine takes part only while there is one row, and one
of two rows has a transaction that pays, reverts or does nothing (`BookSpec`); the
proofs have no such limit.

Deadlock is checked everywhere but in `catalogue`: there requests are bounded by
the items that can still be published and a provider an operator has deleted may
do nothing more, so the system really may stop. In `components` a part stops at
the bound of its clock or with every call answered, and those ends are stutters
named in `MCComponents.tla`.

### Where the code and its documents disagree

The violated runs state a sentence of the repository, and TLC shows the execution
that breaks it. `PROJECT.json` quotes each under "findings".

| Run | What happens |
|---|---|
| `invoke_concurrent` | two overlapping calls with one id are both performed and billed (`ServedOnce`) |
| `settlement_machines` | with two machines a stale batch overwrites a verdict (`TerminalIsFinal`) |
| `outbox_overlap` | a batch outlives its lease and an acknowledged event is posted again (`AcceptedOnce`) |
| `execute_stream` | a streamed call by wallet is reported charged and not debited (`WalletCallPays`) |

The models contain these further differences, each at the definition named, and
behave as the code does; no run is spent on them.

Invocation and payment:

* `AdmitStream`: `POST /v1/invoke` over SSE keeps no idempotency row, although
  `spec/openapi.yaml:44` promises idempotency for the route.
* `Admit`: an identical retry with provenance v2 is refused by the replay cache
  before the idempotency cache is read (`routes/invoke.rs:215`).
* `InsertSettlement`: a payment that was made, and whose row cannot be written, is
  answered X402_PAYMENT_INVALID (`db_insert`); this is the exception in
  `RefusedIsUnpaid`.
* `PostSigned`: after a settlement, an answer that is cut short or does not bear the
  signature is "unreachable", though the transfer may have been made.
* `Unified`: a CRLF that the network cuts in two is not unified
  (`routes/invoke.rs:1955`), so events run together; a `completed` among them is
  missed and the call goes uncharged. `StreamRelayed` excepts such streams (`torn`).
  A character cut in two is garbled in the same way.
* `Dispatch`: an event without data is dispatched, which the standard would drop.

Settlement, refunds, outbox, tasks:

* `Shallow`: without a chain head the depth is not compared
  (`services/x402_reconciler.rs:14`); `blind` remembers such rows. A settlement is
  marked failed at any depth.
* `ObservedPayment`: the first USDC transfer of a receipt is taken for the payment
  (`services/x402_reconciler.rs:518`).
* `Expired`: the header says "orphaned after 30 attempts"; with a tick a minute
  the age of 600 s decides first.
* `UpdateRefund`: two verdicts that overlap pass the same status check
  (`routes/refunds.rs:10`). This is why the properties with "Serial" in their names
  ask for one at a time.
* `CountPair`: two requests that overlap pass the same count (`routes/refunds.rs:228`);
  `OverrunBounded` says by how much a limit can be overrun.
* `Overdue`: auto-approval after 168 h, documented as 24 h (`spec/openapi.yaml:309`).
* `WriteRefused`: a refused destination is recorded as delivered, while the comment
  says "Mark abandoned" (`services/webhooks.rs:132`).
* `Delay`: the first retry comes after two minutes, documented as one
  (`services/webhooks.rs:7`).
* `ChooseFree`: calls in flight at the last free call are all free
  (`spec/openapi.yaml:199`).
* `CompletedId`: tasks are completed under an id that was never recorded
  (`routes/jecp.rs:198`), so every recorded task stays "working".

Keys, limits, flags, subscriptions:

* `Rotate`: a second rotation within the grace period drops the first key, although
  its `previous_key_valid_until` was promised (`routes/keys.rs:16`); two rotations
  of a provider with one key both succeed; an agent's grace key passes
  authentication and ends in ROTATION_RACE.
* `RetryAfter`: a caller of `/v1/jecp` with the lower limit of its tier may be refused
  again after waiting as told, since `/v1/invoke` fills the same window up to a
  higher limit. `RetryHonest` is about the highest limit.
* `Write`: of two overlapping refreshes the older may be written last, so reads of a
  flag can go back and forth within the time to live; `FreshEnough` bounds it.
* `UpdateSubscription`: `updated: true` is answered when the statement failed or the
  endpoint was taken.
* `Upsert`: a POST that is repeated because its answer was lost is told a secret that
  is not stored (`routes/subscriptions.rs:144`).

Catalogue and providers:

* `StoredMethods`: `payment_methods` of a manifest are not kept when it is published
  (`routes/manifests.rs:97`, `:168`), so `RelayRegistration` never finds "x402".
* `RelayRegistration`: a capability without a payout address is promoted, although
  `routes/providers.rs:37` says it is rejected.
* `Resolved`: a sunset version whose text is larger shadows an active one.
* `UpdateStatus`: promote answers "active" after a concurrent sunset, and the sunset of
  a deprecated version answers "sunset" and changes nothing.
* `FetchPage`: items whose calls change while a client pages may be skipped or shown
  twice; `ListedOnce` is about the steady ones.
* `InsertProvider`: a registration whose answer is lost keeps its namespace.

Relayer and SNS engine:

* `Lock`: machines that share the relayer's account lock each for itself; so
  `ReceiptsDistinct` is about one machine.
* `Enter`: a late transaction with a higher fee may replace one that was answered.
* `PostedAnyway`: trend-pulse reports `posted: true` whatever the bridge says
  (`capabilities/sns_engine/trend.rs:118`).
* `ScheduleTomorrow`: `posts_scheduled` counts the posts that failed.
* `ScheduleVariants`: variants are named by the letter Claude gives them, and two with
  one letter would be one scheduled post; here their letters differ.

## 4. Fairness

Behind every item stands one assumption about the environment: the database answers a
statement in the end, with a result or an error.

* `Invoke`: weak fairness of the spawned tasks, and nothing else. The runtime polls a
  task until it is done, and a task only talks to the database. Handlers may stand
  still for ever: the
  timeouts of a stream (`routes/invoke.rs:1491`) pass only while the client reads the
  body, and a statement has none once its connection is acquired
  (`services/database.rs:21`). That every call ends is therefore not claimed. Clients
  and Stripe owe nothing.
* `Settlement`: weak fairness of the clock, of the chain growing, and of each
  reconciler of `Lasting`, the machines that keep running, of which there is at least
  one (`fly.toml:19`): its supervisor restarts it, and its RPC client has a timeout.
  Nothing is assumed of the other machines, which may stop with a batch in hand. Strong
  fairness, for a machine of `Lasting`, of reading the head, of a receipt request that
  is answered and of an update that is done: nothing in the code limits the number of
  failed ticks, so `EverySettlementResolved` holds only if faults do not last for ever.
* `Refunds`: weak fairness of handlers, of the loop and of time, in the serial
  instance: nobody retries a payment that failed. Only loops and started handlers
  are fair: no client and no provider has to call.
* `WebhookOutbox`: weak fairness of each worker and of the clock. Endpoints owe
  nothing: an answer may always be a failure.

The other modules have safety properties only: their handlers owe nothing that the
fairness of a straight line of awaits would not give by itself.

## 5. What is proved

TLAPS proves these for every number of calls, rows, machines and every value of
the other constants, from the named assumptions in the modules (types of the
constants, null values that are not data, finite sets where they are counted).

| Module | Theorems | Assumption besides those |
|---|---|---|
| `InvokeProofs` | `TypeCorrect`, `ChargeSafety`, `WalletSafety`, `PaymentSafety`, `CacheSafety`, `CounterSafety`, `Implementation` (of `PaidCalls`) | |
| `SettlementProofs` | `TypeCorrect`, `VerdictSafety`, `ConfirmedSafety`, `StatusSafety` (both), `RestingSafety`, `Implementation` (of `Verdicts`) | |
| `RefundProofs` | `TypeCorrect`, `ConsentSafety`, `OverlapBounds` | |
| | `SerialInvariance`, `SerialVerdicts`, `SerialImplementation` (of `Paybacks`) | one call or batch at a time, no faults |
| `OutboxProofs` | `TypeCorrect`, `AbandonSafety`, `DeliverySafety`, `OutcomeSafety` (both), `LeaseInvariance`, `HandlerSafety`, `PaceSafety`, `OverdueSafety`, `SettledSafety`, `Implementation` (of `Deliveries`) | |
| `ExecuteProofs` | `TypeCorrect`, `DeductionSafety`, `CacheSafety`, `WalletAnswers`, `Implementation` (of `Accounts`) | |
| | `SerialCounting` | one call at a time, no faults |
| `AccountProofs` | `KeyTypeSafety`, `OneWinnerSafety`, `NeverLockedOutSafety` (of `KeyRotation`), `VerifiedSafety` (of `Registration`), `ActiveSafety`, `CatalogueVerifiedSafety`, `EndsSafety`, `ListedOnceSafety` (of `Catalogue`) | at most one resolver lies |
| `PaymentProofs` | `PaymentTypeSafety`, `RefusedSafety`, `SettledSafety`, `PaymentImplementation` (of `PaidCalls`; all of `PaymentPath`), `StreamInvariance`, `StreamRelayedSafety` (of `SseStream`) | |
| `MachineProofs` | `RelayerTypeSafety`, `ReceiptsDistinctSafety` (of `Relayer`), `PoolsFitAlways` (of `Pools`), `FreshEnoughSafety` (of `FeatureFlags`), `SecretSafety` (of `Subscriptions`), `EngineInvariance`, `PostsAccountedSafety`, `ThreadChainedSafety` (of `SnsEngine`), `NonceOnceSafety` (of `ReplayCache`), `LimiterInvariance`, `WindowRespectedSafety`, `RetryHonestSafety` (of `RateLimiter`), `SignatureSafety` (of `TxSignature`) | |

The theorems about the reconciler and the outbox hold for the deployment as it is, any
number of machines and a batch of any size, and say what is left of the documented
behaviour that the violated runs `settlement_machines` and `outbox_overlap` refute: a
verdict is final once no tick under way has its row (`RestingSafety`), and a row is
handled by one worker unless its lease ran out in the hands of one (`HandlerSafety`),
which needs a batch larger than the lease (`OverdueSafety`). The serial theorems
are about the specifications of `MCRefunds` and `MCExecuteTask` in the mode that lets
one call in at a time, for every set of requests, charges and limits: they say that
the rules of the handlers are right, and that only overlap and faults break them.
Some assumptions are there for the proofs alone and cost nothing: a row that is none
of the rows (`NoRow`), finitely many calls and transactions where they are counted,
at least one caller and a highest limit for the limiter.

**Arguments.** *Invoke*: what is true of a call depends on the await at which it
stands (`StageInv`: at "charge" it is served and not charged), and each effect
says where its call can be (`EffectInv`: a charged call is past its charge). With
`UniqueInv` and `TaskInv` this is inductive; `WalletConserved` adds cardinalities
of the sets of debited calls and credited sessions. *Settlement*: a receipt that a
machine holds stays true (`AnswerStands`), and its block stays once it is deep
behind the head that was read, since the chain abandons only shallow blocks and
its tip only grows. What a machine's SELECT returned is no more than what the row says
when it writes, attempts and age alike (`BatchCurrent`), so each UPDATE is one step of
`Verdicts` by a machine that holds the row.
*Refunds*: an approval is on the row only because an approving
call or an overdue batch put it there, and calls keep their kind. A request
that passes a limit finds fewer rows than it allows; with the requests in progress that
makes the bound, and after that a row only takes the place of its request
(`OverrunInv`). *Outbox*: a
worker writes `attempt_count` from its claim, so what is needed is not that counts
are right but that no count, on a row or in a claim, exceeds the failed posts of
its row; a count that is written back late is only lower. A row that was never overdue has
a claim younger than the lease, so nobody else can claim it (`OneHandler`). It follows
that what a claim says of the attempts of such a row is what the row says until its own
worker raises it (`ExactInv`), which makes each write of a worker one step of
`Deliveries`; the others are loose there. A claim that is `k` ticks old belongs to a
worker that has at most `BatchSize - k` rows left (`Pace`), so no row is overdue while
the batch fits the lease. *Tasks*: as for Invoke; a
call that is to run has not run, one that is to pay has not paid and one that is to be
billed was told nothing (`BillInv`), so each step of a handler is one of `Accounts`.

*Keys*: a key that was rotated away is older than the active one, so it is not
active again (`SpentInv`); a request whose key has been good all the time and which
has passed the first look-up holds a key that left the active slot for the other
(`HeldInv`). *Payment*: what stands behind an attempt at each await (`Sound`) with
at most one row and one transfer; every action is one of four summary steps, an
attempt passes on, is refused, settles, or is recorded, and the invariant is shown
for those. In `PaidCalls` the third is `Transfer` or a stutter, the fourth `Settle`,
since an attempt that records holds an answer of which the invariant says that the
transfer is made, and the others stutter. *Relayer*: a submission in progress holds its machine's lock, and the
nonce of an answered one is taken in the pool before the lock is free (`NonceInv`),
so the next one reads a later nonce. *Pools*: arithmetic on remainders of 2^32.
*Flags*: a map that is fetched, cached or told was seen in the rows at or after the
time it carries (`FreshInv`), so it does not matter which refresh writes last.
*Subscriptions*: a row has the secret of the POST it is named after (`OwnSecret`).

*Serial refunds and tasks*: the call at work is alone (`AloneInv`), so what it read
still holds when it writes; `CountInv` and `FreeInv` relate the rows it counted to
those there are. What a verdict's handler and the loop have done so far is on the rows
they work on, and they have not paid them yet (`PaidInv`), so each statement is one step
of `Paybacks` or a stutter. *Limiter*: a window is clean at the moment of a grant and holds every
granted call that is younger than the window, so its size is the number that
`WindowRespected` counts (`Bounded`); a promise of `Retry-After` is about the oldest
call of a full window, which has left when it is over (`PromiseKept`). *Replay cache*:
a nonce that was accepted is in the cache until as many others came after it as there
are places, or its time is over (`RecentRemembered`); a sweep and an insertion keep
the order and take out what may go (`SweptKeeps`, `PutKeeps`). *SNS engine*: for each
place of a call, the copies on the platform and in the schedule are what was told plus
what was lost (`Accounted`), and `previous` is the last place that was told
(`LastReported`). *Stream*: the buffer is the part of the provider's line that has been
read, and with no cut between cr and lf the parser holds exactly what the lines so far
say, and `shown` followed by the queue is what has arrived (`Whole`). A final event is
the last to arrive (`FinalLast`), so nothing is left behind it; and whatever a torn
line did to the fields, `completed` is dispatched only by the last line of its event
(`BilledCame`).

*Registration*: two resolvers that give the token are not both the liar, by
cardinality, so the token was in the DNS (`TwoResolvers`, `AnswersInv`); every write
of a provider's row keeps what was published, proven and deleted (`StoreKeeps`).
*Catalogue*: a request that found its provider verified remembers a fact that stays
true (`proven` only grows), and a request past its checks is about an item of its own
provider, whose owner never changes (`EditsInv`, `ItemsKept`); so it may act on what
it read although the rows have changed since. Paging: the keys are totally ordered
(`LessIsAnOrder`), a page is the top of what is below the cursor (`PageIsTheTop`), so
steady items are shown above it and wait below it (`PagingInv`).

*Signature*: the octets at each stage are known in terms of what KMS drew
(`SignatureInv`), so the rest is about data, for every width and base. Two numbers
compare as their first differing digits do (`FirstDifference`, `HighIsAboveHalf`). Of
the digits of a difference, the prefixes of order and number, less the borrow, follow
the recursion of the prefixes of the result; so a borrow left over at the front would
mean a number above the order, and without one the result is worth the difference
(`SubtractSubtracts`). What is stripped is zeros and worth nothing (`Stripped`), and
what DER and RLP write is read back with the rest untouched (`DerReadsBack`,
`RlpReadsBack`). That `HalfOrder` is half of `Order`, rounded down, is an assumption
(`SignatureAssumption`) which the two arrays of the code meet.

The induction theorems of the library cannot be used here, since they take an operator
as a parameter. Where an argument over data is needed it is one by a least element:
`Least` for the places of a thread, `First` for the keys of a page, from the
well-founded orders of `WellFoundedInduction`. From `Least` follows `Steps`, induction
over a set given as a set (0 is in it, and with each number the next), which is enough
for the loops over digits; that the recursive functions `Prefixes` and `Borrows` have
values at all is shown with it too (`Worth`, `Borrowing`).

Only model-checked: liveness (`EveryChargeNotified`, `EverySettlementResolved`, `SerialEveryRequestResolved`, `EveryEventSettled`), since
TLAPS 1.4.5 does not reason about fairness. Every other property of a passing run is
a theorem.

## 6. Not modelled

* The supervisor: it restarts a loop that panics, after a backoff of at most 30 s.
  The fairness of the loops stands for it, and a restart for the panic. (The
  backoff is never reset, which no property can tell.)
* Protocol types, error bodies, schema and manifest validation, address ranges of the
  URL guard, certificate formats: data without state. Their refusals are
  nondeterministic in the handlers. One is wrong: `price <= 0.0` in
  `routes/manifests.rs:284` lets NaN pass.
* HTTP layers, health, OpenAPI and discovery documents: no state.
* The built-in capabilities other than the SNS engine, storage and audit: one call of
  a client each, here a run that succeeds or fails. Prompts and posting times of the
  SNS engine are left out.
* The splitter registry's read, which nothing calls, and the JSON of the RPCs.
* Stored SQL functions are not in the repository; their behaviour is an assumption
  and stated in the module that uses it.

## 7. Plan

Done, in this order: `Invoke` with `PaidCalls`, `Settlement`, `Refunds`,
`WebhookOutbox`, `ExecuteTask` and their proofs; then `RateLimiter`, `ReplayCache`,
`FeatureFlags`, `KeyRotation`, `Registration`, `Catalogue`, `PaymentPath`, `Relayer`,
`TxSignature`, `SnsEngine`, `SseStream`, `Subscriptions`, `Pools`, and the proofs of
keys, providers, catalogue, payment, relayer, flags, subscriptions and pools.

Then the theorems about the SNS engine, the replay cache, the rate limiter, paging, the
streams, and the serial instances of refunds and tasks, for which `RateLimiter`,
`ReplayCache`, `Catalogue` and `SseStream` got definitions that can be reasoned about.

Then `PaymentPath` as a second implementation of `PaidCalls`, `Deliveries`,
implemented by `WebhookOutbox`, and the digits of `TxSignature`; and `Verdicts` and
`Paybacks`, implemented by `Settlement` and `Refunds`, and `Accounts`, implemented by
`ExecuteTask`.

Then the settlement and outbox theorems for any number of machines and any batch, for
which `Verdicts` got its holders and `Deliveries` its loose events, the bound on
overlapping refund requests, and posts without an id in `SnsEngine`.

Next: `Subscriptions` as the environment of `Deliveries`.
