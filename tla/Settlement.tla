------------------------------ MODULE Settlement ------------------------------
(***************************************************************************)
(* The x402 settlement reconciler: every machine runs one, and each tick   *)
(* takes a batch of attested settlements, reads the chain head, and asks   *)
(* the Base RPC for the receipt of each row before updating it.  Machines  *)
(* share the table and nothing else.                                       *)
(*                                                                         *)
(* Time is counted in ticks of 60 s and is kept as the age of each row;    *)
(* ages and attempts are capped where the code stops telling them apart.   *)
(***************************************************************************)
EXTENDS Integers, FiniteSets

CONSTANTS
    Rows,               \* settlements, numbered in the order of settled_at
    Hubs,               \* machines that run a reconciler
    Lasting,            \* those of them that keep running
    Unknown,            \* no block number: eth_blockNumber failed
    Unasked,            \* no receipt has been asked for yet
    MinConfirmations,   \* blocks behind the head before a row is confirmed
    MaxAttempts,        \* MAX_RECONCILE_ATTEMPTS
    OrphanAge,          \* ORPHAN_THRESHOLD_SECS, in ticks
    BatchLimit,         \* rows per tick
    MaxBlock,           \* bound: the last block mined in the run
    Faults

\* What a transaction does when it is included: pay the splitter the claimed
\* amount; the same after another USDC transfer; transfer something else; emit no
\* USDC transfer; revert.
Effects == {"pays", "pays_second", "differs", "silent", "reverts"}
AllFaults == {"head", "rpc", "lag", "reorg", "db", "restart"}

ASSUME ReconcilerAssumption ==
    /\ Rows \subseteq Nat
    /\ MinConfirmations \in Nat \ {0} /\ MaxAttempts \in Nat \ {0}
    /\ OrphanAge \in Nat \ {0} /\ BatchLimit \in Nat \ {0} /\ MaxBlock \in Nat
    /\ Unknown \notin Int
    /\ Faults \subseteq AllFaults
ASSUME LastingAssumption == Lasting \subseteq Hubs
ASSUME UnaskedAssumption ==
    \A b \in 1..MaxBlock, e \in Effects :
        Unasked \notin {[kind |-> "error"], [kind |-> "none"],
                        [kind |-> "receipt", block |-> b, effect |-> e]}

VARIABLES
    effect,     \* effect[r]: what the transaction of r does, fixed by its sender
    status,     \* status[r]: x402_settlements.status, "absent" before the INSERT
    attempts,   \* attempts[r]: reconcile_attempts
    age,        \* age[r]: ticks since settled_at
    block,      \* block[r]: block that includes the transaction, 0 when none does
    tip,        \* number of the last block
    batch,      \* batch[h]: the rows h has selected and not yet handled, each with
                \* the attempts and the age that the SELECT returned
    head,       \* head[h]: block number read for this tick
    answer,     \* answer[h]: what the RPC said of the first row of the batch
    blind       \* history: rows whose receipt was judged without a head

chainVars == <<effect, block, tip>>
tableVars == <<status, attempts, age>>
hubVars   == <<batch, head, answer>>
vars == <<chainVars, tableVars, hubVars, blind>>

Terminal == {"chain_confirmed", "mismatched", "failed", "orphaned"}
Statuses == {"absent", "facilitator_attested"} \union Terminal
Answers  == {[kind |-> "error"], [kind |-> "none"]}
              \union [kind : {"receipt"}, block : 1..MaxBlock, effect : Effects]
NotRead  == -1                  \* head of a machine that has not asked for it yet
Selected == [attempts : 0..MaxAttempts, age : 0..OrphanAge + 1]
Bumped(n) == IF n < MaxAttempts THEN n + 1 ELSE MaxAttempts

NoRows   == [r \in {} |-> 0]

TypeOK ==
    /\ effect \in [Rows -> Effects]
    /\ status \in [Rows -> Statuses]
    /\ attempts \in [Rows -> 0..MaxAttempts]
    /\ age \in [Rows -> 0..OrphanAge + 1]
    /\ block \in [Rows -> 0..MaxBlock]
    /\ tip \in 0..MaxBlock
    /\ batch \in [Hubs -> UNION {[S -> Selected] : S \in SUBSET Rows}]
    /\ head \in [Hubs -> 0..MaxBlock \union {NotRead, Unknown}]
    /\ answer \in [Hubs -> Answers \union {Unasked}]
    /\ blind \subseteq Rows

Init ==
    /\ effect \in [Rows -> Effects]
    /\ status = [r \in Rows |-> "absent"]
    /\ attempts = [r \in Rows |-> 0]
    /\ age = [r \in Rows |-> 0]
    /\ block = [r \in Rows |-> 0]
    /\ tip = 0
    /\ batch = [h \in Hubs |-> NoRows]
    /\ head = [h \in Hubs |-> NotRead]
    /\ answer = [h \in Hubs |-> Unasked]
    /\ blind = {}

(***************************************************************************)
(* The invoke handler, the clock and the chain                             *)
(***************************************************************************)
\* x402_settlements::insert, after the facilitator's /settle; rows are numbered
\* in the order in which they are inserted.
Attest(r) ==
    /\ status[r] = "absent"
    /\ \A q \in Rows : q < r => status[q] # "absent"
    /\ status' = [status EXCEPT ![r] = "facilitator_attested"]
    /\ UNCHANGED <<chainVars, attempts, age, hubVars, blind>>

Minute ==
    /\ age' = [r \in Rows |-> IF status[r] # "absent" /\ age[r] <= OrphanAge
                              THEN age[r] + 1 ELSE age[r]]
    /\ age' # age
    /\ UNCHANGED <<chainVars, status, attempts, hubVars, blind>>

\* The next block, with the transactions it includes.
Mine(included) ==
    /\ tip < MaxBlock
    /\ \A r \in included : status[r] # "absent" /\ block[r] = 0
    \* bound: what is included can still be confirmed before the last block
    /\ included # {} => tip + 1 + MinConfirmations <= MaxBlock
    /\ tip' = tip + 1
    /\ block' = [r \in Rows |-> IF r \in included THEN tip + 1 ELSE block[r]]
    /\ UNCHANGED <<effect, tableVars, hubVars, blind>>

\* The chain abandons a block that is less than MinConfirmations behind its tip.
Reorg(r) ==
    /\ "reorg" \in Faults
    /\ block[r] # 0 /\ tip - block[r] < MinConfirmations
    /\ block' = [block EXCEPT ![r] = 0]
    /\ UNCHANGED <<effect, tip, tableVars, hubVars, blind>>

(***************************************************************************)
(* reconcile_once                                                          *)
(***************************************************************************)
\* Bug: a row that was tried once is not looked at again.
DueFirstTry ==
    {r \in Rows : status[r] = "facilitator_attested" /\ age[r] > 1 /\ attempts[r] = 0}

\* Bug: rows are selected by age alone.
DueAnyStatus == {r \in Rows : status[r] # "absent" /\ age[r] > 1}

Due == {r \in Rows : status[r] = "facilitator_attested" /\ age[r] > 1}

\* The SELECT: the oldest due rows.
Fetch(h) ==
    /\ batch[h] = NoRows /\ Due # {}
    /\ \E rows \in SUBSET Due :
          /\ Cardinality(rows) = IF Cardinality(Due) < BatchLimit
                                 THEN Cardinality(Due) ELSE BatchLimit
          /\ \A r \in rows, q \in Due \ rows : r < q
          /\ batch' = [batch EXCEPT ![h] =
                 [r \in rows |-> [attempts |-> attempts[r], age |-> age[r]]]]
    /\ UNCHANGED <<chainVars, tableVars, head, answer, blind>>

\* eth_blockNumber, once per tick; a failure leaves the head unknown.
ReadHead(h) ==
    /\ batch[h] # NoRows /\ head[h] = NotRead
    /\ \/ head' = [head EXCEPT ![h] = tip]
       \/ "head" \in Faults /\ head' = [head EXCEPT ![h] = Unknown]
    /\ UNCHANGED <<chainVars, tableVars, batch, answer, blind>>

\* The row of the batch that h is at.
Current(h, r) == r \in DOMAIN batch[h] /\ \A q \in DOMAIN batch[h] : r <= q

\* eth_getTransactionReceipt for that row.  The request may fail, and the RPC node
\* that answers it may be behind the chain.
Ask(h) ==
    /\ head[h] # NotRead /\ answer[h] = Unasked
    /\ \E r \in Rows :
          /\ Current(h, r)
          /\ \/ /\ block[r] # 0
                /\ answer' = [answer EXCEPT ![h] =
                       [kind |-> "receipt", block |-> block[r], effect |-> effect[r]]]
             \/ /\ block[r] = 0 \/ "lag" \in Faults
                /\ answer' = [answer EXCEPT ![h] = [kind |-> "none"]]
             \/ /\ "rpc" \in Faults
                /\ answer' = [answer EXCEPT ![h] = [kind |-> "error"]]
    /\ UNCHANGED <<chainVars, tableVars, batch, head, blind>>

\* Bug: one confirmation less is enough.
ShallowByOne(h) == head[h] # Unknown /\ head[h] - answer[h].block < MinConfirmations - 1

\* The confirmation depth is compared only when the head is known.
Shallow(h) == head[h] # Unknown /\ head[h] - answer[h].block < MinConfirmations

\* Bug: a row is given up one look early.
ExpiredEarly(h, r) ==
    \/ batch[h][r].attempts + 2 >= MaxAttempts
    \/ batch[h][r].age > OrphanAge

\* The SELECT's attempts and age are used, not the row's present ones.
Expired(h, r) ==
    \/ batch[h][r].attempts + 1 >= MaxAttempts
    \/ batch[h][r].age > OrphanAge

\* Bug: the topic is compared with a checksummed address and never matches it.
ObservedPaymentChecksummed(e) == FALSE

\* extract_transfer_observation looks at the first USDC transfer only.
ObservedPayment(e) == e = "pays"

\* The status the UPDATE sets.  A row that is left for a later tick keeps the
\* status it has now, and no UPDATE looks at that status.
Verdict(h, r) ==
    CASE answer[h].kind = "none" ->
            IF Expired(h, r) THEN "orphaned" ELSE status[r]
      [] answer[h].kind = "receipt" /\ answer[h].effect = "reverts" -> "failed"
      [] answer[h].kind = "receipt" /\ answer[h].effect # "reverts" ->
            IF Shallow(h) THEN status[r]
            ELSE IF ObservedPayment(answer[h].effect) THEN "chain_confirmed"
            ELSE "mismatched"

\* The rest of the batch; with the last row the tick ends and its head is gone.
Leave(h, rest) ==
    /\ batch' = [batch EXCEPT ![h] = [r \in rest |-> batch[h][r]]]
    /\ head' = [head EXCEPT ![h] = IF rest = {} THEN NotRead ELSE @]
    /\ answer' = [answer EXCEPT ![h] = Unasked]

\* The UPDATE; after an RPC error there is none.
Apply(h) ==
    /\ answer[h] # Unasked
    /\ \E r \in Rows :
          /\ Current(h, r)
          /\ IF answer[h].kind = "error"
             THEN UNCHANGED <<status, attempts>>
             ELSE /\ status' = [status EXCEPT ![r] = Verdict(h, r)]
                  /\ attempts' = [attempts EXCEPT ![r] = Bumped(@)]
          /\ blind' = IF head[h] = Unknown /\ answer[h].kind = "receipt"
                      THEN blind \union {r} ELSE blind
          /\ Leave(h, DOMAIN batch[h] \ {r})
    /\ UNCHANGED <<chainVars, age>>

\* An error of the UPDATE, a panic or a restart of the machine ends the tick; what
\* is left of the batch is selected again later.
Abort(h) ==
    /\ Faults \intersect {"db", "restart"} # {}
    /\ batch[h] # NoRows
    /\ Leave(h, {})
    /\ UNCHANGED <<chainVars, tableVars, blind>>

\* A tick that finds nothing to do.
IdleTick(h) ==
    /\ batch[h] = NoRows /\ Due = {}
    /\ UNCHANGED vars

Reconcile(h) == Fetch(h) \/ ReadHead(h) \/ Ask(h) \/ Apply(h)
SomeMine == \E included \in SUBSET Rows : Mine(included)

Next ==
    \/ \E r \in Rows : Attest(r) \/ Reorg(r)
    \/ Minute
    \/ SomeMine
    \/ \E h \in Hubs : Reconcile(h) \/ Abort(h) \/ IdleTick(h)

Spec == Init /\ [][Next]_vars

\* On a machine that keeps running the reconciler ticks for ever under its supervisor,
\* its RPC client has a timeout, time passes and the chain grows.  Faults do not last:
\* a step of a tick that is tried again and again is done.
Answered(h) == Ask(h) /\ answer'[h].kind # "error"
Updated(h)  == Apply(h) /\ answer[h].kind # "error"
Fairness ==
    /\ WF_vars(Minute) /\ WF_vars(SomeMine)
    /\ \A h \in Lasting : /\ WF_vars(Reconcile(h)) /\ SF_vars(ReadHead(h))
                         /\ SF_vars(Answered(h)) /\ SF_vars(Updated(h))
FairSpec == Spec /\ Fairness

(***************************************************************************)
(* Properties                                                              *)
(***************************************************************************)
\* A settlement reported chain_confirmed paid the splitter what the facilitator
\* claimed; unless its receipt was judged in a tick without a chain head, it is in
\* a block that the chain will not abandon any more.
ConfirmedIsPaid ==
    \A r \in Rows : status[r] = "chain_confirmed" =>
        /\ effect[r] = "pays"
        /\ r \notin blind => block[r] # 0 /\ tip - block[r] >= MinConfirmations

\* A verdict is about the transaction the row names: failed only if it reverted,
\* mismatched never if it made exactly the payment and nothing else.
VerdictTrue ==
    \A r \in Rows :
        /\ status[r] = "failed" => effect[r] = "reverts"
        /\ status[r] = "mismatched" => effect[r] \notin {"pays", "reverts"}

\* Whatever status the reconciler has written, it says what the transaction did.
StatusTrue == ConfirmedIsPaid /\ VerdictTrue

\* A verdict stands: attested rows move to one terminal status and stay there
\* (the transitions of services/x402_reconciler.rs:5).
TerminalIsFinal ==
    [][\A r \in Rows : status[r] \in Terminal => status'[r] = status[r]]_vars

\* The machines keep the promise of Verdicts: though a row is selected, its receipt
\* asked for and the UPDATE made at different moments, each verdict is one that the
\* chain supports when it is written, no row is given up before MaxAttempts looks are
\* on record or its age is over, though the machine counts from what its SELECT
\* returned, and only a machine that selected the row while it was still attested
\* may overrule a verdict, once (services/x402_reconciler.rs:130-345).
Promise == INSTANCE Verdicts WITH
    Depth <- MinConfirmations,
    Sentence <- [e \in Effects |-> CASE e = "pays" -> "chain_confirmed"
                                     [] e = "reverts" -> "failed"
                                     [] OTHER -> "mismatched"],
    attested <- {r \in Rows : status[r] # "absent"}, looks <- attempts,
    verdict <- [r \in Rows |-> {status[r]} \intersect Terminal], unseen <- blind,
    holders <- [r \in Rows |-> {h \in Hubs : r \in DOMAIN batch[h]}]
KeepsVerdicts == Promise!Spec

\* Every attested settlement gets a verdict, whatever the chain does with it and
\* whatever other machines do, or leave undone, besides one that keeps running.
EverySettlementResolved ==
    \A r \in Rows : status[r] = "facilitator_attested" ~> status[r] \in Terminal

(***************************************************************************)
(* The inductive invariant.  A machine holds a head only during a tick and *)
(* a receipt only after the head; what a receipt says of a row stands, and *)
(* its block does not go away once it is deep enough behind the head.      *)
(***************************************************************************)
TickInv == \A h \in Hubs :
    /\ batch[h] = NoRows => head[h] = NotRead
    /\ answer[h] # Unasked => head[h] # NotRead
    /\ head[h] \in Nat => head[h] <= tip

AnswerStands ==
    \A h \in Hubs, r \in Rows :
        Current(h, r) /\ answer[h] # Unasked /\ answer[h].kind = "receipt" =>
            /\ effect[r] = answer[h].effect
            /\ answer[h].block > 0
            /\ head[h] \in Nat /\ head[h] - answer[h].block >= MinConfirmations
                  => block[r] = answer[h].block

IInv ==
    /\ TypeOK /\ TickInv /\ AnswerStands /\ VerdictTrue /\ ConfirmedIsPaid

\* What a machine is about to update is in the table, has counted no fewer looks than
\* its SELECT said, and is no younger.
BatchCurrent ==
    \A h \in Hubs : \A r \in DOMAIN batch[h] :
        /\ status[r] # "absent"
        /\ batch[h][r].attempts <= attempts[r] /\ batch[h][r].age <= age[r]

\* A row with a verdict that no tick under way has selected.
Resting(r) == status[r] \in Terminal /\ \A h \in Hubs : r \notin DOMAIN batch[h]

\* A verdict that no tick under way can overrule is final: it is neither changed nor
\* selected again (the WHERE of services/x402_reconciler.rs:165).
RestingIsFinal == [][\A r \in Rows : Resting(r) => status'[r] = status[r] /\ Resting(r)']_vars
=============================================================================
