------------------------------- MODULE Verdicts -------------------------------
(***************************************************************************)
(* What the Hub says about a settlement, without ticks, batches or an RPC  *)
(* that fails and lags.  A machine takes settlements that have no verdict, *)
(* and with each one it holds it does one of three things, all at once:    *)
(* look and leave it, judge it by what its transaction does on the chain   *)
(* and where it is at that moment, or give it up.  Then it has let it go:  *)
(* a verdict may be overruled by those that already held the row when it   *)
(* was passed, once by each, and by nobody else.  Payments count once they *)
(* are too deep for the chain to abandon, or were judged unseen, by a look *)
(* that did not know the head; and a row is given up only after            *)
(* MaxAttempts looks or OrphanAge ticks.                                   *)
(***************************************************************************)
EXTENDS Integers

CONSTANTS
    Rows,           \* settlements
    Hubs,           \* machines
    Depth,          \* blocks behind the head that the chain may still abandon
    MaxAttempts,    \* looks after which a row is given up
    OrphanAge,      \* and age, in ticks
    MaxBlock,       \* bound: the last block
    Effects,        \* what a transaction can do
    Sentence        \* Sentence[e]: the verdict on a transaction that does e

VARIABLES
    effect, block, tip,     \* the chain, as in Settlement
    attested,               \* rows whose INSERT is made
    age,                    \* age[r]: ticks since
    looks,                  \* looks[r]: attempts on record, up to MaxAttempts
    verdict,                \* verdict[r]: {} or the one verdict on r
    unseen,                 \* rows judged without a head
    holders                 \* holders[r]: machines that have taken r

vars == <<effect, block, tip, attested, age, looks, verdict, unseen, holders>>

Init ==
    /\ effect \in [Rows -> Effects]
    /\ block = [r \in Rows |-> 0] /\ tip = 0
    /\ attested = {} /\ unseen = {}
    /\ age = [r \in Rows |-> 0]
    /\ looks = [r \in Rows |-> 0]
    /\ verdict = [r \in Rows |-> {}]
    /\ holders = [r \in Rows |-> {}]

Open  == {r \in attested : verdict[r] = {}}
Final(r) == block[r] # 0 /\ tip - block[r] >= Depth

Mine(included) ==
    /\ tip < MaxBlock
    /\ \A r \in included : r \in attested /\ block[r] = 0
    /\ tip' = tip + 1
    /\ block' = [r \in Rows |-> IF r \in included THEN tip + 1 ELSE block[r]]
    /\ UNCHANGED <<effect, attested, age, looks, verdict, unseen, holders>>

Abandon(r) ==
    /\ block[r] # 0 /\ ~ Final(r)
    /\ block' = [block EXCEPT ![r] = 0]
    /\ UNCHANGED <<effect, tip, attested, age, looks, verdict, unseen, holders>>

Attest(r) ==
    /\ r \notin attested
    /\ attested' = attested \union {r}
    /\ UNCHANGED <<effect, block, tip, age, looks, verdict, unseen, holders>>

Tick ==
    /\ age' = [r \in Rows |-> IF r \in attested /\ age[r] <= OrphanAge
                              THEN age[r] + 1 ELSE age[r]]
    /\ UNCHANGED <<effect, block, tip, attested, looks, verdict, unseen, holders>>

Take(h, rows) ==
    /\ rows \subseteq Open
    /\ holders' = [r \in Rows |-> IF r \in rows THEN holders[r] \union {h} ELSE holders[r]]
    /\ UNCHANGED <<effect, block, tip, attested, age, looks, verdict, unseen>>

LetGo(h, rows) ==
    holders' = [r \in Rows |-> IF r \in rows THEN holders[r] \ {h} ELSE holders[r]]

Drop(h, rows) ==
    /\ LetGo(h, rows)
    /\ UNCHANGED <<effect, block, tip, attested, age, looks, verdict, unseen>>

\* h has asked the chain about r, for which it took it.
Done(h, r) ==
    /\ h \in holders[r]
    /\ LetGo(h, {r})
    /\ looks' = [looks EXCEPT ![r] = IF @ < MaxAttempts THEN @ + 1 ELSE MaxAttempts]
    /\ UNCHANGED <<effect, block, tip, attested, age>>

Look(h, r) == Done(h, r) /\ UNCHANGED <<verdict, unseen>>

Judge(h, r) ==
    /\ Done(h, r)
    /\ verdict' = [verdict EXCEPT ![r] = {Sentence[effect[r]]}]
    /\ \/ (Final(r) \/ effect[r] = "reverts") /\ unseen' = unseen
       \/ unseen' = unseen \union {r}

GiveUp(h, r) ==
    /\ looks[r] + 1 >= MaxAttempts \/ age[r] > OrphanAge
    /\ Done(h, r)
    /\ verdict' = [verdict EXCEPT ![r] = {"orphaned"}]
    /\ unseen' = unseen

Next ==
    \/ \E included \in SUBSET Rows : Mine(included)
    \/ \E r \in Rows : Abandon(r) \/ Attest(r)
    \/ Tick
    \/ \E h \in Hubs, rows \in SUBSET Rows : Take(h, rows) \/ Drop(h, rows)
    \/ \E h \in Hubs, r \in Rows : Look(h, r) \/ Judge(h, r) \/ GiveUp(h, r)

Spec == Init /\ [][Next]_vars
================================================================================
