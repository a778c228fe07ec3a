------------------------------ MODULE PaymentPath ------------------------------
(***************************************************************************)
(* The x402 branch of an invocation in detail: dispatch_x402, the checks   *)
(* of the X-Payment header (protocol/x402_verify.rs), the facilitator's    *)
(* client with its pinned certificate and signed answers                   *)
(* (services/x402_facilitator.rs) and the settlement row.  Invoke has this *)
(* branch in three steps; here every refusal keeps its code and its cause. *)
(*                                                                         *)
(* Several attempts present one authorisation of one payer.  The chain and *)
(* the facilitator are external: a transfer takes place once, as it was    *)
(* signed and before it expires, perhaps long after the request for it was *)
(* given up; what the facilitator signs is true, what anyone else answers  *)
(* in its place need not be.                                               *)
(***************************************************************************)
EXTENDS Integers

CONSTANTS
    Attempts,
    Prices,         \* prices of the actions invoked, in millionths of a dollar
    MaxWall,        \* bound: seconds that pass
    PaymentFaults   \* "db": a query fails; "link": an answer is lost or cut short;
                    \* "stray": an answer the facilitator did not sign
CONSTANT None       \* no attempt

ASSUME PaymentAssumption ==
    /\ None \notin Attempts
    /\ Prices \subseteq Nat \ {0}
    /\ MaxWall \in Nat
    /\ PaymentFaults \subseteq {"db", "link", "stray"}

VARIABLES
    wall,           \* the clock
    authorisation,  \* what the payer signed
    attempts,       \* attempts[a]: the invocation a
    pending,        \* settlements asked of the facilitator that it may still carry out
    executedBy,     \* the attempt whose settlement moved the money, or None
    rows            \* x402_settlements

paymentVars == <<wall, authorisation, attempts, pending, executedBy, rows>>

Codes == {"open", "settled", "wallet", "not_accepted", "invalid", "timeout", "unreachable", "reused"}

Causes ==
    {"none", "duplicate_payment_header", "x402_disabled", "capability_wallet_only", "header",
     "scheme", "network", "recipient", "not_yet_valid", "expired", "amount_mismatch",
     "nonce_reused", "tx_hash_seen", "db_lookup", "db_insert", "facilitator_slow",
     "facilitator_5xx", "facilitator_rejected", "facilitator_response_parse",
     "cert_pin_mismatch", "signature_pin_mismatch", "connection_refused", "transport", "body_read",
     "settle_failed"}

Authorisations ==
    [terms : {"right", "scheme", "network", "recipient"},
     after : {0, 1}, before : {1, MaxWall}, value : Prices]

PaymentTypeOK ==
    /\ wall \in 0 .. MaxWall
    /\ authorisation \in Authorisations
    /\ attempts \in [Attempts -> [at : {"check", "lookup", "verify", "settle", "insert", "answered"},
                                  price : Prices, code : Codes, cause : Causes,
                                  original : Attempts \union {None}]]
    /\ pending \subseteq Attempts
    /\ executedBy \in Attempts \union {None}
    /\ \A row \in rows : row.attempt \in Attempts

NewAttempt(price) ==
    [at |-> "check", price |-> price, code |-> "open", cause |-> "none", original |-> None]

PaymentInit ==
    /\ wall = 0
    /\ authorisation \in Authorisations
    /\ \E price \in [Attempts -> Prices] :
        attempts = [a \in Attempts |-> NewAttempt(price[a])]
    /\ pending = {} /\ executedBy = None /\ rows = {}

Passes(a, step) == attempts' = [attempts EXCEPT ![a].at = step]

Refuses(a, code, cause) ==
    attempts' = [attempts EXCEPT ![a].at = "answered", ![a].code = code, ![a].cause = cause]

(***************************************************************************)
(* Before the network                                                      *)
(***************************************************************************)
\* The authorisation against what the action asks, in the code's order.
Objection(price) ==
    IF authorisation.terms # "right"        THEN authorisation.terms
    ELSE IF authorisation.after > wall      THEN "not_yet_valid"
    ELSE IF wall >= authorisation.before    THEN "expired"
    ELSE IF authorisation.value # price     THEN "amount_mismatch"
    ELSE "none"

\* The headers, the switches, the manifest; the payload last.
CheckHeader(a) ==
    /\ attempts[a].at = "check"
    /\ \E header \in {"absent", "twice", "garbled", "one"},
          hub \in {"unconfigured", "off", "on"}, declared \in BOOLEAN :
        LET objection == Objection(attempts[a].price) IN
        IF header = "twice"        THEN Refuses(a, "invalid", "duplicate_payment_header")
        ELSE IF header = "absent"  THEN Refuses(a, "wallet", "none")
        ELSE IF hub # "on"         THEN Refuses(a, "not_accepted", "x402_disabled")
        ELSE IF ~declared          THEN Refuses(a, "not_accepted", "capability_wallet_only")
        ELSE IF header = "garbled" THEN Refuses(a, "invalid", "header")
        ELSE IF objection # "none" THEN Refuses(a, "invalid", objection)
        ELSE Passes(a, "lookup")
    /\ UNCHANGED <<wall, authorisation, pending, executedBy, rows>>

\* find_existing_for_replay: the attempt of the row, unless it cannot be read.
Known(found) == IF found /\ rows # {} THEN (CHOOSE row \in rows : TRUE).attempt ELSE None

Reused(a, cause, original) ==
    attempts' = [attempts EXCEPT ![a].at = "answered", ![a].code = "reused",
                                 ![a].cause = cause, ![a].original = original]

LookupNonce(a) ==
    /\ attempts[a].at = "lookup"
    /\ \/ rows = {} /\ Passes(a, "verify")
       \/ /\ rows # {}
          /\ \E found \in {TRUE} \union {FALSE : f \in PaymentFaults \intersect {"db"}} :
                Reused(a, "nonce_reused", Known(found))
       \/ "db" \in PaymentFaults /\ Refuses(a, "invalid", "db_lookup")
    /\ UNCHANGED <<wall, authorisation, pending, executedBy, rows>>

(***************************************************************************)
(* The facilitator                                                         *)
(***************************************************************************)
Ways ==
    {"signed"} \union (IF "link" \in PaymentFaults
                       THEN {"timeout", "pin", "connect", "broken", "cut"} ELSE {})
               \union (IF "stray" \in PaymentFaults THEN {"unsigned"} ELSE {})

Replies == [way : Ways, status : {200, 400, 500}, body : {"yes", "no", "nohash", "unreadable"}]

\* Bug: the key is not compared.
AnyAnswer(reply) == reply.way \in {"signed", "unsigned"}

\* The body is the facilitator's: verify_ed25519 under the pinned key.
Authentic(reply) == reply.way = "signed"

\* Bug: only a gateway's timeout counts.
GatewayTimeout(reply) == reply.status = 504

\* The facilitator failed after it may have acted.
Undecided(reply) == reply.status >= 500

\* post_signed: what becomes of an answer before its body is looked at.
PostSigned(reply) ==
    LET Outcome(code, cause) == [code |-> code, cause |-> cause]
    IN  IF reply.way = "timeout"      THEN Outcome("timeout", "facilitator_slow")
        ELSE IF reply.way = "pin"     THEN Outcome("unreachable", "cert_pin_mismatch")
        ELSE IF reply.way = "connect" THEN Outcome("unreachable", "connection_refused")
        ELSE IF reply.way = "broken"  THEN Outcome("unreachable", "transport")
        ELSE IF reply.way = "cut"     THEN Outcome("unreachable", "body_read")
        ELSE IF ~Authentic(reply)     THEN Outcome("unreachable", "signature_pin_mismatch")
        ELSE IF Undecided(reply)      THEN Outcome("timeout", "facilitator_5xx")
        ELSE IF reply.status = 400    THEN Outcome("invalid", "facilitator_rejected")
        ELSE Outcome("open", "none")

VerifyPayment(a) ==
    /\ attempts[a].at = "verify"
    /\ \E reply \in Replies :
        LET post == PostSigned(reply) IN
        IF post.code # "open"             THEN Refuses(a, post.code, post.cause)
        ELSE IF reply.body = "unreadable" THEN Refuses(a, "invalid", "facilitator_response_parse")
        ELSE IF reply.body = "no"         THEN Refuses(a, "invalid", "facilitator_rejected")
        ELSE Passes(a, "settle")
    /\ UNCHANGED <<wall, authorisation, pending, executedBy, rows>>

\* External: what a settlement asked now can come to.  The facilitator signs a
\* success for a transfer that took place, and a refusal for one it will not make.
CanMove == executedBy = None /\ wall < authorisation.before

Arrives(reply) == reply.way \notin {"pin", "connect"}

Truthful(reply, moved) ==
    reply.way = "signed" /\ reply.status < 500 =>
        CASE reply.status = 200 /\ reply.body = "yes"        -> moved \/ executedBy # None
          [] reply.status = 200 /\ reply.body = "unreadable" -> TRUE
          [] OTHER                                           -> ~moved

\* Only a request whose answer leaves it open may still be carried out.
LeavesOpen(reply) ==
    /\ Arrives(reply)
    /\ reply.way = "signed" => reply.status = 500 \/ (reply.status = 200 /\ reply.body = "unreadable")

SettleReply(a, reply) ==
    LET post == PostSigned(reply) IN
    IF post.code # "open"                  THEN Refuses(a, post.code, post.cause)
    ELSE IF reply.body = "unreadable"      THEN Refuses(a, "timeout", "facilitator_response_parse")
    ELSE IF reply.body \in {"no", "nohash"} THEN Refuses(a, "invalid", "settle_failed")
    ELSE Passes(a, "insert")

SettleAuthorisation(a) ==
    /\ attempts[a].at = "settle"
    /\ \E reply \in Replies, moved \in BOOLEAN, kept \in BOOLEAN :
        /\ moved => CanMove /\ Arrives(reply)
        /\ Truthful(reply, moved)
        /\ kept => LeavesOpen(reply) /\ ~moved
        /\ SettleReply(a, reply)
        /\ executedBy' = IF moved THEN a ELSE executedBy
        /\ pending' = IF kept THEN pending \union {a} ELSE pending
    /\ UNCHANGED <<wall, authorisation, rows>>

\* External: a settlement given up here is carried out there.
MovesLate(a) ==
    /\ a \in pending /\ CanMove
    /\ executedBy' = a /\ pending' = pending \ {a}
    /\ UNCHANGED <<wall, authorisation, attempts, rows>>

(***************************************************************************)
(* The row                                                                 *)
(***************************************************************************)
\* 85 / 10 / 5, the network takes what the divisions leave.
Shares(amount) ==
    LET provider == (amount * 8500) \div 10000
        hub == (amount * 1000) \div 10000
    IN [provider |-> provider, hub |-> hub, network |-> amount - provider - hub]

Row(a) == [attempt |-> a, amount |-> attempts[a].price, shares |-> Shares(attempts[a].price)]

\* Bug: the table has no unique constraint, the look-up is trusted.
InsertUnconstrained(a) ==
    /\ attempts[a].at = "insert"
    /\ rows' = rows \union {Row(a)} /\ Refuses(a, "settled", "none")
    /\ UNCHANGED <<wall, authorisation, pending, executedBy>>

\* insert: unique by (payer, nonce) and by transaction.
InsertSettlement(a) ==
    /\ attempts[a].at = "insert"
    /\ \/ rows = {} /\ rows' = {Row(a)} /\ Refuses(a, "settled", "none")
       \/ /\ rows # {} /\ UNCHANGED rows
          /\ \E cause \in {"tx_hash_seen", "nonce_reused"},
                found \in {TRUE} \union {FALSE : f \in PaymentFaults \intersect {"db"}} :
                Reused(a, cause, Known(found))
       \/ /\ "db" \in PaymentFaults
          /\ rows' = rows \/ (rows = {} /\ rows' = {Row(a)})
          /\ Refuses(a, "invalid", "db_insert")
    /\ UNCHANGED <<wall, authorisation, pending, executedBy>>

SecondPasses ==
    /\ wall < MaxWall /\ wall' = wall + 1
    /\ UNCHANGED <<authorisation, attempts, pending, executedBy, rows>>

PaymentNext ==
    \/ \E a \in Attempts :
        \/ CheckHeader(a) \/ LookupNonce(a)
        \/ VerifyPayment(a) \/ SettleAuthorisation(a) \/ MovesLate(a)
        \/ InsertSettlement(a)
    \/ SecondPasses

PaymentSpec == PaymentInit /\ [][PaymentNext]_paymentVars

(***************************************************************************)
(* What the payer relies on                                                *)
(***************************************************************************)
\* One transfer serves one invocation: a settled attempt is the only one, the
\* money did move, to the splitter and in the amount of its price, and its row
\* shares out all of it.  The transfer may be of an earlier attempt, given up.
SettledIsPaid ==
    \A a \in Attempts : attempts[a].code = "settled" =>
        /\ executedBy # None
        /\ authorisation.terms = "right" /\ authorisation.value = attempts[a].price
        /\ \E row \in rows :
            /\ row.attempt = a /\ row.amount = authorisation.value
            /\ row.shares.provider + row.shares.hub + row.shares.network = row.amount
            /\ \A part \in DOMAIN row.shares : row.shares[part] >= 0
        /\ \A b \in Attempts \ {a} : attempts[b].code # "settled"

\* An attempt refused as not accepted or invalid has not moved the money and
\* never will, so the payer may try again elsewhere; only when the row could not
\* be written is a payment that was made answered so.
RefusedIsUnpaid ==
    \A a \in Attempts :
        attempts[a].code \in {"not_accepted", "invalid"} /\ attempts[a].cause # "db_insert" =>
            executedBy # a /\ a \notin pending

\* Each attempt keeps the promise of PaidCalls as far as it goes: money moves, and
\* then one attempt at most is recorded as paid with it.
Promise == INSTANCE PaidCalls WITH
    Agents <- {}, Calls <- Attempts, Sessions <- {}, Owner <- [s \in {} |-> None],
    Price <- 0, Opening <- 0, TopUpAmount <- 0,
    payer <- [a \in Attempts |-> None], auth <- [a \in Attempts |-> "authorisation"],
    onChain <- Attempts, wallet <- [a \in {} |-> 0],
    topped <- {}, served <- {}, charged <- {},
    transferred <- IF executedBy = None THEN {} ELSE {"authorisation"},
    settlements <- {row.attempt : row \in rows}
KeepsPromise == Promise!Spec
===============================================================================
