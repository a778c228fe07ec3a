----------------------------- MODULE Registration -----------------------------
(***************************************************************************)
(* Providers (routes/providers.rs): registration of a namespace, proof of  *)
(* the domain by a DNS record, and the account at Stripe.                  *)
(*                                                                         *)
(* The record is looked up at three resolvers at once; a value counts when *)
(* two of them give it.  A resolver may fail, answer from an old cache,    *)
(* or, for some, answer anything.  Stripe is called by a bridge outside    *)
(* this repository, which writes the provider's row itself.  Validation of *)
(* a registration is one refusal.  Keys are in module KeyRotation.         *)
(***************************************************************************)
EXTENDS Integers, FiniteSets

CONSTANTS
    Namespaces,
    Registrants,    \* POST /v1/providers/register, each sent once
    Verifiers,      \* POST /v1/providers/verify-dns that may be in progress at once
    Resolvers,      \* DOH_RESOLVERS
    Liars,          \* the resolvers whose answers may be anything
    ProviderFaults  \* "db": a statement may fail, or its answer be lost

ASSUME RegistrationAssumption ==
    /\ IsFiniteSet(Resolvers) /\ Liars \subseteq Resolvers /\ Cardinality(Liars) <= 1
    /\ ProviderFaults \subseteq {"db"}

VARIABLES
    rows,           \* jecp.providers by namespace
    registrations,  \* registrations[g]: the request of g
    verifications,  \* verifications[v]: the request in progress, or the last one
    published,      \* ghost: namespaces whose token was in the DNS at some time
    proven          \* ghost: namespaces that were verified by DNS and Stripe at once

providerVars == <<rows, registrations, verifications, published, proven>>

Records == {"token", "other"}
Waiting == {"waiting"}      \* no answer yet
Failed == {"error"}         \* no answer, or not a good one
Answers == {Waiting, Failed} \union SUBSET Records
Statuses == {"none", "pending", "verified", "active", "deleted"}

RegistrationTypeOK ==
    /\ rows \in [Namespaces -> [status : Statuses, key : Registrants \union {"nobody"},
                                dns : BOOLEAN, stripe : {"none", "invited", "verified"},
                                payout : BOOLEAN]]
    /\ registrations \in [Registrants ->
           [at : {"idle", "insert", "payout", "created", "taken", "refused", "failed"},
            namespace : Namespaces, payout : BOOLEAN]]
    /\ verifications \in [Verifiers ->
           [at : {"idle", "lookup", "mark", "verified", "unverified", "failed"},
            namespace : Namespaces, answers : [Resolvers -> Answers]]]
    /\ published \subseteq Namespaces /\ proven \subseteq Namespaces

Unregistered == [status |-> "none", key |-> "nobody", dns |-> FALSE, stripe |-> "none",
                 payout |-> FALSE]
Unasked == [r \in Resolvers |-> Waiting]

RegistrationInit ==
    /\ rows = [n \in Namespaces |-> Unregistered]
    /\ \E n \in Namespaces :
        /\ registrations = [g \in Registrants |->
                               [at |-> "idle", namespace |-> n, payout |-> FALSE]]
        /\ verifications = [v \in Verifiers |->
                               [at |-> "idle", namespace |-> n, answers |-> Unasked]]
    /\ published = {} /\ proven = {}

Known(n) == rows[n].status \notin {"none", "deleted"}

\* Bug: one of the two is enough.
VerifiedInPart(row) == row.dns \/ row.stripe = "verified"

FullyVerified(row) == row.dns /\ row.stripe = "verified"

Store(n, row) ==
    /\ rows' = [rows EXCEPT ![n] = row]
    /\ proven' = IF row.dns /\ row.stripe = "verified" THEN proven \union {n} ELSE proven

(***************************************************************************)
(* POST /v1/providers/register                                             *)
(***************************************************************************)
BeginRegistration(g, n, payout) ==
    /\ registrations[g].at = "idle"
    /\ registrations' = [registrations EXCEPT
                            ![g] = [at |-> "insert", namespace |-> n, payout |-> payout]]
    /\ UNCHANGED <<rows, verifications, published, proven>>

Registered(g, there) ==
    /\ registrations' = [registrations EXCEPT ![g].at = there]
    /\ UNCHANGED <<verifications, published>>

RefuseRegistration(g) ==
    /\ registrations[g].at = "insert"
    /\ Registered(g, "refused")
    /\ UNCHANGED <<rows, proven>>

\* The INSERT; the namespace is unique, deleted rows included.
InsertProvider(g) ==
    LET r == registrations[g]
        free == rows[r.namespace].status = "none"
        new == [Unregistered EXCEPT !.status = "pending", !.key = g]
    IN  /\ r.at = "insert"
        /\ \/ free /\ Store(r.namespace, new)
              /\ Registered(g, IF r.payout THEN "payout" ELSE "created")
           \/ ~free /\ Registered(g, "taken") /\ UNCHANGED <<rows, proven>>
           \/ "db" \in ProviderFaults /\ Registered(g, "failed")
              /\ \/ free /\ Store(r.namespace, new)
                 \/ UNCHANGED <<rows, proven>>

\* The UPDATE that follows; its failure is only logged.
PersistPayout(g) ==
    LET n == registrations[g].namespace
    IN  /\ registrations[g].at = "payout"
        /\ Registered(g, "created")
        /\ \/ Store(n, [rows[n] EXCEPT !.payout = TRUE])
           \/ "db" \in ProviderFaults /\ UNCHANGED <<rows, proven>>

(***************************************************************************)
(* POST /v1/providers/verify-dns                                           *)
(***************************************************************************)
\* Authentication and the read of the token, which never changes.
BeginVerification(v, n) ==
    /\ verifications[v].at \notin {"lookup", "mark"} /\ Known(n)
    /\ verifications' = [verifications EXCEPT
                            ![v] = [at |-> "lookup", namespace |-> n, answers |-> Unasked]]
    /\ UNCHANGED <<rows, registrations, published, proven>>

\* What resolver r may say of the records of n; an honest one may have them
\* from a cache.
MaySay(r, n) ==
    {Failed} \union
        (IF r \in Liars \/ n \in published THEN SUBSET Records ELSE SUBSET (Records \ {"token"}))

Resolve(v, r) ==
    /\ verifications[v].at = "lookup" /\ verifications[v].answers[r] = Waiting
    /\ \E a \in MaySay(r, verifications[v].namespace) :
        verifications' = [verifications EXCEPT ![v].answers[r] = a]
    /\ UNCHANGED <<rows, registrations, published, proven>>

Successful(answers) == {r \in Resolvers : answers[r] \subseteq Records}

\* Bug: one resolver is enough.
ConsensusOfOne(answers) ==
    {x \in Records : \E r \in Successful(answers) : x \in answers[r]}

\* A record must appear in the answers of two resolvers.
Consensus(answers) ==
    {x \in Records : Cardinality({r \in Successful(answers) : x \in answers[r]}) >= 2}

\* lookup_txt_records, when all have answered, and the comparison with the token.
Finding(answers) ==
    IF Cardinality(Successful(answers)) < 2 \/ Consensus(answers) = {} THEN "failed"
    ELSE IF "token" \in Consensus(answers) THEN "mark" ELSE "unverified"

Verified(v, there) ==
    /\ verifications' = [verifications EXCEPT ![v].at = there, ![v].answers = Unasked]
    /\ UNCHANGED <<registrations, published>>

ConcludeLookup(v) ==
    /\ verifications[v].at = "lookup"
    /\ \A r \in Resolvers : verifications[v].answers[r] # Waiting
    /\ Verified(v, Finding(verifications[v].answers))
    /\ UNCHANGED <<rows, proven>>

\* Bug: the status is set whatever it was.
MarkedVerified(row) == [row EXCEPT !.dns = TRUE, !.status = "verified"]

\* mark_dns_verified: by id only; the row may have been deleted meanwhile.
Marked(row) ==
    [row EXCEPT !.dns = TRUE, !.status = IF @ = "pending" THEN "verified" ELSE @]

MarkDnsVerified(v) ==
    LET n == verifications[v].namespace
    IN  /\ verifications[v].at = "mark"
        /\ \/ Store(n, Marked(rows[n])) /\ Verified(v, "verified")
           \/ "db" \in ProviderFaults /\ Verified(v, "failed")
              /\ (Store(n, Marked(rows[n])) \/ UNCHANGED <<rows, proven>>)

(***************************************************************************)
(* Stripe, the DNS and the operator                                        *)
(***************************************************************************)
\* POST /v1/providers/connect-stripe: the bridge creates the account and writes
\* its id; when the call fails nobody knows whether it did.
ConnectStripe(n) ==
    /\ Known(n) /\ rows[n].stripe = "none"
    /\ Store(n, [rows[n] EXCEPT !.stripe = "invited"])
    /\ UNCHANGED <<registrations, verifications, published>>

\* Stripe tells the bridge that the account is complete, or is no longer.
StripeAnswers(n) ==
    /\ rows[n].stripe # "none"
    /\ \E s \in {"invited", "verified"} \ {rows[n].stripe} :
        Store(n, [rows[n] EXCEPT !.stripe = s])
    /\ UNCHANGED <<registrations, verifications, published>>

\* The provider puts the token it was told into its zone.
ShowToken(n) ==
    /\ rows[n].status # "none" /\ n \notin published
    /\ published' = published \union {n}
    /\ UNCHANGED <<rows, registrations, verifications, proven>>

\* The statuses that only an operator gives.
Administer(n) ==
    /\ Known(n)
    /\ \/ rows[n].status = "verified" /\ Store(n, [rows[n] EXCEPT !.status = "active"])
       \/ Store(n, [rows[n] EXCEPT !.status = "deleted"])
    /\ UNCHANGED <<registrations, verifications, published>>

RegistrationNext ==
    \/ \E g \in Registrants :
        \/ \E n \in Namespaces, payout \in BOOLEAN : BeginRegistration(g, n, payout)
        \/ RefuseRegistration(g) \/ InsertProvider(g) \/ PersistPayout(g)
    \/ \E v \in Verifiers :
        \/ \E n \in Namespaces : BeginVerification(v, n)
        \/ \E r \in Resolvers : Resolve(v, r)
        \/ ConcludeLookup(v) \/ MarkDnsVerified(v)
    \/ \E n \in Namespaces :
        ConnectStripe(n) \/ StripeAnswers(n) \/ ShowToken(n) \/ Administer(n)

RegistrationSpec == RegistrationInit /\ [][RegistrationNext]_providerVars

(***************************************************************************)
(* Properties                                                              *)
(***************************************************************************)
\* "A single-resolver lie is rejected" (providers.rs:583): whatever fails, whoever
\* answers late and in whatever order, a provider is verified only if its token
\* was in the DNS at some time.
VerifiedWasPublished == \A n \in Namespaces : rows[n].dns => n \in published
===============================================================================
