----------------------------- MODULE MCCatalogue -----------------------------
(***************************************************************************)
(* The providers and their catalogue, in three parts: a provider registers *)
(* and is verified; versions are published, promoted and sunset while the  *)
(* provider's own state changes; a client pages while versions come, go    *)
(* and are called.  The versions are published under ids in their order.   *)
(***************************************************************************)
EXTENDS Catalogue

VARIABLE part

allVars == <<part, providerVars, catalogueVars>>

OneOf(S) == CHOOSE x \in S : TRUE

\* A registered provider; the token is in its zone.
Provider(status, dns, stripe) ==
    /\ rows = [n \in Namespaces |->
                  [status |-> status, key |-> OneOf(Registrants), dns |-> dns,
                   stripe |-> stripe, payout |-> TRUE]]
    /\ registrations = [g \in Registrants |->
                  [at |-> IF g = OneOf(Registrants) THEN "created" ELSE "taken",
                   namespace |-> OneOf(Namespaces), payout |-> TRUE]]
    /\ published = Namespaces

Verifying(there) ==
    verifications = [v \in Verifiers |->
                        [at |-> there, namespace |-> OneOf(Namespaces), answers |-> Unasked]]

NoItems ==
    /\ caps = [j \in Items |-> [status |-> "none", namespace |-> OneOf(Namespaces),
                                version |-> Min(Versions), methods |-> {}, calls |-> 0,
                                created |-> 0]]
    /\ edits = [e \in Editors |-> NoEdit(OneOf(Namespaces), "idle")]
    /\ relayed = {}
    /\ pager = [at |-> "idle", cursor |-> Start]
    /\ seen = [j \in Items |-> 0] /\ steady = {}

MCInit ==
    \/ part = "providers" /\ RegistrationInit /\ NoItems
    \/ /\ part = "lifecycle" /\ Provider("pending", FALSE, "invited") /\ Verifying("mark")
       /\ proven = {} /\ NoItems
    \/ /\ part = "paging" /\ Provider("verified", TRUE, "verified") /\ Verifying("verified")
       /\ proven = Namespaces /\ NoItems

\* Who edits, and what: with a client, one editor that publishes and sunsets.
Editing ==
    \E e \in Editors :
        /\ EditorNext(e)
        /\ part = "paging" => e = OneOf(Editors) /\ edits'[e].verb # "promote"

\* Two of the items are enough for the life of a version.
InPart ==
    /\ \A i \in Items : caps'[i].status # "none" =>
            caps'[i].version = i /\ (part = "lifecycle" => i <= Min(Items) + 1)
    /\ part = "lifecycle" => \A e \in Editors : edits'[e].item <= Min(Items) + 1

MCNext ==
    /\ part' = part
    /\ \/ part = "providers" /\ RegistrationNext /\ UNCHANGED catalogueVars
       \/ /\ part = "lifecycle"
          /\ \/ ProviderStep(\E v \in Verifiers : MarkDnsVerified(v))
             \/ ProviderStep(\E n \in Namespaces : StripeAnswers(n) \/ Administer(n))
             \/ Editing
             \/ \E i \in Items : Deprecate(i)
       \/ part = "paging" /\ (Editing \/ BeginPaging \/ FetchPage \/ \E i \in Items : Serve(i))
    /\ InPart

MCSpec == MCInit /\ [][MCNext]_allVars
===============================================================================
