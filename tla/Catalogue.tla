------------------------------- MODULE Catalogue -------------------------------
(***************************************************************************)
(* The capabilities providers publish (routes/manifests.rs), the catalogue *)
(* clients page through (routes/capabilities.rs), and the statements both  *)
(* use (services/database.rs).  A version of a capability is submitted or  *)
(* active when it is published, promoted when its provider has been        *)
(* verified, and sunset at the end.  Each handler authenticates, which     *)
(* reads the provider's row once, and decides on what it read.             *)
(*                                                                         *)
(* A namespace has one capability here, whose versions are numbered in the *)
(* order of their text.  An item is a row of jecp.capabilities with its    *)
(* manifest; its number is its random id.  Validation of a manifest is one *)
(* refusal.  The filter by namespace and tags is left out.                 *)
(***************************************************************************)
EXTENDS Registration, FiniteSetsExt

CONSTANTS
    Items,          \* row ids, numbers
    Versions,       \* numbers
    Editors,        \* publish, promote and sunset requests in progress at once
    Manifests,      \* sets of payment methods a manifest may declare
    PageSize,       \* page_size, clamped to 1..200
    X402Config,     \* whether the hub has an x402 configuration
    MaxCalls        \* bound: calls served by an item

Methods == {"stripe", "x402"}

ASSUME CatalogueAssumption ==
    /\ Items \subseteq Nat /\ IsFiniteSet(Items) /\ Versions \subseteq Nat
    /\ Manifests \subseteq SUBSET Methods
    /\ PageSize \in Nat \ {0} /\ X402Config \in BOOLEAN /\ MaxCalls \in Nat

VARIABLES
    caps,           \* jecp.capabilities by id
    edits,          \* edits[e]: the request in progress, or the last one
    relayed,        \* items for which a registration was sent to the relayer
    pager,          \* the client that pages through the catalogue
    seen,           \* seen[i]: how often the client was shown item i
    steady          \* ghost: items in the catalogue with one and the same key
                    \* since the client's first page

itemVars == <<caps, relayed>>
clientVars == <<pager, seen, steady>>
catalogueVars == <<itemVars, clientVars, edits>>

Start == [calls |-> MaxCalls + 1, created |-> 0, id |-> 0]     \* no cursor

CatalogueTypeOK ==
    /\ caps \in [Items -> [status : {"none", "submitted", "active", "deprecated", "sunset"},
                           namespace : Namespaces, version : Versions, methods : SUBSET Methods,
                           calls : 0..MaxCalls, created : Nat]]
    /\ edits \in [Editors ->
           [at : {"idle", "insert", "status", "relay", "update", "done", "refused", "failed"},
            verb : {"publish", "promote", "sunset"}, namespace : Namespaces,
            item : Items, ready : BOOLEAN]]
    /\ relayed \subseteq Items
    /\ pager \in [at : {"idle", "paging", "done"},
                  cursor : [calls : Nat, created : Nat, id : Nat]]
    /\ seen \in [Items -> Nat] /\ steady \subseteq Items

NoEdit(n, there) ==
    [at |-> there, verb |-> "publish", namespace |-> n, item |-> Min(Items), ready |-> FALSE]

CatalogueInit ==
    /\ RegistrationInit
    /\ \E n \in Namespaces, v \in Versions :
        /\ caps = [j \in Items |-> [status |-> "none", namespace |-> n, version |-> v,
                                    methods |-> {}, calls |-> 0, created |-> 0]]
        /\ edits = [e \in Editors |-> NoEdit(n, "idle")]
    /\ relayed = {}
    /\ pager = [at |-> "idle", cursor |-> Start]
    /\ seen = [j \in Items |-> 0] /\ steady = {}

(***************************************************************************)
(* What the statements select                                              *)
(***************************************************************************)
Key(i) == [calls |-> caps[i].calls, created |-> caps[i].created, id |-> i]

\* (total_calls, created_at, id) < (...)
Less(k, l) ==
    \/ k.calls < l.calls
    \/ k.calls = l.calls /\ k.created < l.created
    \/ k.calls = l.calls /\ k.created = l.created /\ k.id < l.id

Served(n) == rows[n].status \in {"verified", "active"}
Visible(i) == caps[i].status = "active" /\ Served(caps[i].namespace)

\* resolve_capability_for_invoke: the version last in the order of the texts.
Resolvable(i) ==
    caps[i].status \in {"active", "deprecated", "sunset"} /\ Served(caps[i].namespace)
Resolved(i) ==
    /\ Resolvable(i)
    /\ \A j \in Items : Resolvable(j) /\ caps[j].namespace = caps[i].namespace =>
                            caps[j].version <= caps[i].version

\* The items that stay in the catalogue with their key through a step.
StillSteady ==
    {i \in steady : Key(i) = Key(i)' /\ Visible(i)'}

(***************************************************************************)
(* The handlers of providers                                               *)
(***************************************************************************)
\* Authentication; ready is what it read of the provider's verification.  A
\* publication has no item yet.
BeginEdit(e, verb, n, i) ==
    /\ edits[e].at \notin {"insert", "status", "relay", "update"} /\ Known(n)
    /\ edits' = [edits EXCEPT
            ![e] = [at |-> IF verb = "publish" THEN "insert" ELSE "status", verb |-> verb,
                    namespace |-> n, item |-> i, ready |-> FullyVerified(rows[n])]]
    /\ UNCHANGED <<providerVars, itemVars, clientVars>>

\* A request that is answered forgets what it read.
Edited(e, there) ==
    /\ UNCHANGED <<providerVars, pager, seen>>
    /\ edits' = [edits EXCEPT ![e] = IF there \in {"done", "refused", "failed"}
                                     THEN NoEdit(@.namespace, there) ELSE [@ EXCEPT !.at = there]]
    /\ steady' = StillSteady

Exists(n, v) == \E i \in Items : caps[i].status # "none" /\ caps[i].namespace = n
                                     /\ caps[i].version = v

\* The manifest is read into a structure without payment_methods and stored again.
StoredMethods(methods) == {}

\* Created now, at the earliest with the last one and at the latest an instant after.
Insert(i, n, v, methods, ready) ==
    /\ \E t \in UNION {{caps[j].created, caps[j].created + 1} : j \in Items} :
        /\ \A j \in Items : caps[j].created <= t
        /\ caps' = [caps EXCEPT ![i] =
                    [status |-> IF ready THEN "active" ELSE "submitted", namespace |-> n,
                     version |-> v, methods |-> StoredMethods(methods), calls |-> 0,
                     created |-> t]]
    /\ UNCHANGED relayed

\* validate_manifest.
RefuseManifest(e) == edits[e].at = "insert" /\ UNCHANGED itemVars /\ Edited(e, "refused")

\* The transaction of publish_manifest, under an id not used before.
PublishManifest(e, i, v, methods) ==
    LET n == edits[e].namespace
        new == ~Exists(n, v) /\ caps[i].status = "none"
    IN  /\ edits[e].at = "insert"
        /\ \/ new /\ Insert(i, n, v, methods, edits[e].ready) /\ Edited(e, "done")
           \/ Exists(n, v) /\ UNCHANGED itemVars /\ Edited(e, "refused")
           \/ /\ "db" \in ProviderFaults
              /\ \/ new /\ Insert(i, n, v, methods, edits[e].ready)
                 \/ UNCHANGED itemVars
              /\ Edited(e, "failed")

\* The checks of verification, ownership and status.
Checked(e) ==
    LET r == edits[e]
        status == caps[r.item].status
        own == status # "none" /\ caps[r.item].namespace = r.namespace
    IN  IF (r.verb = "promote" /\ ~r.ready) \/ ~own THEN "refused"
        ELSE IF r.verb = "sunset" THEN IF status = "sunset" THEN "done" ELSE "update"
        ELSE IF status = "active" THEN "done"
        ELSE IF status # "submitted" THEN "refused"
        ELSE IF X402Config THEN "relay" ELSE "update"

ReadStatus(e) ==
    /\ edits[e].at = "status"
    /\ UNCHANGED itemVars
    /\ \/ Edited(e, Checked(e))
       \/ "db" \in ProviderFaults /\ Edited(e, "failed")

\* register_x402_capabilities_best_effort: whatever comes of it, the promotion
\* goes on.
RelayRegistration(e) ==
    LET i == edits[e].item
    IN  /\ edits[e].at = "relay"
        /\ relayed' = IF rows[edits[e].namespace].payout /\ "x402" \in caps[i].methods
                      THEN relayed \union {i} ELSE relayed
        /\ UNCHANGED caps
        /\ Edited(e, "update")

\* Bug: the status is not looked at again.
PromotableAnyway(status) == TRUE

Promotable(status) == status = "submitted"
Sunsettable(status) == status \notin {"sunset", "deprecated"}

\* The guarded UPDATE of promote_capability or of sunset_capability; the answer
\* is the same when no row changed.
UpdateStatus(e) ==
    LET r == edits[e]
        status == caps[r.item].status
        new == IF r.verb = "promote"
               THEN IF Promotable(status) THEN "active" ELSE status
               ELSE IF Sunsettable(status) THEN "sunset" ELSE status
    IN  /\ r.at = "update"
        /\ \/ caps' = [caps EXCEPT ![r.item].status = new] /\ Edited(e, "done")
           \/ /\ "db" \in ProviderFaults
              /\ caps' \in {caps, [caps EXCEPT ![r.item].status = new]}
              /\ Edited(e, "failed")
        /\ UNCHANGED relayed

(***************************************************************************)
(* The client, invocations and the operator                                *)
(***************************************************************************)
Selected == {i \in Items : Visible(i) /\ Less(Key(i), pager.cursor)}

\* The first PageSize of the rows in descending order; one more is fetched to
\* know whether there are more.
Page == {i \in Selected : Cardinality({j \in Selected : Less(Key(i), Key(j))}) < PageSize}
HasMore == Cardinality(Selected) > PageSize

\* Bug: the cursor is taken from the row that is fetched and not shown.
CursorOfExtraRow ==
    CHOOSE k \in {Key(i) : i \in Selected} :
        Cardinality({j \in Selected : Less(k, Key(j))}) = PageSize

\* The last row that is shown.
NextCursor == CHOOSE k \in {Key(i) : i \in Page} : \A i \in Page : ~Less(Key(i), k)

BeginPaging ==
    /\ pager.at # "paging"
    /\ pager' = [at |-> "paging", cursor |-> Start]
    /\ seen' = [i \in Items |-> 0]
    /\ steady' = {i \in Items : Visible(i)}
    /\ UNCHANGED <<providerVars, itemVars, edits>>

\* list_active_capabilities_paginated; a page that fails is asked for again.
FetchPage ==
    /\ pager.at = "paging"
    /\ seen' = [i \in Items |-> seen[i] + IF i \in Page THEN 1 ELSE 0]
    /\ pager' = IF HasMore THEN [pager EXCEPT !.cursor = NextCursor]
                           ELSE [pager EXCEPT !.at = "done"]
    /\ UNCHANGED <<providerVars, itemVars, edits, steady>>

\* A call is served and counted.
Serve(i) ==
    /\ Resolved(i) /\ caps[i].status \in {"active", "deprecated"}
    /\ caps[i].calls < MaxCalls
    /\ caps' = [caps EXCEPT ![i].calls = @ + 1]
    /\ UNCHANGED <<providerVars, relayed, pager, seen, edits>>
    /\ steady' = StillSteady

\* A status the code reads and never writes.
Deprecate(i) ==
    /\ caps[i].status = "active"
    /\ caps' = [caps EXCEPT ![i].status = "deprecated"]
    /\ UNCHANGED <<providerVars, relayed, pager, seen, edits>>
    /\ steady' = StillSteady

\* A step of module Registration.
ProviderStep(A) == A /\ UNCHANGED <<itemVars, pager, seen, edits>> /\ steady' = StillSteady

EditorNext(e) ==
    \/ \E n \in Namespaces :
        \/ BeginEdit(e, "publish", n, Min(Items))
        \/ \E verb \in {"promote", "sunset"}, i \in Items : BeginEdit(e, verb, n, i)
    \/ \E i \in Items, v \in Versions, methods \in Manifests :
        PublishManifest(e, i, v, methods)
    \/ RefuseManifest(e) \/ ReadStatus(e) \/ RelayRegistration(e) \/ UpdateStatus(e)

CatalogueNext ==
    \/ ProviderStep(RegistrationNext)
    \/ \E e \in Editors : EditorNext(e)
    \/ BeginPaging \/ FetchPage
    \/ \E i \in Items : Serve(i) \/ Deprecate(i)

CatalogueSpec == CatalogueInit /\ [][CatalogueNext]_<<providerVars, catalogueVars>>

(***************************************************************************)
(* Properties                                                              *)
(***************************************************************************)
\* A sunset version and a deleted provider stay so, whatever promotion, sunset or
\* verification had read the row before (database.rs:1048, 599).
EndsAreFinal ==
    [][/\ \A i \in Items : caps[i].status = "sunset" => caps'[i].status = "sunset"
       /\ \A n \in Namespaces : rows[n].status = "deleted" => rows'[n].status = "deleted"
      ]_<<providerVars, catalogueVars>>

\* What is in the catalogue belongs to a provider that was verified by DNS and by
\* Stripe at one moment, and whose token was in the DNS (manifests.rs:178, 383).
ActiveWasProven ==
    \A i \in Items : caps[i].status = "active" =>
        caps[i].namespace \in proven \intersect published

\* A client that follows the cursors to the end is shown every item once that is
\* in the catalogue with the same key all the while, whatever is published,
\* withdrawn or called between two pages (database.rs:728).
ListedOnce ==
    \A i \in steady :
        /\ seen[i] <= 1
        /\ pager.at = "done" => seen[i] = 1
================================================================================
