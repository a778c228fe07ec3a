----------------------------- MODULE Subscriptions -----------------------------
(***************************************************************************)
(* The management of webhook subscriptions (routes/subscriptions.rs):      *)
(* POST, PATCH, DELETE and POST .../test.  GET changes nothing.  A POST    *)
(* that inserts a row names it, and every POST draws a secret; here both   *)
(* bear the name of the call.  WebhookOutbox has the worker that signs and *)
(* posts, and only the status of a row; the filter by event is left out.   *)
(*                                                                         *)
(* PATCH and test look at the row before they write, the answer of a call  *)
(* may be lost, and the subscriber then repeats it as another call.  The   *)
(* table's rule of one row for a subscriber and an endpoint is external.   *)
(***************************************************************************)
EXTENDS FiniteSets

CONSTANTS
    Requests,       \* calls, each made once
    Subscribers,    \* agents and providers, as resolve_subscriber_id names them
    Urls,           \* endpoint_url
    SubFaults       \* "db": a statement fails; "link": an answer is lost

ASSUME SubscriptionAssumption == SubFaults \subseteq {"db", "link"}

VARIABLES
    calls,          \* calls[c]: the call c
    subscriptions,  \* rows of webhook_subscriptions
    queued          \* calls whose test event is in the outbox

subVars == <<calls, subscriptions, queued>>

Statuses == {"active", "paused"}

SubscriptionTypeOK ==
    /\ calls \in [Requests ->
           [op : {"create", "update", "delete", "test"},
            who : Subscribers, url : Urls, id : Requests, status : Statuses,
            at : {"idle", "begun", "checked", "answered"},
            answer : {"none", "refused", "failed", "not_found",
                      "created", "updated", "deleted", "enqueued", "lost"}]]
    /\ \A row \in subscriptions :
        row \in [id : Requests, who : Subscribers, url : Urls, status : Statuses, secret : Requests]
    /\ queued \subseteq Requests

\* What a call does not say is filled in.
NewRequest(c) ==
    [op |-> "create", who |-> CHOOSE who \in Subscribers : TRUE, url |-> CHOOSE url \in Urls : TRUE,
     id |-> c, status |-> "active", at |-> "idle", answer |-> "none"]

SubscriptionInit ==
    /\ calls = [c \in Requests |-> NewRequest(c)]
    /\ subscriptions = {} /\ queued = {}

(***************************************************************************)
(* Steps of a call                                                         *)
(***************************************************************************)
\* The answer, which may not arrive; id is what it names.
Says(c, answer, id) ==
    \E heard \in {answer} \union {"lost" : f \in SubFaults \intersect {"link"}} :
        calls' = [calls EXCEPT ![c].at = "answered", ![c].answer = heard, ![c].id = id]

Keeps(c) == Says(c, "failed", calls[c].id) /\ UNCHANGED <<subscriptions, queued>>

Asks(c, where, ops) == calls[c].at = where /\ calls[c].op \in ops

\* The id of a row, or one that is no row's.
Named(c) == {row.id : row \in subscriptions} \union {c}

Forms(c) ==
    LET new == NewRequest(c)
    IN  {[new EXCEPT !.who = u, !.url = h] : u \in Subscribers, h \in Urls}
        \union {[new EXCEPT !.op = "update", !.who = u, !.url = h, !.id = i, !.status = s] :
                    u \in Subscribers, h \in Urls, i \in Named(c), s \in Statuses}
        \union {[new EXCEPT !.op = op, !.who = u, !.id = i] :
                    op \in {"delete", "test"}, u \in Subscribers, i \in Named(c)}

\* Authentication, the body, and for POST the URL.  A PATCH that leaves url or status out
\* stands for one that repeats what is there.
BeginCall(c) ==
    /\ calls[c].at = "idle"
    /\ \/ \E form \in Forms(c) : calls' = [calls EXCEPT ![c] = [form EXCEPT !.at = "begun"]]
       \/ Says(c, "refused", c)
    /\ UNCHANGED <<subscriptions, queued>>

Owned(c) == {row \in subscriptions : row.id = calls[c].id /\ row.who = calls[c].who}

CheckOwner(c) ==
    /\ Asks(c, "begun", {"update", "test"})
    /\ \/ Owned(c) # {} /\ calls' = [calls EXCEPT ![c].at = "checked"]
       \/ (Owned(c) = {} \/ "db" \in SubFaults) /\ Says(c, "not_found", calls[c].id)
    /\ UNCHANGED <<subscriptions, queued>>

\* The row of this subscriber and this endpoint.
Same(c) == {row \in subscriptions : row.who = calls[c].who /\ row.url = calls[c].url}

\* Bug: the secret of the last POST is stored.
UpsertSecret(c, row) == [row EXCEPT !.status = "active", !.secret = c]

\* ON CONFLICT DO UPDATE: the secret of the first POST stays.
Upsert(c, row) == [row EXCEPT !.status = "active"]

CreateSubscription(c) ==
    /\ Asks(c, "begun", {"create"})
    /\ \/ /\ Same(c) = {}
          /\ subscriptions' = subscriptions \union
                {[id |-> c, who |-> calls[c].who, url |-> calls[c].url,
                  status |-> "active", secret |-> c]}
          /\ Says(c, "created", c) /\ UNCHANGED queued
       \/ \E row \in Same(c) :
          /\ subscriptions' = (subscriptions \ {row}) \union {Upsert(c, row)}
          /\ Says(c, "created", row.id) /\ UNCHANGED queued
       \/ "db" \in SubFaults /\ Keeps(c)

\* The new URL or status of a PATCH is turned away.
RefuseUpdate(c) ==
    /\ Asks(c, "checked", {"update"})
    /\ Says(c, "refused", calls[c].id)
    /\ UNCHANGED <<subscriptions, queued>>

\* The UPDATE, by id alone; it does nothing to a row that is gone or whose new
\* endpoint is taken, and the answer is the same.
UpdateSubscription(c) ==
    /\ Asks(c, "checked", {"update"})
    /\ \/ \E row \in subscriptions :
          /\ row.id = calls[c].id /\ Same(c) \subseteq {row}
          /\ subscriptions' = (subscriptions \ {row}) \union
                {[row EXCEPT !.url = calls[c].url, !.status = calls[c].status]}
       \/ /\ \/ \A row \in subscriptions : row.id # calls[c].id
             \/ \E row \in Same(c) : row.id # calls[c].id
             \/ "db" \in SubFaults
          /\ UNCHANGED subscriptions
    /\ Says(c, "updated", calls[c].id) /\ UNCHANGED queued

DeleteSubscription(c) ==
    /\ Asks(c, "begun", {"delete"})
    /\ \/ /\ Owned(c) # {}
          /\ subscriptions' = subscriptions \ Owned(c)
          /\ Says(c, "deleted", calls[c].id) /\ UNCHANGED queued
       \/ Owned(c) = {} /\ Says(c, "not_found", calls[c].id) /\ UNCHANGED <<subscriptions, queued>>
       \/ "db" \in SubFaults /\ Keeps(c)

\* The INSERT refers to the row; its failure is ignored.
TestSubscription(c) ==
    /\ Asks(c, "checked", {"test"})
    /\ LET there == {row \in subscriptions : row.id = calls[c].id}
       IN  \/ there # {} /\ queued' = queued \union {c}
           \/ (there = {} \/ "db" \in SubFaults) /\ UNCHANGED queued
    /\ Says(c, "enqueued", calls[c].id) /\ UNCHANGED subscriptions

SubscriptionNext ==
    \E c \in Requests :
        \/ BeginCall(c) \/ CheckOwner(c)
        \/ CreateSubscription(c) \/ RefuseUpdate(c) \/ UpdateSubscription(c)
        \/ DeleteSubscription(c) \/ TestSubscription(c)

SubscriptionSpec == SubscriptionInit /\ [][SubscriptionNext]_subVars

(***************************************************************************)
(* Properties                                                              *)
(***************************************************************************)
\* The calls that were told of a subscription when they created it.
ToldOf(row) == {c \in Requests : calls[c].answer = "created" /\ calls[c].id = row.id}

\* A subscriber who got the answer to the POST that made its subscription can
\* verify what is delivered for as long as the subscription lives, whichever
\* later POSTs, PATCHes and deletions are repeated, overtaken or lost: the secret
\* in the row is one it was told (routes/subscriptions.rs:138-150).  Who did not
\* get that answer and repeats the POST is told a secret that is not stored.
SecretWasTold ==
    \A row \in subscriptions : row.id \in ToldOf(row) => row.secret \in ToldOf(row)
================================================================================
