------------------------------- MODULE Deliveries -------------------------------
(***************************************************************************)
(* What the Hub promises about an event, without workers, batches or       *)
(* clocks: only an event that still waits is sent to its subscriber; it    *)
(* comes to rest once, as delivered after the endpoint took it or its      *)
(* destination was turned away, as abandoned after MaxAttempts posts of it *)
(* have failed; and the attempts on record rise one by one, each for a     *)
(* post that failed, however many workers write them.  An event that has   *)
(* waited too long in the batch of a worker is loose: it may be sent again *)
(* after its outcome, get both, and have its attempts set back; but each   *)
(* outcome is still true, and only a waiting event becomes loose.          *)
(***************************************************************************)
EXTENDS Integers

CONSTANTS
    Events,         \* events, each for one subscription
    MaxAttempts     \* failed posts after which an event is given up

VARIABLES
    announced,      \* events whose row has been written
    outcome,        \* outcome[e]: {}, {"delivered"} or {"abandoned"}
    counted,        \* counted[e]: the attempts on record
    accepted,       \* events the endpoint answered with success
    failed,         \* failed[e]: posts that ended otherwise, up to MaxAttempts
    refused,        \* events whose destination was turned away
    loose           \* events that outlived a lease

vars == <<announced, outcome, counted, accepted, failed, refused, loose>>

Init ==
    /\ announced = {} /\ accepted = {} /\ refused = {} /\ loose = {}
    /\ outcome = [e \in Events |-> {}]
    /\ counted = [e \in Events |-> 0]
    /\ failed = [e \in Events |-> 0]

Waiting == {e \in announced : outcome[e] = {} \/ e \in loose}

Announce(e) ==
    /\ e \notin announced
    /\ announced' = announced \union {e}
    /\ UNCHANGED <<outcome, counted, accepted, failed, refused, loose>>

Loosen(events) ==
    /\ events \subseteq Waiting
    /\ loose' = loose \union events
    /\ UNCHANGED <<announced, outcome, counted, accepted, failed, refused>>

Accept(e) ==
    /\ e \in Waiting
    /\ accepted' = accepted \union {e}
    /\ UNCHANGED <<announced, outcome, counted, failed, refused, loose>>

Fail(e) ==
    /\ e \in Waiting
    /\ failed' = [failed EXCEPT ![e] = IF @ < MaxAttempts THEN @ + 1 ELSE @]
    /\ UNCHANGED <<announced, outcome, counted, accepted, refused, loose>>

Refuse(e) ==
    /\ e \in Waiting
    /\ refused' = refused \union {e}
    /\ UNCHANGED <<announced, outcome, counted, accepted, failed, loose>>

Count(e, n) ==
    /\ e \in Waiting
    /\ n \in 1 .. failed[e] /\ n < MaxAttempts
    /\ n = counted[e] + 1 \/ e \in loose
    /\ counted' = [counted EXCEPT ![e] = n]
    /\ UNCHANGED <<announced, outcome, accepted, failed, refused, loose>>

Deliver(e) ==
    /\ e \in Waiting \intersect (accepted \union refused)
    /\ outcome' = [outcome EXCEPT ![e] = @ \union {"delivered"}]
    /\ UNCHANGED <<announced, counted, accepted, failed, refused, loose>>

GiveUp(e) ==
    /\ e \in Waiting
    /\ failed[e] = MaxAttempts
    /\ counted[e] + 1 = MaxAttempts \/ e \in loose
    /\ outcome' = [outcome EXCEPT ![e] = @ \union {"abandoned"}]
    /\ counted' = [counted EXCEPT ![e] = MaxAttempts]
    /\ UNCHANGED <<announced, accepted, failed, refused, loose>>

Next ==
    \/ \E events \in SUBSET Events : Loosen(events)
    \/ \E e \in Events :
          \/ Announce(e) \/ Accept(e) \/ Fail(e) \/ Refuse(e)
          \/ (\E n \in 1 .. MaxAttempts : Count(e, n)) \/ Deliver(e) \/ GiveUp(e)

Spec == Init /\ [][Next]_vars
=================================================================================
