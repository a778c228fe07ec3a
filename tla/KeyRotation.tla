------------------------------ MODULE KeyRotation ------------------------------
(***************************************************************************)
(* API keys of agents and providers and their rotation (routes/keys.rs).   *)
(* An actor has an active key and one slot for the key before it, which    *)
(* is accepted until its grace period ends.  Agents are authenticated by   *)
(* one SELECT of their row, providers by up to two, the active key first.  *)
(* A rotation authenticates its key and then calls a stored function.      *)
(*                                                                         *)
(* The stored functions are not in the repository.  As the handlers use    *)
(* them, each counts, writes the row and the audit log in one transaction  *)
(* under a lock on the row; the agents' one also verifies that the key the *)
(* caller presented is the active one.  A key is the number of its issue:  *)
(* hashes and prefixes of different keys differ.                           *)
(***************************************************************************)
EXTENDS Integers, Sequences

CONSTANTS
    Agents, Providers,
    Presenters,     \* HTTP requests that may be in progress at once
    GraceAsked,     \* grace_seconds a body may ask for, in hours here
    GraceMin, GraceMax,
    RotationCap,    \* ROTATION_24H_CAP
    MaxIssued,      \* bound: keys issued to an actor
    MaxHour,        \* bound: how long the clock runs
    KeyFaults       \* "db": the call of the stored function may fail

ASSUME KeyAssumption ==
    /\ Agents \intersect Providers = {}
    /\ GraceAsked \subseteq Int
    /\ GraceMin \in Nat \ {0} /\ GraceMax \in Nat /\ GraceMin <= GraceMax
    /\ RotationCap \in Nat /\ MaxIssued \in Nat \ {0} /\ MaxHour \in Nat
    /\ KeyFaults \subseteq {"db"}

VARIABLES
    hour,           \* the database's clock
    active,         \* active[a]: api_key_hash
    previous,       \* previous[a]: previous_api_key_hash, 0 for none
    validUntil,     \* validUntil[a]: previous_key_valid_until, 0 for NULL
    issued,         \* issued[a]: keys issued to a so far
    rotations,      \* rotations[a]: successful rotations in the last 24 h
    requests,       \* requests[k]: the request in progress, or the last one
    spent           \* ghost: spent[a]: keys presented to rotations that succeeded

rowVars == <<active, previous, validUntil, issued, rotations, spent>>
keyVars == <<hour, rowVars, requests>>

Actors == Agents \union Providers
Keys == 1..MaxIssued
Stages == {"idle", "select", "grace", "rotate", "accepted", "rejected", "rotated",
           "refused", "failed"}
Request == [at : Stages, actor : Actors, key : Keys, verb : {"use", "rotate"},
            grace : Int, revoke : BOOLEAN, held : BOOLEAN]

KeyTypeOK ==
    /\ hour \in Nat
    /\ active \in [Actors -> Keys]
    /\ previous \in [Actors -> Keys \union {0}]
    /\ validUntil \in [Actors -> Nat]
    /\ issued \in [Actors -> Keys]
    /\ rotations \in [Actors -> Nat]
    /\ requests \in [Presenters -> Request]
    /\ spent \in [Actors -> Seq(Keys)]

Idle(a) == [at |-> "idle", actor |-> a, key |-> 1, verb |-> "use", grace |-> GraceMax,
            revoke |-> FALSE, held |-> FALSE]

KeyInit ==
    /\ hour = 0
    /\ active = [a \in Actors |-> 1]
    /\ previous = [a \in Actors |-> 0]
    /\ validUntil = [a \in Actors |-> 0]
    /\ issued = [a \in Actors |-> 1]
    /\ rotations = [a \in Actors |-> 0]
    /\ \E a \in Actors : requests = [k \in Presenters |-> Idle(a)]
    /\ spent = [a \in Actors |-> << >>]

InGrace(a, key)  == key = previous[a] /\ hour < validUntil[a]
Accepted(a, key) == key = active[a] \/ InGrace(a, key)

\* Ghost: a request notes whether its key has been good since it arrived.
StillGood(a, key) == key = active'[a] \/ (key = previous'[a] /\ hour' < validUntil'[a])
Watch(next) ==
    requests' = [k \in Presenters |->
        [next[k] EXCEPT !.held = @ /\ StillGood(next[k].actor, next[k].key)]]

To(k, there) == Watch([requests EXCEPT ![k].at = there])

\* The request is answered; what it carried is forgotten.
End(k, there) ==
    Watch([requests EXCEPT ![k] = [Idle(@.actor) EXCEPT !.at = there]])

(***************************************************************************)
(* Authentication                                                          *)
(***************************************************************************)
\* Any key that was issued may be presented.
Arrive(k, r) ==
    /\ requests[k].at \notin {"select", "grace", "rotate"}
    /\ r.key <= issued[r.actor]
    /\ UNCHANGED <<hour, rowVars>>
    /\ Watch([requests EXCEPT ![k] = r])

Authenticated(k) == IF requests[k].verb = "use" THEN "accepted" ELSE "rotate"

\* authenticate_agent: one row with both keys.
AuthenticateAgent(k) ==
    LET r == requests[k]
    IN  /\ r.at = "select" /\ r.actor \in Agents
        /\ UNCHANGED <<hour, rowVars>>
        /\ To(k, IF Accepted(r.actor, r.key) THEN Authenticated(k) ELSE "rejected")

\* Bug: the provider is looked for by its previous key first.
MatchGraceFirst(r) ==
    IF r.at = "select" THEN InGrace(r.actor, r.key) ELSE r.key = active[r.actor]

\* get_provider_for_auth: by the active key, then by the previous one.
Match(r) ==
    IF r.at = "select" THEN r.key = active[r.actor] ELSE InGrace(r.actor, r.key)

\* The two SELECTs; a key neither finds is refused.
AuthenticateProvider(k) ==
    LET r == requests[k]
    IN  /\ r.at \in {"select", "grace"} /\ r.actor \in Providers
        /\ UNCHANGED <<hour, rowVars>>
        /\ To(k, IF Match(r) THEN Authenticated(k)
                 ELSE IF r.at = "select" THEN "grace" ELSE "rejected")

(***************************************************************************)
(* Rotation                                                                *)
(***************************************************************************)
\* clamp_grace; a body without grace_seconds asks for the default, GraceMax.
Clamp(asked) ==
    IF asked < GraceMin THEN GraceMin ELSE IF asked > GraceMax THEN GraceMax ELSE asked

\* What the stored function writes: the new key is told to the caller only.
Rotate(r) ==
    /\ rotations[r.actor] < RotationCap /\ issued[r.actor] < MaxIssued
    /\ issued' = [issued EXCEPT ![r.actor] = @ + 1]
    /\ active' = [active EXCEPT ![r.actor] = issued[r.actor] + 1]
    /\ previous' = [previous EXCEPT ![r.actor] = active[r.actor]]
    /\ validUntil' = [validUntil EXCEPT ![r.actor] =
                         IF r.revoke THEN 0 ELSE hour + Clamp(r.grace)]
    /\ rotations' = [rotations EXCEPT ![r.actor] = @ + 1]
    /\ spent' = [spent EXCEPT ![r.actor] = Append(@, r.key)]
    /\ UNCHANGED hour

\* Bug: the key that was authenticated is not looked at again.
StillActiveUnchecked(r) == TRUE

\* rotate_agent_api_key_atomic_v2 verifies the presented key under the lock.
StillActive(r) == r.actor \in Agents => r.key = active[r.actor]

RotateKey(k) ==
    LET r == requests[k]
    IN  /\ r.at = "rotate" /\ StillActive(r)
        /\ Rotate(r)
        /\ End(k, "rotated")

\* ROTATION_24H_CAP or ROTATION_RACE.
RefuseRotation(k) ==
    LET r == requests[k]
    IN  /\ r.at = "rotate"
        /\ rotations[r.actor] >= RotationCap \/ ~StillActive(r)
        /\ UNCHANGED <<hour, rowVars>>
        /\ End(k, "refused")

\* The statement fails or its answer is lost: the caller does not learn a key.
FailRotation(k) ==
    LET r == requests[k]
    IN  /\ "db" \in KeyFaults /\ r.at = "rotate"
        /\ \/ StillActive(r) /\ Rotate(r)
           \/ UNCHANGED <<hour, rowVars>>
        /\ End(k, "failed")

\* A rotation leaves the last 24 hours.
AgeOut(a) ==
    /\ rotations[a] > 0
    /\ rotations' = [rotations EXCEPT ![a] = @ - 1]
    /\ UNCHANGED <<hour, active, previous, validUntil, issued, requests, spent>>

PassHour ==
    /\ hour < MaxHour
    /\ hour' = hour + 1
    /\ UNCHANGED rowVars
    /\ Watch(requests)

Handle(k) ==
    AuthenticateAgent(k) \/ AuthenticateProvider(k) \/ RotateKey(k) \/ RefuseRotation(k)
        \/ FailRotation(k)

Arrivals ==
    {r \in [at : {"select"}, actor : Actors, key : Keys, verb : {"use", "rotate"},
            grace : GraceAsked, revoke : BOOLEAN, held : {TRUE}] :
        r.verb = "use" => ~r.revoke /\ r.grace = GraceMax}

KeyNext ==
    \/ \E k \in Presenters : (\E r \in Arrivals : Arrive(k, r)) \/ Handle(k)
    \/ \E a \in Actors : AgeOut(a)
    \/ PassHour

KeySpec == KeyInit /\ [][KeyNext]_keyVars

(***************************************************************************)
(* Properties                                                              *)
(***************************************************************************)
\* However rotations of an agent overlap, each key is rotated away at most once:
\* of two callers that hold one key, one gets a new key and the other one is
\* refused (keys.rs:148, ROTATION_RACE).
OneWinner ==
    \A a \in Agents : \A i, j \in DOMAIN spent[a] : spent[a][i] = spent[a][j] => i = j

\* "Subsequent requests with the previous key continue to work" (keys.rs:16): a
\* key that is good from a request's arrival on is not refused because a rotation
\* moves it from one slot to the other between the look-ups.
NeverLockedOut == \A k \in Presenters : requests[k].at = "rejected" => ~requests[k].held
================================================================================
