----------------------------- MODULE AccountProofs -----------------------------
(***************************************************************************)
(* Theorems about KeyRotation, for any number of actors, keys and          *)
(* requests, and about Registration and Catalogue, for any number of       *)
(* providers, requests, resolvers and versions.                            *)
(***************************************************************************)
EXTENDS KeyRotation, Catalogue, FiniteSetTheorems, WellFoundedInduction, TLAPS

(***************************************************************************)
(* KeyRotation: arithmetic and requests                                    *)
(***************************************************************************)
LEMMA ClampIsNatural ==
    ASSUME NEW asked \in Int
    PROVE  Clamp(asked) \in Nat
  BY KeyAssumption DEF Clamp

\* A request that was Watched has the fields it was given, and its held.
LEMMA WatchTyped ==
    ASSUME NEW next \in [Presenters -> Request], Watch(next)
    PROVE  /\ requests' \in [Presenters -> Request]
           /\ \A k \in Presenters :
                /\ requests'[k].at = next[k].at
                /\ requests'[k].actor = next[k].actor
                /\ requests'[k].key = next[k].key
                /\ requests'[k].held = (next[k].held /\ StillGood(next[k].actor, next[k].key))
<1>1. requests' = [k \in Presenters |->
            [next[k] EXCEPT !.held = @ /\ StillGood(next[k].actor, next[k].key)]]
  BY DEF Watch
<1>2. ASSUME NEW k \in Presenters
      PROVE  (next[k].held /\ StillGood(next[k].actor, next[k].key)) \in BOOLEAN
  OBVIOUS
<1> DEFINE Held(k) == next[k].held /\ StillGood(next[k].actor, next[k].key)
<1>3. \A k \in Presenters : Held(k) \in BOOLEAN
  BY <1>2
<1>4. requests' = [k \in Presenters |-> [next[k] EXCEPT !.held = Held(k)]]
  BY <1>1
<1> HIDE DEF Held
<1>5. ASSUME NEW k \in Presenters
      PROVE  /\ requests'[k] \in Request
             /\ requests'[k].at = next[k].at
             /\ requests'[k].actor = next[k].actor
             /\ requests'[k].key = next[k].key
             /\ requests'[k].held = Held(k)
  BY <1>3, <1>4, <1>5 DEF Request
<1> QED BY <1>4, <1>5 DEF Held

LEMMA IdleTyped ==
    ASSUME NEW a \in Actors
    PROVE  Idle(a) \in Request
  BY KeyAssumption DEF Idle, Request, Stages, Keys

\* What To, End and Arrive put in place of a request is one.
LEMMA ToTyped ==
    ASSUME KeyTypeOK, NEW k \in Presenters, NEW there \in Stages
    PROVE  /\ [requests EXCEPT ![k].at = there] \in [Presenters -> Request]
           /\ [requests EXCEPT ![k] = [Idle(@.actor) EXCEPT !.at = there]]
                \in [Presenters -> Request]
<1>1. Idle(requests[k].actor) \in Request
  BY IdleTyped DEF KeyTypeOK, Request
<1> QED BY <1>1 DEF KeyTypeOK, Request

(***************************************************************************)
(* Types                                                                   *)
(***************************************************************************)
RowTypeOK ==
    /\ hour \in Nat
    /\ active \in [Actors -> Keys]
    /\ previous \in [Actors -> Keys \union {0}]
    /\ validUntil \in [Actors -> Nat]
    /\ issued \in [Actors -> Keys]
    /\ rotations \in [Actors -> Nat]
    /\ spent \in [Actors -> Seq(Keys)]

LEMMA RotateTyped ==
    ASSUME RowTypeOK, NEW r \in Request, Rotate(r)
    PROVE  RowTypeOK'
<1>1. Clamp(r.grace) \in Nat
  BY ClampIsNatural DEF Request
<1>2. hour + Clamp(r.grace) \in Nat
  BY <1>1 DEF RowTypeOK
<1>3. r.actor \in Actors /\ r.key \in Keys
  BY DEF Request
<1>4. issued[r.actor] + 1 \in Keys
  BY <1>3, KeyAssumption DEF RowTypeOK, Rotate, Keys
<1>5. hour' \in Nat /\ active' \in [Actors -> Keys] /\ issued' \in [Actors -> Keys]
  BY <1>3, <1>4 DEF RowTypeOK, Rotate
<1>6. previous' \in [Actors -> Keys \union {0}] /\ rotations' \in [Actors -> Nat]
  BY <1>3 DEF RowTypeOK, Rotate
<1>7. validUntil' \in [Actors -> Nat]
  <2> DEFINE until == IF r.revoke THEN 0 ELSE hour + Clamp(r.grace)
  <2>1. until \in Nat
    BY <1>2
  <2>2. validUntil' = [validUntil EXCEPT ![r.actor] = until]
    BY DEF Rotate
  <2> HIDE DEF until
  <2> QED BY <1>3, <2>1, <2>2 DEF RowTypeOK
<1>8. spent' \in [Actors -> Seq(Keys)]
  BY <1>3 DEF RowTypeOK, Rotate
<1> QED BY <1>5, <1>6, <1>7, <1>8 DEF RowTypeOK

LEMMA TypeIsRowAndRequests ==
    KeyTypeOK <=> RowTypeOK /\ requests \in [Presenters -> Request]
  BY DEF KeyTypeOK, RowTypeOK

\* What a step does to the rows: nothing, a rotation of one of the requests, or
\* one of the two ways time passes.
RowStep ==
    \/ UNCHANGED <<hour, rowVars>>
    \/ \E k \in Presenters : StillActive(requests[k]) /\ Rotate(requests[k])
    \/ \E a \in Actors :
        /\ rotations[a] > 0 /\ rotations' = [rotations EXCEPT ![a] = @ - 1]
        /\ UNCHANGED <<hour, active, previous, validUntil, issued, spent>>
    \/ hour' = hour + 1 /\ UNCHANGED rowVars

LEMMA StepOfRows ==
    ASSUME [KeyNext]_keyVars
    PROVE  RowStep
<1> USE DEF RowStep
<1>1. ASSUME NEW k \in Presenters, NEW r \in Arrivals, Arrive(k, r) PROVE RowStep
  BY <1>1 DEF Arrive
<1>2. ASSUME NEW k \in Presenters, AuthenticateAgent(k) \/ AuthenticateProvider(k)
                \/ RefuseRotation(k) PROVE RowStep
  BY <1>2 DEF AuthenticateAgent, AuthenticateProvider, RefuseRotation
<1>3. ASSUME NEW k \in Presenters, RotateKey(k) \/ FailRotation(k) PROVE RowStep
  BY <1>3 DEF RotateKey, FailRotation
<1>4. ASSUME NEW a \in Actors, AgeOut(a) PROVE RowStep
  BY <1>4 DEF AgeOut
<1>5. CASE PassHour
  BY <1>5 DEF PassHour
<1>6. CASE UNCHANGED keyVars
  BY <1>6 DEF keyVars
<1> QED BY <1>1, <1>2, <1>3, <1>4, <1>5, <1>6 DEF KeyNext, Handle

LEMMA RowTypeStep ==
    ASSUME KeyTypeOK, [KeyNext]_keyVars
    PROVE  RowTypeOK'
<1>1. RowTypeOK /\ requests \in [Presenters -> Request]
  BY TypeIsRowAndRequests
<1>2. CASE UNCHANGED <<hour, rowVars>>
  BY <1>1, <1>2 DEF RowTypeOK, rowVars
<1>3. ASSUME NEW k \in Presenters, Rotate(requests[k]) PROVE RowTypeOK'
  BY <1>1, <1>3, RotateTyped
<1>4. ASSUME NEW a \in Actors, rotations[a] > 0,
             rotations' = [rotations EXCEPT ![a] = @ - 1],
             UNCHANGED <<hour, active, previous, validUntil, issued, spent>>
      PROVE  RowTypeOK'
  BY <1>1, <1>4 DEF RowTypeOK
<1>5. CASE hour' = hour + 1 /\ UNCHANGED rowVars
  BY <1>1, <1>5 DEF RowTypeOK, rowVars
<1> QED BY <1>2, <1>3, <1>4, <1>5, StepOfRows DEF RowStep

\* What may become of request k before it is watched.
Successor(k, r) ==
    \/ r = requests[k]
    \/ r \in Request /\ r.at = "select" /\ r.key <= issued[r.actor]
    \/ \E there \in {"accepted", "rotate", "grace", "rejected"} :
        /\ r = [requests[k] EXCEPT !.at = there]
        /\ there = "grace" => requests[k].key # active[requests[k].actor]
        /\ there = "rejected" =>
            \/ ~Accepted(requests[k].actor, requests[k].key)
            \/ requests[k].at = "grace" /\ ~InGrace(requests[k].actor, requests[k].key)
    \/ \E there \in {"rotated", "refused", "failed"} :
        r = [Idle(requests[k].actor) EXCEPT !.at = there]

RequestsStep ==
    \E next \in [Presenters -> Request] :
        Watch(next) /\ \A k \in Presenters : Successor(k, next[k])

LEMMA EndStep ==
    ASSUME KeyTypeOK, NEW k \in Presenters, NEW there \in {"rotated", "refused", "failed"},
           End(k, there)
    PROVE  RequestsStep
<1> DEFINE next == [requests EXCEPT ![k] = [Idle(@.actor) EXCEPT !.at = there]]
<1>1. next \in [Presenters -> Request]
  BY ToTyped DEF Stages
<1>2. \A j \in Presenters : Successor(j, next[j])
  BY DEF Successor, KeyTypeOK
<1>3. Watch(next)
  BY DEF End
<1> HIDE DEF next
<1> QED BY <1>1, <1>2, <1>3 DEF RequestsStep

LEMMA ToStep ==
    ASSUME KeyTypeOK, NEW k \in Presenters,
           NEW there \in {"accepted", "rotate", "grace", "rejected"}, To(k, there),
           Successor(k, [requests[k] EXCEPT !.at = there])
    PROVE  RequestsStep
<1> DEFINE next == [requests EXCEPT ![k].at = there]
<1>1. next \in [Presenters -> Request]
  BY ToTyped DEF Stages
<1>2. next[k] = [requests[k] EXCEPT !.at = there]
  BY DEF KeyTypeOK
<1>3. \A j \in Presenters \ {k} : next[j] = requests[j]
  BY DEF KeyTypeOK
<1>4. Watch(next)
  BY DEF To
<1> HIDE DEF next
<1>5. \A j \in Presenters : Successor(j, next[j])
  BY <1>2, <1>3 DEF Successor
<1> QED BY <1>1, <1>4, <1>5 DEF RequestsStep

LEMMA StepOfRequests ==
    ASSUME KeyTypeOK, [KeyNext]_keyVars
    PROVE  RequestsStep \/ UNCHANGED <<requests, hour, active, previous, validUntil, issued>>
<1>1. ASSUME NEW k \in Presenters, NEW r \in Arrivals, Arrive(k, r) PROVE RequestsStep
  <2> DEFINE next == [requests EXCEPT ![k] = r]
  <2>1. r \in Request /\ r.at = "select" /\ r.key <= issued[r.actor]
    BY <1>1, KeyAssumption DEF Arrive, Arrivals, Request, Stages
  <2>2. next \in [Presenters -> Request]
    BY <2>1 DEF KeyTypeOK
  <2>3. \A j \in Presenters : Successor(j, next[j])
    BY <2>1 DEF Successor, KeyTypeOK
  <2>4. Watch(next)
    BY <1>1 DEF Arrive
  <2> HIDE DEF next
  <2> QED BY <2>2, <2>3, <2>4 DEF RequestsStep
<1>2. ASSUME NEW k \in Presenters, AuthenticateAgent(k) PROVE RequestsStep
  <2> DEFINE there == IF Accepted(requests[k].actor, requests[k].key)
                      THEN Authenticated(k) ELSE "rejected"
  <2>1. there \in {"accepted", "rotate", "grace", "rejected"}
    BY DEF Authenticated
  <2>2. To(k, there)
    BY <1>2 DEF AuthenticateAgent
  <2>3. there # "grace"
    BY DEF Authenticated
  <2>4. there = "rejected" => ~Accepted(requests[k].actor, requests[k].key)
    BY DEF Authenticated
  <2> HIDE DEF there
  <2>5. Successor(k, [requests[k] EXCEPT !.at = there])
    BY <2>1, <2>3, <2>4 DEF Successor
  <2> QED BY <2>1, <2>2, <2>5, ToStep
<1>3. ASSUME NEW k \in Presenters, AuthenticateProvider(k) PROVE RequestsStep
  <2> DEFINE there == IF Match(requests[k]) THEN Authenticated(k)
                      ELSE IF requests[k].at = "select" THEN "grace" ELSE "rejected"
  <2>1. there \in {"accepted", "rotate", "grace", "rejected"}
    BY DEF Authenticated
  <2>2. To(k, there)
    BY <1>3 DEF AuthenticateProvider
  <2>3. there = "grace" => requests[k].key # active[requests[k].actor]
    BY DEF Authenticated, Match
  <2>4. there = "rejected" =>
          requests[k].at = "grace" /\ ~InGrace(requests[k].actor, requests[k].key)
    BY <1>3 DEF Authenticated, Match, AuthenticateProvider
  <2> HIDE DEF there
  <2>5. Successor(k, [requests[k] EXCEPT !.at = there])
    BY <2>1, <2>3, <2>4 DEF Successor
  <2> QED BY <2>1, <2>2, <2>5, ToStep
<1>4. ASSUME NEW k \in Presenters, RotateKey(k) \/ RefuseRotation(k) \/ FailRotation(k)
      PROVE  RequestsStep
  BY <1>4, EndStep DEF RotateKey, RefuseRotation, FailRotation
<1>5. ASSUME NEW a \in Actors, AgeOut(a)
      PROVE  UNCHANGED <<requests, hour, active, previous, validUntil, issued>>
  BY <1>5 DEF AgeOut
<1>6. ASSUME PassHour PROVE RequestsStep
  BY <1>6 DEF PassHour, RequestsStep, Successor, KeyTypeOK
<1>7. ASSUME UNCHANGED keyVars
      PROVE  UNCHANGED <<requests, hour, active, previous, validUntil, issued>>
  BY <1>7 DEF keyVars, rowVars
<1> QED BY <1>1, <1>2, <1>3, <1>4, <1>5, <1>6, <1>7 DEF KeyNext, Handle

LEMMA TypeStep ==
    ASSUME KeyTypeOK, [KeyNext]_keyVars
    PROVE  KeyTypeOK'
<1>1. RowTypeOK'
  BY RowTypeStep
<1>2. requests' \in [Presenters -> Request]
  BY StepOfRequests, WatchTyped DEF RequestsStep, KeyTypeOK
<1> QED BY <1>1, <1>2 DEF KeyTypeOK, RowTypeOK

LEMMA TypeStart == KeyInit => KeyTypeOK
  BY IdleTyped, KeyAssumption DEF KeyInit, KeyTypeOK, Keys

\* Rotations and requests keep every variable in its type, however many hours a
\* caller asks for: the grace period is clamped to a natural number.
THEOREM KeyTypeSafety == KeySpec => []KeyTypeOK
<1>1. KeyInit => KeyTypeOK
  BY TypeStart
<1>2. KeyTypeOK /\ [KeyNext]_keyVars => KeyTypeOK'
  BY TypeStep
<1> QED BY <1>1, <1>2, PTL DEF KeySpec

(***************************************************************************)
(* One winner                                                              *)
(***************************************************************************)
\* The active key is the newest, and an agent's keys were spent before it.
SpentInv ==
    /\ KeyTypeOK
    /\ active = issued
    /\ \A a \in Agents : \A i \in DOMAIN spent[a] : spent[a][i] < active[a]
    /\ OneWinner

LEMMA SpentRotate ==
    ASSUME SpentInv, NEW r \in Request, StillActive(r), Rotate(r), KeyTypeOK'
    PROVE  SpentInv'
<1> USE DEF SpentInv
<1>1. r.actor \in Actors /\ r.key \in Keys
  BY DEF Request
<1>2. active' = issued'
  BY <1>1 DEF KeyTypeOK, Rotate
<1>3. ASSUME NEW a \in Agents, a # r.actor
      PROVE  spent'[a] = spent[a] /\ active'[a] = active[a]
  BY <1>1, <1>3 DEF KeyTypeOK, Rotate, Actors
<1>4. CASE r.actor \in Agents
  <2> DEFINE old == spent[r.actor]
  <2>1. old \in Seq(Keys)
    BY <1>1 DEF KeyTypeOK
  <2>2. spent'[r.actor] = Append(old, r.key)
    BY <1>1 DEF KeyTypeOK, Rotate
  <2>3. r.key = active[r.actor] /\ active'[r.actor] = active[r.actor] + 1
    BY <1>1, <1>4 DEF StillActive, KeyTypeOK, Rotate
  <2>4. active[r.actor] \in Nat
    BY <1>1 DEF KeyTypeOK, Keys
  <2>5. \A i \in DOMAIN old : old[i] < active[r.actor] /\ old[i] \in Nat
    BY <1>4, <2>1, KeyAssumption DEF Keys
  <2>6. \A i, j \in DOMAIN old : old[i] = old[j] => i = j
    BY <1>4 DEF OneWinner
  <2> HIDE DEF old
  <2>7. \A i \in DOMAIN Append(old, r.key) : i \in DOMAIN old \/ i = Len(old) + 1
    BY <1>1, <2>1
  <2>8. \A i \in DOMAIN old : Append(old, r.key)[i] = old[i]
    BY <1>1, <2>1
  <2>9. Append(old, r.key)[Len(old) + 1] = r.key
    BY <1>1, <2>1
  <2>10. \A i \in DOMAIN Append(old, r.key) : Append(old, r.key)[i] < active'[r.actor]
    BY <2>3, <2>4, <2>5, <2>7, <2>8, <2>9
  <2>11. \A i, j \in DOMAIN Append(old, r.key) :
            Append(old, r.key)[i] = Append(old, r.key)[j] => i = j
    BY <2>3, <2>4, <2>5, <2>6, <2>7, <2>8, <2>9
  <2> QED BY <1>2, <1>3, <2>2, <2>10, <2>11 DEF OneWinner
<1>5. CASE r.actor \notin Agents
  BY <1>2, <1>3, <1>5 DEF OneWinner
<1> QED BY <1>4, <1>5

LEMMA SpentStep ==
    ASSUME SpentInv, [KeyNext]_keyVars
    PROVE  SpentInv'
<1>1. KeyTypeOK'
  BY TypeStep DEF SpentInv
<1>2. ASSUME NEW k \in Presenters, StillActive(requests[k]), Rotate(requests[k])
      PROVE  SpentInv'
  BY <1>1, <1>2, SpentRotate DEF SpentInv, KeyTypeOK
<1>3. CASE UNCHANGED <<active, issued, spent>>
  BY <1>1, <1>3 DEF SpentInv, OneWinner
<1> QED BY <1>2, <1>3, StepOfRows DEF RowStep, rowVars

\* Of two callers that hold one key of an agent, one gets a new key and the other
\* is refused, in any number of overlapping rotations (keys.rs:148).
THEOREM OneWinnerSafety == KeySpec => []OneWinner
<1>1. KeyInit => SpentInv
  BY TypeStart, KeyAssumption DEF KeyInit, SpentInv, OneWinner, Actors
<1>2. SpentInv /\ [KeyNext]_keyVars => SpentInv'
  BY SpentStep
<1>3. SpentInv => OneWinner
  BY DEF SpentInv
<1> QED BY <1>1, <1>2, <1>3, PTL DEF KeySpec

(***************************************************************************)
(* Nobody is locked out                                                    *)
(***************************************************************************)
\* A request that holds a good key: the active key, or the one before it in time.
\* Once the first look-up missed, it can only be the one before: a key never
\* becomes active again, since every key in use was issued already.
HeldInv ==
    /\ KeyTypeOK
    /\ active = issued
    /\ \A k \in Presenters :
        /\ requests[k].key <= issued[requests[k].actor]
        /\ requests[k].held => Accepted(requests[k].actor, requests[k].key)
        /\ requests[k].at = "grace" => requests[k].key # active[requests[k].actor]
    /\ NeverLockedOut

\* Keys are issued in order, and a key becomes active when it is issued.
LEMMA KeysGrow ==
    ASSUME HeldInv, [KeyNext]_keyVars, NEW a \in Actors
    PROVE  /\ issued[a] \in Nat /\ issued'[a] \in Nat
           /\ issued[a] <= issued'[a]
           /\ active' = issued'
           /\ active'[a] # active[a] => active'[a] > issued[a]
<1> USE DEF HeldInv, KeyTypeOK, Keys
<1>1. ASSUME NEW k \in Presenters, Rotate(requests[k])
      PROVE  /\ issued'[a] \in {issued[a], issued[a] + 1}
             /\ active' = issued'
  BY <1>1 DEF Rotate, Request
<1>2. /\ issued'[a] \in {issued[a], issued[a] + 1}
      /\ active' = issued'
  BY <1>1, StepOfRows DEF RowStep, rowVars
<1>3. issued[a] \in Nat /\ active[a] = issued[a]
  BY KeyAssumption
<1> QED BY <1>2, <1>3

LEMMA HeldRequest ==
    ASSUME HeldInv, [KeyNext]_keyVars, NEW next \in [Presenters -> Request], Watch(next),
           NEW k \in Presenters, Successor(k, next[k])
    PROVE  /\ requests'[k].key <= issued'[requests'[k].actor]
           /\ requests'[k].held => Accepted(requests[k].actor, requests[k].key)'
           /\ requests'[k].at = "grace" => requests'[k].key # active'[requests'[k].actor]
           /\ requests'[k].at = "rejected" => ~requests'[k].held
<1> DEFINE r == next[k]
           q == requests[k]
<1>1. r \in Request /\ q \in Request
  BY DEF HeldInv, KeyTypeOK
<1>2. /\ requests'[k].at = r.at /\ requests'[k].actor = r.actor
      /\ requests'[k].key = r.key
      /\ requests'[k].held = (r.held /\ StillGood(r.actor, r.key))
  BY WatchTyped
<1>4. q.key <= issued[q.actor] /\ (q.held => Accepted(q.actor, q.key))
      /\ (q.at = "grace" => q.key # active[q.actor]) /\ (q.at = "rejected" => ~q.held)
  BY DEF HeldInv, NeverLockedOut
<1>5. /\ r.key <= issued[r.actor]
      /\ r.at = "grace" => r.key # active[r.actor]
      /\ r.at = "rejected" => ~r.held
  <2> HIDE DEF r, q
  <2>1. CASE r = q
    BY <1>4, <2>1
  <2>2. CASE r.at = "select" /\ r.key <= issued[r.actor]
    BY <2>2
  <2>3. ASSUME NEW there \in {"accepted", "rotate", "grace", "rejected"},
               r = [q EXCEPT !.at = there],
               there = "grace" => q.key # active[q.actor],
               there = "rejected" => \/ ~Accepted(q.actor, q.key)
                                     \/ q.at = "grace" /\ ~InGrace(q.actor, q.key)
        PROVE  /\ r.key <= issued[r.actor]
               /\ r.at = "grace" => r.key # active[r.actor]
               /\ r.at = "rejected" => ~r.held
    BY <1>1, <1>4, <2>3 DEF Accepted, Request
  <2>4. ASSUME NEW there \in {"rotated", "refused", "failed"},
               r = [Idle(q.actor) EXCEPT !.at = there]
        PROVE  /\ r.key <= issued[r.actor]
               /\ r.at \notin {"grace", "rejected"}
    <3>1. r.key = 1 /\ r.actor = q.actor /\ r.at = there
      BY <2>4 DEF Idle
    <3>2. q.actor \in Actors
      BY <1>1 DEF Request
    <3>3. issued[q.actor] \in Keys
      BY <3>2 DEF HeldInv, KeyTypeOK
    <3>4. issued[q.actor] >= 1
      BY <3>3, KeyAssumption DEF Keys
    <3> QED BY <3>1, <3>4
  <2> QED BY <2>1, <2>2, <2>3, <2>4 DEF Successor, r, q
<1>6. r.actor \in Actors /\ r.key \in Nat
  BY <1>1 DEF Request, Keys
<1> HIDE DEF r, q
<1>7. r.key <= issued'[r.actor]
  BY <1>5, <1>6, KeysGrow
<1>8. r.at = "grace" => r.key # active'[r.actor]
  BY <1>5, <1>6, KeysGrow
<1>9. requests'[k].held => Accepted(requests[k].actor, requests[k].key)'
  <2>1. requests'[k].held => StillGood(r.actor, r.key)
    BY <1>2
  <2>2. Accepted(requests[k].actor, requests[k].key)' <=> StillGood(r.actor, r.key)
    BY <1>2 DEF StillGood, Accepted, InGrace
  <2> QED BY <2>1, <2>2
<1> QED BY <1>2, <1>5, <1>7, <1>8, <1>9

LEMMA HeldStep ==
    ASSUME HeldInv, [KeyNext]_keyVars
    PROVE  HeldInv'
<1>1. KeyTypeOK'
  BY TypeStep DEF HeldInv
<1>2. active' = issued'
  <2>1. CASE Actors = {}
    BY <1>1, <2>1 DEF KeyTypeOK
  <2> QED BY <2>1, KeysGrow
<1>3. CASE RequestsStep
  BY <1>1, <1>2, <1>3, HeldRequest DEF HeldInv, NeverLockedOut, RequestsStep
<1>4. CASE UNCHANGED <<requests, hour, active, previous, validUntil, issued>>
  BY <1>1, <1>4 DEF HeldInv, NeverLockedOut, Accepted, InGrace
<1> QED BY <1>3, <1>4, StepOfRequests DEF HeldInv

\* "Subsequent requests with the previous key continue to work" (keys.rs:16): a
\* key that is good from a request's arrival on is not refused, whatever rotations
\* take place between the look-ups.
THEOREM NeverLockedOutSafety == KeySpec => []NeverLockedOut
<1>1. ASSUME KeyInit PROVE HeldInv
  <2>1. PICK a \in Actors : requests = [k \in Presenters |-> Idle(a)]
    BY <1>1 DEF KeyInit
  <2>2. \A k \in Presenters : /\ requests[k].at = "idle" /\ requests[k].key = 1
                               /\ requests[k].actor = a /\ ~requests[k].held
    BY <2>1 DEF Idle
  <2>3. issued[a] = 1 /\ active = issued
    BY <1>1 DEF KeyInit
  <2> QED BY <1>1, <2>2, <2>3, TypeStart DEF HeldInv, NeverLockedOut
<1>2. HeldInv /\ [KeyNext]_keyVars => HeldInv'
  BY HeldStep
<1>3. HeldInv => NeverLockedOut
  BY DEF HeldInv
<1> QED BY <1>1, <1>2, <1>3, PTL DEF KeySpec


(***************************************************************************)
(* The providers' rows                                                     *)
(***************************************************************************)
ProviderRow == [status : Statuses, key : Registrants \union {"nobody"}, dns : BOOLEAN,
                stripe : {"none", "invited", "verified"}, payout : BOOLEAN]

\* A row that is marked was marked with good reason, and remembered when it was
\* verified in both ways.
RowsInv ==
    /\ proven \subseteq published
    /\ \A n \in Namespaces :
        /\ rows[n].dns => n \in published
        /\ FullyVerified(rows[n]) => n \in proven

\* Nothing that was published or proven is forgotten, and no deleted row comes back.
Remembered ==
    /\ published \subseteq published' /\ proven \subseteq proven'
    /\ \A n \in Namespaces : rows[n].status = "deleted" => rows'[n].status = "deleted"

LEMMA StoreKeeps ==
    ASSUME RegistrationTypeOK, RowsInv, NEW n \in Namespaces, NEW row \in ProviderRow,
           row.dns => n \in published,
           rows[n].status = "deleted" => row.status = "deleted",
           Store(n, row), published' = published
    PROVE  /\ rows' \in [Namespaces -> ProviderRow] /\ proven' \subseteq Namespaces
           /\ RowsInv' /\ Remembered
<1>1. rows \in [Namespaces -> ProviderRow] /\ proven \subseteq Namespaces
  BY DEF RegistrationTypeOK, ProviderRow
<1>2. rows' = [rows EXCEPT ![n] = row]
  BY DEF Store
<1>3. /\ rows' \in [Namespaces -> ProviderRow]
      /\ \A m \in Namespaces : rows'[m] = IF m = n THEN row ELSE rows[m]
  BY <1>1, <1>2
<1>4. proven' = IF FullyVerified(row) THEN proven \union {n} ELSE proven
  BY DEF Store, FullyVerified
<1>5. FullyVerified(row) => n \in published
  BY DEF FullyVerified
<1>6. proven' \subseteq published' /\ proven \subseteq proven' /\ proven' \subseteq Namespaces
  BY <1>1, <1>4, <1>5 DEF RowsInv
<1>7. ASSUME NEW m \in Namespaces
      PROVE  /\ rows'[m].dns => m \in published'
             /\ FullyVerified(rows'[m]) => m \in proven'
             /\ rows[m].status = "deleted" => rows'[m].status = "deleted"
  <2>1. CASE m = n
    BY <1>3, <1>4, <2>1
  <2>2. CASE m # n
    BY <1>3, <1>6, <2>2 DEF RowsInv
  <2> QED BY <2>1, <2>2
<1>8. RowsInv'
  BY <1>6, <1>7 DEF RowsInv, FullyVerified
<1> QED BY <1>3, <1>6, <1>7, <1>8 DEF Remembered

(***************************************************************************)
(* The resolvers                                                           *)
(***************************************************************************)
\* What an honest resolver said of the token was in the DNS, and so was what two
\* resolvers agreed on.
AnswersInv ==
    \A v \in Verifiers :
        /\ \A r \in Resolvers \ Liars :
            "token" \in verifications[v].answers[r] => verifications[v].namespace \in published
        /\ verifications[v].at = "mark" => verifications[v].namespace \in published

\* Of two resolvers that give the token one is honest.
LEMMA TwoResolvers ==
    ASSUME NEW answers, "token" \in Consensus(answers)
    PROVE  \E r \in Resolvers \ Liars : "token" \in answers[r]
<1> DEFINE Tellers == {r \in Successful(answers) : "token" \in answers[r]}
<1>1. Cardinality(Tellers) >= 2 /\ Tellers \subseteq Resolvers
  BY DEF Consensus, Successful
<1>2. ASSUME Tellers \subseteq Liars PROVE FALSE
  <2>1. IsFiniteSet(Liars)
    BY RegistrationAssumption, FS_Subset
  <2>2. Cardinality(Tellers) <= Cardinality(Liars)
    BY <1>2, <2>1, FS_Subset
  <2>3. IsFiniteSet(Tellers)
    BY <1>2, <2>1, FS_Subset
  <2>4. Cardinality(Tellers) \in Nat /\ Cardinality(Liars) \in Nat
    BY <2>1, <2>3, FS_CardinalityType
  <2> HIDE DEF Tellers
  <2> QED BY <1>1, <2>2, <2>4, RegistrationAssumption
<1> QED BY <1>1, <1>2

Registering ==
    [at : {"idle", "insert", "payout", "created", "taken", "refused", "failed"},
     namespace : Namespaces, payout : BOOLEAN]
Verifying ==
    [at : {"idle", "lookup", "mark", "verified", "unverified", "failed"},
     namespace : Namespaces, answers : [Resolvers -> Answers]]

RegistrationInv == RegistrationTypeOK /\ RowsInv /\ AnswersInv

\* A step that leaves the verifications alone.
LEMMA QuietStep ==
    ASSUME RegistrationInv, registrations' \in [Registrants -> Registering],
           rows' \in [Namespaces -> ProviderRow], proven' \subseteq Namespaces,
           published' \subseteq Namespaces, RowsInv', Remembered, UNCHANGED verifications
    PROVE  RegistrationInv'
<1>1. RegistrationTypeOK'
  BY DEF RegistrationInv, RegistrationTypeOK, Registering, ProviderRow
<1>2. AnswersInv'
  BY DEF RegistrationInv, AnswersInv, Remembered
<1> QED BY <1>1, <1>2 DEF RegistrationInv

\* A step that leaves the rows alone.
LEMMA RowlessStep ==
    ASSUME RegistrationInv, UNCHANGED <<rows, published, proven>>,
           registrations' \in [Registrants -> Registering],
           verifications' \in [Verifiers -> Verifying], AnswersInv'
    PROVE  RegistrationInv' /\ Remembered
<1>1. RegistrationTypeOK'
  BY DEF RegistrationInv, RegistrationTypeOK, Registering, Verifying
<1>2. RowsInv' /\ Remembered
  BY DEF RegistrationInv, RowsInv, Remembered, FullyVerified
<1> QED BY <1>1, <1>2 DEF RegistrationInv

LEMMA RegistrationSteps ==
    ASSUME RegistrationInv, NEW g \in Registrants,
           \/ \E n \in Namespaces, payout \in BOOLEAN : BeginRegistration(g, n, payout)
           \/ RefuseRegistration(g) \/ InsertProvider(g) \/ PersistPayout(g)
    PROVE  RegistrationInv' /\ Remembered
<1> DEFINE n == registrations[g].namespace
<1>1. /\ registrations \in [Registrants -> Registering] /\ n \in Namespaces
      /\ rows \in [Namespaces -> ProviderRow] /\ rows[n] \in ProviderRow
  BY DEF RegistrationInv, RegistrationTypeOK, Registering, ProviderRow
<1>2. registrations' \in [Registrants -> Registering]
  BY <1>1 DEF BeginRegistration, RefuseRegistration, InsertProvider, PersistPayout, Registered,
              Registering
<1>3. UNCHANGED <<verifications, published>>
  BY DEF BeginRegistration, RefuseRegistration, InsertProvider, PersistPayout, Registered
<1>4. CASE UNCHANGED <<rows, proven>>
  BY <1>2, <1>3, <1>4, RowlessStep DEF RegistrationInv, RegistrationTypeOK, AnswersInv, Verifying
<1>5. ASSUME NEW row \in ProviderRow, Store(n, row), row.dns => rows[n].dns,
             rows[n].status = "deleted" => row.status = "deleted"
      PROVE  RegistrationInv' /\ Remembered
  <2>1. row.dns => n \in published
    BY <1>1, <1>5 DEF RegistrationInv, RowsInv
  <2>2. /\ rows' \in [Namespaces -> ProviderRow] /\ proven' \subseteq Namespaces
        /\ RowsInv' /\ Remembered
    BY <1>1, <1>3, <1>5, <2>1, StoreKeeps DEF RegistrationInv
  <2> QED BY <1>2, <1>3, <2>2, QuietStep DEF RegistrationInv, RegistrationTypeOK
<1>6. CASE InsertProvider(g)
  <2> DEFINE new == [Unregistered EXCEPT !.status = "pending", !.key = g]
  <2> DEFINE half == [Unregistered EXCEPT !.status = "pending"]
  <2>1. Unregistered \in ProviderRow /\ ~Unregistered.dns
    BY DEF Unregistered, ProviderRow, Statuses
  <2>2. new \in ProviderRow /\ ~new.dns
    <3>1. half \in ProviderRow /\ ~half.dns
      BY <2>1 DEF ProviderRow, Statuses
    <3>2. new = [half EXCEPT !.key = g]
      BY <2>1 DEF ProviderRow
    <3> HIDE DEF half
    <3> QED BY <3>1, <3>2 DEF ProviderRow
  <2>3. UNCHANGED <<rows, proven>> \/ (rows[n].status = "none" /\ Store(n, new))
    BY <1>6 DEF InsertProvider
  <2> HIDE DEF new
  <2> QED BY <1>4, <1>5, <2>2, <2>3
<1>7. CASE PersistPayout(g)
  <2> DEFINE new == [rows[n] EXCEPT !.payout = TRUE]
  <2>1. new \in ProviderRow /\ new.dns = rows[n].dns /\ new.status = rows[n].status
    BY <1>1 DEF ProviderRow
  <2>2. UNCHANGED <<rows, proven>> \/ Store(n, new)
    BY <1>7 DEF PersistPayout
  <2> HIDE DEF new
  <2> QED BY <1>4, <1>5, <2>1, <2>2
<1>8. CASE RefuseRegistration(g) \/ \E m \in Namespaces, payout \in BOOLEAN : BeginRegistration(g, m, payout)
  BY <1>4, <1>8 DEF RefuseRegistration, BeginRegistration
<1> QED BY <1>6, <1>7, <1>8

LEMMA VerificationSteps ==
    ASSUME RegistrationInv, NEW v \in Verifiers,
           \/ \E n \in Namespaces : BeginVerification(v, n)
           \/ \E r \in Resolvers : Resolve(v, r)
           \/ ConcludeLookup(v) \/ MarkDnsVerified(v)
    PROVE  RegistrationInv' /\ Remembered
<1> DEFINE n == verifications[v].namespace
<1> USE DEF Verifying
<1>1. /\ verifications \in [Verifiers -> Verifying] /\ n \in Namespaces
      /\ registrations \in [Registrants -> Registering]
      /\ rows \in [Namespaces -> ProviderRow] /\ rows[n] \in ProviderRow
  BY DEF RegistrationInv, RegistrationTypeOK, Registering, ProviderRow
<1>2. Unasked \in [Resolvers -> Answers] /\ \A r \in Resolvers : "token" \notin Unasked[r]
  BY DEF Unasked, Answers, Waiting
<1>3. ASSUME NEW m \in Namespaces, BeginVerification(v, m) PROVE RegistrationInv' /\ Remembered
  <2> DEFINE new == [at |-> "lookup", namespace |-> m, answers |-> Unasked]
  <2>1. new \in Verifying /\ verifications' = [verifications EXCEPT ![v] = new]
    BY <1>2, <1>3 DEF BeginVerification
  <2>2. verifications' \in [Verifiers -> Verifying]
    BY <1>1, <2>1
  <2>3. AnswersInv'
    BY <1>1, <1>2, <1>3, <2>1 DEF BeginVerification, RegistrationInv, AnswersInv
  <2> QED BY <1>1, <1>3, <2>2, <2>3, RowlessStep DEF BeginVerification
<1>4. ASSUME NEW r \in Resolvers, Resolve(v, r) PROVE RegistrationInv' /\ Remembered
  <2>1. PICK a \in MaySay(r, n) : verifications' = [verifications EXCEPT ![v].answers[r] = a]
    BY <1>4 DEF Resolve
  <2>2. a \in Answers /\ ("token" \in a /\ r \notin Liars => n \in published)
    BY DEF MaySay, Answers, Failed, Records
  <2> DEFINE new == [verifications[v] EXCEPT !.answers = [verifications[v].answers EXCEPT ![r] = a]]
  <2>3. verifications' = [verifications EXCEPT ![v] = new]
    BY <1>1, <2>1
  <2>4. /\ new \in Verifying /\ new.at = verifications[v].at /\ new.namespace = n
        /\ \A q \in Resolvers : new.answers[q] = IF q = r THEN a ELSE verifications[v].answers[q]
    BY <1>1, <2>2
  <2> HIDE DEF new
  <2>5. verifications' \in [Verifiers -> Verifying]
    BY <1>1, <2>3, <2>4
  <2>6. AnswersInv'
    BY <1>1, <1>4, <2>2, <2>3, <2>4 DEF Resolve, RegistrationInv, AnswersInv
  <2> QED BY <1>1, <1>4, <2>5, <2>6, RowlessStep DEF Resolve
<1>5. ASSUME NEW there \in {"mark", "verified", "unverified", "failed"}, Verified(v, there),
             there = "mark" => n \in published
      PROVE  verifications' \in [Verifiers -> Verifying] /\ AnswersInv'
  <2> DEFINE new == [at |-> there, namespace |-> n, answers |-> Unasked]
  <2>1. new \in Verifying
    BY <1>1, <1>2
  <2>2. verifications' = [verifications EXCEPT ![v] = new]
    <3>1. \A x \in Verifying : [x EXCEPT !.at = there, !.answers = Unasked]
                = [[x EXCEPT !.at = there] EXCEPT !.answers = Unasked]
      OBVIOUS
    <3> DEFINE half == [at |-> there, namespace |-> n, answers |-> verifications[v].answers]
    <3>2. /\ [verifications[v] EXCEPT !.at = there] = half
          /\ [half EXCEPT !.answers = Unasked] = new
      BY <1>1
    <3>3. verifications' = [verifications EXCEPT ![v] =
                               [verifications[v] EXCEPT !.at = there, !.answers = Unasked]]
      BY <1>1, <1>5 DEF Verified
    <3> QED BY <1>1, <3>1, <3>2, <3>3
  <2>3. verifications' \in [Verifiers -> Verifying]
    BY <1>1, <2>1, <2>2
  <2>4. AnswersInv'
    BY <1>1, <1>2, <1>5, <2>2 DEF Verified, RegistrationInv, AnswersInv
  <2> QED BY <2>3, <2>4
<1>6. CASE ConcludeLookup(v)
  <2>1. Finding(verifications[v].answers) = "mark" => n \in published
    <3> SUFFICES ASSUME Finding(verifications[v].answers) = "mark" PROVE n \in published
      OBVIOUS
    <3>1. "token" \in Consensus(verifications[v].answers)
      BY DEF Finding
    <3> QED BY <3>1, TwoResolvers DEF RegistrationInv, AnswersInv
  <2>2. Finding(verifications[v].answers) \in {"mark", "unverified", "failed"}
    BY DEF Finding
  <2>3. verifications' \in [Verifiers -> Verifying] /\ AnswersInv'
    BY <1>5, <1>6, <2>1, <2>2 DEF ConcludeLookup
  <2> QED BY <1>1, <1>6, <2>3, RowlessStep DEF ConcludeLookup, Verified
<1>7. CASE MarkDnsVerified(v)
  <2>1. n \in published
    BY <1>7 DEF MarkDnsVerified, RegistrationInv, AnswersInv
  <2>2. verifications' \in [Verifiers -> Verifying] /\ AnswersInv'
    BY <1>5, <1>7 DEF MarkDnsVerified
  <2>3. UNCHANGED <<registrations, published>>
    BY <1>7 DEF MarkDnsVerified, Verified
  <2>4. CASE UNCHANGED <<rows, proven>>
    BY <1>1, <2>2, <2>3, <2>4, RowlessStep
  <2>5. CASE Store(n, Marked(rows[n]))
    <3> DEFINE new == Marked(rows[n])
               status == IF rows[n].status = "pending" THEN "verified" ELSE rows[n].status
    <3>1. [rows[n] EXCEPT !.dns = TRUE] \in ProviderRow
      BY <1>1 DEF ProviderRow
    <3>2. new = [[rows[n] EXCEPT !.dns = TRUE] EXCEPT !.status = status]
      BY <1>1 DEF Marked, ProviderRow
    <3>3. status \in Statuses
      BY <1>1 DEF ProviderRow, Statuses
    <3>4. new \in ProviderRow /\ new.status = status
      BY <3>1, <3>2, <3>3 DEF ProviderRow
    <3> HIDE DEF new
    <3>5. /\ rows' \in [Namespaces -> ProviderRow] /\ proven' \subseteq Namespaces
          /\ RowsInv' /\ Remembered
      BY <1>1, <2>1, <2>3, <2>5, <3>4, StoreKeeps DEF RegistrationInv, new
    <3>6. RegistrationTypeOK'
      BY <1>1, <2>2, <2>3, <3>5 DEF RegistrationInv, RegistrationTypeOK, ProviderRow, Registering
    <3> QED BY <2>2, <3>5, <3>6 DEF RegistrationInv
  <2> QED BY <1>7, <2>4, <2>5 DEF MarkDnsVerified
<1> QED BY <1>3, <1>4, <1>6, <1>7

LEMMA ProviderSteps ==
    ASSUME RegistrationInv, NEW n \in Namespaces,
           ConnectStripe(n) \/ StripeAnswers(n) \/ ShowToken(n) \/ Administer(n)
    PROVE  RegistrationInv' /\ Remembered
<1>1. rows \in [Namespaces -> ProviderRow] /\ rows[n] \in ProviderRow
  BY DEF RegistrationInv, RegistrationTypeOK, ProviderRow
<1>2. UNCHANGED <<registrations, verifications>>
  BY DEF ConnectStripe, StripeAnswers, ShowToken, Administer
<1>3. ASSUME NEW row \in ProviderRow, Store(n, row), row.dns = rows[n].dns,
             rows[n].status = "deleted" => row.status = "deleted", UNCHANGED published
      PROVE  RegistrationInv' /\ Remembered
  <2>1. row.dns => n \in published
    BY <1>1, <1>3 DEF RegistrationInv, RowsInv
  <2>2. /\ rows' \in [Namespaces -> ProviderRow] /\ proven' \subseteq Namespaces
        /\ RowsInv' /\ Remembered
    BY <1>1, <1>3, <2>1, StoreKeeps DEF RegistrationInv
  <2> QED BY <1>2, <1>3, <2>2, QuietStep DEF RegistrationInv, RegistrationTypeOK, Registering
<1>4. ASSUME NEW s \in {"invited", "verified"}, UNCHANGED published,
             Store(n, [rows[n] EXCEPT !.stripe = s])
      PROVE  RegistrationInv' /\ Remembered
  <2> DEFINE new == [rows[n] EXCEPT !.stripe = s]
  <2>1. new \in ProviderRow /\ new.dns = rows[n].dns /\ new.status = rows[n].status
    BY <1>1 DEF ProviderRow
  <2> HIDE DEF new
  <2> QED BY <1>3, <1>4, <2>1 DEF new
<1>5. ASSUME NEW s \in {"active", "deleted"}, UNCHANGED published,
             rows[n].status = "deleted" => s = "deleted",
             Store(n, [rows[n] EXCEPT !.status = s])
      PROVE  RegistrationInv' /\ Remembered
  <2> DEFINE new == [rows[n] EXCEPT !.status = s]
  <2>1. new \in ProviderRow /\ new.dns = rows[n].dns /\ new.status = s
    BY <1>1 DEF ProviderRow, Statuses
  <2> HIDE DEF new
  <2> QED BY <1>3, <1>5, <2>1 DEF new
<1>6. CASE ConnectStripe(n) \/ StripeAnswers(n)
  BY <1>4, <1>6 DEF ConnectStripe, StripeAnswers
<1>7. CASE Administer(n)
  BY <1>5, <1>7 DEF Administer, Known
<1>8. CASE ShowToken(n)
  <2>1. published' = published \union {n} /\ UNCHANGED <<rows, proven>>
    BY <1>8 DEF ShowToken
  <2>2. RowsInv' /\ Remembered
    BY <2>1 DEF RegistrationInv, RowsInv, Remembered, FullyVerified
  <2> QED BY <1>1, <1>2, <2>1, <2>2, QuietStep DEF RegistrationInv, RegistrationTypeOK, Registering
<1> QED BY <1>6, <1>7, <1>8

LEMMA RegistrationStep ==
    RegistrationInv /\ [RegistrationNext]_providerVars => RegistrationInv' /\ Remembered
<1> SUFFICES ASSUME RegistrationInv, [RegistrationNext]_providerVars
             PROVE  RegistrationInv' /\ Remembered
  OBVIOUS
<1>1. CASE UNCHANGED providerVars
  <2>1. UNCHANGED <<rows, registrations, verifications, published, proven>>
    BY <1>1 DEF providerVars
  <2>2. RegistrationTypeOK'
    BY <2>1 DEF RegistrationInv, RegistrationTypeOK
  <2>3. RowsInv' /\ AnswersInv' /\ Remembered
    BY <2>1 DEF RegistrationInv, RowsInv, AnswersInv, Remembered, FullyVerified
  <2> QED BY <2>2, <2>3 DEF RegistrationInv
<1>2. CASE RegistrationNext
  BY <1>2, RegistrationSteps, VerificationSteps, ProviderSteps DEF RegistrationNext
<1> QED BY <1>1, <1>2

LEMMA RegistrationStart == RegistrationInit => RegistrationInv
<1> SUFFICES ASSUME RegistrationInit PROVE RegistrationInv
  OBVIOUS
<1>1. PICK n \in Namespaces :
        /\ registrations = [g \in Registrants |->
                               [at |-> "idle", namespace |-> n, payout |-> FALSE]]
        /\ verifications = [v \in Verifiers |->
                               [at |-> "idle", namespace |-> n, answers |-> Unasked]]
  BY DEF RegistrationInit
<1>2. Unasked \in [Resolvers -> Answers] /\ \A r \in Resolvers : "token" \notin Unasked[r]
  BY DEF Unasked, Answers, Waiting
<1>3. Unregistered \in ProviderRow /\ ~Unregistered.dns
  BY DEF Unregistered, ProviderRow, Statuses
<1>4. rows = [m \in Namespaces |-> Unregistered] /\ published = {} /\ proven = {}
  BY DEF RegistrationInit
<1>5. RegistrationTypeOK
  <2>1. rows \in [Namespaces -> ProviderRow]
    BY <1>3, <1>4
  <2>2. registrations \in [Registrants -> Registering]
    BY <1>1 DEF Registering
  <2>3. verifications \in [Verifiers -> Verifying]
    BY <1>1, <1>2 DEF Verifying
  <2> QED BY <1>4, <2>1, <2>2, <2>3 DEF RegistrationTypeOK, ProviderRow, Registering, Verifying
<1>6. RowsInv
  BY <1>3, <1>4 DEF RowsInv, FullyVerified
<1>7. AnswersInv
  BY <1>1, <1>2 DEF AnswersInv
<1> QED BY <1>5, <1>6, <1>7 DEF RegistrationInv

\* Whatever fails and in whatever order answers come, a provider is marked as
\* verified only if its token was in the DNS at some time (verify_dns): of two
\* resolvers that agree on the token, one at least is honest.
THEOREM VerifiedSafety == RegistrationSpec => []VerifiedWasPublished
<1>1. RegistrationInv => VerifiedWasPublished
  BY DEF RegistrationInv, RowsInv, VerifiedWasPublished
<1>2. RegistrationInv /\ [RegistrationNext]_providerVars => RegistrationInv'
  BY RegistrationStep
<1> QED BY <1>1, <1>2, RegistrationStart, PTL DEF RegistrationSpec

(***************************************************************************)
(* The catalogue                                                           *)
(***************************************************************************)
EditStages == {"idle", "insert", "status", "relay", "update", "done", "refused", "failed"}
Edit == [at : EditStages, verb : {"publish", "promote", "sunset"}, namespace : Namespaces,
         item : Items \union {Min(Items)}, ready : BOOLEAN]

Cap(status, i) ==
    [status |-> status, namespace |-> caps[i].namespace, version |-> caps[i].version,
     methods |-> caps[i].methods, calls |-> caps[i].calls, created |-> caps[i].created]

\* An item has its six fields, two of which the catalogue is ordered by.
CapsShape ==
    /\ caps = [i \in Items |-> caps[i]]
    /\ \A i \in Items : caps[i] = Cap(caps[i].status, i)
    /\ \A i \in Items : caps[i].calls \in 0..MaxCalls /\ caps[i].created \in Nat

\* A request that read its provider as verified was right at that moment, and one
\* that is past its checks is about an item of its own provider.
EditsInv ==
    /\ edits \in [Editors -> Edit]
    /\ \A e \in Editors :
        /\ edits[e].ready => edits[e].namespace \in proven
        /\ edits[e].at \in {"status", "relay", "update"} => edits[e].item \in Items
        /\ edits[e].at \in {"relay", "update"} =>
            /\ caps[edits[e].item].status # "none"
            /\ caps[edits[e].item].namespace = edits[e].namespace
            /\ edits[e].verb = "promote" => edits[e].ready

ActiveInv == \A i \in Items : caps[i].status = "active" => caps[i].namespace \in proven

CatalogueInv == RegistrationInv /\ CapsShape /\ EditsInv /\ ActiveInv

\* What no step does to an item: forget it, give it away, or revive it.
ItemsKept ==
    \A i \in Items :
        /\ caps[i].status # "none" =>
            caps'[i].status # "none" /\ caps'[i].namespace = caps[i].namespace
        /\ caps[i].status = "sunset" => caps'[i].status = "sunset"

\* The items' part of a step.
ItemsStep == CapsShape' /\ ItemsKept /\ ActiveInv'

\* A step that leaves the items alone.
LEMMA ItemsAlone ==
    ASSUME CatalogueInv, Remembered, UNCHANGED caps
    PROVE  ItemsStep
  BY DEF CatalogueInv, ItemsStep, ItemsKept, CapsShape, Cap, ActiveInv, Remembered

\* A step that gives an item of the catalogue another status.
LEMMA StatusStep ==
    ASSUME CatalogueInv, Remembered, NEW i, NEW status,
           caps' = [caps EXCEPT ![i].status = status],
           i \in Items => /\ caps[i].status # "none" => status # "none"
                          /\ caps[i].status = "sunset" => status = "sunset"
                          /\ status = "active" => caps[i].namespace \in proven
    PROVE  ItemsStep
<1>1. /\ caps = [j \in Items |-> caps[j]]
      /\ \A j \in Items : caps[j] = Cap(caps[j].status, j)
  BY DEF CatalogueInv, CapsShape
<1>2. \A j \in Items : [caps[j] EXCEPT !.status = status] = Cap(status, j)
  BY <1>1 DEF Cap
<1>3. /\ caps' = [j \in Items |-> caps'[j]]
      /\ \A j \in Items : caps'[j] = IF j = i THEN Cap(status, j) ELSE Cap(caps[j].status, j)
  BY <1>1, <1>2
<1>4. ASSUME NEW j \in Items
      PROVE  /\ caps'[j].status = IF j = i THEN status ELSE caps[j].status
             /\ caps'[j].namespace = caps[j].namespace /\ caps'[j].version = caps[j].version
             /\ caps'[j].methods = caps[j].methods /\ caps'[j].calls = caps[j].calls
             /\ caps'[j].created = caps[j].created
  BY <1>3 DEF Cap
<1>5. CapsShape'
  BY <1>3, <1>4 DEF CatalogueInv, CapsShape, Cap
<1>6. ItemsKept
  BY <1>4 DEF ItemsKept
<1>7. ActiveInv'
  BY <1>4 DEF CatalogueInv, ActiveInv, Remembered
<1> QED BY <1>5, <1>6, <1>7 DEF ItemsStep

LEMMA ServeStep ==
    ASSUME CatalogueInv, Remembered, NEW i \in Items, Serve(i)
    PROVE  ItemsStep
<1>1. /\ caps = [j \in Items |-> caps[j]]
      /\ \A j \in Items : caps[j] = Cap(caps[j].status, j)
  BY DEF CatalogueInv, CapsShape
<1> DEFINE more == caps[i].calls + 1
<1>2. caps' = [caps EXCEPT ![i].calls = more]
  BY <1>1 DEF Serve
<1>7. more \in 0..MaxCalls
  <2>1. caps[i].calls \in 0..MaxCalls /\ caps[i].calls < MaxCalls
    BY DEF Serve, CatalogueInv, CapsShape
  <2> QED BY <2>1, CatalogueAssumption
<1> HIDE DEF more
<1>3. /\ caps' = [j \in Items |-> caps'[j]]
      /\ \A j \in Items : caps'[j] = IF j = i THEN [caps[j] EXCEPT !.calls = more] ELSE caps[j]
  BY <1>1, <1>2
<1>4. ASSUME NEW j \in Items
      PROVE  /\ caps'[j] = Cap(caps[j].status, j)'
             /\ caps'[j].status = caps[j].status /\ caps'[j].namespace = caps[j].namespace
             /\ caps'[j].created = caps[j].created
             /\ caps'[j].calls = IF j = i THEN more ELSE caps[j].calls
  BY <1>1, <1>3 DEF Cap
<1>5. CapsShape'
  <2>1. \A j \in Items : caps[j].calls \in 0..MaxCalls /\ caps[j].created \in Nat
    BY DEF CatalogueInv, CapsShape
  <2>2. \A j \in Items : caps'[j].calls \in 0..MaxCalls /\ caps'[j].created \in Nat
    BY <1>4, <1>7, <2>1
  <2> QED BY <1>3, <1>4, <2>2 DEF CapsShape, Cap
<1>6. ItemsKept /\ ActiveInv'
  BY <1>4 DEF CatalogueInv, ItemsKept, ActiveInv, Remembered
<1> QED BY <1>5, <1>6 DEF ItemsStep

LEMMA InsertStep ==
    ASSUME CatalogueInv, Remembered, NEW i \in Items, NEW n, NEW v, NEW methods, NEW ready,
           Insert(i, n, v, methods, ready), caps[i].status = "none", ready => n \in proven
    PROVE  ItemsStep
<1>1. caps = [j \in Items |-> caps[j]] /\ \A j \in Items : caps[j] = Cap(caps[j].status, j)
  BY DEF CatalogueInv, CapsShape
<1> DEFINE status == IF ready THEN "active" ELSE "submitted"
<1>8. \A j \in Items : caps[j].calls \in 0..MaxCalls /\ caps[j].created \in Nat
  BY DEF CatalogueInv, CapsShape
<1>2. PICK t \in Nat : caps' = [caps EXCEPT ![i] =
                    [status |-> status, namespace |-> n, version |-> v,
                     methods |-> StoredMethods(methods), calls |-> 0, created |-> t]]
  <2>1. \A t \in UNION {{caps[j].created, caps[j].created + 1} : j \in Items} : t \in Nat
    BY <1>8
  <2> QED BY <2>1 DEF Insert
<1>3. caps' = [j \in Items |-> caps'[j]] /\ \A j \in Items : j # i => caps'[j] = caps[j]
  BY <1>1, <1>2
<1>4. caps'[i] = [status |-> status, namespace |-> n, version |-> v,
                  methods |-> StoredMethods(methods), calls |-> 0, created |-> t]
  BY <1>1, <1>2
<1>5. CapsShape'
  <2>1. ASSUME NEW j \in Items PROVE caps'[j] = Cap(caps[j].status, j)'
    BY <1>1, <1>3, <1>4 DEF Cap
  <2>2. \A j \in Items : caps'[j].calls \in 0..MaxCalls /\ caps'[j].created \in Nat
    BY <1>3, <1>4, <1>8, CatalogueAssumption
  <2> QED BY <1>3, <2>1, <2>2 DEF CapsShape
<1>6. ItemsKept
  BY <1>3 DEF ItemsKept
<1>7. ActiveInv'
  BY <1>3, <1>4 DEF CatalogueInv, ActiveInv, Remembered
<1> QED BY <1>5, <1>6, <1>7 DEF ItemsStep

\* A request that only the items and the providers go on around.
LEMMA OtherEdits ==
    ASSUME CatalogueInv, Remembered, ItemsKept, NEW next \in [Editors -> Edit], edits' = next,
           \A e \in Editors : next[e] # edits[e] =>
               /\ next[e].ready => next[e].namespace \in proven
               /\ next[e].at \in {"status", "relay", "update"} => next[e].item \in Items
               /\ next[e].at \in {"relay", "update"} =>
                   /\ caps[next[e].item].status # "none"
                   /\ caps[next[e].item].namespace = next[e].namespace
                   /\ next[e].verb = "promote" => next[e].ready
    PROVE  EditsInv'
<1>1. ASSUME NEW e \in Editors
      PROVE  /\ next[e].ready => next[e].namespace \in proven
             /\ next[e].at \in {"status", "relay", "update"} => next[e].item \in Items
             /\ next[e].at \in {"relay", "update"} =>
                 /\ caps[next[e].item].status # "none"
                 /\ caps[next[e].item].namespace = next[e].namespace
                 /\ next[e].verb = "promote" => next[e].ready
  BY DEF CatalogueInv, EditsInv
<1>2. ASSUME NEW e \in Editors, next[e].at \in {"relay", "update"}
      PROVE  /\ caps'[next[e].item].status # "none"
             /\ caps'[next[e].item].namespace = next[e].namespace
  BY <1>1, <1>2 DEF ItemsKept
<1> QED BY <1>1, <1>2 DEF EditsInv, Remembered

LEMMA EditedStep ==
    ASSUME CatalogueInv, Remembered, ItemsKept, NEW e \in Editors,
           NEW there \in {"relay", "update", "done", "refused", "failed"}, Edited(e, there),
           there \in {"relay", "update"} =>
               /\ edits[e].item \in Items /\ caps[edits[e].item].status # "none"
               /\ caps[edits[e].item].namespace = edits[e].namespace
               /\ edits[e].verb = "promote" => edits[e].ready
    PROVE  EditsInv'
<1> DEFINE new == IF there \in {"done", "refused", "failed"}
                  THEN NoEdit(edits[e].namespace, there) ELSE [edits[e] EXCEPT !.at = there]
           next == [edits EXCEPT ![e] = new]
<1>1. edits \in [Editors -> Edit] /\ edits[e] \in Edit
  BY DEF CatalogueInv, EditsInv
<1>2. edits' = next
  BY DEF Edited
<1>3. CASE there \in {"done", "refused", "failed"}
  <2>1. /\ new \in Edit /\ ~new.ready /\ new.at = there
    BY <1>1, <1>3 DEF NoEdit, Edit, EditStages
  <2> HIDE DEF new
  <2>2. next \in [Editors -> Edit] /\ \A d \in Editors : next[d] # edits[d] => next[d] = new
    BY <1>1, <2>1
  <2> HIDE DEF next
  <2> QED BY <1>2, <1>3, <2>1, <2>2, OtherEdits
<1>4. CASE there \in {"relay", "update"}
  <2>1. /\ new \in Edit /\ new.at = there /\ new.verb = edits[e].verb
        /\ new.item = edits[e].item /\ new.ready = edits[e].ready
        /\ new.namespace = edits[e].namespace
    BY <1>1, <1>4 DEF Edit, EditStages
  <2>2. edits[e].ready => edits[e].namespace \in proven
    BY DEF CatalogueInv, EditsInv
  <2> HIDE DEF new
  <2>3. next \in [Editors -> Edit] /\ \A d \in Editors : next[d] # edits[d] => next[d] = new
    BY <1>1, <2>1
  <2> HIDE DEF next
  <2>4. \A d \in Editors : next[d] # edits[d] =>
               /\ next[d].ready => next[d].namespace \in proven
               /\ next[d].item \in Items
               /\ caps[next[d].item].status # "none"
               /\ caps[next[d].item].namespace = next[d].namespace
               /\ next[d].verb = "promote" => next[d].ready
    BY <1>4, <2>1, <2>2, <2>3
  <2> QED BY <1>2, <2>3, <2>4, OtherEdits
<1> QED BY <1>3, <1>4

LEMMA BeginEditStep ==
    ASSUME CatalogueInv, Remembered, ItemsKept, NEW e \in Editors, NEW n \in Namespaces,
           NEW verb \in {"publish", "promote", "sunset"}, NEW i \in Items \union {Min(Items)},
           verb # "publish" => i \in Items, BeginEdit(e, verb, n, i)
    PROVE  EditsInv'
<1> DEFINE ready == FullyVerified(rows[n])
           at == IF verb = "publish" THEN "insert" ELSE "status"
           new == [at |-> at, verb |-> verb, namespace |-> n, item |-> i, ready |-> ready]
           next == [edits EXCEPT ![e] = new]
<1>1. edits \in [Editors -> Edit]
  BY DEF CatalogueInv, EditsInv
<1>2. edits' = next
  BY DEF BeginEdit
<1>3. ready \in BOOLEAN /\ (ready => n \in proven)
  <2>1. rows[n] \in ProviderRow
    BY DEF CatalogueInv, RegistrationInv, RegistrationTypeOK, ProviderRow
  <2> QED BY <2>1 DEF CatalogueInv, RegistrationInv, RowsInv, FullyVerified, ProviderRow
<1> HIDE DEF ready
<1>4. at \in {"insert", "status"} /\ at \in EditStages /\ (at = "status" => i \in Items)
  BY DEF EditStages
<1> HIDE DEF at
<1>5. /\ new \in Edit /\ new.at = at /\ new.namespace = n /\ new.item = i
      /\ new.ready = ready
  BY <1>3, <1>4 DEF Edit
<1> HIDE DEF new
<1>6. next \in [Editors -> Edit] /\ \A d \in Editors : next[d] # edits[d] => next[d] = new
  BY <1>1, <1>5
<1> HIDE DEF next
<1> QED BY <1>2, <1>3, <1>4, <1>5, <1>6, OtherEdits

\* The steps of a request leave the providers alone.
LEMMA EditorSteps ==
    ASSUME CatalogueInv, Remembered, NEW e \in Editors, EditorNext(e)
    PROVE  ItemsStep /\ EditsInv'
<1>1. ASSUME UNCHANGED caps PROVE ItemsStep /\ ItemsKept
  BY <1>1, ItemsAlone DEF ItemsStep
<1>2. ASSUME NEW n \in Namespaces, BeginEdit(e, "publish", n, Min(Items))
      PROVE  ItemsStep /\ EditsInv'
  BY <1>1, <1>2, BeginEditStep DEF BeginEdit, itemVars
<1>3. ASSUME NEW n \in Namespaces, NEW verb \in {"promote", "sunset"}, NEW i \in Items,
             BeginEdit(e, verb, n, i)
      PROVE  ItemsStep /\ EditsInv'
  BY <1>1, <1>3, BeginEditStep DEF BeginEdit, itemVars
<1>4. CASE RefuseManifest(e)
  BY <1>1, <1>4, EditedStep DEF RefuseManifest, itemVars
<1>5. ASSUME NEW i \in Items, NEW v \in Versions, NEW methods \in Manifests,
             PublishManifest(e, i, v, methods)
      PROVE  ItemsStep /\ EditsInv'
  <2> DEFINE n == edits[e].namespace
  <2>1. edits[e].ready => n \in proven
    BY DEF CatalogueInv, EditsInv
  <2>2. UNCHANGED caps \/ (Insert(i, n, v, methods, edits[e].ready) /\ caps[i].status = "none")
    BY <1>5 DEF PublishManifest, itemVars
  <2>3. ItemsStep
    BY <1>1, <2>1, <2>2, InsertStep
  <2>4. \E there \in {"done", "refused", "failed"} : Edited(e, there)
    BY <1>5 DEF PublishManifest
  <2> QED BY <2>3, <2>4, EditedStep DEF ItemsStep
<1>6. CASE ReadStatus(e)
  <2> DEFINE i == edits[e].item
  <2>1. UNCHANGED caps /\ i \in Items
    BY <1>6 DEF ReadStatus, itemVars, CatalogueInv, EditsInv
  <2>2. CASE Edited(e, "failed")
    BY <1>1, <2>1, <2>2, EditedStep
  <2>3. CASE Edited(e, Checked(e))
    <3>1. Checked(e) \in {"relay", "update", "done", "refused", "failed"}
      BY DEF Checked
    <3>2. Checked(e) \in {"relay", "update"} =>
            /\ caps[i].status # "none" /\ caps[i].namespace = edits[e].namespace
            /\ edits[e].verb = "promote" => edits[e].ready
      BY DEF Checked
    <3> QED BY <1>1, <2>1, <2>3, <3>1, <3>2, EditedStep
  <2> QED BY <1>6, <2>2, <2>3 DEF ReadStatus
<1>7. CASE RelayRegistration(e)
  <2>1. /\ edits[e].item \in Items /\ caps[edits[e].item].status # "none"
        /\ caps[edits[e].item].namespace = edits[e].namespace
        /\ edits[e].verb = "promote" => edits[e].ready
    BY <1>7 DEF RelayRegistration, CatalogueInv, EditsInv
  <2> QED BY <1>1, <1>7, <2>1, EditedStep DEF RelayRegistration
<1>8. CASE UpdateStatus(e)
  <2> DEFINE i == edits[e].item
             status == caps[i].status
             new == IF edits[e].verb = "promote"
                    THEN IF Promotable(status) THEN "active" ELSE status
                    ELSE IF Sunsettable(status) THEN "sunset" ELSE status
  <2>1. /\ i \in Items /\ status # "none"
        /\ edits[e].verb = "promote" => caps[i].namespace \in proven
    BY <1>8 DEF UpdateStatus, CatalogueInv, EditsInv
  <2>2. /\ new # "none" /\ (status = "sunset" => new = "sunset")
        /\ new = "active" => caps[i].namespace \in proven
    BY <2>1 DEF Promotable, Sunsettable, CatalogueInv, ActiveInv
  <2>3. UNCHANGED caps \/ caps' = [caps EXCEPT ![i].status = new]
    BY <1>8 DEF UpdateStatus
  <2> HIDE DEF new
  <2>4. ItemsStep
    BY <1>1, <2>2, <2>3, StatusStep
  <2>5. \E there \in {"done", "failed"} : Edited(e, there)
    BY <1>8 DEF UpdateStatus
  <2> QED BY <2>4, <2>5, EditedStep DEF ItemsStep
<1> QED BY <1>2, <1>3, <1>4, <1>5, <1>6, <1>7, <1>8 DEF EditorNext

LEMMA EditsAlone ==
    ASSUME CatalogueInv, Remembered, ItemsStep, UNCHANGED edits
    PROVE  EditsInv'
<1>1. edits \in [Editors -> Edit]
  BY DEF CatalogueInv, EditsInv
<1> QED BY <1>1, OtherEdits DEF ItemsStep

LEMMA CatalogueStep ==
    CatalogueInv /\ [CatalogueNext]_<<providerVars, catalogueVars>> =>
        CatalogueInv' /\ Remembered /\ ItemsKept
<1> SUFFICES ASSUME CatalogueInv, [CatalogueNext]_<<providerVars, catalogueVars>>
             PROVE  CatalogueInv' /\ Remembered /\ ItemsKept
  OBVIOUS
<1> USE DEF itemVars
<1>1. ASSUME [RegistrationNext]_providerVars PROVE RegistrationInv' /\ Remembered
  BY <1>1, RegistrationStep DEF CatalogueInv
<1>2. ASSUME [RegistrationNext]_providerVars, UNCHANGED <<caps, edits>>
      PROVE  CatalogueInv' /\ Remembered /\ ItemsKept
  <2>1. RegistrationInv' /\ Remembered
    BY <1>1, <1>2
  <2>2. ItemsStep
    BY <1>2, <2>1, ItemsAlone
  <2>3. EditsInv'
    BY <1>2, <2>1, <2>2, EditsAlone
  <2> QED BY <2>1, <2>2, <2>3 DEF CatalogueInv, ItemsStep
<1>3. ASSUME NEW e \in Editors, EditorNext(e)
      PROVE  CatalogueInv' /\ Remembered /\ ItemsKept
  <2>1. UNCHANGED providerVars
    BY <1>3 DEF EditorNext, BeginEdit, RefuseManifest, PublishManifest, ReadStatus,
                RelayRegistration, UpdateStatus, Edited
  <2>2. RegistrationInv' /\ Remembered
    BY <1>1, <2>1
  <2> QED BY <1>3, <2>2, EditorSteps DEF CatalogueInv, ItemsStep
<1>4. ASSUME NEW i \in Items, Serve(i) \/ Deprecate(i)
      PROVE  CatalogueInv' /\ Remembered /\ ItemsKept
  <2>1. UNCHANGED providerVars /\ UNCHANGED edits
    BY <1>4 DEF Serve, Deprecate
  <2>2. RegistrationInv' /\ Remembered
    BY <1>1, <2>1
  <2>3. ItemsStep
    BY <1>4, <2>2, ServeStep, StatusStep DEF Deprecate
  <2>4. EditsInv'
    BY <2>1, <2>2, <2>3, EditsAlone
  <2> QED BY <2>2, <2>3, <2>4 DEF CatalogueInv, ItemsStep
<1>5. CASE ProviderStep(RegistrationNext)
  BY <1>2, <1>5 DEF ProviderStep
<1>6. CASE BeginPaging \/ FetchPage
  BY <1>2, <1>6 DEF BeginPaging, FetchPage
<1>7. CASE UNCHANGED <<providerVars, catalogueVars>>
  BY <1>2, <1>7 DEF catalogueVars
<1> QED BY <1>3, <1>4, <1>5, <1>6, <1>7 DEF CatalogueNext

LEMMA CatalogueStart == CatalogueInit => CatalogueInv
<1> SUFFICES ASSUME CatalogueInit PROVE CatalogueInv
  OBVIOUS
<1>1. RegistrationInv
  BY RegistrationStart DEF CatalogueInit
<1>2. PICK n \in Namespaces, v \in Versions :
        /\ caps = [j \in Items |-> [status |-> "none", namespace |-> n, version |-> v,
                                    methods |-> {}, calls |-> 0, created |-> 0]]
        /\ edits = [e \in Editors |-> NoEdit(n, "idle")]
  BY DEF CatalogueInit
<1>3. CapsShape /\ ActiveInv
  <2>1. 0 \in 0..MaxCalls /\ 0 \in Nat
    BY CatalogueAssumption
  <2>2. \A j \in Items : caps[j].calls = 0 /\ caps[j].created = 0
    BY <1>2
  <2>3. caps = [i \in Items |-> caps[i]] /\ \A i \in Items : caps[i] = Cap(caps[i].status, i)
    BY <1>2 DEF Cap
  <2>4. ActiveInv
    BY <1>2 DEF ActiveInv
  <2> QED BY <2>1, <2>2, <2>3, <2>4 DEF CapsShape
<1>4. NoEdit(n, "idle") \in Edit /\ ~NoEdit(n, "idle").ready /\ NoEdit(n, "idle").at = "idle"
  BY DEF NoEdit, Edit, EditStages
<1>5. EditsInv
  BY <1>2, <1>4 DEF EditsInv
<1> QED BY <1>1, <1>3, <1>5 DEF CatalogueInv

LEMMA CatalogueInvariant == CatalogueSpec => []CatalogueInv
<1>1. CatalogueInv /\ [CatalogueNext]_<<providerVars, catalogueVars>> => CatalogueInv'
  BY CatalogueStep
<1> QED BY <1>1, CatalogueStart, PTL DEF CatalogueSpec

\* What is in the catalogue belongs to a provider that was verified by DNS and by
\* Stripe at one moment, and whose token was in the DNS, although publication and
\* promotion decide on a row they read earlier (publish_manifest, promote_capability).
THEOREM ActiveSafety == CatalogueSpec => []ActiveWasProven
<1>1. CatalogueInv => ActiveWasProven
  BY DEF CatalogueInv, RegistrationInv, RowsInv, ActiveInv, ActiveWasProven
<1> QED BY <1>1, CatalogueInvariant, PTL

\* The providers' promise holds in the catalogue's steps as well (verify_dns).
THEOREM CatalogueVerifiedSafety == CatalogueSpec => []VerifiedWasPublished
<1>1. CatalogueInv => VerifiedWasPublished
  BY DEF CatalogueInv, RegistrationInv, RowsInv, VerifiedWasPublished
<1> QED BY <1>1, CatalogueInvariant, PTL

\* A sunset version and a deleted provider stay so, whatever promotion, sunset or
\* verification had read the row before (the guarded UPDATEs of database.rs).
THEOREM EndsSafety == CatalogueSpec => EndsAreFinal
<1>1. CatalogueInv /\ [CatalogueNext]_<<providerVars, catalogueVars>> =>
        [/\ \A i \in Items : caps[i].status = "sunset" => caps'[i].status = "sunset"
         /\ \A n \in Namespaces : rows[n].status = "deleted" => rows'[n].status = "deleted"
        ]_<<providerVars, catalogueVars>>
  BY CatalogueStep DEF ItemsKept, Remembered
<1> QED BY <1>1, CatalogueInvariant, PTL DEF CatalogueSpec, EndsAreFinal

(***************************************************************************)
(* Catalogue: a client that follows the cursors                            *)
(*                                                                         *)
(* The keys are totally ordered, and the rows a page shows are above the   *)
(* ones it leaves.  So while a client pages, the steady items at or above  *)
(* its cursor are those it was shown, once each.                           *)
(***************************************************************************)
Keyed == [calls : Nat, created : Nat, id : Nat]

LEMMA LessIsAnOrder ==
    /\ \A k \in Keyed : ~Less(k, k)
    /\ \A k, l, m \in Keyed : Less(k, l) /\ Less(l, m) => Less(k, m)
    /\ \A k, l \in Keyed : k = l \/ Less(k, l) \/ Less(l, k)
<1>1. \A k \in Keyed : ~Less(k, k)
  BY DEF Keyed, Less
<1>2. \A k, l, m \in Keyed : Less(k, l) /\ Less(l, m) => Less(k, m)
  BY DEF Keyed, Less
<1>3. ASSUME NEW k \in Keyed, NEW l \in Keyed, ~Less(k, l), ~Less(l, k)
      PROVE  k = l
  <2>1. k.calls = l.calls /\ k.created = l.created /\ k.id = l.id
    BY <1>3 DEF Keyed, Less
  <2> QED BY <2>1 DEF Keyed
<1> QED BY <1>1, <1>2, <1>3

LEMMA KeysAreKeyed ==
    ASSUME CapsShape
    PROVE  /\ \A i \in Items : Key(i) \in Keyed
           /\ \A i, j \in Items : Key(i) = Key(j) => i = j
           /\ Start \in Keyed /\ \A i \in Items : Less(Key(i), Start)
<1>1. ASSUME NEW i \in Items
      PROVE  caps[i].calls \in Nat /\ caps[i].calls <= MaxCalls /\ caps[i].created \in Nat
             /\ i \in Nat
  BY CatalogueAssumption DEF CapsShape
<1>2. \A i \in Items : Key(i) \in Keyed /\ Key(i).calls = caps[i].calls /\ Key(i).id = i
  BY <1>1 DEF Key, Keyed
<1>3. Start \in Keyed /\ Start.calls = MaxCalls + 1
  BY CatalogueAssumption DEF Start, Keyed
<1>4. \A i \in Items : Less(Key(i), Start)
  <2> SUFFICES ASSUME NEW i \in Items PROVE Key(i).calls < Start.calls
    BY DEF Less
  <2> QED BY <1>1, <1>2, <1>3, CatalogueAssumption
<1>5. \A i, j \in Items : Key(i) = Key(j) => i = j
  <2> SUFFICES ASSUME NEW i \in Items, NEW j \in Items, Key(i) = Key(j) PROVE i = j
    OBVIOUS
  <2>1. Key(i).id = Key(j).id
    OBVIOUS
  <2> QED BY <1>2, <2>1
<1> QED BY <1>2, <1>3, <1>4, <1>5

\* An order on items has a first member of every set of them.
LEMMA First ==
    \A S \in SUBSET Items, R \in SUBSET (Items \X Items) :
        /\ S # {}
        /\ \A i \in S : <<i, i>> \notin R
        /\ \A i, j, k \in S : <<i, j>> \in R /\ <<j, k>> \in R => <<i, k>> \in R
        => \E m \in S : \A i \in S : <<i, m>> \notin R
<1> SUFFICES ASSUME NEW S \in SUBSET Items, NEW R \in SUBSET (Items \X Items), S # {},
                    \A i \in S : <<i, i>> \notin R,
                    \A i, j, k \in S : <<i, j>> \in R /\ <<j, k>> \in R => <<i, k>> \in R
             PROVE  \E m \in S : \A i \in S : <<i, m>> \notin R
  OBVIOUS
<1> DEFINE below(m) == {i \in S : <<i, m>> \in R}
           T == {below(m) : m \in S}
           Order == StrictSubsetOrdering(Items)
<1>1. IsWellFoundedOn(Order, FiniteSubsetsOf(Items))
  BY CatalogueAssumption, FS_StrictSubsetOrderingWellFounded
<1>2. T \subseteq FiniteSubsetsOf(Items) /\ T # {}
  <2>1. FiniteSubsetsOf(Items) = SUBSET Items
    BY CatalogueAssumption, FS_FiniteSubsetsOfFinite
  <2>2. T \subseteq SUBSET Items
    <3> SUFFICES ASSUME NEW m \in S PROVE below(m) \in SUBSET Items
      OBVIOUS
    <3> QED OBVIOUS
  <2>3. T # {}
    <3>1. PICK m \in S : TRUE
      OBVIOUS
    <3>2. below(m) \in T
      OBVIOUS
    <3> QED BY <3>2
  <2> HIDE DEF T
  <2> QED BY <2>1, <2>2, <2>3
<1>3. \E x \in T : \A y \in T : ~ (<<y, x>> \in Order)
  <2> HIDE DEF T, Order
  <2> QED BY <1>1, <1>2, WFMin
<1>6. PICK x \in T : \A y \in T : ~ (<<y, x>> \in Order)
  BY <1>3
<1>7. PICK m \in S : x = below(m)
  BY <1>6
<1>4. \A i \in S : <<below(i), below(m)>> \notin Order
  <2> HIDE DEF Order
  <2> QED BY <1>6, <1>7
<1>5. ASSUME NEW i \in S, <<i, m>> \in R PROVE FALSE
  <2>1. below(i) \subseteq below(m) /\ i \in below(m) /\ i \notin below(i)
    BY <1>5
  <2>2. <<below(i), below(m)>> \in Order
    BY <2>1 DEF StrictSubsetOrdering
  <2> QED BY <1>4, <2>2
<1> QED BY <1>5

\* Of the items that are selected, a page shows the highest, at least one, and all
\* of them when there are no more; NextCursor is the lowest it shows.
LEMMA PageIsTheTop ==
    ASSUME CapsShape
    PROVE  /\ HasMore => NextCursor \in {Key(i) : i \in Page}
                         /\ \A i \in Page : ~Less(Key(i), NextCursor)
           /\ \A i \in Selected \ Page : \A j \in Page : Less(Key(i), Key(j))
           /\ ~HasMore => Page = Selected
<1> DEFINE Above(i) == {j \in Selected : Less(Key(i), Key(j))}
<1>1. /\ \A i \in Items : Key(i) \in Keyed
      /\ \A i, j \in Items : Key(i) = Key(j) => i = j
  BY KeysAreKeyed
<1>2. /\ \A i \in Items : ~Less(Key(i), Key(i))
      /\ \A i, j, k \in Items :
            Less(Key(i), Key(j)) /\ Less(Key(j), Key(k)) => Less(Key(i), Key(k))
      /\ \A i, j \in Items : i = j \/ Less(Key(i), Key(j)) \/ Less(Key(j), Key(i))
  BY <1>1, LessIsAnOrder
<1>3. Selected \in SUBSET Items /\ Page \in SUBSET Selected
  BY DEF Selected, Page
<1>4. IsFiniteSet(Selected) /\ Cardinality(Selected) \in Nat
  BY <1>3, CatalogueAssumption, FS_Subset, FS_CardinalityType
<1>5. \A i \in Selected : i \in Page <=> Cardinality(Above(i)) < PageSize
  BY DEF Page
<1>6. PageSize \in Nat \ {0}
  BY CatalogueAssumption
<1>7. ASSUME NEW i \in Selected
      PROVE  /\ Above(i) \in SUBSET Selected /\ IsFiniteSet(Above(i))
             /\ Cardinality(Above(i)) \in Nat
  BY <1>4, FS_Subset, FS_CardinalityType
<1>8. ASSUME NEW i \in Selected \ Page, NEW j \in Page PROVE Less(Key(i), Key(j))
  <2> SUFFICES ASSUME ~Less(Key(i), Key(j)) PROVE FALSE
    OBVIOUS
  <2>1. Less(Key(j), Key(i)) /\ j \in Selected
    BY <1>2, <1>3
  <2>2. Above(i) \subseteq Above(j)
    BY <1>2, <1>3, <2>1
  <2>3. Cardinality(Above(i)) <= Cardinality(Above(j))
    <3>1. IsFiniteSet(Above(j))
      BY <1>7, <2>1
    <3> HIDE DEF Above
    <3> QED BY <2>2, <3>1, FS_Subset
  <2>4. Cardinality(Above(j)) < PageSize /\ ~(Cardinality(Above(i)) < PageSize)
    BY <1>5, <2>1
  <2>5. Cardinality(Above(i)) \in Nat /\ Cardinality(Above(j)) \in Nat
    BY <1>7, <2>1
  <2> HIDE DEF Above
  <2> QED BY <1>6, <2>3, <2>4, <2>5
<1>9. ASSUME ~HasMore PROVE Page = Selected
  <2> SUFFICES ASSUME NEW i \in Selected PROVE i \in Page
    BY <1>3
  <2>1. Cardinality(Selected) <= PageSize
    BY <1>4, <1>6, <1>9 DEF HasMore
  <2>2. Above(i) \subseteq Selected /\ i \notin Above(i)
    BY <1>2, <1>3
  <2>3. Cardinality(Above(i)) <= Cardinality(Selected)
        /\ Cardinality(Above(i)) # Cardinality(Selected)
    <3> HIDE DEF Above
    <3> QED BY <1>4, <2>2, FS_Subset
  <2>4. Cardinality(Above(i)) \in Nat
    BY <1>7
  <2> QED BY <1>4, <1>5, <1>6, <2>1, <2>3, <2>4
<1>10. ASSUME HasMore
       PROVE  NextCursor \in {Key(i) : i \in Page} /\ \A i \in Page : ~Less(Key(i), NextCursor)
  <2>1. Selected # {}
    BY <1>4, <1>6, <1>10, FS_EmptySet DEF HasMore
  <2>2. Page # {}
    <3> DEFINE R == {p \in Items \X Items : Less(Key(p[2]), Key(p[1]))}
    <3>1. /\ R \in SUBSET (Items \X Items)
          /\ \A i, j \in Items : <<i, j>> \in R <=> Less(Key(j), Key(i))
      OBVIOUS
    <3> HIDE DEF R
    <3>2. /\ \A i \in Selected : <<i, i>> \notin R
          /\ \A i, j, k \in Selected : <<i, j>> \in R /\ <<j, k>> \in R => <<i, k>> \in R
      BY <1>2, <1>3, <3>1
    <3>3. PICK m \in Selected : \A i \in Selected : <<i, m>> \notin R
      BY <1>3, <2>1, <3>1, <3>2, First
    <3>4. Above(m) = {}
      BY <1>3, <3>1, <3>3
    <3>5. Cardinality(Above(m)) = 0
      BY <3>4, FS_EmptySet
    <3> QED BY <1>5, <1>6, <3>3, <3>5
  <2>3. \E k \in {Key(i) : i \in Page} : \A i \in Page : ~Less(Key(i), k)
    <3> DEFINE R == {p \in Items \X Items : Less(Key(p[1]), Key(p[2]))}
    <3>1. /\ R \in SUBSET (Items \X Items)
          /\ \A i, j \in Items : <<i, j>> \in R <=> Less(Key(i), Key(j))
      OBVIOUS
    <3> HIDE DEF R
    <3>2. /\ \A i \in Page : <<i, i>> \notin R
          /\ \A i, j, k \in Page : <<i, j>> \in R /\ <<j, k>> \in R => <<i, k>> \in R
      BY <1>2, <1>3, <3>1
    <3>3. Page \in SUBSET Items
      BY <1>3
    <3>4. PICK m \in Page : \A i \in Page : <<i, m>> \notin R
      BY <2>2, <3>1, <3>2, <3>3, First
    <3> QED BY <3>1, <3>3, <3>4
  <2> QED BY <2>3 DEF NextCursor
<1> QED BY <1>8, <1>9, <1>10

PagingInv ==
    /\ steady \subseteq Items /\ seen \in [Items -> Int]
    /\ pager \in [at : {"idle", "paging", "done"}, cursor : Keyed]
    /\ \A i \in steady : Visible(i)
    /\ pager.at = "idle" => steady = {}
    /\ pager.at = "paging" =>
        \A i \in steady : seen[i] = IF Less(Key(i), pager.cursor) THEN 0 ELSE 1
    /\ pager.at = "done" => \A i \in steady : seen[i] = 1

LEMMA FetchStep ==
    ASSUME CapsShape, PagingInv, FetchPage
    PROVE  PagingInv'
<1>1. /\ \A i \in Items : Key(i) \in Keyed
      /\ \A k \in Keyed : ~Less(k, k)
      /\ \A k, l, m \in Keyed : Less(k, l) /\ Less(l, m) => Less(k, m)
  BY KeysAreKeyed, LessIsAnOrder
<1>2. /\ pager.at = "paging" /\ UNCHANGED <<caps, rows, steady>>
      /\ seen' = [i \in Items |-> seen[i] + IF i \in Page THEN 1 ELSE 0]
      /\ pager' = IF HasMore THEN [pager EXCEPT !.cursor = NextCursor]
                             ELSE [pager EXCEPT !.at = "done"]
  BY DEF FetchPage, providerVars, itemVars
<1>3. \A i \in Items : Key(i)' = Key(i) /\ (Visible(i)' <=> Visible(i))
  BY <1>2 DEF Key, Visible, Served
<1>4. /\ seen' \in [Items -> Int] /\ steady \subseteq Items
      /\ \A i \in steady : seen'[i] = seen[i] + IF i \in Page THEN 1 ELSE 0
  <2>1. \A i \in Items : seen[i] + (IF i \in Page THEN 1 ELSE 0) \in Int
    BY DEF PagingInv
  <2> QED BY <1>2, <2>1 DEF PagingInv
<1>5. \A i \in steady :
        /\ seen[i] = IF Less(Key(i), pager.cursor) THEN 0 ELSE 1
        /\ i \in Selected <=> Less(Key(i), pager.cursor)
  BY <1>2 DEF PagingInv, Selected
<1>6. pager \in [at : {"idle", "paging", "done"}, cursor : Keyed] /\ Page \subseteq Selected
      /\ Selected \subseteq Items
  BY DEF PagingInv, Page, Selected
<1>7. CASE HasMore
  <2>1. PICK k \in Page : NextCursor = Key(k)
    BY <1>7, PageIsTheTop
  <2>2. /\ \A i \in Page : ~Less(Key(i), NextCursor)
        /\ \A i \in Selected \ Page : Less(Key(i), NextCursor)
    BY <1>7, <2>1, PageIsTheTop
  <2>3. k \in Selected /\ NextCursor \in Keyed /\ pager.cursor \in Keyed
    BY <1>1, <1>6, <2>1
  <2>4. Less(NextCursor, pager.cursor)
    BY <2>1, <2>3 DEF Selected
  <2> DEFINE next == NextCursor
  <2> HIDE DEF next
  <2>5. pager' = [pager EXCEPT !.cursor = next] /\ next = NextCursor
    BY <1>2, <1>7 DEF next
  <2>6. /\ pager' \in [at : {"idle", "paging", "done"}, cursor : Keyed]
        /\ pager'.at = "paging" /\ pager'.cursor = NextCursor
    BY <1>2, <1>6, <2>3, <2>5
  <2>7. ASSUME NEW i \in steady
        PROVE  seen'[i] = IF Less(Key(i), NextCursor) THEN 0 ELSE 1
    <3>1. CASE i \notin Selected
      <4>1. ~Less(Key(i), pager.cursor) /\ i \in Items
        BY <1>4, <1>5, <3>1
      <4>2. ~Less(Key(i), NextCursor)
        BY <1>1, <2>3, <2>4, <4>1
      <4> QED BY <1>4, <1>5, <1>6, <3>1, <4>1, <4>2
    <3>2. CASE i \in Page
      BY <1>4, <1>5, <1>6, <2>2, <3>2
    <3>3. CASE i \in Selected \ Page
      BY <1>4, <1>5, <2>2, <3>3
    <3> QED BY <3>1, <3>2, <3>3
  <2> QED BY <1>2, <1>3, <1>4, <2>6, <2>7 DEF PagingInv
<1>8. CASE ~HasMore
  <2>1. Page = Selected
    BY <1>8, PageIsTheTop
  <2>2. /\ pager' \in [at : {"idle", "paging", "done"}, cursor : Keyed] /\ pager'.at = "done"
    BY <1>2, <1>6, <1>8
  <2>3. \A i \in steady : seen'[i] = 1
    BY <1>4, <1>5, <2>1
  <2> QED BY <1>2, <1>3, <1>4, <2>2, <2>3 DEF PagingInv
<1> QED BY <1>7, <1>8

LEMMA BeginStep ==
    ASSUME CapsShape, BeginPaging
    PROVE  PagingInv'
<1>1. /\ pager' = [at |-> "paging", cursor |-> Start] /\ UNCHANGED <<caps, rows>>
      /\ seen' = [i \in Items |-> 0] /\ steady' = {i \in Items : Visible(i)}
  BY DEF BeginPaging, providerVars, itemVars
<1>2. \A i \in Items : Key(i)' = Key(i) /\ (Visible(i)' <=> Visible(i))
  BY <1>1 DEF Key, Visible, Served
<1>3. Start \in Keyed /\ \A i \in Items : Less(Key(i), Start)
  BY KeysAreKeyed
<1>4. /\ pager' \in [at : {"idle", "paging", "done"}, cursor : Keyed]
      /\ pager'.at = "paging" /\ pager'.cursor = Start
  BY <1>1, <1>3
<1> QED BY <1>1, <1>2, <1>3, <1>4 DEF PagingInv

\* A step beside the client: the steady items are among those before, with their key.
LEMMA BesideStep ==
    ASSUME PagingInv, UNCHANGED <<pager, seen>>, steady' \subseteq steady,
           \A i \in steady' : Key(i)' = Key(i) /\ Visible(i)'
    PROVE  PagingInv'
<1>1. \A i \in steady' : Less(Key(i), pager.cursor)' <=> Less(Key(i), pager.cursor)
  BY DEF Less
<1> QED BY <1>1 DEF PagingInv

LEMMA PagingStep ==
    CatalogueInv /\ PagingInv /\ [CatalogueNext]_<<providerVars, catalogueVars>> => PagingInv'
<1> SUFFICES ASSUME CatalogueInv, PagingInv, [CatalogueNext]_<<providerVars, catalogueVars>>
             PROVE  PagingInv'
  OBVIOUS
<1>1. CapsShape
  BY DEF CatalogueInv
<1>2. ASSUME UNCHANGED <<pager, seen>>, steady' = StillSteady PROVE PagingInv'
  <2>1. steady' \subseteq steady /\ \A i \in steady' : Key(i)' = Key(i) /\ Visible(i)'
    BY <1>2 DEF StillSteady
  <2> QED BY <1>2, <2>1, BesideStep
<1>3. ASSUME UNCHANGED <<pager, seen, steady, caps, rows>> PROVE PagingInv'
  <2>1. \A i \in steady' : Key(i)' = Key(i) /\ Visible(i)'
    BY <1>3 DEF PagingInv, Key, Visible, Served
  <2> QED BY <1>3, <2>1, BesideStep
<1>4. ASSUME NEW e \in Editors, EditorNext(e) PROVE PagingInv'
  <2>1. ASSUME NEW n, NEW verb, NEW i, BeginEdit(e, verb, n, i) PROVE PagingInv'
    BY <1>3, <2>1 DEF BeginEdit, providerVars, itemVars, clientVars
  <2>2. ASSUME NEW there, Edited(e, there) PROVE PagingInv'
    BY <1>2, <2>2 DEF Edited
  <2>3. ASSUME NEW i, NEW v, NEW methods, PublishManifest(e, i, v, methods) PROVE PagingInv'
    BY <2>2, <2>3 DEF PublishManifest
  <2> QED BY <1>4, <2>1, <2>2, <2>3
          DEF EditorNext, RefuseManifest, ReadStatus, RelayRegistration, UpdateStatus
<1>5. ASSUME NEW i \in Items, Serve(i) \/ Deprecate(i) PROVE PagingInv'
  BY <1>2, <1>5 DEF Serve, Deprecate
<1>6. CASE ProviderStep(RegistrationNext)
  BY <1>2, <1>6 DEF ProviderStep
<1>7. CASE BeginPaging \/ FetchPage
  BY <1>1, <1>7, BeginStep, FetchStep
<1>8. CASE UNCHANGED <<providerVars, catalogueVars>>
  BY <1>3, <1>8 DEF catalogueVars, providerVars, itemVars, clientVars
<1> QED BY <1>4, <1>5, <1>6, <1>7, <1>8 DEF CatalogueNext

LEMMA PagingStart == CatalogueInit => PagingInv
<1> SUFFICES ASSUME CatalogueInit PROVE PagingInv
  OBVIOUS
<1>1. pager = [at |-> "idle", cursor |-> Start] /\ seen = [j \in Items |-> 0] /\ steady = {}
  BY DEF CatalogueInit
<1>2. Start \in Keyed
  BY CatalogueAssumption DEF Start, Keyed
<1> QED BY <1>1, <1>2 DEF PagingInv

\* A client that follows the cursors to the end is shown every item once that stays
\* in the catalogue with its key, for any number of items and any page size.
THEOREM ListedOnceSafety == CatalogueSpec => []ListedOnce
<1>1. PagingInv => ListedOnce
  <2> SUFFICES ASSUME PagingInv, NEW i \in steady
               PROVE  seen[i] <= 1 /\ (pager.at = "done" => seen[i] = 1)
    BY DEF ListedOnce
  <2>1. pager.at \in {"idle", "paging", "done"}
    BY DEF PagingInv
  <2>2. seen[i] \in {0, 1} /\ (pager.at = "done" => seen[i] = 1)
    BY <2>1 DEF PagingInv
  <2> QED BY <2>2
<1> QED BY <1>1, PagingStart, PagingStep, CatalogueInvariant, PTL DEF CatalogueSpec
================================================================================
