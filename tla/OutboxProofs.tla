------------------------------ MODULE OutboxProofs ------------------------------
(* Theorems about WebhookOutbox, for every number of machines, rows and      *)
(* subscriptions and every number of faults.                                 *)
EXTENDS WebhookOutbox, FiniteSetTheorems, TLAPS

(***************************************************************************)
(* Attempts and outcomes                                                   *)
(***************************************************************************)
\* Attempt counts never run ahead of failed posts, not even a count a worker
\* read long ago and has still to write back.
CountsInv ==
    /\ \A r \in Rows : attempts[r] <= failed[r]
    /\ \A r \in Rows : attempts[r] = MaxAttempts => "abandoned" \in marks[r]
    /\ \A h \in Hubs : \A c \in todo[h] \union current[h] : c.count <= failed[c.row]
    /\ \A h \in Hubs : pc[h] = "rejected" => \A c \in current[h] : c.count < failed[c.row]

\* A worker has one row in hand at most, and knows why it settles it.
HandInv ==
    /\ \A h \in Hubs : \A c, d \in current[h] : c = d
    /\ \A h \in Hubs : pc[h] = "accepted" => InHand(h) \subseteq acked
    /\ \A h \in Hubs : pc[h] = "refused" => InHand(h) \subseteq refused

OutcomeInv ==
    TypeOK /\ CountsInv /\ HandInv /\ AbandonedTriedEnough /\ DeliveredTrue

LEMMA TypeStep ==
    ASSUME TypeOK, CountsInv, [Next]_vars
    PROVE  TypeOK'
<1> USE OutboxAssumption DEF TypeOK, Free
<1>1. ASSUME NEW r \in Rows, NEW s \in Subs, Enqueue(r, s) PROVE TypeOK'
  BY <1>1 DEF Enqueue, subvars, workvars, ghosts
<1>2. ASSUME NEW s \in Subs, SetStatus(s, "paused") \/ SetStatus(s, "active") \/ Delete(s)
      PROVE  TypeOK'
  BY <1>2 DEF SetStatus, Delete, rowvars, workvars, ghosts
<1>3. ASSUME NEW h \in Hubs, Claim(h) PROVE TypeOK'
  <2>1. PICK batch \in SUBSET {r \in Rows : Claimable(r)} :
            /\ todo' = [todo EXCEPT ![h] = {[row |-> r, count |-> attempts[r]] : r \in batch}]
            /\ age' = [r \in Rows |-> IF r \in batch THEN 0 ELSE age[r]]
    BY <1>3 DEF Claim
  <2>2. \A r \in batch : attempts[r] \in 0 .. MaxAttempts - 1
    BY <2>1 DEF Claimable, CountsInv
  <2>3. todo' \in [Hubs -> SUBSET Claims]
    BY <2>1, <2>2 DEF Claims
  <2>4. age' \in [Rows -> 0 .. Free]
    BY <2>1
  <2> QED BY <1>3, <2>3, <2>4 DEF Claim, Phases, subvars, ghosts
<1>4. ASSUME NEW h \in Hubs, Take(h) PROVE TypeOK'
  BY <1>4 DEF Take, Phases, Claims, rowvars, subvars
<1>5. ASSUME NEW h \in Hubs, Answer(h) PROVE TypeOK'
  <2>1. failed' \in [Rows -> 0 .. MaxAttempts]
    BY <1>5 DEF Answer
  <2>2. acked' \subseteq Rows
    BY <1>5 DEF Answer, InHand, Claims
  <2> QED BY <1>5, <2>1, <2>2 DEF Answer, Phases, rowvars, subvars
<1>6. ASSUME NEW h \in Hubs, WriteDelivered(h) \/ WriteRefused(h) PROVE TypeOK'
  <2>1. marks' \in [Rows -> SUBSET {"delivered", "abandoned"}] /\ age' \in [Rows -> 0 .. Free]
        /\ faults' \in 0 .. MaxFaults
    BY <1>6 DEF WriteDelivered, WriteRefused, Unless, Settle
  <2> QED BY <1>6, <2>1 DEF WriteDelivered, WriteRefused, Proceed, Phases, subvars, ghosts
<1>7. ASSUME NEW h \in Hubs, ResetFailures(h) \/ CountFailure(h) PROVE TypeOK'
  <2>1. failing' \in [Subs -> Nat] /\ faults' \in 0 .. MaxFaults
    BY <1>7 DEF ResetFailures, CountFailure, Unless
  <2> QED BY <1>7, <2>1 DEF ResetFailures, CountFailure, Proceed, Phases, rowvars, ghosts
<1>8. ASSUME NEW h \in Hubs, WriteRetry(h) PROVE TypeOK'
  <2>1. PICK c \in current[h] :
            /\ ~LastTry(c)
            /\ Unless(/\ attempts' = [attempts EXCEPT ![c.row] = c.count + 1]
                      /\ wait' = [wait EXCEPT ![c.row] = Delay(c.count + 1)]
                      /\ age' = [age EXCEPT ![c.row] = Free],
                      UNCHANGED <<attempts, wait, age>>)
    BY <1>8 DEF WriteRetry
  <2>2. c \in Claims
    OBVIOUS
  <2>3. c.row \in Rows /\ c.count + 1 \in 0 .. MaxAttempts
    BY <2>2 DEF Claims
  <2>4. Delay(c.count + 1) \in 0 .. Hour
    BY DEF Delay
  <2>5. /\ attempts' \in [Rows -> 0 .. MaxAttempts] /\ wait' \in [Rows -> 0 .. Hour]
        /\ age' \in [Rows -> 0 .. Free] /\ faults' \in 0 .. MaxFaults
    BY <2>1, <2>3, <2>4 DEF Unless
  <2> QED BY <1>8, <2>5 DEF WriteRetry, Proceed, Phases, subvars, ghosts
<1>9. ASSUME NEW h \in Hubs, WriteAbandoned(h) PROVE TypeOK'
  <2>1. PICK c \in current[h] :
            /\ LastTry(c)
            /\ Unless(/\ attempts' = [attempts EXCEPT ![c.row] = c.count + 1]
                      /\ Settle(h, "abandoned"),
                      UNCHANGED <<attempts, marks, age>>)
    BY <1>9 DEF WriteAbandoned
  <2>2. c.row \in Rows /\ c.count + 1 \in 0 .. MaxAttempts
    BY DEF Claims
  <2>3. /\ attempts' \in [Rows -> 0 .. MaxAttempts]
        /\ marks' \in [Rows -> SUBSET {"delivered", "abandoned"}]
        /\ age' \in [Rows -> 0 .. Free] /\ faults' \in 0 .. MaxFaults
    BY <2>1, <2>2 DEF Unless, Settle
  <2> QED BY <1>9, <2>3 DEF WriteAbandoned, Phases, subvars, ghosts
<1>10. ASSUME NEW h \in Hubs, Crash(h) PROVE TypeOK'
  BY <1>10 DEF Crash, Phases, rowvars, subvars, ghosts
<1>11. CASE Tick
  <2>1. /\ wait' \in [Rows -> 0 .. Hour] /\ age' \in [Rows -> 0 .. Free]
        /\ overdue' \subseteq Rows
    BY <1>11 DEF Tick, Earlier, Held, Claims
  <2> QED BY <1>11, <2>1 DEF Tick, subvars, ghosts
<1>12. CASE UNCHANGED vars
  BY <1>12 DEF vars, rowvars, subvars, workvars, ghosts
<1> QED
  BY <1>1, <1>2, <1>3, <1>4, <1>5, <1>6, <1>7, <1>8, <1>9, <1>10, <1>11, <1>12 DEF Next, Work

LEMMA HandStep ==
    ASSUME TypeOK, HandInv, [Next]_vars
    PROVE  HandInv'
<1> USE DEF TypeOK, HandInv, InHand
<1>1. ASSUME NEW h \in Hubs, Take(h) PROVE HandInv'
  BY <1>1 DEF Take
<1>2. ASSUME NEW h \in Hubs, Claim(h) PROVE HandInv'
  BY <1>2 DEF Claim, ghosts
<1>3. ASSUME NEW h \in Hubs, Answer(h) PROVE HandInv'
  BY <1>3 DEF Answer
<1>4. ASSUME NEW h \in Hubs, WriteDelivered(h) \/ WriteAbandoned(h) PROVE HandInv'
  <2>1. /\ current' = current /\ acked' = acked /\ refused' = refused
        /\ \A g \in Hubs : pc'[g] = pc[g] \/ pc'[g] \in {"reset", "count"}
    <3>1. CASE WriteDelivered(h)
      BY <3>1 DEF WriteDelivered, ghosts
    <3>2. CASE WriteAbandoned(h)
      BY <3>2 DEF WriteAbandoned, ghosts
    <3> QED BY <1>4, <3>1, <3>2
  <2> QED BY <2>1
<1>5. ASSUME NEW h \in Hubs,
             WriteRefused(h) \/ ResetFailures(h) \/ CountFailure(h) \/ WriteRetry(h) \/ Crash(h)
      PROVE  HandInv'
  <2>1. /\ acked' = acked /\ refused' = refused
        /\ current' = [current EXCEPT ![h] = {}]
        /\ \A g \in Hubs : pc'[g] = pc[g] \/ pc'[g] \in {"idle", "next"}
    BY <1>5 DEF WriteRefused, ResetFailures, CountFailure, WriteRetry, Crash, Proceed, ghosts
  <2>2. \A g \in Hubs : current'[g] \subseteq current[g]
    BY <2>1
  <2> QED BY <2>1, <2>2
<1>6. CASE \/ \E r \in Rows, s \in Subs : Enqueue(r, s)
           \/ \E s \in Subs : SetStatus(s, "paused") \/ SetStatus(s, "active") \/ Delete(s)
           \/ Tick \/ UNCHANGED vars
  BY <1>6 DEF Enqueue, SetStatus, Delete, Tick, vars, workvars, ghosts
<1> QED BY <1>1, <1>2, <1>3, <1>4, <1>5, <1>6 DEF Next, Work

LEMMA CountsStep ==
    ASSUME TypeOK, CountsInv, HandInv, AbandonedTriedEnough, [Next]_vars
    PROVE  CountsInv' /\ AbandonedTriedEnough'
<1> USE OutboxAssumption DEF TypeOK, CountsInv, AbandonedTriedEnough
<1>1. ASSUME NEW h \in Hubs, Claim(h) PROVE CountsInv' /\ AbandonedTriedEnough'
  <2>1. PICK batch \in SUBSET {r \in Rows : Claimable(r)} :
            todo' = [todo EXCEPT ![h] = {[row |-> r, count |-> attempts[r]] : r \in batch}]
    BY <1>1 DEF Claim
  <2>2. \A c \in todo'[h] : c.row \in Rows /\ c.count <= failed[c.row]
    BY <2>1
  <2> QED BY <1>1, <2>1, <2>2 DEF Claim, ghosts
<1>2. ASSUME NEW h \in Hubs, Take(h) PROVE CountsInv' /\ AbandonedTriedEnough'
  BY <1>2 DEF Take, rowvars
<1>3. ASSUME NEW h \in Hubs, Answer(h) PROVE CountsInv' /\ AbandonedTriedEnough'
  <2>1. \A r \in Rows : failed'[r] \in 0 .. MaxAttempts /\ failed[r] <= failed'[r]
    BY <1>3 DEF Answer
  <2>2. \A g \in Hubs : \A c \in todo[g] \union current[g] :
            c.row \in Rows /\ c.count \in Nat /\ c.count < MaxAttempts
    BY DEF Claims
  <2>3. pc'[h] = "rejected" => \A c \in current[h] : c.count < failed'[c.row]
    BY <1>3, <2>2 DEF Answer, InHand
  <2>4. \A g \in Hubs : pc'[g] = "rejected" => \A c \in current[g] : c.count < failed'[c.row]
    BY <1>3, <2>1, <2>2, <2>3 DEF Answer
  <2>5. \A g \in Hubs : \A c \in todo[g] \union current[g] : c.count <= failed'[c.row]
    BY <2>1, <2>2
  <2>6. /\ todo' = todo /\ current' = current /\ attempts' = attempts /\ marks' = marks
    BY <1>3 DEF Answer, rowvars
  <2> QED BY <2>1, <2>4, <2>5, <2>6
<1>4. ASSUME NEW h \in Hubs, WriteDelivered(h) \/ WriteRefused(h)
      PROVE  CountsInv' /\ AbandonedTriedEnough'
  <2>1. \A r \in Rows : "abandoned" \in marks'[r] <=> "abandoned" \in marks[r]
    BY <1>4 DEF WriteDelivered, WriteRefused, Unless, Settle
  <2> QED BY <1>4, <2>1 DEF WriteDelivered, WriteRefused, Proceed, ghosts
<1>5. ASSUME NEW h \in Hubs, ResetFailures(h) \/ CountFailure(h) \/ Crash(h)
      PROVE  CountsInv' /\ AbandonedTriedEnough'
  BY <1>5 DEF ResetFailures, CountFailure, Crash, Proceed, rowvars, ghosts
<1>6. ASSUME NEW h \in Hubs, WriteRetry(h) PROVE CountsInv' /\ AbandonedTriedEnough'
  <2>1. PICK c \in current[h] :
            /\ ~LastTry(c)
            /\ Unless(/\ attempts' = [attempts EXCEPT ![c.row] = c.count + 1]
                      /\ wait' = [wait EXCEPT ![c.row] = Delay(c.count + 1)]
                      /\ age' = [age EXCEPT ![c.row] = Free],
                      UNCHANGED <<attempts, wait, age>>)
    BY <1>6 DEF WriteRetry
  <2>2. c.row \in Rows /\ c.count \in Nat /\ c.count + 1 < MaxAttempts /\ c.count < failed[c.row]
    BY <1>6, <2>1 DEF WriteRetry, LastTry, Claims
  <2>3. \A r \in Rows : attempts'[r] = attempts[r] \/ (r = c.row /\ attempts'[r] = c.count + 1)
    BY <2>1 DEF Unless
  <2>4. \A r \in Rows : /\ attempts'[r] <= failed[r]
                        /\ attempts'[r] = MaxAttempts => "abandoned" \in marks[r]
    BY <2>2, <2>3
  <2> QED BY <1>6, <2>4 DEF WriteRetry, Proceed, ghosts
<1>7. ASSUME NEW h \in Hubs, WriteAbandoned(h) PROVE CountsInv' /\ AbandonedTriedEnough'
  <2>1. PICK c \in current[h] :
            /\ LastTry(c)
            /\ Unless(/\ attempts' = [attempts EXCEPT ![c.row] = c.count + 1]
                      /\ Settle(h, "abandoned"),
                      UNCHANGED <<attempts, marks, age>>)
    BY <1>7 DEF WriteAbandoned
  <2>2. /\ c.row \in Rows /\ c.count \in Nat /\ c.count + 1 = MaxAttempts
        /\ failed[c.row] = MaxAttempts
    BY <1>7, <2>1 DEF WriteAbandoned, LastTry, Claims
  <2>3. InHand(h) = {c.row}
    BY DEF HandInv, InHand
  <2>4. \A r \in Rows : \/ attempts'[r] = attempts[r] /\ marks'[r] = marks[r]
                        \/ r = c.row /\ attempts'[r] = c.count + 1
                             /\ marks'[r] = marks[r] \union {"abandoned"}
    BY <2>1, <2>2, <2>3 DEF Unless, Settle
  <2>5. \A r \in Rows : /\ attempts'[r] <= failed[r]
                        /\ attempts'[r] = MaxAttempts => "abandoned" \in marks'[r]
                        /\ "abandoned" \in marks'[r] => failed[r] = MaxAttempts
    BY <2>2, <2>4
  <2> QED BY <1>7, <2>5 DEF WriteAbandoned, ghosts
<1>8. CASE \/ \E r \in Rows, s \in Subs : Enqueue(r, s)
           \/ \E s \in Subs : SetStatus(s, "paused") \/ SetStatus(s, "active") \/ Delete(s)
           \/ Tick \/ UNCHANGED vars
  BY <1>8 DEF Enqueue, SetStatus, Delete, Tick, vars, rowvars, workvars, ghosts
<1> QED BY <1>1, <1>2, <1>3, <1>4, <1>5, <1>6, <1>7, <1>8 DEF Next, Work

\* Only a worker that was answered, or was refused the destination, marks a row
\* delivered.
LEMMA DeliveredStep ==
    ASSUME TypeOK, HandInv, DeliveredTrue, [Next]_vars
    PROVE  DeliveredTrue'
<1> USE DEF TypeOK, DeliveredTrue
<1>1. ASSUME NEW h \in Hubs, WriteDelivered(h) \/ WriteRefused(h) PROVE DeliveredTrue'
  <2>1. \A r \in Rows : marks'[r] = marks[r] \/ r \in InHand(h)
    BY <1>1 DEF WriteDelivered, WriteRefused, Unless, Settle
  <2>2. InHand(h) \subseteq acked \union refused
    BY <1>1 DEF WriteDelivered, WriteRefused, HandInv
  <2> QED BY <1>1, <2>1, <2>2 DEF WriteDelivered, WriteRefused, ghosts
<1>2. ASSUME NEW h \in Hubs, WriteAbandoned(h) PROVE DeliveredTrue'
  <2>1. \A r \in Rows : "delivered" \in marks'[r] => "delivered" \in marks[r]
    BY <1>2 DEF WriteAbandoned, Unless, Settle
  <2> QED BY <1>2, <2>1 DEF WriteAbandoned, ghosts
<1>3. ASSUME NEW h \in Hubs, Take(h) \/ Answer(h) PROVE DeliveredTrue'
  BY <1>3 DEF Take, Answer, rowvars
<1>4. CASE UNCHANGED <<marks, ghosts>>
  BY <1>4 DEF ghosts
<1> QED
  BY <1>1, <1>2, <1>3, <1>4
  DEF Next, Work, Enqueue, SetStatus, Delete, Claim, ResetFailures, WriteRetry, CountFailure,
      Crash, Tick, vars, rowvars

\* OutcomeInv holds in every reachable state.
THEOREM Invariance == Spec => []OutcomeInv
<1>1. Init => OutcomeInv
  BY OutboxAssumption
  DEF Init, OutcomeInv, TypeOK, Free, Claims, Phases, CountsInv, HandInv, InHand,
      AbandonedTriedEnough, DeliveredTrue
<1>2. OutcomeInv /\ [Next]_vars => OutcomeInv'
  BY TypeStep, CountsStep, HandStep, DeliveredStep DEF OutcomeInv
<1> QED BY <1>1, <1>2, PTL DEF Spec

\* Every variable of the outbox keeps its type.
THEOREM TypeCorrect == Spec => []TypeOK
  BY Invariance, PTL DEF OutcomeInv

\* No row is given up before MaxAttempts posts of it have failed, for any
\* number of overlapping workers and under every fault.
THEOREM AbandonSafety == Spec => []AbandonedTriedEnough
  BY Invariance, PTL DEF OutcomeInv

\* No row is marked delivered unless its endpoint answered 2xx or url_guard
\* turned its destination away.
THEOREM DeliverySafety == Spec => []DeliveredTrue
  BY Invariance, PTL DEF OutcomeInv

\* The outcome a row bears is what its endpoint did.
THEOREM OutcomeSafety == Spec => []OutcomeTrue
  BY AbandonSafety, DeliverySafety, PTL DEF OutcomeTrue

(***************************************************************************)
(* Leases: a row that is not overdue is handled by one worker              *)
(***************************************************************************)
\* The tick a post may still last.
Rest(h) == IF pc[h] = "posting" /\ ~late[h] THEN 1 ELSE 0

\* The claim of worker h on r stands, and h keeps the pace.
Leased(h, r) ==
    /\ marks[r] = {} /\ age[r] <= Lease
    /\ age[r] + Cardinality(todo[h]) + Rest(h) <= BatchSize

WorkerInv(h) ==
    /\ IsFiniteSet(todo[h])
    /\ pc[h] = "idle" => todo[h] = {} /\ current[h] = {}
    /\ pc[h] = "next" => current[h] = {}
    /\ \A c, d \in todo[h] \union current[h] : c.row = d.row => c = d
    /\ todo[h] \intersect current[h] = {}
    /\ \A c \in todo[h] : c.row \in overdue \/ Leased(h, c.row)
    /\ \A c \in current[h] :
          \/ c.row \in overdue \/ Leased(h, c.row)
          \/ pc[h] \in {"reset", "count"} /\ marks[c.row] # {}

LeaseInv == OutcomeInv /\ OneHandler /\ \A h \in Hubs : WorkerInv(h)

LEMMA HeldRows ==
    ASSUME TypeOK, NEW g \in Hubs
    PROVE  Held(g) \subseteq Rows
<1>1. todo[g] \subseteq Claims /\ current[g] \subseteq Claims
  BY DEF TypeOK
<1> QED BY <1>1 DEF Held, Claims

\* What worker h does to its own rows leaves the other workers as they are.
LEMMA OthersKeep ==
    ASSUME LeaseInv, NEW g \in Hubs,
           pc'[g] = pc[g], todo'[g] = todo[g], current'[g] = current[g], late'[g] = late[g],
           \A r \in Held(g) \ overdue : age'[r] = age[r] /\ marks'[r] = marks[r],
           overdue' = overdue
    PROVE  WorkerInv(g)' /\ Held(g)' = Held(g)
<1>1. Rest(g)' = Rest(g) /\ Cardinality(todo[g])' = Cardinality(todo[g])
  BY DEF Rest
<1>2. \A r \in Held(g) \ overdue : Leased(g, r) => Leased(g, r)'
  BY <1>1 DEF Leased
<1>3. \A c \in todo[g] \union current[g] : c.row \in Held(g)
  BY DEF Held
<1>4. WorkerInv(g)
  BY DEF LeaseInv
<1> QED BY <1>2, <1>3, <1>4 DEF WorkerInv, Held

\* A step of worker h that claims nothing.
LEMMA OneWorks ==
    ASSUME LeaseInv, NEW h \in Hubs, WorkerInv(h)', Held(h)' \subseteq Held(h),
           \A g \in Hubs \ {h} : /\ pc'[g] = pc[g] /\ todo'[g] = todo[g]
                                 /\ current'[g] = current[g] /\ late'[g] = late[g],
           \A r \in Rows \ Held(h) : age'[r] = age[r] /\ marks'[r] = marks[r],
           overdue' = overdue
    PROVE  OneHandler' /\ \A g \in Hubs : WorkerInv(g)'
<1>1. ASSUME NEW g \in Hubs \ {h} PROVE WorkerInv(g)' /\ Held(g)' = Held(g)
  <2>1. Held(g) \ overdue \subseteq Rows \ Held(h)
    BY HeldRows DEF LeaseInv, OutcomeInv, OneHandler
  <2> QED BY <2>1, OthersKeep
<1> QED BY <1>1 DEF LeaseInv, OneHandler

LEMMA ClaimKeeps ==
    ASSUME LeaseInv, NEW h \in Hubs, Claim(h)
    PROVE  OneHandler' /\ \A g \in Hubs : WorkerInv(g)'
<1> DEFINE claimOf(r) == [row |-> r, count |-> attempts[r]]
<1>1. PICK batch \in SUBSET {r \in Rows : Claimable(r)} :
        /\ Cardinality(batch) <= BatchSize
        /\ todo' = [todo EXCEPT ![h] = {claimOf(r) : r \in batch}]
        /\ age' = [r \in Rows |-> IF r \in batch THEN 0 ELSE age[r]]
  BY DEF Claim
<1>2. IsFiniteSet(batch) /\ Cardinality(batch) \in Nat
  BY OutboxAssumption, FS_Subset, FS_CardinalityType
<1>3. todo'[h] = {claimOf(r) : r \in batch}
  BY <1>1 DEF LeaseInv, OutcomeInv, TypeOK
<1>4. IsFiniteSet(todo'[h]) /\ Cardinality(todo'[h]) <= Cardinality(batch)
  <2> DEFINE f == [r \in batch |-> claimOf(r)]
  <2>1. f \in Surjection(batch, todo'[h])
    BY <1>3 DEF Surjection
  <2> QED BY <1>2, <2>1, FS_Surjection
<1>5. current'[h] = {} /\ pc'[h] = "next" /\ marks' = marks /\ overdue' = overdue
  BY DEF Claim, LeaseInv, OutcomeInv, TypeOK, WorkerInv, ghosts
<1>6. Cardinality(todo'[h]) \in Nat
  BY <1>4, FS_CardinalityType
<1>7. \A c \in todo'[h] : c.row \in batch /\ Leased(h, c.row)'
  <2> SUFFICES ASSUME NEW r \in batch PROVE Leased(h, r)'
    BY <1>3
  <2>1. age'[r] = 0 /\ marks'[r] = {} /\ Rest(h)' = 0
    BY <1>1, <1>5 DEF Claimable, Rest
  <2> QED BY <1>1, <1>2, <1>4, <1>6, <2>1, OutboxAssumption DEF Leased
<1>8. WorkerInv(h)'
  <2>1. \A c, d \in todo'[h] : c.row = d.row => c = d
    <3> SUFFICES ASSUME NEW r \in batch, NEW q \in batch, claimOf(r).row = claimOf(q).row
                 PROVE  claimOf(r) = claimOf(q)
      BY <1>3
    <3> QED OBVIOUS
  <2> QED BY <1>4, <1>5, <1>7, <2>1 DEF WorkerInv
<1>9. ASSUME NEW g \in Hubs \ {h}
      PROVE  /\ WorkerInv(g)' /\ Held(g)' = Held(g)
             /\ Held(g) \intersect batch \subseteq overdue
  <2>1. ASSUME NEW r \in Held(g) \ overdue, r \in batch PROVE FALSE
    <3>1. PICK c \in todo[g] \union current[g] : c.row = r
      BY DEF Held
    <3>2. Leased(g, r) \/ marks[r] # {}
      BY <3>1 DEF LeaseInv, WorkerInv
    <3>3. Cardinality(todo[g]) \in Nat /\ Rest(g) \in Nat
      BY FS_CardinalityType DEF LeaseInv, WorkerInv, Rest
    <3>4. age[r] \in Nat /\ age[r] > Lease /\ marks[r] = {}
      BY <1>1, <2>1 DEF Claimable, LeaseInv, OutcomeInv, TypeOK
    <3> QED BY <3>2, <3>3, <3>4, OutboxAssumption DEF Leased
  <2>2. Held(g) \subseteq Rows
    BY HeldRows DEF LeaseInv, OutcomeInv
  <2>3. \A r \in Held(g) \ overdue : age'[r] = age[r] /\ marks'[r] = marks[r]
    BY <1>1, <1>5, <2>1, <2>2
  <2>4. pc'[g] = pc[g] /\ todo'[g] = todo[g] /\ current'[g] = current[g] /\ late'[g] = late[g]
    BY DEF Claim, LeaseInv, OutcomeInv, TypeOK
  <2> QED BY <1>5, <2>1, <2>3, <2>4, OthersKeep
<1>10. Held(h)' \subseteq batch
  BY <1>5, <1>7 DEF Held
<1> QED BY <1>5, <1>8, <1>9, <1>10 DEF LeaseInv, OneHandler

LEMMA TakeKeeps ==
    ASSUME LeaseInv, NEW h \in Hubs, Take(h)
    PROVE  OneHandler' /\ \A g \in Hubs : WorkerInv(g)'
<1> USE DEF LeaseInv, OutcomeInv, TypeOK
<1>1. PICK c \in todo[h] :
        /\ todo' = [todo EXCEPT ![h] = @ \ {c}]
        /\ current' = [current EXCEPT ![h] = {c}]
  BY DEF Take
<1>2. /\ todo'[h] = todo[h] \ {c} /\ current'[h] = {c} /\ pc'[h] \in {"posting", "refused"}
      /\ marks' = marks /\ age' = age /\ overdue' = overdue
  BY <1>1 DEF Take, rowvars
<1>3. WorkerInv(h) /\ current[h] = {}
  BY DEF Take, WorkerInv
<1>4. /\ IsFiniteSet(todo'[h]) /\ Cardinality(todo'[h]) = Cardinality(todo[h]) - 1
      /\ Cardinality(todo[h]) \in Nat
  BY <1>2, <1>3, FS_RemoveElement, FS_CardinalityType DEF WorkerInv
<1>5. \A d \in todo[h] : d.row \in overdue \/ Leased(h, d.row)'
  <2> SUFFICES ASSUME NEW d \in todo[h], d.row \notin overdue PROVE Leased(h, d.row)'
    OBVIOUS
  <2>1. Leased(h, d.row) /\ Rest(h) = 0 /\ Rest(h)' \in {0, 1}
    BY <1>3 DEF WorkerInv, Rest, Take
  <2>2. age[d.row] \in Nat
    BY OutboxAssumption DEF Claims, Free
  <2> QED BY <1>2, <1>4, <2>1, <2>2, OutboxAssumption DEF Leased
<1>6. WorkerInv(h)'
  BY <1>2, <1>3, <1>4, <1>5 DEF WorkerInv
<1>7. Held(h)' \subseteq Held(h)
  BY <1>2 DEF Held
<1>8. \A g \in Hubs \ {h} : /\ pc'[g] = pc[g] /\ todo'[g] = todo[g]
                            /\ current'[g] = current[g] /\ late'[g] = late[g]
  BY <1>1 DEF Take
<1> QED BY <1>2, <1>6, <1>7, <1>8, OneWorks

LEMMA AnswerKeeps ==
    ASSUME LeaseInv, NEW h \in Hubs, Answer(h)
    PROVE  OneHandler' /\ \A g \in Hubs : WorkerInv(g)'
<1> USE DEF LeaseInv, OutcomeInv, TypeOK
<1>1. /\ todo' = todo /\ current' = current /\ late' = late /\ marks' = marks /\ age' = age
      /\ overdue' = overdue /\ pc[h] = "posting" /\ pc'[h] \in {"accepted", "rejected"}
      /\ \A g \in Hubs \ {h} : pc'[g] = pc[g]
  BY DEF Answer, rowvars
<1>2. WorkerInv(h) /\ Cardinality(todo[h]) \in Nat
  BY FS_CardinalityType DEF WorkerInv
<1>3. ASSUME NEW c \in todo[h] \union current[h], Leased(h, c.row)
      PROVE  Leased(h, c.row)'
  <2>1. Rest(h)' = 0 /\ Rest(h) \in {0, 1} /\ age[c.row] \in Nat
    BY <1>1, OutboxAssumption DEF Rest, Claims, Free
  <2> QED BY <1>1, <1>2, <1>3, <2>1, OutboxAssumption DEF Leased
<1>4. WorkerInv(h)'
  BY <1>1, <1>2, <1>3 DEF WorkerInv
<1>5. Held(h)' \subseteq Held(h)
  BY <1>1 DEF Held
<1> QED BY <1>1, <1>4, <1>5, OneWorks

\* WriteDelivered and WriteAbandoned: the row in hand is settled, or the
\* statement failed and the claim still stands.
LEMMA SettleKeeps ==
    ASSUME LeaseInv, NEW h \in Hubs, WriteDelivered(h) \/ WriteAbandoned(h)
    PROVE  OneHandler' /\ \A g \in Hubs : WorkerInv(g)'
<1> USE DEF LeaseInv, OutcomeInv, TypeOK
<1>1. /\ todo' = todo /\ current' = current /\ late' = late /\ overdue' = overdue
      /\ pc[h] \in {"accepted", "rejected"} /\ pc'[h] \in {"reset", "count"}
      /\ \A g \in Hubs \ {h} : pc'[g] = pc[g]
  <2>1. CASE WriteDelivered(h)
    BY <2>1 DEF WriteDelivered, ghosts
  <2>2. CASE WriteAbandoned(h)
    BY <2>2 DEF WriteAbandoned, ghosts
  <2> QED BY <2>1, <2>2
<1>2. \/ marks' = marks /\ age' = age
      \/ \E mark \in {"delivered", "abandoned"} : Settle(h, mark)
  <2>1. CASE WriteDelivered(h)
    BY <2>1 DEF WriteDelivered, Unless
  <2>2. CASE WriteAbandoned(h)
    BY <2>2 DEF WriteAbandoned, Unless
  <2> QED BY <2>1, <2>2
<1>3. \A r \in Rows \ InHand(h) : marks'[r] = marks[r] /\ age'[r] = age[r]
  BY <1>2 DEF Settle
<1>4. \A r \in Rows : (marks'[r] = marks[r] /\ age'[r] = age[r]) \/ marks'[r] # {}
  BY <1>2 DEF Settle
<1>5. WorkerInv(h) /\ Cardinality(todo[h]) \in Nat
  BY FS_CardinalityType DEF WorkerInv
<1>6. \A c \in todo[h] \union current[h] : c.row \in Rows
  BY DEF Claims
<1>7. \A c \in todo[h] : c.row \notin InHand(h)
  <2> SUFFICES ASSUME NEW c \in todo[h], NEW d \in current[h], c.row = d.row PROVE FALSE
    BY DEF InHand
  <2> QED BY <1>5 DEF WorkerInv
<1>8. Rest(h) = 0 /\ Rest(h)' = 0
  BY <1>1 DEF Rest
<1>9. \A c \in todo[h] : c.row \in overdue \/ Leased(h, c.row)'
  BY <1>1, <1>3, <1>5, <1>6, <1>7, <1>8 DEF Leased, WorkerInv
<1>10. \A c \in current[h] : c.row \in overdue \/ Leased(h, c.row)' \/ marks'[c.row] # {}
  BY <1>1, <1>4, <1>5, <1>6, <1>8 DEF Leased, WorkerInv
<1>11. WorkerInv(h)'
  BY <1>1, <1>5, <1>9, <1>10 DEF WorkerInv
<1>12. Held(h)' = Held(h) /\ InHand(h) \subseteq Held(h)
  BY <1>1 DEF Held, InHand
<1> QED BY <1>1, <1>3, <1>11, <1>12, OneWorks

\* The steps after which the worker goes on to the next row, or to sleep.
LEMMA ProceedKeeps ==
    ASSUME LeaseInv, NEW h \in Hubs,
           WriteRefused(h) \/ WriteRetry(h) \/ ResetFailures(h) \/ CountFailure(h)
    PROVE  OneHandler' /\ \A g \in Hubs : WorkerInv(g)'
<1> USE DEF LeaseInv, OutcomeInv, TypeOK
<1>1. /\ todo' = todo /\ late' = late /\ overdue' = overdue /\ Proceed(h)
      /\ pc[h] \in {"refused", "rejected", "reset", "count"}
  BY DEF WriteRefused, WriteRetry, ResetFailures, CountFailure, ghosts
<1>2. /\ current'[h] = {} /\ pc'[h] = (IF todo[h] = {} THEN "idle" ELSE "next")
      /\ \A g \in Hubs \ {h} : pc'[g] = pc[g] /\ current'[g] = current[g]
  BY <1>1 DEF Proceed
<1>3. \A r \in Rows \ InHand(h) : marks'[r] = marks[r] /\ age'[r] = age[r]
  <2>1. CASE WriteRefused(h)
    BY <2>1 DEF WriteRefused, Unless, Settle
  <2>2. CASE WriteRetry(h)
    <3>1. PICK c \in current[h] :
            Unless(/\ attempts' = [attempts EXCEPT ![c.row] = c.count + 1]
                   /\ wait' = [wait EXCEPT ![c.row] = Delay(c.count + 1)]
                   /\ age' = [age EXCEPT ![c.row] = Free],
                   UNCHANGED <<attempts, wait, age>>)
      BY <2>2 DEF WriteRetry
    <3>2. c.row \in InHand(h)
      BY DEF InHand
    <3>3. age' = age \/ age' = [age EXCEPT ![c.row] = Free]
      BY <3>1 DEF Unless
    <3> QED BY <2>2, <3>2, <3>3 DEF WriteRetry
  <2>3. CASE ResetFailures(h) \/ CountFailure(h)
    BY <2>3 DEF ResetFailures, CountFailure, rowvars
  <2> QED BY <2>1, <2>2, <2>3
<1>4. WorkerInv(h) /\ Rest(h) = 0 /\ Rest(h)' = 0
  BY <1>1, <1>2 DEF Rest
<1>5. \A c \in todo[h] : c.row \in Rows \ InHand(h)
  <2> SUFFICES ASSUME NEW c \in todo[h], NEW d \in current[h], c.row = d.row PROVE FALSE
    BY DEF InHand, Claims
  <2> QED BY <1>4 DEF WorkerInv
<1>6. WorkerInv(h)'
  BY <1>1, <1>2, <1>3, <1>4, <1>5 DEF WorkerInv, Leased
<1>7. Held(h)' \subseteq Held(h) /\ InHand(h) \subseteq Held(h)
  BY <1>1, <1>2 DEF Held, InHand
<1> QED BY <1>1, <1>2, <1>3, <1>6, <1>7, OneWorks

LEMMA CrashKeeps ==
    ASSUME LeaseInv, NEW h \in Hubs, Crash(h)
    PROVE  OneHandler' /\ \A g \in Hubs : WorkerInv(g)'
<1> USE DEF LeaseInv, OutcomeInv, TypeOK
<1>1. /\ todo'[h] = {} /\ current'[h] = {} /\ pc'[h] = "idle" /\ age' = age /\ marks' = marks
      /\ overdue' = overdue
      /\ \A g \in Hubs \ {h} : /\ pc'[g] = pc[g] /\ todo'[g] = todo[g]
                               /\ current'[g] = current[g] /\ late'[g] = late[g]
  BY DEF Crash, rowvars, ghosts
<1>2. WorkerInv(h)' /\ Held(h)' = {}
  BY <1>1, FS_EmptySet DEF WorkerInv, Held
<1> QED BY <1>1, <1>2, OneWorks

\* Time passes only while a post may still last; a lease that runs out makes the rows
\* of its batch overdue.
LEMMA TickKeeps ==
    ASSUME LeaseInv, Tick
    PROVE  OneHandler' /\ \A g \in Hubs : WorkerInv(g)'
<1> USE DEF LeaseInv, OutcomeInv, TypeOK
<1>1. todo' = todo /\ current' = current /\ pc' = pc /\ marks' = marks
  BY DEF Tick
<1>2. OneHandler'
  BY <1>1 DEF OneHandler, Held, Tick
<1>3. ASSUME NEW g \in Hubs PROVE WorkerInv(g)'
  <2>1. WorkerInv(g) /\ (pc[g] = "idle" \/ (pc[g] = "posting" /\ ~late[g]))
    BY DEF Tick, Passing
  <2>2. CASE pc[g] = "idle"
    BY <1>1, <2>1, <2>2 DEF WorkerInv
  <2>3. CASE pc[g] = "posting" /\ ~late[g]
    <3>1. Rest(g) = 1 /\ Rest(g)' = 0 /\ Cardinality(todo[g]) \in Nat
      BY <1>1, <2>1, <2>3, FS_CardinalityType DEF Rest, Tick, WorkerInv
    <3>2. ASSUME NEW c \in todo[g] \union current[g], Leased(g, c.row), c.row \notin overdue'
          PROVE  Leased(g, c.row)'
      <4>1. c.row \in Rows /\ age[c.row] \in Nat /\ age'[c.row] \in Nat /\ age'[c.row] <= age[c.row] + 1
        BY OutboxAssumption DEF Tick, Claims, Free
      <4>2. age[c.row] < Lease
        <5>1. c.row \in Held(g)
          BY DEF Held
        <5> QED BY <3>2, <4>1, <5>1, OutboxAssumption DEF Tick
      <4> QED BY <1>1, <3>1, <3>2, <4>1, <4>2, OutboxAssumption DEF Leased
    <3>3. overdue \subseteq overdue'
      BY DEF Tick
    <3> QED BY <1>1, <2>1, <2>3, <3>2, <3>3 DEF WorkerInv
  <2> QED BY <2>1, <2>2, <2>3
<1> QED BY <1>2, <1>3

LEMMA LeaseStep ==
    ASSUME LeaseInv, [Next]_vars
    PROVE  LeaseInv'
<1>1. OutcomeInv'
  BY TypeStep, CountsStep, HandStep, DeliveredStep DEF OutcomeInv, LeaseInv
<1>2. OneHandler' /\ \A g \in Hubs : WorkerInv(g)'
  <2>1. CASE \E h \in Hubs : Work(h) \/ Crash(h)
    BY <2>1, ClaimKeeps, TakeKeeps, AnswerKeeps, SettleKeeps, ProceedKeeps, CrashKeeps DEF Work
  <2>2. CASE UNCHANGED <<age, marks, workvars, overdue>>
    BY <2>2 DEF workvars, LeaseInv, OneHandler, Held, WorkerInv, Leased, Rest
  <2>3. CASE Tick
    BY <2>3, TickKeeps
  <2> QED BY <2>1, <2>2, <2>3 DEF Next, Enqueue, SetStatus, Delete, vars, rowvars, ghosts
<1> QED BY <1>1, <1>2 DEF LeaseInv

\* LeaseInv holds in every reachable state.
THEOREM LeaseInvariance == Spec => []LeaseInv
<1>1. Init => LeaseInv
  <2> SUFFICES ASSUME Init PROVE LeaseInv
    OBVIOUS
  <2>1. OutcomeInv
    BY OutboxAssumption
    DEF Init, OutcomeInv, TypeOK, Free, Claims, Phases, CountsInv, HandInv, InHand,
        AbandonedTriedEnough, DeliveredTrue
  <2> QED BY <2>1, FS_EmptySet DEF Init, LeaseInv, OneHandler, Held, WorkerInv
<1>2. LeaseInv /\ [Next]_vars => LeaseInv'
  BY LeaseStep
<1> QED BY <1>1, <1>2, PTL DEF Spec

\* No row is in the hands of two workers unless its lease ran out in the hands of one,
\* for any number of machines, restarts and failed statements, any batch and lease.
THEOREM HandlerSafety == Spec => []OneHandler
  BY LeaseInvariance, PTL DEF LeaseInv

\* A worker keeps the pace of one row a tick, for any batch and lease.
THEOREM PaceSafety == Spec => []Pace
<1>1. LeaseInv => Pace
  <2> SUFFICES ASSUME LeaseInv, NEW h \in Hubs, NEW r \in Held(h) \ overdue, marks[r] = {}
               PROVE  age[r] + Cardinality(todo[h]) + Rest(h) <= BatchSize
    BY DEF Pace, Rest
  <2>1. PICK c \in todo[h] \union current[h] : c.row = r
    BY DEF Held
  <2>2. Leased(h, r)
    BY <2>1 DEF LeaseInv, WorkerInv
  <2> QED BY <2>2 DEF Leased
<1> QED BY <1>1, LeaseInvariance, PTL

\* A row becomes overdue only in a batch that is longer than its lease.
THEOREM OverdueSafety == Spec => []OverdueInLongBatch
<1> USE DEF OverdueInLongBatch
<1>1. LeaseInv /\ OverdueInLongBatch /\ [Next]_vars => OverdueInLongBatch'
  <2> SUFFICES ASSUME LeaseInv, OverdueInLongBatch, [Next]_vars, NEW r \in overdue' \ overdue
               PROVE  BatchSize > Lease
    BY OutboxAssumption
  <2>1. Tick
    BY DEF Next, Work, Enqueue, SetStatus, Delete, Claim, Take, Answer, WriteDelivered,
           ResetFailures, WriteRefused, WriteRetry, WriteAbandoned, CountFailure, Crash, vars,
           ghosts
  <2>2. PICK h \in Hubs : r \in Held(h) /\ age[r] >= Lease
    BY <2>1 DEF Tick
  <2>3. PICK c \in todo[h] \union current[h] : c.row = r
    BY <2>2 DEF Held
  <2>4. pc[h] = "posting" /\ ~late[h]
    BY <2>1, <2>3 DEF Tick, Passing, LeaseInv, WorkerInv
  <2>5. Leased(h, r) /\ Rest(h) = 1
    BY <2>3, <2>4 DEF LeaseInv, WorkerInv, Rest
  <2>6. Cardinality(todo[h]) \in Nat
    BY FS_CardinalityType DEF LeaseInv, WorkerInv
  <2>7. age[r] \in Nat
    BY <2>3, OutboxAssumption DEF LeaseInv, OutcomeInv, TypeOK, Claims, Free
  <2> QED BY <2>2, <2>5, <2>6, <2>7, OutboxAssumption DEF Leased
<1>2. Init => OverdueInLongBatch
  BY DEF Init
<1> QED BY <1>1, <1>2, LeaseInvariance, PTL DEF Spec

\* The outcome of a row that was never overdue is final.
THEOREM SettledSafety == Spec => SettledRowsRest
<1> DEFINE Stands(r) == marks'[r] = marks[r] /\ attempts'[r] = attempts[r] /\ r \notin overdue'
           Rests == \A r \in Rows \ overdue : marks[r] # {} => Stands(r)
<1>1. LeaseInv /\ [Next]_vars => [Rests]_vars
  <2> SUFFICES ASSUME LeaseInv, Next, NEW r \in Rows \ overdue, marks[r] # {}
               PROVE  Stands(r)
    OBVIOUS
  <2>1. ASSUME NEW h \in Hubs, pc[h] \in {"accepted", "rejected", "refused"} PROVE r \notin InHand(h)
    BY <2>1 DEF LeaseInv, WorkerInv, Leased, InHand
  <2>2. ASSUME NEW h \in Hubs, WriteDelivered(h) \/ WriteRefused(h)
        PROVE  Stands(r)
    BY <2>1, <2>2 DEF WriteDelivered, WriteRefused, Unless, Settle, ghosts
  <2>3. ASSUME NEW h \in Hubs, WriteRetry(h)
        PROVE  Stands(r)
    <3>1. PICK c \in current[h] :
            Unless(/\ attempts' = [attempts EXCEPT ![c.row] = c.count + 1]
                   /\ wait' = [wait EXCEPT ![c.row] = Delay(c.count + 1)]
                   /\ age' = [age EXCEPT ![c.row] = Free],
                   UNCHANGED <<attempts, wait, age>>)
      BY <2>3 DEF WriteRetry
    <3>2. c.row # r
      BY <2>1, <2>3 DEF WriteRetry, InHand
    <3>3. attempts'[r] = attempts[r]
      BY <3>1, <3>2 DEF Unless, LeaseInv, OutcomeInv, TypeOK
    <3> QED BY <2>3, <3>3 DEF WriteRetry, ghosts
  <2>4. ASSUME NEW h \in Hubs, WriteAbandoned(h)
        PROVE  Stands(r)
    <3>1. PICK c \in current[h] :
            Unless(/\ attempts' = [attempts EXCEPT ![c.row] = c.count + 1]
                   /\ Settle(h, "abandoned"),
                   UNCHANGED <<attempts, marks, age>>)
      BY <2>4 DEF WriteAbandoned
    <3>2. c.row # r /\ r \notin InHand(h)
      BY <2>1, <2>4 DEF WriteAbandoned, InHand
    <3> QED BY <2>4, <3>1, <3>2 DEF WriteAbandoned, Unless, Settle, LeaseInv, OutcomeInv, TypeOK, ghosts
  <2>5. CASE Tick
    <3>1. ASSUME NEW h \in Hubs, r \in Held(h) PROVE FALSE
      <4>1. PICK c \in todo[h] \union current[h] : c.row = r
        BY <3>1 DEF Held
      <4> QED BY <2>5, <4>1 DEF Tick, Passing, LeaseInv, WorkerInv, Leased
    <3> QED BY <2>5, <3>1 DEF Tick
  <2> QED
    BY <2>2, <2>3, <2>4, <2>5
    DEF Next, Work, Enqueue, SetStatus, Delete, Claim, Take, Answer, ResetFailures,
        CountFailure, Crash, rowvars, ghosts
<1>2. SettledRowsRest <=> [][Rests]_vars
  BY DEF SettledRowsRest
<1> QED BY <1>1, <1>2, LeaseInvariance, PTL DEF Spec

(***************************************************************************)
(* The abstract outbox                                                     *)
(***************************************************************************)
\* A claim is about a row that has been written and, unless the row is overdue, knows
\* the attempts on record until its worker has raised them itself.
ExactInv ==
    \A h \in Hubs : \A c \in todo[h] \union current[h] :
        /\ owner[c.row] # {}
        /\ \/ c.row \in overdue \/ c.count = attempts[c.row]
           \/ pc[h] = "count" /\ c \in current[h]

\* What a worker writes of the row in hand.
LEMMA InHandFacts ==
    ASSUME LeaseInv, ExactInv, NEW h \in Hubs, NEW c \in current[h],
           pc[h] \notin {"reset", "count"}
    PROVE  /\ c.row \in Promise!Waiting /\ c.row \in Rows /\ InHand(h) = {c.row}
           /\ c.count \in 0 .. MaxAttempts - 1 /\ \A d \in todo[h] : d.row # c.row
           /\ c.row \notin overdue => /\ marks[c.row] = {} /\ c.count = attempts[c.row]
                                     /\ \A g \in Hubs \ {h} : c.row \notin Held(g)
<1>1. c \in Claims
  BY DEF LeaseInv, OutcomeInv, TypeOK
<1>2. current[h] = {c}
  BY DEF LeaseInv, OutcomeInv, HandInv
<1>3. owner[c.row] # {} /\ (c.row \in overdue \/ c.count = attempts[c.row])
  BY DEF ExactInv
<1>4. c.row \in overdue \/ marks[c.row] = {}
  BY DEF LeaseInv, WorkerInv, Leased
<1>5. \A d \in todo[h] : d.row # c.row
  BY DEF LeaseInv, WorkerInv
<1>6. c.row \in Held(h)
  BY DEF Held
<1>7. c.row \in overdue \/ \A g \in Hubs \ {h} : c.row \notin Held(g)
  BY <1>6 DEF LeaseInv, OneHandler
<1> QED BY <1>1, <1>2, <1>3, <1>4, <1>5, <1>7 DEF Claims, InHand, Promise!Waiting

LEMMA ExactStep ==
    ASSUME LeaseInv, ExactInv, [Next]_vars
    PROVE  ExactInv'
<1> USE DEF LeaseInv, OutcomeInv, TypeOK
<1>1. \A g \in Hubs : todo[g] \intersect current[g] = {} /\ Held(g) \subseteq Rows
  BY HeldRows DEF WorkerInv
<1>2. ASSUME NEW h \in Hubs, Claim(h)  PROVE ExactInv'
  <2>1. PICK batch \in SUBSET {r \in Rows : Claimable(r)} :
          todo' = [todo EXCEPT ![h] = {[row |-> r, count |-> attempts[r]] : r \in batch}]
    BY <1>2 DEF Claim
  <2>2. /\ current[h] = {} /\ UNCHANGED <<current, owner, attempts, overdue>>
        /\ \A g \in Hubs \ {h} : todo'[g] = todo[g] /\ pc'[g] = pc[g]
    BY <1>2, <2>1 DEF Claim, WorkerInv, ghosts
  <2>3. \A c \in todo'[h] \union current'[h] : owner'[c.row] # {} /\ c.count = attempts'[c.row]
    BY <2>1, <2>2 DEF Claimable, Active
  <2> QED BY <2>2, <2>3 DEF ExactInv
<1>3. ASSUME NEW h \in Hubs, WriteRetry(h)  PROVE ExactInv'
  <2>1. PICK c \in current[h] :
          Unless(/\ attempts' = [attempts EXCEPT ![c.row] = c.count + 1]
                 /\ wait' = [wait EXCEPT ![c.row] = Delay(c.count + 1)]
                 /\ age' = [age EXCEPT ![c.row] = Free],
                 UNCHANGED <<attempts, wait, age>>)
    BY <1>3 DEF WriteRetry
  <2>2. /\ pc[h] = "rejected" /\ current'[h] = {} /\ UNCHANGED <<todo, owner, overdue>>
        /\ \A g \in Hubs \ {h} : current'[g] = current[g] /\ pc'[g] = pc[g]
    BY <1>3 DEF WriteRetry, Proceed, ghosts
  <2>3. \A r \in Rows \ {c.row} : attempts'[r] = attempts[r]
    BY <2>1 DEF Unless
  <2>4. \A d \in todo[h] : d.row # c.row
    BY <2>2, InHandFacts
  <2>5. c.row \in overdue \/ \A g \in Hubs \ {h} : c.row \notin Held(g)
    BY <2>2, InHandFacts
  <2>6. \A g \in Hubs : \A d \in todo'[g] \union current'[g] :
            /\ d \in todo[g] \union current[g] /\ d.row \in Rows
            /\ d.row # c.row \/ d.row \in overdue
    BY <1>1, <2>2, <2>4, <2>5 DEF Held
  <2> QED BY <2>2, <2>3, <2>6 DEF ExactInv
<1>4. ASSUME NEW h \in Hubs, WriteAbandoned(h)  PROVE ExactInv'
  <2>1. PICK c \in current[h] :
          Unless(/\ attempts' = [attempts EXCEPT ![c.row] = c.count + 1]
                 /\ Settle(h, "abandoned"),
                 UNCHANGED <<attempts, marks, age>>)
    BY <1>4 DEF WriteAbandoned
  <2>2. /\ pc[h] = "rejected" /\ pc'[h] = "count" /\ UNCHANGED <<todo, current, owner, overdue>>
        /\ \A g \in Hubs \ {h} : pc'[g] = pc[g]
    BY <1>4 DEF WriteAbandoned, ghosts
  <2>3. \A r \in Rows \ {c.row} : attempts'[r] = attempts[r]
    BY <2>1 DEF Unless
  <2>4. /\ \A d \in todo[h] : d.row # c.row
        /\ c.row \in overdue \/ \A g \in Hubs \ {h} : c.row \notin Held(g)
    BY <2>2, InHandFacts
  <2>5. \A d \in todo[h] : d.row \in Rows \ {c.row}
    BY <1>1, <2>4 DEF Held
  <2>6. \A g \in Hubs \ {h} : \A d \in todo[g] \union current[g] :
            d.row \in Rows /\ (d.row # c.row \/ d.row \in overdue)
    BY <1>1, <2>4 DEF Held
  <2> QED BY <2>2, <2>3, <2>5, <2>6 DEF ExactInv
<1>5. ASSUME NEW h \in Hubs,
             Take(h) \/ Answer(h) \/ WriteDelivered(h) \/ ResetFailures(h) \/ WriteRefused(h)
                 \/ CountFailure(h) \/ Crash(h)
      PROVE  ExactInv'
  <2>1. UNCHANGED <<owner, attempts, overdue>>
    BY <1>5 DEF Take, Answer, WriteDelivered, ResetFailures, WriteRefused, CountFailure, Crash,
                rowvars, ghosts
  <2>2. /\ todo'[h] \union current'[h] \subseteq todo[h] \union current[h]
        /\ pc[h] = "count" => todo'[h] \subseteq todo[h] /\ current'[h] = {}
    <3>1. CASE Take(h)
      BY <3>1 DEF Take
    <3>2. CASE Answer(h) \/ WriteDelivered(h)
      BY <3>2 DEF Answer, WriteDelivered
    <3>3. CASE ResetFailures(h) \/ WriteRefused(h) \/ CountFailure(h)
      BY <3>3 DEF ResetFailures, WriteRefused, CountFailure, Proceed
    <3>4. CASE Crash(h)
      BY <3>4 DEF Crash
    <3> QED BY <1>5, <3>1, <3>2, <3>3, <3>4
  <2>3. \A g \in Hubs \ {h} : todo'[g] = todo[g] /\ current'[g] = current[g] /\ pc'[g] = pc[g]
    BY <1>5 DEF Take, Answer, WriteDelivered, ResetFailures, WriteRefused, CountFailure, Crash, Proceed
  <2>4. \A c \in todo'[h] \union current'[h] :
            owner[c.row] # {} /\ (c.row \in overdue \/ c.count = attempts[c.row])
    BY <1>1, <2>2 DEF ExactInv
  <2> QED BY <2>1, <2>3, <2>4 DEF ExactInv
<1>6. ASSUME UNCHANGED <<attempts, pc, todo, current>>, overdue \subseteq overdue',
             \A r \in Rows : owner[r] # {} => owner'[r] # {}
      PROVE  ExactInv'
  <2> SUFFICES ASSUME NEW h \in Hubs, NEW c \in todo[h] \union current[h]
               PROVE  /\ owner'[c.row] # {}
                      /\ \/ c.row \in overdue \/ c.count = attempts[c.row]
                         \/ pc[h] = "count" /\ c \in current[h]
    BY <1>6 DEF ExactInv
  <2>1. c.row \in Rows
    BY <1>1 DEF Held
  <2> QED BY <1>6, <2>1 DEF ExactInv
<1>7. ASSUME NEW r \in Rows, NEW s \in Subs, Enqueue(r, s)  PROVE ExactInv'
  <2>1. \A q \in Rows : owner[q] # {} => owner'[q] # {}
    BY <1>7 DEF Enqueue
  <2> QED BY <1>6, <1>7, <2>1 DEF Enqueue, workvars, ghosts
<1>8. CASE Tick \/ UNCHANGED vars \/ \E s \in Subs : \/ SetStatus(s, "paused")
                                                   \/ SetStatus(s, "active") \/ Delete(s)
  <2>1. UNCHANGED <<owner, attempts, pc, todo, current>> /\ overdue \subseteq overdue'
    BY <1>8 DEF Tick, SetStatus, Delete, vars, rowvars, workvars, ghosts
  <2> QED BY <1>6, <2>1
<1> QED BY <1>2, <1>3, <1>4, <1>5, <1>7, <1>8 DEF Next, Work

LEMMA DeliveriesStep ==
    ASSUME LeaseInv, ExactInv, [Next]_vars
    PROVE  [Promise!Next]_(Promise!vars)
<1> USE DEF LeaseInv, OutcomeInv, TypeOK
<1> DEFINE written == {r \in Rows : owner[r] # {}}
<1>1. ASSUME UNCHANGED <<owner, marks, attempts, ghosts>>  PROVE [Promise!Next]_(Promise!vars)
  BY <1>1 DEF Promise!vars, ghosts
<1>2. ASSUME NEW r \in Rows, NEW s \in Subs, Enqueue(r, s)  PROVE [Promise!Next]_(Promise!vars)
  <2>1. written' = written \union {r} /\ r \notin written
    BY <1>2 DEF Enqueue
  <2>2. Promise!Announce(r)
    BY <1>2, <2>1 DEF Enqueue, Promise!Announce, ghosts
  <2> QED BY <2>2 DEF Promise!Next
<1>3. ASSUME NEW h \in Hubs, Take(h)  PROVE [Promise!Next]_(Promise!vars)
  <2>1. PICK c \in todo[h] : \/ refused' = refused
                            \/ refused' = refused \union {c.row}
    BY <1>3 DEF Take
  <2>2. UNCHANGED <<owner, marks, attempts, acked, failed, overdue>>
    BY <1>3 DEF Take, rowvars
  <2>3. c.row \in Rows /\ owner[c.row] # {} /\ (c.row \in overdue \/ marks[c.row] = {})
    BY DEF Claims, ExactInv, WorkerInv, Leased
  <2>4. CASE refused' = refused
    BY <2>2, <2>4, <1>1 DEF ghosts
  <2>5. CASE refused' = refused \union {c.row}
    <3>1. Promise!Refuse(c.row)
      BY <2>2, <2>3, <2>5 DEF Promise!Refuse, Promise!Waiting
    <3> QED BY <2>3, <3>1 DEF Promise!Next
  <2> QED BY <2>1, <2>4, <2>5
<1>4. ASSUME NEW h \in Hubs, Answer(h)  PROVE [Promise!Next]_(Promise!vars)
  <2>1. UNCHANGED <<owner, marks, attempts, refused, overdue>> /\ pc[h] = "posting"
    BY <1>4 DEF Answer, rowvars
  <2>2. CASE current[h] = {}
    <3>1. InHand(h) = {}
      BY <2>2 DEF InHand
    <3>2. acked' = acked /\ failed' = failed
      BY <1>4, <3>1 DEF Answer
    <3> QED BY <1>1, <2>1, <3>2 DEF ghosts
  <2>3. CASE current[h] # {}
    <3>1. PICK c \in current[h] : TRUE
      BY <2>3
    <3>2. c.row \in Promise!Waiting /\ c.row \in Rows /\ InHand(h) = {c.row}
      BY <2>1, InHandFacts
    <3>3. CASE acked' = acked \union InHand(h) /\ failed' = failed
      <4>1. Promise!Accept(c.row)
        BY <2>1, <3>2, <3>3 DEF Promise!Accept
      <4> QED BY <3>2, <4>1 DEF Promise!Next
    <3>4. CASE /\ acked' = acked
               /\ failed' = [r \in Rows |-> IF r \in InHand(h) /\ failed[r] < MaxAttempts
                                            THEN failed[r] + 1 ELSE failed[r]]
      <4>1. failed' = [failed EXCEPT ![c.row] = IF @ < MaxAttempts THEN @ + 1 ELSE @]
        BY <3>2, <3>4
      <4>2. Promise!Fail(c.row)
        BY <2>1, <3>2, <3>4, <4>1 DEF Promise!Fail
      <4> QED BY <3>2, <4>2 DEF Promise!Next
    <3> QED BY <1>4, <3>3, <3>4 DEF Answer
  <2> QED BY <2>2, <2>3
<1>5. ASSUME NEW h \in Hubs, WriteDelivered(h) \/ WriteRefused(h)
      PROVE  [Promise!Next]_(Promise!vars)
  <2>1. /\ UNCHANGED <<owner, attempts, ghosts>> /\ pc[h] \in {"accepted", "refused"}
        /\ marks' = marks \/ Settle(h, "delivered")
    BY <1>5 DEF WriteDelivered, WriteRefused, Unless
  <2>2. CASE current[h] = {} \/ marks' = marks
    <3>1. marks' = marks
      BY <2>1, <2>2 DEF Settle, InHand
    <3> QED BY <1>1, <2>1, <3>1
  <2>3. CASE current[h] # {} /\ Settle(h, "delivered")
    <3>1. PICK c \in current[h] : TRUE
      BY <2>3
    <3>2. c.row \in Promise!Waiting /\ c.row \in Rows /\ InHand(h) = {c.row}
      BY <2>1, InHandFacts
    <3>3. c.row \in acked \union refused
      BY <2>1, <3>2 DEF HandInv
    <3>4. marks' = [marks EXCEPT ![c.row] = @ \union {"delivered"}]
      BY <2>3, <3>2 DEF Settle
    <3>5. Promise!Deliver(c.row)
      BY <2>1, <3>2, <3>3, <3>4 DEF Promise!Deliver, ghosts
    <3> QED BY <3>2, <3>5 DEF Promise!Next
  <2> QED BY <2>1, <2>2, <2>3
<1>6. ASSUME NEW h \in Hubs, WriteRetry(h)  PROVE [Promise!Next]_(Promise!vars)
  <2>1. PICK c \in current[h] :
          /\ ~LastTry(c)
          /\ attempts' = attempts \/ attempts' = [attempts EXCEPT ![c.row] = c.count + 1]
    BY <1>6 DEF WriteRetry, Unless
  <2>2. UNCHANGED <<owner, marks, ghosts>> /\ pc[h] = "rejected"
    BY <1>6 DEF WriteRetry
  <2>3. /\ c.row \in Promise!Waiting /\ c.row \in Rows /\ c.count \in Nat
        /\ c.row \in overdue \/ c.count = attempts[c.row]
    BY <2>2, InHandFacts
  <2>4. c.count < failed[c.row] /\ c.count + 1 < MaxAttempts
    BY <2>1, <2>2, <2>3, OutboxAssumption DEF CountsInv, LastTry
  <2>5. CASE attempts' = attempts
    BY <1>1, <2>2, <2>5
  <2>6. CASE attempts' = [attempts EXCEPT ![c.row] = c.count + 1]
    <3>1. PICK n \in 1 .. MaxAttempts : n = c.count + 1
      BY <2>3, <2>4, OutboxAssumption
    <3>2. failed[c.row] \in Nat /\ n \in 1 .. failed[c.row] /\ n < MaxAttempts
      BY <2>3, <2>4, <3>1
    <3>3. Promise!Count(c.row, n)
      BY <2>2, <2>3, <2>6, <3>1, <3>2 DEF Promise!Count, ghosts
    <3> QED BY <2>3, <3>3 DEF Promise!Next
  <2> QED BY <2>1, <2>5, <2>6
<1>7. ASSUME NEW h \in Hubs, WriteAbandoned(h)  PROVE [Promise!Next]_(Promise!vars)
  <2>1. PICK c \in current[h] :
          /\ LastTry(c)
          /\ \/ UNCHANGED <<attempts, marks>>
             \/ attempts' = [attempts EXCEPT ![c.row] = c.count + 1] /\ Settle(h, "abandoned")
    BY <1>7 DEF WriteAbandoned, Unless
  <2>2. UNCHANGED <<owner, ghosts>> /\ pc[h] = "rejected"
    BY <1>7 DEF WriteAbandoned
  <2>3. /\ c.row \in Promise!Waiting /\ c.row \in Rows /\ InHand(h) = {c.row}
        /\ c.count \in 0 .. MaxAttempts - 1 /\ (c.row \in overdue \/ c.count = attempts[c.row])
    BY <2>2, InHandFacts
  <2>4. failed[c.row] = MaxAttempts /\ c.count + 1 = MaxAttempts
    <3>1. c.count < failed[c.row] /\ failed[c.row] \in 0 .. MaxAttempts
      BY <2>2, <2>3 DEF CountsInv
    <3> QED BY <2>1, <2>3, <3>1, OutboxAssumption DEF LastTry
  <2>5. CASE UNCHANGED <<attempts, marks>>
    BY <1>1, <2>2, <2>5
  <2>6. CASE attempts' = [attempts EXCEPT ![c.row] = c.count + 1] /\ Settle(h, "abandoned")
    <3>1. marks' = [marks EXCEPT ![c.row] = @ \union {"abandoned"}]
      BY <2>3, <2>6 DEF Settle
    <3>2. Promise!GiveUp(c.row)
      BY <2>2, <2>3, <2>4, <2>6, <3>1 DEF Promise!GiveUp, ghosts
    <3> QED BY <2>3, <3>2 DEF Promise!Next
  <2> QED BY <2>1, <2>5, <2>6
<1>8. ASSUME NEW h \in Hubs, Claim(h) \/ ResetFailures(h) \/ CountFailure(h) \/ Crash(h)
      PROVE  [Promise!Next]_(Promise!vars)
  BY <1>1, <1>8 DEF Claim, ResetFailures, CountFailure, Crash, rowvars
<1>9. CASE UNCHANGED vars \/ \E s \in Subs : \/ SetStatus(s, "paused")
                                           \/ SetStatus(s, "active") \/ Delete(s)
  BY <1>1, <1>9 DEF SetStatus, Delete, vars, rowvars
<1>10. CASE Tick
  <2> DEFINE stale == {r \in UNION {Held(h) : h \in Hubs} : age[r] >= Lease}
  <2>0. stale \subseteq Rows
    <3>1. \A h \in Hubs : Held(h) \subseteq Rows
      BY HeldRows
    <3> QED BY <3>1
  <2>1. PICK caught \in SUBSET Rows : caught = stale
    BY <2>0
  <2>2. /\ overdue' = overdue \union caught
        /\ UNCHANGED <<owner, marks, attempts, acked, failed, refused>>
    BY <1>10, <2>1 DEF Tick
  <2>3. ASSUME NEW r \in caught PROVE r \in Promise!Waiting
    <3>1. PICK h \in Hubs : \E c \in todo[h] \union current[h] : c.row = r
      BY <2>1 DEF Held
    <3>2. pc[h] = "posting"
      BY <1>10, <3>1 DEF Tick, Passing, WorkerInv
    <3> QED BY <3>1, <3>2 DEF ExactInv, WorkerInv, Leased, Promise!Waiting
  <2>4. Promise!Loosen(caught)
    BY <2>2, <2>3 DEF Promise!Loosen
  <2> QED BY <2>4 DEF Promise!Next
<1> QED BY <1>2, <1>3, <1>4, <1>5, <1>6, <1>7, <1>8, <1>9, <1>10 DEF Next, Work

\* For any number of machines, restarts and failed statements, any batch and any lease,
\* the outbox is one in which each event waits until it is delivered or given up, truly
\* and, unless it was overdue, once, and in which every attempt on record counts
\* (services/webhooks.rs:73-217).
THEOREM Implementation == Spec => KeepsDeliveries
<1>1. Init => ExactInv /\ Promise!Init
  BY DEF Init, ExactInv, Promise!Init
<1>2. LeaseInv /\ ExactInv /\ [Next]_vars => ExactInv'
  BY ExactStep
<1>3. LeaseInv /\ ExactInv /\ [Next]_vars => [Promise!Next]_(Promise!vars)
  BY DeliveriesStep
<1> QED BY <1>1, <1>2, <1>3, LeaseInvariance, PTL DEF Spec, KeepsDeliveries, Promise!Spec
=================================================================================
