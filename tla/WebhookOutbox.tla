----------------------------- MODULE WebhookOutbox -----------------------------
(***************************************************************************)
(* The webhook outbox and its delivery workers.  Handlers insert rows;     *)
(* every machine runs one worker, which claims a batch of due rows in one  *)
(* statement, posts them one after the other and writes each outcome back. *)
(* Workers meet only in the database: a row belongs to the worker whose    *)
(* claimed_at it bears until the lease of five minutes runs out.           *)
(*                                                                         *)
(* Time is counted in ticks of 30 s, the timeout of one post.  Statements  *)
(* take no time of their own.  A failed statement and a restart of the     *)
(* machine each use up one of the run's MaxFaults.                         *)
(***************************************************************************)
EXTENDS Integers, FiniteSets

CONSTANTS
    Hubs,           \* machines, one delivery worker on each
    Subs,           \* rows of webhook_subscriptions
    Rows,           \* rows of webhook_outbox
    BatchSize,      \* BATCH_SIZE
    Lease,          \* '5 minutes', in ticks
    MaxAttempts,    \* MAX_ATTEMPTS
    Minute, Hour,   \* unit and cap of the backoff, in ticks
    MaxFaults       \* bound: restarts and failed statements of the run

ASSUME OutboxAssumption ==
    /\ BatchSize \in Nat \ {0} /\ Lease \in Nat /\ MaxAttempts \in Nat \ {0}
    /\ Minute \in Nat /\ Hour \in Nat /\ MaxFaults \in Nat
    /\ IsFiniteSet(Rows)

VARIABLES
    owner,      \* owner[r]: subscription of row r, {} before the INSERT
    marks,      \* marks[r]: which of delivered_at and abandoned_at are set
    attempts,   \* attempts[r]: attempt_count
    wait,       \* wait[r]: ticks until next_attempt_at
    age,        \* age[r]: ticks since claimed_at; above Lease also for NULL
    sub,        \* sub[s]: webhook_subscriptions.status, or "deleted"
    failing,    \* failing[s]: failures_consecutive
    pc,         \* pc[h]: where the worker of machine h stands
    todo,       \* todo[h]: claimed rows h has still to post, each with the
                \*   attempt_count it had when it was claimed
    current,    \* current[h]: the claim in hand, as a set of at most one
    late,       \* late[h]: a tick has passed since the post began
    faults,     \* restarts and failed statements so far
    acked,      \* rows whose endpoint answered 2xx to a worker
    failed,     \* failed[r]: posts that ended otherwise, up to MaxAttempts
    refused,    \* rows whose destination url_guard turned away
    overdue     \* history: rows some worker still had in hand, or in its batch, when
                \*   the lease of its claim ran out

rowvars  == <<owner, marks, attempts, wait, age>>
subvars  == <<sub, failing>>
workvars == <<pc, todo, current, late>>
ghosts   == <<acked, failed, refused, overdue>>
vars     == <<rowvars, subvars, workvars, faults, ghosts>>

Free    == Lease + 1
Claims  == [row : Rows, count : 0 .. MaxAttempts - 1]
Phases  == {"idle", "next", "posting", "accepted", "reset", "rejected", "count",
            "refused"}

TypeOK ==
    /\ owner \in [Rows -> {{}} \union {{s} : s \in Subs}]
    /\ marks \in [Rows -> SUBSET {"delivered", "abandoned"}]
    /\ attempts \in [Rows -> 0 .. MaxAttempts]
    /\ wait \in [Rows -> 0 .. Hour]
    /\ age \in [Rows -> 0 .. Free]
    /\ sub \in [Subs -> {"active", "paused", "deleted"}]
    /\ failing \in [Subs -> Nat]
    /\ pc \in [Hubs -> Phases]
    /\ todo \in [Hubs -> SUBSET Claims]
    /\ current \in [Hubs -> SUBSET Claims]
    /\ late \in [Hubs -> BOOLEAN]
    /\ faults \in 0 .. MaxFaults
    /\ acked \subseteq Rows /\ refused \subseteq Rows /\ overdue \subseteq Rows
    /\ failed \in [Rows -> 0 .. MaxAttempts]

Init ==
    /\ owner = [r \in Rows |-> {}] /\ marks = [r \in Rows |-> {}]
    /\ attempts = [r \in Rows |-> 0] /\ wait = [r \in Rows |-> 0]
    /\ age = [r \in Rows |-> Free]
    /\ sub = [s \in Subs |-> "active"] /\ failing = [s \in Subs |-> 0]
    /\ pc = [h \in Hubs |-> "idle"] /\ todo = [h \in Hubs |-> {}]
    /\ current = [h \in Hubs |-> {}] /\ late = [h \in Hubs |-> FALSE]
    /\ faults = 0
    /\ acked = {} /\ refused = {} /\ overdue = {} /\ failed = [r \in Rows |-> 0]

(***************************************************************************)
(* Subscribers and handlers                                                *)
(***************************************************************************)
\* enqueue_webhook, or the synthetic event of POST .../test.
Enqueue(r, s) ==
    /\ owner[r] = {} /\ sub[s] # "deleted"
    /\ owner' = [owner EXCEPT ![r] = {s}]
    /\ UNCHANGED <<marks, attempts, wait, age, subvars, workvars, faults, ghosts>>

\* PATCH with a status, or a second POST for the same endpoint (to "active").
SetStatus(s, status) ==
    /\ sub[s] # "deleted" /\ sub[s] # status
    /\ sub' = [sub EXCEPT ![s] = status]
    /\ UNCHANGED <<rowvars, failing, workvars, faults, ghosts>>

Delete(s) ==
    /\ sub[s] # "deleted"
    /\ sub' = [sub EXCEPT ![s] = "deleted"]
    /\ UNCHANGED <<rowvars, failing, workvars, faults, ghosts>>

(***************************************************************************)
(* process_batch                                                           *)
(***************************************************************************)
Active(r) == \E s \in owner[r] : sub[s] = "active"

\* Bug: a row another worker has in hand can be claimed.
ClaimableLeased(r) == Active(r) /\ marks[r] = {} /\ wait[r] = 0

\* Bug: delivered_at and abandoned_at are not looked at.
ClaimableSettled(r) == Active(r) /\ wait[r] = 0 /\ age[r] > Lease

Claimable(r) ==
    /\ Active(r)
    /\ marks[r] = {}
    /\ wait[r] = 0
    /\ age[r] > Lease

\* One statement selects up to BatchSize rows and stamps them.  The order
\* among due rows is left open.
Claim(h) ==
    LET due == {r \in Rows : Claimable(r)}
    IN  /\ pc[h] = "idle"
        /\ \E batch \in SUBSET due :
            /\ batch # {}
            /\ Cardinality(batch) <= BatchSize
            /\ batch = due \/ Cardinality(batch) = BatchSize
            /\ todo' = [todo EXCEPT ![h] = {[row |-> r, count |-> attempts[r]] : r \in batch}]
            /\ age' = [r \in Rows |-> IF r \in batch THEN 0 ELSE age[r]]
        /\ pc' = [pc EXCEPT ![h] = "next"]
        /\ UNCHANGED <<owner, marks, attempts, wait, subvars, current, late, faults, ghosts>>

\* The next row of the batch: its URL is validated again, then posted to.
Take(h) ==
    /\ pc[h] = "next"
    /\ \E c \in todo[h] :
        /\ todo' = [todo EXCEPT ![h] = @ \ {c}]
        /\ current' = [current EXCEPT ![h] = {c}]
        /\ \/ /\ pc' = [pc EXCEPT ![h] = "posting"]
              /\ refused' = refused
           \/ /\ pc' = [pc EXCEPT ![h] = "refused"]
              /\ refused' = refused \union {c.row}
    /\ late' = [late EXCEPT ![h] = FALSE]
    /\ UNCHANGED <<rowvars, subvars, faults, acked, failed, overdue>>

InHand(h) == {c.row : c \in current[h]}

\* Bug: any response at all counts as an acknowledgement.
AnswerAnyStatus(h) ==
    /\ pc[h] = "posting"
    /\ pc' = [pc EXCEPT ![h] = "accepted"]
    /\ \/ acked' = acked \union InHand(h) /\ failed' = failed
       \/ /\ acked' = acked
          /\ failed' = [r \in Rows |-> IF r \in InHand(h) /\ failed[r] < MaxAttempts
                                       THEN failed[r] + 1 ELSE failed[r]]
    /\ UNCHANGED <<rowvars, subvars, todo, current, late, faults, refused, overdue>>

\* 2xx, or another status, an error or the timeout.
Answer(h) ==
    /\ pc[h] = "posting"
    /\ \/ /\ acked' = acked \union InHand(h)
          /\ pc' = [pc EXCEPT ![h] = "accepted"]
          /\ failed' = failed
       \/ /\ failed' = [r \in Rows |-> IF r \in InHand(h) /\ failed[r] < MaxAttempts
                                       THEN failed[r] + 1 ELSE failed[r]]
          /\ pc' = [pc EXCEPT ![h] = "rejected"]
          /\ acked' = acked
    /\ UNCHANGED <<rowvars, subvars, todo, current, late, faults, refused, overdue>>

\* The worker is done with the row in hand.
Proceed(h) ==
    /\ pc' = [pc EXCEPT ![h] = IF todo[h] = {} THEN "idle" ELSE "next"]
    /\ current' = [current EXCEPT ![h] = {}]

\* What a statement does if it succeeds; its error is ignored.
Unless(written, unwritten) ==
    \/ written /\ faults' = faults
    \/ unwritten /\ faults < MaxFaults /\ faults' = faults + 1

Settle(h, mark) ==
    /\ marks' = [r \in Rows |-> IF r \in InHand(h) THEN marks[r] \union {mark} ELSE marks[r]]
    /\ age' = [r \in Rows |-> IF r \in InHand(h) THEN Free ELSE age[r]]

WriteDelivered(h) ==
    /\ pc[h] = "accepted"
    /\ Unless(Settle(h, "delivered"), UNCHANGED <<marks, age>>)
    /\ pc' = [pc EXCEPT ![h] = "reset"]
    /\ UNCHANGED <<owner, attempts, wait, subvars, todo, current, late, ghosts>>

OwnerInHand(h) == UNION {owner[r] : r \in InHand(h)}

ResetFailures(h) ==
    /\ pc[h] = "reset"
    /\ Unless(failing' = [s \in Subs |-> IF s \in OwnerInHand(h) THEN 0 ELSE failing[s]],
              failing' = failing)
    /\ Proceed(h)
    /\ UNCHANGED <<rowvars, sub, todo, late, ghosts>>

WriteRefused(h) ==
    /\ pc[h] = "refused"
    /\ Unless(Settle(h, "delivered"), UNCHANGED <<marks, age>>)
    /\ Proceed(h)
    /\ UNCHANGED <<owner, attempts, wait, subvars, todo, late, ghosts>>

(***************************************************************************)
(* schedule_retry                                                          *)
(***************************************************************************)
Delay(n) == IF Minute * 2 ^ n \in 0 .. Hour THEN Minute * 2 ^ n ELSE Hour

\* Bug: one attempt too few.
LastTryEarly(c) == c.count + 2 >= MaxAttempts

LastTry(c) == c.count + 1 >= MaxAttempts

\* Bug: the next attempt is scheduled and attempt_count is not raised.
WriteRetryUncounted(h) ==
    /\ pc[h] = "rejected"
    /\ \E c \in current[h] :
        /\ ~LastTry(c)
        /\ wait' = [wait EXCEPT ![c.row] = Delay(c.count + 1)]
        /\ age' = [age EXCEPT ![c.row] = Free]
    /\ Proceed(h)
    /\ UNCHANGED <<owner, marks, attempts, subvars, todo, late, faults, ghosts>>

WriteRetry(h) ==
    /\ pc[h] = "rejected"
    /\ \E c \in current[h] :
        /\ ~LastTry(c)
        /\ Unless(/\ attempts' = [attempts EXCEPT ![c.row] = c.count + 1]
                  /\ wait' = [wait EXCEPT ![c.row] = Delay(c.count + 1)]
                  /\ age' = [age EXCEPT ![c.row] = Free],
                  UNCHANGED <<attempts, wait, age>>)
    /\ Proceed(h)
    /\ UNCHANGED <<owner, marks, subvars, todo, late, ghosts>>

WriteAbandoned(h) ==
    /\ pc[h] = "rejected"
    /\ \E c \in current[h] :
        /\ LastTry(c)
        /\ Unless(/\ attempts' = [attempts EXCEPT ![c.row] = c.count + 1]
                  /\ Settle(h, "abandoned"),
                  UNCHANGED <<attempts, marks, age>>)
    /\ pc' = [pc EXCEPT ![h] = "count"]
    /\ UNCHANGED <<owner, wait, subvars, todo, current, late, ghosts>>

CountFailure(h) ==
    /\ pc[h] = "count"
    /\ Unless(failing' = [s \in Subs |-> IF s \in OwnerInHand(h) THEN failing[s] + 1
                                         ELSE failing[s]],
              failing' = failing)
    /\ Proceed(h)
    /\ UNCHANGED <<rowvars, sub, todo, late, ghosts>>

(***************************************************************************)
(* Restarts and time                                                       *)
(***************************************************************************)
\* The rows a worker has claimed and not finished.
Held(h) == {c.row : c \in todo[h] \union current[h]}

Crash(h) ==
    /\ pc[h] # "idle"
    /\ faults < MaxFaults /\ faults' = faults + 1
    /\ pc' = [pc EXCEPT ![h] = "idle"]
    /\ todo' = [todo EXCEPT ![h] = {}]
    /\ current' = [current EXCEPT ![h] = {}]
    /\ UNCHANGED <<rowvars, subvars, late, ghosts>>

Passing == \A h \in Hubs : pc[h] = "idle" \/ (pc[h] = "posting" /\ ~late[h])
Earlier(n) == IF n > 0 THEN n - 1 ELSE 0

Tick ==
    /\ Passing
    /\ wait' = [r \in Rows |-> Earlier(wait[r])]
    /\ age' = [r \in Rows |-> IF age[r] < Free THEN age[r] + 1 ELSE Free]
    /\ late' = [h \in Hubs |-> pc[h] = "posting"]
    /\ overdue' = overdue \union
          {r \in UNION {Held(h) : h \in Hubs} : age[r] >= Lease}
    /\ UNCHANGED <<owner, marks, attempts, subvars, pc, todo, current, faults,
                   acked, failed, refused>>

Work(h) ==
    \/ Claim(h) \/ Take(h) \/ Answer(h)
    \/ WriteDelivered(h) \/ ResetFailures(h) \/ WriteRefused(h)
    \/ WriteRetry(h) \/ WriteAbandoned(h) \/ CountFailure(h)

Next ==
    \/ \E r \in Rows, s \in Subs : Enqueue(r, s)
    \/ \E s \in Subs : SetStatus(s, "paused") \/ SetStatus(s, "active") \/ Delete(s)
    \/ \E h \in Hubs : Work(h) \/ Crash(h)
    \/ Tick

Spec == Init /\ [][Next]_vars

\* The loops never end: a worker comes back to its next step, and time passes.
FairSpec == Spec /\ WF_vars(Tick) /\ \A h \in Hubs : WF_vars(Work(h))

(***************************************************************************)
(* Properties                                                              *)
(***************************************************************************)
\* No row is in the hands of two workers, through restarts and failed statements,
\* unless the lease ran out while one still had it: a claim is not taken over, and not
\* kept beyond the outcome, otherwise (services/webhooks.rs:80-104).
OneHandler == \A g, h \in Hubs : g # h => Held(g) \intersect Held(h) \subseteq overdue

\* What a worker has in its batch it reaches in time: with as many rows behind it as
\* there are ticks between the age of its claim and BatchSize, no row waits longer
\* than the batch takes (services/webhooks.rs:106-184).
Pace ==
    \A h \in Hubs : \A r \in Held(h) \ overdue : marks[r] = {} =>
        age[r] + Cardinality(todo[h]) + (IF pc[h] = "posting" /\ ~late[h] THEN 1 ELSE 0)
            <= BatchSize

\* Only a batch longer than its lease has a row that is overdue; the constants of
\* services/webhooks.rs (50 rows, five minutes, 30 s a post) allow it.
OverdueInLongBatch == overdue # {} => BatchSize > Lease

\* A row marked delivered or abandoned is never written again, unless it was overdue:
\* its outcome is final, it is never both, and its attempt count stands.
SettledRowsRest ==
    [][\A r \in Rows \ overdue : marks[r] # {} =>
          marks'[r] = marks[r] /\ attempts'[r] = attempts[r] /\ r \notin overdue']_vars

\* A row is given up only after MaxAttempts posts of it have failed, even
\* when two workers overlap and write back attempt counts read long ago.
AbandonedTriedEnough ==
    \A r \in Rows : "abandoned" \in marks[r] => failed[r] = MaxAttempts

\* delivered_at is set only after the endpoint answered 2xx or url_guard
\* turned the destination away.
DeliveredTrue ==
    \A r \in Rows : "delivered" \in marks[r] => r \in acked \union refused

\* Whatever outcome a row bears, it is what its endpoint did.
OutcomeTrue == AbandonedTriedEnough /\ DeliveredTrue

\* The outbox keeps the promise of Deliveries: whatever outcome an event gets is what
\* its endpoint did, and unless the event was overdue it gets one, is not posted again
\* and keeps it, and no attempt count is lost or written twice, since the worker that
\* read it is the only one to write it back (services/webhooks.rs:73-217).
Promise == INSTANCE Deliveries WITH
    Events <- Rows, announced <- {r \in Rows : owner[r] # {}}, outcome <- marks,
    counted <- attempts, accepted <- acked, loose <- overdue
KeepsDeliveries == Promise!Spec

\* No post of a row is under way once one has been acknowledged: the comment
\* of process_batch, that workers "do not double-deliver".  A restart or a failed
\* write of delivered_at excuses it.
AcceptedOnce ==
    faults = 0 => \A h \in Hubs : pc[h] = "posting" => InHand(h) \intersect acked = {}

\* Every event of a subscription that stays active is delivered or given up.
EveryEventSettled ==
    \A r \in Rows : (owner[r] # {}) ~> (marks[r] # {} \/ ~Active(r))
===============================================================================
