-------------------------------- MODULE Refunds --------------------------------
(***************************************************************************)
(* The refund API: an agent asks for a charge back, its provider approves  *)
(* or denies, and a background loop approves what no provider answered.    *)
(* Every handler reads, then writes in a statement of its own, so calls    *)
(* and the loop interleave between the two.                                *)
(*                                                                         *)
(* The stored functions process_refund and auto_approve_pending_refunds    *)
(* are not in the repository.  As the handlers use them, the first credits *)
(* a refund that stands approved or auto_approved, once, and the second    *)
(* moves every overdue requested refund to auto_approved in one statement  *)
(* and returns what it moved.                                              *)
(***************************************************************************)
EXTENDS Integers, FiniteSets

CONSTANTS
    Txs,            \* charge transactions, one refund row each
    Agent,          \* Agent[t]: the agent that was charged
    Provider,       \* Provider[t]: the provider of the charged capability
    Calls,          \* HTTP requests of the run
    Jobs,           \* the requests clients may send
    DayLimit,       \* RATE_LIMIT_PER_DAY
    PairLimit,      \* PAIR_LIMIT
    Faults,
    MaxInFlight     \* bound: calls, and batches of the loop, in progress at once

Job == [kind : {"request", "approve", "deny"}, tx : Txs]
AllFaults == {"db", "process", "crash"}

ASSUME RefundAssumption ==
    /\ Jobs \subseteq Job
    /\ DayLimit \in Nat /\ PairLimit \in Nat /\ MaxInFlight \in Nat \ {0}
    /\ Faults \subseteq AllFaults
    /\ IsFiniteSet(Calls) /\ IsFiniteSet(Txs)

VARIABLES
    job,        \* job[c]: the request call c carries
    pc,         \* pc[c]: the query at which the handler of c stands
    status,     \* status[t]: refunds.status, "absent" before the INSERT
    age,        \* age[t]: "day" for 24 h, then "window", then "overdue" after 168 h
    credited,   \* transactions whose agent got its money back
    batch,      \* rows the loop has auto-approved and not yet processed
    events,     \* (transaction, event type) pairs enqueued on resolution
    uncounted   \* ghost: requests that passed a limit only because its COUNT failed

vars == <<job, pc, status, age, credited, batch, events, uncounted>>

Working  == {"check", "count_day", "count_pair", "insert", "read", "update",
             "process", "fire"}
Finished == {"done", "refused", "failed", "dropped"}
Statuses == {"absent", "requested", "approved", "auto_approved", "denied"}
Resolved == {"approved", "auto_approved", "denied"}
Approved == {"approved", "auto_approved"}
Ages     == {"day", "window", "overdue"}
Events   == Txs \X {"invocation.refunded", "refund.denied"}
Limits   == {"day", "pair"}

TypeOK ==
    /\ job \in [Calls -> Jobs]
    /\ pc \in [Calls -> Working \union Finished \union {"unsent"}]
    /\ status \in [Txs -> Statuses]
    /\ age \in [Txs -> Ages]
    /\ credited \subseteq Txs
    /\ batch \subseteq Txs
    /\ events \subseteq Events
    /\ uncounted \subseteq Calls \X Limits

Init ==
    /\ job \in [Calls -> Jobs]
    /\ pc = [c \in Calls |-> "unsent"]
    /\ status = [t \in Txs |-> "absent"]
    /\ age = [t \in Txs |-> "day"]
    /\ credited = {} /\ batch = {} /\ events = {} /\ uncounted = {}

Tx(c)    == job[c].tx
InFlight == {c \in Calls : pc[c] \in Working}
Busy     == Cardinality(InFlight) + (IF batch = {} THEN 0 ELSE 1)
Goto(c, there) == pc' = [pc EXCEPT ![c] = there]

Receive(c) ==
    /\ pc[c] = "unsent" /\ Busy < MaxInFlight
    /\ Goto(c, IF job[c].kind = "request" THEN "check" ELSE "read")
    /\ UNCHANGED <<job, status, age, credited, batch, events, uncounted>>

(***************************************************************************)
(* POST /v1/refunds                                                        *)
(***************************************************************************)
\* Authentication, ownership, type, refunded_at and the 30-day window.
CheckTransaction(c) ==
    /\ pc[c] = "check"
    /\ \/ Tx(c) \notin credited /\ Goto(c, "count_day")
       \/ Goto(c, "refused")
    /\ UNCHANGED <<job, status, age, credited, batch, events, uncounted>>

\* The refunds requested in the last 24 hours by the agent, or by the agent
\* against the provider.
RecentOfAgent(a)   == {t \in Txs : status[t] # "absent" /\ age[t] = "day" /\ Agent[t] = a}
RecentOfPair(a, p) == {t \in RecentOfAgent(a) : Provider[t] = p}

\* n recent refunds are held against a limit.  A failed count is taken for zero,
\* which matters where the true one is not below the limit.
Count(c, n, limit, name, there) ==
    \/ n < limit /\ Goto(c, there) /\ UNCHANGED uncounted
    \/ n >= limit /\ Goto(c, "refused") /\ UNCHANGED uncounted
    \/ /\ n >= limit /\ "db" \in Faults
       /\ Goto(c, there) /\ uncounted' = uncounted \union {<<c, name>>}

CountDay(c) ==
    /\ pc[c] = "count_day"
    /\ Count(c, Cardinality(RecentOfAgent(Agent[Tx(c)])), DayLimit, "day", "count_pair")
    /\ UNCHANGED <<job, status, age, credited, batch, events>>

\* Bug: one refund too many fits under the limit.
CountPairOffByOne(c) ==
    /\ pc[c] = "count_pair"
    /\ Count(c, Cardinality(RecentOfPair(Agent[Tx(c)], Provider[Tx(c)])), PairLimit + 1, "pair", "insert")
    /\ UNCHANGED <<job, status, age, credited, batch, events>>

CountPair(c) ==
    /\ pc[c] = "count_pair"
    /\ Count(c, Cardinality(RecentOfPair(Agent[Tx(c)], Provider[Tx(c)])), PairLimit, "pair", "insert")
    /\ UNCHANGED <<job, status, age, credited, batch, events>>

\* INSERT under one_refund_per_tx.
InsertRefund(c) ==
    /\ pc[c] = "insert"
    /\ \/ /\ status[Tx(c)] = "absent"
          /\ status' = [status EXCEPT ![Tx(c)] = "requested"]
          /\ Goto(c, "done")
       \/ /\ status[Tx(c)] # "absent" \/ "db" \in Faults
          /\ status' = status
          /\ Goto(c, "refused")
    /\ UNCHANGED <<job, age, credited, batch, events, uncounted>>

(***************************************************************************)
(* POST /v1/refunds/{id}/approve and /deny                                 *)
(***************************************************************************)
\* Bug: the status is not looked at.
ReadRefundAnyStatus(c) ==
    /\ pc[c] = "read"
    /\ \/ status[Tx(c)] # "absent" /\ Goto(c, "update")
       \/ Goto(c, "refused")
    /\ UNCHANGED <<job, status, age, credited, batch, events, uncounted>>

\* The row and the provider's key; anything but a requested refund is refused.
ReadRefund(c) ==
    /\ pc[c] = "read"
    /\ \/ status[Tx(c)] = "requested" /\ Goto(c, "update")
       \/ Goto(c, "refused")
    /\ UNCHANGED <<job, status, age, credited, batch, events, uncounted>>

\* Bug: an approval is announced and not processed.
UpdateRefundUnprocessed(c) ==
    /\ pc[c] = "update"
    /\ status' = [status EXCEPT ![Tx(c)] =
                    IF job[c].kind = "approve" THEN "approved" ELSE "denied"]
    /\ Goto(c, "fire")
    /\ UNCHANGED <<job, age, credited, batch, events, uncounted>>

\* The UPDATE names the row and not the status that was read; its error is
\* ignored.
UpdateRefund(c) ==
    LET approving == job[c].kind = "approve"
    IN  /\ pc[c] = "update"
        /\ \/ status' = [status EXCEPT ![Tx(c)] = IF approving THEN "approved" ELSE "denied"]
           \/ "db" \in Faults /\ status' = status
        /\ Goto(c, IF approving THEN "process" ELSE "fire")
        /\ UNCHANGED <<job, age, credited, batch, events, uncounted>>

\* process_refund
Pay(t) == credited' = IF status[t] \in Approved THEN credited \union {t} ELSE credited

\* A failure, before or after the commit, is reported; the row stays approved, and
\* nobody processes it again: a second approval finds it approved and is refused.
ProcessRefund(c) ==
    /\ pc[c] = "process"
    /\ \/ Pay(Tx(c)) /\ Goto(c, "fire")
       \/ /\ "process" \in Faults
          /\ Pay(Tx(c)) \/ credited' = credited
          /\ Goto(c, "failed")
    /\ UNCHANGED <<job, status, age, batch, events, uncounted>>

\* fire_refund_resolution_events, for the verdict of this call.
FireEvents(c) ==
    /\ pc[c] = "fire"
    /\ \/ events' = events \union
             {<<Tx(c), IF job[c].kind = "deny" THEN "refund.denied" ELSE "invocation.refunded">>}
       \/ "db" \in Faults /\ events' = events
    /\ Goto(c, "done")
    /\ UNCHANGED <<job, status, age, credited, batch, uncounted>>

(***************************************************************************)
(* auto_approve_loop                                                       *)
(***************************************************************************)
\* Bug: the window is not looked at.
OverdueAnyAge == {t \in Txs : status[t] = "requested"}

Overdue == {t \in Txs : status[t] = "requested" /\ age[t] = "overdue"}

\* Bug: the loop takes the overdue refunds and leaves them requested.
AutoApproveUnmarked ==
    /\ batch = {} /\ Overdue # {} /\ Busy < MaxInFlight
    /\ batch' = Overdue
    /\ UNCHANGED <<job, pc, status, age, credited, events, uncounted>>

AutoApprove ==
    /\ batch = {} /\ Overdue # {} /\ Busy < MaxInFlight
    /\ batch' = Overdue
    /\ status' = [t \in Txs |-> IF t \in Overdue THEN "auto_approved" ELSE status[t]]
    /\ UNCHANGED <<job, pc, age, credited, events, uncounted>>

\* One row of the batch: the error of process_refund is ignored, and the event is
\* enqueued all the same.
AutoProcess(t) ==
    /\ t \in batch
    /\ batch' = batch \ {t}
    /\ \/ Pay(t)
       \/ "process" \in Faults /\ credited' = credited
    /\ \/ events' = events \union {<<t, "invocation.refunded">>}
       \/ "db" \in Faults /\ events' = events
    /\ UNCHANGED <<job, pc, status, age, uncounted>>

(***************************************************************************)
(* Time and restarts                                                       *)
(***************************************************************************)
\* A refund gets older.  The loop runs every five minutes, so a day does not pass
\* while it has something to approve.
Grow(t) ==
    /\ status[t] # "absent" /\ age[t] # "overdue"
    /\ Overdue = {} /\ batch = {}
    /\ age' = [age EXCEPT ![t] = IF @ = "day" THEN "window" ELSE "overdue"]
    /\ UNCHANGED <<job, pc, status, credited, batch, events, uncounted>>

\* The machine restarts: its handlers stop where they are and the loop loses what
\* it had not processed.
Crash ==
    /\ "crash" \in Faults
    /\ Busy > 0
    /\ pc' = [c \in Calls |-> IF c \in InFlight THEN "dropped" ELSE pc[c]]
    /\ batch' = {}
    /\ UNCHANGED <<job, status, age, credited, events, uncounted>>

Handle(c) ==
    \/ CheckTransaction(c) \/ CountDay(c) \/ CountPair(c) \/ InsertRefund(c)
    \/ ReadRefund(c) \/ UpdateRefund(c) \/ ProcessRefund(c) \/ FireEvents(c)
Loop == AutoApprove \/ \E t \in Txs : AutoProcess(t)

\* Every client has been answered and no refund waits for the loop.
Quiescent ==
    /\ \A c \in Calls : pc[c] \in Finished
    /\ batch = {} /\ \A t \in Txs : status[t] # "requested"
    /\ UNCHANGED vars

Next ==
    \/ \E c \in Calls : Receive(c) \/ Handle(c)
    \/ Loop
    \/ \E t \in Txs : Grow(t)
    \/ Crash
    \/ Quiescent

Spec == Init /\ [][Next]_vars

\* Queries have timeouts, the loop runs every five minutes, time passes.
FairSpec ==
    /\ Spec
    /\ \A c \in Calls : WF_vars(Handle(c))
    /\ WF_vars(Loop)
    /\ \A t \in Txs : WF_vars(Grow(t))

(***************************************************************************)
(* Properties                                                              *)
(***************************************************************************)
\* Who got the money back is whose refund stands approved: no denied refund is
\* paid out, in whatever order the verdicts and process_refund arrive.
CreditMatchesVerdict == \A t \in credited : status[t] \in Approved

\* The rows of the requests that passed a limit only because its COUNT failed.
Granted == {c \in Calls : job[c].kind = "request" /\ pc[c] = "done"}
Uncounted(limit) == {Tx(c) : c \in {d \in Granted : <<d, limit>> \in uncounted}}

\* Requests are counted and inserted in separate statements (routes/refunds.rs:188,
\* 230, 254), so those in progress together pass the same limit.  However they
\* overlap, fail and are cut off by restarts, the refunds of a day exceed a limit
\* by fewer than the requests that can be in progress at once, in all and against
\* one provider; apart from those whose COUNT failed, which no limit held back.
OverrunBounded ==
    \A t \in Txs :
        /\ Cardinality(RecentOfAgent(Agent[t]) \ Uncounted("day")) < DayLimit + MaxInFlight
        /\ Cardinality(RecentOfPair(Agent[t], Provider[t]) \ Uncounted("pair"))
               < PairLimit + MaxInFlight

\* However calls, the loop, failures and restarts interleave, nothing is paid
\* back unless the provider approved or let the whole window pass.
Approving(c) == job[c].kind = "approve" /\ pc[c] \notin {"unsent", "read", "refused"}
Consented(t)  == age[t] = "overdue" \/ \E c \in Calls : Tx(c) = t /\ Approving(c)
CreditNeedsConsent == \A t \in credited : Consented(t)

\* The promise of Paybacks, for which the rows stand.
Promise == INSTANCE Paybacks WITH
    asked <- {t \in Txs : status[t] # "absent"}, repaid <- credited, told <- events,
    verdict <- [t \in Txs |-> {status[t]} \intersect Resolved]

\* Every requested refund gets a verdict, also when the provider never answers.
EveryRequestResolved == \A t \in Txs : status[t] = "requested" ~> status[t] \in Resolved

\* An approved refund is paid back, by the handler or by the loop.
ApprovalPays == \A t \in Txs : status[t] \in Approved ~> t \in credited

(***************************************************************************)
(* The inductive invariant behind CreditNeedsConsent: an approval is on    *)
(* the row only because an approving call or an overdue batch put it there.*)
(***************************************************************************)
ConsentInv ==
    /\ TypeOK
    /\ \A t \in Txs : status[t] \in Approved \/ t \in credited => Consented(t)
    /\ \A c \in Calls : pc[c] \in {"check", "count_day", "count_pair", "insert"}
                          => job[c].kind = "request"
    /\ \A c \in Calls : pc[c] \in {"read", "update", "process", "fire", "failed"}
                          => job[c].kind # "request"
=============================================================================
