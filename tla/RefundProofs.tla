----------------------------- MODULE RefundProofs -----------------------------
(***************************************************************************)
(* Theorems about Refunds, for every number of transactions and calls and  *)
(* under every fault, and about the instance of MCRefunds in which one     *)
(* call or batch runs at a time.                                           *)
(***************************************************************************)
EXTENDS MCRefunds, FiniteSetTheorems, TLAPS

LEMMA JobFields ==
    ASSUME TypeOK, NEW c \in Calls
    PROVE  Tx(c) \in Txs /\ job[c].kind \in {"request", "approve", "deny"}
  BY RefundAssumption DEF TypeOK, Tx, Job

\* Every step keeps every variable in its type.
LEMMA TypeStep ==
    ASSUME TypeOK, [Next]_vars
    PROVE  TypeOK'
<1> USE DEF TypeOK, Goto, Working, Finished
<1>1. ASSUME NEW c \in Calls, Receive(c) PROVE TypeOK'
  BY <1>1 DEF Receive
<1>2. ASSUME NEW c \in Calls,
             CheckTransaction(c) \/ CountDay(c) \/ CountPair(c) \/ ReadRefund(c)
      PROVE  TypeOK'
  BY <1>2 DEF CheckTransaction, CountDay, CountPair, Count, ReadRefund, Limits
<1>3. ASSUME NEW c \in Calls, InsertRefund(c) \/ UpdateRefund(c) PROVE TypeOK'
  BY <1>3, JobFields DEF InsertRefund, UpdateRefund, Statuses
<1>4. ASSUME NEW c \in Calls, ProcessRefund(c) PROVE TypeOK'
  BY <1>4, JobFields DEF ProcessRefund, Pay
<1>5. ASSUME NEW c \in Calls, FireEvents(c) PROVE TypeOK'
  BY <1>5, JobFields DEF FireEvents, Events
<1>6. CASE AutoApprove
  BY <1>6 DEF AutoApprove, Overdue, Statuses
<1>7. ASSUME NEW t \in Txs, AutoProcess(t) PROVE TypeOK'
  BY <1>7 DEF AutoProcess, Pay, Events
<1>8. ASSUME NEW t \in Txs, Grow(t) PROVE TypeOK'
  BY <1>8 DEF Grow, Ages
<1>9. CASE Crash
  BY <1>9 DEF Crash
<1>10. CASE UNCHANGED vars
  BY <1>10 DEF vars
<1> QED
  BY <1>1, <1>2, <1>3, <1>4, <1>5, <1>6, <1>7, <1>8, <1>9, <1>10
  DEF Next, Handle, Loop, Quiescent

\* Consent once given is never withdrawn.
LEMMA ConsentGrows ==
    ASSUME ConsentInv, [Next]_vars, NEW t \in Txs, Consented(t)
    PROVE  Consented(t)'
<1> USE DEF ConsentInv, TypeOK, Goto
<1>1. CASE age[t] = "overdue"
  <2>1. age'[t] = "overdue"
    BY <1>1 DEF Next, Handle, Loop, Receive, CheckTransaction, CountDay, CountPair, Count, ReadRefund,
                InsertRefund, UpdateRefund, ProcessRefund, FireEvents, AutoApprove,
                AutoProcess, Grow, Crash, Quiescent, vars
  <2> QED BY <2>1 DEF Consented
<1>2. CASE \E c \in Calls : Tx(c) = t /\ Approving(c)
  <2>1. PICK c \in Calls : Tx(c) = t /\ Approving(c)
    BY <1>2
  <2>2. job' = job
    BY DEF Next, Handle, Loop, Receive, CheckTransaction, CountDay, CountPair, Count, ReadRefund,
           InsertRefund, UpdateRefund, ProcessRefund, FireEvents, AutoApprove, AutoProcess,
           Grow, Crash, Quiescent, vars
  <2>3. pc'[c] \notin {"unsent", "read", "refused"}
    BY <2>1 DEF Approving, Next, Handle, Loop, Receive, CheckTransaction, CountDay, CountPair, Count,
                ReadRefund, InsertRefund, UpdateRefund, ProcessRefund, FireEvents, AutoApprove,
                AutoProcess, Grow, Crash, Quiescent, vars
  <2> QED BY <2>1, <2>2, <2>3 DEF Consented, Approving, Tx
<1> QED BY <1>1, <1>2 DEF Consented

\* What a call of each kind may be doing.
LEMMA KindStep ==
    ASSUME ConsentInv, [Next]_vars
    PROVE  /\ \A c \in Calls : pc'[c] \in {"check", "count_day", "count_pair", "insert"}
                                 => job'[c].kind = "request"
           /\ \A c \in Calls : pc'[c] \in {"read", "update", "process", "fire", "failed"}
                                 => job'[c].kind # "request"
  BY JobFields
  DEF ConsentInv, TypeOK, Goto, Next, Handle, Loop, Receive, CheckTransaction, CountDay,
      CountPair, Count, ReadRefund, InsertRefund, UpdateRefund, ProcessRefund, FireEvents,
      AutoApprove, AutoProcess, Grow, Crash, Quiescent, vars

\* A refund becomes approved, or is paid, only with consent.
LEMMA ConsentStep ==
    ASSUME ConsentInv, [Next]_vars, NEW t \in Txs,
           status'[t] \in Approved \/ t \in credited'
    PROVE  Consented(t)'
<1> USE DEF ConsentInv, TypeOK, Goto, Approved
<1>1. CASE status[t] \in Approved \/ t \in credited
  BY <1>1, ConsentGrows
<1>2. ASSUME NEW c \in Calls, UpdateRefund(c), ~(status[t] \in Approved \/ t \in credited)
      PROVE  Consented(t)'
  <2>1. Tx(c) = t /\ job[c].kind = "approve" /\ pc'[c] = "process" /\ job' = job
    BY <1>2 DEF UpdateRefund
  <2> QED BY <2>1 DEF Consented, Approving, Tx
<1>3. CASE AutoApprove
  <2>1. age'[t] = "overdue" \/ Consented(t)
    BY <1>3 DEF AutoApprove, Overdue
  <2> QED BY <2>1, ConsentGrows DEF Consented
<1>4. CASE UNCHANGED <<status, credited>>
  BY <1>1, <1>4
<1>5. ASSUME NEW c \in Calls, InsertRefund(c) \/ ProcessRefund(c) PROVE Consented(t)'
  BY <1>1, <1>5 DEF InsertRefund, ProcessRefund, Pay
<1>6. ASSUME NEW s \in Txs, AutoProcess(s) PROVE Consented(t)'
  BY <1>1, <1>6 DEF AutoProcess, Pay
<1> QED
  BY <1>1, <1>2, <1>3, <1>4, <1>5, <1>6
  DEF Next, Handle, Loop, Receive, CheckTransaction, CountDay, CountPair, Count, ReadRefund,
      FireEvents, Grow, Crash, Quiescent, vars

\* ConsentInv holds in every reachable state.
THEOREM Invariance == Spec => []ConsentInv
<1>1. Init => ConsentInv
  BY DEF Init, ConsentInv, TypeOK, Working, Finished, Statuses, Ages, Approved, Events
<1>2. ConsentInv /\ [Next]_vars => ConsentInv'
  <2> SUFFICES ASSUME ConsentInv, [Next]_vars PROVE ConsentInv'
    OBVIOUS
  <2>1. TypeOK'
    BY TypeStep DEF ConsentInv
  <2>2. \A t \in Txs : status'[t] \in Approved \/ t \in credited' => Consented(t)'
    BY ConsentStep
  <2> QED BY <2>1, <2>2, KindStep DEF ConsentInv
<1> QED BY <1>1, <1>2, PTL DEF Spec

\* Every variable of the refund API keeps its type.
THEOREM TypeCorrect == Spec => []TypeOK
  BY Invariance, PTL DEF ConsentInv

\* No refund is paid unless the provider approved or the window passed, for any
\* number of calls in progress and under every fault.
THEOREM ConsentSafety == Spec => []CreditNeedsConsent
<1>1. ConsentInv => CreditNeedsConsent
  BY DEF ConsentInv, TypeOK, CreditNeedsConsent
<1> QED BY <1>1, Invariance, PTL

(***************************************************************************)
(* The limits, however requests overlap                                    *)
(***************************************************************************)
\* The charges a limit counts together with t, and how many it allows.
Peers(limit, t) ==
    {u \in Txs : Agent[u] = Agent[t] /\ (limit = "pair" => Provider[u] = Provider[t])}
Allowed(limit) == IF limit = "day" THEN DayLimit ELSE PairLimit

Recent(limit, t) == {u \in Peers(limit, t) : status[u] # "absent" /\ age[u] = "day"}

\* Where a request stands that passed a limit and has not inserted its row.
Past(limit) == IF limit = "day" THEN {"count_pair", "insert"} ELSE {"insert"}

\* The counted requests that are past a limit, and those granted today.
Held(limit, t) ==
    {c \in Calls :
        /\ Tx(c) \in Peers(limit, t) /\ <<c, limit>> \notin uncounted
        /\ pc[c] \in Past(limit) \/ (c \in Granted /\ age[Tx(c)] = "day")}

\* A request is granted with its row, and a row stays.
GrantInv ==
    /\ \A t \in Txs : status[t] # "absent" => \E c \in Granted : Tx(c) = t
    /\ \A c \in Calls : c \in Granted \/ pc[c] = "update" => status[Tx(c)] # "absent"
    /\ \A c, d \in Granted : Tx(c) = Tx(d) => c = d

\* Who passes a limit finds fewer rows than it allows, and with it are at most the
\* requests in progress; after that a row only takes the place of its request.
OverrunInv ==
    /\ ConsentInv
    /\ Cardinality(InFlight) <= MaxInFlight
    /\ GrantInv
    /\ \A limit \in Limits, t \in Txs : Cardinality(Held(limit, t)) < Allowed(limit) + MaxInFlight

LEMMA AtMostOneMore ==
    ASSUME NEW S, IsFiniteSet(S), NEW T, NEW x, T \subseteq S \union {x}
    PROVE  Cardinality(T) <= Cardinality(S) + 1 /\ Cardinality(T) \in Nat
<1>1. IsFiniteSet(S \union {x}) /\ Cardinality(S \union {x}) <= Cardinality(S) + 1
  <2>1. Cardinality(S) \in Nat
    BY FS_CardinalityType
  <2>2. CASE x \in S
    <3>1. S \union {x} = S
      BY <2>2
    <3> QED BY <2>1, <3>1
  <2>3. CASE x \notin S
    <3>1. IsFiniteSet(S \union {x})
      BY FS_AddElement
    <3>2. Cardinality(S \union {x}) = Cardinality(S) + 1
      BY <2>3, FS_AddElement
    <3> QED BY <2>1, <3>1, <3>2
  <2> QED BY <2>2, <2>3
<1>2. IsFiniteSet(T) /\ Cardinality(T) <= Cardinality(S \union {x})
  BY <1>1, FS_Subset
<1> QED BY <1>1, <1>2, FS_CardinalityType

LEMMA RecentMeans ==
    ASSUME NEW t \in Txs
    PROVE  /\ Recent("day", t) = RecentOfAgent(Agent[t])
           /\ Recent("pair", t) = RecentOfPair(Agent[t], Provider[t])
  BY DEF Recent, Peers, RecentOfAgent, RecentOfPair

LEMMA Finite ==
    ASSUME NEW limit, NEW t
    PROVE  /\ IsFiniteSet(InFlight) /\ Cardinality(InFlight) \in Nat
           /\ IsFiniteSet(Held(limit, t)) /\ Cardinality(Held(limit, t)) \in Nat
           /\ IsFiniteSet(Recent(limit, t)) /\ Cardinality(Recent(limit, t)) \in Nat
<1>1. IsFiniteSet(InFlight) /\ IsFiniteSet(Held(limit, t))
  BY RefundAssumption, FS_Subset DEF InFlight, Held
<1>2. IsFiniteSet(Recent(limit, t))
  BY RefundAssumption, FS_Subset DEF Recent, Peers
<1> QED BY <1>1, <1>2, FS_CardinalityType

\* No more requests are granted today than there are rows of today.
LEMMA GrantedAreRows ==
    ASSUME OverrunInv, NEW limit, NEW t,
           NEW G, G = {c \in Granted : Tx(c) \in Peers(limit, t) /\ age[Tx(c)] = "day"}
    PROVE  IsFiniteSet(G) /\ Cardinality(G) <= Cardinality(Recent(limit, t))
<1> DEFINE f == [c \in G |-> Tx(c)]
<1>1. f \in Injection(G, Recent(limit, t))
  <2>1. \A c \in G : Tx(c) \in Recent(limit, t)
    BY DEF OverrunInv, GrantInv, Granted, Recent, Peers
  <2>2. \A c, d \in G : Tx(c) = Tx(d) => c = d
    BY DEF OverrunInv, GrantInv
  <2> QED BY <2>1, <2>2 DEF Injection, IsInjective
<1> QED BY <1>1, Finite, FS_Injection

\* The rows a limit counts, apart from the uncounted, stand for requests it holds.
LEMMA RowsAreHeld ==
    ASSUME OverrunInv, NEW limit \in Limits, NEW t \in Txs
    PROVE  Cardinality(Recent(limit, t) \ Uncounted(limit)) <= Cardinality(Held(limit, t))
<1> DEFINE rows == Recent(limit, t) \ Uncounted(limit)
           f == [u \in rows |-> CHOOSE c \in Held(limit, t) : Tx(c) = u]
<1>1. ASSUME NEW u \in rows PROVE \E c \in Held(limit, t) : Tx(c) = u
  <2>1. u \in Txs /\ status[u] # "absent" /\ age[u] = "day" /\ u \in Peers(limit, t)
    BY DEF Recent, Peers
  <2>2. PICK c \in Granted : Tx(c) = u
    BY <2>1 DEF OverrunInv, GrantInv
  <2>3. <<c, limit>> \notin uncounted
    BY <2>2 DEF Uncounted
  <2>4. c \in Calls
    BY DEF Granted
  <2> QED BY <2>1, <2>2, <2>3, <2>4 DEF Held
<1>2. \A u \in rows : f[u] \in Held(limit, t) /\ Tx(f[u]) = u
  BY <1>1
<1>3. f \in Injection(rows, Held(limit, t))
  <2>1. f \in [rows -> Held(limit, t)]
    BY <1>2
  <2>2. \A u, v \in rows : f[u] = f[v] => u = v
    BY <1>2
  <2> HIDE DEF f
  <2> QED BY <2>1, <2>2 DEF Injection, IsInjective
<1> QED BY <1>3, Finite, FS_Injection

LEMMA UnionBound ==
    ASSUME NEW S, NEW T, IsFiniteSet(S), IsFiniteSet(T)
    PROVE  IsFiniteSet(S \union T) /\ Cardinality(S \union T) <= Cardinality(S) + Cardinality(T)
<1>1. IsFiniteSet(S \intersect T)
  BY FS_Intersection
<1>2. Cardinality(S) \in Nat /\ Cardinality(T) \in Nat /\ Cardinality(S \intersect T) \in Nat
  BY <1>1, FS_CardinalityType
<1>3. /\ IsFiniteSet(S \union T)
      /\ Cardinality(S \union T) = Cardinality(S) + Cardinality(T) - Cardinality(S \intersect T)
  BY FS_Union
<1> QED BY <1>2, <1>3

\* A step after which a limit holds nothing new.
LEMMA HeldShrinks ==
    ASSUME OverrunInv, NEW limit \in Limits, NEW t \in Txs, Held(limit, t)' \subseteq Held(limit, t)
    PROVE  Cardinality(Held(limit, t))' < Allowed(limit) + MaxInFlight
<1>1. Cardinality(Held(limit, t)) < Allowed(limit) + MaxInFlight
  BY DEF OverrunInv
<1>2. /\ Cardinality(Held(limit, t)') <= Cardinality(Held(limit, t))
      /\ Cardinality(Held(limit, t)') \in Nat
  BY Finite, FS_Subset, FS_CardinalityType
<1> QED BY <1>1, <1>2, Finite, RefundAssumption DEF Allowed

\* A request passes a limit that it finds not exhausted.
LEMMA HeldGrows ==
    ASSUME OverrunInv, NEW limit \in Limits, NEW t \in Txs,
           Cardinality(Recent(limit, t)) < Allowed(limit),
           InFlight' = InFlight, Granted' = Granted, UNCHANGED <<job, age>>
    PROVE  Cardinality(Held(limit, t))' < Allowed(limit) + MaxInFlight
<1> DEFINE G == {c \in Granted : Tx(c) \in Peers(limit, t) /\ age[Tx(c)] = "day"}
<1>1. IsFiniteSet(G) /\ Cardinality(G) <= Cardinality(Recent(limit, t))
  BY GrantedAreRows
<1>2. Held(limit, t)' \subseteq G \union InFlight
  <2>1. ASSUME NEW c \in Held(limit, t)' PROVE c \in G \union InFlight'
    BY <2>1 DEF Held, Past, InFlight, Working, Tx
  <2> QED BY <2>1
<1> HIDE DEF G
<1>3. /\ IsFiniteSet(G \union InFlight)
      /\ Cardinality(G \union InFlight) <= Cardinality(G) + Cardinality(InFlight)
  BY <1>1, Finite, UnionBound
<1>4. /\ Cardinality(Held(limit, t)') <= Cardinality(G \union InFlight)
      /\ Cardinality(Held(limit, t)') \in Nat
  BY <1>2, <1>3, FS_Subset, FS_CardinalityType
<1>5. Cardinality(InFlight) <= MaxInFlight
  BY DEF OverrunInv
<1>6. Cardinality(G) \in Nat /\ Cardinality(G \union InFlight) \in Nat
  BY <1>1, <1>3, FS_CardinalityType
<1> QED BY <1>1, <1>3, <1>4, <1>5, <1>6, Finite, RefundAssumption DEF Allowed

\* Neither a new request nor one at a limit or at its INSERT: the limits hold no
\* request that they did not hold before.
Aside ==
    /\ job' = job /\ uncounted' = uncounted
    /\ \A c \in Calls : pc'[c] \in Working => pc[c] \in Working
    /\ \A c \in Calls : pc'[c] \in {"count_pair", "insert"} => pc'[c] = pc[c]
    /\ \A c \in Calls : job[c].kind = "request" => (pc'[c] = "done" <=> pc[c] = "done")
    /\ \A c \in Calls : pc'[c] = "update" => pc[c] = "update" \/ status[Tx(c)] # "absent"
    /\ \A t \in Txs : age'[t] = "day" => age[t] = "day"
    /\ \A t \in Txs :
           \/ status'[t] = status[t]
           \/ /\ status'[t] # "absent"
              /\ status[t] # "absent" \/ \E c \in Calls : pc[c] = "update" /\ Tx(c) = t

LEMMA StepsAside ==
    ASSUME ConsentInv, [Next]_vars
    PROVE  \/ \E c \in Calls : Receive(c) \/ InsertRefund(c) \/ CountDay(c) \/ CountPair(c)
           \/ Aside
<1> USE DEF ConsentInv, TypeOK, Goto, Working, Aside
<1>0. \A c \in Calls : Tx(c) \in Txs
  BY JobFields
<1>1. ASSUME NEW c \in Calls, CheckTransaction(c) \/ ReadRefund(c) \/ ProcessRefund(c) \/ FireEvents(c)
      PROVE  Aside
  BY <1>1 DEF CheckTransaction, ReadRefund, ProcessRefund, FireEvents
<1>2. ASSUME NEW c \in Calls, UpdateRefund(c) PROVE Aside
  BY <1>0, <1>2 DEF UpdateRefund
<1>3. CASE AutoApprove
  BY <1>3 DEF AutoApprove, Overdue
<1>4. ASSUME NEW t \in Txs, AutoProcess(t) \/ Grow(t) PROVE Aside
  BY <1>4 DEF AutoProcess, Grow
<1>5. CASE Crash
  BY <1>5 DEF Crash, InFlight
<1>6. CASE UNCHANGED vars
  BY <1>6 DEF vars
<1> HIDE DEF Aside
<1> QED BY <1>1, <1>2, <1>3, <1>4, <1>5, <1>6 DEF Next, Handle, Loop, Quiescent

LEMMA InFlightStep ==
    ASSUME OverrunInv, [Next]_vars
    PROVE  Cardinality(InFlight)' <= MaxInFlight
<1>1. ASSUME NEW c \in Calls, Receive(c) PROVE Cardinality(InFlight)' <= MaxInFlight
  <2>1. InFlight' \subseteq InFlight \union {c}
    BY <1>1 DEF Receive, Goto, InFlight, OverrunInv, ConsentInv, TypeOK
  <2>2. Cardinality(InFlight) < MaxInFlight
    BY <1>1, Finite, RefundAssumption DEF Receive, Busy
  <2>3. Cardinality(InFlight') <= Cardinality(InFlight) + 1 /\ Cardinality(InFlight') \in Nat
    BY <2>1, Finite, AtMostOneMore
  <2> QED BY <2>2, <2>3, Finite, RefundAssumption
<1>2. ASSUME InFlight' \subseteq InFlight PROVE Cardinality(InFlight)' <= MaxInFlight
  <2>1. Cardinality(InFlight') <= Cardinality(InFlight) /\ Cardinality(InFlight') \in Nat
    BY <1>2, Finite, FS_Subset, FS_CardinalityType
  <2> QED BY <2>1, Finite, RefundAssumption DEF OverrunInv
<1>3. ASSUME NEW c \in Calls, InsertRefund(c) \/ CountDay(c) \/ CountPair(c)
      PROVE  InFlight' \subseteq InFlight
  BY <1>3
  DEF InsertRefund, CountDay, CountPair, Count, Goto, InFlight, Working, OverrunInv, ConsentInv, TypeOK
<1>4. Aside => InFlight' \subseteq InFlight
  BY DEF Aside, InFlight
<1> QED BY <1>1, <1>2, <1>3, <1>4, StepsAside DEF OverrunInv

LEMMA GrantStep ==
    ASSUME OverrunInv, [Next]_vars
    PROVE  GrantInv'
<1> USE DEF OverrunInv, GrantInv
<1>0. \A c \in Calls : Tx(c) \in Txs
  BY JobFields DEF ConsentInv
<1>1. TypeOK
  BY DEF ConsentInv
<1>2. ASSUME NEW c \in Calls, InsertRefund(c), status' # status
      PROVE  GrantInv'
  <2> DEFINE u == Tx(c)
  <2>1. /\ u \in Txs /\ status[u] = "absent" /\ status' = [status EXCEPT ![u] = "requested"]
        /\ job' = job /\ pc' = [pc EXCEPT ![c] = "done"] /\ pc[c] = "insert"
    BY <1>0, <1>2 DEF InsertRefund, Goto
  <2>2. job[c].kind = "request"
    BY <2>1 DEF ConsentInv
  <2>3. Granted' = Granted \union {c}
    BY <1>1, <2>1, <2>2 DEF Granted, TypeOK
  <2>4. \A d : Tx(d)' = Tx(d)
    BY <2>1 DEF Tx
  <2>5. \A d \in Calls : d \in Granted \/ pc[d] = "update" => Tx(d) # u
    BY <2>1
  <2>6. \A t \in Txs : status'[t] = IF t = u THEN "requested" ELSE status[t]
    BY <1>1, <2>1 DEF TypeOK
  <2>7. \A d \in Calls : pc'[d] = "update" => pc[d] = "update"
    BY <1>1, <2>1 DEF TypeOK
  <2>8. \A d \in Granted : d \in Calls
    BY DEF Granted
  <2>9. Tx(c) = u
    OBVIOUS
  <2> HIDE DEF u
  <2> QED BY <1>0, <2>1, <2>3, <2>4, <2>5, <2>6, <2>7, <2>8, <2>9
<1>3. ASSUME Granted' = Granted, job' = job,
             \A c \in Calls : pc'[c] = "update" => pc[c] = "update" \/ status[Tx(c)] # "absent",
             \A t \in Txs : \/ status'[t] = status[t]
                            \/ /\ status'[t] # "absent"
                               /\ status[t] # "absent" \/ \E c \in Calls : pc[c] = "update" /\ Tx(c) = t
      PROVE  GrantInv'
  <2>1. \A c : Tx(c)' = Tx(c)
    BY <1>3 DEF Tx
  <2>2. \A t \in Txs : status'[t] # "absent" <=> status[t] # "absent"
    BY <1>3
  <2>3. \A c \in Granted : c \in Calls
    BY DEF Granted
  <2> QED BY <1>0, <1>3, <2>1, <2>2, <2>3
<1>4. Aside => Granted' = Granted
  BY DEF Aside, Granted
<1>5. ASSUME NEW c \in Calls, Receive(c) \/ CountDay(c) \/ CountPair(c) \/ (InsertRefund(c) /\ status' = status)
      PROVE  /\ Granted' = Granted /\ job' = job /\ status' = status
             /\ \A d \in Calls : pc'[d] = "update" => pc[d] = "update"
  <2>1. /\ job' = job /\ status' = status
        /\ \E there \in {"check", "read", "count_pair", "insert", "refused"} : pc' = [pc EXCEPT ![c] = there]
        /\ pc[c] # "done"
    BY <1>0, <1>1, <1>5 DEF TypeOK, Receive, CountDay, CountPair, Count, InsertRefund, Goto
  <2> QED BY <1>1, <2>1 DEF Granted, TypeOK
<1> QED BY <1>2, <1>3, <1>4, <1>5, StepsAside DEF Aside

LEMMA HeldStep ==
    ASSUME OverrunInv, [Next]_vars, NEW limit \in Limits, NEW t \in Txs
    PROVE  Cardinality(Held(limit, t))' < Allowed(limit) + MaxInFlight
<1>0. TypeOK /\ \A c \in Calls : Tx(c) \in Txs
  BY JobFields DEF OverrunInv, ConsentInv
<1>1. CASE Aside
  <2>1. \A c : Tx(c)' = Tx(c)
    BY <1>1 DEF Aside, Tx
  <2>2. ASSUME NEW c \in Held(limit, t)' PROVE c \in Held(limit, t)
    <3>1. /\ c \in Calls /\ Tx(c) \in Peers(limit, t) /\ <<c, limit>> \notin uncounted
          /\ pc'[c] \in Past(limit) \/ (c \in Granted' /\ age'[Tx(c)] = "day")
      BY <1>1, <2>1, <2>2 DEF Held, Aside
    <3>2. c \in Granted' => c \in Granted
      BY <1>1 DEF Aside, Granted
    <3>3. pc'[c] \in Past(limit) => pc[c] \in Past(limit)
      BY <1>1, <3>1 DEF Aside, Past
    <3> QED BY <1>0, <1>1, <3>1, <3>2, <3>3 DEF Held, Aside
  <2>3. Held(limit, t)' \subseteq Held(limit, t)
    BY <2>2
  <2> QED BY <2>3, HeldShrinks
<1>2. ASSUME NEW c \in Calls, Receive(c) \/ InsertRefund(c)
      PROVE  Held(limit, t)' \subseteq Held(limit, t)
  <2>1. /\ job' = job /\ uncounted' = uncounted /\ age' = age
        /\ \/ \E there \in {"check", "read", "refused"} : pc' = [pc EXCEPT ![c] = there]
           \/ pc[c] = "insert" /\ pc' = [pc EXCEPT ![c] = "done"]
    BY <1>2 DEF Receive, InsertRefund, Goto
  <2> QED BY <1>0, <2>1 DEF Held, Past, Granted, TypeOK, Tx
<1>3. ASSUME NEW c \in Calls, CountDay(c) \/ CountPair(c)
      PROVE  Cardinality(Held(limit, t))' < Allowed(limit) + MaxInFlight
  <2> DEFINE name == IF pc[c] = "count_day" THEN "day" ELSE "pair"
             there == IF pc[c] = "count_day" THEN "count_pair" ELSE "insert"
  <2>0. PICK u \in Txs : u = Tx(c)
    BY <1>0
  <2>1. /\ pc[c] \in {"count_day", "count_pair"} /\ UNCHANGED <<job, age, status>>
        /\ uncounted \subseteq uncounted'
        /\ \/ pc' = [pc EXCEPT ![c] = "refused"]
           \/ pc' = [pc EXCEPT ![c] = there] /\ <<c, name>> \in uncounted'
           \/ pc' = [pc EXCEPT ![c] = there] /\ Cardinality(Recent(name, u)) < Allowed(name)
    BY <1>3, <2>0, RecentMeans DEF CountDay, CountPair, Count, Goto, Allowed
  <2>2. \A d : Tx(d)' = Tx(d)
    BY <2>1 DEF Tx
  <2>3. (Granted' = Granted /\ InFlight' = InFlight) \/ pc' = [pc EXCEPT ![c] = "refused"]
    BY <1>0, <2>1 DEF Granted, InFlight, Working, TypeOK
  <2>4. Granted' = Granted
    BY <1>0, <2>1 DEF Granted, TypeOK
  <2>5. CASE c \in Held(limit, t)' /\ c \notin Held(limit, t)
    <3>1. name = limit /\ u \in Peers(limit, t) /\ <<c, limit>> \notin uncounted' /\ pc'[c] \in Past(limit)
      BY <1>0, <2>0, <2>1, <2>2, <2>4, <2>5 DEF Held, Past, TypeOK, Limits, Granted
    <3>2. Recent(limit, t) = Recent(limit, u)
      BY <3>1 DEF Recent, Peers
    <3>3. InFlight' = InFlight /\ Cardinality(Recent(limit, t)) < Allowed(limit)
      BY <1>0, <2>1, <2>3, <3>1, <3>2 DEF Past, TypeOK
    <3> QED BY <2>1, <2>4, <3>3, HeldGrows
  <2>6. CASE ~(c \in Held(limit, t)' /\ c \notin Held(limit, t))
    <3>1. ASSUME NEW d \in Held(limit, t)', d # c PROVE d \in Held(limit, t)
      BY <1>0, <2>1, <2>2, <2>4, <3>1 DEF Held, TypeOK
    <3>2. Held(limit, t)' \subseteq Held(limit, t)
      BY <2>6, <3>1
    <3> QED BY <3>2, HeldShrinks
  <2> QED BY <2>5, <2>6
<1> QED BY <1>1, <1>2, <1>3, HeldShrinks, StepsAside DEF OverrunInv

LEMMA OverrunStart == Init => OverrunInv
<1> SUFFICES ASSUME Init PROVE OverrunInv
  OBVIOUS
<1>1. ConsentInv
  BY DEF Init, ConsentInv, TypeOK, Working, Finished, Statuses, Ages, Approved, Events
<1>2. Granted = {} /\ InFlight = {}
  BY DEF Init, Granted, InFlight, Working
<1>3. \A limit, t : Held(limit, t) = {}
  BY <1>2 DEF Init, Held, Past
<1>4. Cardinality({}) = 0
  BY FS_EmptySet
<1>5. \A limit : 0 < Allowed(limit) + MaxInFlight /\ 0 <= MaxInFlight
  BY RefundAssumption DEF Allowed
<1>6. GrantInv
  BY <1>2 DEF GrantInv, Init
<1> QED BY <1>1, <1>2, <1>3, <1>4, <1>5, <1>6 DEF OverrunInv

\* However requests overlap, fail and are cut off, for every number of charges,
\* agents, providers and requests in progress and whatever the limits: the refunds
\* of a day exceed a limit by fewer than the requests in progress at once.
THEOREM OverlapBounds == Spec => []OverrunBounded
<1>1. OverrunInv /\ ConsentInv' /\ [Next]_vars => OverrunInv'
  <2> SUFFICES ASSUME OverrunInv, ConsentInv', [Next]_vars PROVE OverrunInv'
    OBVIOUS
  <2> QED BY InFlightStep, GrantStep, HeldStep DEF OverrunInv
<1>2. OverrunInv => OverrunBounded
  <2> SUFFICES ASSUME OverrunInv, NEW t \in Txs
               PROVE  /\ Cardinality(Recent("day", t) \ Uncounted("day")) < DayLimit + MaxInFlight
                      /\ Cardinality(Recent("pair", t) \ Uncounted("pair")) < PairLimit + MaxInFlight
    BY RecentMeans DEF OverrunBounded
  <2>1. ASSUME NEW limit \in Limits
        PROVE  Cardinality(Recent(limit, t) \ Uncounted(limit)) < Allowed(limit) + MaxInFlight
    <3>1. Cardinality(Recent(limit, t) \ Uncounted(limit)) <= Cardinality(Held(limit, t))
      BY RowsAreHeld
    <3>2. Cardinality(Held(limit, t)) < Allowed(limit) + MaxInFlight
      BY DEF OverrunInv
    <3>3. Cardinality(Recent(limit, t) \ Uncounted(limit)) \in Nat
      BY Finite, FS_Subset, FS_CardinalityType
    <3> QED BY <3>1, <3>2, <3>3, Finite, RefundAssumption DEF Allowed
  <2> QED BY <2>1 DEF Limits, Allowed
<1> QED BY <1>1, <1>2, OverrunStart, Invariance, PTL DEF Spec

(***************************************************************************)
(* One call or batch at a time, and nothing fails                          *)
(***************************************************************************)
\* A verdict finds the status that was read, since nobody else is at work.
AloneInv ==
    /\ \A c, d \in Calls : pc[c] \in Working /\ pc[d] \in Working => c = d
    /\ \A c \in Calls : pc[c] \in Working => batch = {}
    /\ \A c \in Calls : pc[c] = "update" => status[Tx(c)] = "requested"

\* A request that was counted is still below the limits when it inserts.
CountInv ==
    /\ \A c \in Calls : pc[c] \in {"count_pair", "insert"} =>
           Cardinality(RecentOfAgent(Agent[Tx(c)])) < DayLimit
    /\ \A c \in Calls : pc[c] = "insert" =>
           Cardinality(RecentOfPair(Agent[Tx(c)], Provider[Tx(c)])) < PairLimit

SerialInv ==
    mode = "serial" => TypeOK /\ AloneInv /\ CreditMatchesVerdict /\ CountInv

LEMMA SameCardinality == \A S : Serial!Cardinality(S) = Cardinality(S)
  BY DEF Cardinality, Serial!Cardinality

\* Below the bound of one, nothing is in progress.
LEMMA Idle ==
    ASSUME Serial!Busy < 1
    PROVE  (\A c \in Calls : pc[c] \notin Working) /\ batch = {}
<1> DEFINE loop == IF batch = {} THEN 0 ELSE 1
<1>1. IsFiniteSet(InFlight)
  BY RefundAssumption, FS_Subset DEF InFlight
<1>2. Cardinality(InFlight) \in Nat
  BY <1>1, FS_CardinalityType
<1>3. Cardinality(InFlight) + loop < 1
  BY SameCardinality DEF Serial!Busy, Serial!InFlight, InFlight, Working, Serial!Working
<1>4. Cardinality(InFlight) = 0 /\ batch = {}
  BY <1>2, <1>3
<1>5. InFlight = {}
  BY <1>1, <1>4, FS_EmptySet
<1> QED BY <1>4, <1>5 DEF InFlight

\* The counts of the two limits are of finite sets, the second within the first.
LEMMA RecentFinite ==
    ASSUME NEW a, NEW p
    PROVE  /\ IsFiniteSet(RecentOfAgent(a)) /\ IsFiniteSet(RecentOfPair(a, p))
           /\ Cardinality(RecentOfAgent(a)) \in Nat /\ Cardinality(RecentOfPair(a, p)) \in Nat
<1>1. IsFiniteSet(RecentOfAgent(a))
  BY RefundAssumption, FS_Subset DEF RecentOfAgent
<1>2. IsFiniteSet(RecentOfPair(a, p))
  BY <1>1, FS_Subset DEF RecentOfPair
<1> QED BY <1>1, <1>2, FS_CardinalityType

\* Only a request adds to what the limits count.
LEMMA RecentShrinks ==
    ASSUME \A t \in Txs : status'[t] # "absent" /\ age'[t] = "day" => status[t] # "absent" /\ age[t] = "day",
           NEW a, NEW p
    PROVE  /\ Cardinality(RecentOfAgent(a)') \in Nat
           /\ Cardinality(RecentOfAgent(a)') <= Cardinality(RecentOfAgent(a))
           /\ Cardinality(RecentOfPair(a, p)') \in Nat
           /\ Cardinality(RecentOfPair(a, p)') <= Cardinality(RecentOfPair(a, p))
<1>1. RecentOfAgent(a)' \subseteq RecentOfAgent(a)
  BY DEF RecentOfAgent
<1>2. RecentOfPair(a, p)' \subseteq RecentOfPair(a, p)
  BY <1>1 DEF RecentOfPair
<1> QED BY <1>1, <1>2, RecentFinite, FS_Subset, FS_CardinalityType

\* What every step but a request's INSERT keeps of the counts.
LEMMA RecentStep ==
    ASSUME TypeOK,
           \A t \in Txs : status'[t] # "absent" /\ age'[t] = "day" => status[t] # "absent" /\ age[t] = "day",
           job' = job,
           \A c \in Calls : pc'[c] \in {"count_pair", "insert"} =>
               Cardinality(RecentOfAgent(Agent[Tx(c)])) < DayLimit,
           \A c \in Calls : pc'[c] = "insert" =>
               Cardinality(RecentOfPair(Agent[Tx(c)], Provider[Tx(c)])) < PairLimit
    PROVE  CountInv'
<1>2. ASSUME NEW t \in Txs, Cardinality(RecentOfAgent(Agent[t])) < DayLimit
      PROVE  Cardinality(RecentOfAgent(Agent[t])') < DayLimit
  BY <1>2, RecentShrinks, RecentFinite, RefundAssumption
<1>3. ASSUME NEW t \in Txs, Cardinality(RecentOfPair(Agent[t], Provider[t])) < PairLimit
      PROVE  Cardinality(RecentOfPair(Agent[t], Provider[t])') < PairLimit
  BY <1>3, RecentShrinks, RecentFinite, RefundAssumption
<1>4. \A c \in Calls : Tx(c)' = Tx(c) /\ Tx(c) \in Txs
  BY JobFields DEF Tx
<1>5. ASSUME NEW c \in Calls, pc'[c] \in {"count_pair", "insert"}
      PROVE  Cardinality(RecentOfAgent(Agent[Tx(c)]))' < DayLimit
  <2>1. \A t \in Txs : t = Tx(c) => Cardinality(RecentOfAgent(Agent[t])') < DayLimit
    BY <1>2, <1>5
  <2> QED BY <1>4, <2>1
<1>6. ASSUME NEW c \in Calls, pc'[c] = "insert"
      PROVE  Cardinality(RecentOfPair(Agent[Tx(c)], Provider[Tx(c)]))' < PairLimit
  <2>1. \A t \in Txs : t = Tx(c) => Cardinality(RecentOfPair(Agent[t], Provider[t])') < PairLimit
    BY <1>3, <1>6
  <2> QED BY <1>4, <2>1
<1> QED BY <1>5, <1>6 DEF CountInv

LEMMA VerdictStep ==
    ASSUME TypeOK, AloneInv, CreditMatchesVerdict, Serial!Next
    PROVE  TypeOK' /\ AloneInv' /\ CreditMatchesVerdict'
<1> USE DEF TypeOK, AloneInv, CreditMatchesVerdict, Working, Finished, Approved, Goto,
            Serial!Goto, Tx, Serial!Tx
<1>0. \A c \in Calls : Tx(c) \in Txs /\ job[c].kind \in {"request", "approve", "deny"}
  BY JobFields
<1>1. ASSUME NEW c \in Calls, Serial!Receive(c)
      PROVE  TypeOK' /\ AloneInv' /\ CreditMatchesVerdict'
  <2>1. (\A d \in Calls : pc[d] \notin Working) /\ batch = {}
    BY <1>1, Idle DEF Serial!Receive
  <2> QED BY <1>1, <2>1 DEF Serial!Receive
<1>2. ASSUME NEW c \in Calls,
             \/ Serial!CheckTransaction(c) \/ Serial!CountDay(c) \/ Serial!CountPair(c)
             \/ Serial!ReadRefund(c)
      PROVE  TypeOK' /\ AloneInv' /\ CreditMatchesVerdict'
  BY <1>2
  DEF Serial!CheckTransaction, Serial!CountDay, Serial!CountPair, Serial!Count, Serial!ReadRefund
<1>3. ASSUME NEW c \in Calls, Serial!InsertRefund(c) \/ Serial!UpdateRefund(c)
      PROVE  TypeOK' /\ AloneInv' /\ CreditMatchesVerdict'
  BY <1>0, <1>3 DEF Serial!InsertRefund, Serial!UpdateRefund, Statuses
<1>4. ASSUME NEW c \in Calls, Serial!ProcessRefund(c)
      PROVE  TypeOK' /\ AloneInv' /\ CreditMatchesVerdict'
  BY <1>0, <1>4 DEF Serial!ProcessRefund, Serial!Pay, Serial!Approved
<1>5. ASSUME NEW c \in Calls, Serial!FireEvents(c)
      PROVE  TypeOK' /\ AloneInv' /\ CreditMatchesVerdict'
  BY <1>0, <1>5 DEF Serial!FireEvents, Events
<1>6. ASSUME Serial!AutoApprove PROVE TypeOK' /\ AloneInv' /\ CreditMatchesVerdict'
  <2>1. \A d \in Calls : pc[d] \notin Working
    BY <1>6, Idle DEF Serial!AutoApprove
  <2> QED BY <1>6, <2>1 DEF Serial!AutoApprove, Serial!Overdue, Statuses
<1>7. ASSUME NEW t \in Txs, Serial!AutoProcess(t)
      PROVE  TypeOK' /\ AloneInv' /\ CreditMatchesVerdict'
  BY <1>7 DEF Serial!AutoProcess, Serial!Pay, Serial!Approved, Events
<1>8. ASSUME NEW t \in Txs, Serial!Grow(t)
      PROVE  TypeOK' /\ AloneInv' /\ CreditMatchesVerdict'
  BY <1>8 DEF Serial!Grow, Ages
<1>9. ASSUME UNCHANGED vars PROVE TypeOK' /\ AloneInv' /\ CreditMatchesVerdict'
  BY <1>9 DEF vars
<1> QED
  BY <1>1, <1>2, <1>3, <1>4, <1>5, <1>6, <1>7, <1>8, <1>9
  DEF Serial!Next, Serial!Handle, Serial!Loop, Serial!Crash, Serial!Quiescent, Serial!vars, vars

LEMMA CountStep ==
    ASSUME TypeOK, AloneInv, CountInv, Serial!Next
    PROVE  CountInv'
<1> USE DEF TypeOK, CountInv, Working, Goto, Serial!Goto
<1>1. ASSUME NEW c \in Calls, Serial!InsertRefund(c) PROVE CountInv'
  <2>1. \A d \in Calls : pc'[d] \notin {"count_pair", "insert"}
    BY <1>1 DEF Serial!InsertRefund, AloneInv
  <2> QED BY <2>1
<1>2. ASSUME NEW c \in Calls, Serial!CountDay(c) PROVE CountInv'
  <2>1. pc'[c] = "count_pair" => Cardinality(RecentOfAgent(Agent[Tx(c)])) < DayLimit
    BY <1>2, SameCardinality
    DEF Serial!CountDay, Serial!Count, Serial!RecentOfAgent, RecentOfAgent, Serial!Tx, Tx
  <2> QED BY <1>2, <2>1, RecentStep DEF Serial!CountDay, Serial!Count
<1>3. ASSUME NEW c \in Calls, Serial!CountPair(c) PROVE CountInv'
  <2>1. pc'[c] = "insert" =>
            Cardinality(RecentOfPair(Agent[Tx(c)], Provider[Tx(c)])) < PairLimit
    BY <1>3, SameCardinality
    DEF Serial!CountPair, Serial!Count, Serial!RecentOfPair, RecentOfPair, Serial!RecentOfAgent,
        RecentOfAgent, Serial!Tx, Tx
  <2> QED BY <1>3, <2>1, RecentStep DEF Serial!CountPair, Serial!Count
<1>4. ASSUME job' = job,
             \A t \in Txs : status'[t] # "absent" /\ age'[t] = "day"
                              => status[t] # "absent" /\ age[t] = "day",
             \A c \in Calls : pc'[c] \in {"count_pair", "insert"} => pc'[c] = pc[c]
      PROVE  CountInv'
  BY <1>4, RecentStep
<1>5. ASSUME NEW c \in Calls,
             \/ Serial!Receive(c) \/ Serial!CheckTransaction(c) \/ Serial!ReadRefund(c)
             \/ Serial!UpdateRefund(c) \/ Serial!ProcessRefund(c) \/ Serial!FireEvents(c)
      PROVE  CountInv'
  BY <1>4, <1>5
  DEF Serial!Receive, Serial!CheckTransaction, Serial!ReadRefund, Serial!UpdateRefund,
      Serial!ProcessRefund, Serial!FireEvents, AloneInv, Tx, Serial!Tx
<1>6. CASE Serial!AutoApprove
  BY <1>4, <1>6 DEF Serial!AutoApprove, Serial!Overdue
<1>7. ASSUME NEW t \in Txs, Serial!AutoProcess(t) \/ Serial!Grow(t) PROVE CountInv'
  BY <1>4, <1>7 DEF Serial!AutoProcess, Serial!Grow
<1>8. CASE UNCHANGED vars
  BY <1>4, <1>8 DEF vars
<1> QED
  BY <1>1, <1>2, <1>3, <1>5, <1>6, <1>7, <1>8
  DEF Serial!Next, Serial!Handle, Serial!Loop, Serial!Crash, Serial!Quiescent, Serial!vars, vars

LEMMA SerialStart == MCInit => SerialInv
<1> SUFFICES ASSUME Init PROVE TypeOK /\ AloneInv /\ CreditMatchesVerdict /\ CountInv
  BY DEF MCInit, SerialInv
<1> QED
  BY DEF Init, TypeOK, Statuses, Ages, Events, AloneInv, CreditMatchesVerdict, CountInv, Working

THEOREM SerialInvariance == MCSpec => []SerialInv
<1>1. SerialInv /\ [MCNext]_<<vars, mode>> => SerialInv'
  <2> SUFFICES ASSUME SerialInv, mode' = "serial", mode = "serial",
                      Serial!Next \/ UNCHANGED vars
               PROVE  (TypeOK /\ AloneInv /\ CreditMatchesVerdict /\ CountInv)'
    BY DEF SerialInv, MCNext
  <2>1. TypeOK /\ AloneInv /\ CreditMatchesVerdict /\ CountInv
    BY DEF SerialInv
  <2>2. CASE Serial!Next
    BY <2>1, <2>2, VerdictStep, CountStep
  <2>3. CASE UNCHANGED vars
    BY <2>1, <2>3
    DEF vars, TypeOK, AloneInv, CreditMatchesVerdict, CountInv, RecentOfAgent,
        RecentOfPair, Tx
  <2> QED BY <2>2, <2>3
<1>2. MCSpec => MCInit /\ [][MCNext]_<<vars, mode>>
  BY PTL DEF MCSpec
<1> QED BY <1>1, <1>2, SerialStart, PTL

\* What the handler of a verdict, and the loop, know of the rows they work on.
PaidInv ==
    /\ \A c \in Calls : pc[c] \in {"read", "update"} => job[c].kind \in {"approve", "deny"}
    /\ \A c \in Calls : pc[c] = "process" =>
           job[c].kind = "approve" /\ status[Tx(c)] = "approved" /\ Tx(c) \notin credited
    /\ \A c \in Calls : pc[c] = "fire" =>
           \/ job[c].kind = "approve" /\ Tx(c) \in credited
           \/ job[c].kind = "deny" /\ status[Tx(c)] = "denied"
    /\ \A t \in batch : status[t] = "auto_approved" /\ t \notin credited

LEMMA PaidStep ==
    ASSUME TypeOK, AloneInv, CreditMatchesVerdict, PaidInv, Serial!Next
    PROVE  PaidInv'
<1> USE DEF TypeOK, AloneInv, PaidInv, Working, Goto, Serial!Goto, Tx, Serial!Tx
<1>0. \A c \in Calls : Tx(c) \in Txs /\ job[c].kind \in {"request", "approve", "deny"}
  BY JobFields
<1>1. ASSUME NEW c \in Calls, Serial!Receive(c) PROVE PaidInv'
  BY <1>0, <1>1 DEF Serial!Receive
<1>2. ASSUME NEW c \in Calls,
             \/ Serial!CheckTransaction(c) \/ Serial!CountDay(c) \/ Serial!CountPair(c)
             \/ Serial!ReadRefund(c)
      PROVE  PaidInv'
  BY <1>2
  DEF Serial!CheckTransaction, Serial!CountDay, Serial!CountPair, Serial!Count, Serial!ReadRefund
<1>3. ASSUME NEW c \in Calls, Serial!InsertRefund(c) PROVE PaidInv'
  BY <1>0, <1>3 DEF Serial!InsertRefund
<1>4. ASSUME NEW c \in Calls, Serial!UpdateRefund(c) PROVE PaidInv'
  <2>1. Tx(c) \notin credited
    BY <1>0, <1>4 DEF Serial!UpdateRefund, CreditMatchesVerdict, Approved
  <2> QED BY <1>0, <1>4, <2>1 DEF Serial!UpdateRefund
<1>5. ASSUME NEW c \in Calls, Serial!ProcessRefund(c) PROVE PaidInv'
  BY <1>0, <1>5 DEF Serial!ProcessRefund, Serial!Pay, Serial!Approved
<1>6. ASSUME NEW c \in Calls, Serial!FireEvents(c) PROVE PaidInv'
  BY <1>6 DEF Serial!FireEvents
<1>7. ASSUME Serial!AutoApprove PROVE PaidInv'
  <2>1. \A d \in Calls : pc[d] \notin Working
    BY <1>7, Idle DEF Serial!AutoApprove
  <2>2. \A t \in Serial!Overdue : t \in Txs /\ t \notin credited
    BY DEF Serial!Overdue, CreditMatchesVerdict, Approved
  <2> QED BY <1>7, <2>1, <2>2 DEF Serial!AutoApprove
<1>8. ASSUME NEW t \in Txs, Serial!AutoProcess(t) PROVE PaidInv'
  BY <1>8 DEF Serial!AutoProcess, Serial!Pay, Serial!Approved
<1>9. ASSUME NEW t \in Txs, Serial!Grow(t) PROVE PaidInv'
  BY <1>9 DEF Serial!Grow
<1>10. ASSUME UNCHANGED vars PROVE PaidInv'
  BY <1>10 DEF vars
<1> QED
  BY <1>1, <1>2, <1>3, <1>4, <1>5, <1>6, <1>7, <1>8, <1>9, <1>10
  DEF Serial!Next, Serial!Handle, Serial!Loop, Serial!Crash, Serial!Quiescent, Serial!vars, vars

LEMMA PromiseCardinality == \A S : Promise!Cardinality(S) = Cardinality(S)
  BY DEF Cardinality, Promise!Cardinality

\* One call or batch at a time, every statement is a step of the promise or a stutter.
LEMMA PromiseStep ==
    ASSUME TypeOK, AloneInv, CreditMatchesVerdict, PaidInv, CountInv, Serial!Next
    PROVE  [Promise!Next]_(Promise!vars)
<1> USE DEF TypeOK, AloneInv, PaidInv, Working, Tx, Serial!Tx, Resolved, Statuses
<1> DEFINE verdict == [t \in Txs |-> {status[t]} \intersect Resolved]
           asked == {t \in Txs : status[t] # "absent"}
<1>0. \A c \in Calls : Tx(c) \in Txs /\ job[c].kind \in {"request", "approve", "deny"}
  BY JobFields
<1>1. ASSUME UNCHANGED <<status, age, credited, events>> PROVE UNCHANGED Promise!vars
  BY <1>1 DEF Promise!vars
<1>2. ASSUME NEW c \in Calls,
             \/ Serial!Receive(c) \/ Serial!CheckTransaction(c) \/ Serial!CountDay(c)
             \/ Serial!CountPair(c) \/ Serial!ReadRefund(c)
      PROVE  UNCHANGED Promise!vars
  BY <1>1, <1>2
  DEF Serial!Receive, Serial!CheckTransaction, Serial!CountDay, Serial!CountPair, Serial!Count, Serial!ReadRefund
<1>3. ASSUME NEW c \in Calls, Serial!InsertRefund(c)
      PROVE  (\E t \in Txs : Promise!Ask(t)) \/ UNCHANGED Promise!vars
  <2>1. CASE status' = status
    BY <1>1, <1>3, <2>1 DEF Serial!InsertRefund
  <2>2. CASE status' # status
    <3>0. PICK u \in Txs : u = Tx(c)
      BY <1>0
    <3>1. /\ u \in Txs /\ status[u] = "absent" /\ status' = [status EXCEPT ![u] = "requested"]
          /\ UNCHANGED <<age, credited, events>>
          /\ Cardinality(RecentOfAgent(Agent[u])) < DayLimit
          /\ Cardinality(RecentOfPair(Agent[u], Provider[u])) < PairLimit
      BY <3>0, <1>3, <2>2 DEF Serial!InsertRefund, CountInv
    <3>2. /\ Promise!Today(Agent[u]) = RecentOfAgent(Agent[u])
          /\ {t \in RecentOfAgent(Agent[u]) : Provider[t] = Provider[u]}
               = RecentOfPair(Agent[u], Provider[u])
      BY DEF Promise!Today, RecentOfAgent, RecentOfPair
    <3>3. u \notin asked /\ asked' = asked \union {u}
      BY <3>1
    <3>4. verdict' = verdict
      BY <3>1
    <3>5. Promise!Ask(u)
      BY <3>1, <3>2, <3>3, <3>4, PromiseCardinality DEF Promise!Ask
    <3> QED BY <3>5
  <2> QED BY <2>1, <2>2
<1>4. ASSUME NEW c \in Calls, Serial!UpdateRefund(c)
      PROVE  Promise!Decide(Tx(c), "approved") \/ Promise!Decide(Tx(c), "denied")
  <2> DEFINE u == Tx(c)
             v == IF job[c].kind = "approve" THEN "approved" ELSE "denied"
  <2>1. /\ u \in Txs /\ status[u] = "requested" /\ status' = [status EXCEPT ![u] = v]
        /\ UNCHANGED <<age, credited, events>>
    BY <1>0, <1>4 DEF Serial!UpdateRefund
  <2>2. v \in {"approved", "denied"}
    OBVIOUS
  <2> HIDE DEF u, v
  <2>3. u \in Promise!Waiting
    BY <2>1 DEF Promise!Waiting
  <2>4. asked' = asked
    BY <2>1, <2>2
  <2>5. verdict' = [verdict EXCEPT ![u] = {v}]
    <3>1. CASE v = "approved"
      BY <2>1, <3>1
    <3>2. CASE v = "denied"
      BY <2>1, <3>2
    <3> QED BY <2>2, <3>1, <3>2
  <2>6. CASE v = "approved"
    BY <2>1, <2>3, <2>4, <2>5, <2>6 DEF Promise!Decide, u
  <2>7. CASE v = "denied"
    BY <2>1, <2>3, <2>4, <2>5, <2>7 DEF Promise!Decide, u
  <2> QED BY <2>2, <2>6, <2>7
<1>5. ASSUME NEW t \in Txs, status[t] \in Approved, t \notin credited, UNCHANGED <<status, age>>,
             credited' = credited \union {t},
             events' = events \/ events' = events \union {<<t, "invocation.refunded">>}
      PROVE  Promise!Repay(t)
  <2>1. verdict[t] \in {{"approved"}, {"auto_approved"}}
    BY <1>5 DEF Approved
  <2> QED BY <1>5, <2>1 DEF Promise!Repay
<1>6. ASSUME NEW c \in Calls, Serial!ProcessRefund(c) PROVE Promise!Repay(Tx(c))
  BY <1>0, <1>5, <1>6 DEF Serial!ProcessRefund, Serial!Pay, Serial!Approved, Approved
<1>7. ASSUME NEW c \in Calls, Serial!FireEvents(c) PROVE Promise!Tell(Tx(c))
  <2>1. \/ Tx(c) \in credited /\ events' = events \union {<<Tx(c), "invocation.refunded">>}
        \/ status[Tx(c)] = "denied" /\ events' = events \union {<<Tx(c), "refund.denied">>}
    BY <1>7 DEF Serial!FireEvents
  <2>2. UNCHANGED <<status, age, credited>>
    BY <1>7 DEF Serial!FireEvents
  <2>3. status[Tx(c)] = "denied" => verdict[Tx(c)] = {"denied"}
    BY <1>0
  <2> QED BY <2>1, <2>2, <2>3 DEF Promise!Tell
<1>8. ASSUME Serial!AutoApprove PROVE \E rows \in SUBSET Txs : Promise!Lapse(rows)
  <2>1. PICK late \in SUBSET Txs : late = Serial!Overdue
    BY DEF Serial!Overdue
  <2>2. /\ \A t \in late : status[t] = "requested" /\ age[t] = "overdue"
        /\ status' = [t \in Txs |-> IF t \in late THEN "auto_approved" ELSE status[t]]
        /\ UNCHANGED <<age, credited, events>>
    BY <1>8, <2>1 DEF Serial!AutoApprove, Serial!Overdue
  <2>3. late \subseteq Promise!Waiting
    BY <2>2 DEF Promise!Waiting
  <2>4. asked' = asked
    BY <2>2
  <2>5. verdict' = [t \in Txs |-> IF t \in late THEN {"auto_approved"} ELSE verdict[t]]
    BY <2>2
  <2>6. Promise!Lapse(late)
    BY <2>2, <2>3, <2>4, <2>5 DEF Promise!Lapse
  <2> QED BY <2>6
<1>9. ASSUME NEW t \in Txs, Serial!AutoProcess(t) PROVE Promise!Repay(t)
  BY <1>5, <1>9 DEF Serial!AutoProcess, Serial!Pay, Serial!Approved, Approved
<1>10. ASSUME NEW t \in Txs, Serial!Grow(t) PROVE Promise!Grow(t)
  BY <1>10 DEF Serial!Grow, Promise!Grow
<1> HIDE DEF TypeOK, AloneInv, PaidInv, Working, Tx, Serial!Tx, Resolved, Statuses
<1>11. ASSUME NEW c \in Calls, Serial!Handle(c) PROVE Promise!Next \/ UNCHANGED Promise!vars
  <2>1. ASSUME NEW t \in Txs,
               \/ Promise!Ask(t) \/ Promise!Decide(t, "approved") \/ Promise!Decide(t, "denied")
               \/ Promise!Repay(t) \/ Promise!Tell(t)
        PROVE  Promise!Next
    BY <2>1 DEF Promise!Next
  <2>2. Tx(c) \in Txs
    BY <1>0
  <2>3. CASE Serial!InsertRefund(c)
    BY <1>3, <2>1, <2>3
  <2>4. CASE Serial!UpdateRefund(c)
    BY <1>4, <2>1, <2>2, <2>4
  <2>5. CASE Serial!ProcessRefund(c) \/ Serial!FireEvents(c)
    BY <1>6, <1>7, <2>1, <2>2, <2>5
  <2> QED BY <1>2, <1>11, <2>3, <2>4, <2>5 DEF Serial!Handle
<1>12. ASSUME Serial!Loop \/ \E t \in Txs : Serial!Grow(t) PROVE Promise!Next
  BY <1>8, <1>9, <1>10, <1>12 DEF Serial!Loop, Promise!Next
<1>13. ASSUME Serial!Crash \/ Serial!Quiescent PROVE UNCHANGED Promise!vars
  BY <1>1, <1>13 DEF Serial!Crash, Serial!Quiescent, Serial!vars
<1> QED BY <1>2, <1>11, <1>12, <1>13 DEF Serial!Next

\* One call or batch at a time and no faults, for every set of charges, agents,
\* providers and limits: who got the money back is whose refund stands approved.
THEOREM SerialVerdicts == MCSpec => []SerialMoneyFollowsVerdict
<1>1. SerialInv => SerialMoneyFollowsVerdict
  BY DEF SerialInv, SerialMoneyFollowsVerdict
<1> QED BY <1>1, SerialInvariance, PTL

\* One call or batch at a time and no faults, the queries of the handlers and of the
\* loop implement Paybacks, for every set of charges, agents, providers and limits.
THEOREM SerialImplementation == MCSpec => SerialKeepsPaybacks
<1> DEFINE Inv == SerialInv /\ (mode = "serial" => PaidInv)
<1>1. MCInit => Inv /\ (mode = "serial" => Promise!Init)
  <2>1. MCInit => PaidInv
    BY DEF MCInit, Init, PaidInv
  <2>2. MCInit => Promise!Init
    BY DEF MCInit, Init, Promise!Init, Resolved
  <2> QED BY <2>1, <2>2, SerialStart
<1>2. Inv /\ SerialInv' /\ [MCNext]_<<vars, mode>>
        => Inv' /\ [mode = "serial" => Promise!Next]_(Promise!vars)
  <2> SUFFICES ASSUME Inv, SerialInv', [MCNext]_<<vars, mode>>
               PROVE  Inv' /\ [mode = "serial" => Promise!Next]_(Promise!vars)
    OBVIOUS
  <2>1. CASE mode # "serial"
    BY <2>1 DEF MCNext
  <2>2. CASE mode = "serial" /\ Serial!Next /\ mode' = mode
    BY <2>2, PaidStep, PromiseStep DEF SerialInv
  <2>3. CASE UNCHANGED <<vars, mode>>
    BY <2>3 DEF vars, PaidInv, Tx, Promise!vars
  <2> QED BY <2>1, <2>2, <2>3 DEF MCNext
<1>3. MCSpec => MCInit /\ [][MCNext]_<<vars, mode>>
  BY PTL DEF MCSpec
<1> QED BY <1>1, <1>2, <1>3, SerialInvariance, PTL DEF SerialKeepsPaybacks
=============================================================================
