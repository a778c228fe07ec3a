--------------------------- MODULE SettlementProofs ---------------------------
(* Theorems about Settlement, for every number of rows and blocks. *)
EXTENDS Settlement, TLAPS

(***************************************************************************)
(* Types                                                                   *)
(***************************************************************************)
\* A batch selects rows; what is left of one is a batch.
LEMMA BatchRows ==
    ASSUME TypeOK, NEW h \in Hubs
    PROVE  /\ DOMAIN batch[h] \subseteq Rows
           /\ \A r \in DOMAIN batch[h] : batch[h][r] \in Selected
  BY DEF TypeOK

LEMMA FunctionOfRows ==
    ASSUME NEW S \in SUBSET Rows, NEW f \in [S -> Selected]
    PROVE  f \in UNION {[T -> Selected] : T \in SUBSET Rows}
  OBVIOUS

LEMMA LeaveType ==
    ASSUME TypeOK, NEW h \in Hubs, NEW rest \in SUBSET (DOMAIN batch[h]), Leave(h, rest)
    PROVE  /\ batch' \in [Hubs -> UNION {[S -> Selected] : S \in SUBSET Rows}]
           /\ head' \in [Hubs -> 0..MaxBlock \union {NotRead, Unknown}]
           /\ answer' \in [Hubs -> Answers \union {Unasked}]
<1>1. rest \in SUBSET Rows /\ [r \in rest |-> batch[h][r]] \in [rest -> Selected]
  BY BatchRows
<1>2. [r \in rest |-> batch[h][r]] \in UNION {[S -> Selected] : S \in SUBSET Rows}
  BY <1>1, FunctionOfRows
<1> QED BY <1>2 DEF Leave, TypeOK

LEMMA TypeStep ==
    ASSUME TypeOK, [Next]_vars
    PROVE  TypeOK'
<1> USE ReconcilerAssumption DEF chainVars, tableVars, hubVars
<1>1. ASSUME NEW r \in Rows, Attest(r) \/ Reorg(r) PROVE TypeOK'
  <2>1. CASE Attest(r)
    <3>1. status' \in [Rows -> Statuses]
      BY <2>1 DEF Attest, TypeOK, Statuses
    <3> QED BY <2>1, <3>1 DEF Attest, TypeOK
  <2>2. CASE Reorg(r)
    <3>1. block' \in [Rows -> 0..MaxBlock]
      BY <2>2 DEF Reorg, TypeOK
    <3> QED BY <2>2, <3>1 DEF Reorg, TypeOK
  <2> QED BY <1>1, <2>1, <2>2
<1>2. CASE Minute
  <2>1. age' \in [Rows -> 0..OrphanAge + 1]
    BY <1>2 DEF Minute, TypeOK
  <2> QED BY <1>2, <2>1 DEF Minute, TypeOK
<1>3. CASE SomeMine
  <2>1. PICK included \in SUBSET Rows : Mine(included)
    BY <1>3 DEF SomeMine
  <2>2. tip' \in 0..MaxBlock /\ tip' = tip + 1
    BY <2>1 DEF Mine, TypeOK
  <2>3. block' \in [Rows -> 0..MaxBlock]
    BY <2>1, <2>2 DEF Mine, TypeOK
  <2> QED BY <2>1, <2>2, <2>3 DEF Mine, TypeOK
<1>4. ASSUME NEW h \in Hubs, Fetch(h) PROVE TypeOK'
  <2>1. PICK rows \in SUBSET Due : batch' = [batch EXCEPT ![h] =
            [r \in rows |-> [attempts |-> attempts[r], age |-> age[r]]]]
    BY <1>4 DEF Fetch
  <2>2. rows \in SUBSET Rows
    BY DEF Due
  <2>3. [r \in rows |-> [attempts |-> attempts[r], age |-> age[r]]] \in [rows -> Selected]
    BY <2>2 DEF TypeOK, Selected
  <2>4. [r \in rows |-> [attempts |-> attempts[r], age |-> age[r]]]
          \in UNION {[S -> Selected] : S \in SUBSET Rows}
    BY <2>2, <2>3, FunctionOfRows
  <2>5. batch' \in [Hubs -> UNION {[S -> Selected] : S \in SUBSET Rows}]
    BY <2>1, <2>4 DEF TypeOK
  <2> QED BY <1>4, <2>5 DEF Fetch, TypeOK
<1>5. ASSUME NEW h \in Hubs, ReadHead(h) PROVE TypeOK'
  BY <1>5 DEF ReadHead, TypeOK
<1>6. ASSUME NEW h \in Hubs, Ask(h) PROVE TypeOK'
  <2>1. PICK r \in Rows :
          \/ /\ block[r] # 0
             /\ answer' = [answer EXCEPT ![h] =
                    [kind |-> "receipt", block |-> block[r], effect |-> effect[r]]]
          \/ answer' = [answer EXCEPT ![h] = [kind |-> "none"]]
          \/ answer' = [answer EXCEPT ![h] = [kind |-> "error"]]
    BY <1>6 DEF Ask
  <2>2. block[r] # 0 => [kind |-> "receipt", block |-> block[r], effect |-> effect[r]] \in Answers
    BY DEF Answers, TypeOK
  <2>3. answer' \in [Hubs -> Answers \union {Unasked}]
    BY <2>1, <2>2 DEF Answers, TypeOK
  <2> QED BY <1>6, <2>3 DEF Ask, TypeOK
<1>7. ASSUME NEW h \in Hubs, Apply(h) PROVE TypeOK'
  <2>1. PICK r \in Rows :
          /\ Current(h, r) /\ Leave(h, DOMAIN batch[h] \ {r})
          /\ IF answer[h].kind = "error"
             THEN UNCHANGED <<status, attempts>>
             ELSE /\ status' = [status EXCEPT ![r] = Verdict(h, r)]
                  /\ attempts' = [attempts EXCEPT ![r] = Bumped(@)]
    BY <1>7 DEF Apply
  <2>2. answer[h].kind # "error" => Verdict(h, r) \in Statuses
    BY <1>7 DEF Apply, Verdict, Statuses, Terminal, Answers, TypeOK
  <2>3. status' \in [Rows -> Statuses] /\ attempts' \in [Rows -> 0..MaxAttempts]
    BY <2>1, <2>2 DEF Bumped, TypeOK
  <2> QED BY <1>7, <2>1, <2>3, LeaveType DEF Apply, TypeOK
<1>8. ASSUME NEW h \in Hubs, Abort(h) PROVE TypeOK'
  <2>1. Leave(h, {}) /\ UNCHANGED <<chainVars, tableVars, blind>>
    BY <1>8 DEF Abort
  <2> QED BY <2>1, LeaveType DEF TypeOK
<1>9. CASE UNCHANGED vars
  BY <1>9 DEF vars, TypeOK
<1> QED
  BY <1>1, <1>2, <1>3, <1>4, <1>5, <1>6, <1>7, <1>8, <1>9 DEF Next, Reconcile, IdleTick

(***************************************************************************)
(* Ticks and receipts                                                      *)
(***************************************************************************)
LEMMA CurrentUnique ==
    ASSUME NEW h \in Hubs, NEW q \in Rows, NEW r \in Rows, Current(h, q), Current(h, r)
    PROVE  q = r
<1>1. q <= r /\ r <= q
  BY DEF Current
<1> QED BY <1>1, ReconcilerAssumption

LEMMA TickStep ==
    ASSUME TypeOK, TickInv, [Next]_vars
    PROVE  TickInv'
<1> USE ReconcilerAssumption DEF TickInv, chainVars, tableVars, hubVars, NotRead
<1>1. CASE SomeMine
  BY <1>1 DEF SomeMine, Mine, TypeOK
<1>2. ASSUME NEW h \in Hubs, Fetch(h) PROVE TickInv'
  BY <1>2 DEF Fetch, TypeOK
<1>3. ASSUME NEW h \in Hubs, ReadHead(h) PROVE TickInv'
  BY <1>3 DEF ReadHead, TypeOK
<1>4. ASSUME NEW h \in Hubs, Ask(h) PROVE TickInv'
  BY <1>4 DEF Ask, TypeOK
<1>5. ASSUME NEW h \in Hubs, NEW rest \in SUBSET (DOMAIN batch[h]), Leave(h, rest),
             UNCHANGED chainVars
      PROVE  TickInv'
  <2>1. batch'[h] = [r \in rest |-> batch[h][r]]
    BY <1>5 DEF Leave, TypeOK
  <2>2. batch'[h] = NoRows => rest = {}
    BY <2>1 DEF NoRows
  <2>3. head'[h] = IF rest = {} THEN NotRead ELSE head[h]
    BY <1>5 DEF Leave, TypeOK
  <2>4. answer'[h] = Unasked
    BY <1>5 DEF Leave, TypeOK
  <2>5. \A g \in Hubs : g # h =>
          batch'[g] = batch[g] /\ head'[g] = head[g] /\ answer'[g] = answer[g]
    BY <1>5 DEF Leave, TypeOK
  <2>6. rest # {} => DOMAIN batch[h] # {}
    OBVIOUS
  <2>7. DOMAIN NoRows = {}
    BY DEF NoRows
  <2>8. batch'[h] = NoRows => head'[h] = NotRead
    BY <2>2, <2>3
  <2>9. UNCHANGED tip
    BY <1>5
  <2> SUFFICES ASSUME NEW g \in Hubs
               PROVE  /\ batch'[g] = NoRows => head'[g] = NotRead
                      /\ answer'[g] # Unasked => head'[g] # NotRead
                      /\ head'[g] \in Nat => head'[g] <= tip'
    OBVIOUS
  <2>10. CASE g = h
    BY <2>3, <2>4, <2>8, <2>9, <2>10
  <2>11. CASE g # h
    BY <2>5, <2>9, <2>11
  <2> QED BY <2>10, <2>11
<1>6. ASSUME NEW h \in Hubs, Apply(h) \/ Abort(h) PROVE TickInv'
  BY <1>5, <1>6 DEF Apply, Abort
<1>7. CASE UNCHANGED <<tip, hubVars>>
  BY <1>7
<1> QED
  BY <1>1, <1>2, <1>3, <1>4, <1>6, <1>7
  DEF Next, Reconcile, IdleTick, Attest, Reorg, Minute, vars

\* The handled row leaves the batch together with its receipt; a receipt is taken
\* for the row that is first when it arrives.
LEMMA AnswerStep ==
    ASSUME TypeOK, TickInv, AnswerStands, [Next]_vars
    PROVE  AnswerStands'
<1> USE ReconcilerAssumption DEF AnswerStands, chainVars, tableVars, hubVars, NotRead
<1>1. CASE SomeMine
  <2>1. PICK included \in SUBSET Rows : Mine(included)
    BY <1>1 DEF SomeMine
  <2>2. \A r \in Rows : block[r] # 0 => block'[r] = block[r]
    BY <2>1 DEF Mine
  <2> QED BY <2>1, <2>2 DEF Mine, Current, TypeOK
<1>2. ASSUME NEW q \in Rows, Reorg(q) PROVE AnswerStands'
  <2>1. ASSUME NEW h \in Hubs, Current(h, q), answer[h] # Unasked,
               answer[h].kind = "receipt", head[h] \in Nat,
               head[h] - answer[h].block >= MinConfirmations
        PROVE  FALSE
    <3>1. block[q] = answer[h].block /\ head[h] <= tip
      BY <2>1 DEF TickInv
    <3>2. tip - block[q] < MinConfirmations
      BY <1>2 DEF Reorg
    <3>3. block[q] \in Nat /\ tip \in Nat
      BY DEF TypeOK
    <3>4. \A x, y, z \in Int : x <= y /\ x - z >= MinConfirmations => y - z >= MinConfirmations
      OBVIOUS
    <3> QED BY <2>1, <3>1, <3>2, <3>3, <3>4
  <2>2. \A r \in Rows : r # q => block'[r] = block[r]
    BY <1>2 DEF Reorg, TypeOK
  <2> QED BY <1>2, <2>1, <2>2 DEF Reorg, Current
<1>3. ASSUME NEW h \in Hubs, Fetch(h) PROVE AnswerStands'
  <2>1. answer[h] = Unasked
    BY <1>3 DEF Fetch, TickInv
  <2> QED BY <1>3, <2>1 DEF Fetch, Current, TypeOK
<1>4. ASSUME NEW h \in Hubs, ReadHead(h) PROVE AnswerStands'
  <2>1. answer[h] = Unasked
    BY <1>4 DEF ReadHead, TickInv
  <2> QED BY <1>4, <2>1 DEF ReadHead, Current, TypeOK
<1>5. ASSUME NEW h \in Hubs, Ask(h) PROVE AnswerStands'
  <2>1. PICK r \in Rows :
          /\ Current(h, r)
          /\ \/ /\ block[r] # 0
                /\ answer' = [answer EXCEPT ![h] =
                       [kind |-> "receipt", block |-> block[r], effect |-> effect[r]]]
             \/ answer' = [answer EXCEPT ![h] = [kind |-> "none"]]
             \/ answer' = [answer EXCEPT ![h] = [kind |-> "error"]]
    BY <1>5 DEF Ask
  <2>2. \A q \in Rows : Current(h, q) => q = r
    BY <2>1, CurrentUnique
  <2>3. UNCHANGED <<chainVars, batch, head>>
    BY <1>5 DEF Ask
  <2>4. \A g \in Hubs, q \in Rows : Current(g, q)' <=> Current(g, q)
    BY <2>3 DEF Current
  <2>5. \A g \in Hubs : g # h => answer'[g] = answer[g]
    BY <2>1 DEF TypeOK
  <2>6. block[r] \in Nat
    BY DEF TypeOK
  <2> QED BY <2>1, <2>2, <2>3, <2>4, <2>5, <2>6 DEF TypeOK
<1>6. ASSUME NEW h \in Hubs, NEW rest, Leave(h, rest), UNCHANGED chainVars
      PROVE  AnswerStands'
  BY <1>6 DEF Leave, Current, TypeOK
<1>7. ASSUME NEW h \in Hubs, Apply(h) \/ Abort(h) PROVE AnswerStands'
  BY <1>6, <1>7 DEF Apply, Abort
<1>8. CASE UNCHANGED <<chainVars, hubVars>>
  BY <1>8 DEF Current
<1> QED
  BY <1>1, <1>2, <1>3, <1>4, <1>5, <1>7, <1>8
  DEF Next, Reconcile, IdleTick, Attest, Minute, vars

(***************************************************************************)
(* Verdicts                                                                *)
(***************************************************************************)
\* What the UPDATE writes is justified by the receipt it was computed from.
LEMMA VerdictJustified ==
    ASSUME IInv, NEW h \in Hubs, NEW r \in Rows, Current(h, r),
           answer[h] # Unasked, answer[h].kind # "error", Verdict(h, r) # status[r]
    PROVE  /\ Verdict(h, r) = "failed" => effect[r] = "reverts"
           /\ Verdict(h, r) = "mismatched" => effect[r] \notin {"pays", "reverts"}
           /\ Verdict(h, r) = "chain_confirmed" =>
                 /\ effect[r] = "pays" /\ answer[h].kind = "receipt"
                 /\ head[h] # Unknown =>
                       block[r] # 0 /\ tip - block[r] >= MinConfirmations
<1>1. CASE answer[h].kind = "none"
  BY <1>1 DEF Verdict
<1>2. CASE answer[h].kind = "receipt"
  <2>1. effect[r] = answer[h].effect /\ answer[h].block > 0
    BY <1>2 DEF IInv, AnswerStands
  <2>2. ASSUME Verdict(h, r) = "chain_confirmed", head[h] # Unknown
        PROVE  block[r] # 0 /\ tip - block[r] >= MinConfirmations
    <3>1. ~Shallow(h)
      BY <1>2, <2>2 DEF Verdict
    <3>2. head[h] \in Nat /\ head[h] <= tip
      BY <2>2, ReconcilerAssumption DEF IInv, TickInv, TypeOK, NotRead
    <3>3. answer[h].block \in Nat /\ tip \in Nat
      BY <1>2, ReconcilerAssumption DEF IInv, TypeOK, Answers
    <3>4. head[h] - answer[h].block >= MinConfirmations
      BY <3>1, <3>2, <3>3, ReconcilerAssumption DEF Shallow
    <3>5. block[r] = answer[h].block
      BY <1>2, <3>2, <3>4 DEF IInv, AnswerStands
    <3> QED BY <2>1, <3>2, <3>3, <3>4, <3>5, ReconcilerAssumption
  <2>3. Verdict(h, r) = IF answer[h].effect = "reverts" THEN "failed"
                        ELSE IF Shallow(h) THEN status[r]
                        ELSE IF ObservedPayment(answer[h].effect) THEN "chain_confirmed"
                        ELSE "mismatched"
    BY <1>2 DEF Verdict
  <2>4. Verdict(h, r) = "failed" => answer[h].effect = "reverts"
    BY <2>3
  <2>5. Verdict(h, r) = "mismatched" => answer[h].effect \notin {"pays", "reverts"}
    BY <2>3 DEF ObservedPayment
  <2>6. Verdict(h, r) = "chain_confirmed" => answer[h].effect = "pays"
    BY <2>3 DEF ObservedPayment
  <2> QED BY <1>2, <2>1, <2>2, <2>4, <2>5, <2>6
<1> QED BY <1>1, <1>2 DEF IInv, TypeOK, Answers

LEMMA VerdictStep ==
    ASSUME IInv, [Next]_vars
    PROVE  VerdictTrue' /\ ConfirmedIsPaid'
<1> USE ReconcilerAssumption DEF chainVars, tableVars, hubVars
<1>1. CASE \E r \in Rows : Attest(r)
  BY <1>1 DEF Attest, IInv, TypeOK, VerdictTrue, ConfirmedIsPaid
<1>2. CASE \E r \in Rows : Reorg(r)
  BY <1>2 DEF Reorg, IInv, TypeOK, VerdictTrue, ConfirmedIsPaid
<1>3. CASE SomeMine
  <2>1. PICK included \in SUBSET Rows : Mine(included)
    BY <1>3 DEF SomeMine
  <2>2. \A r \in Rows : block[r] # 0 => block'[r] = block[r]
    BY <2>1 DEF Mine
  <2>3. tip' = tip + 1 /\ UNCHANGED <<effect, status>>
    BY <2>1 DEF Mine
  <2>4. block \in [Rows -> 0..MaxBlock] /\ tip \in 0..MaxBlock
    BY DEF IInv, TypeOK
  <2>5. VerdictTrue'
    BY <2>3 DEF IInv, VerdictTrue
  <2>6. UNCHANGED blind
    BY <2>1 DEF Mine
  <2>7. ConfirmedIsPaid'
    BY <2>2, <2>3, <2>4, <2>6 DEF IInv, ConfirmedIsPaid
  <2> QED BY <2>5, <2>7
<1>4. ASSUME NEW h \in Hubs, Apply(h)
      PROVE  VerdictTrue' /\ ConfirmedIsPaid'
  <2>1. PICK r \in Rows :
          /\ Current(h, r)
          /\ \/ status' = status
             \/ /\ answer[h].kind # "error"
                /\ status' = [status EXCEPT ![r] = Verdict(h, r)]
          /\ blind' = IF head[h] = Unknown /\ answer[h].kind = "receipt"
                      THEN blind \union {r} ELSE blind
    BY <1>4 DEF Apply
  <2>2. answer[h] # Unasked /\ UNCHANGED chainVars
    BY <1>4 DEF Apply
  <2>3. CASE status' = status
    BY <2>1, <2>2, <2>3 DEF IInv, VerdictTrue, ConfirmedIsPaid
  <2>4. CASE /\ answer[h].kind # "error" /\ Verdict(h, r) # status[r]
             /\ status' = [status EXCEPT ![r] = Verdict(h, r)]
    <3>1. status'[r] = Verdict(h, r) /\ \A q \in Rows : q # r => status'[q] = status[q]
      BY <2>4 DEF IInv, TypeOK
    <3>2. /\ Verdict(h, r) = "failed" => effect[r] = "reverts"
          /\ Verdict(h, r) = "mismatched" => effect[r] \notin {"pays", "reverts"}
          /\ Verdict(h, r) = "chain_confirmed" =>
                /\ effect[r] = "pays" /\ answer[h].kind = "receipt"
                /\ head[h] # Unknown =>
                      block[r] # 0 /\ tip - block[r] >= MinConfirmations
      BY <2>1, <2>2, <2>4, VerdictJustified
    <3>3. VerdictTrue'
      BY <2>2, <3>1, <3>2 DEF IInv, VerdictTrue
    <3>4. \A q \in Rows : q \notin blind' => q \notin blind
      BY <2>1
    <3>5. head[h] = Unknown /\ answer[h].kind = "receipt" => r \in blind'
      BY <2>1
    <3>6. ConfirmedIsPaid'
      BY <2>2, <3>1, <3>2, <3>4, <3>5 DEF IInv, ConfirmedIsPaid
    <3> QED BY <3>3, <3>6
  <2> QED BY <2>1, <2>3, <2>4 DEF IInv, TypeOK
<1>5. CASE UNCHANGED <<chainVars, status, blind>>
  BY <1>5 DEF IInv, VerdictTrue, ConfirmedIsPaid
<1> QED
  BY <1>1, <1>2, <1>3, <1>4, <1>5
  DEF Next, Reconcile, IdleTick, Minute, Fetch, ReadHead, Ask, Abort, vars

LEMMA InitInv == Init => IInv
<1> SUFFICES ASSUME Init PROVE IInv
  OBVIOUS
<1>1. NoRows \in [{} -> Selected]
  BY DEF NoRows
<1>2. NoRows \in UNION {[S -> Selected] : S \in SUBSET Rows}
  BY <1>1, FunctionOfRows
<1>3. TypeOK
  <2>1. batch \in [Hubs -> UNION {[S -> Selected] : S \in SUBSET Rows}]
    BY <1>2 DEF Init
  <2>2. answer \in [Hubs -> Answers \union {Unasked}]
    BY DEF Init
  <2>3. /\ attempts \in [Rows -> 0..MaxAttempts] /\ age \in [Rows -> 0..OrphanAge + 1]
        /\ block \in [Rows -> 0..MaxBlock] /\ tip \in 0..MaxBlock
    BY ReconcilerAssumption DEF Init
  <2>4. status \in [Rows -> Statuses] /\ effect \in [Rows -> Effects]
    BY DEF Init, Statuses
  <2>5. head \in [Hubs -> 0..MaxBlock \union {NotRead, Unknown}]
    BY DEF Init
  <2>6. blind \subseteq Rows
    BY DEF Init
  <2> QED BY <2>1, <2>2, <2>3, <2>4, <2>5, <2>6 DEF TypeOK
<1>4. TickInv
  BY ReconcilerAssumption DEF Init, TickInv, NotRead
<1>5. AnswerStands
  BY DEF Init, AnswerStands
<1>6. VerdictTrue /\ ConfirmedIsPaid
  BY DEF Init, VerdictTrue, ConfirmedIsPaid
<1> QED
  BY <1>3, <1>4, <1>5, <1>6 DEF IInv

\* IInv holds in every reachable state.
THEOREM Invariance == Spec => []IInv
<1>1. IInv /\ [Next]_vars => IInv'
  BY TypeStep, TickStep, AnswerStep, VerdictStep DEF IInv
<1> QED BY InitInv, <1>1, PTL DEF Spec

\* Every variable of the reconciler keeps its type.
THEOREM TypeCorrect == Spec => []TypeOK
  BY Invariance, PTL DEF IInv

\* A verdict is about what the transaction did, however many machines reconcile.
THEOREM VerdictSafety == Spec => []VerdictTrue
  BY Invariance, PTL DEF IInv

\* A settlement confirmed by a tick that had a chain head was paid in a block that
\* the chain keeps, however many machines reconcile and however late each is.
THEOREM ConfirmedSafety == Spec => []ConfirmedIsPaid
  BY Invariance, PTL DEF IInv

\* What the status of a settlement says of its transaction is true.
THEOREM StatusSafety == Spec => []StatusTrue
  BY ConfirmedSafety, VerdictSafety, PTL DEF StatusTrue

(***************************************************************************)
(* Verdicts that rest                                                      *)
(***************************************************************************)
\* A verdict that no tick under way can overrule is final, however many machines
\* reconcile: it is neither changed nor selected again.
THEOREM RestingSafety == Spec => RestingIsFinal
<1>1. IInv /\ [Next]_vars => [\A r \in Rows : Resting(r) => status'[r] = status[r] /\ Resting(r)']_vars
  <2> SUFFICES ASSUME IInv, [Next]_vars, NEW r \in Rows, Resting(r)
               PROVE  status'[r] = status[r] /\ Resting(r)'
    OBVIOUS
  <2> USE DEF Resting, chainVars, tableVars, hubVars
  <2>1. TypeOK
    BY DEF IInv
  <2>2. status[r] \notin {"absent", "facilitator_attested"}
    BY DEF Terminal
  <2>3. ASSUME NEW h \in Hubs, Fetch(h) PROVE status'[r] = status[r] /\ Resting(r)'
    <3>1. PICK rows \in SUBSET Due : batch' = [batch EXCEPT ![h] =
              [q \in rows |-> [attempts |-> attempts[q], age |-> age[q]]]]
      BY <2>3 DEF Fetch
    <3>2. r \notin rows /\ status' = status
      BY <2>2, <2>3 DEF Fetch, Due
    <3>3. \A g \in Hubs : DOMAIN batch'[g] = IF g = h THEN rows ELSE DOMAIN batch[g]
      BY <2>1, <3>1 DEF TypeOK
    <3> QED BY <3>2, <3>3
  <2>4. ASSUME NEW h \in Hubs, NEW rest \in SUBSET (DOMAIN batch[h]), Leave(h, rest)
        PROVE  \A g \in Hubs : r \notin DOMAIN batch'[g]
    BY <2>1, <2>4 DEF Leave, TypeOK
  <2>5. ASSUME NEW h \in Hubs, Apply(h) PROVE status'[r] = status[r] /\ Resting(r)'
    <3>1. PICK q \in Rows :
            /\ Current(h, q) /\ Leave(h, DOMAIN batch[h] \ {q})
            /\ status' = status \/ status' = [status EXCEPT ![q] = Verdict(h, q)]
      BY <2>5 DEF Apply
    <3>2. q # r
      BY <3>1 DEF Current
    <3>3. status'[r] = status[r]
      BY <2>1, <3>1, <3>2 DEF TypeOK
    <3> QED BY <2>4, <3>1, <3>3
  <2>6. ASSUME NEW h \in Hubs, Abort(h) PROVE status'[r] = status[r] /\ Resting(r)'
    BY <2>4, <2>6 DEF Abort
  <2>7. ASSUME NEW q \in Rows, Attest(q) PROVE status'[r] = status[r] /\ Resting(r)'
    BY <2>1, <2>2, <2>7 DEF Attest, TypeOK
  <2>8. CASE UNCHANGED <<status, batch>>
    BY <2>8
  <2> QED
    BY <2>3, <2>5, <2>6, <2>7, <2>8
    DEF Next, Reconcile, IdleTick, Minute, SomeMine, Mine, Reorg, ReadHead, Ask, vars
<1> QED BY <1>1, Invariance, PTL DEF Spec, RestingIsFinal

(***************************************************************************)
(* The promise of Verdicts                                                 *)
(***************************************************************************)
\* Looks are only added and time only passes, whoever adds them: what a SELECT
\* returned is never ahead of the row.
LEMMA CurrentStep ==
    ASSUME IInv, BatchCurrent, [Next]_vars
    PROVE  BatchCurrent'
<1> USE ReconcilerAssumption DEF chainVars, tableVars, hubVars
<1> DEFINE Ahead(h, r) == /\ status[r] # "absent"
                          /\ batch[h][r].attempts <= attempts[r] /\ batch[h][r].age <= age[r]
<1>1. TypeOK
  BY DEF IInv
<1>2. \A h \in Hubs : \A r \in DOMAIN batch[h] :
         r \in Rows /\ Ahead(h, r) /\ batch[h][r].attempts \in Int /\ batch[h][r].age \in Int
  BY <1>1, BatchRows DEF BatchCurrent, Selected
\* The rows only grow.
<1>3. \A r \in Rows :
        /\ attempts[r] \in Int /\ attempts'[r] \in Int /\ attempts[r] <= attempts'[r]
        /\ age[r] \in Int /\ age'[r] \in Int /\ age[r] <= age'[r]
        /\ status[r] # "absent" => status'[r] # "absent"
  <2>1. TypeOK'
    BY <1>1, TypeStep
  <2>2. \A r \in Rows : /\ attempts[r] \in 0..MaxAttempts /\ attempts'[r] \in 0..MaxAttempts
                         /\ age[r] \in 0..OrphanAge + 1 /\ age'[r] \in 0..OrphanAge + 1
    BY <1>1, <2>1 DEF TypeOK
  <2>3. ASSUME NEW h \in Hubs, Apply(h), NEW r \in Rows
        PROVE  /\ attempts[r] <= attempts'[r] /\ age'[r] = age[r]
               /\ status[r] # "absent" => status'[r] # "absent"
    <3>1. PICK q \in Rows :
            /\ \/ status' = status
               \/ answer[h].kind # "error" /\ status' = [status EXCEPT ![q] = Verdict(h, q)]
            /\ attempts' = attempts \/ attempts' = [attempts EXCEPT ![q] = Bumped(@)]
      BY <2>3 DEF Apply
    <3>2. attempts[r] <= attempts'[r]
      BY <1>1, <2>2, <3>1 DEF Bumped, TypeOK
    <3>3. ASSUME answer[h].kind # "error", status[q] # "absent" PROVE Verdict(h, q) # "absent"
      BY <1>1, <2>3, <3>3 DEF Apply, Verdict, TypeOK, Answers
    <3>4. status[r] # "absent" => status'[r] # "absent"
      BY <1>1, <3>1, <3>3 DEF TypeOK
    <3> QED BY <2>3, <3>2, <3>4 DEF Apply
  <2>4. CASE Minute
    <3>1. \A r \in Rows : age'[r] = age[r] + 1 \/ age'[r] = age[r]
      BY <2>4 DEF Minute
    <3> QED BY <2>2, <2>4, <3>1 DEF Minute
  <2>5. ASSUME NEW q \in Rows, Attest(q), NEW r \in Rows
        PROVE  /\ attempts'[r] = attempts[r] /\ age'[r] = age[r]
               /\ status[r] # "absent" => status'[r] # "absent"
    <3>1. UNCHANGED <<attempts, age>> /\ status[q] = "absent"
      BY <2>5 DEF Attest
    <3>2. r # q => status'[r] = status[r]
      BY <1>1, <2>5 DEF Attest, TypeOK
    <3> QED BY <3>1, <3>2
  <2>6. CASE UNCHANGED tableVars
    BY <2>2, <2>6
  <2>7. (\E h \in Hubs : Apply(h)) \/ Minute \/ (\E q \in Rows : Attest(q)) \/ UNCHANGED tableVars
    BY DEF Next, Reconcile, IdleTick, SomeMine, Mine, Reorg, Fetch, ReadHead, Ask, Abort, vars
  <2>8. CASE \E q \in Rows : Attest(q)
    BY <2>2, <2>5, <2>8
  <2>9. CASE \E h \in Hubs : Apply(h)
    BY <2>2, <2>3, <2>9
  <2> QED BY <2>4, <2>6, <2>7, <2>8, <2>9
\* What a tick holds after the step it held before, or has just selected.
<1>4. ASSUME NEW h \in Hubs, NEW r \in DOMAIN batch'[h]
      PROVE  \/ r \in DOMAIN batch[h] /\ batch'[h][r] = batch[h][r]
             \/ /\ r \in Rows /\ status[r] # "absent"
                /\ batch'[h][r] = [attempts |-> attempts[r], age |-> age[r]]
  <2>1. ASSUME NEW g \in Hubs, Fetch(g)
        PROVE  \/ r \in DOMAIN batch[h] /\ batch'[h][r] = batch[h][r]
               \/ /\ r \in Rows /\ status[r] # "absent"
                  /\ batch'[h][r] = [attempts |-> attempts[r], age |-> age[r]]
    <3>1. PICK rows \in SUBSET Due : batch' = [batch EXCEPT ![g] =
              [q \in rows |-> [attempts |-> attempts[q], age |-> age[q]]]]
      BY <2>1 DEF Fetch
    <3>2. CASE h = g
      <4>1. batch'[h] = [q \in rows |-> [attempts |-> attempts[q], age |-> age[q]]]
        BY <1>1, <3>1, <3>2 DEF TypeOK
      <4>2. r \in rows
        BY <4>1
      <4> QED BY <4>1, <4>2 DEF Due
    <3>3. CASE h # g
      BY <1>1, <3>1, <3>3 DEF TypeOK
    <3> QED BY <3>2, <3>3
  <2>2. ASSUME NEW g \in Hubs, NEW rest \in SUBSET (DOMAIN batch[g]), Leave(g, rest)
        PROVE  r \in DOMAIN batch[h] /\ batch'[h][r] = batch[h][r]
    BY <1>1, <2>2 DEF Leave, TypeOK
  <2>3. ASSUME NEW g \in Hubs, Apply(g) \/ Abort(g)
        PROVE  r \in DOMAIN batch[h] /\ batch'[h][r] = batch[h][r]
    BY <2>2, <2>3 DEF Apply, Abort
  <2>4. CASE UNCHANGED batch
    BY <2>4
  <2> QED
    BY <2>1, <2>3, <2>4
    DEF Next, Reconcile, IdleTick, SomeMine, Mine, Reorg, Attest, Minute, ReadHead, Ask, vars
<1>5. ASSUME NEW h \in Hubs, NEW r \in DOMAIN batch'[h]
      PROVE  /\ status'[r] # "absent"
             /\ batch'[h][r].attempts <= attempts'[r] /\ batch'[h][r].age <= age'[r]
  <2>1. CASE r \in DOMAIN batch[h] /\ batch'[h][r] = batch[h][r]
    <3>1. /\ r \in Rows /\ status[r] # "absent"
          /\ batch[h][r].attempts \in Int /\ batch[h][r].age \in Int
          /\ batch[h][r].attempts <= attempts[r] /\ batch[h][r].age <= age[r]
      BY <1>2, <2>1
    <3>2. /\ attempts[r] \in Int /\ attempts'[r] \in Int /\ attempts[r] <= attempts'[r]
          /\ age[r] \in Int /\ age'[r] \in Int /\ age[r] <= age'[r]
          /\ status'[r] # "absent"
      BY <1>3, <3>1
    <3>3. batch'[h][r].attempts = batch[h][r].attempts /\ batch'[h][r].age = batch[h][r].age
      BY <2>1
    <3>4. \A x, y, z \in Int : x <= y /\ y <= z => x <= z
      OBVIOUS
    <3>5. batch[h][r].attempts <= attempts'[r] /\ batch[h][r].age <= age'[r]
      BY <3>1, <3>2, <3>4
    <3> QED BY <3>2, <3>3, <3>5
  <2>2. CASE /\ r \in Rows /\ status[r] # "absent"
             /\ batch'[h][r] = [attempts |-> attempts[r], age |-> age[r]]
    BY <1>3, <2>2
  <2> QED BY <1>4, <2>1, <2>2
<1> QED BY <1>5 DEF BatchCurrent

\* A verdict on a row of the table is a verdict of the promise.
LEMMA Passed ==
    ASSUME TypeOK, NEW r \in Rows, status[r] # "absent", NEW v \in Terminal,
           status' = [status EXCEPT ![r] = v]
    PROVE  LET attested == {q \in Rows : status[q] # "absent"}
               verdict == [q \in Rows |-> {status[q]} \intersect Terminal]
           IN  attested' = attested /\ verdict' = [verdict EXCEPT ![r] = {v}]
<1> DEFINE attested == {q \in Rows : status[q] # "absent"}
           verdict == [q \in Rows |-> {status[q]} \intersect Terminal]
           judged == [verdict EXCEPT ![r] = {v}]
<1>1. \A q \in Rows : status'[q] = IF q = r THEN v ELSE status[q]
  BY DEF TypeOK
<1>2. v # "absent"
  BY DEF Terminal
<1>3. attested' = attested
  BY <1>1, <1>2
<1>4. \A q \in Rows : verdict'[q] = judged[q]
  <2>1. {v} \intersect Terminal = {v}
    OBVIOUS
  <2> QED BY <1>1, <2>1
<1>5. verdict' = judged
  BY <1>4
<1> QED BY <1>3, <1>5

\* A row leaves the batch of one machine: that machine has let it go.
LEMMA LeaveIsLetGo ==
    ASSUME TypeOK, NEW h \in Hubs, NEW rows \in SUBSET Rows, Leave(h, DOMAIN batch[h] \ rows)
    PROVE  Promise!LetGo(h, rows)
<1> DEFINE held == [r \in Rows |-> {g \in Hubs : r \in DOMAIN batch[g]}]
           freed == [r \in Rows |-> IF r \in rows THEN held[r] \ {h} ELSE held[r]]
<1>1. \A g \in Hubs : DOMAIN batch'[g] =
         IF g = h THEN DOMAIN batch[h] \ rows ELSE DOMAIN batch[g]
  BY DEF Leave, TypeOK
<1>2. ASSUME NEW r \in Rows PROVE held'[r] = freed[r]
  <2>1. held'[r] = {g \in Hubs : r \in DOMAIN batch'[g]}
    OBVIOUS
  <2>2. \A g \in Hubs : r \in DOMAIN batch'[g] <=> r \in DOMAIN batch[g] /\ ~(g = h /\ r \in rows)
    BY <1>1
  <2> QED BY <2>1, <2>2
<1>3. held' = freed
  BY <1>2
<1> QED BY <1>3 DEF Promise!LetGo

\* Every step of a reconciler is one of Verdicts or changes nothing it sees.
LEMMA PromiseStep ==
    ASSUME IInv, BatchCurrent, [Next]_vars
    PROVE  [Promise!Next]_(Promise!vars)
<1> USE ReconcilerAssumption DEF chainVars, tableVars, hubVars
<1> DEFINE attested == {q \in Rows : status[q] # "absent"}
           verdict == [q \in Rows |-> {status[q]} \intersect Terminal]
<1>1. ASSUME UNCHANGED <<chainVars, tableVars, blind, batch>> PROVE [Promise!Next]_(Promise!vars)
  BY <1>1 DEF Promise!vars
<1>2. TypeOK
  BY DEF IInv
<1>3. ASSUME NEW r \in Rows, Attest(r) PROVE [Promise!Next]_(Promise!vars)
  <2>1. \A q \in Rows : status'[q] = IF q = r THEN "facilitator_attested" ELSE status[q]
    BY <1>2, <1>3 DEF Attest, TypeOK
  <2>2. attested' = attested \union {r} /\ r \notin attested
    BY <1>3, <2>1 DEF Attest
  <2>3. verdict' = verdict
    <3>1. "facilitator_attested" \notin Terminal /\ "absent" \notin Terminal
      BY DEF Terminal
    <3>2. \A q \in Rows : verdict'[q] = verdict[q]
      BY <1>3, <2>1, <3>1 DEF Attest
    <3> QED BY <3>2
  <2>4. Promise!Attest(r)
    BY <1>3, <2>2, <2>3 DEF Attest, Promise!Attest
  <2> QED BY <2>4 DEF Promise!Next
<1>4. ASSUME NEW r \in Rows, Reorg(r) PROVE [Promise!Next]_(Promise!vars)
  <2>1. block[r] \in Int /\ tip \in Int
    <3>1. block[r] \in 0..MaxBlock /\ tip \in 0..MaxBlock
      BY <1>2 DEF TypeOK
    <3> QED BY <3>1
  <2>2. Promise!Abandon(r)
    BY <1>4, <2>1 DEF Reorg, Promise!Abandon, Promise!Final
  <2> QED BY <2>2 DEF Promise!Next
<1>5. CASE Minute
  <2>1. Promise!Tick
    BY <1>5 DEF Minute, Promise!Tick
  <2> QED BY <2>1 DEF Promise!Next
<1>6. ASSUME NEW included \in SUBSET Rows, Mine(included) PROVE [Promise!Next]_(Promise!vars)
  <2>1. Promise!Mine(included)
    BY <1>6 DEF Mine, Promise!Mine
  <2> QED BY <2>1 DEF Promise!Next
<1>7. ASSUME NEW h \in Hubs, ReadHead(h) \/ Ask(h) \/ IdleTick(h)
      PROVE  [Promise!Next]_(Promise!vars)
  BY <1>1, <1>7 DEF ReadHead, Ask, IdleTick, vars
<1>10. ASSUME NEW h \in Hubs, Fetch(h) PROVE [Promise!Next]_(Promise!vars)
  <2>1. PICK rows \in SUBSET Due : batch' = [batch EXCEPT ![h] =
            [r \in rows |-> [attempts |-> attempts[r], age |-> age[r]]]]
    BY <1>10 DEF Fetch
  <2>2. batch[h] = NoRows /\ UNCHANGED <<chainVars, tableVars, blind>>
    BY <1>10 DEF Fetch
  <2>3. rows \in SUBSET Rows
    BY DEF Due
  <2>4. rows \subseteq Promise!Open
    <3>1. "facilitator_attested" \notin Terminal /\ "absent" # "facilitator_attested"
      BY DEF Terminal
    <3> QED BY <3>1 DEF Due, Promise!Open
  <2> DEFINE held == [r \in Rows |-> {g \in Hubs : r \in DOMAIN batch[g]}]
             taken == [r \in Rows |-> IF r \in rows THEN held[r] \union {h} ELSE held[r]]
  <2>5. \A g \in Hubs : DOMAIN batch'[g] = IF g = h THEN rows ELSE DOMAIN batch[g]
    BY <1>2, <2>1 DEF TypeOK
  <2>6. DOMAIN batch[h] = {}
    BY <2>2 DEF NoRows
  <2>7. ASSUME NEW r \in Rows PROVE held'[r] = taken[r]
    <3>1. held'[r] = {g \in Hubs : r \in DOMAIN batch'[g]}
      OBVIOUS
    <3>2. \A g \in Hubs : r \in DOMAIN batch'[g] <=> r \in DOMAIN batch[g] \/ (g = h /\ r \in rows)
      BY <2>5, <2>6
    <3> QED BY <3>1, <3>2
  <2>8. held' = taken
    BY <2>7
  <2>9. Promise!Take(h, rows)
    BY <2>2, <2>4, <2>8 DEF Promise!Take
  <2> QED BY <2>3, <2>9 DEF Promise!Next
<1>11. ASSUME NEW h \in Hubs, Abort(h) PROVE [Promise!Next]_(Promise!vars)
  <2>1. PICK rows \in SUBSET Rows : rows = DOMAIN batch[h]
    BY <1>2, BatchRows
  <2>2. Leave(h, DOMAIN batch[h] \ rows) /\ UNCHANGED <<chainVars, tableVars, blind>>
    <3>1. Leave(h, {}) /\ DOMAIN batch[h] \ rows = {}
      BY <1>11, <2>1 DEF Abort
    <3> QED BY <1>11, <3>1 DEF Abort
  <2>3. Promise!LetGo(h, rows)
    BY <1>2, <2>2, LeaveIsLetGo
  <2>4. Promise!Drop(h, rows)
    BY <2>2, <2>3 DEF Promise!Drop
  <2> QED BY <2>4 DEF Promise!Next
<1>8. ASSUME NEW h \in Hubs, Apply(h) PROVE [Promise!Next]_(Promise!vars)
  <2>1. PICK r \in Rows :
          /\ Current(h, r)
          /\ IF answer[h].kind = "error"
             THEN UNCHANGED <<status, attempts>>
             ELSE /\ status' = [status EXCEPT ![r] = Verdict(h, r)]
                  /\ attempts' = [attempts EXCEPT ![r] = Bumped(@)]
          /\ blind' = IF head[h] = Unknown /\ answer[h].kind = "receipt"
                      THEN blind \union {r} ELSE blind
          /\ Leave(h, DOMAIN batch[h] \ {r})
    BY <1>8 DEF Apply
  <2>2. answer[h] # Unasked /\ UNCHANGED <<chainVars, age>>
    BY <1>8 DEF Apply
  <2>3. status[r] # "absent" /\ r \in DOMAIN batch[h]
    BY <2>1 DEF Current, BatchCurrent
  <2>4. h \in [q \in Rows |-> {g \in Hubs : q \in DOMAIN batch[g]}][r] /\ Promise!LetGo(h, {r})
    BY <1>2, <2>1, <2>3, LeaveIsLetGo
  <2>5. CASE answer[h].kind = "error"
    <3>1. {r} \in SUBSET Rows /\ UNCHANGED <<chainVars, tableVars, blind>>
      BY <2>1, <2>2, <2>5
    <3>2. Promise!Drop(h, {r})
      BY <2>4, <3>1 DEF Promise!Drop
    <3> QED BY <3>1, <3>2 DEF Promise!Next
  \* The status, as the attempts, changes at most in r.
  <2>6. ASSUME answer[h].kind # "error"
        PROVE  attested' = attested => Promise!Done(h, r)
    BY <2>1, <2>2, <2>4, <2>6 DEF Promise!Done, Bumped
  <2>7. ASSUME answer[h].kind # "error", Verdict(h, r) = status[r], blind' = blind
        PROVE  [Promise!Next]_(Promise!vars)
    <3>1. status' = status
      BY <1>2, <2>1, <2>7 DEF TypeOK
    <3>2. Promise!Look(h, r)
      BY <2>2, <2>4, <2>6, <2>7, <3>1 DEF Promise!Look
    <3> QED BY <3>2 DEF Promise!Next
  <2>8. CASE answer[h].kind = "none"
    <3>1. blind' = blind
      BY <2>1, <2>8
    <3>2. CASE Expired(h, r)
      <4>1. Verdict(h, r) = "orphaned" /\ "orphaned" \in Terminal
        BY <2>8, <3>2 DEF Verdict, Terminal
      <4>2. attested' = attested /\ verdict' = [verdict EXCEPT ![r] = {"orphaned"}]
        BY <1>2, <2>1, <2>3, <2>8, <4>1, Passed
      <4>3. attempts[r] + 1 >= MaxAttempts \/ age[r] > OrphanAge
        <5>1. batch[h][r].attempts <= attempts[r] /\ batch[h][r].age <= age[r]
          BY <2>3 DEF BatchCurrent
        <5>2. /\ batch[h][r].age \in Int /\ age[r] \in Int
              /\ batch[h][r].attempts \in Int /\ attempts[r] \in Int
          <6>1. batch[h][r] \in Selected
            BY <1>2, <2>3, BatchRows
          <6>2. age[r] \in Int /\ attempts[r] \in Int
            BY <1>2, <2>1 DEF TypeOK
          <6> QED BY <6>1, <6>2 DEF Selected
        <5> QED BY <3>2, <5>1, <5>2 DEF Expired
      <4>4. Promise!GiveUp(h, r)
        BY <2>2, <2>4, <2>6, <2>8, <3>1, <4>2, <4>3 DEF Promise!GiveUp
      <4> QED BY <4>4 DEF Promise!Next
    <3>3. CASE ~ Expired(h, r)
      <4>1. Verdict(h, r) = status[r]
        BY <2>8, <3>3 DEF Verdict
      <4> QED BY <2>7, <2>8, <3>1, <4>1
    <3> QED BY <3>2, <3>3
  <2>9. CASE answer[h].kind = "receipt"
    <3>1. /\ effect[r] = answer[h].effect /\ effect[r] \in Effects
          /\ head[h] \in Nat /\ head[h] - answer[h].block >= MinConfirmations
                => block[r] = answer[h].block /\ block[r] # 0
      <4>1. /\ effect[r] = answer[h].effect /\ answer[h].block > 0
            /\ head[h] \in Nat /\ head[h] - answer[h].block >= MinConfirmations
                  => block[r] = answer[h].block
        BY <2>1, <2>2, <2>9 DEF IInv, AnswerStands
      <4>2. effect[r] \in Effects
        BY <1>2 DEF TypeOK
      <4>3. answer[h].block \in Nat
        BY <1>2, <2>2, <2>9 DEF TypeOK, Answers
      <4>4. answer[h].block # 0
        BY <4>1, <4>3
      <4> QED BY <4>1, <4>2, <4>4
    <3>2. CASE Shallow(h) /\ effect[r] # "reverts"
      <4>1. Verdict(h, r) = status[r]
        BY <2>9, <3>1, <3>2 DEF Verdict
      <4>2. blind' = blind
        BY <2>1, <3>2 DEF Shallow
      <4> QED BY <2>7, <2>9, <4>1, <4>2
    <3>3. CASE ~ Shallow(h) \/ effect[r] = "reverts"
      <4> DEFINE sentence == CASE effect[r] = "pays" -> "chain_confirmed"
                               [] effect[r] = "reverts" -> "failed"
                               [] OTHER -> "mismatched"
      <4>1. Verdict(h, r) = sentence
        BY <2>9, <3>1, <3>3 DEF Verdict, ObservedPayment
      <4>2. sentence \in Terminal
        BY DEF Terminal
      <4> HIDE DEF sentence
      <4>3. attested' = attested /\ verdict' = [verdict EXCEPT ![r] = {sentence}]
        BY <1>2, <2>1, <2>3, <2>9, <4>1, <4>2, Passed
      <4>4. \/ (Promise!Final(r) \/ effect[r] = "reverts") /\ blind' = blind
            \/ blind' = blind \union {r}
        <5>1. CASE head[h] = Unknown
          BY <2>1, <2>9, <5>1
        <5>2. CASE head[h] # Unknown
          <6>1. blind' = blind
            BY <2>1, <5>2
          <6>2. head[h] \in Nat /\ head[h] <= tip /\ tip \in Nat
            BY <1>2, <2>2, <5>2 DEF IInv, TickInv, TypeOK, NotRead
          <6>3. answer[h].block \in Nat
            BY <1>2, <2>2, <2>9 DEF TypeOK, Answers
          <6>4. CASE ~ Shallow(h)
            <7>1. head[h] - answer[h].block >= MinConfirmations
              BY <5>2, <6>2, <6>3, <6>4 DEF Shallow
            <7>2. block[r] = answer[h].block /\ block[r] # 0
              BY <3>1, <6>2, <7>1
            <7>3. Promise!Final(r)
              BY <6>2, <6>3, <7>1, <7>2 DEF Promise!Final
            <7> QED BY <6>1, <7>3
          <6> QED BY <3>3, <6>1, <6>4
        <5> QED BY <5>1, <5>2
      <4>5. [e \in Effects |-> CASE e = "pays" -> "chain_confirmed"
                                 [] e = "reverts" -> "failed"
                                 [] OTHER -> "mismatched"][effect[r]] = sentence
        BY <3>1 DEF sentence
      <4>6. Promise!Judge(h, r)
        BY <2>2, <2>4, <2>6, <2>9, <4>3, <4>4, <4>5 DEF Promise!Judge
      <4> QED BY <4>6 DEF Promise!Next
    <3> QED BY <3>2, <3>3
  <2>10. answer[h].kind \in {"error", "none", "receipt"}
    BY <1>2, <2>2 DEF TypeOK, Answers
  <2> QED BY <2>5, <2>8, <2>9, <2>10
<1>9. CASE UNCHANGED vars
  BY <1>1, <1>9 DEF vars
<1> QED
  BY <1>3, <1>4, <1>5, <1>6, <1>7, <1>8, <1>9, <1>10, <1>11 DEF Next, Reconcile, SomeMine

\* The settlements implement Verdicts, for any number of rows, machines and blocks,
\* any depth and limits, and all faults.
THEOREM Implementation == Spec => KeepsVerdicts
<1>1. Init => BatchCurrent /\ Promise!Init
  <2> SUFFICES ASSUME Init PROVE BatchCurrent /\ Promise!Init
    OBVIOUS
  <2>1. BatchCurrent
    BY DEF Init, BatchCurrent, NoRows
  <2>2. {r \in Rows : status[r] # "absent"} = {}
    BY DEF Init
  <2>3. \A r \in Rows : {status[r]} \intersect Terminal = {}
    BY DEF Init, Terminal
  <2>4. [r \in Rows |-> {status[r]} \intersect Terminal] = [r \in Rows |-> {}]
    BY <2>3
  <2>5. [r \in Rows |-> {h \in Hubs : r \in DOMAIN batch[h]}] = [r \in Rows |-> {}]
    BY DEF Init, NoRows
  <2>6. Promise!Init
    BY <2>2, <2>4, <2>5 DEF Init, Promise!Init
  <2> QED BY <2>1, <2>6
<1>2. IInv /\ BatchCurrent /\ [Next]_vars => BatchCurrent'
  BY CurrentStep
<1>3. IInv /\ BatchCurrent /\ [Next]_vars => [Promise!Next]_(Promise!vars)
  BY PromiseStep
<1> QED
  BY <1>1, <1>2, <1>3, Invariance, PTL DEF Spec, KeepsVerdicts, Promise!Spec
=============================================================================
