------------------------------ MODULE PaymentProofs ------------------------------
(***************************************************************************)
(* Theorems about the two ways an invocation meets the outside in detail:  *)
(* PaymentPath, for any number of attempts and any prices, and SseStream,  *)
(* for any number of events and every way to cut them into pieces.         *)
(***************************************************************************)
EXTENDS PaymentPath, SseStream, FiniteSetTheorems, SequenceTheorems, TLAPS

(***************************************************************************)
(* PaymentPath                                                             *)
(***************************************************************************)

Attempt == [at : {"check", "lookup", "verify", "settle", "insert", "answered"},
            price : Prices, code : Codes, cause : Causes, original : Attempts \union {None}]

\* The divisions lose nothing, and nobody's share is negative.
LEMMA SharesAddUp ==
    ASSUME NEW amount \in Nat
    PROVE  /\ Shares(amount).provider + Shares(amount).hub + Shares(amount).network = amount
           /\ \A part \in DOMAIN Shares(amount) : Shares(amount)[part] >= 0
<1> DEFINE provider == (amount * 8500) \div 10000
           hub == (amount * 1000) \div 10000
<1>1. provider \in Nat /\ hub \in Nat /\ provider + hub <= amount
  OBVIOUS
<1>2. Shares(amount) = [provider |-> provider, hub |-> hub, network |-> amount - provider - hub]
  BY DEF Shares
<1> HIDE DEF provider, hub
<1> QED BY <1>1, <1>2

\* A step concerns one attempt: it moves on, or it is answered.
Progress(a, there) ==
    attempts' = [attempts EXCEPT ![a].at = there]
Answer(a, code, cause, original) ==
    attempts' = [attempts EXCEPT ![a].at = "answered", ![a].code = code, ![a].cause = cause,
                                 ![a].original = original]

\* The attempt passed CheckHeader.
Checked(a) == authorisation.terms = "right" /\ authorisation.value = attempts[a].price

\* What an attempt has come to, the money that moved and its row agree.
Sound(a) ==
    /\ attempts[a].code # "open" <=> attempts[a].at = "answered"
    /\ attempts[a].at \in {"lookup", "verify", "settle", "insert"} => Checked(a)
    /\ attempts[a].at = "insert" => executedBy # None
    /\ attempts[a].at \in {"check", "lookup", "verify", "settle"} =>
        executedBy # a /\ a \notin pending
    /\ attempts[a].code = "settled" => /\ Checked(a) /\ executedBy # None
                                       /\ rows = {Row(a)}
    /\ attempts[a].code \in {"not_accepted", "invalid"} /\ attempts[a].cause # "db_insert" =>
        executedBy # a /\ a \notin pending

PathInv == PaymentTypeOK /\ \A a \in Attempts : Sound(a)

\* What happens to the attempt, its row and the money, seen from the attempt.
Passing(a) ==
    /\ UNCHANGED <<authorisation, executedBy, pending, rows>>
    /\ \/ /\ attempts[a].at = "check" /\ Objection(attempts[a].price) = "none"
          /\ Progress(a, "lookup")
       \/ attempts[a].at = "lookup" /\ Progress(a, "verify")
       \/ attempts[a].at = "verify" /\ Progress(a, "settle")

Refusing(a) ==
    /\ UNCHANGED <<authorisation, executedBy, pending, rows>>
    /\ attempts[a].at \in {"check", "lookup", "verify"}
    /\ \E code \in Codes \ {"open", "settled"}, cause \in Causes,
          original \in Attempts \union {None} : Answer(a, code, cause, original)

Settling(a) ==
    /\ attempts[a].at = "settle" /\ UNCHANGED <<authorisation, rows>>
    /\ executedBy' \in {executedBy, a}
    /\ pending' \in {pending, pending \union {a}}
    /\ \/ executedBy' # None /\ Progress(a, "insert")
       \/ \E code \in Codes \ {"open", "settled"}, cause \in Causes :
            /\ Answer(a, code, cause, attempts[a].original)
            /\ code \in {"invalid", "not_accepted"} =>
                executedBy' = executedBy /\ pending' = pending

Recording(a) ==
    /\ attempts[a].at = "insert" /\ UNCHANGED <<authorisation, executedBy, pending>>
    /\ \/ /\ rows = {} /\ rows' = {Row(a)}
          /\ Answer(a, "settled", "none", attempts[a].original)
       \/ /\ \E code \in {"reused", "invalid"}, cause \in Causes,
                original \in Attempts \union {None} :
                /\ Answer(a, code, cause, original)
                /\ code = "invalid" => cause = "db_insert"
          /\ rows' = rows \/ (rows = {} /\ rows' = {Row(a)})

\* A step is one of these, or the clock, or a late settlement.
PathStep ==
    \/ \E a \in Attempts : Passing(a) \/ Refusing(a) \/ Settling(a) \/ Recording(a) \/ MovesLate(a)
    \/ UNCHANGED <<authorisation, attempts, pending, executedBy, rows>>

LEMMA RefusesIsAnswer ==
    ASSUME PaymentTypeOK, NEW a \in Attempts, NEW code, NEW cause, Refuses(a, code, cause)
    PROVE  Answer(a, code, cause, attempts[a].original)
<1>1. attempts[a] \in Attempt
  BY DEF PaymentTypeOK, Attempt
<1> DEFINE refused == [attempts[a] EXCEPT !.at = "answered", !.code = code, !.cause = cause]
           answered == [attempts[a] EXCEPT !.at = "answered", !.code = code, !.cause = cause,
                                           !.original = attempts[a].original]
<1>2. refused = answered
  BY <1>1 DEF Attempt
<1>3. attempts' = [attempts EXCEPT ![a] = refused]
  BY DEF Refuses
<1>4. Answer(a, code, cause, attempts[a].original) <=> attempts' = [attempts EXCEPT ![a] = answered]
  BY DEF Answer
<1> HIDE DEF refused, answered
<1> QED BY <1>2, <1>3, <1>4

LEMMA KnownTyped ==
    ASSUME PaymentTypeOK, NEW found \in BOOLEAN
    PROVE  Known(found) \in Attempts \union {None}
<1>1. CASE found /\ rows # {}
  <2>1. (CHOOSE row \in rows : TRUE) \in rows
    BY <1>1
  <2> QED BY <1>1, <2>1 DEF Known, PaymentTypeOK
<1>2. CASE ~(found /\ rows # {})
  BY <1>2 DEF Known
<1> QED BY <1>1, <1>2

LEMMA OriginalTyped ==
    ASSUME PaymentTypeOK, NEW a \in Attempts
    PROVE  attempts[a].original \in Attempts \union {None}
  BY DEF PaymentTypeOK

LEMMA AnswerRefuses ==
    ASSUME NEW a \in Attempts, NEW code \in Codes \ {"open", "settled"}, NEW cause \in Causes,
           NEW original \in Attempts \union {None}, Answer(a, code, cause, original),
           UNCHANGED <<authorisation, executedBy, pending, rows>>,
           attempts[a].at \in {"check", "lookup", "verify"}
    PROVE  Refusing(a)
  BY DEF Refusing

LEMMA CheckStep ==
    ASSUME PaymentTypeOK, NEW a \in Attempts, CheckHeader(a)
    PROVE  Passing(a) \/ Refusing(a)
<1>1. /\ attempts[a].at = "check"
      /\ UNCHANGED <<authorisation, executedBy, pending, rows>>
  BY DEF CheckHeader
<1>2. Objection(attempts[a].price) \in
        {"scheme", "network", "recipient", "not_yet_valid", "expired", "amount_mismatch", "none"}
  BY DEF Objection, PaymentTypeOK, Authorisations
<1>3. \/ Objection(attempts[a].price) = "none" /\ Passes(a, "lookup")
      \/ \E code \in {"invalid", "wallet", "not_accepted"}, cause \in Causes :
            Refuses(a, code, cause)
  BY <1>2 DEF CheckHeader, Causes
<1>4. ASSUME NEW code \in {"invalid", "wallet", "not_accepted"}, NEW cause \in Causes,
             Refuses(a, code, cause)
      PROVE  Refusing(a)
  BY <1>1, <1>4, RefusesIsAnswer, OriginalTyped, AnswerRefuses DEF Codes, Causes
<1> QED BY <1>1, <1>3, <1>4 DEF Passing, Progress, Passes

LEMMA LookupStep ==
    ASSUME PaymentTypeOK, NEW a \in Attempts, LookupNonce(a)
    PROVE  Passing(a) \/ Refusing(a)
<1>1. /\ attempts[a].at = "lookup"
      /\ UNCHANGED <<authorisation, executedBy, pending, rows>>
  BY DEF LookupNonce
<1>2. ASSUME NEW found \in BOOLEAN, Reused(a, "nonce_reused", Known(found))
      PROVE  Refusing(a)
  <2>1. Answer(a, "reused", "nonce_reused", Known(found))
    BY <1>2 DEF Reused, Answer
  <2> QED BY <1>1, <2>1, KnownTyped, AnswerRefuses DEF Codes, Causes
<1>3. ASSUME Refuses(a, "invalid", "db_lookup") PROVE Refusing(a)
  BY <1>1, <1>3, RefusesIsAnswer, OriginalTyped, AnswerRefuses DEF Codes, Causes
<1> QED BY <1>1, <1>2, <1>3 DEF LookupNonce, Passing, Progress, Passes

LEMMA PostTyped ==
    ASSUME NEW reply \in Replies
    PROVE  /\ PostSigned(reply).code \in {"timeout", "unreachable", "invalid", "open"}
           /\ PostSigned(reply).cause \in Causes
           /\ PostSigned(reply).code \in {"invalid", "open"} => reply.way = "signed"
           /\ PostSigned(reply).code = "invalid" => reply.status = 400
           /\ PostSigned(reply).code = "open" => reply.status = 200
<1> DEFINE post == PostSigned(reply)
<1>1. /\ reply.status \in {200, 400, 500}
      /\ reply.way \in {"signed", "timeout", "pin", "connect", "broken", "cut", "unsigned"}
  BY DEF Replies, Ways
<1>2. CASE reply.way # "signed"
  <2>1. CASE reply.way = "timeout"
    <3>1. post = [code |-> "timeout", cause |-> "facilitator_slow"]
      BY <2>1 DEF PostSigned
    <3> QED BY <2>1, <3>1 DEF Causes
  <2>2. CASE reply.way = "pin"
    <3>1. post = [code |-> "unreachable", cause |-> "cert_pin_mismatch"]
      BY <2>2 DEF PostSigned
    <3> QED BY <2>2, <3>1 DEF Causes
  <2>3. CASE reply.way \in {"connect", "broken"}
    <3>1. \/ post = [code |-> "unreachable", cause |-> "connection_refused"]
          \/ post = [code |-> "unreachable", cause |-> "transport"]
      BY <2>3 DEF PostSigned
    <3> QED BY <2>3, <3>1 DEF Causes
  <2>4. CASE reply.way = "cut"
    <3>1. post = [code |-> "unreachable", cause |-> "body_read"]
      BY <2>4 DEF PostSigned
    <3> QED BY <2>4, <3>1 DEF Causes
  <2>5. CASE reply.way = "unsigned"
    <3>1. post = [code |-> "unreachable", cause |-> "signature_pin_mismatch"]
      BY <2>5 DEF PostSigned, Authentic
    <3> QED BY <2>5, <3>1 DEF Causes
  <2> QED BY <1>1, <1>2, <2>1, <2>2, <2>3, <2>4, <2>5
<1>3. CASE reply.way = "signed" /\ reply.status = 500
  <2>1. post = [code |-> "timeout", cause |-> "facilitator_5xx"]
    BY <1>3 DEF PostSigned, Authentic, Undecided
  <2> QED BY <2>1 DEF Causes
<1>4. CASE reply.way = "signed" /\ reply.status = 400
  <2>1. post = [code |-> "invalid", cause |-> "facilitator_rejected"]
    BY <1>4 DEF PostSigned, Authentic, Undecided
  <2> QED BY <1>4, <2>1 DEF Causes
<1>5. CASE reply.way = "signed" /\ reply.status = 200
  <2>1. post = [code |-> "open", cause |-> "none"]
    BY <1>5 DEF PostSigned, Authentic, Undecided
  <2> QED BY <1>5, <2>1 DEF Causes
<1> QED BY <1>1, <1>2, <1>3, <1>4, <1>5

LEMMA VerifyStep ==
    ASSUME PaymentTypeOK, NEW a \in Attempts, VerifyPayment(a)
    PROVE  Passing(a) \/ Refusing(a)
<1>1. /\ attempts[a].at = "verify"
      /\ UNCHANGED <<authorisation, executedBy, pending, rows>>
  BY DEF VerifyPayment
<1>2. \/ Passes(a, "settle")
      \/ \E code \in {"timeout", "unreachable", "invalid"}, cause \in Causes :
            Refuses(a, code, cause)
  <2>1. PICK reply \in Replies :
          IF PostSigned(reply).code # "open"
          THEN Refuses(a, PostSigned(reply).code, PostSigned(reply).cause)
          ELSE \/ Refuses(a, "invalid", "facilitator_response_parse")
               \/ Refuses(a, "invalid", "facilitator_rejected")
               \/ Passes(a, "settle")
    BY DEF VerifyPayment
  <2>2. CASE PostSigned(reply).code # "open"
    <3>1. PostSigned(reply).code \in {"timeout", "unreachable", "invalid"}
      BY <2>2, PostTyped
    <3> QED BY <2>1, <2>2, <3>1, PostTyped
  <2>3. CASE PostSigned(reply).code = "open"
    BY <2>1, <2>3 DEF Causes
  <2> QED BY <2>2, <2>3
<1>3. ASSUME NEW code \in {"timeout", "unreachable", "invalid"}, NEW cause \in Causes,
             Refuses(a, code, cause)
      PROVE  Refusing(a)
  BY <1>1, <1>3, RefusesIsAnswer, OriginalTyped, AnswerRefuses DEF Codes, Causes
<1> QED BY <1>1, <1>2, <1>3 DEF Passing, Progress, Passes

\* Only the facilitator's own answer, that it will not make the transfer, refuses.
LEMMA SettleStep ==
    ASSUME PaymentTypeOK, NEW a \in Attempts, SettleAuthorisation(a)
    PROVE  Settling(a)
<1>1. PICK reply \in Replies, moved \in BOOLEAN, kept \in BOOLEAN :
        /\ moved => CanMove /\ Arrives(reply)
        /\ Truthful(reply, moved)
        /\ kept => LeavesOpen(reply) /\ ~moved
        /\ SettleReply(a, reply)
        /\ executedBy' = IF moved THEN a ELSE executedBy
        /\ pending' = IF kept THEN pending \union {a} ELSE pending
  BY DEF SettleAuthorisation
<1>2. /\ attempts[a].at = "settle" /\ UNCHANGED <<authorisation, rows>>
      /\ executedBy' \in {executedBy, a}
      /\ pending' \in {pending, pending \union {a}}
  BY <1>1 DEF SettleAuthorisation
<1>3. /\ reply.status \in {200, 400, 500}
      /\ reply.body \in {"yes", "no", "nohash", "unreadable"}
  BY DEF Replies
<1>4. ASSUME NEW code \in Codes \ {"open", "settled"}, NEW cause \in Causes,
             Refuses(a, code, cause),
             code \in {"invalid", "not_accepted"} => executedBy' = executedBy /\ pending' = pending
      PROVE  Settling(a)
  BY <1>2, <1>4, RefusesIsAnswer DEF Settling
<1> DEFINE post == PostSigned(reply)
<1>5. CASE post.code # "open"
  <2>1. Refuses(a, post.code, post.cause)
    BY <1>1, <1>5 DEF SettleReply
  <2>2. post.code \in Codes \ {"open", "settled"} /\ post.cause \in Causes
    BY <1>5, PostTyped DEF Codes
  <2>3. post.code = "not_accepted" => FALSE
    BY PostTyped
  <2>4. ASSUME post.code = "invalid" PROVE ~moved /\ ~kept
    <3>1. reply.way = "signed" /\ reply.status = 400
      BY <2>4, PostTyped
    <3> QED BY <1>1, <3>1 DEF Truthful, LeavesOpen
  <2>5. post.code \in {"invalid", "not_accepted"} => executedBy' = executedBy /\ pending' = pending
    BY <1>1, <2>3, <2>4
  <2> HIDE DEF post
  <2> QED BY <1>4, <2>1, <2>2, <2>5
<1>6. CASE post.code = "open"
  <2>1. reply.way = "signed" /\ reply.status = 200
    BY <1>6, PostTyped
  <2>2. CASE reply.body = "unreadable"
    <3>1. Refuses(a, "timeout", "facilitator_response_parse")
      BY <1>1, <1>6, <2>2 DEF SettleReply
    <3> QED BY <1>4, <3>1 DEF Codes, Causes
  <2>3. CASE reply.body \in {"no", "nohash"}
    <3>1. Refuses(a, "invalid", "settle_failed")
      BY <1>1, <1>6, <2>3 DEF SettleReply
    <3>2. ~moved /\ ~kept
      BY <1>1, <2>1, <2>3 DEF Truthful, LeavesOpen
    <3> QED BY <1>1, <1>4, <3>1, <3>2 DEF Codes, Causes
  <2>4. CASE reply.body = "yes"
    <3>1. Passes(a, "insert")
      BY <1>1, <1>6, <2>4 DEF SettleReply
    <3>2. moved \/ executedBy # None
      BY <1>1, <2>1, <2>4 DEF Truthful
    <3>3. executedBy' # None
      BY <1>1, <3>2, PaymentAssumption
    <3> QED BY <1>2, <3>1, <3>3 DEF Settling, Progress, Passes
  <2> QED BY <1>3, <2>2, <2>3, <2>4
<1> QED BY <1>5, <1>6

LEMMA InsertStep ==
    ASSUME PaymentTypeOK, NEW a \in Attempts, InsertSettlement(a)
    PROVE  Recording(a)
<1>1. /\ attempts[a].at = "insert"
      /\ UNCHANGED <<authorisation, executedBy, pending>>
  BY DEF InsertSettlement
<1>2. CASE rows = {} /\ rows' = {Row(a)} /\ Refuses(a, "settled", "none")
  BY <1>1, <1>2, RefusesIsAnswer DEF Recording
<1>3. ASSUME UNCHANGED rows, NEW cause \in {"tx_hash_seen", "nonce_reused"},
             NEW found \in BOOLEAN, Reused(a, cause, Known(found))
      PROVE  Recording(a)
  <2>1. Answer(a, "reused", cause, Known(found))
    BY <1>3 DEF Reused, Answer
  <2>2. cause \in Causes
    BY <1>3 DEF Causes
  <2> QED BY <1>1, <1>3, <2>1, <2>2, KnownTyped DEF Recording
<1>4. ASSUME rows' = rows \/ (rows = {} /\ rows' = {Row(a)}), Refuses(a, "invalid", "db_insert")
      PROVE  Recording(a)
  <2>1. Answer(a, "invalid", "db_insert", attempts[a].original)
    BY <1>4, RefusesIsAnswer
  <2> QED BY <1>1, <1>4, <2>1, OriginalTyped DEF Recording, Causes
<1> QED BY <1>2, <1>3, <1>4 DEF InsertSettlement

LEMMA StepOfPath ==
    ASSUME PaymentTypeOK, [PaymentNext]_paymentVars
    PROVE  PathStep
<1>1. ASSUME NEW a \in Attempts, CheckHeader(a) \/ LookupNonce(a) \/ VerifyPayment(a)
      PROVE  PathStep
  BY <1>1, CheckStep, LookupStep, VerifyStep DEF PathStep
<1>2. ASSUME NEW a \in Attempts, SettleAuthorisation(a) \/ InsertSettlement(a) \/ MovesLate(a)
      PROVE  PathStep
  BY <1>2, SettleStep, InsertStep DEF PathStep
<1>3. CASE SecondPasses \/ UNCHANGED paymentVars
  BY <1>3 DEF SecondPasses, paymentVars, PathStep
<1> QED BY <1>1, <1>2, <1>3 DEF PaymentNext

(***************************************************************************)
(* Types                                                                   *)
(***************************************************************************)
LEMMA ProgressFields ==
    ASSUME PaymentTypeOK, NEW a \in Attempts, NEW there \in {"lookup", "verify", "settle", "insert"},
           Progress(a, there)
    PROVE  /\ attempts' \in [Attempts -> Attempt]
           /\ attempts'[a].at = there /\ attempts'[a].code = attempts[a].code
           /\ attempts'[a].price = attempts[a].price
           /\ \A b \in Attempts \ {a} : attempts'[b] = attempts[b]
  BY DEF PaymentTypeOK, Progress, Attempt

LEMMA AnswerFields ==
    ASSUME PaymentTypeOK, NEW a \in Attempts, NEW code \in Codes, NEW cause \in Causes,
           NEW original \in Attempts \union {None}, Answer(a, code, cause, original)
    PROVE  /\ attempts' \in [Attempts -> Attempt]
           /\ attempts'[a].at = "answered" /\ attempts'[a].code = code
           /\ attempts'[a].cause = cause /\ attempts'[a].price = attempts[a].price
           /\ \A b \in Attempts \ {a} : attempts'[b] = attempts[b]
<1> DEFINE answered == [attempts[a] EXCEPT !.at = "answered", !.code = code, !.cause = cause,
                                           !.original = original]
<1>1. attempts \in [Attempts -> Attempt]
  BY DEF PaymentTypeOK, Attempt
<1>2. /\ answered \in Attempt
      /\ answered.at = "answered" /\ answered.code = code
      /\ answered.cause = cause /\ answered.price = attempts[a].price
  BY <1>1 DEF Attempt
<1>3. attempts' = [attempts EXCEPT ![a] = answered]
  BY DEF Answer
<1> HIDE DEF answered
<1> QED BY <1>1, <1>2, <1>3

LEMMA AttemptsTyped ==
    ASSUME PaymentTypeOK, PathStep
    PROVE  attempts' \in [Attempts -> Attempt]
<1>1. ASSUME NEW a \in Attempts, Passing(a) PROVE attempts' \in [Attempts -> Attempt]
  BY <1>1, ProgressFields DEF Passing
<1>2. ASSUME NEW a \in Attempts, Refusing(a) PROVE attempts' \in [Attempts -> Attempt]
  BY <1>2, AnswerFields DEF Refusing
<1>3. ASSUME NEW a \in Attempts, Settling(a) PROVE attempts' \in [Attempts -> Attempt]
  BY <1>3, AnswerFields, ProgressFields, OriginalTyped DEF Settling
<1>4. ASSUME NEW a \in Attempts, Recording(a) PROVE attempts' \in [Attempts -> Attempt]
  BY <1>4, AnswerFields, OriginalTyped DEF Recording, Codes, Causes
<1>5. ASSUME attempts' = attempts PROVE attempts' \in [Attempts -> Attempt]
  BY <1>5 DEF PaymentTypeOK, Attempt
<1> QED BY <1>1, <1>2, <1>3, <1>4, <1>5 DEF PathStep, MovesLate

LEMMA RowAttempt ==
    ASSUME NEW a
    PROVE  Row(a).attempt = a /\ Row(a).amount = attempts[a].price
           /\ Row(a).shares = Shares(attempts[a].price)
  BY DEF Row

LEMMA PaymentTypeStep ==
    ASSUME PaymentTypeOK, [PaymentNext]_paymentVars
    PROVE  PaymentTypeOK'
<1>1. PathStep
  BY StepOfPath
<1>2. attempts' \in [Attempts -> Attempt]
  BY <1>1, AttemptsTyped
<1>3. wall' \in 0 .. MaxWall
  <2>1. wall' = wall \/ (wall < MaxWall /\ wall' = wall + 1)
    BY DEF PaymentNext, CheckHeader, LookupNonce, VerifyPayment, SettleAuthorisation,
           MovesLate, InsertSettlement, SecondPasses, paymentVars
  <2> QED BY <2>1, PaymentAssumption DEF PaymentTypeOK
<1>4. /\ authorisation' \in Authorisations
      /\ pending' \subseteq Attempts /\ executedBy' \in Attempts \union {None}
  BY <1>1 DEF PathStep, Passing, Refusing, Settling, Recording, MovesLate, PaymentTypeOK
<1>5. \A row \in rows' : row.attempt \in Attempts
  BY <1>1, RowAttempt
  DEF PathStep, Passing, Refusing, Settling, Recording, MovesLate, PaymentTypeOK
<1> QED BY <1>2, <1>3, <1>4, <1>5 DEF PaymentTypeOK, Attempt

LEMMA PaymentStart ==
    ASSUME PaymentInit
    PROVE  PathInv
<1>1. PICK price \in [Attempts -> Prices] :
        attempts = [a \in Attempts |-> NewAttempt(price[a])]
  BY DEF PaymentInit
<1>2. \A a \in Attempts : /\ attempts[a] \in Attempt /\ attempts[a].at = "check"
                          /\ attempts[a].code = "open" /\ attempts[a].cause = "none"
  BY <1>1 DEF NewAttempt, Attempt, Codes, Causes
<1>3. attempts \in [Attempts -> Attempt]
  BY <1>1, <1>2
<1>4. PaymentTypeOK
  BY <1>3, PaymentAssumption DEF PaymentInit, PaymentTypeOK, Attempt
<1>5. executedBy \notin Attempts /\ pending = {}
  BY PaymentAssumption DEF PaymentInit
<1> QED BY <1>2, <1>4, <1>5 DEF PathInv, Sound

\* Whatever the network does, an attempt is in one of its states with one of its
\* codes and causes, and every row belongs to an attempt.
THEOREM PaymentTypeSafety == PaymentSpec => []PaymentTypeOK
<1>1. PaymentInit => PaymentTypeOK
  BY PaymentStart DEF PathInv
<1>2. PaymentTypeOK /\ [PaymentNext]_paymentVars => PaymentTypeOK'
  BY PaymentTypeStep
<1> QED BY <1>1, <1>2, PTL DEF PaymentSpec

(***************************************************************************)
(* The money                                                               *)
(***************************************************************************)
\* A step of another attempt leaves what is true of this one.
LEMMA OthersStaySound ==
    ASSUME NEW a \in Attempts, Sound(a), authorisation' = authorisation,
           attempts'[a] = attempts[a],
           executedBy' = executedBy \/ (executedBy' # None /\ executedBy' # a),
           a \notin pending => a \notin pending',
           attempts[a].code = "settled" => rows' = rows
    PROVE  Sound(a)'
<1>1. Checked(a)' <=> Checked(a)
  BY DEF Checked
<1>2. Row(a)' = Row(a)
  BY DEF Row
<1> QED BY <1>1, <1>2 DEF Sound

LEMMA PassingSound ==
    ASSUME PathInv, NEW a \in Attempts, Passing(a), NEW b \in Attempts
    PROVE  Sound(b)'
<1>1. PaymentTypeOK /\ Sound(b)
  BY DEF PathInv
<1>2. /\ \A c \in Attempts \ {a} : attempts'[c] = attempts[c]
      /\ attempts'[a].code = attempts[a].code /\ attempts'[a].price = attempts[a].price
      /\ attempts[a].at \in {"check", "lookup", "verify"}
      /\ attempts'[a].at \in {"lookup", "verify", "settle"}
  BY <1>1, ProgressFields DEF Passing
<1>3. CASE b # a
  BY <1>1, <1>2, <1>3, OthersStaySound DEF Passing
<1>4. CASE b = a
  <2>1. Checked(a)
    <3>1. CASE attempts[a].at = "check"
      <4>1. Objection(attempts[a].price) = "none"
        BY <3>1 DEF Passing
      <4>2. authorisation.terms # "none"
        BY <1>1 DEF PaymentTypeOK, Authorisations
      <4> QED BY <4>1, <4>2 DEF Objection, Checked
    <3>2. CASE attempts[a].at # "check"
      BY <1>1, <1>2, <1>4, <3>2 DEF Sound
    <3> QED BY <3>1, <3>2
  <2>2. Checked(a)'
    BY <1>2, <2>1 DEF Checked, Passing
  <2>3. attempts[a].code = "open"
    BY <1>1, <1>2, <1>4 DEF Sound
  <2> QED BY <1>1, <1>2, <1>4, <2>2, <2>3 DEF Sound, Passing
<1> QED BY <1>3, <1>4

LEMMA RefusingSound ==
    ASSUME PathInv, NEW a \in Attempts, Refusing(a), NEW b \in Attempts
    PROVE  Sound(b)'
<1>1. PaymentTypeOK /\ Sound(b)
  BY DEF PathInv
<1>2. /\ \A c \in Attempts \ {a} : attempts'[c] = attempts[c]
      /\ attempts'[a].code \notin {"open", "settled"} /\ attempts'[a].at = "answered"
  BY <1>1, AnswerFields DEF Refusing
<1>3. CASE b # a
  BY <1>1, <1>2, <1>3, OthersStaySound DEF Refusing
<1>4. CASE b = a
  BY <1>1, <1>2, <1>4 DEF Sound, Refusing
<1> QED BY <1>3, <1>4

LEMMA SettlingSound ==
    ASSUME PathInv, NEW a \in Attempts, Settling(a), NEW b \in Attempts
    PROVE  Sound(b)'
<1>1. PaymentTypeOK /\ Sound(a) /\ Sound(b) /\ a # None
  BY PaymentAssumption DEF PathInv
<1>2. CASE executedBy' # None /\ Progress(a, "insert")
  <2>1. /\ \A c \in Attempts \ {a} : attempts'[c] = attempts[c]
        /\ attempts'[a].at = "insert" /\ attempts'[a].code = attempts[a].code
        /\ attempts'[a].price = attempts[a].price
    BY <1>1, <1>2, ProgressFields
  <2>2. CASE b # a
    BY <1>1, <2>1, <2>2, OthersStaySound DEF Settling
  <2>3. CASE b = a
    <3>1. attempts[a].at = "settle" /\ attempts[a].code = "open" /\ Checked(a)
      BY <1>1 DEF Settling, Sound
    <3> QED BY <1>2, <2>1, <2>3, <3>1 DEF Sound, Checked, Settling
  <2> QED BY <2>2, <2>3
<1>3. ASSUME NEW code \in Codes \ {"open", "settled"}, NEW cause \in Causes,
             Answer(a, code, cause, attempts[a].original),
             code \in {"invalid", "not_accepted"} => executedBy' = executedBy /\ pending' = pending
      PROVE  Sound(b)'
  <2>1. /\ \A c \in Attempts \ {a} : attempts'[c] = attempts[c]
        /\ attempts'[a].at = "answered" /\ attempts'[a].code = code
    BY <1>1, <1>3, AnswerFields, OriginalTyped
  <2>2. CASE b # a
    BY <1>1, <2>1, <2>2, OthersStaySound DEF Settling
  <2>3. CASE b = a
    BY <1>1, <1>3, <2>1, <2>3 DEF Sound, Settling
  <2> QED BY <2>2, <2>3
<1> QED BY <1>2, <1>3 DEF Settling

LEMMA RecordingSound ==
    ASSUME PathInv, NEW a \in Attempts, Recording(a), NEW b \in Attempts
    PROVE  Sound(b)'
<1>1. PaymentTypeOK /\ Sound(a) /\ Sound(b)
  BY DEF PathInv
<1>2. \E code \in {"settled", "reused", "invalid"}, cause \in Causes,
         original \in Attempts \union {None} :
        /\ Answer(a, code, cause, original)
        /\ code = "settled" => rows' = {Row(a)}
        /\ code = "invalid" => cause = "db_insert"
  BY <1>1, OriginalTyped DEF Recording, Causes
<1>3. /\ \A c \in Attempts \ {a} : attempts'[c] = attempts[c]
      /\ attempts'[a].at = "answered" /\ attempts'[a].price = attempts[a].price
      /\ attempts'[a].code \in {"settled", "reused", "invalid"}
      /\ attempts'[a].code = "settled" => rows' = {Row(a)}
      /\ attempts'[a].code = "invalid" => attempts'[a].cause = "db_insert"
  BY <1>1, <1>2, AnswerFields DEF Codes
<1>4. CASE b # a
  <2>1. attempts[b].code = "settled" => rows' = rows
    BY <1>1 DEF Sound, Recording
  <2> QED BY <1>1, <1>3, <1>4, <2>1, OthersStaySound DEF Recording
<1>5. CASE b = a
  <2>1. Row(a)' = Row(a)
    BY <1>3 DEF Row
  <2>2. Checked(a)' /\ executedBy' # None
    BY <1>1, <1>3 DEF Sound, Checked, Recording
  <2> QED BY <1>3, <1>5, <2>1, <2>2 DEF Sound
<1> QED BY <1>4, <1>5

LEMMA LateSound ==
    ASSUME PathInv, NEW a \in Attempts, MovesLate(a), NEW b \in Attempts
    PROVE  Sound(b)'
<1>1. Sound(a) /\ Sound(b) /\ a # None
  BY PaymentAssumption DEF PathInv
<1>2. CASE b # a
  BY <1>1, <1>2, OthersStaySound DEF MovesLate
<1>3. CASE b = a
  <2>1. Checked(a)' <=> Checked(a)
    BY DEF Checked, MovesLate
  <2>2. Row(a)' = Row(a)
    BY DEF Row, MovesLate
  <2> QED BY <1>1, <1>3, <2>1, <2>2 DEF Sound, MovesLate
<1> QED BY <1>2, <1>3

LEMMA PathStepKeeps ==
    ASSUME PathInv, [PaymentNext]_paymentVars
    PROVE  PathInv'
<1>1. PaymentTypeOK /\ PathStep
  BY StepOfPath DEF PathInv
<1>2. PaymentTypeOK'
  BY <1>1, PaymentTypeStep
<1>3. ASSUME NEW b \in Attempts PROVE Sound(b)'
  <2>1. CASE UNCHANGED <<authorisation, attempts, pending, executedBy, rows>>
    <3>1. Sound(b)
      BY DEF PathInv
    <3> QED BY <2>1, <3>1, OthersStaySound
  <2> QED BY <1>1, <2>1, PassingSound, RefusingSound, SettlingSound, RecordingSound, LateSound
          DEF PathStep
<1> QED BY <1>2, <1>3 DEF PathInv

\* An attempt answered invalid or not accepted has not moved the payer's money and
\* never will, however late the facilitator acts and however attempts overlap; the
\* one exception is a payment whose row could not be written.
THEOREM RefusedSafety == PaymentSpec => []RefusedIsUnpaid
<1>1. PaymentInit => PathInv
  BY PaymentStart
<1>2. PathInv /\ [PaymentNext]_paymentVars => PathInv'
  BY PathStepKeeps
<1>3. PathInv => RefusedIsUnpaid
  BY DEF PathInv, Sound, RefusedIsUnpaid
<1> QED BY <1>1, <1>2, <1>3, PTL DEF PaymentSpec

LEMMA SoundIsPaid ==
    ASSUME PathInv
    PROVE  SettledIsPaid
<1> SUFFICES ASSUME NEW a \in Attempts, attempts[a].code = "settled"
             PROVE  /\ executedBy # None
                    /\ authorisation.terms = "right" /\ authorisation.value = attempts[a].price
                    /\ \E row \in rows :
                        /\ row.attempt = a /\ row.amount = authorisation.value
                        /\ row.shares.provider + row.shares.hub + row.shares.network = row.amount
                        /\ \A part \in DOMAIN row.shares : row.shares[part] >= 0
                    /\ \A b \in Attempts \ {a} : attempts[b].code # "settled"
  BY DEF SettledIsPaid
<1>1. executedBy # None /\ Checked(a) /\ rows = {Row(a)}
  BY DEF PathInv, Sound
<1>2. attempts[a].price \in Nat
  BY PaymentAssumption DEF PathInv, PaymentTypeOK
<1>3. /\ Row(a).attempt = a /\ Row(a).amount = authorisation.value
      /\ Row(a).shares.provider + Row(a).shares.hub + Row(a).shares.network = Row(a).amount
      /\ \A part \in DOMAIN Row(a).shares : Row(a).shares[part] >= 0
  BY <1>1, <1>2, RowAttempt, SharesAddUp DEF Checked
<1>4. ASSUME NEW b \in Attempts \ {a}, attempts[b].code = "settled" PROVE FALSE
  <2>1. Row(b) = Row(a)
    BY <1>1, <1>4 DEF PathInv, Sound
  <2> QED BY <1>4, <2>1, RowAttempt
<1> QED BY <1>1, <1>3, <1>4 DEF Checked

\* One transfer serves one invocation: a settled attempt is the only one, its money
\* moved in the amount of its price, and its row shares out all of it.
THEOREM SettledSafety == PaymentSpec => []SettledIsPaid
<1>1. PaymentInit => PathInv
  BY PaymentStart
<1>2. PathInv /\ [PaymentNext]_paymentVars => PathInv'
  BY PathStepKeeps
<1>3. PathInv => SettledIsPaid
  BY SoundIsPaid
<1> QED BY <1>1, <1>2, <1>3, PTL DEF PaymentSpec

(***************************************************************************)
(* PaymentPath implements PaidCalls                                        *)
(***************************************************************************)
\* Money that moves is the Transfer of PaidCalls, whoever asked for it.
LEMMA TransferStep ==
    ASSUME NEW a \in Attempts, executedBy' \in {executedBy, a}, UNCHANGED rows
    PROVE  [Promise!Next]_(Promise!vars)
<1>1. CASE executedBy' = executedBy
  BY <1>1 DEF Promise!vars
<1>2. CASE executedBy' = a
  <2>1. a # None
    BY PaymentAssumption
  <2>2. (IF executedBy' = None THEN {} ELSE {"authorisation"})
            = (IF executedBy = None THEN {} ELSE {"authorisation"}) \union {"authorisation"}
    BY <1>2, <2>1
  <2>3. Promise!Transfer(a)
    BY <2>2 DEF Promise!Transfer
  <2> QED BY <2>3 DEF Promise!Next
<1> QED BY <1>1, <1>2

\* A row is the Settle of PaidCalls: the money has moved, and there was no row.
LEMMA RecordStep ==
    ASSUME NEW a \in Attempts, Sound(a), Recording(a)
    PROVE  [Promise!Next]_(Promise!vars)
<1>1. executedBy # None /\ UNCHANGED executedBy
  BY DEF Sound, Recording
<1>2. CASE rows' = rows
  BY <1>1, <1>2 DEF Promise!vars
<1>3. CASE rows = {} /\ rows' = {Row(a)}
  <2>1. {row.attempt : row \in rows} = {} /\ {row.attempt : row \in rows'} = {a}
    BY <1>3, RowAttempt
  <2>2. Promise!Settle(a)
    BY <1>1, <2>1 DEF Promise!Settle
  <2> QED BY <2>2 DEF Promise!Next
<1> QED BY <1>2, <1>3 DEF Recording

\* Every attempt keeps the promise that Invoke keeps for its calls, in whatever way
\* the facilitator and its answers fail: a row only for money that moved, and one
\* row only for one authorisation (invoke_x402.rs, x402_settlements.rs).
THEOREM PaymentImplementation == PaymentSpec => KeepsPromise
<1>1. PaymentInit => Promise!Init
  BY DEF PaymentInit, Promise!Init
<1>2. PaymentInit => PathInv
  BY PaymentStart
<1>3. PathInv /\ [PaymentNext]_paymentVars => PathInv'
  BY PathStepKeeps
<1>4. PathInv /\ [PaymentNext]_paymentVars => [Promise!Next]_(Promise!vars)
  <2> SUFFICES ASSUME PathInv, [PaymentNext]_paymentVars
               PROVE  [Promise!Next]_(Promise!vars)
    OBVIOUS
  <2>1. PathStep
    BY StepOfPath DEF PathInv
  <2>2. ASSUME NEW a \in Attempts, Recording(a) PROVE [Promise!Next]_(Promise!vars)
    BY <2>2, RecordStep DEF PathInv
  <2>3. ASSUME NEW a \in Attempts, Settling(a) \/ MovesLate(a)
        PROVE  [Promise!Next]_(Promise!vars)
    BY <2>3, TransferStep DEF Settling, MovesLate
  <2>4. ASSUME UNCHANGED <<executedBy, rows>> PROVE [Promise!Next]_(Promise!vars)
    BY <2>4 DEF Promise!vars
  <2> QED BY <2>1, <2>2, <2>3, <2>4 DEF PathStep, Passing, Refusing
<1> QED BY <1>1, <1>2, <1>3, <1>4, PTL DEF PaymentSpec, KeepsPromise, Promise!Spec

(***************************************************************************)
(* SseStream: its lines                                                    *)
(***************************************************************************)
\* What lines and events are made of.
Words == {"event", "data", ":", "a", "b", "cr", "lf", "message"} \union Kinds
Events == [event : Seq(Words), data : Seq(Seq(Words))]

\* The lines of each kind of event.
LEMMA LineLengths ==
    ASSUME NEW kind \in Kinds
    PROVE  /\ Len(Lines(kind)) \in 1 .. 3
           /\ kind = "heartbeat" => Len(Lines(kind)) = 1 /\ Lines(kind)[1] = <<":">>
           /\ kind = "unnamed" => /\ Len(Lines(kind)) = 3
                                  /\ Lines(kind)[1] = <<"data", "a">>
                                  /\ Lines(kind)[2] = <<"data", "b">>
                                  /\ Lines(kind)[3] = <<>>
           /\ kind \notin {"heartbeat", "unnamed"} =>
                    /\ Len(Lines(kind)) = 3
                    /\ Lines(kind)[1] = <<"event", kind>>
                    /\ Lines(kind)[2] = <<"data", "a">>
                    /\ Lines(kind)[3] = <<>>
<1>1. CASE kind = "heartbeat"
  <2>1. Lines(kind) = << <<":">> >>  BY <1>1 DEF Lines
  <2> QED BY <1>1, <2>1
<1>2. CASE kind = "unnamed"
  <2>1. Lines(kind) = << <<"data", "a">>, <<"data", "b">>, <<>> >>  BY <1>2 DEF Lines
  <2> QED BY <1>2, <2>1
<1>3. CASE kind \notin {"heartbeat", "unnamed"}
  <2>1. Lines(kind) = << <<"event", kind>>, <<"data", "a">>, <<>> >>  BY <1>3 DEF Lines
  <2> QED BY <1>3, <2>1
<1> QED BY <1>1, <1>2, <1>3

\* No line of the provider has an end of line in it.
LEMMA LinesAreText ==
    ASSUME NEW kind \in Kinds, NEW n \in 1 .. Len(Lines(kind))
    PROVE  /\ Lines(kind)[n] \in Seq(Words)
           /\ Len(Lines(kind)[n]) \in 0 .. 2
           /\ \A i \in 1 .. Len(Lines(kind)[n]) : Lines(kind)[n][i] \notin {"cr", "lf"}
<1> DEFINE L == Lines(kind)[n]
<1>1. \/ L = <<":">> \/ L = <<>> \/ L = <<"data", "a">> \/ L = <<"data", "b">> \/ L = <<"event", kind>>
  BY LineLengths
<1>2. kind \in Words /\ kind \notin {"cr", "lf"}  BY DEF Words, Kinds, Final
<1>3. {":", "data", "event", "a", "b"} \subseteq Words  BY DEF Words
<1> HIDE DEF L
<1>4. L \in Seq(Words) /\ Len(L) \in 0 .. 2 /\ \A i \in 1 .. Len(L) : L[i] \notin {"cr", "lf"}
  <2>1. CASE L = <<":">>  BY <2>1, <1>3
  <2>2. CASE L = <<>>  BY <2>2
  <2>3. CASE L = <<"data", "a">>  BY <2>3, <1>3
  <2>4. CASE L = <<"data", "b">>  BY <2>4, <1>3
  <2>5. CASE L = <<"event", kind>>  BY <2>5, <1>2, <1>3
  <2> QED BY <1>1, <2>1, <2>2, <2>3, <2>4, <2>5
<1> QED BY <1>4 DEF L

\* A line with its end: lf is its last symbol only, and before it is the line, or
\* the line and a cr.
LEMMA TextOfLine ==
    ASSUME NEW L \in Seq(Words), NEW eol \in Eols,
           \A i \in 1 .. Len(L) : L[i] \notin {"cr", "lf"}
    PROVE  /\ L \o eol \in Seq(Words)
           /\ Len(L \o eol) \in Nat \ {0}
           /\ \A i \in 1 .. Len(L \o eol) : (L \o eol)[i] = "lf" <=> i = Len(L \o eol)
           /\ \/ eol = <<"lf">> /\ SubSeq(L \o eol, 1, Len(L \o eol) - 1) = L
              \/ eol = <<"cr", "lf">> /\ SubSeq(L \o eol, 1, Len(L \o eol) - 1) = Append(L, "cr")
<1>1. {"cr", "lf"} \subseteq Words  BY DEF Words
<1>2. CASE eol = <<"lf">>
  <2>1. /\ L \o eol \in Seq(Words) /\ Len(L \o eol) = Len(L) + 1
        /\ \A i \in 1 .. Len(L) : (L \o eol)[i] = L[i]
        /\ (L \o eol)[Len(L) + 1] = "lf"
    BY <1>1, <1>2
  <2>2. SubSeq(L \o eol, 1, Len(L)) = L  BY <2>1, SMTT(20)
  <2> QED BY <1>2, <2>1, <2>2
<1>3. CASE eol = <<"cr", "lf">>
  <2>1. /\ L \o eol \in Seq(Words) /\ Len(L \o eol) = Len(L) + 2
        /\ \A i \in 1 .. Len(L) : (L \o eol)[i] = L[i]
        /\ (L \o eol)[Len(L) + 1] = "cr"
        /\ (L \o eol)[Len(L) + 2] = "lf"
    BY <1>1, <1>3
  <2>2. SubSeq(L \o eol, 1, Len(L) + 1) = Append(L, "cr")  BY <1>1, <2>1, SMTT(20)
  <2> QED BY <1>3, <2>1, <2>2
<1> QED BY <1>2, <1>3 DEF Eols

\* The states of SseParser.
Parsers == [buf : Seq(Words), event : Seq(Words), data : Seq(Seq(Words)), queue : Seq(Events)]

\* The parser takes a line for what it is, unless its cr came in an earlier piece
\* than its lf.
LEMMA UnifiedLine ==
    ASSUME NEW kind \in Kinds, NEW n \in 1 .. Len(Lines(kind)), NEW eol \in Eols
    PROVE  LET L == Lines(kind)[n]
               line == Unified(SubSeq(L \o eol, 1, Len(L \o eol) - 1))
           IN  /\ line \in {L, Append(L, "cr")}
               /\ ~split => line = L
<1> DEFINE L == Lines(kind)[n]
           B == SubSeq(L \o eol, 1, Len(L \o eol) - 1)
<1>1. L \in Seq(Words) /\ \A i \in 1 .. Len(L) : L[i] \notin {"cr", "lf"}  BY LinesAreText
<1>2. B = L \/ B = Append(L, "cr")
  <2> HIDE DEF L
  <2> QED BY <1>1, TextOfLine
<1> HIDE DEF L, B
<1>3. CASE B = L
  <2>1. Unified(B) = L  BY <1>1, <1>3 DEF Unified
  <2> QED BY <2>1 DEF L, B
<1>4. CASE B = Append(L, "cr")
  <2>1. /\ Len(B) = Len(L) + 1 /\ B[Len(B)] = "cr" /\ B # <<>>
        /\ SubSeq(B, 1, Len(B) - 1) = L
    <3>1. "cr" \in Words  BY DEF Words
    <3> QED BY <1>1, <1>4, <3>1, SMTT(20)
  <2>2. Unified(B) = IF split THEN Append(L, "cr") ELSE L
    BY <2>1, <1>4 DEF Unified
  <2> QED BY <2>2 DEF L, B
<1> QED BY <1>2, <1>3, <1>4

\* What a line that is not empty does.
LEMMA FieldRead ==
    ASSUME NEW p \in Parsers, NEW line \in Seq(Words), line # <<>>
    PROVE  /\ ProcessLine(p, line) \in Parsers
           /\ ProcessLine(p, line).buf = p.buf
           /\ ProcessLine(p, line).queue = p.queue
           /\ ProcessLine(p, line).event = IF line[1] = "event" THEN Tail(line) ELSE p.event
           /\ ProcessLine(p, line).data = IF line[1] = "data" THEN Append(p.data, Tail(line)) ELSE p.data
<1>1. Tail(line) \in Seq(Words)  OBVIOUS
<1>2. Append(p.data, Tail(line)) \in Seq(Seq(Words))  BY <1>1 DEF Parsers
<1>3. CASE line[1] = "event"
  <2>1. ProcessLine(p, line) = [p EXCEPT !.event = Tail(line)]  BY <1>3 DEF ProcessLine
  <2> QED BY <2>1, <1>1, <1>3 DEF Parsers
<1>4. CASE line[1] = "data"
  <2>1. ProcessLine(p, line) = [p EXCEPT !.data = Append(p.data, Tail(line))]
    BY <1>4 DEF ProcessLine, Parsers
  <2> HIDE DEF Parsers
  <2>2. ProcessLine(p, line) \in Parsers  BY <2>1, <1>2 DEF Parsers
  <2> QED BY <2>1, <2>2, <1>4 DEF Parsers
<1>5. CASE line[1] \notin {"event", "data"}
  <2>1. ProcessLine(p, line) = p  BY <1>5 DEF ProcessLine
  <2> QED BY <2>1, <1>5
<1> QED BY <1>3, <1>4, <1>5

\* The event an empty line would put into the queue.
Pending(p) ==
    [event |-> IF p.event = <<>> THEN <<"message">> ELSE p.event, data |-> p.data]

\* What an empty line does.
LEMMA EventDispatched ==
    ASSUME NEW p \in Parsers
    PROVE  /\ Dispatch(p) \in Parsers
           /\ Dispatch(p).buf = p.buf
           /\ Dispatch(p).event = <<>> /\ Dispatch(p).data = <<>>
           /\ Dispatch(p).queue = IF p.event = <<>> /\ p.data = <<>> THEN p.queue
                                  ELSE Append(p.queue, Pending(p))
<1>1. CASE p.event = <<>> /\ p.data = <<>>
  BY <1>1 DEF Dispatch
<1>2. CASE ~(p.event = <<>> /\ p.data = <<>>)
  <2>1. Pending(p) \in Events
    <3>1. "message" \in Words  BY DEF Words
    <3> DEFINE name == IF p.event = <<>> THEN <<"message">> ELSE p.event
    <3>2. name \in Seq(Words)  BY <3>1 DEF Parsers
    <3> HIDE DEF name
    <3>3. [event |-> name, data |-> p.data] \in Events  BY <3>2 DEF Events, Parsers
    <3> QED BY <3>3 DEF Pending, name
  <2>2. Dispatch(p) = [buf |-> p.buf, event |-> <<>>, data |-> <<>>, queue |-> Append(p.queue, Pending(p))]
    BY <1>2 DEF Dispatch, Pending
  <2> DEFINE d == Dispatch(p)
             q == Append(p.queue, Pending(p))
  <2>3. q \in Seq(Events)  BY <2>1 DEF Parsers
  <2>4. <<>> \in Seq(Words) /\ <<>> \in Seq(Seq(Words)) /\ p.buf \in Seq(Words)  BY DEF Parsers
  <2>5. d = [buf |-> p.buf, event |-> <<>>, data |-> <<>>, queue |-> q]  BY <2>2
  <2> HIDE DEF d, q
  <2>6. d \in Parsers  BY <2>3, <2>4, <2>5 DEF Parsers
  <2>7. d.buf = p.buf /\ d.event = <<>> /\ d.data = <<>> /\ d.queue = q  BY <2>5
  <2> QED BY <2>6, <2>7, <1>2 DEF d, q
<1> QED BY <1>1, <1>2

\* What the parser should hold before line n of an event.
PendingEvent(kind, n) ==
    IF n \in {2, 3} /\ kind \notin {"heartbeat", "unnamed"} THEN <<kind>> ELSE <<>>
PendingData(kind, n) ==
    IF n = 3 /\ kind = "unnamed" THEN << <<"a">>, <<"b">> >>
    ELSE IF n = 3 \/ (n = 2 /\ kind = "unnamed") THEN << <<"a">> >>
    ELSE <<>>

\* The parser reads line n of an event, perhaps with its cr: nothing is dispatched
\* before the last line, and an intact line leaves what the next one should find.
LEMMA LineRead ==
    ASSUME NEW p \in Parsers, NEW kind \in Kinds, NEW n \in 1 .. Len(Lines(kind)),
           NEW line, line \in {Lines(kind)[n], Append(Lines(kind)[n], "cr")}
    PROVE  LET q == ProcessLine(p, line)
               last == n = Len(Lines(kind))
               next == IF last THEN 0 ELSE n + 1
           IN  /\ q \in Parsers /\ q.buf = p.buf
               /\ \/ q.queue = p.queue
                  \/ last /\ kind # "heartbeat" /\ q.queue = Append(p.queue, Pending(p))
               /\ q.event = <<"completed">> => p.event = <<"completed">> \/ kind = "completed"
               /\ (/\ line = Lines(kind)[n]
                   /\ p.event = PendingEvent(kind, n) /\ p.data = PendingData(kind, n))
                  => /\ q.event = PendingEvent(kind, next) /\ q.data = PendingData(kind, next)
                     /\ q.queue = IF last /\ kind # "heartbeat" THEN Append(p.queue, Meant(kind))
                                  ELSE p.queue
<1> DEFINE L == Lines(kind)[n]
           q == ProcessLine(p, line)
           last == n = Len(Lines(kind))
<1>0. "cr" \in Words /\ {":", "data", "event", "a", "b"} \subseteq Words /\ kind \in Words
  BY DEF Words
<1>00. L \in Seq(Words) /\ (L # <<>> => line \in Seq(Words) /\ line # <<>> /\ line[1] = L[1]
                               /\ Tail(line) \in {Tail(L), Append(Tail(L), "cr")}
                               /\ Tail(line) \in Seq(Words) /\ Tail(L) \in Seq(Words))
  <2>1. L \in Seq(Words)  BY LinesAreText
  <2>2. CASE line = L
    <3> HIDE DEF L
    <3> QED BY <2>1, <2>2
  <2>3. CASE line = Append(L, "cr")
    <3> HIDE DEF L
    <3>1. line \in Seq(Words) /\ line # <<>> /\ (L # <<>> => line[1] = L[1])  BY <2>1, <2>3, <1>0
    <3>2. L # <<>> => Tail(line) = Append(Tail(L), "cr")  BY <2>1, <2>3, <1>0, SMTT(20)
    <3> QED BY <2>1, <3>1, <3>2
  <2> QED BY <2>2, <2>3
<1>1. CASE kind = "heartbeat"
  <2>0. Len(Lines(kind)) = 1 /\ Lines(kind)[1] = <<":">>  BY <1>1, LineLengths
  <2>1. n = 1 /\ last /\ L = <<":">>  BY <2>0
  <2>2. line \in Seq(Words) /\ line # <<>> /\ line[1] = ":"
    <3>1. L # <<>> /\ L[1] = ":"  BY <2>1
    <3> HIDE DEF L
    <3> QED BY <1>00, <3>1
  <2>3. q \in Parsers /\ q.buf = p.buf /\ q.queue = p.queue /\ q.event = p.event /\ q.data = p.data
    BY <2>2, FieldRead
  <2>4. PendingEvent(kind, 0) = PendingEvent(kind, 1) /\ PendingData(kind, 0) = PendingData(kind, 1)
    BY <1>1 DEF PendingEvent, PendingData
  <2> HIDE DEF q
  <2> QED BY <2>1, <2>3, <2>4, <1>1 DEF q
<1>2. CASE kind # "heartbeat" /\ n = 3
  <2>1. last /\ L = <<>>  BY <1>2, LineLengths
  <2>2. CASE line = <<>>
    <3>1. q = Dispatch(p)  BY <2>2 DEF ProcessLine
    <3>2. q \in Parsers /\ q.buf = p.buf /\ q.event = <<>> /\ q.data = <<>>
          /\ q.queue = IF p.event = <<>> /\ p.data = <<>> THEN p.queue ELSE Append(p.queue, Pending(p))
      BY <3>1, EventDispatched
    <3>3. PendingEvent(kind, 0) = <<>> /\ PendingData(kind, 0) = <<>>  BY DEF PendingEvent, PendingData
    <3>4. ASSUME p.event = PendingEvent(kind, 3), p.data = PendingData(kind, 3)
          PROVE  p.data # <<>> /\ Pending(p) = Meant(kind)
      <4>1. CASE kind = "unnamed"
        <5>1. p.event = <<>> /\ p.data = << <<"a">>, <<"b">> >>
          BY <3>4, <4>1 DEF PendingEvent, PendingData
        <5> QED BY <5>1, <4>1 DEF Pending, Meant
      <4>2. CASE kind # "unnamed"
        <5>1. p.event = <<kind>> /\ p.data = << <<"a">> >>
          BY <3>4, <4>2, <1>2 DEF PendingEvent, PendingData
        <5>2. p.event # <<>>  BY <5>1
        <5> QED BY <5>1, <5>2, <4>2 DEF Pending, Meant
      <4> QED BY <4>1, <4>2
    <3>5. q.event # <<"completed">>  BY <3>2
    <3> HIDE DEF q
    <3> QED BY <2>1, <3>2, <3>3, <3>4, <3>5, <1>2 DEF q
  <2>3. CASE line = <<"cr">>
    <3>1. line \in Seq(Words) /\ line # <<>> /\ line[1] = "cr" /\ line # L  BY <2>1, <2>3, <1>0
    <3>2. q \in Parsers /\ q.buf = p.buf /\ q.queue = p.queue /\ q.event = p.event
      BY <3>1, FieldRead
    <3> HIDE DEF q
    <3> QED BY <3>1, <3>2 DEF q
  <2> QED BY <2>1, <2>2, <2>3
<1>3. CASE kind # "heartbeat" /\ n # 3 /\ L[1] = "event"
  <2>1. ~last /\ n = 1 /\ L = <<"event", kind>> /\ kind # "unnamed"  BY <1>3, LineLengths
  <2>2. L # <<>> /\ L[1] = "event" /\ Tail(L) = <<kind>>  BY <2>1
  <2>3. line \in Seq(Words) /\ line # <<>> /\ line[1] = "event"
    <3> HIDE DEF L
    <3> QED BY <1>00, <2>2
  <2>4. q \in Parsers /\ q.buf = p.buf /\ q.queue = p.queue /\ q.event = Tail(line) /\ q.data = p.data
    BY <2>3, FieldRead
  <2>5. Tail(line) = <<kind>> \/ Tail(line) = Append(<<kind>>, "cr")
    <3> HIDE DEF L
    <3> QED BY <1>00, <2>2
  <2>6. Tail(line) = <<"completed">> => kind = "completed"
    <3>1. Append(<<kind>>, "cr") # <<"completed">>
      <4>1. Len(Append(<<kind>>, "cr")) = 2 /\ Len(<<"completed">>) = 1  BY <1>0
      <4> QED BY <4>1
    <3>2. <<kind>> = <<"completed">> => kind = "completed"  OBVIOUS
    <3> QED BY <2>5, <3>1, <3>2
  <2>7. line = L => Tail(line) = <<kind>>  BY <2>1
  <2>8. PendingEvent(kind, 2) = <<kind>> /\ PendingData(kind, 2) = PendingData(kind, 1)
    BY <2>1, <1>3 DEF PendingEvent, PendingData
  <2>9. last = FALSE /\ (line = L => q.event = <<kind>>) /\ n + 1 = 2
        /\ (q.event = <<"completed">> => kind = "completed")
    BY <2>1, <2>4, <2>6, <2>7
  <2> HIDE DEF q, L
  <2> QED BY <2>1, <2>4, <2>8, <2>9 DEF q, L
<1>4. CASE kind # "heartbeat" /\ n # 3 /\ L[1] # "event"
  <2>1. ~last /\ \/ n = 2 /\ kind # "unnamed" /\ L = <<"data", "a">>
                 \/ n = 1 /\ kind = "unnamed" /\ L = <<"data", "a">>
                 \/ n = 2 /\ kind = "unnamed" /\ L = <<"data", "b">>
    BY <1>4, LineLengths
  <2>2. line \in Seq(Words) /\ line # <<>> /\ line[1] = "data"
    <3>0. L = <<"data", "a">> \/ L = <<"data", "b">>  BY <2>1
    <3>1. L # <<>> /\ L[1] = "data"  BY <3>0
    <3> HIDE DEF L
    <3> QED BY <1>00, <3>1
  <2>3. q \in Parsers /\ q.buf = p.buf /\ q.queue = p.queue /\ q.event = p.event
        /\ q.data = Append(p.data, Tail(line))
    BY <2>2, FieldRead
  <2>4. ASSUME line = L, p.data = PendingData(kind, n)
        PROVE  q.data = PendingData(kind, n + 1) /\ PendingEvent(kind, n + 1) = PendingEvent(kind, n)
    <3>1. CASE n = 2 /\ kind # "unnamed"
      <4>1. p.data = <<>> /\ PendingData(kind, 3) = << <<"a">> >>
            /\ PendingEvent(kind, 3) = PendingEvent(kind, 2)
        BY <1>4, <2>4, <3>1 DEF PendingData, PendingEvent
      <4>2. L = <<"data", "a">>  BY <2>1, <3>1
      <4>3. Tail(line) = <<"a">>  BY <2>4, <4>2
      <4>4. Append(<<>>, <<"a">>) = << <<"a">> >>  OBVIOUS
      <4>5. q.data = << <<"a">> >>  BY <2>3, <4>1, <4>3, <4>4
      <4> HIDE DEF q, L
      <4> QED BY <3>1, <4>1, <4>5
    <3>2. CASE n = 1 /\ kind = "unnamed"
      <4>1. p.data = <<>> /\ PendingData(kind, 2) = << <<"a">> >>
            /\ PendingEvent(kind, 2) = PendingEvent(kind, 1)
        BY <1>4, <2>4, <3>2 DEF PendingData, PendingEvent
      <4>2. L = <<"data", "a">>  BY <2>1, <3>2
      <4>3. Tail(line) = <<"a">>  BY <2>4, <4>2
      <4>4. Append(<<>>, <<"a">>) = << <<"a">> >>  OBVIOUS
      <4>5. q.data = << <<"a">> >>  BY <2>3, <4>1, <4>3, <4>4
      <4> HIDE DEF q, L
      <4> QED BY <3>2, <4>1, <4>5
    <3>3. CASE n = 2 /\ kind = "unnamed"
      <4>1. p.data = << <<"a">> >> /\ PendingData(kind, 3) = << <<"a">>, <<"b">> >>
            /\ PendingEvent(kind, 3) = PendingEvent(kind, 2)
        BY <1>4, <2>4, <3>3 DEF PendingData, PendingEvent
      <4>2. L = <<"data", "b">>  BY <2>1, <3>3
      <4>3. Tail(line) = <<"b">>  BY <2>4, <4>2
      <4>4. Append(<< <<"a">> >>, <<"b">>) = << <<"a">>, <<"b">> >>
        <5>1. ASSUME NEW x, NEW y  PROVE Append(<<x>>, y) = <<x, y>>
          <6> DEFINE S == {x, y}
                     s == Append(<<x>>, y)
                     t == <<x, y>>
          <6>1. s \in Seq(S) /\ t \in Seq(S) /\ Len(s) = 2 /\ Len(t) = 2
                /\ s[1] = t[1] /\ s[2] = t[2]
            OBVIOUS
          <6> HIDE DEF s, t, S
          <6>2. Len(s) = Len(t) /\ \A i \in 1 .. Len(s) : s[i] = t[i]  BY <6>1
          <6>3. s = t  BY <6>1, <6>2, SeqEqual
          <6> QED BY <6>3 DEF s, t
        <5> QED BY <5>1, Zenon
      <4>5. q.data = << <<"a">>, <<"b">> >>  BY <2>3, <4>1, <4>3, <4>4
      <4> HIDE DEF q, L
      <4> QED BY <3>3, <4>1, <4>5
    <3> QED BY <2>1, <3>1, <3>2, <3>3
  <2> HIDE DEF q
  <2> QED BY <2>1, <2>3, <2>4 DEF q
<1> QED BY <1>1, <1>2, <1>3, <1>4

(***************************************************************************)
(* SseStream: the inductive invariant                                      *)
(***************************************************************************)
\* completed has arrived.
Came == \E i \in DOMAIN arrived : arrived[i] = Meant("completed")

\* The types, and a queue that is not empty while it is relayed.
StreamShape ==
    /\ wire \in [kind : Kinds, line : 0 .. 3, place : Nat, eol : Eols, begun : Nat]
    /\ stage \in {"waiting", "feeding", "relaying", "over"}
    /\ parser \in Parsers
    /\ split \in BOOLEAN /\ torn \in BOOLEAN /\ billed \in BOOLEAN
    /\ shown \in Seq(Events) /\ arrived \in Seq(Events) /\ meter \in Nat
    /\ stage = "relaying" => parser.queue # <<>>

\* The buffer holds what has been read of the line that is coming in.
Buffered ==
    IF wire.line = 0 THEN parser.buf = <<>>
    ELSE /\ wire.line \in 1 .. Len(Lines(wire.kind)) /\ wire.place \in 1 .. Len(Text)
         /\ parser.buf = SubSeq(Text, 1, wire.place - 1)

\* The provider sends whole events, and nothing after a final one.
FinalLast ==
    \A i \in 1 .. Len(arrived) :
        /\ \E kind \in Kinds : arrived[i] = Meant(kind)
        /\ (\E kind \in Final : arrived[i].event = <<kind>>)
           => i = Len(arrived) /\ wire.kind \in Final /\ wire.line = 0

\* A completed anywhere behind the wire is one that has arrived, or its event line
\* has; this holds for torn streams too.
BilledCame ==
    /\ parser.event = <<"completed">> => wire.kind = "completed"
    /\ \A i \in 1 .. Len(parser.queue) : parser.queue[i].event = <<"completed">> => Came
    /\ billed => Came

\* The events the meter is about.
Metered == {i \in DOMAIN shown : shown[i] = Meant("meter")}

\* A stream that is not torn: every event is in one place, from the parser over the
\* queue to the client, and the meter and the charge agree with what the client saw.
Whole ==
    ~torn =>
        /\ ~split
        /\ parser.event = PendingEvent(wire.kind, wire.line)
        /\ parser.data = PendingData(wire.kind, wire.line)
        /\ shown \o parser.queue = arrived
        /\ stage \in {"waiting", "over"} => parser.queue = <<>>
        /\ meter = Cardinality(Metered)
        /\ billed <=> \E i \in DOMAIN shown : shown[i] = Meant("completed")

StreamInv == StreamShape /\ Buffered /\ FinalLast /\ BilledCame /\ Whole

\* What the client is to see tells the kinds apart.
LEMMA MeantKinds ==
    ASSUME NEW kind \in Kinds
    PROVE  /\ Meant(kind) \in Events
           /\ Meant(kind).event = <<"meter">> <=> kind = "meter"
           /\ Meant(kind).event = <<"completed">> <=> kind = "completed"
           /\ (\E f \in Final : Meant(kind).event = <<f>>) <=> kind \in Final
<1>1. {"message", "a", "b"} \subseteq Words /\ kind \in Words  BY DEF Words
<1>2. CASE kind = "unnamed"
  <2>1. Meant(kind) = [event |-> <<"message">>, data |-> << <<"a">>, <<"b">> >>]
    BY <1>2 DEF Meant
  <2>2. << <<"a">>, <<"b">> >> \in Seq(Seq(Words)) /\ <<"message">> \in Seq(Words)  BY <1>1
  <2>3. Meant(kind) \in Events  BY <2>1, <2>2 DEF Events
  <2> QED BY <2>1, <2>3, <1>2 DEF Final
<1>3. CASE kind # "unnamed"
  <2>1. Meant(kind) = [event |-> <<kind>>, data |-> << <<"a">> >>]  BY <1>3 DEF Meant
  <2>2. << <<"a">> >> \in Seq(Seq(Words)) /\ <<kind>> \in Seq(Words)  BY <1>1
  <2>3. Meant(kind) \in Events  BY <2>1, <2>2 DEF Events
  <2>4. Meant(kind).event = <<kind>>  BY <2>1
  <2>5. \A other : <<kind>> = <<other>> <=> kind = other  OBVIOUS
  <2> QED BY <2>3, <2>4, <2>5
<1> QED BY <1>2, <1>3

\* The first state of a stream.
LEMMA BeginsWell == SseInit => StreamInv
<1> SUFFICES ASSUME NEW eol \in Eols, NewStream(eol)  PROVE StreamInv
  BY DEF SseInit
<1> USE DEF NewStream
<1>1. parser \in Parsers
  <2>1. <<>> \in Seq(Words) /\ <<>> \in Seq(Seq(Words)) /\ <<>> \in Seq(Events)  OBVIOUS
  <2> QED BY <2>1 DEF Parsers
<1>2. StreamShape
  <2>1. wire \in [kind : Kinds, line : 0 .. 3, place : Nat, eol : Eols, begun : Nat]
    BY DEF Kinds
  <2>2. <<>> \in Seq(Events)  OBVIOUS
  <2>3. stage \in {"waiting", "feeding", "relaying", "over"} /\ stage # "relaying"
        /\ split = FALSE /\ torn = FALSE /\ billed = FALSE /\ meter = 0
        /\ shown = <<>> /\ arrived = <<>>
    OBVIOUS
  <2> QED BY <1>1, <2>1, <2>2, <2>3 DEF StreamShape
<1>3. Buffered  BY DEF Buffered
<1>4. FinalLast  BY DEF FinalLast
<1>5. BilledCame
  <2>1. parser.event = <<>> /\ parser.queue = <<>>  OBVIOUS
  <2> QED BY <2>1 DEF BilledCame
<1>6. Whole
  <2>1. Metered = {}  BY DEF Metered
  <2>2. Cardinality(Metered) = 0  BY <2>1, FS_EmptySet
  <2>3. shown \o parser.queue = arrived  OBVIOUS
  <2> QED BY <2>2, <2>3 DEF Whole, PendingEvent, PendingData
<1> QED BY <1>2, <1>3, <1>4, <1>5, <1>6 DEF StreamInv

\* The provider begins an event.
LEMMA SendKeeps ==
    ASSUME StreamInv, NEW kind \in Kinds, SendEvent(kind)
    PROVE  StreamInv'
<1> USE DEF SendEvent, readVars, clientVars
<1>1. wire' \in [kind : Kinds, line : 0 .. 3, place : Nat, eol : Eols, begun : Nat]
      /\ wire'.kind = kind /\ wire'.line = 1 /\ wire'.place = 1 /\ wire'.eol = wire.eol
      /\ wire.eol \in Eols /\ wire.kind \in Kinds \ Final /\ wire.line = 0
  <2>1. wire \in [kind : Kinds, line : 0 .. 3, place : Nat, eol : Eols, begun : Nat]
    BY DEF StreamInv, StreamShape
  <2>2. wire' = [kind |-> kind, line |-> 1, place |-> 1, eol |-> wire.eol, begun |-> wire.begun + 1]
    BY <2>1
  <2> QED BY <2>1, <2>2
<1>2. StreamShape'  BY <1>1 DEF StreamInv, StreamShape
<1>3. Buffered'
  <2>1. 1 \in 1 .. Len(Lines(kind)) /\ Lines(kind)[1] \in Seq(Words)
        /\ \A i \in 1 .. Len(Lines(kind)[1]) : Lines(kind)[1][i] \notin {"cr", "lf"}
    BY LineLengths, LinesAreText
  <2> DEFINE L == Lines(kind)[1]
             T == L \o wire.eol
  <2>2. T \in Seq(Words) /\ Len(T) \in Nat \ {0}
    <3> HIDE DEF L
    <3>1. L \in Seq(Words) /\ \A i \in 1 .. Len(L) : L[i] \notin {"cr", "lf"}  BY <2>1 DEF L
    <3> QED BY <3>1, <1>1, TextOfLine
  <2>3. Text' = T  BY <1>1 DEF Text
  <2> HIDE DEF T
  <2>4. SubSeq(T, 1, 0) = <<>>  BY <2>2
  <2>5. parser.buf = <<>>  BY <1>1 DEF StreamInv, Buffered
  <2> QED BY <1>1, <2>1, <2>2, <2>3, <2>4, <2>5 DEF Buffered
<1>4. FinalLast'
  BY <1>1 DEF StreamInv, FinalLast
<1>5. BilledCame'
  <2>1. wire.kind # "completed"  BY <1>1 DEF Final
  <2> QED BY <2>1 DEF StreamInv, BilledCame, Came
<1>6. Whole'
  <2>1. /\ PendingEvent(wire.kind, 0) = PendingEvent(kind, 1)
        /\ PendingData(wire.kind, 0) = PendingData(kind, 1)
    BY DEF PendingEvent, PendingData
  <2>2. Metered' = Metered  BY DEF Metered
  <2> QED BY <1>1, <2>1, <2>2 DEF StreamInv, Whole
<1> QED BY <1>2, <1>3, <1>4, <1>5, <1>6 DEF StreamInv

\* A piece ends.
LEMMA EndPieceKeeps ==
    ASSUME StreamInv, EndPiece
    PROVE  StreamInv'
<1> USE DEF EndPiece, clientVars
<1>1. StreamShape'
  <2>1. stage' \in {"waiting", "relaying"} /\ (stage' = "relaying" => parser.queue # <<>>)
    BY DEF WhenFed
  <2>2. split' \in BOOLEAN /\ torn' \in BOOLEAN  BY DEF EndsInCr, StreamInv, StreamShape
  <2> QED BY <2>1, <2>2 DEF StreamInv, StreamShape
<1>2. Buffered'  BY DEF StreamInv, Buffered, Text
<1>3. FinalLast'  BY DEF StreamInv, FinalLast
<1>4. BilledCame'  BY DEF StreamInv, BilledCame, Came
<1>5. Whole'
  <2>1. Metered' = Metered  BY DEF Metered
  <2>2. stage' \in {"waiting", "over"} => parser.queue = <<>>  BY DEF WhenFed
  <2>3. ~torn' => ~torn /\ ~split'  OBVIOUS
  <2> QED BY <2>1, <2>2, <2>3 DEF StreamInv, Whole
<1> QED BY <1>1, <1>2, <1>3, <1>4, <1>5 DEF StreamInv

\* The stream ends, or nothing happens.
LEMMA EndKeeps ==
    ASSUME StreamInv, EndOfStream \/ UNCHANGED streamVars
    PROVE  StreamInv'
<1>1. /\ UNCHANGED <<wire, parser, split, shown, meter, billed, torn, arrived>>
      /\ stage' = stage \/ (stage = "waiting" /\ stage' = "over")
  BY DEF EndOfStream, streamVars, readVars, clientVars
<1>2. StreamShape'  BY <1>1 DEF StreamInv, StreamShape
<1>3. Buffered'  BY <1>1 DEF StreamInv, Buffered, Text
<1>4. FinalLast'  BY <1>1 DEF StreamInv, FinalLast
<1>5. BilledCame'  BY <1>1 DEF StreamInv, BilledCame, Came
<1>6. Whole'
  <2>1. Metered' = Metered  BY <1>1 DEF Metered
  <2> QED BY <1>1, <2>1 DEF StreamInv, Whole
<1> QED BY <1>2, <1>3, <1>4, <1>5, <1>6 DEF StreamInv

\* A symbol that does not end its line goes to the buffer.
LEMMA InsideLine ==
    ASSUME StreamInv, StreamPiece, ~LineEnds
    PROVE  StreamInv'
<1> USE DEF StreamPiece, clientVars
<1> DEFINE T == Text
<1>1. /\ wire \in [kind : Kinds, line : 0 .. 3, place : Nat, eol : Eols, begun : Nat]
      /\ wire.line \in 1 .. Len(Lines(wire.kind)) /\ wire.place \in 1 .. Len(T)
      /\ parser.buf = SubSeq(T, 1, wire.place - 1) /\ parser \in Parsers
  BY DEF StreamInv, StreamShape, Buffered
<1>2. T \in Seq(Words) /\ Len(T) \in Nat \ {0}
      /\ \A i \in 1 .. Len(T) : T[i] = "lf" <=> i = Len(T)
  <2>1. Lines(wire.kind)[wire.line] \in Seq(Words)
        /\ \A i \in 1 .. Len(Lines(wire.kind)[wire.line]) :
                Lines(wire.kind)[wire.line][i] \notin {"cr", "lf"}
    BY <1>1, LinesAreText
  <2> DEFINE L == Lines(wire.kind)[wire.line]
  <2>2. L \in Seq(Words) /\ wire.eol \in Eols /\ \A i \in 1 .. Len(L) : L[i] \notin {"cr", "lf"}
    BY <2>1, <1>1
  <2>3. T = L \o wire.eol  BY DEF Text
  <2> HIDE DEF L, T
  <2> QED BY <2>2, <2>3, TextOfLine
<1>3. wire.place # Len(T) /\ T[wire.place] # "lf" /\ T[wire.place] \in Words
  BY <1>1, <1>2 DEF LineEnds
<1>4. parser' = [parser EXCEPT !.buf = Append(parser.buf, T[wire.place])]
  <2>1. parser' = [parser EXCEPT !.buf = Append(@, T[wire.place])]  BY <1>3 DEF Feed
  <2> QED BY <2>1, <1>1 DEF Parsers
<1>5. wire' = [wire EXCEPT !.place = wire.place + 1] /\ arrived' = arrived
  BY <1>1 DEF EventEnds
<1>6. /\ wire' \in [kind : Kinds, line : 0 .. 3, place : Nat, eol : Eols, begun : Nat]
      /\ wire'.kind = wire.kind /\ wire'.line = wire.line /\ wire'.eol = wire.eol
      /\ wire'.place = wire.place + 1
  <2>1. wire' = [kind |-> wire.kind, line |-> wire.line, place |-> wire.place + 1,
                 eol |-> wire.eol, begun |-> wire.begun]
    BY <1>1, <1>5
  <2>2. /\ wire.kind \in Kinds /\ wire.line \in 0 .. 3 /\ wire.place + 1 \in Nat
        /\ wire.eol \in Eols /\ wire.begun \in Nat
    BY <1>1
  <2> QED BY ONLY <2>1, <2>2
<1>7. parser' \in Parsers /\ parser'.event = parser.event /\ parser'.data = parser.data
      /\ parser'.queue = parser.queue /\ parser'.buf = Append(parser.buf, T[wire.place])
  <2> HIDE DEF T
  <2>0. parser.buf \in Seq(Words)  BY <1>1 DEF Parsers
  <2>1. Append(parser.buf, T[wire.place]) \in Seq(Words)  BY <1>3, <2>0
  <2> QED BY <1>1, <1>4, <2>1 DEF Parsers
<1>8. StreamShape'
  BY <1>5, <1>6, <1>7 DEF StreamInv, StreamShape
<1>9. Buffered'
  <2>1. Text' = T  BY <1>6 DEF Text
  <2> HIDE DEF T
  <2>2. SubSeq(T, 1, wire.place) = Append(SubSeq(T, 1, wire.place - 1), T[wire.place])
    BY <1>1, <1>2, SMTT(20)
  <2>3. wire'.place - 1 = wire.place /\ wire'.place \in 1 .. Len(T)  BY <1>1, <1>2, <1>3, <1>6
  <2> QED BY <1>1, <1>6, <1>7, <2>1, <2>2, <2>3 DEF Buffered
<1>10. FinalLast'  BY <1>1, <1>5, <1>6 DEF StreamInv, FinalLast
<1>11. BilledCame'  BY <1>5, <1>6, <1>7 DEF StreamInv, BilledCame, Came
<1>12. Whole'
  <2>1. Metered' = Metered  BY DEF Metered
  <2> QED BY <1>5, <1>6, <1>7, <2>1 DEF StreamInv, Whole
<1> QED BY <1>8, <1>9, <1>10, <1>11, <1>12 DEF StreamInv

\* An lf gives the parser its line.
LEMMA AtLineEnd ==
    ASSUME StreamInv, StreamPiece, LineEnds
    PROVE  \E line :
            /\ line \in {Lines(wire.kind)[wire.line], Append(Lines(wire.kind)[wire.line], "cr")}
            /\ ~split => line = Lines(wire.kind)[wire.line]
            /\ parser' = ProcessLine(Emptied(parser), line)
<1> DEFINE L == Lines(wire.kind)[wire.line]
           T == L \o wire.eol
<1>1. /\ wire.kind \in Kinds /\ wire.eol \in Eols /\ wire.line \in 1 .. Len(Lines(wire.kind))
      /\ wire.place = Len(T) /\ parser.buf = SubSeq(T, 1, Len(T) - 1)
  BY DEF StreamInv, StreamShape, Buffered, StreamPiece, LineEnds, Text
<1>2. T[Len(T)] = "lf"
  <2>1. L \in Seq(Words) /\ \A i \in 1 .. Len(L) : L[i] \notin {"cr", "lf"}  BY <1>1, LinesAreText
  <2> HIDE DEF L
  <2>2. Len(T) \in Nat \ {0} /\ \A i \in 1 .. Len(T) : T[i] = "lf" <=> i = Len(T)
    BY <2>1, <1>1, TextOfLine
  <2> HIDE DEF T
  <2> QED BY <2>2
<1>3. parser' = ProcessLine(Emptied(parser), Unified(SubSeq(T, 1, Len(T) - 1)))
  BY <1>1, <1>2 DEF StreamPiece, Feed, Text
<1>4. /\ Unified(SubSeq(T, 1, Len(T) - 1)) \in {L, Append(L, "cr")}
      /\ ~split => Unified(SubSeq(T, 1, Len(T) - 1)) = L
  BY <1>1, UnifiedLine
<1> HIDE DEF L, T
<1>5. \E line : line \in {L, Append(L, "cr")} /\ (~split => line = L)
                /\ parser' = ProcessLine(Emptied(parser), line)
  BY <1>3, <1>4
<1> QED BY <1>5 DEF L

\* The last symbol of a line.
LEMMA LineKeeps ==
    ASSUME StreamInv, StreamPiece, LineEnds
    PROVE  StreamInv'
<1> USE DEF StreamPiece, clientVars
<1> DEFINE kind == wire.kind
           n == wire.line
           last == n = Len(Lines(kind))
           next == IF last THEN 0 ELSE n + 1
           p == Emptied(parser)
           ends == last /\ kind # "heartbeat"
<1>1. /\ wire \in [kind : Kinds, line : 0 .. 3, place : Nat, eol : Eols, begun : Nat]
      /\ kind \in Kinds /\ n \in 1 .. Len(Lines(kind)) /\ parser \in Parsers
      /\ shown \in Seq(Events) /\ arrived \in Seq(Events)
  BY DEF StreamInv, StreamShape, Buffered
<1>2. p \in Parsers /\ p.event = parser.event /\ p.data = parser.data /\ p.queue = parser.queue
      /\ p.buf = <<>>
  <2>1. <<>> \in Seq(Words)  OBVIOUS
  <2>2. p = [parser EXCEPT !.buf = <<>>]  BY DEF Emptied
  <2> HIDE DEF p
  <2> QED BY <1>1, <2>1, <2>2 DEF Parsers
<1>3. PICK line : /\ line \in {Lines(kind)[n], Append(Lines(kind)[n], "cr")}
                  /\ ~split => line = Lines(kind)[n]
                  /\ parser' = ProcessLine(p, line)
  BY AtLineEnd
<1>4. /\ parser' \in Parsers /\ parser'.buf = <<>>
      /\ \/ parser'.queue = parser.queue
         \/ ends /\ parser'.queue = Append(parser.queue, Pending(p))
      /\ parser'.event = <<"completed">> => parser.event = <<"completed">> \/ kind = "completed"
      /\ (/\ line = Lines(kind)[n]
          /\ parser.event = PendingEvent(kind, n) /\ parser.data = PendingData(kind, n))
         => /\ parser'.event = PendingEvent(kind, next) /\ parser'.data = PendingData(kind, next)
            /\ parser'.queue = IF ends THEN Append(parser.queue, Meant(kind)) ELSE parser.queue
  <2> HIDE DEF p
  <2>1. kind \in Kinds /\ n \in 1 .. Len(Lines(kind))  BY <1>1
  <2>2. line \in {Lines(kind)[n], Append(Lines(kind)[n], "cr")}  BY <1>3
  <2> HIDE DEF kind, n
  <2>3. LET q == ProcessLine(p, line)
        IN  /\ q \in Parsers /\ q.buf = p.buf
            /\ \/ q.queue = p.queue
               \/ last /\ kind # "heartbeat" /\ q.queue = Append(p.queue, Pending(p))
            /\ q.event = <<"completed">> => p.event = <<"completed">> \/ kind = "completed"
            /\ (/\ line = Lines(kind)[n]
                /\ p.event = PendingEvent(kind, n) /\ p.data = PendingData(kind, n))
               => /\ q.event = PendingEvent(kind, next) /\ q.data = PendingData(kind, next)
                  /\ q.queue = IF last /\ kind # "heartbeat" THEN Append(p.queue, Meant(kind))
                               ELSE p.queue
    BY <1>2, <2>1, <2>2, LineRead
  <2> QED BY <1>2, <1>3, <2>3
<1>5. wire' = [wire EXCEPT !.line = next, !.place = 1]
  <2>1. CASE last  BY <2>1 DEF EventEnds
  <2>2. CASE ~last
    <3>1. wire' = [wire EXCEPT !.line = @ + 1, !.place = 1]  BY <2>2 DEF EventEnds
    <3> QED BY <3>1, <2>2, <1>1
  <2> QED BY <2>1, <2>2
<1>6. Len(Lines(kind)) \in 1 .. 3  BY <1>1, LineLengths
<1>7. /\ wire' \in [kind : Kinds, line : 0 .. 3, place : Nat, eol : Eols, begun : Nat]
      /\ wire'.kind = kind /\ wire'.line = next /\ wire'.place = 1 /\ wire'.eol = wire.eol
  <2>0. n \in 1 .. Len(Lines(kind))  BY <1>1
  <2> HIDE DEF kind, n
  <2>1. next \in 0 .. 3
    <3> DEFINE len == Len(Lines(kind))
    <3>1. len \in 1 .. 3 /\ n \in 1 .. len  BY <1>6, <2>0
    <3>2. next = IF n = len THEN 0 ELSE n + 1  OBVIOUS
    <3> HIDE DEF len, next
    <3> QED BY <3>1, <3>2
  <2> HIDE DEF next
  <2>2. wire' = [kind |-> kind, line |-> next, place |-> 1, eol |-> wire.eol, begun |-> wire.begun]
    BY <1>1, <1>5 DEF kind
  <2>3. kind \in Kinds /\ wire.eol \in Eols /\ wire.begun \in Nat  BY <1>1
  <2>4. 1 \in Nat  OBVIOUS
  <2> QED BY ONLY <2>1, <2>2, <2>3, <2>4
<1>8. arrived' = IF ends THEN Append(arrived, Meant(kind)) ELSE arrived
  BY DEF EventEnds
<1>9. Meant(kind) \in Events /\ arrived' \in Seq(Events)
  BY <1>1, <1>8, MeantKinds
<1>10. stage' = "feeding" /\ split' = FALSE /\ UNCHANGED <<shown, meter, billed, torn>>
  OBVIOUS
<1>11. StreamShape'
  <2> HIDE DEF next, ends, kind
  <2> QED BY <1>4, <1>7, <1>9, <1>10 DEF StreamInv, StreamShape
<1>12. Buffered'
  <2>1. CASE last  BY <2>1, <1>4, <1>7 DEF Buffered
  <2>2. CASE ~last
    <3> DEFINE L == Lines(kind)[n + 1]
               T == L \o wire.eol
    <3>1. n + 1 \in 1 .. Len(Lines(kind)) /\ wire'.line = n + 1  BY <2>2, <1>1, <1>6, <1>7
    <3>2. L \in Seq(Words) /\ (\A i \in 1 .. Len(L) : L[i] \notin {"cr", "lf"}) /\ wire.eol \in Eols
      BY <3>1, <1>1, LinesAreText
    <3>3. T \in Seq(Words) /\ Len(T) \in Nat \ {0}
      <4> HIDE DEF L
      <4> QED BY <3>2, TextOfLine
    <3>4. Text' = T  BY <1>7, <3>1 DEF Text
    <3> HIDE DEF T
    <3>5. SubSeq(T, 1, 0) = <<>>  BY <3>3
    <3> QED BY <1>4, <1>7, <3>1, <3>3, <3>4, <3>5 DEF Buffered
  <2> QED BY <2>1, <2>2
<1>13. FinalLast'
  <2>1. \A i \in 1 .. Len(arrived) :
            /\ \E k \in Kinds : arrived[i] = Meant(k)
            /\ ~\E f \in Final : arrived[i].event = <<f>>
    BY <1>1 DEF StreamInv, FinalLast
  <2>2. CASE ~ends
    <3> HIDE DEF ends
    <3> QED BY <2>1, <2>2, <1>8 DEF FinalLast
  <2>3. CASE ends
    <3>1. wire'.line = 0 /\ wire'.kind = kind  BY <2>3, <1>7
    <3>2. arrived' = Append(arrived, Meant(kind))  BY <2>3, <1>8
    <3>3. (\E f \in Final : Meant(kind).event = <<f>>) => kind \in Final  BY <1>1, MeantKinds
    <3>4. Len(arrived') = Len(arrived) + 1 /\ arrived'[Len(arrived) + 1] = Meant(kind)
          /\ \A i \in 1 .. Len(arrived) : arrived'[i] = arrived[i]
      <4>1. Meant(kind) \in Events  BY <1>9
      <4> HIDE DEF kind
      <4> QED BY <1>1, <3>2, <4>1
    <3> QED BY <2>1, <3>1, <3>3, <3>4, <1>1 DEF FinalLast
  <2> QED BY <2>2, <2>3
<1>14. Came => Came'
  <2> HIDE DEF ends, kind
  <2> QED BY <1>1, <1>8, <1>9 DEF Came
<1>15. BilledCame'
  <2>1. parser'.event = <<"completed">> => kind = "completed"
    BY <1>4 DEF StreamInv, BilledCame
  <2>2. billed' => Came'  BY <1>10, <1>14 DEF StreamInv, BilledCame
  <2>3. ASSUME NEW i \in 1 .. Len(parser'.queue), parser'.queue[i].event = <<"completed">>
        PROVE  Came'
    <3>1. CASE parser'.queue = parser.queue
      BY <2>3, <3>1, <1>14 DEF StreamInv, BilledCame
    <3>2. CASE ends /\ parser'.queue = Append(parser.queue, Pending(p))
      <4>1. parser.queue \in Seq(Events)  BY <1>1 DEF Parsers
      <4>2. CASE i \in 1 .. Len(parser.queue)
        <5>1. parser'.queue[i] = parser.queue[i]  BY <3>2, <4>1, <4>2
        <5> QED BY <5>1, <2>3, <4>2, <1>14 DEF StreamInv, BilledCame
      <4>3. CASE i = Len(parser.queue) + 1
        <5>1. parser'.queue[i] = Pending(p)  BY <3>2, <4>1, <4>3
        <5>2. p.event = <<"completed">>
          <6>1. <<"message">> # <<"completed">>  OBVIOUS
          <6> HIDE DEF p
          <6> QED BY <5>1, <2>3, <6>1 DEF Pending
        <5>3. kind = "completed"  BY <5>2, <1>2 DEF StreamInv, BilledCame
        <5>4. arrived' = Append(arrived, Meant("completed"))  BY <3>2, <1>8, <5>3
        <5>5. Meant("completed") \in Events  BY <1>9, <5>3
        <5> QED BY <5>4, <5>5, <1>1 DEF Came
      <4>4. Len(parser'.queue) = Len(parser.queue) + 1  BY <3>2, <4>1
      <4> QED BY <4>1, <4>2, <4>3, <4>4, <2>3
    <3> QED BY <3>1, <3>2, <1>4
  <2> QED BY <2>1, <2>2, <2>3, <1>7 DEF BilledCame
<1>16. Whole'
  <2> SUFFICES ASSUME ~torn  PROVE Whole'
    BY <1>10 DEF Whole
  <2>1. ~split /\ parser.event = PendingEvent(kind, n) /\ parser.data = PendingData(kind, n)
        /\ shown \o parser.queue = arrived
    BY DEF StreamInv, Whole
  <2>2. /\ parser'.event = PendingEvent(kind, next) /\ parser'.data = PendingData(kind, next)
        /\ parser'.queue = IF ends THEN Append(parser.queue, Meant(kind)) ELSE parser.queue
    BY <1>3, <1>4, <2>1
  <2>3. shown \o parser'.queue = arrived'
    <3>1. CASE ends
      <4>1. parser.queue \in Seq(Events)  BY <1>1 DEF Parsers
      <4>2. \A s, t \in Seq(Events), e \in Events : s \o Append(t, e) = Append(s \o t, e)
        BY SMTT(20)
      <4> DEFINE meant == Meant(kind)
      <4>3. parser'.queue = Append(parser.queue, meant) /\ arrived' = Append(arrived, meant)
            /\ meant \in Events
        BY <3>1, <2>2, <1>8, <1>9
      <4> HIDE DEF meant
      <4>4. shown \o Append(parser.queue, meant) = Append(shown \o parser.queue, meant)
        BY <1>1, <4>1, <4>2, <4>3
      <4> QED BY <4>3, <4>4, <2>1
    <3>2. CASE ~ends  BY <3>2, <2>1, <2>2, <1>8
    <3> QED BY <3>1, <3>2
  <2>4. Metered' = Metered  BY <1>10 DEF Metered
  <2>5. meter' = Cardinality(Metered')  BY <2>4, <1>10 DEF StreamInv, Whole
  <2>6. billed' <=> \E i \in DOMAIN shown' : shown'[i] = Meant("completed")
    BY <1>10 DEF StreamInv, Whole
  <2>7. parser'.event = PendingEvent(wire'.kind, wire'.line)
        /\ parser'.data = PendingData(wire'.kind, wire'.line)
    BY <2>2, <1>7
  <2>8. split' = FALSE /\ stage' \notin {"waiting", "over"}  BY <1>10
  <2> QED BY <2>3, <2>5, <2>6, <2>7, <2>8 DEF Whole
<1> QED BY <1>11, <1>12, <1>13, <1>15, <1>16 DEF StreamInv

\* One more event seen is one more counted if the meter is about it.
LEMMA MeteredAppend ==
    ASSUME NEW events \in Seq(Events), NEW ev \in Events
    PROVE  LET seen == {i \in DOMAIN events : events[i] = Meant("meter")}
               longer == Append(events, ev)
           IN  Cardinality({i \in DOMAIN longer : longer[i] = Meant("meter")})
                   = Cardinality(seen) + IF ev = Meant("meter") THEN 1 ELSE 0
<1> DEFINE seen == {i \in DOMAIN events : events[i] = Meant("meter")}
           longer == Append(events, ev)
           after == {i \in DOMAIN longer : longer[i] = Meant("meter")}
           top == Len(events) + 1
<1>1. /\ DOMAIN longer = 1 .. top /\ DOMAIN events = 1 .. Len(events) /\ longer[top] = ev
      /\ \A i \in 1 .. Len(events) : longer[i] = events[i]
      /\ Len(events) \in Nat
  OBVIOUS
<1>2. seen \subseteq 1 .. Len(events) /\ top \notin seen  BY <1>1
<1>3. IsFiniteSet(seen) /\ Cardinality(seen) \in Nat
  <2>1. IsFiniteSet(1 .. Len(events))  BY <1>1, FS_Interval
  <2> QED BY <1>2, <2>1, FS_Subset, FS_CardinalityType
<1>4. after = IF ev = Meant("meter") THEN seen \union {top} ELSE seen
  <2> HIDE DEF longer
  <2> QED BY <1>1
<1>5. Cardinality(after) = Cardinality(seen) + IF ev = Meant("meter") THEN 1 ELSE 0
  <2> HIDE DEF seen, after, top
  <2>1. CASE ev = Meant("meter")
    <3>1. after = seen \union {top}  BY <1>4, <2>1
    <3> QED BY <1>2, <1>3, <2>1, <3>1, FS_AddElement
  <2>2. CASE ev # Meant("meter")
    <3>1. after = seen  BY <1>4, <2>2
    <3> QED BY <1>3, <2>2, <3>1
  <2> QED BY <2>1, <2>2
<1> QED BY <1>5

\* One event off the queue.
LEMMA RelayKeeps ==
    ASSUME StreamInv, RelayEvent
    PROVE  StreamInv'
<1> DEFINE ev == Head(parser.queue)
           rest == Tail(parser.queue)
<1>1. /\ parser \in Parsers /\ parser.queue \in Seq(Events) /\ parser.queue # <<>>
      /\ shown \in Seq(Events) /\ arrived \in Seq(Events) /\ meter \in Nat
  BY DEF StreamInv, StreamShape, Parsers, RelayEvent
<1>2. ev \in Events /\ rest \in Seq(Events) /\ ev = parser.queue[1]
      /\ \A i \in 1 .. Len(rest) : i + 1 \in 1 .. Len(parser.queue) /\ rest[i] = parser.queue[i + 1]
  BY <1>1
<1>3. /\ parser' = [parser EXCEPT !.queue = rest]
      /\ shown' = Append(shown, ev)
      /\ meter' = meter + IF ev.event = <<"meter">> THEN 1 ELSE 0
      /\ billed' = (ev.event = <<"completed">>)
      /\ stage' = IF \E kind \in Final : ev.event = <<kind>> THEN "over" ELSE WhenFed(rest)
      /\ UNCHANGED <<wire, split, torn, arrived>>
  BY DEF RelayEvent
<1> HIDE DEF ev, rest
<1>4. parser' \in Parsers /\ parser'.queue = rest /\ parser'.buf = parser.buf
      /\ parser'.event = parser.event /\ parser'.data = parser.data
  BY <1>1, <1>2, <1>3 DEF Parsers
<1>5. shown' \in Seq(Events) /\ Len(shown') = Len(shown) + 1 /\ shown'[Len(shown) + 1] = ev
      /\ (\A i \in 1 .. Len(shown) : shown'[i] = shown[i]) /\ DOMAIN shown' = 1 .. Len(shown) + 1
      /\ Len(shown) \in Nat /\ DOMAIN shown = 1 .. Len(shown)
  BY <1>1, <1>2, <1>3
<1>6. stage' \in {"waiting", "relaying", "over"} /\ (stage' = "relaying" => rest # <<>>)
      /\ (stage' = "waiting" => rest = <<>>)
      /\ (stage' = "over" => \E kind \in Final : ev.event = <<kind>>)
  BY <1>3 DEF WhenFed
<1>7. StreamShape'
  <2>1. meter' \in Nat /\ billed' \in BOOLEAN  BY <1>1, <1>3
  <2> QED BY <1>3, <1>4, <1>5, <1>6, <2>1 DEF StreamInv, StreamShape
<1>8. Buffered'  BY <1>3, <1>4 DEF StreamInv, Buffered, Text
<1>9. FinalLast'  BY <1>3 DEF StreamInv, FinalLast
<1>10. BilledCame'
  <2>1. Came' = Came  BY <1>3 DEF Came
  <2>2. billed' => Came
    <3>1. 1 \in 1 .. Len(parser.queue)  BY <1>1
    <3> QED BY <1>2, <1>3, <3>1 DEF StreamInv, BilledCame
  <2>3. \A i \in 1 .. Len(rest) : rest[i].event = <<"completed">> => Came
    BY <1>2 DEF StreamInv, BilledCame
  <2> QED BY <1>3, <1>4, <2>1, <2>2, <2>3 DEF StreamInv, BilledCame
<1>11. Whole'
  <2> SUFFICES ASSUME ~torn  PROVE Whole'
    BY <1>3 DEF Whole
  <2>1. /\ ~split /\ parser.event = PendingEvent(wire.kind, wire.line)
        /\ parser.data = PendingData(wire.kind, wire.line)
        /\ shown \o parser.queue = arrived /\ meter = Cardinality(Metered)
    BY DEF StreamInv, Whole
  <2>2. shown' \o rest = arrived
    <3>1. shown' \o rest = shown \o parser.queue
      <4>1. parser.queue = <<ev>> \o rest  BY <1>1 DEF ev, rest
      <4>2. \A s, t \in Seq(Events), e \in Events : Append(s, e) \o t = s \o (<<e>> \o t)
        BY SMTT(20)
      <4> QED BY <1>1, <1>2, <1>3, <4>1, <4>2
    <3> QED BY <2>1, <3>1
  <2>3. /\ Len(arrived) = Len(shown) + 1 + Len(rest)
        /\ \A i \in 1 .. Len(shown') : arrived[i] = shown'[i]
        /\ Len(rest) \in Nat
    <3>1. \A s, t \in Seq(Events) : /\ Len(s \o t) = Len(s) + Len(t) /\ Len(t) \in Nat
                                    /\ \A i \in 1 .. Len(s) : (s \o t)[i] = s[i]
      OBVIOUS
    <3> QED BY <1>2, <1>5, <2>2, <3>1
  <2>4. Len(shown) + 1 \in 1 .. Len(arrived) /\ arrived[Len(shown) + 1] = ev
    BY <1>5, <2>3
  <2>5. PICK kind \in Kinds : ev = Meant(kind)
    BY <2>4 DEF StreamInv, FinalLast
  <2>6. \A other \in Kinds : Meant(other).event = <<"meter">> <=> other = "meter"
    BY MeantKinds
  <2>7. stage' \in {"waiting", "over"} => rest = <<>>
    <3>1. stage' = "over" => Len(shown) + 1 = Len(arrived)
      BY <1>6, <2>4 DEF StreamInv, FinalLast
    <3> QED BY <1>2, <1>5, <1>6, <2>3, <3>1
  <2>8. "meter" \in Kinds /\ "completed" \in Kinds /\ "completed" \in Final  BY DEF Kinds, Final
  <2>9. ev.event = <<"meter">> <=> ev = Meant("meter")
    BY <2>5, <2>8, MeantKinds
  <2>10. ev.event = <<"completed">> <=> ev = Meant("completed")
    BY <2>5, <2>8, MeantKinds
  <2>11. meter' = Cardinality(Metered')
    <3>1. Cardinality(Metered') = Cardinality(Metered) + IF ev = Meant("meter") THEN 1 ELSE 0
      BY <1>1, <1>2, <1>3, MeteredAppend DEF Metered
    <3> QED BY <1>3, <2>1, <2>9, <3>1
  <2>12. \A i \in 1 .. Len(shown) : shown'[i] # Meant("completed")
    <3> SUFFICES ASSUME NEW i \in 1 .. Len(shown), shown'[i] = Meant("completed")  PROVE FALSE
      OBVIOUS
    <3>1. i \in 1 .. Len(arrived) /\ arrived[i] = Meant("completed")  BY <1>5, <2>3
    <3>2. arrived[i].event = <<"completed">>  BY <3>1, <2>8, MeantKinds
    <3>3. i = Len(arrived)  BY <3>1, <3>2, <2>8 DEF StreamInv, FinalLast
    <3> QED BY <1>5, <2>3, <3>3
  <2>13. billed' <=> \E i \in DOMAIN shown' : shown'[i] = Meant("completed")
    <3>1. billed' => shown'[Len(shown) + 1] = Meant("completed")  BY <1>3, <1>5, <2>10
    <3>2. Len(shown) + 1 \in DOMAIN shown'  BY <1>5
    <3>3. ASSUME NEW i \in DOMAIN shown', shown'[i] = Meant("completed")  PROVE billed'
      <4>1. i = Len(shown) + 1  BY <1>5, <2>12, <3>3
      <4> QED BY <1>3, <1>5, <2>10, <3>3, <4>1
    <3> QED BY <3>1, <3>2, <3>3
  <2> QED BY <1>3, <1>4, <2>1, <2>2, <2>7, <2>11, <2>13 DEF Whole
<1> QED BY <1>7, <1>8, <1>9, <1>10, <1>11 DEF StreamInv

\* The inductive invariant, for any number of events, every way to cut them into
\* pieces and both ends of lines (routes/invoke.rs:1483-1597, 1942-2000).
THEOREM StreamInvariance == SseSpec => []StreamInv
<1>1. StreamInv /\ [SseNext]_streamVars => StreamInv'
  <2> SUFFICES ASSUME StreamInv, [SseNext]_streamVars  PROVE StreamInv'
    OBVIOUS
  <2>1. ASSUME NEW kind \in Kinds, SendEvent(kind)  PROVE StreamInv'  BY <2>1, SendKeeps
  <2>2. CASE StreamPiece
    BY <2>2, InsideLine, LineKeeps
  <2>3. CASE EndPiece  BY <2>3, EndPieceKeeps
  <2>4. CASE RelayEvent  BY <2>4, RelayKeeps
  <2>5. CASE EndOfStream \/ UNCHANGED streamVars  BY <2>5, EndKeeps
  <2> QED BY <2>1, <2>2, <2>3, <2>4, <2>5 DEF SseNext
<1> QED BY <1>1, BeginsWell, PTL DEF SseSpec

\* A stream that is never cut between cr and lf reaches the client whole and in
\* order, metered and charged for what it saw; one that is may lose an event, but is
\* never charged without a completed that arrived (routes/invoke.rs:1483-1597,
\* 1953-2000).
THEOREM StreamRelayedSafety == SseSpec => []StreamRelayed
<1>1. StreamInv => StreamRelayed
  <2> SUFFICES ASSUME StreamInv  PROVE StreamRelayed
    OBVIOUS
  <2>1. billed => \E i \in DOMAIN arrived : arrived[i] = Meant("completed")
    BY DEF StreamInv, BilledCame, Came
  <2>2. ASSUME ~torn, stage \in {"waiting", "over"}  PROVE shown = arrived
    <3>1. shown \o <<>> = arrived /\ shown \in Seq(Events)
      BY <2>2 DEF StreamInv, Whole, StreamShape
    <3> QED BY <3>1
  <2> QED BY <2>1, <2>2 DEF StreamInv, Whole, StreamRelayed, Metered
<1> QED BY <1>1, StreamInvariance, PTL
================================================================================
