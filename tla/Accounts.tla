-------------------------------- MODULE Accounts --------------------------------
(***************************************************************************)
(* What POST /v1/jecp promises an agent about its account, without         *)
(* handlers, mandates, faults or a choice made in advance: a call is       *)
(* performed at most once, its price is taken at most once and only then,  *)
(* it is told once what it cost, and told "wallet" only if the wallet      *)
(* paid, "charged" only if the wallet did not.  A repetition is told what  *)
(* the first call of its id and payload was.  ExecuteTask implements it    *)
(* for any number of calls at once and under every fault.                  *)
(***************************************************************************)
EXTENDS Integers

CONSTANTS
    Calls, Ids,
    Jobs,           \* what calls ask for: id, input, cost, stream
    FreeCalls,      \* free calls of the agent
    Funds,          \* and what is in its wallet
    NoRow

VARIABLES
    job,            \* job[c]: what call c asks for
    free,           \* free calls left
    total,          \* calls counted
    balance,
    performed,      \* calls that were performed
    debited,        \* calls whose price was taken
    bill,           \* bill[c]: what c was told it cost, or "none"
    kept            \* kept[i]: what repetitions of i are told, or NoRow

vars == <<job, free, total, balance, performed, debited, bill, kept>>

Init ==
    /\ job \in [Calls -> Jobs]
    /\ free = FreeCalls /\ total = 0 /\ balance = Funds
    /\ performed = {} /\ debited = {}
    /\ bill = [c \in Calls |-> "none"]
    /\ kept = [i \in Ids |-> NoRow]

Grant ==
    /\ free > 0
    /\ free' = free - 1 /\ total' = total + 1
    /\ UNCHANGED <<job, balance, performed, debited, bill, kept>>

May(c, told) ==
    \/ told = "free"
    \/ told = "charged" /\ job[c].cost > 0 /\ c \notin debited
    \/ told = "wallet" /\ c \in debited

\* A stream is told what it cost as it is performed.
Perform(c) ==
    /\ c \notin performed /\ bill[c] = "none"
    /\ performed' = performed \union {c}
    /\ IF job[c].stream
       THEN \E told \in {"free", "charged"} :
                May(c, told) /\ bill' = [bill EXCEPT ![c] = told]
       ELSE bill' = bill
    /\ UNCHANGED <<job, free, total, balance, debited, kept>>

Unbilled == {c \in performed : ~job[c].stream /\ bill[c] = "none"}

Take(c) == balance' = balance - job[c].cost /\ debited' = debited \union {c}

\* The answer to a deduction may be lost, and the call be told that it was free.
Debit(c) ==
    /\ c \in Unbilled \ debited
    /\ job[c].cost > 0 /\ balance >= job[c].cost
    /\ Take(c)
    /\ bill' = bill \/ bill' = [bill EXCEPT ![c] = "free"]
    /\ UNCHANGED <<job, free, total, performed, kept>>

\* A priced call is counted as it is billed, if at all.
Bill(c, told) ==
    /\ c \in Unbilled /\ May(c, told)
    /\ bill' = [bill EXCEPT ![c] = told]
    /\ \/ total' = total
       \/ told # "free" /\ total' = total + 1
    /\ UNCHANGED <<job, free, balance, performed, debited, kept>>

Keep(c) ==
    /\ c \in performed /\ bill[c] # "none" /\ ~job[c].stream
    /\ kept' = [kept EXCEPT ![job[c].id] = [input |-> job[c].input, bill |-> bill[c]]]
    /\ UNCHANGED <<job, free, total, balance, performed, debited, bill>>

Repeat(c) ==
    LET row == kept[job[c].id]
    IN  /\ c \notin performed /\ bill[c] = "none"
        /\ row # NoRow /\ row.input = job[c].input
        /\ bill' = [bill EXCEPT ![c] = row.bill]
        /\ UNCHANGED <<job, free, total, balance, performed, debited, kept>>

Next ==
    \/ Grant
    \/ \E c \in Calls :
          \/ Perform(c) \/ Debit(c) \/ Keep(c) \/ Repeat(c)
          \/ \E told \in {"free", "charged", "wallet"} : Bill(c, told)

Spec == Init /\ [][Next]_vars
================================================================================
