------------------------------- MODULE Paybacks -------------------------------
(***************************************************************************)
(* What the Hub promises about refunds, without requests, queries or a     *)
(* loop: a charge is asked back at most once and within the limits of the  *)
(* day; whoever decides, the provider or the clock, decides once; money    *)
(* goes back once, after a favourable decision only; and what a provider's *)
(* subscribers are told has happened.  Refunds implements it as long as    *)
(* one request or batch is worked on at a time and nothing fails.          *)
(***************************************************************************)
EXTENDS Integers, FiniteSets

CONSTANTS
    Txs,            \* charges
    Agent,          \* Agent[t]: who was charged
    Provider,       \* Provider[t]: for whose capability
    DayLimit,       \* refunds an agent may ask for within a day
    PairLimit       \* and against one provider

VARIABLES
    asked,          \* charges asked back
    age,            \* age[t]: "day", then "window", then "overdue"
    verdict,        \* verdict[t]: {} or the one decision
    repaid,         \* charges paid back
    told            \* (charge, event) pairs announced

vars == <<asked, age, verdict, repaid, told>>

Init ==
    /\ asked = {} /\ repaid = {} /\ told = {}
    /\ age = [t \in Txs |-> "day"]
    /\ verdict = [t \in Txs |-> {}]

Waiting   == {t \in asked : verdict[t] = {}}
Today(a)  == {t \in asked : age[t] = "day" /\ Agent[t] = a}

Ask(t) ==
    /\ t \notin asked
    /\ Cardinality(Today(Agent[t])) < DayLimit
    /\ Cardinality({u \in Today(Agent[t]) : Provider[u] = Provider[t]}) < PairLimit
    /\ asked' = asked \union {t}
    /\ UNCHANGED <<age, verdict, repaid, told>>

Grow(t) ==
    /\ t \in asked /\ age[t] # "overdue"
    /\ age' = [age EXCEPT ![t] = IF @ = "day" THEN "window" ELSE "overdue"]
    /\ UNCHANGED <<asked, verdict, repaid, told>>

Decide(t, v) ==
    /\ t \in Waiting /\ v \in {"approved", "denied"}
    /\ verdict' = [verdict EXCEPT ![t] = {v}]
    /\ UNCHANGED <<asked, age, repaid, told>>

\* Silence approves.
Lapse(rows) ==
    /\ rows \subseteq Waiting /\ \A t \in rows : age[t] = "overdue"
    /\ verdict' = [t \in Txs |-> IF t \in rows THEN {"auto_approved"} ELSE verdict[t]]
    /\ UNCHANGED <<asked, age, repaid, told>>

Repay(t) ==
    /\ verdict[t] \in {{"approved"}, {"auto_approved"}} /\ t \notin repaid
    /\ repaid' = repaid \union {t}
    /\ \/ told' = told
       \/ told' = told \union {<<t, "invocation.refunded">>}
    /\ UNCHANGED <<asked, age, verdict>>

Tell(t) ==
    /\ \/ t \in repaid /\ told' = told \union {<<t, "invocation.refunded">>}
       \/ verdict[t] = {"denied"} /\ told' = told \union {<<t, "refund.denied">>}
    /\ UNCHANGED <<asked, age, verdict, repaid>>

Next ==
    \/ \E t \in Txs :
          Ask(t) \/ Grow(t) \/ Decide(t, "approved") \/ Decide(t, "denied") \/ Repay(t) \/ Tell(t)
    \/ \E rows \in SUBSET Txs : Lapse(rows)

Spec == Init /\ [][Next]_vars
================================================================================
