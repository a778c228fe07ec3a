--------------------------------- MODULE Pools ---------------------------------
(***************************************************************************)
(* How a machine divides its connections (services/database.rs, config.rs) *)
(* into the four pools that keep its parts apart.  All arithmetic is on 32 *)
(* bits without sign, and wraps.                                           *)
(***************************************************************************)
EXTENDS Integers

MIN_TOTAL_POOL_BUDGET == 14

Unsigned == 0 .. 2 ^ 32 - 1
Wrapped(n) == n % 2 ^ 32
Larger(a, b) == IF a > b THEN a ELSE b

\* Percents of the total, and no pool below its floor.
ComputeBudget(total) ==
    [invoke     |-> Larger(Wrapped(total * 50) \div 100, 4),
     provider   |-> Larger(Wrapped(total * 20) \div 100, 2),
     background |-> Larger(Wrapped(total * 15) \div 100, 2),
     read       |-> Larger(Wrapped(total * 15) \div 100, 2)]

BudgetSum(budget) == budget.invoke + budget.provider + budget.background + budget.read

\* The total the pools are made from.
Configured(max_connections) == Larger(max_connections, MIN_TOTAL_POOL_BUDGET)

\* Whatever DB_MAX_CONNECTIONS says, no pool is below its floor, the sum is below
\* the total, so that start-up does not fail, and it does not wrap.
PoolsFit ==
    \A max_connections \in Unsigned :
        LET total == Configured(max_connections)
            budget == ComputeBudget(total)
        IN  /\ BudgetSum(budget) <= total
            /\ budget.invoke >= 4 /\ budget.provider >= 2
            /\ budget.background >= 2 /\ budget.read >= 2
================================================================================
