------------------------------ MODULE PaidCalls ------------------------------
(***************************************************************************)
(* What the Hub promises about money, without handlers, caches, machines   *)
(* or failures: a wallet is debited only for a call its provider has       *)
(* served, never twice for that call and never below zero; a call paid on  *)
(* chain is served only after its settlement is recorded, and that only    *)
(* after the money moved; one on-chain payment authorisation pays for one  *)
(* call.  Invoke implements it, and so does PaymentPath, where an          *)
(* invocation ends with its settlement.                                    *)
(***************************************************************************)
EXTENDS Integers, FiniteSets

CONSTANTS
    Agents,         \* wallet owners
    Calls,          \* invocations
    Sessions,       \* Stripe checkout sessions
    Owner,          \* Owner[s]: the agent a session tops up
    Price,          \* price of one call
    Opening,        \* opening balance of every wallet
    TopUpAmount     \* amount of one session

VARIABLES
    payer,          \* payer[c]: the agent that makes call c
    auth,           \* auth[c]: the X-Payment authorisation of c
    onChain,        \* the calls paid through X-Payment
    wallet,         \* wallet[a]: prepaid balance
    topped,         \* sessions already credited
    served,         \* calls whose provider answered with success
    charged,        \* calls debited from a wallet
    transferred,    \* authorisations whose transfer is on the chain
    settlements     \* calls with a recorded on-chain settlement

vars == <<payer, auth, onChain, wallet, topped, served, charged, transferred, settlements>>

Init ==
    /\ wallet = [a \in Agents |-> Opening]
    /\ topped = {}
    /\ served = {}
    /\ charged = {}
    /\ transferred = {}
    /\ settlements = {}

TopUp(s) ==
    /\ s \notin topped
    /\ topped' = topped \union {s}
    /\ wallet' = [wallet EXCEPT ![Owner[s]] = @ + TopUpAmount]
    /\ UNCHANGED <<payer, auth, onChain, served, charged, transferred, settlements>>

Transfer(c) ==
    /\ c \in onChain
    /\ transferred' = transferred \union {auth[c]}
    /\ UNCHANGED <<payer, auth, onChain, wallet, topped, served, charged, settlements>>

Settle(c) ==
    /\ c \in onChain \ (settlements \union served)
    /\ auth[c] \in transferred
    /\ \A d \in settlements : auth[d] # auth[c]
    /\ settlements' = settlements \union {c}
    /\ UNCHANGED <<payer, auth, onChain, wallet, topped, served, charged, transferred>>

Serve(c) ==
    /\ c \notin served
    /\ c \in onChain => c \in settlements
    /\ served' = served \union {c}
    /\ UNCHANGED <<payer, auth, onChain, wallet, topped, charged, transferred, settlements>>

Charge(c) ==
    /\ c \in served \ (charged \union onChain)
    /\ wallet[payer[c]] >= Price
    /\ charged' = charged \union {c}
    /\ wallet' = [wallet EXCEPT ![payer[c]] = @ - Price]
    /\ UNCHANGED <<payer, auth, onChain, topped, served, transferred, settlements>>

Next ==
    \/ \E s \in Sessions : TopUp(s)
    \/ \E c \in Calls : Transfer(c) \/ Settle(c) \/ Serve(c) \/ Charge(c)

Spec == Init /\ [][Next]_vars
=============================================================================
