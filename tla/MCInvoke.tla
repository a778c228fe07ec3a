------------------------------- MODULE MCInvoke -------------------------------
(* Small instances of Invoke. *)
EXTENDS Invoke, TLC

CONSTANTS c1, c2, c3, n1, p1

MCPrice == 3
MCOpening == 4          \* covers one call, not two
MCTopUpAmount == 3
MCNoRow == [hash |-> <<>>]
MCOwner == [s \in Sessions |-> CHOOSE a \in Agents : TRUE]

Wallet(i, x) == [agent |-> "agent", id |-> i, input |-> x, mode |-> "json",
                 nonce |-> NoNonce, pay |-> NoPayment]

\* Two payloads under one id, on the JSON path.
JsonRequests == {Wallet("i1", "x"), Wallet("i1", "y")}

\* One request, on the SSE path.
StreamRequests == {[Wallet("i1", "x") EXCEPT !.mode = "stream"]}

\* A JSON call and an SSE call that draw on the same wallet.
WalletRequests == {Wallet("i1", "x")} \union StreamRequests

\* One authorisation under two request ids, and a wallet retry of the first.
ChainRequests ==
    {[Wallet("i1", "x") EXCEPT !.pay = p1], [Wallet("i2", "x") EXCEPT !.pay = p1],
     Wallet("i1", "x")}

\* The same bytes with provenance, and without.
ProvenRequests == {[Wallet("i1", "x") EXCEPT !.nonce = n1], Wallet("i1", "x")}

\* All of them.
EveryRequest == JsonRequests \union WalletRequests \union ChainRequests \union ProvenRequests

CallSymmetry == Permutations(Calls)
==============================================================================
