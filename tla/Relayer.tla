-------------------------------- MODULE Relayer --------------------------------
(***************************************************************************)
(* The account that registers capabilities on chain                        *)
(* (services/x402_relayer.rs, services/x402_relayer_aws_kms.rs).  Every    *)
(* machine signs with the same key of AWS KMS, or has a stub when the key  *)
(* could not be verified at boot.  A submission asks a node for the        *)
(* account's next nonce, for the price and the amount of gas, has KMS sign *)
(* the transaction and sends it; a lock per machine is held all the while. *)
(*                                                                         *)
(* The node and its pool are external.  It counts the account's pending    *)
(* transactions and lets a transaction that pays more replace another one  *)
(* with the same nonce.  How a transaction is encoded is in TxSignature.   *)
(***************************************************************************)
EXTENDS Integers, FiniteSets

CONSTANTS
    Relays,         \* calls of send_register_tx, each made once
    Hubs,           \* machines
    Fees,           \* what a transaction may pay
    KmsKeyId,       \* whether JECP_RELAYER_KMS_KEY_ID is set
    RelayFaults     \* "rpc": a request or its answer is lost, or late

ASSUME RelayerAssumption ==
    /\ Fees \subseteq Nat /\ Fees # {}
    /\ IsFiniteSet(Relays) /\ "nobody" \notin Relays
    /\ KmsKeyId \in BOOLEAN /\ RelayFaults \subseteq {"rpc"}

VARIABLES
    signer,         \* signer[m]: which implementation machine m has
    nonceLock,      \* nonceLock[m]: who holds the lock of m
    relays,         \* relays[s]: the submission s
    travelling,     \* transactions on the way whose sender has given up
    pool,           \* the account's transactions by nonce: mined and pending
    mined           \* how many are mined

relayVars == <<signer, nonceLock, relays, travelling, pool, mined>>

Nonce == 0..Cardinality(Relays)
Empty == [by |-> "nobody", fee |-> 0]
Transaction == [by : Relays \union {"nobody"}, fee : Fees \union {0}]

RelayerTypeOK ==
    /\ signer \in [Hubs -> {"off", "stub", "kms"}]
    /\ nonceLock \in [Hubs -> Relays \union {"nobody"}]
    /\ relays \in [Relays -> [at : {"idle", "nonce", "gas", "sign", "send", "sent", "failed"},
                              hub : Hubs, nonce : Nonce, fee : Fees]]
    /\ travelling \subseteq Relays
    /\ pool \in [Nonce -> Transaction]
    /\ mined \in Nonce

NewRelay(m, f) == [at |-> "idle", hub |-> m, nonce |-> 0, fee |-> f]

RelayerInit ==
    /\ signer = [m \in Hubs |-> "off"]
    /\ nonceLock = [m \in Hubs |-> "nobody"]
    /\ \E m \in Hubs, f \in Fees :
        relays = [s \in Relays |-> NewRelay(m, f)]
    /\ travelling = {}
    /\ pool = [n \in Nonce |-> Empty]
    /\ mined = 0

\* main with build_aws_kms_relayer; an address that is not
\* the configured one, or no answer, leaves the stub.
Boot(m) ==
    /\ signer[m] = "off"
    /\ \E kind \in IF KmsKeyId THEN {"kms", "stub"} ELSE {"stub"} :
        signer' = [signer EXCEPT ![m] = kind]
    /\ UNCHANGED <<nonceLock, relays, travelling, pool, mined>>

Move(s, there) == relays' = [relays EXCEPT ![s].at = there]

\* The guard is dropped when the function returns.
Return(s, answer) ==
    /\ Move(s, answer)
    /\ nonceLock' = [nonceLock EXCEPT ![relays[s].hub] = "nobody"]

\* Bug: nobody waits.
LockFreely(s, m) ==
    /\ nonceLock' = [nonceLock EXCEPT ![m] = s]

Lock(s, m) ==
    /\ nonceLock[m] = "nobody"
    /\ nonceLock' = [nonceLock EXCEPT ![m] = s]

BeginRelay(s, m) ==
    /\ relays[s].at = "idle" /\ signer[m] # "off"
    /\ \/ /\ signer[m] = "stub"         \* NotImplemented
          /\ relays' = [relays EXCEPT ![s].at = "failed", ![s].hub = m]
          /\ UNCHANGED nonceLock
       \/ /\ signer[m] = "kms" /\ Lock(s, m)
          /\ relays' = [relays EXCEPT ![s].at = "nonce", ![s].hub = m]
    /\ UNCHANGED <<signer, travelling, pool, mined>>

\* eth_getTransactionCount of "pending".
Pending(n) == pool[n] = Empty /\ \A k \in Nonce : k < n => pool[k] # Empty

GetNonce(s) ==
    /\ relays[s].at = "nonce"
    /\ \E n \in Nonce : Pending(n) /\ relays' = [relays EXCEPT ![s].at = "gas", ![s].nonce = n]
    /\ UNCHANGED <<signer, nonceLock, travelling, pool, mined>>

\* eth_gasPrice and eth_estimateGas.
GetGas(s) ==
    /\ relays[s].at = "gas"
    /\ \E f \in Fees : relays' = [relays EXCEPT ![s].at = "sign", ![s].fee = f]
    /\ UNCHANGED <<signer, nonceLock, travelling, pool, mined>>

KmsSign(s) ==
    /\ relays[s].at = "sign"
    /\ Move(s, "send")
    /\ UNCHANGED <<signer, nonceLock, travelling, pool, mined>>

\* Any request before the last one fails, or its answer cannot be read.
FailRelay(s) ==
    /\ relays[s].at \in {"nonce", "gas", "sign"}
    /\ Return(s, "failed")
    /\ UNCHANGED <<signer, travelling, pool, mined>>

\* What the node does with a transaction.
Acceptable(s) ==
    LET n == relays[s].nonce
    IN  n >= mined /\ pool[n].by # s /\ (pool[n] = Empty \/ relays[s].fee > pool[n].fee)
Enter(s) == pool' = [pool EXCEPT ![relays[s].nonce] = [by |-> s, fee |-> relays[s].fee]]

\* eth_sendRawTransaction.
SendRaw(s) ==
    /\ relays[s].at = "send"
    /\ \/ Acceptable(s) /\ Enter(s) /\ Return(s, "sent") /\ UNCHANGED travelling
       \/ ~Acceptable(s) /\ Return(s, "failed") /\ UNCHANGED <<pool, travelling>>
       \/ /\ "rpc" \in RelayFaults /\ Return(s, "failed")
          /\ \/ Acceptable(s) /\ Enter(s) /\ UNCHANGED travelling
             \/ travelling' = travelling \union {s} /\ UNCHANGED pool
             \/ UNCHANGED <<pool, travelling>>
    /\ UNCHANGED <<signer, mined>>

\* A transaction arrives after its sender's request timed out.
ArriveLate(s) ==
    /\ s \in travelling
    /\ travelling' = travelling \ {s}
    /\ IF Acceptable(s) THEN Enter(s) ELSE UNCHANGED pool
    /\ UNCHANGED <<signer, nonceLock, relays, mined>>

Mine ==
    /\ mined < Cardinality(Relays) /\ pool[mined] # Empty
    /\ mined' = mined + 1
    /\ UNCHANGED <<signer, nonceLock, relays, travelling, pool>>

RelayerNext ==
    \/ \E m \in Hubs : Boot(m)
    \/ \E s \in Relays :
        \/ \E m \in Hubs : BeginRelay(s, m)
        \/ GetNonce(s) \/ GetGas(s) \/ KmsSign(s) \/ FailRelay(s) \/ SendRaw(s) \/ ArriveLate(s)
    \/ Mine

RelayerSpec == RelayerInit /\ [][RelayerNext]_relayVars

(***************************************************************************)
(* Properties                                                              *)
(***************************************************************************)
\* "Two concurrent register() calls cannot fetch the same nonce"
\* (x402_relayer_aws_kms.rs:632): of the submissions a machine answers with a
\* transaction hash, no two have one nonce, whatever requests are lost or late.
ReceiptsDistinct ==
    \A s, t \in Relays :
        /\ s # t /\ relays[s].hub = relays[t].hub
        /\ relays[s].at = "sent" /\ relays[t].at = "sent"
        => relays[s].nonce # relays[t].nonce
================================================================================
