------------------------------ MODULE ReplayCache ------------------------------
(***************************************************************************)
(* Provenance v2: a signed message carries a time stamp and a nonce; the   *)
(* hub accepts it within a skew of its clock and remembers the nonce in a  *)
(* cache of bounded size, one cache per process (auth/replay_cache.rs,     *)
(* auth/agent.rs).  The whole of check_and_insert runs under a mutex.      *)
(*                                                                         *)
(* The format of the message and its HMAC are one refusal; the hub id and  *)
(* the agent are part of the nonce, which stands for its lower-case form.  *)
(***************************************************************************)
EXTENDS Integers, Sequences

CONSTANTS
    Nonces,         \* (agent, nonce) pairs
    Stamps,         \* time stamps agents sign, in seconds
    Skew,           \* 300 s either way
    Ttl,            \* DEFAULT_TTL_SECONDS
    Capacity,       \* DEFAULT_CAPACITY, at least one
    Fraction,       \* instants to a second
    MaxInstant,     \* bound: how long the clock runs
    MaxAccepted,    \* bound: messages accepted
    MaxHits         \* bound: messages refused by the cache

ASSUME ReplayAssumption ==
    /\ Stamps \subseteq Nat /\ Skew \in Nat /\ Ttl \in Nat
    /\ Capacity \in Nat \ {0} /\ Fraction \in Nat \ {0}
    /\ MaxInstant \in Nat /\ MaxAccepted \in Nat /\ MaxHits \in Nat

VARIABLES
    instant,        \* the clock
    entries,        \* the LRU list, the next to be evicted first
    evictions,      \* evictions_total and hits_total of /health; misses_total is
    hits,           \* the number of messages accepted
    accepted        \* ghost: every message accepted, in order

replayVars == <<instant, entries, evictions, hits, accepted>>

Entry == [nonce : Nonces, inserted : 0..MaxInstant]

ReplayTypeOK ==
    /\ instant \in 0..MaxInstant
    /\ entries \in Seq(Entry) /\ Len(entries) <= Capacity
    /\ evictions \in Nat /\ hits \in 0..MaxHits
    /\ accepted \in Seq(Entry)

ReplayInit ==
    /\ instant = 0
    /\ entries = << >> /\ evictions = 0 /\ hits = 0
    /\ accepted = << >>

\* verify_provenance_v2: whole seconds of the hub's clock against the stamp.
InSkew(stamp) ==
    LET drift == instant \div Fraction - stamp
    IN  -Skew <= drift /\ drift <= Skew

Stale(e) == instant - e.inserted > Ttl * Fraction

WithoutAt(list, i) == [k \in 1..Len(list) - 1 |-> IF k < i THEN list[k] ELSE list[k + 1]]
Holds(list, n) == \E i \in DOMAIN list : list[i].nonce = n

\* The entry under the nonce goes when it is stale; peek leaves the order alone.
Swept(n) ==
    LET past == {i \in DOMAIN entries : entries[i].nonce = n /\ Stale(entries[i])}
    IN  IF past = {} THEN entries ELSE WithoutAt(entries, CHOOSE i \in past : TRUE)

\* put: the newest entry goes last, and the list's first one when it is full.
Put(list, n) ==
    LET kept == IF Len(list) >= Capacity THEN Tail(list) ELSE list
    IN  Append(kept, [nonce |-> n, inserted |-> instant])

\* check_and_insert answers First.
Accept(n, stamp) ==
    LET list == Swept(n)
    IN  /\ Len(accepted) < MaxAccepted
        /\ InSkew(stamp)
        /\ ~Holds(list, n)
        /\ entries' = Put(list, n)
        /\ evictions' = evictions + (IF Len(list) >= Capacity THEN 1 ELSE 0)
        /\ accepted' = Append(accepted, [nonce |-> n, inserted |-> instant])
        /\ UNCHANGED <<instant, hits>>

\* Bug: a hit renews the entry's place in the list.
RejectBumping(n, stamp) ==
    /\ hits < MaxHits
    /\ InSkew(stamp)
    /\ LET list == Swept(n)
       IN  \E i \in DOMAIN list :
               list[i].nonce = n /\ entries' = Append(WithoutAt(list, i), list[i])
    /\ hits' = hits + 1
    /\ UNCHANGED <<instant, evictions, accepted>>

\* check_and_insert answers Replay: the entry and its place stay as they are.
Reject(n, stamp) ==
    /\ hits < MaxHits
    /\ InSkew(stamp) /\ Holds(Swept(n), n)
    /\ hits' = hits + 1
    /\ UNCHANGED <<instant, entries, evictions, accepted>>

PassInstant ==
    /\ instant < MaxInstant
    /\ instant' = instant + 1
    /\ UNCHANGED <<entries, evictions, hits, accepted>>

ReplayNext ==
    \/ \E n \in Nonces, t \in Stamps : Accept(n, t) \/ Reject(n, t)
    \/ PassInstant

ReplaySpec == ReplayInit /\ [][ReplayNext]_replayVars

(***************************************************************************)
(* Properties                                                              *)
(***************************************************************************)
\* A nonce is accepted again only when its time to live is over or as many other
\* messages as the cache holds were accepted in between; hits and expired entries
\* in any order do not shorten its stay (replay_cache.rs:145, 152).
NonceOnce ==
    \A i, j \in DOMAIN accepted :
        i < j /\ accepted[i].nonce = accepted[j].nonce =>
            \/ accepted[j].inserted - accepted[i].inserted > Ttl * Fraction
            \/ j - i - 1 >= Capacity
================================================================================
