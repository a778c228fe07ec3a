------------------------------ MODULE FeatureFlags ------------------------------
(***************************************************************************)
(* One machine's cache of jecp.feature_flags (middleware/feature_flag.rs): *)
(* a call reads the clock, looks at the cache, and when that is too old    *)
(* reads the table and replaces the cache, each an await of its own.       *)
(* Nothing keeps two calls from refreshing at once.                        *)
(*                                                                         *)
(* A refresh replaces the whole map, so one flag stands for all of them.   *)
(***************************************************************************)
EXTENDS Integers

CONSTANTS
    Gates,          \* calls of is_enabled that may be in progress at once
    FlagTtl,        \* CACHE_TTL, in beats of the clock
    MaxBeats,       \* bound: how long the clock runs
    FlagFaults      \* "db": the SELECT may fail

ASSUME FlagAssumption ==
    /\ FlagTtl \in Nat \ {0} /\ MaxBeats \in Nat
    /\ FlagFaults \subseteq {"db"}

VARIABLES
    beat,           \* the monotonic clock
    flag,           \* the row: "on", "off" or "absent"
    cached,         \* the map's value, "absent" for none
    fetchedAt,      \* fetched_at, or -1
    gates,          \* gates[g]: the call in progress, or the last one
    lastSeen        \* ghost: the last beat at which the row had each value

flagVars == <<beat, flag, cached, fetchedAt, gates, lastSeen>>

Values == {"on", "off", "absent"}

FlagTypeOK ==
    /\ beat \in 0..MaxBeats
    /\ flag \in Values /\ cached \in Values
    /\ fetchedAt \in -1..MaxBeats
    /\ gates \in [Gates -> [at : {"idle", "peek", "query", "write", "told", "open"},
                            now : 0..MaxBeats, value : Values]]
    /\ lastSeen \in [Values -> -1..MaxBeats]

FlagInit ==
    /\ beat = 0
    /\ flag \in Values
    /\ cached = "absent" /\ fetchedAt = -1
    /\ gates = [g \in Gates |-> [at |-> "idle", now |-> 0, value |-> "absent"]]
    /\ lastSeen = [v \in Values |-> IF v = flag THEN 0 ELSE -1]

BeginGate(g) ==
    /\ gates[g].at \in {"idle", "told", "open"}
    /\ gates' = [gates EXCEPT ![g] = [at |-> "peek", now |-> beat, value |-> "absent"]]
    /\ UNCHANGED <<beat, flag, cached, fetchedAt, lastSeen>>

\* duration_since is zero when the fetch is later than the call.
Young(g) == fetchedAt >= 0 /\ gates[g].now - fetchedAt < FlagTtl

Peek(g) ==
    /\ gates[g].at = "peek"
    /\ gates' = IF Young(g) THEN [gates EXCEPT ![g].at = "told", ![g].value = cached]
                            ELSE [gates EXCEPT ![g].at = "query"]
    /\ UNCHANGED <<beat, flag, cached, fetchedAt, lastSeen>>

\* The SELECT; when it fails every flag is taken for enabled and the cache stays.
Query(g) ==
    /\ gates[g].at = "query"
    /\ \/ gates' = [gates EXCEPT ![g].at = "write", ![g].value = flag]
       \/ "db" \in FlagFaults /\ gates' = [gates EXCEPT ![g].at = "open"]
    /\ UNCHANGED <<beat, flag, cached, fetchedAt, lastSeen>>

\* Bug: the rows are dated when they are written.
WriteDatedNow(g) ==
    /\ gates[g].at = "write"
    /\ cached' = gates[g].value
    /\ fetchedAt' = beat
    /\ gates' = [gates EXCEPT ![g].at = "told"]
    /\ UNCHANGED <<beat, flag, lastSeen>>

\* The rows are dated by the start of the call that read them.
Write(g) ==
    /\ gates[g].at = "write"
    /\ cached' = gates[g].value
    /\ fetchedAt' = gates[g].now
    /\ gates' = [gates EXCEPT ![g].at = "told"]
    /\ UNCHANGED <<beat, flag, lastSeen>>

\* The operator changes the row, or the migration creates it.
Switch(v) ==
    /\ v \notin {flag, "absent"}
    /\ flag' = v
    /\ lastSeen' = [lastSeen EXCEPT ![v] = beat]
    /\ UNCHANGED <<beat, cached, fetchedAt, gates>>

Beat ==
    /\ beat < MaxBeats
    /\ beat' = beat + 1
    /\ lastSeen' = [lastSeen EXCEPT ![flag] = beat + 1]
    /\ UNCHANGED <<flag, cached, fetchedAt, gates>>

FlagNext ==
    \/ \E g \in Gates : BeginGate(g) \/ Peek(g) \/ Query(g) \/ Write(g)
    \/ \E v \in Values : Switch(v)
    \/ Beat

FlagSpec == FlagInit /\ [][FlagNext]_flagVars

(***************************************************************************)
(* Properties                                                              *)
(***************************************************************************)
\* What a call is told from the rows or the cache, the row did say at some moment
\* since a TTL before the call began; this must hold also when refreshes
\* overlap, last long and write their rows in another order than they read them
\* (feature_flag.rs:52, 82).
FreshEnough ==
    \A g \in Gates : gates[g].at = "told" =>
        lastSeen[gates[g].value] >= 0 /\ lastSeen[gates[g].value] > gates[g].now - FlagTtl
================================================================================
