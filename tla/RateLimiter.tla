------------------------------ MODULE RateLimiter ------------------------------
(***************************************************************************)
(* The per-agent sliding window of middleware/rate_limit.rs.  POST         *)
(* /v1/invoke, its SSE path and POST /v1/jecp all ask the same window,     *)
(* each with its own limit.  A check reads the clock before it waits for   *)
(* the lock, so checks are decided in another order than they were stamped *)
(* in, and the clean-up task may come between.                             *)
(*                                                                         *)
(* Time is counted in ticks, PerSecond of them to a second: the code       *)
(* compares whole seconds, cut off, of exact instants.  The order of the   *)
(* code's list of instants is never looked at, so a window is a set; twin  *)
(* tells apart two checks that were stamped in one tick.                   *)
(***************************************************************************)
EXTENDS Integers, FiniteSets

CONSTANTS
    Checks,         \* checks that may be in progress at once
    Callers,        \* agent ids
    Limits,         \* limits the routes ask for
    Window,         \* 60 s
    PerSecond,
    MaxRetry,       \* 600 s, the ceiling of Retry-After
    MaxTicks        \* bound: how long the clock runs

ASSUME LimiterAssumption ==
    /\ Window \in Nat \ {0} /\ PerSecond \in Nat \ {0}
    /\ MaxRetry \in Nat /\ Window <= MaxRetry /\ MaxTicks \in Nat
    /\ Callers # {}
    /\ Limits \subseteq Nat \ {0} /\ \E l \in Limits : \A k \in Limits : k <= l

VARIABLES
    ticks,          \* the monotonic clock
    checks,         \* checks[c]: the check in progress, or the last one
    windows,        \* windows[a]: the instants kept for agent a
    granted,        \* ghost: the last checks of a that were granted
    promised        \* ghost: when a refused caller was told a slot is free

limiterVars == <<ticks, checks, windows, granted, promised>>

Highest == CHOOSE l \in Limits : \A k \in Limits : k <= l
Span == Window * PerSecond
Never == MaxTicks + MaxRetry * PerSecond + 1

Stamped == [stamp : 0..MaxTicks, twin : Nat]

LimiterTypeOK ==
    /\ ticks \in 0..MaxTicks
    /\ checks \in [Checks -> [stage : {"idle", "waiting", "granted", "refused"},
                              caller : Callers, limit : Limits, stamp : 0..MaxTicks]]
    /\ windows \in [Callers -> SUBSET Stamped]
    /\ granted \in [Callers -> SUBSET Stamped]
    /\ promised \in [Callers -> 0..Never]

LimiterInit ==
    /\ ticks = 0
    /\ checks = [c \in Checks |-> [stage |-> "idle", caller |-> CHOOSE a \in Callers : TRUE,
                                   limit |-> Highest, stamp |-> 0]]
    /\ windows = [a \in Callers |-> {}]
    /\ granted = [a \in Callers |-> {}]
    /\ promised = [a \in Callers |-> Never]

\* duration_since(t).as_secs(): cut off, and zero when t is later than now.
Seconds(now, t) == IF now > t THEN (now - t) \div PerSecond ELSE 0

\* Bug: the window is a second short.
KeptTooBriefly(now, entries) == {e \in entries : Seconds(now, e.stamp) < Window - 1}

Kept(now, entries) == {e \in entries : Seconds(now, e.stamp) < Window}

\* Bug: what is left of the window is cut off to seconds, not rounded up.
RetryAfterCutOff(now, entries) ==
    LET oldest == CHOOSE e \in entries : \A d \in entries : e.stamp <= d.stamp
        left == Span - (now - oldest.stamp)
    IN  IF left >= PerSecond THEN left \div PerSecond ELSE 1

\* From the oldest entry, clamped to [1, MaxRetry].
RetryAfter(now, entries) ==
    LET oldest == CHOOSE e \in entries : \A d \in entries : e.stamp <= d.stamp
        raw == Window - Seconds(now, oldest.stamp)
    IN  IF raw < 1 THEN 1 ELSE IF raw > MaxRetry THEN MaxRetry ELSE raw

\* The call of check: the clock is read, then the lock awaited.
BeginCheck(c, a, l) ==
    /\ checks[c].stage # "waiting"
    /\ checks' = [checks EXCEPT ![c] = [stage |-> "waiting", caller |-> a, limit |-> l,
                                        stamp |-> ticks]]
    /\ UNCHANGED <<ticks, windows, granted, promised>>

\* An entry for the instant that is neither in the window nor in the ghost.
Fresh(a, t) ==
    LET known == windows[a] \union granted[a]
    IN  [stamp |-> t,
         twin |-> CHOOSE n \in 0..Cardinality(known) : [stamp |-> t, twin |-> n] \notin known]

Grant(c) ==
    LET k == checks[c]
        kept == Kept(k.stamp, windows[k.caller])
        new == Fresh(k.caller, k.stamp)
    IN  /\ k.stage = "waiting" /\ Cardinality(kept) < k.limit
        /\ checks' = [checks EXCEPT ![c].stage = "granted"]
        /\ windows' = [windows EXCEPT ![k.caller] = kept \union {new}]
        /\ granted' = [granted EXCEPT ![k.caller] = @ \union {new}]
        /\ promised' = [promised EXCEPT ![k.caller] = Never]
        /\ UNCHANGED ticks

\* The first promise a caller of the highest limit gets stands until a grant.
Refuse(c) ==
    LET k == checks[c]
        kept == Kept(k.stamp, windows[k.caller])
    IN  /\ k.stage = "waiting" /\ Cardinality(kept) >= k.limit
        /\ checks' = [checks EXCEPT ![c].stage = "refused"]
        /\ windows' = [windows EXCEPT ![k.caller] = kept]
        /\ promised' = IF k.limit = Highest /\ promised[k.caller] = Never
                       THEN [promised EXCEPT ![k.caller] =
                                ticks + RetryAfter(k.stamp, kept) * PerSecond]
                       ELSE promised
        /\ UNCHANGED <<ticks, granted>>

\* The task that runs every five minutes; the agents' entries that are empty
\* go, which is the same as being there with nothing.
Cleanup ==
    /\ windows' = [a \in Callers |-> Kept(ticks, windows[a])]
    /\ UNCHANGED <<ticks, checks, granted, promised>>

\* The ghost forgets stamps that are a window old and never count again.
PassTick ==
    /\ ticks < MaxTicks
    /\ ticks' = ticks + 1
    /\ granted' = [a \in Callers |-> {e \in granted[a] : ticks' - e.stamp < Span}]
    /\ UNCHANGED <<checks, windows, promised>>

LimiterNext ==
    \/ \E c \in Checks :
        \/ \E a \in Callers, l \in Limits : BeginCheck(c, a, l)
        \/ Grant(c)
        \/ Refuse(c)
    \/ Cleanup
    \/ PassTick

LimiterSpec == LimiterInit /\ [][LimiterNext]_limiterVars

(***************************************************************************)
(* Properties                                                              *)
(***************************************************************************)
Recent(a) == {e \in granted[a] : ticks - e.stamp < Span}

\* A call granted under a limit is at most the limit's last within a window that
\* ends now, whatever routes the others came by, in whatever order late
\* stamps get the lock, and whatever the clean-up took away (rate_limit.rs:54).
WindowRespected ==
    [][\A c \in Checks :
        checks[c].stage = "waiting" /\ checks'[c].stage = "granted" =>
            Cardinality(Recent(checks[c].caller)) < checks[c].limit]_limiterVars

\* "Once it ages out of the 60s window, the caller can retry" (rate_limit.rs:60):
\* a caller of the highest limit that comes back after its Retry-After is not
\* refused again, unless another call of the agent was granted in between.
RetryHonest ==
    [][\A c \in Checks :
        checks[c].stage = "waiting" /\ checks'[c].stage = "refused"
          /\ checks[c].limit = Highest => checks[c].stamp < promised[checks[c].caller]]_limiterVars
================================================================================
