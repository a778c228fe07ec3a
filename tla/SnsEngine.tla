------------------------------- MODULE SnsEngine -------------------------------
(***************************************************************************)
(* The SNS engine (capabilities/sns_engine) and its bridge                 *)
(* (services/sns_bridge.rs).  A call has posts written by Claude and has   *)
(* them published, or scheduled, one after the other over a bridge that    *)
(* repeats a request whose answer it did not get.  engagement-analyze      *)
(* fetches figures over the bridge first.  What a call keeps in the        *)
(* database (a campaign, a test, learnings, snapshots) it writes last, and *)
(* does not mind when that fails.  An error is an uncharged call           *)
(* (ExecuteTask).                                                          *)
(*                                                                         *)
(* The bridge's server is external: it publishes what it is sent, gives    *)
(* each post an id of the platform, and keeps one scheduled post by id.    *)
(* A post is the number of its place; texts, tools and hours are left out. *)
(***************************************************************************)
EXTENDS Integers, Sequences, FiniteSets

CONSTANTS
    EngineCalls,
    MaxPosts,       \* bound: posts Claude may write for one call
    MaxRetries,     \* MAX_RETRIES
    BridgeFaults    \* "bridge": a request or its answer is lost, or the bridge answers 5xx

ASSUME EngineAssumption ==
    MaxPosts \in Nat \ {0} /\ MaxRetries \in Nat \ {0} /\ BridgeFaults \subseteq {"bridge"}

VARIABLES
    engine,         \* engine[c]: the call c
    platform,       \* what is published, by id
    scheduled,      \* ids of sns_scheduled_posts: the call and the place
    stored,         \* calls with something in the database
    lost            \* ghost: answers to successful requests that were lost, by call and place

engineVars == <<engine, platform, scheduled, stored, lost>>

Places == 1 .. MaxPosts
Published == {"thread", "trend"}                                \* at once
Scheduled == {"campaign", "ab-test", "autopilot", "later-thread"}
Deeds == Published \union Scheduled \union {"analyze"}

Success == {"yes", "unnamed"}          \* `success`, with or without an `external_id`
Answers == Success \union {"no", "error"}

EngineCall ==
    [deed : Deeds, bridge : BOOLEAN, written : 0 .. MaxPosts, texts : SUBSET Places,
     at : {"idle", "write", "request", "store", "done", "failed"},
     place : 0 .. MaxPosts, attempt : 1 .. MaxRetries, previous : Nat,
     told : [Places -> Answers \union {"nothing"}]]

Post == [call : EngineCalls, place : Places, reply : Nat]

EngineTypeOK ==
    /\ engine \in [EngineCalls -> EngineCall]
    /\ platform \in Seq(Post)
    /\ scheduled \subseteq EngineCalls \X Places
    /\ stored \subseteq EngineCalls
    /\ lost \in [EngineCalls -> [Places -> Nat]]

NewCall(deed, bridge) ==
    [deed |-> deed, bridge |-> bridge, written |-> 0, texts |-> {},
     at |-> "idle", place |-> 0, attempt |-> 1, previous |-> 0,
     told |-> [p \in Places |-> "nothing"]]

EngineInit ==
    /\ \E deed \in [EngineCalls -> Deeds], bridge \in BOOLEAN :
        engine = [c \in EngineCalls |-> NewCall(deed[c], bridge)]
    /\ platform = <<>> /\ scheduled = {} /\ stored = {}
    /\ lost = [c \in EngineCalls |-> [p \in Places |-> 0]]

Set(c, r) == engine' = [engine EXCEPT ![c] = r]

Outside == <<platform, scheduled, stored, lost>>

(***************************************************************************)
(* The input                                                               *)
(***************************************************************************)
Begins(c, deeds, there) ==
    /\ engine[c].at = "idle" /\ engine[c].deed \in deeds
    /\ \E at \in there : Set(c, [engine[c] EXCEPT !.at = at])
    /\ UNCHANGED Outside

\* A goal and a platform, or a topic, may be missing.
BeginCampaign(c) == Begins(c, {"campaign"}, {"write", "failed"})
BeginThread(c) == Begins(c, {"thread", "later-thread"}, {"write", "failed"})
BeginTest(c) == Begins(c, {"ab-test"}, {"write", "failed"})
BeginPulse(c) == Begins(c, {"trend"}, {"write"})
\* The history that is read may be missing.
BeginAutopilot(c) == Begins(c, {"autopilot"}, {"write"})
\* The ids come from the request or from the database; the figures are optional,
\* the bridge is not.
FetchMetrics(c) == Begins(c, {"analyze"}, IF engine[c].bridge THEN {"write", "failed"} ELSE {"failed"})

(***************************************************************************)
(* Claude                                                                  *)
(***************************************************************************)
\* The places still to be sent after place p; an empty text is passed over,
\* though not by a campaign.
Left(r, p) ==
    {q \in p + 1 .. r.written : r.bridge /\ (r.deed = "campaign" \/ q \in r.texts)}

\* A call that goes on with another step, or with another post.
Turned(r, at, p) == [r EXCEPT !.at = at, !.place = p, !.attempt = 1]

ToStore(r) == Turned(r, "store", 0)

\* To the next post, or to the database.
Onward(r, p) ==
    IF Left(r, p) = {} THEN ToStore(r)
    ELSE Turned(r, "request", CHOOSE q \in Left(r, p) : \A k \in Left(r, p) : q <= k)

\* What follows the answer: a test without variants is an error, an analysis has
\* nothing to send.
AfterWriting(r) ==
    CASE r.deed = "ab-test" /\ r.written = 0 -> [r EXCEPT !.at = "failed"]
      [] r.deed = "analyze"                  -> ToStore(r)
      [] OTHER                               -> Onward(r, 0)

\* An answer of Claude's with at most limit posts, some of them without a text;
\* one that cannot be parsed stands for no posts.
Writes(c, deeds, limit) ==
    /\ engine[c].at = "write" /\ engine[c].deed \in deeds
    /\ \E n \in 0 .. limit, texts \in SUBSET Places :
        Set(c, AfterWriting([engine[c] EXCEPT !.written = n, !.texts = texts \intersect 1 .. n]))
    /\ UNCHANGED Outside

WriteThread(c) == Writes(c, {"thread", "later-thread"}, MaxPosts)
WritePulse(c) == Writes(c, {"trend"}, 1)
WriteTomorrow(c) == Writes(c, {"autopilot"}, MaxPosts)
WriteVariants(c) == Writes(c, {"ab-test"}, MaxPosts)
Analyze(c) == Writes(c, {"analyze"}, 0)

\* A campaign asks once for each post.
WriteCampaign(c) ==
    /\ engine[c].at = "write" /\ engine[c].deed = "campaign"
    /\ \/ engine[c].written < MaxPosts /\ Set(c, [engine[c] EXCEPT !.written = @ + 1])
       \/ Set(c, Onward(engine[c], 0))
    /\ UNCHANGED Outside

\* Claude fails: the call is an error, whatever it had written.
LoseClaude(c) ==
    /\ engine[c].at = "write"
    /\ Set(c, [engine[c] EXCEPT !.at = "failed"])
    /\ UNCHANGED Outside

(***************************************************************************)
(* The bridge                                                              *)
(***************************************************************************)
\* The server does what request (c, p) says.
Perform(c, p) ==
    IF engine[c].deed \in Published
    THEN /\ platform' = Append(platform, [call |-> c, place |-> p, reply |-> engine[c].previous])
         /\ UNCHANGED scheduled
    ELSE scheduled' = scheduled \union {<<c, p>>} /\ UNCHANGED platform

Leave == UNCHANGED <<platform, scheduled>>

Told(r, answer) == [r EXCEPT !.told[r.place] = answer]

\* trend-pulse does not look at `success`; as a bug, thread-generate too.
PostedAnyway(answer) == IF answer = "no" THEN "yes" ELSE answer

Posted(answer) == answer

\* Bug: the id is taken from every answer, and none is in a refusal.
PreviousAnyway(r, answer) == IF answer = "yes" THEN Len(platform) + 1 ELSE 0

\* The post the next one of the thread replies to: the last success, and none when
\* that came without an id.
Previous(r, answer) ==
    CASE answer = "yes"     -> Len(platform) + 1
      [] answer = "unnamed" -> 0
      [] OTHER              -> r.previous

\* An error stops the chain.
AfterThreadPost(r, answer) ==
    LET told == [Told(r, Posted(answer)) EXCEPT !.previous = Previous(r, answer)]
    IN  IF answer = "error" THEN ToStore(told) ELSE Onward(told, r.place)

AfterPulse(r, answer) == ToStore(Told(r, PostedAnyway(answer)))

\* Bug: an error of the bridge is returned.
AfterScheduledStrictly(r, answer) ==
    IF answer = "error" THEN [Told(r, answer) EXCEPT !.at = "failed"]
    ELSE Onward(Told(r, answer), r.place)

AfterScheduled(r, answer) == Onward(Told(r, answer), r.place)

\* What the handler makes of the answer it gets in the end: a success, no (`success`
\* is false) or error.
After(r, answer) ==
    CASE r.deed = "thread" -> AfterThreadPost(r, answer)
      [] r.deed = "trend"  -> AfterPulse(r, answer)
      [] OTHER             -> AfterScheduled(r, answer)

\* What the server says of a request it performed; a scheduled post is not asked
\* for its id.
Confirms(deed) == IF deed \in Published THEN Success ELSE {"yes"}

\* A request without an answer, or with a 5xx, is repeated.
RequestWithRetry(c, deed) ==
    LET r == engine[c]
    IN  /\ r.at = "request" /\ r.deed = deed
        /\ \/ /\ Perform(c, r.place)
              /\ \E answer \in Confirms(deed) : Set(c, After(r, answer))
              /\ UNCHANGED lost
           \/ Leave /\ Set(c, After(r, "no")) /\ UNCHANGED lost
           \/ Leave /\ Set(c, After(r, "error")) /\ UNCHANGED lost      \* 4xx
           \/ /\ "bridge" \in BridgeFaults
              /\ Set(c, IF r.attempt < MaxRetries THEN [r EXCEPT !.attempt = @ + 1]
                                                  ELSE After(r, "error"))
              /\ \/ Leave /\ UNCHANGED lost
                 \/ Perform(c, r.place) /\ lost' = [lost EXCEPT ![c][r.place] = @ + 1]
        /\ UNCHANGED stored

PostThread(c) == RequestWithRetry(c, "thread")
PostPulse(c) == RequestWithRetry(c, "trend")
ScheduleCampaign(c) == RequestWithRetry(c, "campaign")
ScheduleThread(c) == RequestWithRetry(c, "later-thread")
ScheduleVariants(c) == RequestWithRetry(c, "ab-test")
ScheduleTomorrow(c) == RequestWithRetry(c, "autopilot")

(***************************************************************************)
(* The database                                                            *)
(***************************************************************************)
\* The call returns; the failure of an INSERT before that is logged.
Stores(c, deeds, kept) ==
    /\ engine[c].at = "store" /\ engine[c].deed \in deeds
    /\ Set(c, [engine[c] EXCEPT !.at = "done"])
    /\ stored' \in {stored, stored \union kept}
    /\ UNCHANGED <<platform, scheduled, lost>>

StoreCampaign(c) == Stores(c, {"campaign"}, {c})
StoreTest(c) == Stores(c, {"ab-test"}, {c})
StoreLearnings(c) == Stores(c, {"autopilot"}, {c})
StoreSnapshots(c) == Stores(c, {"analyze"}, {c})
EndPosts(c) == Stores(c, {"thread", "later-thread", "trend"}, {})

EngineNext ==
    \E c \in EngineCalls :
        \/ BeginCampaign(c) \/ BeginThread(c) \/ BeginTest(c) \/ BeginPulse(c)
        \/ BeginAutopilot(c) \/ FetchMetrics(c)
        \/ WriteCampaign(c) \/ WriteThread(c) \/ WriteVariants(c) \/ WritePulse(c)
        \/ WriteTomorrow(c) \/ Analyze(c) \/ LoseClaude(c)
        \/ ScheduleCampaign(c) \/ PostThread(c) \/ ScheduleThread(c) \/ ScheduleVariants(c)
        \/ PostPulse(c) \/ ScheduleTomorrow(c)
        \/ StoreCampaign(c) \/ StoreTest(c) \/ StoreLearnings(c) \/ StoreSnapshots(c)
        \/ EndPosts(c)

EngineSpec == EngineInit /\ [][EngineNext]_engineVars

(***************************************************************************)
(* Properties                                                              *)
(***************************************************************************)
Copies(c, p) == Cardinality({i \in DOMAIN platform : platform[i].call = c /\ platform[i].place = p})

\* What a call reports is what happened, but for answers that were lost: a post
\* it calls posted or scheduled is there, a post that is there and not reported
\* had a lost answer, and each further copy on the platform stands for one lost
\* answer (sns_bridge.rs:178, thread.rs:133).  trend-pulse calls a refused post
\* posted (trend.rs:120) and is left out.  A call that ends in an error, which
\* is not charged, has published, scheduled and stored nothing, even a campaign
\* that lost Claude in the middle (campaign.rs:165).
PostsAccounted ==
    \A c \in EngineCalls, p \in Places :
        LET yes == engine[c].told[p] \in Success
        IN  /\ engine[c].deed = "thread" => Copies(c, p) = lost[c][p] + IF yes THEN 1 ELSE 0
            /\ engine[c].deed \in Scheduled => (<<c, p>> \in scheduled <=> yes \/ lost[c][p] > 0)
            /\ engine[c].at = "failed" =>
                   c \notin stored /\ Copies(c, p) = 0 /\ <<c, p>> \notin scheduled

Reported(c, p) == {q \in Places : q < p /\ engine[c].told[q] \in Success}

\* Every post of a thread replies to the last earlier one that was reported,
\* whatever was refused, repeated or lost before it (thread.rs:108-151); it
\* replies to none when none was reported, or when the last one came without an
\* id, which the bridge may leave out (sns_bridge.rs:36).
ThreadChained ==
    \A i \in DOMAIN platform :
        LET c == platform[i].call
            p == platform[i].place
            to == platform[i].reply
        IN  engine[c].deed = "thread" =>
                IF to = 0 THEN \A q \in Reported(c, p) : engine[c].told[q] = "yes" =>
                                   \E u \in Reported(c, p) : u > q /\ engine[c].told[u] = "unnamed"
                ELSE /\ platform[to].call = c
                     /\ platform[to].place \in Reported(c, p)
                     /\ engine[c].told[platform[to].place] = "yes"
                     /\ \A q \in Reported(c, p) : q <= platform[to].place

================================================================================
