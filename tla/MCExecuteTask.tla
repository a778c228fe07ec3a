----------------------------- MODULE MCExecuteTask -----------------------------
(***************************************************************************)
(* Small instances of ExecuteTask, two of them in one run: "serial", one   *)
(* call at a time and nothing fails; "overlap", two calls at once with     *)
(* database failures, disconnects and restarts.                            *)
(***************************************************************************)
EXTENDS ExecuteTask, TLC

CONSTANTS
    c1, c2, c3,
    SerialJobs, OverlapJobs     \* the requests of each instance

ASSUME ModesAssumption ==
    /\ SerialJobs \subseteq Jobs /\ OverlapJobs \subseteq Jobs
    /\ MaxInFlight >= 1

VARIABLE mode       \* which of the two instances this behaviour belongs to

MCNoRow == [input |-> "none"]
Sync(i, x, n) == [id |-> i, input |-> x, stream |-> FALSE, cost |-> n, budget |-> FALSE]

\* The same request on the JSON path and over SSE.
StreamJobs == {Sync("i1", "x", 2), [Sync("i1", "x", 2) EXCEPT !.stream = TRUE]}

\* Priced calls under one id with two payloads, one of them with a mandate
\* and one over SSE, and a call under another id whose action costs nothing.
MixedJobs == StreamJobs \union
    {[Sync("i1", "y", 2) EXCEPT !.budget = TRUE], Sync("i2", "x", 0)}

\* Repetitions on the JSON path and over SSE, and a second id.
RepeatedJobs == StreamJobs \union {Sync("i2", "x", 2)}

EveryJob == MixedJobs \union RepeatedJobs

Serial  == INSTANCE ExecuteTask WITH Faults <- {}, MaxInFlight <- 1, Jobs <- SerialJobs
Overlap == INSTANCE ExecuteTask WITH Jobs <- OverlapJobs

MCInit ==
    \/ mode = "serial" /\ Serial!Init
    \/ mode = "overlap" /\ Overlap!Init
MCNext ==
    /\ mode' = mode
    /\ \/ mode = "serial" /\ Serial!Next
       \/ mode = "overlap" /\ Overlap!Next
MCSpec == MCInit /\ [][MCNext]_<<vars, mode>>

CallSymmetry == Permutations(Calls)

\* With one call at a time and no faults a request id is one run on the JSON
\* path, its repetition being answered from the cache (routes/jecp.rs:81), and
\* no more priced runs are free than the agent had free calls.
SerialCallsCounted == mode = "serial" => RanOnce /\ FreeCallsLast
=============================================================================
