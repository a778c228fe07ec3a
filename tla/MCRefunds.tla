------------------------------- MODULE MCRefunds -------------------------------
(***************************************************************************)
(* Small instances of Refunds, one agent and one provider, three in one    *)
(* run: "serial", one call or batch at a time and nothing fails;           *)
(* "overlap", calls and the loop overlap, statements fail, the machine     *)
(* restarts; "limits", the same for three requests for different charges,  *)
(* within the window.                                                      *)
(***************************************************************************)
EXTENDS Refunds

CONSTANTS t1, t2, t3, c1, c2, c3, c4

VARIABLE mode       \* which of the three instances this behaviour belongs to

MCAgent == [t \in Txs |-> "agent"]
MCProvider == [t \in Txs |-> "provider"]

\* The third charge is asked back in "limits" only.
SomeJobs == {j \in Job : j.tx = t3 => j.kind = "request"}

Serial == INSTANCE Refunds WITH Faults <- {}, MaxInFlight <- 1

\* With overlap three calls are sent, and the last may wait for ever.
Overlap == Next /\ pc'[c4] = "unsent"
Rest == (\A c \in Calls \ {c4} : pc[c] \in Finished) /\ UNCHANGED vars

\* No refund grows old enough for the loop.
Requests == Overlap /\ \A t \in Txs : age'[t] # "overdue"

Asks(t) == [kind |-> "request", tx |-> t]

\* The calls are alike, so the order of their jobs does not matter.
Place(j) ==
    (CASE j.kind = "request" -> 0 [] j.kind = "approve" -> 3 [] j.kind = "deny" -> 6)
    + (CASE j.tx = t1 -> 0 [] j.tx = t2 -> 1 [] j.tx = t3 -> 2)
Sorted(c, d) == Place(job[c]) <= Place(job[d])

MCInit ==
    /\ Init
    /\ mode \in {"serial", "overlap", "limits"}
    /\ Sorted(c1, c2) /\ Sorted(c2, c3)
    /\ IF mode = "serial" THEN Sorted(c3, c4) ELSE job[c4] = Asks(t1)
    /\ IF mode = "limits" THEN job[c1] = Asks(t1) /\ job[c2] = Asks(t2) /\ job[c3] = Asks(t3)
                           ELSE \A c \in Calls : Tx(c) # t3
MCNext ==
    /\ \/ mode = "serial" /\ Serial!Next
       \/ mode = "overlap" /\ (Overlap \/ Rest)
       \/ mode = "limits" /\ (Requests \/ Rest)
    /\ mode' = mode

MCSpec ==
    /\ MCInit /\ [][MCNext]_<<vars, mode>>
    /\ \A c \in Calls : WF_vars(Serial!Handle(c) /\ mode = "serial")
    /\ WF_vars(Serial!Loop /\ mode = "serial")
    /\ \A t \in Txs : WF_vars(Serial!Grow(t) /\ mode = "serial")

\* Refunds' properties that need one verdict, or one request, at a time
\* (Refunds.tla states each): the handlers' reads and writes are separate
\* statements, routes/refunds.rs:230 and 508.
SerialMoneyFollowsVerdict == mode = "serial" => CreditMatchesVerdict
\* The four queries of a verdict, the four of a request and the two statements of
\* the loop add up to the promise of Paybacks: no request beyond a limit, one
\* verdict, one payment after it, and events that say what was done
\* (routes/refunds.rs:187-324, 478-613, 697-728).
SerialKeepsPaybacks ==
    /\ mode = "serial" => Promise!Init
    /\ [][mode = "serial" => Promise!Next]_(Promise!vars)
\* Without failures every requested refund gets a verdict, from the provider or
\* from the loop at routes/refunds.rs:684, and every approved one is paid back
\* (routes/refunds.rs:508, 719).
SerialEveryRequestResolved == mode = "serial" => EveryRequestResolved /\ ApprovalPays
===============================================================================
