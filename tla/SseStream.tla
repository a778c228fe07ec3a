------------------------------- MODULE SseStream -------------------------------
(***************************************************************************)
(* How the streaming path of an invocation reads what the provider sends   *)
(* (routes/invoke.rs): a parser of server-sent events that is fed whatever *)
(* pieces the network delivers, and the relay, which passes the events on, *)
(* adds up the meter and charges when it meets `completed`.  Invoke has    *)
(* all of this as one action, Relay, that succeeds or fails.               *)
(*                                                                         *)
(* A line is a sequence of symbols: the word before the colon, the word    *)
(* behind it, cr and lf.  The provider is external; it sends nothing after *)
(* completed, error or cancelled, and may stop anywhere.  The two loops of *)
(* the code, over the lines of a piece and over the events they complete,  *)
(* are taken a symbol and an event at a time.                              *)
(***************************************************************************)
EXTENDS Integers, Sequences, FiniteSets

CONSTANT
    MaxEvents       \* bound: events the provider sends

ASSUME StreamAssumption == MaxEvents \in Nat

VARIABLES
    wire,           \* the event on its way: kind, the line and place that come next
                    \* (line 0: none), the ends of lines, the number of events begun
    stage,          \* where the loop over the pieces is
    parser,         \* SseParser
    split,          \* whether the last piece ended behind a cr
    shown,          \* the events passed on to the client
    meter,          \* how many of them were added up
    billed,         \* a charge was attempted (Invoke has how it may end)
    torn,           \* ghost: some piece has ended behind a cr
    arrived         \* ghost: the events whose last symbol has been read

readVars == <<stage, parser, split>>
clientVars == <<shown, meter, billed>>
streamVars == <<wire, readVars, clientVars, torn, arrived>>

Final == {"completed", "error", "cancelled"}
Kinds == {"meter", "unnamed", "heartbeat"} \union Final     \* meter stands for every named one
Eols == {<<"lf">>, <<"cr", "lf">>}

\* External: the lines of an event.
Lines(kind) ==
    IF kind = "heartbeat" THEN << <<":">> >>
    ELSE IF kind = "unnamed" THEN << <<"data", "a">>, <<"data", "b">>, <<>> >>
    ELSE << <<"event", kind>>, <<"data", "a">>, <<>> >>

\* What the client is to see of an event.
Meant(kind) ==
    IF kind = "unnamed" THEN [event |-> <<"message">>, data |-> << <<"a">>, <<"b">> >>]
    ELSE [event |-> <<kind>>, data |-> << <<"a">> >>]

NewStream(eol) ==
    /\ wire = [kind |-> "heartbeat", line |-> 0, place |-> 1, eol |-> eol, begun |-> 0]
    /\ stage = "waiting" /\ split = FALSE
    /\ parser = [buf |-> <<>>, event |-> <<>>, data |-> <<>>, queue |-> <<>>]
    /\ shown = <<>> /\ meter = 0 /\ billed = FALSE
    /\ torn = FALSE /\ arrived = <<>>

SseInit == \E eol \in Eols : NewStream(eol)

(***************************************************************************)
(* SseParser                                                               *)
(***************************************************************************)
\* An event is put into the queue as soon as either of its parts is there.
Dispatch(p) ==
    IF p.event = <<>> /\ p.data = <<>> THEN p
    ELSE [buf |-> p.buf, event |-> <<>>, data |-> <<>>,
          queue |-> Append(p.queue,
                           [event |-> IF p.event = <<>> THEN <<"message">> ELSE p.event,
                            data |-> p.data])]

\* A comment, or a field it does not know, changes nothing.
ProcessLine(p, line) ==
    IF line = <<>> THEN Dispatch(p)
    ELSE IF line[1] = "event" THEN [p EXCEPT !.event = Tail(line)]
    ELSE IF line[1] = "data" THEN [p EXCEPT !.data = Append(@, Tail(line))]
    ELSE p

\* replace("\r\n", "\n") in each piece: a cr goes that came with its lf.
Unified(buf) ==
    IF buf # <<>> /\ buf[Len(buf)] = "cr" /\ ~split THEN SubSeq(buf, 1, Len(buf) - 1) ELSE buf

Emptied(p) == [p EXCEPT !.buf = <<>>]

Feed(symbol) ==
    IF symbol = "lf" THEN ProcessLine(Emptied(parser), Unified(parser.buf))
    ELSE [parser EXCEPT !.buf = Append(@, symbol)]

(***************************************************************************)
(* The provider and the pieces                                             *)
(***************************************************************************)
\* External: the provider begins its next event.
SendEvent(kind) ==
    /\ wire.line = 0 /\ wire.begun < MaxEvents /\ wire.kind \notin Final
    /\ wire' = [wire EXCEPT !.kind = kind, !.line = 1, !.place = 1, !.begun = @ + 1]
    /\ UNCHANGED <<readVars, clientVars, torn, arrived>>

Text == Lines(wire.kind)[wire.line] \o wire.eol
LineEnds == wire.place = Len(Text)
EventEnds == LineEnds /\ wire.line = Len(Lines(wire.kind))

\* The next symbol of a piece.
StreamPiece ==
    /\ stage \in {"waiting", "feeding"} /\ wire.line # 0
    /\ stage' = "feeding" /\ split' = FALSE
    /\ parser' = Feed(Text[wire.place])
    /\ wire' = IF EventEnds THEN [wire EXCEPT !.line = 0, !.place = 1]
               ELSE IF LineEnds THEN [wire EXCEPT !.line = @ + 1, !.place = 1]
               ELSE [wire EXCEPT !.place = @ + 1]
    /\ arrived' = IF EventEnds /\ wire.kind # "heartbeat"
                  THEN Append(arrived, Meant(wire.kind)) ELSE arrived
    /\ UNCHANGED <<clientVars, torn>>

EndsInCr(buf) == buf # <<>> /\ buf[Len(buf)] = "cr"
WhenFed(queue) == IF queue = <<>> THEN "waiting" ELSE "relaying"

\* Bug: what is left of a piece is taken for a line.
EndPieceWithLine ==
    /\ stage = "feeding"
    /\ parser' = ProcessLine(Emptied(parser), parser.buf)
    /\ stage' = WhenFed(parser'.queue)
    /\ split' = EndsInCr(parser.buf) /\ torn' = (torn \/ split')
    /\ UNCHANGED <<wire, clientVars, arrived>>

\* The piece ends anywhere; the rest of its last line waits for the next one.
EndPiece ==
    /\ stage = "feeding"
    /\ stage' = WhenFed(parser.queue)
    /\ split' = EndsInCr(parser.buf) /\ torn' = (torn \/ split')
    /\ UNCHANGED <<wire, parser, clientVars, arrived>>

(***************************************************************************)
(* The relay                                                               *)
(***************************************************************************)
\* One event off the queue; a final one ends the relay, completed with a charge.
RelayEvent ==
    /\ stage = "relaying"
    /\ LET ev == Head(parser.queue)
           rest == Tail(parser.queue)
       IN  /\ parser' = [parser EXCEPT !.queue = rest]
           /\ shown' = Append(shown, ev)
           /\ meter' = meter + IF ev.event = <<"meter">> THEN 1 ELSE 0
           /\ billed' = (ev.event = <<"completed">>)
           /\ stage' = IF \E kind \in Final : ev.event = <<kind>> THEN "over" ELSE WhenFed(rest)
    /\ UNCHANGED <<wire, split, torn, arrived>>

\* The provider closes the stream or breaks off, or a timeout ends it: the client
\* is told so, whatever the parser still holds.
EndOfStream ==
    /\ stage = "waiting"
    /\ stage' = "over"
    /\ UNCHANGED <<wire, parser, split, clientVars, torn, arrived>>

SseNext ==
    \/ \E kind \in Kinds : SendEvent(kind)
    \/ StreamPiece \/ EndPiece \/ RelayEvent \/ EndOfStream

SseSpec == SseInit /\ [][SseNext]_streamVars

(***************************************************************************)
(* Properties                                                              *)
(***************************************************************************)
\* However the network cuts the stream, the client sees the events that arrived,
\* whole and in order, the meter has counted them all and the call is charged if
\* completed is among them (routes/invoke.rs:1484-1590, 1953-2000); what is not
\* shown yet is in the queue, and nothing is between two pieces.  A cut between
\* cr and lf is the exception: it may hide or change an event, but never charges
\* for a stream whose completed did not arrive.
StreamRelayed ==
    /\ billed => \E i \in DOMAIN arrived : arrived[i] = Meant("completed")
    /\ ~torn =>
        /\ shown \o parser.queue = arrived
        /\ stage \in {"waiting", "over"} => shown = arrived
        /\ meter = Cardinality({i \in DOMAIN shown : shown[i] = Meant("meter")})
        /\ billed <=> \E i \in DOMAIN shown : shown[i] = Meant("completed")
================================================================================
