----------------------------- MODULE MCComponents -----------------------------
(***************************************************************************)
(* Components that share no state with one another: a behaviour of this    *)
(* instance is one of the rate limiter, of the replay cache, of the        *)
(* feature flags, of the API keys of one actor, of the x402 payment path,  *)
(* of the relayer, of one signature, of the SNS engine, of one stream of   *)
(* events or of the subscriptions; the others stay where they started.     *)
(***************************************************************************)
EXTENDS RateLimiter, ReplayCache, FeatureFlags, KeyRotation, PaymentPath,
        Relayer, TxSignature, SnsEngine, SseStream, Subscriptions

VARIABLE part       \* the component this behaviour is about

componentVars ==
    <<part, limiterVars, replayVars, flagVars, keyVars, paymentVars, relayVars, signing, engineVars,
      streamVars, subVars>>

Parts == {"limiter", "replay", "flags", "keys", "payment", "relayer", "signature", "engine",
          "stream", "subscriptions"}

OneOf(S) == CHOOSE x \in S : TRUE

\* 227 and 113 in base 16, and first parts with leading zeros and sign bits.
MCOrder == <<14, 3>>
MCHalfOrder == <<7, 1>>
MCFirstParts == {<<0, 1>>, <<0, 7>>, <<0, 8>>, <<1, 0>>, <<7, 15>>, <<8, 0>>, <<14, 2>>}

SomeSignature == [at |-> "digest", r |-> OneOf(FirstParts), s |-> OneOf(Scalars), parity |-> 0, octets |-> <<>>]
SomeCall == NewCall("analyze", TRUE)

\* A part the behaviour is not about has one initial state.
MCInit ==
    /\ part \in Parts
    /\ part # "signature" => signing = SomeSignature
    /\ SignatureInit
    /\ part # "engine" => engine = [c \in EngineCalls |-> SomeCall]
    /\ EngineInit
    /\ part # "payment" =>
        /\ authorisation = OneOf(Authorisations)
        /\ attempts = [a \in Attempts |-> NewAttempt(OneOf(Prices))]
    /\ PaymentInit
    /\ part # "keys" => requests = [k \in Presenters |-> Idle(OneOf(Actors))]
    /\ KeyInit
    /\ part # "flags" => flag = "on"
    /\ FlagInit
    /\ part # "relayer" => relays = [s \in Relays |-> NewRelay(OneOf(Hubs), OneOf(Fees))]
    /\ RelayerInit
    /\ SseInit
    /\ part # "stream" => wire.eol = <<"lf">>
    /\ LimiterInit /\ ReplayInit /\ SubscriptionInit

\* The actors share nothing: the requests of a behaviour are those of one actor.
OneActor == \A k \in Presenters : requests'[k].actor = requests[k].actor

(***************************************************************************)
(* Where a component stops: at the bound of its clock, or with every call  *)
(* answered.                                                               *)
(***************************************************************************)
ReplayEnds == instant = MaxInstant /\ UNCHANGED replayVars

PaymentEnds ==
    /\ \A a \in Attempts : attempts[a].at = "answered"
    /\ wall = MaxWall /\ UNCHANGED paymentVars

RelayerEnds ==
    /\ \/ \A m \in Hubs : signer[m] = "stub"
       \/ \A s \in Relays : relays[s].at \in {"sent", "failed"}
    /\ UNCHANGED relayVars

SignatureEnds == signing.at = "sent" /\ UNCHANGED signing

EngineEnds ==
    /\ \A c \in EngineCalls : engine[c].at \in {"done", "failed"}
    /\ UNCHANGED engineVars

StreamEnds == stage = "over" /\ UNCHANGED streamVars

SubscriptionEnds ==
    /\ \A c \in Requests : calls[c].at = "answered"
    /\ UNCHANGED subVars

MCNext ==
    /\ part' = part
    /\ \/ /\ part = "limiter" /\ LimiterNext
          /\ UNCHANGED <<replayVars, flagVars, keyVars, paymentVars, relayVars,
                         signing, engineVars, streamVars, subVars>>
       \/ /\ part = "replay" /\ (ReplayNext \/ ReplayEnds)
          /\ UNCHANGED <<limiterVars, flagVars, keyVars, paymentVars, relayVars,
                         signing, engineVars, streamVars, subVars>>
       \/ /\ part = "flags" /\ FlagNext
          /\ UNCHANGED <<limiterVars, replayVars, keyVars, paymentVars, relayVars,
                         signing, engineVars, streamVars, subVars>>
       \/ /\ part = "keys" /\ KeyNext /\ OneActor
          /\ UNCHANGED <<limiterVars, replayVars, flagVars, paymentVars, relayVars,
                         signing, engineVars, streamVars, subVars>>
       \/ /\ part = "payment" /\ (PaymentNext \/ PaymentEnds)
          /\ UNCHANGED <<limiterVars, replayVars, flagVars, keyVars, relayVars,
                         signing, engineVars, streamVars, subVars>>
       \/ /\ part = "relayer" /\ (RelayerNext \/ RelayerEnds)
          /\ UNCHANGED <<limiterVars, replayVars, flagVars, keyVars, paymentVars,
                         signing, engineVars, streamVars, subVars>>
       \/ /\ part = "signature" /\ (SignatureNext \/ SignatureEnds)
          /\ UNCHANGED <<limiterVars, replayVars, flagVars, keyVars, paymentVars,
                         relayVars, engineVars, streamVars, subVars>>
       \/ /\ part = "engine" /\ (EngineNext \/ EngineEnds)
          /\ UNCHANGED <<limiterVars, replayVars, flagVars, keyVars, paymentVars,
                         relayVars, signing, streamVars, subVars>>
       \/ /\ part = "stream" /\ (SseNext \/ StreamEnds)
          /\ UNCHANGED <<limiterVars, replayVars, flagVars, keyVars, paymentVars,
                         relayVars, signing, engineVars, subVars>>
       \/ /\ part = "subscriptions" /\ (SubscriptionNext \/ SubscriptionEnds)
          /\ UNCHANGED <<limiterVars, replayVars, flagVars, keyVars, paymentVars,
                         relayVars, signing, engineVars, streamVars>>

MCSpec == MCInit /\ [][MCNext]_componentVars
===============================================================================
