------------------------------ MODULE TxSignature ------------------------------
(***************************************************************************)
(* How a transaction of the relayer gets its signature                     *)
(* (services/x402_relayer_aws_kms.rs).  KMS answers in DER; the two        *)
(* numbers are cut out of it, the second is brought below half the order   *)
(* of the curve as the chain demands, the parity bit is found by trying    *)
(* both, and the three go into the transaction in RLP.  Numbers are        *)
(* sequences of Width digits in base Base, the most significant first; in  *)
(* the code these are 32 bytes.  Lengths take one octet there, as they are *)
(* at most 70 in DER and 32 in RLP.                                        *)
(*                                                                         *)
(* External: how KMS writes DER, what recovery finds, how a node reads.    *)
(***************************************************************************)
EXTENDS Integers, Sequences

CONSTANTS
    Base,       \* 256
    Width,      \* 32
    Order,      \* SECP256K1_N
    HalfOrder,  \* SECP256K1_N_HALF
    FirstParts  \* the r that are tried; s ranges over all scalars

Digit   == 0 .. Base - 1
Numbers == [1 .. Width -> Digit]

\* What the first digits of a number are worth, and all of them.
Prefixes(digits) ==
    LET worth[n \in 0 .. Len(digits)] ==
            IF n = 0 THEN 0 ELSE worth[n - 1] * Base + digits[n]
    IN  worth
Value(digits) == Prefixes(digits)[Len(digits)]

\* What a private key, r and s can be.
Scalars == {x \in Numbers : 0 < Value(x) /\ Value(x) < Value(Order)}

ASSUME SignatureAssumption ==
    /\ Base \in Nat /\ Base >= 4 /\ Width \in Nat \ {0}
    /\ Order \in Numbers /\ HalfOrder \in Numbers
    /\ Value(Order) = 2 * Value(HalfOrder) + 1
    /\ FirstParts \subseteq Scalars

VARIABLE
    signing     \* one signature: at, what KMS drew (r, s, parity), octets: what is passed on

Sign == Base \div 2                                     \* 0x80
StripLeadingZeros(digits) ==
    LET nonzero == {i \in 1 .. Len(digits) : digits[i] # 0}
        first == CHOOSE i \in nonzero : \A k \in nonzero : i <= k
    IN  IF nonzero = {} THEN <<>> ELSE SubSeq(digits, first, Len(digits))

SignatureInit ==
    \E r \in FirstParts, s \in Scalars, parity \in {0, 1} :
        signing = [at |-> "digest", r |-> r, s |-> s, parity |-> parity, octets |-> <<>>]

(***************************************************************************)
(* DER                                                                     *)
(***************************************************************************)
\* External: an INTEGER is signed, so a number whose first bit is set has a zero before it.
DerInt(number) ==
    LET digits == StripLeadingZeros(number)
        signed == IF digits[1] >= Sign THEN <<0>> \o digits ELSE digits
    IN  <<2, Len(signed)>> \o signed

KmsSigns ==
    /\ signing.at = "digest"
    /\ LET body == DerInt(signing.r) \o DerInt(signing.s)
       IN  signing' = [signing EXCEPT !.at = "der", !.octets = <<48, Len(body)>> \o body]

\* Bug: the sign byte stays.
KeepSignByte(raw) == raw

StripSignByte(raw) == IF Len(raw) = Width + 1 /\ raw[1] = 0 THEN Tail(raw) ELSE raw

\* The number at the head of buf, and what follows it; no digits stand for an error.
ReadDerInt(buf) ==
    LET wrong == [digits |-> <<>>, rest |-> <<>>]
        raw == StripSignByte(SubSeq(buf, 3, 2 + buf[2]))
    IN  IF Len(buf) < 2 \/ buf[1] # 2 \/ buf[2] \notin 1 .. Width + 1 \/ Len(buf) < 2 + buf[2]
        THEN wrong
        ELSE IF Len(raw) > Width THEN wrong
        ELSE [digits |-> [i \in 1 .. Width - Len(raw) |-> 0] \o raw,
              rest   |-> SubSeq(buf, 3 + buf[2], Len(buf))]

ParseDerSignature(der) ==
    LET first == ReadDerInt(SubSeq(der, 3, 2 + der[2]))
        second == ReadDerInt(first.rest)
        wellFormed == /\ Len(der) >= 8 /\ der[1] = 48 /\ 2 + der[2] <= Len(der)
                      /\ first.digits # <<>> /\ second.digits # <<>> /\ second.rest = <<>>
    IN  [ok |-> wellFormed, r |-> first.digits, s |-> second.digits]

(***************************************************************************)
(* Low s                                                                   *)
(***************************************************************************)
IsHighS(s) ==
    \E i \in 1 .. Width : s[i] > HalfOrder[i] /\ \A k \in 1 .. i - 1 : s[k] = HalfOrder[k]

\* Bug: nothing is carried from digit to digit.
SubtractDigitwise(s) ==
    [i \in 1 .. Width |-> IF Order[i] < s[i] THEN Order[i] - s[i] + Base ELSE Order[i] - s[i]]

\* What digit i + 1 takes from digit i, from the last digit to the first.
Borrows(s) ==
    LET borrow[i \in 0 .. Width] ==
            IF i = Width \/ Order[i + 1] - s[i + 1] - borrow[i + 1] >= 0 THEN 0 ELSE 1
    IN  borrow

\* Order - s
Subtract(s) ==
    [i \in 1 .. Width |->
        LET diff == Order[i] - s[i] - Borrows(s)[i]
        IN  IF diff < 0 THEN diff + Base ELSE diff]

NormalizeS(s) == IF IsHighS(s) THEN Subtract(s) ELSE s

KmsSignature ==
    /\ signing.at = "der"
    /\ LET parsed == ParseDerSignature(signing.octets)
       IN  signing' = IF parsed.ok
                      THEN [signing EXCEPT !.at = "signed", !.octets = parsed.r \o NormalizeS(parsed.s)]
                      ELSE [signing EXCEPT !.at = "failed"]

(***************************************************************************)
(* The envelope                                                            *)
(***************************************************************************)
\* External: the parity with which the numbers r and s recover the relayer's own key.
Parities(r, s) ==
    {y \in {0, 1} :
        /\ r = Value(signing.r)
        /\ \/ s = Value(signing.s) /\ y = signing.parity
           \/ s = Value(Order) - Value(signing.s) /\ y = 1 - signing.parity}

BytesToRlp(bytes) == IF Len(bytes) = 1 /\ bytes[1] < Sign THEN bytes ELSE <<Sign + Len(bytes)>> \o bytes
IntToRlp(digits) == BytesToRlp(StripLeadingZeros(digits))

\* Both parities are tried.
RecoverYParity(r, s) == Parities(Value(r), Value(s))

\* What comes before the signature in the transaction is constant.
EncodeSigned ==
    /\ signing.at = "signed"
    /\ LET r == SubSeq(signing.octets, 1, Width)
           s == SubSeq(signing.octets, Width + 1, 2 * Width)
           found == RecoverYParity(r, s)
       IN  signing' =
            IF found = {} THEN [signing EXCEPT !.at = "failed"]
            ELSE [signing EXCEPT !.at = "sent",
                    !.octets = IntToRlp(<<CHOOSE y \in found : TRUE>>) \o IntToRlp(r) \o IntToRlp(s)]

SignatureNext == KmsSigns \/ KmsSignature \/ EncodeSigned
SignatureSpec == SignatureInit /\ [][SignatureNext]_signing

(***************************************************************************)
(* Properties                                                              *)
(***************************************************************************)
\* External: the integers a node reads from a list of RLP strings.
RlpItem(bytes) == IF bytes[1] < Sign THEN <<bytes[1]>> ELSE SubSeq(bytes, 2, 1 + bytes[1] - Sign)
RlpRest(bytes) ==
    SubSeq(bytes, 2 + (IF bytes[1] < Sign THEN 0 ELSE bytes[1] - Sign), Len(bytes))

\* Whatever KMS draws, the transaction is sent, a node that reads it finds the
\* number r that was drawn and a second one that is s or its complement and not
\* above half the order, the parity is the one that names the relayer, and no
\* number has a leading zero, which a node would refuse
\* (x402_relayer_aws_kms.rs:122-146, 175-240, 374-407, 499-541).
SignatureTrue ==
    LET y == signing.octets
        r == RlpRest(y)
        s == RlpRest(r)
    IN  /\ signing.at # "failed"
        /\ signing.at = "sent" =>
            /\ Value(RlpItem(s)) <= Value(HalfOrder)
            /\ Value(RlpItem(y)) \in Parities(Value(RlpItem(r)), Value(RlpItem(s)))
            /\ \A item \in {RlpItem(y), RlpItem(r), RlpItem(s)} : item # <<>> => item[1] # 0
            /\ RlpRest(s) = <<>>
================================================================================
