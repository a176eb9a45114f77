------------------------------- MODULE Coding -------------------------------
(***************************************************************************)
(* From the payload of a message to the bytes that are encrypted and back: *)
(* the flags, the payload's size in as few bytes as it takes, the payload, *)
(* the padding, and a signature over all of it.  Pure operators.           *)
(*                                                                         *)
(* A byte is a number below Base, 256 in the code, and a smaller one keeps *)
(* the messages short for TLC.  A signature holds its signer and a digest  *)
(* of what was signed; checked against other bytes it gives the key of a   *)
(* stranger, and one that no key made gives none.                          *)
(***************************************************************************)
EXTENDS Integers, Sequences, Functions

CONSTANTS
    Base,            \* values of a byte
    PadLimit,        \* padSizeLimit
    SigLength,       \* signatureLength
    Nobody,          \* no source: nil
    Stranger         \* the key a wrong digest recovers

ASSUME CodingAssumption ==
    Base \in Nat \ {0, 1} /\ PadLimit \in Nat \ {0} /\ SigLength \in Nat \ {0, 1}

SizeMask == 3
SignatureFlag == 4

(* What a digit counts for, the lowest first; a uint32 has four of them. *)
Place == <<1, Base, Base * Base, Base * Base * Base>>

(* getSizeOfPayloadSizeField: the digits of n, at least one. *)
PayloadSizeFieldSize(n) ==
    CHOOSE s \in 1 .. 4 : /\ s = 1 \/ Place[s] <= n
                          /\ s = 4 \/ n < Place[s + 1]

(* Little endian, cut off after the digits that are needed. *)
PayloadSizeField(n) ==
    [i \in 1 .. PayloadSizeFieldSize(n) |-> (n \div Place[i]) % Base]

BytesToUintLittleEndian(b) ==
    LET res[i \in 0 .. Len(b)] == IF i = 0 THEN 0 ELSE res[i - 1] + b[i] * Place[i]
    IN  res[Len(b)]

(* Faulty form: the signature is left out of the size. *)
PaddingSizeUnsigned(payload, signed) ==
    PadLimit - ((1 + PayloadSizeFieldSize(Len(payload)) + Len(payload)) % PadLimit)

(* How much random padding appendPadding adds, for a message to be signed or not. *)
PaddingSize(payload, signed) ==
    PadLimit - ((1 + PayloadSizeFieldSize(Len(payload)) + Len(payload)
                   + IF signed THEN SigLength ELSE 0) % PadLimit)

RandomBytes(n) == [i \in 1 .. n |-> (n + i) % Base]

NewSentMessage(payload, padding, signed) ==
    <<PayloadSizeFieldSize(Len(payload))>> \o PayloadSizeField(Len(payload)) \o payload
        \o IF padding # << >> THEN padding ELSE RandomBytes(PaddingSize(payload, signed))

IsMessageSigned(raw) == (raw[1] \div SignatureFlag) % 2 = 1

Digest(raw) == SumFunction([i \in DOMAIN raw |-> i * raw[i]])
Signature(src, raw) == <<src, Digest(raw)>> \o RandomBytes(SigLength - 2)

(* Faulty form: the flag is set once the message is signed. *)
SignThenFlag(raw, src) ==
    IF IsMessageSigned(raw) THEN raw
    ELSE [raw EXCEPT ![1] = @ + SignatureFlag] \o Signature(src, raw)

(* The flag is covered by the signature; a message that has it is left alone. *)
Sign(raw, src) ==
    IF IsMessageSigned(raw) THEN raw
    ELSE LET flagged == [raw EXCEPT ![1] = @ + SignatureFlag]
         IN  flagged \o Signature(src, flagged)

SigToPubKey(raw, signature) ==
    IF Digest(raw) = signature[2] THEN signature[1] ELSE Stranger

-----------------------------------------------------------------------------
Malformed == [ok |-> FALSE]

(* ValidateAndParse; the source of a message that is not signed is Nobody. *)
ValidateAndParse(raw) ==
    LET signed == Len(raw) > 0 /\ IsMessageSigned(raw)
        end    == Len(raw) - IF signed THEN SigLength ELSE 0
        field  == raw[1] % (SizeMask + 1)
        size   == BytesToUintLittleEndian(SubSeq(raw, 2, 1 + field))
        src    == IF signed
                  THEN SigToPubKey(SubSeq(raw, 1, end), SubSeq(raw, end + 1, Len(raw)))
                  ELSE Nobody
    IN  IF \/ end < 1
           \/ signed /\ (end <= 1 \/ src = Nobody)
           \/ end < 1 + field
           \/ end < 1 + field + size
        THEN Malformed
        ELSE [ok      |-> TRUE,
              src     |-> src,
              payload |-> SubSeq(raw, 2 + field, 1 + field + size),
              padding |-> SubSeq(raw, 2 + field + size, end)]
=============================================================================
