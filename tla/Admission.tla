----------------------------- MODULE Admission -----------------------------
(***************************************************************************)
(* The checks Whisper.add makes before an envelope enters the pool: its    *)
(* time stamps against the local clock (uint32 arithmetic, which wraps),   *)
(* then its size, its proof of work and its bloom filter against the       *)
(* settings of the node.  Pure operators; EnvelopePool, Settings and       *)
(* Gossip use them.                                                        *)
(*                                                                         *)
(* An envelope is a record and stands for its own hash.  "work" is         *)
(* 2^leadingZeros / len(rlp), the part of the proof of work that does not  *)
(* depend on time, so that PoW >= p reads work >= p * charged seconds.     *)
(***************************************************************************)
EXTENDS Integers

CONSTANTS
    Word,            \* how many values a uint32 has: 2^32 in the code
    SyncAllowance    \* DefaultSyncAllowance, in seconds: 10 in the code

ASSUME WordAssumption == Word \in Nat \ {0}
ASSUME SyncAllowanceAssumption == SyncAllowance \in Nat /\ 2 * SyncAllowance < Word

Uint32 == 0 .. Word - 1

(* Addition and subtraction of two uint32 values. *)
Plus(a, b)  == IF a + b < Word THEN a + b ELSE a + b - Word
Minus(a, b) == IF a >= b THEN a - b ELSE a - b + Word

(* The fields of an Envelope the node looks at; bloom is a set of bits. *)
EnvelopeOver(Bit) ==
    [expiry : Uint32, ttl : Uint32, size : Nat, work : Nat, bloom : SUBSET Bit]

-----------------------------------------------------------------------------
(* When the envelope claims to have been sent. *)
Sent(e) == Minus(e.expiry, e.ttl)

(* "envelope from future": sent later than the clock skew that is allowed. *)
InFuture(e, now) ==
    /\ Sent(e) > now
    /\ Minus(Sent(e), SyncAllowance) > now

Expired(e, now) == e.expiry < now

(* "very old envelope": an error; a merely expired one is dropped silently. *)
VeryOld(e, now) ==
    /\ Expired(e, now)
    /\ Plus(e.expiry, 2 * SyncAllowance) < now

(* Faulty form: the TTL alone, whatever the clocks say. *)
ChargedTTLNoSkew(e, now) == e.ttl

(***************************************************************************)
(* The seconds of life calculatePoW divides the work by: the TTL, plus,    *)
(* when the envelope was sent ahead of our clock, the difference and one.  *)
(***************************************************************************)
ChargedTTL(e, now) ==
    IF Sent(e) > now THEN Plus(e.ttl, Plus(Minus(Sent(e), now), 1)) ELSE e.ttl

(* envelope.PoW() >= p; a charge of zero seconds makes the PoW infinite. *)
PowReaches(e, now, p) == e.work >= p * ChargedTTL(e, now)

(* BloomFilterMatch: a nil filter is the set of all bits. *)
BloomFilterMatch(filter, sample) == sample \subseteq filter

-----------------------------------------------------------------------------
(***************************************************************************)
(* The three checks against the settings s of the node.  The requirement   *)
(* in force and the one still tolerated are both good enough.              *)
(***************************************************************************)
SizeAllowed(e, s) == e.size <= s.maxMessageSize

PowAllowed(e, now, s) ==
    \/ PowReaches(e, now, s.minPow)
    \/ PowReaches(e, now, s.minPowTolerance)

BloomAllowed(e, s) ==
    \/ BloomFilterMatch(s.bloom, e.bloom)
    \/ BloomFilterMatch(s.bloomTolerance, e.bloom)

(* The envelope goes on to the pool. *)
Admitted(e, now, s) ==
    /\ ~ InFuture(e, now)
    /\ ~ Expired(e, now)
    /\ SizeAllowed(e, s)
    /\ PowAllowed(e, now, s)
    /\ BloomAllowed(e, s)

(* add returns (false, nil). *)
Dropped(e, now) ==
    /\ ~ InFuture(e, now)
    /\ Expired(e, now)
    /\ ~ VeryOld(e, now)

(* add returns an error. *)
Refused(e, now, s) == ~ Admitted(e, now, s) /\ ~ Dropped(e, now)
=============================================================================
