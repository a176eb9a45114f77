-------------------------- MODULE MCEnvelopePool --------------------------
(* Small instances of EnvelopePool. *)
EXTENDS EnvelopePool, TLC

Env(expiry, ttl, size, work, bloom) ==
    [expiry |-> expiry, ttl |-> ttl, size |-> size, work |-> work, bloom |-> bloom]

MCBit == {1, 2}
MCSettings == [maxMessageSize |-> 3, minPow |-> 2, minPowTolerance |-> 1,
               bloom |-> {1}, bloomTolerance |-> {1}]

(* Two that expire at different times; the second has done the work of one
   second only, so it is refused while it is ahead of the clock.  The sending
   time of the third, which lives longer than the clock has run, wraps around. *)
MCEnvelope ==
    { Env(2, 1, 1, 4, {1}), Env(3, 1, 3, 1, {1}), Env(2, 3, 1, 4, {1}) }

(* Two that expire together, to keep the liveness runs short. *)
MCPair == { Env(2, 1, 1, 4, {1}), Env(2, 1, 2, 4, {1}) }

MCSymmetry == Permutations(Adder) \cup Permutations(Worker)
=============================================================================
