----------------------------- MODULE MCPosting ------------------------------
(* A small instance of Posting. *)
EXTENDS Posting, TLC

CONSTANTS id1, id2, name1, name2, k1, k2

MCDerived == name1 :> id1 @@ name2 :> id2
MCPublicKey == k1 :> name1 @@ k2 :> name2

(* Longer data takes a longer header than size() reckons with. *)
MCRlpOverhead == [l \in 0 .. 200 |-> IF l < 24 THEN Header ELSE Header + 1]

Bytes(n) == [i \in 1 .. n |-> i % Base]

Plain ==
    [symKeyID |-> id2, publicKey |-> NoName, sig |-> NoName, ttl |-> 1, topic |-> 1,
     payload |-> Bytes(3), padding |-> << >>, powTime |-> 1, powTarget |-> 1,
     targetPeer |-> FALSE]

ToIdentity(r) == [r EXCEPT !.symKeyID = NoName, !.publicKey = k1]
Signed(r)     == [r EXCEPT !.sig = name1]
ToPeer(r)     == [r EXCEPT !.targetPeer = TRUE]

MCRequest ==
    {Signed(Plain), [Plain EXCEPT !.topic = NoTopic],
     [Plain EXCEPT !.publicKey = k1],
     [Plain EXCEPT !.padding = Bytes(1), !.powTarget = 2],
     [Signed(Plain) EXCEPT !.sig = id2, !.payload = Bytes(4), !.ttl = 0],
     [ToIdentity(Plain) EXCEPT !.payload = << >>, !.powTarget = 0],
     [ToIdentity(Plain) EXCEPT !.payload = Bytes(16)],
     Signed(ToPeer([ToIdentity(Plain) EXCEPT !.payload = Bytes(16), !.powTarget = -1])),
     ToPeer([ToIdentity(Plain) EXCEPT !.payload = Bytes(64), !.powTarget = 0]),
     [ToIdentity(Plain) EXCEPT !.topic = 2]}
=============================================================================
