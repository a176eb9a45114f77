------------------------------ MODULE MCGossip ------------------------------
(* Small instances of Gossip: two connected nodes. *)
EXTENDS Gossip, TLC

CONSTANTS n1, n2

Env(expiry, ttl, size, work, bloom) ==
    [expiry |-> expiry, ttl |-> ttl, size |-> size, work |-> work, bloom |-> bloom]

MCBit == {1}
MCLink == {<<n1, n2>>, <<n2, n1>>}

(* n2 takes packets of one or the other envelope, not of both. *)
MCSettingsOf ==
    [n \in {n1, n2} |->
        [maxMessageSize |-> IF n = n1 THEN 3 ELSE 2, minPow |-> 2, minPowTolerance |-> 2,
         bloom |-> {1}, bloomTolerance |-> {1}]]

(* With its clock one second ahead, n1 charges the first envelope for one
   second where n2 charges it for three, which its work does not cover. *)
MCEarly == Env(3, 1, 1, 2, {1})
MCLate == Env(2, 1, 2, 8, {1})
MCEnvelope == {MCEarly, MCLate}
MCAhead == [n \in {n1, n2} |-> IF n = n1 THEN 1 ELSE 0]

(* n1 sends both envelopes; both nodes send the second one, which expires on
   n1 while n2 still offers it. *)
MCOneWay == [skew |-> MCAhead, confirming |-> {n2}, lastTime |-> 2,
             origin |-> [e \in MCEnvelope |-> {n1}]]
MCRace == [MCOneWay EXCEPT !.origin = [e \in MCEnvelope |->
                                           IF e = MCLate THEN {n1, n2} ELSE {}]]
MCNetwork == {MCOneWay, MCRace}

(* Without confirmations. *)
MCSilent == {[MCOneWay EXCEPT !.confirming = {}]}
=============================================================================
