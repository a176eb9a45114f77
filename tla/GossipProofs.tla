---------------------------- MODULE GossipProofs ----------------------------
(***************************************************************************)
(* Proofs about Gossip, for any number of nodes, links and envelopes, any  *)
(* clocks and any settings.                                                *)
(*                                                                         *)
(* First the types, what each step does to the two ends of a connection,   *)
(* and what time cannot undo at a node (Keeps).  The invariant then        *)
(* follows an envelope along a link: pooled at its source until it expires *)
(* (SourceInv), written before it travels or is being received (FlowInv),  *)
(* settled by add before it is marked or confirmed (ProcessInv).  From     *)
(* these three come the properties: SharedInv, OnceInv, TruthInv.  At the  *)
(* end the type invariant of the runs, from GossipInv and what the loops   *)
(* are working on.                                                         *)
(***************************************************************************)
EXTENDS Gossip, TLAPS

PeerState ==
    [up : BOOLEAN, known : SUBSET Envelope,
     update : {"idle", "write", "mark", "unmark", "dead"}, bundle : SUBSET Envelope,
     loop : {"read", "add", "insert", "mark", "quit"}, batch : SUBSET Envelope,
     todo : SUBSET Envelope, cur : Envelope \cup {NoEnvelope},
     charge : Uint32, cached : BOOLEAN, errors : SUBSET Envelope, trouble : BOOLEAN,
     confirm : SUBSET Packet]

GossipTypes ==
    /\ network \in Network /\ now \in Nat
    /\ pool = [n \in Node |-> pool[n]] /\ \A n \in Node : Pooled(n) \subseteq Envelope
    /\ sending \in [Node -> SUBSET [env : Envelope, charge : Uint32]]
    /\ peer \in [Link -> PeerState]
    /\ wire \in [Link -> Seq(Packet)]
    /\ sent \in [Node -> SUBSET Envelope] /\ pooledEver \in [Node -> SUBSET Envelope]
    /\ declined \in [Node -> SUBSET Envelope]
    /\ written \in [Link -> SUBSET Envelope] /\ acked \in [Link -> SUBSET Packet]

(* The two ends of a connection. *)
LEMMA Ends ==
    ASSUME NEW l \in Link
    PROVE  /\ Reverse(l) \in Link /\ Reverse(Reverse(l)) = l /\ Reverse(l) # l
           /\ l[1] \in Node /\ l[2] \in Node
           /\ Reverse(l)[1] = l[2] /\ Reverse(l)[2] = l[1]
  BY LinkAssumption DEF Reverse

LEMMA ClockTypes ==
    ASSUME GossipTypes, NEW n \in Node
    PROVE  Clock(n) \in Nat
  BY NodeAssumption DEF GossipTypes, Clock

LEMMA ChargeTypes ==
    ASSUME NEW e \in Envelope, NEW t \in Nat
    PROVE  ChargedTTL(e, t) \in Uint32
<1>1. e.expiry \in Uint32 /\ e.ttl \in Uint32 /\ Word \in Nat \ {0}
  BY EnvelopeAssumption, WordAssumption, Zenon DEF EnvelopeOver
<1>2. Sent(e) \in Uint32
  BY <1>1 DEF Sent, Minus, Uint32
<1>3. CASE Sent(e) > t
  <2>1. Minus(Sent(e), t) \in Uint32
    BY <1>1, <1>2, <1>3 DEF Minus, Uint32
  <2>2. Plus(Minus(Sent(e), t), 1) \in Uint32
    BY <1>1, <2>1 DEF Plus, Uint32
  <2>3. Plus(e.ttl, Plus(Minus(Sent(e), t), 1)) \in Uint32
    BY <1>1, <2>2 DEF Plus, Uint32
  <2> QED  BY <1>3, <2>3, Zenon DEF ChargedTTL
<1> QED  BY <1>1, <1>3, Zenon DEF ChargedTTL

LEMMA NoCharge == 0 \in Uint32
  BY WordAssumption DEF Uint32

LEMMA PeerTypes == NewPeer \in PeerState /\ NoPeer \in PeerState
<1>1. NewPeer \in PeerState
  BY NoCharge, Zenon DEF NewPeer, PeerState
<1>2. [NewPeer EXCEPT !.up = FALSE] \in PeerState
  BY <1>1, Zenon DEF PeerState
<1> QED  BY <1>1, <1>2, Zenon DEF NoPeer

LEMMA GossipTypesInit == Init => GossipTypes
  BY PeerTypes DEF Init, GossipTypes, Pooled

(* The packet at the end of a wire is taken off, or one is added. *)
LEMMA WireTypes ==
    ASSUME GossipTypes, NEW l \in Link
    PROVE  /\ wire[l] \in Seq(Packet) /\ Len(wire[l]) \in Nat
           /\ \A p \in Packet : [wire EXCEPT ![l] = Append(@, p)] \in [Link -> Seq(Packet)]
           /\ wire[l] # << >> =>
                 /\ Head(wire[l]) \in Packet
                 /\ [wire EXCEPT ![l] = Tail(@)] \in [Link -> Seq(Packet)]
  BY DEF GossipTypes

LEMMA UpdateTypes ==
    ASSUME GossipTypes, NEW l \in Link, UpdateStep(l) \/ ExpireKnown(l)
    PROVE  GossipTypes'
<1> USE DEF historyVars, nodeHistory, linkHistory, Pooled
<1>1. peer[l] \in PeerState /\ peer \in [Link -> PeerState] /\ Wanted(l) \subseteq Envelope
  BY Ends, Zenon DEF GossipTypes, Wanted
<1>2. CASE ChooseBundle(l)
  <2>1. [peer[l] EXCEPT !.update = "write", !.bundle = Wanted(l)] \in PeerState
    BY <1>1, Zenon DEF PeerState
  <2> QED  BY <1>1, <1>2, <2>1, Zenon DEF ChooseBundle, GossipTypes
<1>3. CASE WriteBundle(l)
  <2>1. /\ [peer[l] EXCEPT !.update = "mark"] \in PeerState
        /\ [peer[l] EXCEPT !.update = "dead", !.bundle = {}] \in PeerState
        /\ peer[l].bundle \subseteq Envelope
    BY <1>1, Zenon DEF PeerState
  <2> DEFINE p == [code |-> "messages", batch |-> peer[l].bundle, errors |-> {}]
  <2>2. p \in Packet
    BY <2>1, Zenon DEF Packet
  <2>3. CASE Open(l)
    <3>1. wire' = [wire EXCEPT ![l] = Append(@, p)]
      BY <1>3, <2>3, Zenon DEF WriteBundle
    <3> HIDE DEF p
    <3>2. wire' \in [Link -> Seq(Packet)]
      BY <2>2, <3>1, WireTypes, Zenon
    <3>3. peer' \in [Link -> PeerState]
      BY <1>1, <1>3, <2>1, <2>3, Zenon DEF WriteBundle
    <3>4. written' \in [Link -> SUBSET Envelope]
      <4>1. written' = [written EXCEPT ![l] = @ \cup peer[l].bundle]
        BY <1>3, <2>3, Zenon DEF WriteBundle
      <4> QED  BY <2>1, <4>1, Zenon DEF GossipTypes
    <3>5. UNCHANGED <<network, now, pool, sending, sent, pooledEver, declined, acked>>
      BY <1>3, Zenon DEF WriteBundle
    <3> QED  BY <3>2, <3>3, <3>4, <3>5, Zenon DEF GossipTypes
  <2>4. CASE ~ Open(l)
    <3>1. peer' \in [Link -> PeerState]
      BY <1>1, <1>3, <2>1, <2>4, Zenon DEF WriteBundle
    <3> QED  BY <1>3, <2>4, <3>1, Zenon DEF WriteBundle, GossipTypes
  <2> QED  BY <2>3, <2>4, Zenon
<1>4. CASE MarkBundle(l)
  <2>1. [peer[l] EXCEPT !.update = "idle", !.bundle = {}, !.known = @ \cup peer[l].bundle] \in PeerState
    BY <1>1, Zenon DEF PeerState
  <2>2. peer' \in [Link -> PeerState]
    BY <1>1, <1>4, <2>1, Zenon DEF MarkBundle
  <2> QED  BY <1>4, <2>2, Zenon DEF MarkBundle, GossipTypes
<1>5. CASE ExpireKnown(l)
  <2>1. \A e \in peer[l].known : [peer[l] EXCEPT !.update = "unmark", !.bundle = {e}] \in PeerState
    BY <1>1, Zenon DEF PeerState
  <2>2. peer' \in [Link -> PeerState]
    BY <1>1, <1>5, <2>1 DEF ExpireKnown
  <2> QED  BY <1>5, <2>2, Zenon DEF ExpireKnown, GossipTypes
<1>6. CASE RemoveKnown(l)
  <2>1. [peer[l] EXCEPT !.update = "idle", !.bundle = {}, !.known = @ \ peer[l].bundle] \in PeerState
    BY <1>1, Zenon DEF PeerState
  <2>2. peer' \in [Link -> PeerState]
    BY <1>1, <1>6, <2>1, Zenon DEF RemoveKnown
  <2> QED  BY <1>6, <2>2, Zenon DEF RemoveKnown, GossipTypes
<1> QED  BY <1>2, <1>3, <1>4, <1>5, <1>6, Zenon DEF UpdateStep

(* The pool of a node after Insert. *)
LEMMA InsertEffect ==
    ASSUME GossipTypes, NEW n \in Node, NEW e \in Envelope, NEW c, Insert(n, e, c)
    PROVE  /\ pool' = [k \in Node |-> pool'[k]]
           /\ \A k \in Node : Pooled(k)' = IF k = n THEN Pooled(n) \cup {e} ELSE Pooled(k)
           /\ pooledEver' \in [Node -> SUBSET Envelope]
           /\ \A k \in Node : pooledEver'[k] = IF k = n THEN pooledEver[n] \cup {e} ELSE pooledEver[k]
           /\ pool'[n] = [x \in Pooled(n) \cup {e} |-> IF x \in Pooled(n) THEN pool[n][x] ELSE c]
           /\ \A k \in Node : k # n => pool'[k] = pool[k]
<1>1. pool = [k \in Node |-> pool[k]]
  BY Zenon DEF GossipTypes
<1>2. pool' = [pool EXCEPT ![n] = [x \in DOMAIN pool[n] \cup {e} |->
                                     IF x \in DOMAIN pool[n] THEN pool[n][x] ELSE c]]
  BY <1>1, Zenon DEF Insert
<1>3. /\ pool' = [k \in Node |-> pool'[k]]
      /\ pool'[n] = [x \in DOMAIN pool[n] \cup {e} |-> IF x \in DOMAIN pool[n] THEN pool[n][x] ELSE c]
      /\ \A k \in Node : k # n => pool'[k] = pool[k]
  BY <1>1, <1>2, Zenon
<1>4. \A k \in Node : Pooled(k)' = IF k = n THEN Pooled(n) \cup {e} ELSE Pooled(k)
  BY <1>3, Zenon DEF Pooled
<1>5. /\ pooledEver' \in [Node -> SUBSET Envelope]
      /\ \A k \in Node : pooledEver'[k] = IF k = n THEN pooledEver[n] \cup {e} ELSE pooledEver[k]
  BY Zenon DEF Insert, GossipTypes
<1>6. /\ pool'[n] = [x \in Pooled(n) \cup {e} |-> IF x \in Pooled(n) THEN pool[n][x] ELSE c]
      /\ \A k \in Node : k # n => pool'[k] = pool[k]
  BY <1>3, Zenon DEF Pooled
<1> QED  BY <1>3, <1>4, <1>5, <1>6, Zenon

LEMMA SendingTypes ==
    ASSUME GossipTypes, NEW n \in Node, NEW c \in sending[n]
    PROVE  c.env \in Envelope /\ c.charge \in Uint32
<1>1. sending[n] \subseteq [env : Envelope, charge : Uint32]
  BY Zenon DEF GossipTypes
<1>2. c \in [env : Envelope, charge : Uint32]
  BY <1>1, Zenon
<1> QED  BY <1>2

LEMMA NodeTypes ==
    ASSUME GossipTypes, Tick \/ \E n \in Node : NodeStep(n)
    PROVE  GossipTypes'
<1> USE DEF historyVars, nodeHistory, linkHistory
<1>1. CASE Tick
  BY <1>1 DEF Tick, GossipTypes, Pooled
<1>2. ASSUME NEW n \in Node, ExpirePool(n)
      PROVE  GossipTypes'
  <2>1. pool = [k \in Node |-> pool[k]]
    BY Zenon DEF GossipTypes
  <2>2. /\ pool' = [k \in Node |-> pool'[k]]
        /\ \A k \in Node : Pooled(k)' \subseteq Pooled(k)
    BY <1>2, <2>1, Zenon DEF ExpirePool, Restrict, Pooled
  <2> QED  BY <1>2, <2>2, Zenon DEF ExpirePool, GossipTypes
<1>3. ASSUME NEW n \in Node, NEW e \in Envelope, Send(n, e)
      PROVE  GossipTypes'
  <2>1. ChargedTTL(e, Clock(n)) \in Uint32
    BY ClockTypes, ChargeTypes, Zenon
  <2> DEFINE c == [env |-> e, charge |-> ChargedTTL(e, Clock(n))]
  <2>2. c \in [env : Envelope, charge : Uint32]
    BY <2>1, Zenon
  <2>3. sending' = [sending EXCEPT ![n] = @ \cup {c}]
    BY <1>3, Zenon DEF Send
  <2> HIDE DEF c
  <2>4. sending' \in [Node -> SUBSET [env : Envelope, charge : Uint32]]
    BY <2>2, <2>3, Zenon DEF GossipTypes
  <2>5. sent' \in [Node -> SUBSET Envelope]
    BY <1>3, Zenon DEF Send, GossipTypes
  <2> QED  BY <1>3, <2>4, <2>5, Zenon DEF Send, GossipTypes, Pooled
<1>4. ASSUME NEW n \in Node, NEW c \in sending[n], InsertSent(n, c)
      PROVE  GossipTypes'
  <2>1. /\ c.env \in Envelope
        /\ Insert(n, c.env, c.charge) /\ sending' = [sending EXCEPT ![n] = @ \ {c}]
        /\ UNCHANGED <<network, now, peer, wire, sent, declined, written, acked>>
    BY <1>4, SendingTypes, Zenon DEF InsertSent
  <2>2. /\ pool' = [k \in Node |-> pool'[k]]
        /\ \A k \in Node : Pooled(k)' = IF k = n THEN Pooled(n) \cup {c.env} ELSE Pooled(k)
        /\ pooledEver' \in [Node -> SUBSET Envelope]
    BY <2>1, InsertEffect, Zenon
  <2>3. sending' \in [Node -> SUBSET [env : Envelope, charge : Uint32]]
    BY <2>1, Zenon DEF GossipTypes
  <2>4. \A k \in Node : Pooled(k)' \subseteq Envelope
    BY <2>1, <2>2, Zenon DEF GossipTypes
  <2> QED  BY <2>1, <2>2, <2>3, <2>4, Zenon DEF GossipTypes
<1> QED  BY <1>1, <1>2, <1>3, <1>4, Zenon DEF NodeStep

LEMMA ReadTypes ==
    ASSUME GossipTypes, NEW l \in Link, ReadOversized(l) \/ ReadMessages(l) \/ ReadAck(l)
    PROVE  GossipTypes'
<1> USE DEF historyVars, nodeHistory, linkHistory
<1>1. /\ peer[l] \in PeerState /\ peer \in [Link -> PeerState]
      /\ Reverse(l) \in Link /\ wire[Reverse(l)] # << >>
      /\ wire' = [wire EXCEPT ![Reverse(l)] = Tail(@)]
      /\ UNCHANGED <<network, now, pool, sending, sent, pooledEver, declined, written>>
  BY Ends, Zenon DEF GossipTypes, ReadOversized, ReadMessages, ReadAck, Reading, Consumed
<1>2. wire' \in [Link -> Seq(Packet)] /\ Incoming(l) \in Packet
  BY <1>1, WireTypes, Zenon DEF Incoming
<1>3. Incoming(l).batch \subseteq Envelope
  BY <1>2, Zenon DEF Packet
<1>4. peer' \in [Link -> PeerState] /\ acked' \in [Link -> SUBSET Packet]
  <2>1. CASE ReadOversized(l)
    <3>1. [peer[l] EXCEPT !.loop = "quit"] \in PeerState
      BY <1>1, Zenon DEF PeerState
    <3> QED  BY <1>1, <2>1, <3>1, Zenon DEF ReadOversized, GossipTypes
  <2>2. CASE ReadMessages(l)
    <3>1. [peer[l] EXCEPT !.loop = "add", !.batch = Incoming(l).batch,
                          !.todo = Incoming(l).batch] \in PeerState
      BY <1>1, <1>3, Zenon DEF PeerState
    <3> QED  BY <1>1, <2>2, <3>1, Zenon DEF ReadMessages, GossipTypes
  <2>3. CASE ReadAck(l)
    BY <1>1, <1>2, <2>3, Zenon DEF ReadAck, GossipTypes
  <2> QED  BY <2>1, <2>2, <2>3, Zenon
<1> QED  BY <1>1, <1>2, <1>4, Zenon DEF GossipTypes, Pooled

LEMMA AddTypes ==
    ASSUME GossipTypes, NEW l \in Link, NEW e \in Envelope, AddNext(l, e)
    PROVE  GossipTypes'
<1> USE DEF historyVars, nodeHistory, linkHistory
<1> DEFINE n == l[1]
           admitted == Admitted(e, Clock(n), SettingsOf[n])
           refused == Refused(e, Clock(n), SettingsOf[n])
           charge == IF admitted THEN ChargedTTL(e, Clock(n)) ELSE 0
           errors == IF refused THEN peer[l].errors \cup {e} ELSE peer[l].errors
           loop == IF admitted THEN "insert" ELSE "mark"
           trouble == peer[l].trouble \/ (refused /\ ~ IsTimeSyncError(AddError(e, n)))
           q == [peer[l] EXCEPT !.cur = e, !.loop = loop, !.charge = charge, !.errors = errors,
                                !.trouble = trouble]
<1>1. peer[l] \in PeerState /\ peer \in [Link -> PeerState] /\ l[1] \in Node
  BY Ends, Zenon DEF GossipTypes
<1>2. /\ peer' = [peer EXCEPT ![l] = q]
      /\ declined' = IF admitted THEN declined ELSE [declined EXCEPT ![n] = @ \cup {e}]
      /\ UNCHANGED <<network, now, pool, sending, wire, sent, pooledEver, written, acked>>
  BY <1>1, Zenon DEF AddNext
<1>3. charge \in Uint32
  BY <1>1, ChargeTypes, ClockTypes, NoCharge, Zenon
<1>4. /\ loop \in {"read", "add", "insert", "mark", "quit"} /\ trouble \in BOOLEAN
      /\ errors \subseteq Envelope
  <2>1. errors \subseteq Envelope
    BY <1>1, Zenon DEF PeerState
  <2>2. trouble \in BOOLEAN
    BY Zenon
  <2> QED  BY <2>1, <2>2, Zenon
<1> HIDE DEF charge, loop, trouble, errors
<1>5. q \in PeerState
  BY <1>1, <1>3, <1>4, Zenon DEF PeerState
<1> HIDE DEF q, admitted
<1>6. peer' \in [Link -> PeerState]
  BY <1>1, <1>2, <1>5, Zenon
<1>7. declined' \in [Node -> SUBSET Envelope]
  BY <1>1, <1>2, Zenon DEF GossipTypes
<1> QED  BY <1>2, <1>6, <1>7, Zenon DEF GossipTypes, Pooled

LEMMA LoopTypes ==
    ASSUME GossipTypes, NEW l \in Link, InsertNext(l) \/ MarkNext(l) \/ FinishBundle(l),
           peer[l].loop \in {"insert", "mark"} => peer[l].cur \in Envelope
    PROVE  GossipTypes'
<1> USE DEF historyVars, nodeHistory, linkHistory
<1>1. peer[l] \in PeerState /\ peer \in [Link -> PeerState] /\ l[1] \in Node
  BY Ends, Zenon DEF GossipTypes
<1>2. CASE InsertNext(l)
  <2> DEFINE cached == TRUE
             charge == 0
             q == [peer[l] EXCEPT !.loop = "mark", !.cached = cached, !.charge = charge]
  <2>0. cached \in BOOLEAN /\ charge \in Uint32
    BY NoCharge, Zenon
  <2>1. peer' = [peer EXCEPT ![l] = q]
    BY <1>1, <1>2, Zenon DEF InsertNext
  <2> HIDE DEF cached, charge
  <2>2. q \in PeerState
    BY <1>1, <2>0, Zenon DEF PeerState
  <2> HIDE DEF q
  <2>3. peer' \in [Link -> PeerState]
    BY <1>1, <2>1, <2>2, Zenon
  <2>4. peer[l].cur \in Envelope
    BY <1>2, Zenon DEF InsertNext
  <2>5. /\ pool' = [k \in Node |-> pool'[k]]
        /\ \A k \in Node : Pooled(k)' \subseteq Pooled(k) \cup {peer[l].cur}
        /\ pooledEver' \in [Node -> SUBSET Envelope]
    <3>1. PICK n \in Node : n = l[1]
      BY Ends, Zenon
    <3>2. PICK c : Insert(n, peer[l].cur, c)
      BY <1>2, <3>1, Zenon DEF InsertNext
    <3>3. /\ pool' = [k \in Node |-> pool'[k]]
          /\ \A k \in Node : Pooled(k)' = IF k = n THEN Pooled(n) \cup {peer[l].cur} ELSE Pooled(k)
          /\ pooledEver' \in [Node -> SUBSET Envelope]
      BY <2>4, <3>2, InsertEffect, Zenon
    <3> QED  BY <3>3, Zenon
  <2>6. UNCHANGED <<network, now, sending, wire, sent, declined, written, acked>>
    BY <1>2, Zenon DEF InsertNext
  <2> QED  BY <2>3, <2>4, <2>5, <2>6, Zenon DEF GossipTypes
<1>3. CASE MarkNext(l)
  <2> DEFINE known == IF peer[l].cached THEN peer[l].known \cup {peer[l].cur} ELSE peer[l].known
             q == [peer[l] EXCEPT !.loop = "add", !.cur = NoEnvelope, !.cached = FALSE,
                                  !.todo = @ \ {peer[l].cur}, !.known = known]
  <2>1. peer' = [peer EXCEPT ![l] = q]
    BY <1>1, <1>3, Zenon DEF MarkNext
  <2>2. known \subseteq Envelope
    BY <1>1, <1>3, Zenon DEF MarkNext, PeerState
  <2> HIDE DEF known
  <2>3. q \in PeerState
    BY <1>1, <2>2, Zenon DEF PeerState
  <2> HIDE DEF q
  <2>4. peer' \in [Link -> PeerState]
    BY <1>1, <2>1, <2>3
  <2> QED  BY <1>3, <2>4, Zenon DEF MarkNext, GossipTypes, Pooled
<1>4. CASE FinishBundle(l)
  <2> DEFINE c == [code |-> "response", batch |-> peer[l].batch, errors |-> peer[l].errors]
             confirm == IF l[1] \in network.confirming THEN peer[l].confirm \cup {c}
                        ELSE peer[l].confirm
             loop == IF peer[l].trouble THEN "quit" ELSE "read"
             q == [peer[l] EXCEPT !.loop = loop, !.batch = {}, !.errors = {}, !.trouble = FALSE,
                                  !.confirm = confirm]
  <2>1. peer' = [peer EXCEPT ![l] = q]
    BY <1>1, <1>4, Zenon DEF FinishBundle
  <2>2. c \in Packet
    BY <1>1, Zenon DEF PeerState, Packet
  <2> HIDE DEF c
  <2>3. confirm \subseteq Packet /\ loop \in {"read", "add", "insert", "mark", "quit"}
    BY <1>1, <2>2, Zenon DEF PeerState
  <2> HIDE DEF confirm, loop
  <2>4. q \in PeerState
    BY <1>1, <2>3, Zenon DEF PeerState
  <2> HIDE DEF q
  <2>5. peer' \in [Link -> PeerState]
    BY <1>1, <2>1, <2>4
  <2> QED  BY <1>4, <2>5, Zenon DEF FinishBundle, GossipTypes, Pooled
<1> QED  BY <1>2, <1>3, <1>4, Zenon

LEMMA ConnectionTypes ==
    ASSUME GossipTypes, NEW l \in Link, ConfirmStep(l) \/ Disconnect(l) \/ Connect(l)
    PROVE  GossipTypes'
<1> USE DEF historyVars, nodeHistory, linkHistory
<1>1. peer[l] \in PeerState /\ peer \in [Link -> PeerState] /\ Reverse(l) \in Link
  BY Ends, Zenon DEF GossipTypes
<1>2. CASE ConfirmStep(l)
  <2>1. PICK c \in peer[l].confirm : SendConfirmation(l, c)
    BY <1>2, Zenon DEF ConfirmStep
  <2>2. c \in Packet
    BY <1>1, Zenon DEF PeerState
  <2> DEFINE ack == [code |-> "batchAck", batch |-> c.batch, errors |-> {}]
             confirm == IF c.code = "response" THEN (peer[l].confirm \ {c}) \cup {ack}
                        ELSE peer[l].confirm \ {c}
             q == [peer[l] EXCEPT !.confirm = confirm]
  <2>3. peer' = [peer EXCEPT ![l] = q]
    BY <1>1, <2>1, Zenon DEF SendConfirmation
  <2>4. ack \in Packet
    BY <2>2, Zenon DEF Packet
  <2> HIDE DEF ack
  <2>5. confirm \subseteq Packet
    BY <1>1, <2>4, Zenon DEF PeerState
  <2> HIDE DEF confirm
  <2>6. q \in PeerState
    BY <1>1, <2>5, Zenon DEF PeerState
  <2> HIDE DEF q
  <2>7. peer' \in [Link -> PeerState]
    BY <1>1, <2>3, <2>6, Zenon
  <2>8. wire' \in [Link -> Seq(Packet)]
    <3>1. wire' = wire \/ wire' = [wire EXCEPT ![l] = Append(@, c)]
      BY <2>1, Zenon DEF SendConfirmation
    <3>2. wire \in [Link -> Seq(Packet)]
      BY Zenon DEF GossipTypes
    <3>3. [wire EXCEPT ![l] = Append(@, c)] \in [Link -> Seq(Packet)]
      BY <2>2, WireTypes, Zenon
    <3> QED  BY <3>1, <3>2, <3>3, Zenon
  <2>9. UNCHANGED <<network, now, pool, sending, sent, pooledEver, declined, written, acked>>
    BY <2>1, Zenon DEF SendConfirmation
  <2> QED  BY <2>7, <2>8, <2>9, Zenon DEF GossipTypes, Pooled
<1>3. CASE Disconnect(l)
  <2>1. /\ peer' \in [Link -> PeerState] /\ wire' \in [Link -> Seq(Packet)]
    BY <1>1, <1>3, PeerTypes DEF Disconnect, GossipTypes
  <2> QED  BY <1>3, <2>1, Zenon DEF Disconnect, GossipTypes, Pooled
<1>4. CASE Connect(l)
  <2>0. wire \in [Link -> Seq(Packet)] /\ << >> \in Seq(Packet)
    BY DEF GossipTypes
  <2>1. /\ peer' = [peer EXCEPT ![l] = NewPeer, ![Reverse(l)] = NewPeer]
        /\ wire' = [wire EXCEPT ![l] = << >>, ![Reverse(l)] = << >>]
    BY <1>4, Zenon DEF Connect
  <2>2. peer' \in [Link -> PeerState]
    BY <1>1, <2>1, PeerTypes, Zenon
  <2>3. wire' \in [Link -> Seq(Packet)]
    BY <1>1, <2>0, <2>1, Zenon
  <2>4. /\ written' \in [Link -> SUBSET Envelope] /\ acked' \in [Link -> SUBSET Packet]
    BY <1>1, <1>4, Zenon DEF Connect, GossipTypes
  <2> QED  BY <1>4, <2>2, <2>3, <2>4, Zenon DEF Connect, GossipTypes, Pooled
<1> QED  BY <1>2, <1>3, <1>4, Zenon

-----------------------------------------------------------------------------
(* The message loop works on an envelope of the bundle it has read, and on no
   bundle between two of them. *)
LoopInv ==
    \A l \in Link :
        /\ IF peer[l].loop \in {"insert", "mark"} THEN peer[l].cur \in peer[l].todo
                                               ELSE peer[l].cur = NoEnvelope
        /\ peer[l].todo \cup peer[l].errors \subseteq peer[l].batch
        /\ peer[l].loop \in {"read", "quit"} => peer[l].batch = {}

LEMMA GossipTypesNext ==
    ASSUME GossipTypes, LoopInv, [Next]_vars
    PROVE  GossipTypes'
<1>1. CASE UNCHANGED vars
  BY <1>1, Zenon DEF vars, GossipTypes, historyVars, nodeHistory, linkHistory, Pooled
<1>2. \A l \in Link : peer[l].loop \in {"insert", "mark"} => peer[l].cur \in Envelope
  BY Zenon DEF GossipTypes, LoopInv, PeerState
<1> QED
  BY <1>1, <1>2, NodeTypes, UpdateTypes, ReadTypes, AddTypes, LoopTypes, ConnectionTypes, Zenon
  DEF Next, LoopStep

(* What the steps do to the Peer object, for the parts of it that matter. *)
SameLoop(p, q) ==
    /\ q.loop = p.loop /\ q.batch = p.batch /\ q.todo = p.todo /\ q.cur = p.cur
    /\ q.errors = p.errors /\ q.up = p.up
SameUpdate(p, q) == q.update = p.update /\ q.bundle = p.bundle /\ q.up = p.up

UpdateChange(l, p, q) ==
    /\ SameLoop(p, q) /\ q.confirm = p.confirm
    /\ \/ ChooseBundle(l) /\ q.update = "write" /\ q.bundle = Wanted(l) /\ q.known = p.known
       \/ /\ WriteBundle(l) /\ p.update = "write" /\ q.known = p.known
          /\ \/ Open(l) /\ q.update = "mark" /\ q.bundle = p.bundle
             \/ ~ Open(l) /\ q.update = "dead" /\ q.bundle = {}
       \/ /\ MarkBundle(l) /\ p.update = "mark" /\ q.update = "idle" /\ q.bundle = {}
          /\ q.known = p.known \cup p.bundle
       \/ /\ ExpireKnown(l) /\ p.update = "idle" /\ q.update = "unmark" /\ q.known = p.known
          /\ \A e \in q.bundle : e \notin Pooled(l[1])
       \/ /\ RemoveKnown(l) /\ p.update = "unmark" /\ q.update = "idle" /\ q.bundle = {}
          /\ q.known = p.known \ p.bundle

LEMMA UpdateEffect ==
    ASSUME GossipTypes, NEW l \in Link, UpdateStep(l) \/ ExpireKnown(l)
    PROVE  UpdateChange(l, peer[l], peer'[l])
<1> SUFFICES ASSUME NEW p, p = peer[l], NEW q, q = peer'[l]
             PROVE  UpdateChange(l, p, q)
  BY Zenon
<1> USE DEF UpdateChange
<1>1. peer \in [Link -> PeerState]
  BY Zenon DEF GossipTypes
<1>2. CASE ChooseBundle(l)
  <2>1. q = [p EXCEPT !.update = "write", !.bundle = Wanted(l)]
    BY <1>1, <1>2, Zenon DEF ChooseBundle
  <2>2. SameLoop(p, q) /\ q.confirm = p.confirm /\ q.update = "write" /\ q.bundle = Wanted(l)
        /\ q.known = p.known
    BY <1>1, <2>1 DEF SameLoop, PeerState
  <2> QED  BY <1>2, <2>2, Zenon
<1>3. CASE WriteBundle(l)
  BY <1>1, <1>3 DEF WriteBundle, SameLoop, PeerState
<1>4. CASE MarkBundle(l)
  BY <1>1, <1>4 DEF MarkBundle, SameLoop, PeerState
<1>5. CASE ExpireKnown(l)
  <2>1. PICK e \in p.known : e \notin Pooled(l[1]) /\ q = [p EXCEPT !.update = "unmark", !.bundle = {e}]
    BY <1>1, <1>5, Zenon DEF ExpireKnown
  <2>2. SameLoop(p, q) /\ q.confirm = p.confirm /\ q.update = "unmark" /\ q.bundle = {e}
        /\ q.known = p.known
    BY <1>1, <2>1 DEF SameLoop, PeerState
  <2>3. p.update = "idle"
    BY <1>5, Zenon DEF ExpireKnown
  <2> QED  BY <1>5, <2>1, <2>2, <2>3, Zenon
<1>6. CASE RemoveKnown(l)
  BY <1>1, <1>6 DEF RemoveKnown, SameLoop, PeerState
<1> QED  BY <1>2, <1>3, <1>4, <1>5, <1>6, Zenon DEF UpdateStep

LoopChange(l, p, q) ==
    /\ SameUpdate(p, q)
    /\ \/ /\ ReadOversized(l) /\ p.loop = "read" /\ q.loop = "quit" /\ q.batch = p.batch
          /\ q.todo = p.todo /\ q.errors = p.errors /\ q.known = p.known
          /\ q.confirm = p.confirm /\ q.cur = p.cur
       \/ /\ ReadMessages(l) /\ p.loop = "read" /\ q.loop = "add" /\ q.batch = Incoming(l).batch
          /\ q.todo = Incoming(l).batch /\ q.errors = p.errors /\ q.known = p.known
          /\ q.confirm = p.confirm /\ q.cur = p.cur
       \/ ReadAck(l) /\ q = p
       \/ /\ InsertNext(l) /\ p.loop = "insert" /\ q.loop = "mark" /\ q.batch = p.batch
          /\ q.todo = p.todo /\ q.errors = p.errors /\ q.known = p.known
          /\ q.confirm = p.confirm /\ q.cur = p.cur
       \/ /\ MarkNext(l) /\ p.loop = "mark" /\ q.loop = "add" /\ q.batch = p.batch
          /\ q.todo = p.todo \ {p.cur} /\ q.errors = p.errors
          /\ q.known \in {p.known, p.known \cup {p.cur}} /\ q.confirm = p.confirm
          /\ q.cur = NoEnvelope
       \/ /\ FinishBundle(l) /\ p.loop = "add" /\ p.todo = {} /\ q.loop \in {"quit", "read"}
          /\ q.batch = {} /\ q.todo = p.todo /\ q.errors = {} /\ q.known = p.known
          /\ q.cur = p.cur
          /\ q.confirm \subseteq p.confirm \cup
                 {[code |-> "response", batch |-> p.batch, errors |-> p.errors]}
       \/ \E e \in Envelope :
             /\ AddNext(l, e) /\ p.loop = "add" /\ e \in p.todo /\ q.cur = e
             /\ q.loop \in {"insert", "mark"} /\ q.batch = p.batch /\ q.todo = p.todo
             /\ q.errors \in {p.errors, p.errors \cup {e}} /\ q.known = p.known
             /\ q.confirm = p.confirm
             /\ q.loop = "mark" =>
                   /\ ~ Admitted(e, Clock(l[1]), SettingsOf[l[1]])
                   /\ e \in q.errors \/ Dropped(e, Clock(l[1]))
             /\ e \in q.errors => e \in p.errors \/ q.loop = "mark"

LEMMA LoopEffect ==
    ASSUME GossipTypes, NEW l \in Link, LoopStep(l)
    PROVE  LoopChange(l, peer[l], peer'[l])
<1> SUFFICES ASSUME NEW p, p = peer[l], NEW q, q = peer'[l]
             PROVE  LoopChange(l, p, q)
  BY Zenon
<1> USE DEF LoopChange
<1>1. peer \in [Link -> PeerState]
  BY Zenon DEF GossipTypes
<1>2. CASE ReadOversized(l)
  <2>1. q = [p EXCEPT !.loop = "quit"] /\ p.loop = "read"
    BY <1>1, <1>2, Zenon DEF ReadOversized, Reading
  <2>2. /\ SameUpdate(p, q) /\ q.loop = "quit" /\ q.batch = p.batch /\ q.todo = p.todo
        /\ q.errors = p.errors /\ q.known = p.known /\ q.confirm = p.confirm /\ q.cur = p.cur
    BY <1>1, <2>1, Zenon DEF SameUpdate, PeerState
  <2> QED  BY <1>2, <2>1, <2>2, Zenon
<1>3. CASE ReadMessages(l)
  <2>1. /\ q = [p EXCEPT !.loop = "add", !.batch = Incoming(l).batch, !.todo = Incoming(l).batch]
        /\ p.loop = "read"
    BY <1>1, <1>3, Zenon DEF ReadMessages, Reading
  <2>2. /\ SameUpdate(p, q) /\ q.loop = "add" /\ q.batch = Incoming(l).batch
        /\ q.todo = Incoming(l).batch
        /\ q.errors = p.errors /\ q.known = p.known /\ q.confirm = p.confirm /\ q.cur = p.cur
    BY <1>1, <2>1, Zenon DEF SameUpdate, PeerState
  <2> QED  BY <1>3, <2>1, <2>2, Zenon
<1>4. CASE ReadAck(l)
  BY <1>4, Zenon DEF ReadAck, SameUpdate
<1>5. CASE InsertNext(l)
  BY <1>1, <1>5 DEF InsertNext, SameUpdate, PeerState
<1>6. CASE MarkNext(l)
  BY <1>1, <1>6 DEF MarkNext, SameUpdate, PeerState
<1>7. CASE FinishBundle(l)
  BY <1>1, <1>7 DEF FinishBundle, SameUpdate, PeerState
<1>8. ASSUME NEW e \in Envelope, AddNext(l, e)
      PROVE  /\ SameUpdate(p, q)
             /\ AddNext(l, e) /\ p.loop = "add" /\ e \in p.todo /\ q.cur = e
             /\ q.loop \in {"insert", "mark"} /\ q.batch = p.batch /\ q.todo = p.todo
             /\ q.errors \in {p.errors, p.errors \cup {e}} /\ q.known = p.known
             /\ q.confirm = p.confirm
             /\ q.loop = "mark" =>
                   /\ ~ Admitted(e, Clock(l[1]), SettingsOf[l[1]])
                   /\ e \in q.errors \/ Dropped(e, Clock(l[1]))
             /\ e \in q.errors => e \in p.errors \/ q.loop = "mark"
  BY <1>1, <1>8 DEF AddNext, SameUpdate, PeerState, Refused
<1> QED  BY <1>2, <1>3, <1>4, <1>5, <1>6, <1>7, <1>8, Zenon DEF LoopStep

ConnectionChange(l, p, q) ==
    \/ /\ ConfirmStep(l) /\ SameLoop(p, q) /\ SameUpdate(p, q) /\ q.known = p.known
       /\ \A x \in q.confirm :
             \/ x \in p.confirm
             \/ \E c \in p.confirm :
                   /\ c.code = "response"
                   /\ x = [code |-> "batchAck", batch |-> c.batch, errors |-> {}]
    \/ Disconnect(l) /\ q = NoPeer
    \/ Connect(l) /\ q = NewPeer /\ peer'[Reverse(l)] = NewPeer

LEMMA ConnectionEffect ==
    ASSUME GossipTypes, NEW l \in Link, ConfirmStep(l) \/ Disconnect(l) \/ Connect(l)
    PROVE  ConnectionChange(l, peer[l], peer'[l])
<1> SUFFICES ASSUME NEW p, p = peer[l], NEW q, q = peer'[l]
             PROVE  ConnectionChange(l, p, q)
  BY Zenon
<1> USE DEF ConnectionChange
<1>1. peer \in [Link -> PeerState] /\ Reverse(l) \in Link
  BY Ends, Zenon DEF GossipTypes
<1>2. CASE ConfirmStep(l)
  <2>1. PICK C : /\ q = [p EXCEPT !.confirm = C]
                 /\ \E c \in p.confirm :
                       C = IF c.code = "response"
                           THEN (p.confirm \ {c}) \cup
                                    {[code |-> "batchAck", batch |-> c.batch, errors |-> {}]}
                           ELSE p.confirm \ {c}
    BY <1>1, <1>2, Zenon DEF ConfirmStep, SendConfirmation
  <2>2. SameLoop(p, q) /\ SameUpdate(p, q) /\ q.known = p.known /\ q.confirm = C
    BY <1>1, <2>1 DEF SameLoop, SameUpdate, PeerState
  <2> QED  BY <1>2, <2>1, <2>2, Zenon
<1>3. CASE Disconnect(l)
  BY <1>1, <1>3, Zenon DEF Disconnect
<1>4. CASE Connect(l)
  BY <1>1, <1>4, Zenon DEF Connect
<1> QED  BY <1>2, <1>3, <1>4, Zenon

-----------------------------------------------------------------------------
(* What the steps of a link leave alone, at both of its ends. *)
StepOf(l) ==
    \/ UpdateStep(l) \/ ExpireKnown(l) \/ LoopStep(l) \/ ConfirmStep(l) \/ Disconnect(l)
    \/ Connect(l)

SameEnd(l) ==
    peer'[l] = peer[l] /\ wire'[l] = wire[l] /\ written'[l] = written[l] /\ acked'[l] = acked[l]

LEMMA UpdateFrame ==
    ASSUME GossipTypes, NEW l \in Link, UpdateStep(l) \/ ExpireKnown(l)
    PROVE  /\ \A k \in Link : k # l => SameEnd(k)
           /\ acked' = acked
           /\ UNCHANGED <<network, now, pool, sending, sent, pooledEver, declined>>
           /\ \/ /\ WriteBundle(l) /\ Open(l) /\ written'[l] = written[l] \cup peer[l].bundle
                 /\ wire'[l] = Append(wire[l],
                        [code |-> "messages", batch |-> peer[l].bundle, errors |-> {}])
              \/ ~ (WriteBundle(l) /\ Open(l)) /\ wire'[l] = wire[l] /\ written'[l] = written[l]
<1> USE DEF historyVars, nodeHistory, linkHistory
<1>1. /\ peer \in [Link -> PeerState] /\ wire \in [Link -> Seq(Packet)]
      /\ written \in [Link -> SUBSET Envelope]
  BY Zenon DEF GossipTypes
<1>2. UNCHANGED <<network, now, pool, sending, sent, pooledEver, declined, acked>>
  BY Zenon DEF UpdateStep, ChooseBundle, WriteBundle, MarkBundle, RemoveKnown, ExpireKnown
<1>3. \A k \in Link : k # l => SameEnd(k)
  BY <1>1, <1>2, Zenon DEF UpdateStep, ChooseBundle, WriteBundle, MarkBundle, RemoveKnown, ExpireKnown, SameEnd
<1>4. CASE WriteBundle(l) /\ Open(l)
  <2> DEFINE m == [code |-> "messages", batch |-> peer[l].bundle, errors |-> {}]
  <2>1. wire' = [wire EXCEPT ![l] = Append(@, m)] /\ written' = [written EXCEPT ![l] = @ \cup peer[l].bundle]
    BY <1>4, Zenon DEF WriteBundle
  <2> HIDE DEF m
  <2>2. wire'[l] = Append(wire[l], m) /\ written'[l] = written[l] \cup peer[l].bundle
    BY <1>1, <2>1, Zenon
  <2> QED  BY <1>2, <1>3, <1>4, <2>2, Zenon DEF m
<1>5. CASE ~ (WriteBundle(l) /\ Open(l))
  <2>1. UNCHANGED <<wire, written>>
    BY <1>5, Zenon DEF UpdateStep, ChooseBundle, WriteBundle, MarkBundle, RemoveKnown, ExpireKnown
  <2> QED  BY <1>2, <1>3, <1>5, <2>1, Zenon
<1> QED  BY <1>4, <1>5, Zenon

LEMMA LoopFrame ==
    ASSUME GossipTypes, NEW l \in Link, LoopStep(l)
    PROVE  /\ \A k \in Link : k # l /\ k # Reverse(l) => SameEnd(k)
           /\ peer'[Reverse(l)] = peer[Reverse(l)] /\ wire'[l] = wire[l]
           /\ written' = written /\ acked'[Reverse(l)] = acked[Reverse(l)]
           /\ UNCHANGED <<network, now, sending, sent>>
           /\ \/ /\ ReadOversized(l) \/ ReadMessages(l) \/ ReadAck(l)
                 /\ wire[Reverse(l)] # << >> /\ wire'[Reverse(l)] = Tail(wire[Reverse(l)])
                 /\ UNCHANGED <<pool, pooledEver, declined>>
                 /\ \/ ReadAck(l) /\ acked'[l] = acked[l] \cup {Incoming(l)}
                    \/ ~ ReadAck(l) /\ acked'[l] = acked[l]
              \/ /\ ~ (ReadOversized(l) \/ ReadMessages(l) \/ ReadAck(l))
                 /\ wire' = wire /\ acked' = acked
<1> USE DEF historyVars, nodeHistory, linkHistory
<1>1. /\ peer \in [Link -> PeerState] /\ wire \in [Link -> Seq(Packet)]
      /\ acked \in [Link -> SUBSET Packet]
      /\ Reverse(l) \in Link /\ Reverse(l) # l
  BY Ends, Zenon DEF GossipTypes
<1>2. /\ \A k \in Link : k # l => peer'[k] = peer[k] /\ acked'[k] = acked[k]
      /\ UNCHANGED <<network, now, sending, sent, written>>
  BY <1>1, Zenon DEF LoopStep, ReadOversized, ReadMessages, ReadAck, InsertNext, MarkNext, FinishBundle, AddNext
<1>3. CASE ReadOversized(l) \/ ReadMessages(l) \/ ReadAck(l)
  <2>1. /\ wire' = [wire EXCEPT ![Reverse(l)] = Tail(@)] /\ wire[Reverse(l)] # << >>
        /\ UNCHANGED <<pool, pooledEver, declined>>
    BY <1>3, Zenon DEF ReadOversized, ReadMessages, ReadAck, Consumed, Reading
  <2>2. ReadAck(l) => acked'[l] = acked[l] \cup {Incoming(l)}
    BY <1>1, Zenon DEF ReadAck
  <2>3. ~ ReadAck(l) => acked' = acked
    BY <1>3, Zenon DEF ReadOversized, ReadMessages
  <2>4. wire'[Reverse(l)] = Tail(wire[Reverse(l)]) /\ \A k \in Link : k # Reverse(l) => wire'[k] = wire[k]
    BY <1>1, <2>1, Zenon
  <2>5. written' = written
    BY <1>2, Zenon
  <2> QED  BY <1>1, <1>2, <1>3, <2>1, <2>2, <2>3, <2>4, <2>5, Zenon DEF SameEnd
<1>4. CASE ~ (ReadOversized(l) \/ ReadMessages(l) \/ ReadAck(l))
  <2>1. UNCHANGED <<wire, acked>>
    BY <1>4, Zenon DEF LoopStep, InsertNext, MarkNext, FinishBundle, AddNext
  <2> QED  BY <1>1, <1>2, <1>4, <2>1, Zenon DEF SameEnd
<1> QED  BY <1>3, <1>4, Zenon

LEMMA ConnectionFrame ==
    ASSUME GossipTypes, NEW l \in Link, ConfirmStep(l) \/ Disconnect(l) \/ Connect(l)
    PROVE  /\ \A k \in Link : k # l /\ k # Reverse(l) => SameEnd(k)
           /\ UNCHANGED <<network, now, pool, sending, sent, pooledEver, declined>>
           /\ ~ Connect(l) =>
                 /\ peer'[Reverse(l)] = peer[Reverse(l)] /\ written' = written /\ acked' = acked
           /\ ConfirmStep(l) =>
                 /\ wire'[Reverse(l)] = wire[Reverse(l)]
                 /\ \/ wire'[l] = wire[l]
                    \/ \E c \in peer[l].confirm : wire'[l] = Append(wire[l], c)
           /\ Disconnect(l) => wire'[l] = wire[l] /\ wire'[Reverse(l)] = << >>
           /\ Connect(l) => /\ wire'[l] = << >> /\ wire'[Reverse(l)] = << >>
                            /\ written'[l] = {} /\ written'[Reverse(l)] = {}
                            /\ acked'[l] = {} /\ acked'[Reverse(l)] = {}
<1> USE DEF historyVars, nodeHistory, linkHistory
<1>1. /\ peer \in [Link -> PeerState] /\ wire \in [Link -> Seq(Packet)]
      /\ written \in [Link -> SUBSET Envelope] /\ acked \in [Link -> SUBSET Packet]
      /\ Reverse(l) \in Link /\ Reverse(l) # l
  BY Ends, Zenon DEF GossipTypes
<1>2. UNCHANGED <<network, now, pool, sending, sent, pooledEver, declined>>
  BY Zenon DEF ConfirmStep, SendConfirmation, Disconnect, Connect
<1>3. \A k \in Link : k # l /\ k # Reverse(l) => SameEnd(k)
  BY <1>1, Zenon DEF ConfirmStep, SendConfirmation, Disconnect, Connect, SameEnd
<1>4. ~ Connect(l) => peer'[Reverse(l)] = peer[Reverse(l)] /\ written' = written /\ acked' = acked
  BY <1>1, Zenon DEF ConfirmStep, SendConfirmation, Disconnect
<1>5. ConfirmStep(l) => /\ wire'[Reverse(l)] = wire[Reverse(l)]
                        /\ \/ wire'[l] = wire[l]
                           \/ \E c \in peer[l].confirm : wire'[l] = Append(wire[l], c)
  BY <1>1, Zenon DEF ConfirmStep, SendConfirmation
<1>6. Disconnect(l) => wire'[l] = wire[l] /\ wire'[Reverse(l)] = << >>
  BY <1>1, Zenon DEF Disconnect
<1>7. Connect(l) => /\ wire'[l] = << >> /\ wire'[Reverse(l)] = << >>
                    /\ written'[l] = {} /\ written'[Reverse(l)] = {}
                    /\ acked'[l] = {} /\ acked'[Reverse(l)] = {}
  BY <1>1, Zenon DEF Connect
<1> QED  BY <1>2, <1>3, <1>4, <1>5, <1>6, <1>7, Zenon

(* A connection is changed by the steps of its two ends only. *)
Apart(l) == SameEnd(l) /\ SameEnd(Reverse(l))

LEMMA Actors ==
    ASSUME GossipTypes, [Next]_vars, NEW l \in Link
    PROVE  Apart(l) \/ StepOf(l) \/ StepOf(Reverse(l))
<1> USE DEF historyVars, nodeHistory, linkHistory
<1>1. Reverse(l) \in Link
  BY Ends, Zenon
<1>2. CASE UNCHANGED vars \/ Tick \/ \E n \in Node : NodeStep(n)
  <2>1. UNCHANGED <<peer, wire, written, acked>>
    BY <1>2, Zenon DEF vars, Tick, NodeStep, ExpirePool, Send, InsertSent
  <2> QED  BY <2>1, Zenon DEF Apart, SameEnd
<1>3. ASSUME NEW k \in Link, StepOf(k), k # l, k # Reverse(l)
      PROVE  Apart(l)
  <2>1. l # Reverse(k) /\ Reverse(l) # Reverse(k)
    BY <1>3, Ends, Zenon
  <2> QED  BY <1>1, <1>3, <2>1, UpdateFrame, LoopFrame, ConnectionFrame, Zenon DEF StepOf, Apart
<1> QED  BY <1>1, <1>2, <1>3, Zenon DEF Next, StepOf

LEMMA OtherEnd ==
    ASSUME GossipTypes, NEW l \in Link, StepOf(Reverse(l))
    PROVE  \/ peer'[l] = peer[l] /\ written'[l] = written[l]
           \/ Connect(Reverse(l)) /\ peer'[l] = NewPeer /\ written'[l] = {}
<1>1. PICK r \in Link : r = Reverse(l) /\ Reverse(r) = l /\ r # l
  BY Ends, Zenon
<1>2. CASE UpdateStep(r) \/ ExpireKnown(r)
  BY <1>1, <1>2, UpdateFrame, Zenon DEF SameEnd
<1>3. CASE LoopStep(r)
  BY <1>1, <1>3, LoopFrame, Zenon
<1>4. CASE ConfirmStep(r) \/ Disconnect(r) \/ Connect(r)
  <2>1. Connect(r) => peer'[l] = NewPeer
    <3>1. peer \in [Link -> PeerState]
      BY Zenon DEF GossipTypes
    <3> QED  BY <1>1, <3>1, Zenon DEF Connect
  <2> QED  BY <1>1, <1>4, <2>1, ConnectionFrame
<1> QED  BY <1>1, <1>2, <1>3, <1>4, Zenon DEF StepOf

LEMMA LoopInvNext ==
    ASSUME GossipTypes, LoopInv, [Next]_vars
    PROVE  LoopInv'
<1> SUFFICES ASSUME NEW l \in Link
             PROVE  /\ IF peer'[l].loop \in {"insert", "mark"} THEN peer'[l].cur \in peer'[l].todo
                                                            ELSE peer'[l].cur = NoEnvelope
                    /\ peer'[l].todo \cup peer'[l].errors \subseteq peer'[l].batch
                    /\ peer'[l].loop \in {"read", "quit"} => peer'[l].batch = {}
  BY Zenon DEF LoopInv
<1> DEFINE p == peer[l]
           q == peer'[l]
<1>1. /\ IF p.loop \in {"insert", "mark"} THEN p.cur \in p.todo ELSE p.cur = NoEnvelope
      /\ p.todo \cup p.errors \subseteq p.batch
      /\ p.loop \in {"read", "quit"} => p.batch = {}
      /\ Reverse(l) \in Link /\ Reverse(Reverse(l)) = l /\ Reverse(l) # l
  BY Ends, Zenon DEF LoopInv
<1>2. CASE q = p
  BY <1>1, <1>2, Zenon
<1>3. CASE q = NewPeer \/ q = NoPeer
  BY <1>3 DEF NewPeer, NoPeer
<1>4. CASE SameLoop(p, q)
  BY <1>1, <1>4, Zenon DEF SameLoop
<1>5. CASE LoopStep(l)
  <2> HIDE DEF p, q
  <2>1. ASSUME NEW e \in p.todo, q.cur = e, q.loop \in {"insert", "mark"}, q.batch = p.batch,
               q.todo = p.todo, q.errors \in {p.errors, p.errors \cup {e}}
        PROVE  /\ q.cur \in q.todo /\ q.todo \cup q.errors \subseteq q.batch
               /\ q.loop \notin {"read", "quit"}
    BY <1>1, <2>1, Zenon
  <2> QED  BY <1>1, <1>5, <2>1, LoopEffect, Zenon DEF p, q, LoopChange
<1>6. StepOf(l) => q = p \/ q = NewPeer \/ q = NoPeer \/ SameLoop(p, q) \/ LoopStep(l)
  BY UpdateEffect, ConnectionEffect, Zenon DEF StepOf, UpdateChange, ConnectionChange
<1>7. StepOf(Reverse(l)) => q = p \/ q = NewPeer
  BY OtherEnd, Zenon
<1>8. Apart(l) => q = p
  BY Zenon DEF Apart, SameEnd
<1> QED  BY <1>2, <1>3, <1>4, <1>5, <1>6, <1>7, <1>8, Actors, Zenon

(***************************************************************************)
(* What stays true of an envelope e at node n: pooled until it expires,    *)
(* and, once add has settled its case, settled.                            *)
(***************************************************************************)
Alive(n, e) == e \in Pooled(n) \/ Expired(e, Clock(n))
Settled(n, e) == e \in Pooled(n) \cup declined[n] \/ Expired(e, Clock(n))
Processed(n, e, errors) ==
    /\ e \in pooledEver[n] \cup declined[n]
    /\ e \in errors \cup pooledEver[n] \/ Expired(e, Clock(n))

LEMMA ClockGrows ==
    ASSUME GossipTypes, [Next]_vars, NEW n \in Node, NEW e \in Envelope, Expired(e, Clock(n))
    PROVE  Expired(e, Clock(n)')
<1>1. network' = network /\ (now' = now \/ now' = now + 1)
  <2>1. CASE \E l \in Link : StepOf(l)
    BY <2>1, UpdateFrame, LoopFrame, ConnectionFrame, Zenon DEF StepOf
  <2>2. CASE UNCHANGED vars \/ Tick \/ \E k \in Node : NodeStep(k)
    BY <2>2, Zenon DEF vars, Tick, NodeStep, ExpirePool, Send, InsertSent
  <2> QED  BY <2>1, <2>2, Zenon DEF Next, StepOf
<1>2. now \in Nat /\ network.skew[n] \in Nat /\ e.expiry \in Int
  BY NodeAssumption, EnvelopeAssumption, WordAssumption DEF GossipTypes, EnvelopeOver, Uint32
<1>3. e.expiry < now + network.skew[n]
  BY Zenon DEF Expired, Clock
<1>4. e.expiry < now' + network'.skew[n]
  BY <1>1, <1>2, <1>3
<1> QED  BY <1>4, Zenon DEF Expired, Clock

LEMMA NodeKeeps ==
    ASSUME GossipTypes, LoopInv, [Next]_vars, NEW n \in Node
    PROVE  /\ \A e \in Pooled(n) : e \in Pooled(n)' \/ Expired(e, Clock(n))
           /\ pooledEver[n] \subseteq pooledEver'[n] /\ declined[n] \subseteq declined'[n]
<1> USE DEF historyVars, nodeHistory, linkHistory
<1>1. CASE UNCHANGED <<pool, pooledEver, declined>>
  BY <1>1, Zenon DEF Pooled
<1>2. ASSUME NEW k \in Node, ExpirePool(k)
      PROVE  /\ \A e \in Pooled(n) : e \in Pooled(n)' \/ Expired(e, Clock(n))
             /\ UNCHANGED <<pooledEver, declined>>
  <2>1. pool = [i \in Node |-> pool[i]]
    BY Zenon DEF GossipTypes
  <2> QED  BY <1>2, <2>1, Zenon DEF ExpirePool, Restrict, Pooled
<1>3. ASSUME NEW k \in Node, NEW e \in Envelope, NEW c, Insert(k, e, c), UNCHANGED declined
      PROVE  Pooled(n) \subseteq Pooled(n)' /\ pooledEver[n] \subseteq pooledEver'[n]
  BY <1>3, InsertEffect, Zenon
<1>4. ASSUME NEW l \in Link, NEW e \in Envelope, AddNext(l, e)
      PROVE  UNCHANGED <<pool, pooledEver>> /\ declined[n] \subseteq declined'[n]
  BY <1>4, Ends, Zenon DEF AddNext, GossipTypes
<1>5. ASSUME NEW l \in Link, InsertNext(l)
      PROVE  /\ Pooled(n) \subseteq Pooled(n)' /\ pooledEver[n] \subseteq pooledEver'[n]
             /\ UNCHANGED declined
  <2>1. peer[l].cur \in Envelope /\ l[1] \in Node
    BY <1>5, Ends, Zenon DEF InsertNext, LoopInv, GossipTypes, PeerState
  <2> QED  BY <1>3, <1>5, <2>1, Zenon DEF InsertNext
<1>6. ASSUME NEW l \in Link, StepOf(l), ~ InsertNext(l), \A e \in Envelope : ~ AddNext(l, e)
      PROVE  UNCHANGED <<pool, pooledEver, declined>>
  <2>1. LoopStep(l) => UNCHANGED <<pool, pooledEver, declined>>
    BY <1>6, Zenon DEF LoopStep, ReadOversized, ReadMessages, ReadAck, MarkNext, FinishBundle
  <2> QED  BY <1>6, <2>1, UpdateFrame, ConnectionFrame, Zenon DEF StepOf
<1>7. CASE UNCHANGED vars \/ Tick
  BY <1>1, <1>7, Zenon DEF vars, Tick
<1>8. ASSUME NEW k \in Node, NEW e \in Envelope, Send(k, e)
      PROVE  UNCHANGED <<pool, pooledEver, declined>>
  BY <1>8, Zenon DEF Send
<1>9. ASSUME NEW k \in Node, NEW c \in sending[k], InsertSent(k, c)
       PROVE  /\ Pooled(n) \subseteq Pooled(n)' /\ pooledEver[n] \subseteq pooledEver'[n]
              /\ UNCHANGED declined
  <2>1. c.env \in Envelope
    BY <1>9, SendingTypes, Zenon
  <2> QED  BY <1>3, <1>9, <2>1, Zenon DEF InsertSent
<1> DEFINE kept == /\ \A e \in Pooled(n) : e \in Pooled(n)' \/ Expired(e, Clock(n))
                   /\ pooledEver[n] \subseteq pooledEver'[n] /\ declined[n] \subseteq declined'[n]
<1>10. ASSUME NEW l \in Link, StepOf(l)
      PROVE  kept
  <2>1. CASE \E e \in Envelope : AddNext(l, e)
    BY <1>4, <2>1, Zenon DEF Pooled
  <2>2. CASE InsertNext(l)
    BY <1>5, <2>2, Zenon
  <2> QED  BY <1>1, <1>6, <1>10, <2>1, <2>2, Zenon
<1>11. ASSUME NEW k \in Node, NodeStep(k)
       PROVE  kept
  BY <1>1, <1>2, <1>8, <1>11, <1>9, Zenon DEF NodeStep
<1> HIDE DEF kept
<1>12. kept
  BY <1>1, <1>7, <1>10, <1>11, Zenon DEF Next, StepOf, kept
<1> QED  BY <1>12, Zenon DEF kept

LEMMA Keeps ==
    ASSUME GossipTypes, LoopInv, [Next]_vars, NEW n \in Node, NEW e \in Envelope
    PROVE  /\ Alive(n, e) => Alive(n, e)'
           /\ Settled(n, e) => Settled(n, e)'
           /\ \A S, T : Processed(n, e, S) /\ S \subseteq T => Processed(n, e, T)'
<1>1. /\ \A x \in Pooled(n) : x \in Pooled(n)' \/ Expired(x, Clock(n))
      /\ pooledEver[n] \subseteq pooledEver'[n] /\ declined[n] \subseteq declined'[n]
  BY NodeKeeps, Zenon
<1>2. Expired(e, Clock(n)) => Expired(e, Clock(n)')
  BY ClockGrows, Zenon
<1>3. Expired(e, Clock(n)) => Expired(e, Clock(n))'
  BY <1>2, Zenon DEF Expired
<1>4. Alive(n, e) => Alive(n, e)'
  BY <1>1, <1>3, Zenon DEF Alive
<1>5. Settled(n, e) => Settled(n, e)'
  BY <1>1, <1>3, Zenon DEF Settled
<1>6. \A S, T : Processed(n, e, S) /\ S \subseteq T => Processed(n, e, T)'
  BY <1>1, <1>3, Zenon DEF Processed
<1> QED  BY <1>4, <1>5, <1>6, Zenon

(* A packet is among those on a wire. *)
On(s, m) == \E i \in DOMAIN s : s[i] = m

LEMMA OnWire ==
    ASSUME NEW s \in Seq(Packet)
    PROVE  /\ \A m \in Packet : \A x : On(Append(s, m), x) <=> On(s, x) \/ x = m
           /\ s # << >> => \A x : On(s, x) <=> On(Tail(s), x) \/ x = Head(s)
           /\ \A x : ~ On(<< >>, x)
<1>1. ASSUME NEW m \in Packet, NEW x
      PROVE  On(Append(s, m), x) <=> On(s, x) \/ x = m
  <2>1. /\ Len(Append(s, m)) = Len(s) + 1 /\ Append(s, m)[Len(s) + 1] = m /\ Len(s) \in Nat
        /\ \A i \in 1 .. Len(s) : Append(s, m)[i] = s[i]
        /\ DOMAIN Append(s, m) = 1 .. Len(s) + 1 /\ DOMAIN s = 1 .. Len(s)
    OBVIOUS
  <2> DEFINE t == Append(s, m)
  <2> HIDE DEF t
  <2>2. \A i \in 1 .. Len(s) + 1 : i \in 1 .. Len(s) \/ i = Len(s) + 1
    BY <2>1
  <2>3. \A i \in 1 .. Len(s) : i \in 1 .. Len(s) + 1
    BY <2>1
  <2>4. Len(s) + 1 \in 1 .. Len(s) + 1
    BY <2>1
  <2> QED  BY <2>1, <2>2, <2>3, <2>4, Zenon DEF On, t
<1>2. ASSUME s # << >>, NEW x
      PROVE  On(s, x) <=> On(Tail(s), x) \/ x = Head(s)
  <2>1. /\ Len(s) \in Nat \ {0} /\ Tail(s) \in Seq(Packet) /\ Len(Tail(s)) = Len(s) - 1
        /\ \A i \in 1 .. Len(s) - 1 : Tail(s)[i] = s[i + 1]
        /\ DOMAIN Tail(s) = 1 .. Len(s) - 1 /\ DOMAIN s = 1 .. Len(s) /\ Head(s) = s[1]
    BY <1>2
  <2> DEFINE t == Tail(s)
  <2> HIDE DEF t
  <2>2. \A i \in 1 .. Len(s) : i = 1 \/ (i - 1 \in 1 .. Len(s) - 1 /\ i = (i - 1) + 1)
    BY <2>1
  <2>3. \A i \in 1 .. Len(s) - 1 : i + 1 \in 1 .. Len(s)
    BY <2>1
  <2>4. 1 \in 1 .. Len(s)
    BY <2>1
  <2>5. On(s, x) => On(t, x) \/ x = Head(s)
    <3> SUFFICES ASSUME NEW i \in 1 .. Len(s), s[i] = x
                 PROVE  On(t, x) \/ x = Head(s)
      BY <2>1, Zenon DEF On
    <3>1. CASE i = 1
      BY <2>1, <3>1, Zenon
    <3>2. CASE i - 1 \in 1 .. Len(s) - 1 /\ i = (i - 1) + 1
      <4>1. t[i - 1] = x
        BY <2>1, <3>2, Zenon DEF t
      <4> QED  BY <2>1, <3>2, <4>1, Zenon DEF On, t
    <3> QED  BY <2>2, <3>1, <3>2, Zenon
  <2>6. On(t, x) => On(s, x)
    BY <2>1, <2>3, Zenon DEF On, t
  <2>7. x = Head(s) => On(s, x)
    BY <2>1, <2>4, Zenon DEF On
  <2> QED  BY <2>5, <2>6, <2>7, Zenon DEF t
<1>3. \A x : ~ On(<< >>, x)
  BY DEF On
<1> QED  BY <1>1, <1>2, <1>3, Zenon

(* What is sent was pooled, and stays pooled until it expires. *)
Outgoing(p) == {e \in p.bundle : p.update \in {"write", "mark"}}

SourceInv ==
    \A l \in Link : \A e \in Outgoing(peer[l]) \cup written[l] : Alive(l[1], e)

LEMMA SourceNext ==
    ASSUME GossipTypes, GossipTypes', LoopInv, SourceInv, [Next]_vars
    PROVE  SourceInv'
<1> SUFFICES ASSUME NEW l \in Link, NEW e \in Outgoing(peer'[l]) \cup written'[l]
             PROVE  Alive(l[1], e)'
  BY Zenon DEF SourceInv, Outgoing
<1>1. /\ l[1] \in Node /\ e \in Envelope /\ Reverse(l) \in Link /\ Reverse(Reverse(l)) = l
      /\ Reverse(l) # l
  BY Ends, Zenon DEF GossipTypes, PeerState, Outgoing
<1>2. Outgoing(NewPeer) = {} /\ Outgoing(NoPeer) = {}
  BY Zenon DEF NewPeer, NoPeer, Outgoing
<1>3. e \in Outgoing(peer[l]) \cup written[l] \cup Pooled(l[1])
  <2>1. CASE Apart(l)
    BY <2>1, Zenon DEF Apart, SameEnd
  <2>2. CASE StepOf(Reverse(l))
    BY <1>2, <2>2, OtherEnd, Zenon
  <2>3. CASE UpdateStep(l) \/ ExpireKnown(l)
    <3>1. Wanted(l) \subseteq Pooled(l[1])
      BY Zenon DEF Wanted
    <3>2. Outgoing(peer'[l]) \subseteq Wanted(l) \cup Outgoing(peer[l])
      BY <2>3, UpdateEffect, Zenon DEF UpdateChange, Outgoing
    <3>3. written'[l] \subseteq written[l] \cup Outgoing(peer[l])
      <4>1. WriteBundle(l) => peer[l].update = "write"
        BY Zenon DEF WriteBundle
      <4> QED  BY <2>3, <4>1, UpdateFrame, Zenon DEF Outgoing
    <3> QED  BY <3>1, <3>2, <3>3, Zenon
  <2>4. CASE LoopStep(l)
    BY <2>4, LoopEffect, LoopFrame, Zenon DEF SameUpdate, LoopChange, Outgoing
  <2>5. CASE ConfirmStep(l) \/ Disconnect(l) \/ Connect(l)
    <3>1. peer'[l] \in {NewPeer, NoPeer} \/ Outgoing(peer'[l]) = Outgoing(peer[l])
      BY <2>5, ConnectionEffect, Zenon DEF SameUpdate, ConnectionChange, Outgoing
    <3> QED  BY <1>2, <2>5, <3>1, ConnectionFrame, Zenon
  <2> QED  BY <2>1, <2>2, <2>3, <2>4, <2>5, Actors, Zenon DEF StepOf
<1>4. Alive(l[1], e)
  BY <1>3, Zenon DEF SourceInv, Alive
<1> QED  BY <1>1, <1>4, Keeps, Zenon

(* A bundle on the wire, or in the hands of the other side, was written. *)
FlowInv ==
    \A l \in Link :
        /\ peer[l].batch \subseteq written[Reverse(l)]
        /\ \A c \in peer[l].confirm : c.code # "messages"
        /\ \A m : On(wire[l], m) /\ m.code = "messages" => m.batch \subseteq written[l]

LEMMA FlowNext ==
    ASSUME GossipTypes, FlowInv, [Next]_vars
    PROVE  FlowInv'
<1> SUFFICES ASSUME NEW l \in Link
             PROVE  /\ peer'[l].batch \subseteq written'[Reverse(l)]
                    /\ \A c \in peer'[l].confirm : c.code # "messages"
                    /\ \A m : On(wire'[l], m) /\ m.code = "messages" => m.batch \subseteq written'[l]
  BY Zenon DEF FlowInv
<1>1. PICK r \in Link : r = Reverse(l) /\ Reverse(r) = l /\ r # l
  BY Ends, Zenon
<1>2. /\ peer[l].batch \subseteq written[r] /\ \A c \in peer[l].confirm : c.code # "messages"
      /\ \A m : On(wire[l], m) /\ m.code = "messages" => m.batch \subseteq written[l]
      /\ \A m : On(wire[r], m) /\ m.code = "messages" => m.batch \subseteq written[r]
  BY <1>1, Zenon DEF FlowInv
<1>3. /\ peer[l] \in PeerState /\ wire[l] \in Seq(Packet) /\ wire[r] \in Seq(Packet)
      /\ NewPeer.batch = {} /\ NewPeer.confirm = {} /\ NoPeer.batch = {} /\ NoPeer.confirm = {}
  BY Zenon DEF GossipTypes, NewPeer, NoPeer
<1>4. CASE Apart(l)
  BY <1>1, <1>2, <1>4, Zenon DEF Apart, SameEnd
<1>5. CASE UpdateStep(l) \/ ExpireKnown(l)
  <2>1. peer'[l].batch = peer[l].batch /\ peer'[l].confirm = peer[l].confirm
    BY <1>5, UpdateEffect, Zenon DEF UpdateChange, SameLoop
  <2>2. written'[r] = written[r]
    BY <1>1, <1>5, UpdateFrame, Zenon DEF SameEnd
  <2>3. ASSUME NEW m, On(wire'[l], m), m.code = "messages"
        PROVE  m.batch \subseteq written'[l]
    <3>1. CASE wire'[l] = wire[l] /\ written'[l] = written[l]
      BY <1>2, <2>3, <3>1, Zenon
    <3>2. CASE /\ written'[l] = written[l] \cup peer[l].bundle
               /\ wire'[l] = Append(wire[l], [code |-> "messages", batch |-> peer[l].bundle, errors |-> {}])
      <4> DEFINE b == [code |-> "messages", batch |-> peer[l].bundle, errors |-> {}]
      <4>1. b \in Packet /\ b.batch = peer[l].bundle
        BY <1>3, Zenon DEF Packet, PeerState
      <4>2. wire'[l] = Append(wire[l], b)
        BY <3>2, Zenon
      <4> HIDE DEF b
      <4>3. On(wire[l], m) \/ m = b
        BY <1>3, <2>3, <4>1, <4>2, OnWire
      <4> QED  BY <1>2, <2>3, <3>2, <4>1, <4>3, Zenon
    <3> QED  BY <1>5, <3>1, <3>2, UpdateFrame, Zenon
  <2> QED  BY <1>1, <1>2, <2>1, <2>2, <2>3, Zenon
<1>6. CASE LoopStep(l)
  <2>1. wire'[l] = wire[l] /\ written' = written
    BY <1>6, LoopFrame, Zenon
  <2>2. peer'[l].batch \subseteq written[r]
    <3>1. ReadMessages(l) => peer'[l].batch \subseteq written[r]
      <4>1. ReadMessages(l) => Incoming(l).code = "messages" /\ wire[r] # << >>
        BY <1>1, Zenon DEF ReadMessages, Reading
      <4>2. wire[r] # << >> => On(wire[r], Incoming(l))
        BY <1>1, <1>3, OnWire, Zenon DEF Incoming
      <4>3. ReadMessages(l) => peer'[l].batch = Incoming(l).batch
        <5>1. peer \in [Link -> PeerState]
          BY Zenon DEF GossipTypes
        <5> QED  BY <5>1 DEF ReadMessages, PeerState
      <4> QED  BY <1>2, <4>1, <4>2, <4>3, Zenon
    <3>2. ReadMessages(l) \/ peer'[l].batch \in {peer[l].batch, {}}
      BY <1>6, LoopEffect, Zenon DEF LoopChange
    <3> QED  BY <1>2, <3>1, <3>2, Zenon
  <2>3. \A c \in peer'[l].confirm : c.code # "messages"
    <3> DEFINE a == [code |-> "response", batch |-> peer[l].batch, errors |-> peer[l].errors]
    <3>1. a.code = "response"
      BY Zenon
    <3>2. peer'[l].confirm \subseteq peer[l].confirm \cup {a}
      BY <1>6, LoopEffect, Zenon DEF LoopChange
    <3> HIDE DEF a
    <3> QED  BY <1>2, <3>1, <3>2, Zenon
  <2> QED  BY <1>1, <1>2, <2>1, <2>2, <2>3, Zenon
<1>7. CASE ConfirmStep(l) /\ ~ Connect(l)
  <2>1. (SameLoop(peer[l], peer'[l]) \/ peer'[l] = NoPeer) /\ written' = written
    BY <1>7, ConnectionEffect, ConnectionFrame, Zenon DEF ConnectionChange
  <2>2. \A c \in peer'[l].confirm : c.code # "messages"
    <3>1. ASSUME NEW c
          PROVE  [code |-> "batchAck", batch |-> c, errors |-> {}].code # "messages"
      BY Zenon
    <3> QED  BY <1>2, <1>3, <1>7, <3>1, ConnectionEffect, Zenon DEF ConnectionChange
  <2>3. ASSUME NEW m, On(wire'[l], m), m.code = "messages"
        PROVE  m.batch \subseteq written[l]
    <3>1. CASE wire'[l] = wire[l]
      BY <1>2, <2>3, <3>1, Zenon
    <3>2. ASSUME NEW c \in peer[l].confirm, wire'[l] = Append(wire[l], c)
          PROVE  m.batch \subseteq written[l]
      <4>1. c \in Packet /\ c.code # "messages"
        BY <1>2, <1>3, Zenon DEF PeerState
      <4> QED  BY <1>2, <1>3, <2>3, <3>2, <4>1, OnWire
    <3> QED  BY <1>7, <3>1, <3>2, ConnectionFrame, Zenon
  <2> QED  BY <1>1, <1>2, <1>3, <2>1, <2>2, <2>3, Zenon DEF SameLoop
<1>8. CASE Disconnect(l) /\ ~ Connect(l) /\ ~ ConfirmStep(l)
  BY <1>1, <1>2, <1>3, <1>8, ConnectionEffect, ConnectionFrame, Zenon DEF ConnectionChange
<1>9. CASE Connect(l)
  <2>1. peer'[l] = NewPeer
    BY <1>9, ConnectionEffect, <1>1, Zenon DEF ConnectionChange, Connect, GossipTypes
  <2> QED  BY <1>1, <1>3, <1>9, <2>1, ConnectionFrame, OnWire
<1>10. CASE StepOf(r)
  <2>1. CASE UpdateStep(r) \/ ExpireKnown(r)
    <3>1. SameEnd(l)
      BY <1>1, <2>1, UpdateFrame, Zenon
    <3>2. written[r] \subseteq written'[r]
      BY <2>1, UpdateFrame, Zenon
    <3> QED  BY <1>1, <1>2, <3>1, <3>2, Zenon DEF SameEnd
  <2>2. CASE LoopStep(r)
    <3>1. peer'[l] = peer[l] /\ written' = written
      BY <1>1, <2>2, LoopFrame, Zenon
    <3>2. wire'[l] = wire[l] \/ (wire[l] # << >> /\ wire'[l] = Tail(wire[l]))
      BY <1>1, <2>2, LoopFrame, Zenon
    <3>3. \A m : On(wire'[l], m) => On(wire[l], m)
      BY <1>3, <3>2, OnWire
    <3> QED  BY <1>1, <1>2, <3>1, <3>3, Zenon
  <2>3. CASE (ConfirmStep(r) \/ Disconnect(r)) /\ ~ Connect(r)
    <3>1. peer'[l] = peer[l] /\ written' = written
      BY <1>1, <2>3, ConnectionFrame, Zenon
    <3>2. wire'[l] = wire[l] \/ wire'[l] = << >>
      BY <1>1, <2>3, ConnectionFrame, Zenon
    <3> QED  BY <1>1, <1>2, <1>3, <3>1, <3>2, OnWire
  <2>4. CASE Connect(r)
    <3>1. peer'[l] = NewPeer
      <4>1. peer \in [Link -> PeerState]
        BY DEF GossipTypes
      <4> QED  BY <1>1, <2>4, <4>1, Zenon DEF Connect
    <3> QED  BY <1>1, <1>3, <2>4, <3>1, ConnectionFrame, OnWire
  <2> QED  BY <1>10, <2>1, <2>2, <2>3, <2>4, Zenon DEF StepOf
<1> QED  BY <1>1, <1>4, <1>5, <1>6, <1>7, <1>8, <1>9, <1>10, Actors, Zenon DEF StepOf

(* add has settled the case of the envelopes the message loop is done with,
   and of the one it is about to mark; an error means that one was declined. *)
ProcessInv ==
    \A l \in Link :
        /\ peer[l].loop = "mark" =>
              Settled(l[1], peer[l].cur) /\ Processed(l[1], peer[l].cur, peer[l].errors)
        /\ \A e \in peer[l].batch \ peer[l].todo : Processed(l[1], e, peer[l].errors)
        /\ peer[l].errors \subseteq declined[l[1]]

LEMMA ProcessNext ==
    ASSUME GossipTypes, GossipTypes', LoopInv, LoopInv', ProcessInv, [Next]_vars
    PROVE  ProcessInv'
<1> SUFFICES ASSUME NEW l \in Link, NEW n \in Node, n = l[1], NEW q, q = peer'[l]
             PROVE  /\ q.loop = "mark" => Settled(n, q.cur)' /\ Processed(n, q.cur, q.errors)'
                    /\ \A e \in q.batch \ q.todo : Processed(n, e, q.errors)'
                    /\ q.errors \subseteq declined'[n]
  BY Ends, Zenon DEF ProcessInv, Settled, Processed, Pooled
<1>1. PICK p \in PeerState : p = peer[l]
  BY Zenon DEF GossipTypes
<1>2. /\ p.loop = "mark" => Settled(n, p.cur) /\ Processed(n, p.cur, p.errors) /\ p.cur \in Envelope
      /\ \A e \in p.batch \ p.todo : Processed(n, e, p.errors) /\ e \in Envelope
      /\ p.errors \subseteq declined[n]
  BY <1>1, Zenon DEF ProcessInv, LoopInv, PeerState
<1>3. /\ p.todo \cup p.errors \subseteq p.batch
      /\ p.loop \in {"insert", "mark"} => p.cur \in p.todo
      /\ p.loop \in {"read", "quit"} => p.batch = {}
  BY <1>1, Zenon DEF LoopInv
<1>4. declined[n] \subseteq declined'[n]
  BY NodeKeeps, Zenon
<1>5. /\ \A e \in p.batch \ p.todo : \A T : p.errors \subseteq T => Processed(n, e, T)'
      /\ p.loop = "mark" => Settled(n, p.cur)' /\ Processed(n, p.cur, p.errors)'
  BY <1>2, Keeps, Zenon
<1>6. CASE SameLoop(p, q) \/ q = p
  BY <1>2, <1>4, <1>5, <1>6, Zenon DEF SameLoop
<1>7. CASE q = NewPeer \/ q = NoPeer
  BY <1>7 DEF NewPeer, NoPeer
<1>8. CASE LoopStep(l)
  <2>0. LoopChange(l, p, q)
    BY <1>1, <1>8, LoopEffect, Zenon
  <2>1. ASSUME NEW e \in Envelope, AddNext(l, e), p.loop = "add", e \in p.todo, q.cur = e,
               q.loop \in {"insert", "mark"}, q.batch = p.batch, q.todo = p.todo,
               q.errors \in {p.errors, p.errors \cup {e}},
               q.loop = "mark" => /\ ~ Admitted(e, Clock(l[1]), SettingsOf[l[1]])
                                  /\ e \in q.errors \/ Dropped(e, Clock(l[1])),
               e \in q.errors => e \in p.errors \/ q.loop = "mark"
        PROVE  /\ q.loop = "mark" => Settled(n, q.cur)' /\ Processed(n, q.cur, q.errors)'
               /\ \A x \in q.batch \ q.todo : Processed(n, x, q.errors)'
               /\ q.errors \subseteq declined'[n]
    <3>1. q.loop = "mark" => e \in declined'[n]
      BY <2>1, Zenon DEF AddNext, GossipTypes
    <3>2. q.loop = "mark" => Settled(n, e)'
      BY <3>1, Zenon DEF Settled
    <3>3. q.loop = "mark" => e \in q.errors \/ Expired(e, Clock(n)')
      BY <2>1, ClockGrows, Zenon DEF Dropped
    <3>4. Expired(e, Clock(n)') => (Expired(e, Clock(n)))'
      BY Zenon DEF Expired
    <3>5. q.loop = "mark" => Processed(n, e, q.errors)'
      BY <3>1, <3>3, <3>4, Zenon DEF Processed
    <3>6. \A x \in q.batch \ q.todo : Processed(n, x, q.errors)'
      BY <1>5, <2>1, Zenon
    <3>7. q.errors \subseteq declined'[n]
      BY <1>2, <1>4, <2>1, <3>1, Zenon
    <3> QED  BY <2>1, <3>2, <3>5, <3>6, <3>7, Zenon
  <2>2. ASSUME InsertNext(l), p.loop = "insert", q.loop = "mark", q.batch = p.batch,
               q.todo = p.todo, q.errors = p.errors, q.cur = p.cur
        PROVE  /\ Settled(n, q.cur)' /\ Processed(n, q.cur, q.errors)'
               /\ \A x \in q.batch \ q.todo : Processed(n, x, q.errors)'
               /\ q.errors \subseteq declined'[n]
    <3>1. PICK e \in Envelope : e = p.cur
      BY <1>1, <1>3, <2>2, Zenon DEF PeerState
    <3>2. PICK c : Insert(n, e, c)
      BY <1>1, <2>2, <3>1, Zenon DEF InsertNext
    <3>3. Pooled(n)' = Pooled(n) \cup {e} /\ pooledEver'[n] = pooledEver[n] \cup {e}
      BY <3>2, InsertEffect, Zenon
    <3>4. Settled(n, e)' /\ Processed(n, e, q.errors)'
      BY <3>3, Zenon DEF Settled, Processed
    <3> QED  BY <1>2, <1>4, <1>5, <2>2, <3>1, <3>4, Zenon
  <2>3. ASSUME p.loop = "mark", q.loop = "add", q.batch = p.batch, q.todo = p.todo \ {p.cur},
               q.errors = p.errors
        PROVE  /\ q.loop # "mark" /\ q.errors \subseteq declined'[n]
               /\ \A x \in q.batch \ q.todo : Processed(n, x, q.errors)'
    BY <1>2, <1>4, <1>5, <2>3, Zenon
  <2>4. ASSUME q.loop # "mark", q.batch \ q.todo = {}, q.errors \subseteq p.errors
        PROVE  /\ q.errors \subseteq declined'[n]
               /\ \A x \in q.batch \ q.todo : Processed(n, x, q.errors)'
    BY <1>2, <1>4, <2>4, Zenon
  <2>5. CASE ReadOversized(l) /\ q.loop = "quit" /\ q.batch = p.batch /\ p.loop = "read" /\ q.errors = p.errors
    BY <1>3, <2>4, <2>5, Zenon
  <2> QED  BY <1>6, <2>0, <2>1, <2>2, <2>3, <2>4, <2>5, Zenon DEF LoopChange
<1>9. StepOf(l) => q = NewPeer \/ q = NoPeer \/ SameLoop(p, q) \/ LoopStep(l)
  BY <1>1, UpdateEffect, ConnectionEffect, Zenon DEF StepOf, UpdateChange, ConnectionChange
<1>10. StepOf(Reverse(l)) => q = p \/ q = NewPeer
  BY <1>1, OtherEnd, Zenon
<1>11. Apart(l) => q = p
  BY <1>1, Zenon DEF Apart, SameEnd
<1> QED  BY <1>6, <1>7, <1>8, <1>9, <1>10, <1>11, Actors, Zenon

-----------------------------------------------------------------------------
(* What a Peer object counts as known, the bundle about to be marked included. *)
Marked(p) == p.known \cup {e \in p.bundle : p.update = "mark"}

(* An envelope has been written on l, and the other side is not done with it. *)
Carries(s, e) == \E m : On(s, m) /\ m.code = "messages" /\ e \in m.batch
Travels(l, e) == e \in peer[Reverse(l)].todo \/ Carries(wire[l], e)

LEMMA TravelsInFlight ==
    ASSUME GossipTypes, NEW l \in Link, NEW e
    PROVE  Travels(l, e) <=> e \in InFlight(l)
  BY Zenon DEF Travels, Carries, InFlight, On

LEMMA CarriesNext ==
    ASSUME NEW s \in Seq(Packet), NEW e
    PROVE  /\ \A m \in Packet : Carries(s, e) => Carries(Append(s, m), e)
           /\ \A m \in Packet : m.code = "messages" /\ e \in m.batch => Carries(Append(s, m), e)
           /\ s # << >> /\ Carries(s, e) =>
                 Carries(Tail(s), e) \/ (Head(s).code = "messages" /\ e \in Head(s).batch)
  BY OnWire, Zenon DEF Carries

SharedInv ==
    \A l \in Link :
        Open(l) /\ peer[Reverse(l)].loop # "quit" =>
            \A e \in Marked(peer[l]) : Travels(l, e) \/ Settled(l[2], e)

LEMMA SharedNext ==
    ASSUME GossipTypes, GossipTypes', LoopInv, SourceInv, FlowInv, ProcessInv, SharedInv, [Next]_vars
    PROVE  SharedInv'
<1> SUFFICES ASSUME NEW l \in Link, NEW r \in Link, r = Reverse(l), NEW n \in Node, n = l[2],
                    NEW q \in PeerState, q = peer'[l], NEW t \in PeerState, t = peer'[r],
                    q.up, t.up, t.loop # "quit", NEW e \in Marked(q)
             PROVE  e \in t.todo \/ Carries(wire'[l], e) \/ Settled(n, e)'
  <2>1. \A l \in Link : Reverse(l) \in Link /\ l[2] \in Node
    BY Ends, Zenon
  <2>2. peer' \in [Link -> PeerState]
    BY Zenon DEF GossipTypes
  <2> QED  BY <2>1, <2>2, Zenon DEF SharedInv, Open, Travels, Marked, Carries, Settled, On, Pooled
<1>1. PICK p \in PeerState, s \in PeerState : p = peer[l] /\ s = peer[r]
  BY Zenon DEF GossipTypes
<1>2. /\ Reverse(r) = l /\ r # l /\ r[1] = n /\ e \in Envelope
      /\ wire[l] \in Seq(Packet) /\ Open(l) = (p.up /\ s.up)
  BY <1>1, Ends DEF GossipTypes, Marked, PeerState, Open
<1>3. p.up /\ s.up /\ s.loop # "quit" /\ e \in Marked(p) =>
         e \in s.todo \/ Carries(wire[l], e) \/ Settled(n, e)
  BY <1>1, <1>2, Zenon DEF SharedInv, Travels
<1>4. Settled(n, e) => Settled(n, e)'
  BY <1>2, Keeps, Zenon
<1>5. NewPeer.up /\ Marked(NewPeer) = {} /\ ~ NoPeer.up
  BY Zenon DEF NewPeer, NoPeer, Marked
<1>6. CASE Apart(l)
  BY <1>1, <1>3, <1>4, <1>6, Zenon DEF Apart, SameEnd
<1>7. CASE UpdateStep(l) \/ ExpireKnown(l)
  <2>1. UpdateChange(l, p, q) /\ t = s
    BY <1>1, <1>2, <1>7, UpdateEffect, UpdateFrame, Zenon DEF SameEnd
  <2>2. p.up /\ s.up /\ s.loop # "quit"
    BY <2>1, Zenon DEF UpdateChange, SameLoop
  <2> DEFINE b == [code |-> "messages", batch |-> peer[l].bundle, errors |-> {}]
  <2>3. b \in Packet /\ b.code = "messages" /\ b.batch = p.bundle
    BY <1>1, Zenon DEF Packet, PeerState
  <2>4. \/ WriteBundle(l) /\ wire'[l] = Append(wire[l], b)
        \/ ~ WriteBundle(l) /\ wire'[l] = wire[l]
    BY <1>2, <1>7, <2>2, UpdateFrame, Zenon
  <2> HIDE DEF b
  <2>5. e \in Marked(p) \/ (WriteBundle(l) /\ e \in p.bundle)
    BY <1>2, <2>1, <2>2, Zenon DEF UpdateChange, Marked
  <2> DEFINE w == Append(wire[l], b)
  <2>6. (Carries(wire[l], e) => Carries(w, e)) /\ (e \in p.bundle => Carries(w, e))
    BY <1>2, <2>3, CarriesNext, Zenon
  <2> HIDE DEF w
  <2>7. /\ Carries(wire[l], e) => Carries(wire'[l], e)
        /\ WriteBundle(l) /\ e \in p.bundle => Carries(wire'[l], e)
    BY <2>4, <2>6, Zenon DEF w
  <2> QED  BY <1>3, <1>4, <2>1, <2>2, <2>5, <2>7, Zenon
<1>8. CASE LoopStep(l)
  <2>1. LoopChange(l, p, q) /\ t = s /\ wire'[l] = wire[l]
    BY <1>1, <1>2, <1>8, LoopEffect, LoopFrame, Zenon
  <2>2. p.up /\ s.up /\ s.loop # "quit"
    BY <2>1, Zenon DEF LoopChange, SameUpdate
  <2>3. e \in Marked(p) \/ (p.loop = "mark" /\ e = p.cur)
    BY <2>1, Zenon DEF LoopChange, SameUpdate, Marked
  <2>4. p.loop = "mark" /\ e = p.cur => Settled(n, e)
    <3>1. p.loop = "mark" => p.cur \in p.batch
      BY <1>1, Zenon DEF LoopInv
    <3>2. p.batch \subseteq written[r]
      BY <1>1, Zenon DEF FlowInv
    <3>3. \A x \in written[r] : Alive(n, x)
      BY <1>2, Zenon DEF SourceInv
    <3> QED  BY <3>1, <3>2, <3>3, Zenon DEF Alive, Settled
  <2> QED  BY <1>3, <1>4, <2>1, <2>2, <2>3, <2>4, Zenon
<1>9. CASE ConfirmStep(l) /\ ~ Connect(l) /\ ~ Disconnect(l)
  <2>1. SameLoop(p, q) /\ SameUpdate(p, q) /\ q.known = p.known /\ t = s
    BY <1>1, <1>2, <1>9, ConnectionEffect, ConnectionFrame, Zenon DEF ConnectionChange
  <2>2. wire'[l] = wire[l] \/ \E c \in Packet : wire'[l] = Append(wire[l], c)
    <3>1. wire'[l] = wire[l] \/ \E c \in p.confirm : wire'[l] = Append(wire[l], c)
      BY <1>1, <1>9, ConnectionFrame, Zenon
    <3>2. p.confirm \in SUBSET Packet
      BY Zenon DEF PeerState
    <3> QED  BY <3>1, <3>2, Zenon
  <2>3. Carries(wire[l], e) => Carries(wire'[l], e)
    <3>1. \A c \in Packet : Carries(wire[l], e) => Carries(Append(wire[l], c), e)
      BY <1>2, CarriesNext, Zenon
    <3> QED  BY <2>2, <3>1, Zenon
  <2> QED  BY <1>3, <1>4, <2>1, <2>3, Zenon DEF SameUpdate, Marked
<1>10. CASE Disconnect(l) \/ Connect(l)
  <2>1. q = NoPeer \/ q = NewPeer
    BY <1>1, <1>2, <1>10, Zenon DEF Disconnect, Connect, GossipTypes
  <2> QED  BY <1>5, <2>1, Zenon
<1>11. CASE UpdateStep(r) \/ ExpireKnown(r)
  <2>1. UpdateChange(r, s, t) /\ SameEnd(l)
    BY <1>1, <1>2, <1>11, UpdateEffect, UpdateFrame, Zenon
  <2>2. SameLoop(s, t) /\ q = p /\ wire'[l] = wire[l]
    BY <1>1, <2>1, Zenon DEF SameEnd, UpdateChange
  <2> QED  BY <1>3, <1>4, <2>2, Zenon DEF SameLoop
<1>12. CASE LoopStep(r)
  <2>1. LoopChange(r, s, t) /\ q = p
    BY <1>1, <1>2, <1>12, LoopEffect, LoopFrame, Zenon
  <2>2. p.up /\ s.up
    BY <2>1, Zenon DEF LoopChange, SameUpdate
  <2>3. /\ ReadOversized(r) \/ ReadMessages(r) \/ ReadAck(r) =>
              s.loop = "read" /\ wire[l] # << >> /\ wire'[l] = Tail(wire[l])
        /\ ~ (ReadOversized(r) \/ ReadMessages(r) \/ ReadAck(r)) => wire'[l] = wire[l]
    <3>1. ReadOversized(r) \/ ReadMessages(r) \/ ReadAck(r) => s.loop = "read"
      BY <1>1, Zenon DEF ReadOversized, ReadMessages, ReadAck, Reading
    <3> QED  BY <1>2, <1>12, <3>1, LoopFrame, Zenon
  <2>4. CASE ReadMessages(r) /\ t.todo = Incoming(r).batch
    <3>1. s.todo = {} /\ s.loop = "read"
      BY <1>1, <2>3, <2>4, Zenon DEF LoopInv
    <3>2. Carries(wire[l], e) => Carries(wire'[l], e) \/ e \in t.todo
      <4>1. wire[l] # << >> /\ wire'[l] = Tail(wire[l]) /\ t.todo = Head(wire[l]).batch
        BY <1>2, <2>3, <2>4, Zenon DEF Incoming
      <4>2. Carries(wire[l], e) => Carries(Tail(wire[l]), e) \/ e \in Head(wire[l]).batch
        BY <1>2, <4>1, CarriesNext, Zenon
      <4> QED  BY <4>1, <4>2, Zenon
    <3> QED  BY <1>3, <1>4, <2>1, <2>2, <3>1, <3>2, Zenon
  <2>5. CASE ReadAck(r) /\ t = s
    <3>1. Head(wire[l]).code # "messages"
      BY <1>2, <2>5, Zenon DEF ReadAck, Incoming
    <3>2. Carries(wire[l], e) => Carries(wire'[l], e)
      BY <1>2, <2>3, <2>5, <3>1, CarriesNext, Zenon
    <3> QED  BY <1>3, <1>4, <2>1, <2>2, <2>5, <3>2, Zenon
  <2>6. CASE s.loop \in {"add", "insert"} /\ t.todo = s.todo
    <3>1. wire'[l] = wire[l] /\ s.loop # "quit"
      BY <2>3, <2>6, Zenon
    <3> QED  BY <1>3, <1>4, <2>1, <2>2, <2>6, <3>1, Zenon
  <2>7. CASE s.loop = "mark" /\ t.todo = s.todo \ {s.cur}
    <3>1. wire'[l] = wire[l] /\ s.loop # "quit"
      BY <2>3, <2>7, Zenon
    <3>2. Settled(n, s.cur)
      BY <1>1, <1>2, <2>7, Zenon DEF ProcessInv
    <3> QED  BY <1>3, <1>4, <2>1, <2>2, <2>7, <3>1, <3>2, Zenon
  <2> QED  BY <2>1, <2>4, <2>5, <2>6, <2>7, Zenon DEF LoopChange
<1>13. CASE ConfirmStep(r) /\ ~ Connect(r) /\ ~ Disconnect(r)
  <2>1. SameLoop(s, t) /\ q = p /\ wire'[l] = wire[l]
    <3>1. ConnectionChange(r, s, t)
      BY <1>1, <1>2, <1>13, ConnectionEffect, Zenon
    <3>2. peer'[Reverse(r)] = peer[Reverse(r)] /\ wire'[Reverse(r)] = wire[Reverse(r)]
      BY <1>13, ConnectionFrame, Zenon
    <3>3. q = p /\ wire'[l] = wire[l]
      BY <1>1, <1>2, <3>2, Zenon
    <3> QED  BY <1>13, <3>1, <3>3, Zenon DEF ConnectionChange
  <2> QED  BY <1>3, <1>4, <2>1, Zenon DEF SameLoop
<1>14. CASE Disconnect(r) \/ Connect(r)
  <2>1. t = NoPeer \/ q = NewPeer
    BY <1>1, <1>2, <1>14, Zenon DEF Disconnect, Connect, GossipTypes
  <2> QED  BY <1>5, <2>1, Zenon
<1> QED
  BY <1>6, <1>7, <1>8, <1>9, <1>10, <1>11, <1>12, <1>13, <1>14, Actors, Zenon DEF StepOf

-----------------------------------------------------------------------------
(* While a connection lives, what was written on it is marked as known or has
   expired, so that it is chosen again, or its mark removed, only in the
   latter case. *)
OnceInv ==
    \A l \in Link :
        /\ peer[l].up =>
              \A e \in written[l] : e \in Marked(peer[l]) \/ Expired(e, Clock(l[1]))
        /\ peer[l].update \in {"write", "unmark"} =>
              \A e \in peer[l].bundle \cap written[l] : Expired(e, Clock(l[1]))

LEMMA OnceNext ==
    ASSUME GossipTypes, GossipTypes', SourceInv, OnceInv, [Next]_vars
    PROVE  OnceInv'
<1> SUFFICES ASSUME NEW l \in Link, NEW n \in Node, n = l[1], NEW q \in PeerState, q = peer'[l],
                    NEW e \in written'[l], ~ Expired(e, Clock(n)')
             PROVE  /\ q.up => e \in Marked(q)
                    /\ q.update \in {"write", "unmark"} => e \notin q.bundle
  <2>1. \A k \in Link : k[1] \in Node
    BY Ends, Zenon
  <2>2. peer' \in [Link -> PeerState]
    BY Zenon DEF GossipTypes
  <2> QED  BY <2>1, <2>2, Zenon DEF OnceInv, Expired, Marked
<1>1. PICK p \in PeerState : p = peer[l]
  BY Zenon DEF GossipTypes
<1>2. e \in Envelope
  BY Zenon DEF GossipTypes
<1>3. ~ Expired(e, Clock(n))
  BY <1>2, ClockGrows, Zenon
<1>4. e \in written[l] => /\ p.up => e \in Marked(p)
                          /\ p.update \in {"write", "unmark"} => e \notin p.bundle
                          /\ e \in Pooled(n)
  BY <1>1, <1>3, Zenon DEF OnceInv, SourceInv, Alive
<1>5. CASE q = p /\ written'[l] = written[l]
  BY <1>4, <1>5, Zenon
<1>6. CASE UpdateStep(l) \/ ExpireKnown(l)
  <2>1. UpdateChange(l, p, q)
    BY <1>1, <1>6, UpdateEffect, Zenon
  <2>2. q.up = p.up
    BY <2>1, Zenon DEF UpdateChange, SameLoop
  <2>3. CASE WriteBundle(l) /\ p.update = "write" /\ q.known = p.known
             /\ Open(l) /\ q.update = "mark" /\ q.bundle = p.bundle
    <3>1. e \in written[l] \cup p.bundle
      BY <1>1, <1>6, UpdateFrame, Zenon
    <3> QED  BY <1>4, <2>2, <2>3, <3>1, Zenon DEF Marked
  <2>4. ~ (WriteBundle(l) /\ Open(l)) => e \in written[l]
    BY <1>6, UpdateFrame, Zenon
  <2>5. WriteBundle(l) => p.update = "write"
    BY <1>1, Zenon DEF WriteBundle
  <2>6. CASE ChooseBundle(l) /\ q.update = "write" /\ q.bundle = Wanted(l) /\ q.known = p.known
    <3>1. p.up /\ p.update = "idle"
      BY <1>1, <2>6, Zenon DEF ChooseBundle
    <3>2. \A x \in Wanted(l) : x \notin p.known
      BY <1>1, Zenon DEF Wanted
    <3> QED  BY <1>4, <2>2, <2>4, <2>5, <2>6, <3>1, <3>2, Zenon DEF Marked
  <2>7. CASE WriteBundle(l) /\ p.update = "write" /\ q.known = p.known
             /\ ~ Open(l) /\ q.update = "dead" /\ q.bundle = {}
    BY <1>4, <2>2, <2>4, <2>7, Zenon DEF Marked
  <2>8. CASE p.update = "mark" /\ q.update = "idle" /\ q.bundle = {} /\ q.known = p.known \cup p.bundle
    BY <1>4, <2>2, <2>4, <2>5, <2>8, Zenon DEF Marked
  <2>9. CASE p.update = "idle" /\ q.update = "unmark" /\ q.known = p.known
             /\ \A x \in q.bundle : x \notin Pooled(l[1])
    BY <1>4, <2>2, <2>4, <2>5, <2>9, Zenon DEF Marked
  <2>10. CASE p.update = "unmark" /\ q.update = "idle" /\ q.bundle = {} /\ q.known = p.known \ p.bundle
    BY <1>4, <2>2, <2>4, <2>5, <2>10, Zenon DEF Marked
  <2> QED  BY <2>1, <2>3, <2>6, <2>7, <2>8, <2>9, <2>10, Zenon DEF UpdateChange
<1>7. CASE LoopStep(l)
  <2>1. LoopChange(l, p, q) /\ written' = written
    BY <1>1, <1>7, LoopEffect, LoopFrame, Zenon
  <2>2. SameUpdate(p, q) /\ p.known \subseteq q.known
    BY <2>1, Zenon DEF LoopChange
  <2> QED  BY <1>4, <2>1, <2>2, Zenon DEF SameUpdate, Marked
<1>8. CASE ConfirmStep(l) \/ Disconnect(l) \/ Connect(l)
  <2>1. ConnectionChange(l, p, q)
    BY <1>1, <1>8, ConnectionEffect, Zenon
  <2>2. ~ Connect(l) /\ e \in written[l]
    BY <1>8, ConnectionFrame, Zenon
  <2>3. CASE q = NoPeer
    BY <2>3, Zenon DEF NewPeer, NoPeer
  <2>4. CASE SameUpdate(p, q) /\ q.known = p.known
    BY <1>4, <2>2, <2>4, Zenon DEF SameUpdate, Marked
  <2> QED  BY <2>1, <2>2, <2>3, <2>4, Zenon DEF ConnectionChange
<1>9. StepOf(Reverse(l)) => q = p /\ written'[l] = written[l]
  BY <1>1, OtherEnd, Zenon
<1>10. Apart(l) => q = p /\ written'[l] = written[l]
  BY <1>1, Zenon DEF Apart, SameEnd
<1> QED  BY <1>5, <1>6, <1>7, <1>8, <1>9, <1>10, Actors, Zenon DEF StepOf

-----------------------------------------------------------------------------
(* An acknowledgement says the truth when it is made, and from then on. *)
Truthful(l, c) ==
    /\ c.batch \subseteq written[l]
    /\ c.batch \subseteq pooledEver[l[2]] \cup declined[l[2]]
    /\ c.errors \subseteq declined[l[2]]
    /\ c.code = "response" =>
           \A e \in c.batch \ c.errors : e \in pooledEver[l[2]] \/ Expired(e, Clock(l[2]))

TruthInv ==
    \A l \in Link :
        /\ \A c \in acked[l] : Truthful(l, c)
        /\ \A c \in peer[Reverse(l)].confirm : Truthful(l, c)
        /\ \A m : On(wire[Reverse(l)], m) /\ m.code # "messages" => Truthful(l, m)

LEMMA TruthStays ==
    ASSUME GossipTypes, LoopInv, [Next]_vars, NEW l \in Link, NEW c \in Packet,
           written[l] \subseteq written'[l], Truthful(l, c)
    PROVE  Truthful(l, c)'
<1>1. PICK n \in Node : n = l[2]
  BY Ends, Zenon
<1>2. pooledEver[n] \subseteq pooledEver'[n] /\ declined[n] \subseteq declined'[n]
  BY NodeKeeps, Zenon
<1>3. \A e \in c.batch : Expired(e, Clock(n)) => Expired(e, Clock(n)')
  BY ClockGrows, Zenon DEF Packet
<1>4. \A e : Expired(e, Clock(n)') => (Expired(e, Clock(n)))'
  BY Zenon DEF Expired
<1>5. c.batch \subseteq written'[l] /\ c.batch \subseteq pooledEver'[n] \cup declined'[n]
      /\ c.errors \subseteq declined'[n]
  BY <1>1, <1>2, Zenon DEF Truthful
<1>6. c.code = "response" =>
         \A e \in c.batch \ c.errors : e \in pooledEver'[n] \/ (Expired(e, Clock(n)))'
  BY <1>1, <1>2, <1>3, <1>4, Zenon DEF Truthful
<1> QED  BY <1>1, <1>5, <1>6, Zenon DEF Truthful

LEMMA TruthNext ==
    ASSUME GossipTypes, GossipTypes', LoopInv, FlowInv, ProcessInv, TruthInv, [Next]_vars
    PROVE  TruthInv'
<1> SUFFICES ASSUME NEW l \in Link, NEW r \in Link, r = Reverse(l), NEW c \in Packet,
                    \/ c \in acked'[l] \/ c \in peer'[r].confirm
                    \/ On(wire'[r], c) /\ c.code # "messages"
             PROVE  Truthful(l, c)'
  <2>1. \A k \in Link : Reverse(k) \in Link
    BY Ends, Zenon
  <2>2. /\ peer' \in [Link -> PeerState] /\ acked' \in [Link -> SUBSET Packet]
        /\ wire' \in [Link -> Seq(Packet)]
    BY Zenon DEF GossipTypes
  <2>3. \A k \in Link : \A m : On(wire'[k], m) => m \in Packet
    BY <2>2 DEF On
  <2>4. \A k \in Link : \A m \in peer'[k].confirm : m \in Packet
    BY <2>2, Zenon DEF PeerState
  <2> QED  BY <2>1, <2>2, <2>3, <2>4, Zenon DEF TruthInv, Truthful, On
<1>1. PICK p \in PeerState, s \in PeerState : p = peer[l] /\ s = peer[r]
  BY Zenon DEF GossipTypes
<1>2. Reverse(r) = l /\ r # l /\ r[1] = l[2] /\ wire[r] \in Seq(Packet)
  BY Ends, Zenon DEF GossipTypes
<1>3. /\ \A x \in acked[l] : Truthful(l, x)
      /\ \A x \in s.confirm : Truthful(l, x)
      /\ \A m : On(wire[r], m) /\ m.code # "messages" => Truthful(l, m)
  BY <1>1, Zenon DEF TruthInv
<1>4. written[l] \subseteq written'[l] /\ Truthful(l, c) => Truthful(l, c)'
  BY TruthStays, Zenon
<1>5. CASE Connect(l) \/ Connect(r)
  <2>1. acked'[l] = {} /\ wire'[r] = << >>
    BY <1>2, <1>5, ConnectionFrame, Zenon
  <2>2. peer'[r] = NewPeer
    BY <1>2, <1>5, Zenon DEF Connect, GossipTypes
  <2>3. NewPeer.confirm = {}
    BY Zenon DEF NewPeer
  <2>4. ~ On(<< >>, c)
    BY <1>2, OnWire, Zenon
  <2> QED  BY <2>1, <2>2, <2>3, <2>4, Zenon
<1>6. CASE Apart(l)
  BY <1>1, <1>3, <1>4, <1>6, Zenon DEF Apart, SameEnd
<1>7. CASE UpdateStep(l) \/ ExpireKnown(l)
  <2>1. SameEnd(r) /\ acked' = acked /\ written[l] \subseteq written'[l]
    BY <1>2, <1>7, UpdateFrame, Zenon
  <2> QED  BY <1>1, <1>3, <1>4, <2>1, Zenon DEF SameEnd
<1>8. CASE LoopStep(l)
  <2>1. peer'[r] = s /\ written' = written
    BY <1>1, <1>8, LoopFrame, Zenon
  <2>2. CASE /\ wire[r] # << >> /\ wire'[r] = Tail(wire[r])
             /\ \/ ReadAck(l) /\ acked'[l] = acked[l] \cup {Incoming(l)}
                \/ acked'[l] = acked[l]
    <3>0. \A x : On(wire[r], x) <=> On(Tail(wire[r]), x) \/ x = Head(wire[r])
      BY <1>2, <2>2, OnWire, Zenon
    <3>1. On(wire'[r], c) => On(wire[r], c)
      BY <2>2, <3>0, Zenon
    <3>2. On(wire[r], Incoming(l))
      BY <3>0, Zenon DEF Incoming
    <3>3. ReadAck(l) => Incoming(l).code # "messages"
      BY Zenon DEF ReadAck
    <3> QED  BY <1>3, <1>4, <2>1, <2>2, <3>1, <3>2, <3>3, Zenon
  <2>3. CASE wire' = wire /\ acked' = acked
    BY <1>3, <1>4, <2>1, <2>3, Zenon
  <2> QED  BY <1>8, <2>2, <2>3, LoopFrame, Zenon
<1>9. CASE (ConfirmStep(l) \/ Disconnect(l)) /\ ~ Connect(l)
  <2>1. peer'[r] = s /\ written' = written /\ acked' = acked
        /\ (wire'[r] = wire[r] \/ wire'[r] = << >>)
    BY <1>1, <1>9, ConnectionFrame, Zenon
  <2>2. ~ On(<< >>, c)
    BY <1>2, OnWire, Zenon
  <2> QED  BY <1>3, <1>4, <2>1, <2>2, Zenon
<1>10. CASE UpdateStep(r) \/ ExpireKnown(r)
  <2>0. SameEnd(l) /\ UpdateChange(r, s, peer'[r])
    BY <1>1, <1>2, <1>10, UpdateFrame, UpdateEffect, Zenon
  <2>1. SameEnd(l) /\ peer'[r].confirm = s.confirm
    BY <2>0, Zenon DEF UpdateChange
  <2> DEFINE b == [code |-> "messages", batch |-> peer[r].bundle, errors |-> {}]
  <2>2. b \in Packet /\ b.code = "messages"
    BY <1>1, Zenon DEF Packet, PeerState
  <2>3. wire'[r] = wire[r] \/ wire'[r] = Append(wire[r], b)
    BY <1>10, UpdateFrame, Zenon
  <2> HIDE DEF b
  <2>4. On(wire'[r], c) => On(wire[r], c) \/ c = b
    <3>1. On(Append(wire[r], b), c) => On(wire[r], c) \/ c = b
      BY <1>2, <2>2, OnWire, Zenon
    <3> QED  BY <2>3, <3>1, Zenon
  <2> QED  BY <1>3, <1>4, <2>1, <2>2, <2>4, Zenon DEF SameEnd
<1>11. CASE LoopStep(r)
  <2>1. LoopChange(r, s, peer'[r]) /\ wire'[r] = wire[r] /\ written' = written /\ acked'[l] = acked[l]
    BY <1>1, <1>2, <1>11, LoopEffect, LoopFrame, Zenon
  <2>2. CASE c \in s.confirm \/ c \in acked[l] \/ (On(wire[r], c) /\ c.code # "messages")
    BY <1>3, <1>4, <2>1, <2>2, Zenon
  <2>3. CASE /\ s.loop = "add" /\ s.todo = {}
             /\ c = [code |-> "response", batch |-> s.batch, errors |-> s.errors]
    <3>1. c.batch = s.batch /\ c.errors = s.errors
      BY <2>3, Zenon
    <3>2. s.batch \subseteq written[l]
      BY <1>1, <1>2, Zenon DEF FlowInv
    <3>3. (\A e \in s.batch : Processed(l[2], e, s.errors)) /\ s.errors \subseteq declined[l[2]]
      BY <1>1, <1>2, <2>3, Zenon DEF ProcessInv
    <3>4. Truthful(l, c)
      BY <3>1, <3>2, <3>3, Zenon DEF Truthful, Processed
    <3> QED  BY <1>4, <2>1, <3>4, Zenon
  <2> QED  BY <2>1, <2>2, <2>3, Zenon DEF LoopChange
<1>12. CASE ConfirmStep(r) /\ ~ Connect(r) /\ ~ Disconnect(r)
  <2>1. /\ ConnectionChange(r, s, peer'[r]) /\ written' = written /\ acked' = acked
        /\ wire'[r] = wire[r] \/ \E x \in s.confirm : wire'[r] = Append(wire[r], x)
    BY <1>1, <1>2, <1>12, ConnectionEffect, ConnectionFrame, Zenon
  <2>2. On(wire'[r], c) => On(wire[r], c) \/ c \in s.confirm
    <3>1. s.confirm \subseteq Packet
      BY Zenon DEF PeerState
    <3>2. \A x \in s.confirm : On(Append(wire[r], x), c) => On(wire[r], c) \/ c = x
      BY <1>2, <3>1, OnWire, Zenon
    <3> QED  BY <2>1, <3>2, Zenon
  <2>3. CASE c \in s.confirm \/ c \in acked[l] \/ (On(wire[r], c) /\ c.code # "messages")
    BY <1>3, <1>4, <2>1, <2>3, Zenon
  <2>4. ASSUME NEW x \in s.confirm, x.code = "response",
               c = [code |-> "batchAck", batch |-> x.batch, errors |-> {}]
        PROVE  Truthful(l, c)'
    <3>1. c.batch = x.batch /\ c.errors = {} /\ c.code # "response"
      BY <2>4, Zenon
    <3>2. Truthful(l, x)
      BY <1>3, Zenon
    <3>3. Truthful(l, c)
      BY <3>1, <3>2, Zenon DEF Truthful
    <3> QED  BY <1>4, <2>1, <3>3, Zenon
  <2> QED  BY <1>12, <2>1, <2>2, <2>3, <2>4, Zenon DEF ConnectionChange
<1>13. CASE Disconnect(r) /\ ~ Connect(r)
  <2>1. peer'[r] = NoPeer
    BY <1>13, Zenon DEF Disconnect, GossipTypes
  <2>2. NoPeer.confirm = {}
    BY Zenon DEF NoPeer, NewPeer
  <2>3. written' = written /\ acked' = acked /\ wire'[r] = wire[r]
    BY <1>2, <1>13, ConnectionFrame, Zenon
  <2> QED  BY <1>3, <1>4, <2>1, <2>2, <2>3, Zenon
<1> QED
  BY <1>5, <1>6, <1>7, <1>8, <1>9, <1>10, <1>11, <1>12, <1>13, Actors, Zenon DEF StepOf

-----------------------------------------------------------------------------
(* The inductive invariant; each conjunct needs some of those before it. *)
GossipInv ==
    /\ GossipTypes /\ LoopInv
    /\ SourceInv /\ FlowInv /\ ProcessInv
    /\ SharedInv /\ OnceInv /\ TruthInv

LEMMA GossipInvInit == Init => GossipInv
<1> SUFFICES ASSUME Init
             PROVE  GossipInv
  BY Zenon
<1>1. GossipTypes
  BY GossipTypesInit, Zenon
<1>2. /\ peer = [l \in Link |-> NewPeer] /\ wire = [l \in Link |-> << >>]
      /\ written = [l \in Link |-> {}] /\ acked = [l \in Link |-> {}]
  BY Zenon DEF Init
<1>3. \A l \in Link : /\ peer[l] = NewPeer /\ wire[l] = << >> /\ written[l] = {} /\ acked[l] = {}
                      /\ Reverse(l) \in Link
  BY <1>2, Ends, Zenon
<1>4. /\ NewPeer.cur = NoEnvelope /\ NewPeer.batch = {} /\ NewPeer.todo = {} /\ NewPeer.errors = {} /\ NewPeer.confirm = {}
      /\ NewPeer.loop = "read" /\ NewPeer.update = "idle" /\ NewPeer.bundle = {}
      /\ Marked(NewPeer) = {}
  BY Zenon DEF NewPeer, Marked
<1>5. \A x : ~ On(<< >>, x)
  BY DEF On
<1>6. LoopInv /\ ProcessInv
  BY <1>3, <1>4, Zenon DEF LoopInv, ProcessInv
<1>7. SourceInv /\ OnceInv
  BY <1>3, <1>4, Zenon DEF SourceInv, Outgoing, OnceInv
<1>8. FlowInv /\ TruthInv
  BY <1>3, <1>4, <1>5, Zenon DEF FlowInv, TruthInv
<1>9. SharedInv
  BY <1>3, <1>4, Zenon DEF SharedInv
<1> QED  BY <1>1, <1>6, <1>7, <1>8, <1>9, Zenon DEF GossipInv

LEMMA GossipInvNext == GossipInv /\ [Next]_vars => GossipInv'
<1> SUFFICES ASSUME GossipInv, [Next]_vars
             PROVE  GossipInv'
  BY Zenon
<1> USE DEF GossipInv
<1>1. GossipTypes' /\ LoopInv'
  BY GossipTypesNext, LoopInvNext, Zenon
<1>2. SourceInv' /\ FlowInv' /\ ProcessInv'
  BY <1>1, SourceNext, FlowNext, ProcessNext, Zenon
<1>3. SharedInv' /\ OnceInv' /\ TruthInv'
  BY <1>1, SharedNext, OnceNext, TruthNext, Zenon
<1> QED  BY <1>1, <1>2, <1>3, Zenon

LEMMA GossipInvAlways == Spec => []GossipInv
  BY GossipInvInit, GossipInvNext, PTL DEF Spec

(***************************************************************************)
(* No envelope is lost on a living connection, for any network: the three  *)
(* steps of broadcast, the three of the message loop and the expiry of the *)
(* pools leave an envelope marked as known only where the peer has it, had *)
(* it until it expired, declined it, or is about to read it.               *)
(***************************************************************************)
THEOREM NothingLost == Spec => []KnownIsShared
<1>1. GossipInv => KnownIsShared
  <2>1. GossipInv => \A l \in Link : Open(l) /\ peer[Reverse(l)].loop # "quit" =>
            \A e \in peer[l].known : e \in InFlight(l) \/ Settled(l[2], e)
    BY TravelsInFlight, Zenon DEF GossipInv, SharedInv, Marked
  <2> QED  BY <2>1, Zenon DEF KnownIsShared, Settled
<1> QED  BY <1>1, GossipInvAlways, PTL

(***************************************************************************)
(* broadcast chooses an envelope a second time for the same connection     *)
(* only when it has expired, however the two goroutines of the link, the   *)
(* expiry of the pool and the expiry of the known list interleave.         *)
(***************************************************************************)
THEOREM SentOnce == Spec => []SentOnceWhileAlive
<1>1. GossipInv => SentOnceWhileAlive
  BY Zenon DEF GossipInv, OnceInv, SentOnceWhileAlive
<1> QED  BY <1>1, GossipInvAlways, PTL

(***************************************************************************)
(* EventBatchAcknowledged tells the truth, for any network: a batch that   *)
(* is acknowledged was sent on this connection and went through the peer's *)
(* add, and its errors are about envelopes the peer declined.              *)
(***************************************************************************)
THEOREM AcksAreTrue == Spec => []AcknowledgedIsProcessed
<1>1. GossipInv => AcknowledgedIsProcessed
  BY Zenon DEF GossipInv, TruthInv, Truthful, AcknowledgedIsProcessed
<1> QED  BY <1>1, GossipInvAlways, PTL

-----------------------------------------------------------------------------
(* What else the type invariant says, of the clock, the pools and the wires. *)
BeingSent(n, e) == \E c \in sending[n] : c.env = e

PoolInv ==
    /\ now \in 1 .. network.lastTime
    /\ \A n \in Node : /\ Pooled(n) \subseteq pooledEver[n]
                       /\ \A e \in sent[n] : e \in pooledEver[n] \/ BeingSent(n, e)
                       /\ \A e \in Pooled(n) : pool[n][e] \in Uint32

WireInv == \A l \in Link : Len(wire[l]) <= WireLimit

LEMMA InsertKeeps ==
    ASSUME GossipTypes, PoolInv, NEW n \in Node, NEW e \in Envelope, NEW c \in Uint32, Insert(n, e, c),
           UNCHANGED <<network, now, sent>>,
           \A k \in Node : \A x \in Envelope : BeingSent(k, x) => BeingSent(k, x)' \/ (k = n /\ x = e)
    PROVE  PoolInv'
<1>1. /\ pool' = [k \in Node |-> pool'[k]]
      /\ \A k \in Node : Pooled(k)' = IF k = n THEN Pooled(n) \cup {e} ELSE Pooled(k)
      /\ pooledEver' \in [Node -> SUBSET Envelope]
      /\ \A k \in Node : pooledEver'[k] = IF k = n THEN pooledEver[n] \cup {e} ELSE pooledEver[k]
      /\ pool'[n] = [x \in Pooled(n) \cup {e} |-> IF x \in Pooled(n) THEN pool[n][x] ELSE c]
      /\ \A k \in Node : k # n => pool'[k] = pool[k]
  BY InsertEffect, Zenon
<1>2. now' \in 1 .. network'.lastTime
  BY Zenon DEF PoolInv
<1>3. ASSUME NEW k \in Node
      PROVE  /\ Pooled(k)' \subseteq pooledEver'[k]
             /\ \A x \in sent'[k] : x \in pooledEver'[k] \/ BeingSent(k, x)'
             /\ \A x \in Pooled(k)' : pool'[k][x] \in Uint32
  <2>1. Pooled(k)' \subseteq pooledEver'[k]
    BY <1>1, Zenon DEF PoolInv
  <2>2. \A x \in sent'[k] : x \in pooledEver'[k] \/ BeingSent(k, x)'
    <3>1. sent' = sent /\ \A x \in sent[k] : x \in Envelope
      BY Zenon DEF GossipTypes
    <3> QED  BY <1>1, <3>1, Zenon DEF PoolInv
  <2>3. \A x \in Pooled(k)' : pool'[k][x] \in Uint32
    <3>1. CASE k = n
      BY <1>1, <3>1, Zenon DEF PoolInv
    <3>2. CASE k # n
      BY <1>1, <3>2, Zenon DEF PoolInv
    <3> QED  BY <3>1, <3>2, Zenon
  <2> QED  BY <2>1, <2>3, <2>2, Zenon
<1> QED  BY <1>2, <1>3, Zenon DEF PoolInv, Pooled, BeingSent

LEMMA PoolInvNext ==
    ASSUME GossipTypes, GossipTypes', LoopInv, PoolInv, [Next]_vars
    PROVE  PoolInv'
<1> USE DEF historyVars, nodeHistory, linkHistory
<1>1. CASE UNCHANGED <<network, now, pool, sending, sent, pooledEver>>
  BY <1>1, Zenon DEF PoolInv, Pooled, BeingSent
<1>2. CASE Tick
  <2>1. now \in Nat /\ network.lastTime \in Nat /\ now \in 1 .. network.lastTime
    BY NodeAssumption, WordAssumption DEF GossipTypes, PoolInv, Uint32
  <2>2. now' \in 1 .. network'.lastTime
    BY <1>2, <2>1 DEF Tick
  <2>3. UNCHANGED <<pool, sending, sent, pooledEver>>
    BY <1>2, Zenon DEF Tick
  <2> QED  BY <2>2, <2>3, Zenon DEF PoolInv, Pooled, BeingSent
<1>3. ASSUME NEW n \in Node, ExpirePool(n)
      PROVE  PoolInv'
  <2>1. pool = [k \in Node |-> pool[k]] /\ UNCHANGED <<network, now, sending, sent, pooledEver>>
    BY <1>3, Zenon DEF GossipTypes, ExpirePool
  <2>2. \A k \in Node : Pooled(k)' \subseteq Pooled(k) /\ \A e \in Pooled(k)' : pool'[k][e] = pool[k][e]
    BY <1>3, <2>1, Zenon DEF ExpirePool, Restrict, Pooled
  <2> QED  BY <2>1, <2>2, Zenon DEF PoolInv, BeingSent
<1>4. ASSUME NEW n \in Node, NEW e \in Envelope, Send(n, e)
      PROVE  PoolInv'
  <2> DEFINE c == [env |-> e, charge |-> ChargedTTL(e, Clock(n))]
  <2>1. /\ sending' = [sending EXCEPT ![n] = @ \cup {c}] /\ sent' = [sent EXCEPT ![n] = @ \cup {e}]
        /\ UNCHANGED <<network, now, pool, pooledEver>> /\ c.env = e
    BY <1>4, Zenon DEF Send
  <2> HIDE DEF c
  <2>2. sent \in [Node -> SUBSET Envelope] /\ sending \in [Node -> SUBSET [env : Envelope, charge : Uint32]]
    BY Zenon DEF GossipTypes
  <2>3. ASSUME NEW k \in Node, NEW x \in sent'[k]
        PROVE  x \in pooledEver'[k] \/ BeingSent(k, x)'
    <3>1. sending[k] \subseteq sending'[k] /\ (k = n => c \in sending'[k])
      BY <2>1, <2>2, Zenon
    <3>2. x \in sent[k] \/ (k = n /\ x = e)
      BY <2>1, <2>2, <2>3, Zenon
    <3> QED  BY <2>1, <3>1, <3>2, Zenon DEF PoolInv, BeingSent
  <2>4. \A k \in Node : /\ Pooled(k)' \subseteq pooledEver'[k]
                        /\ \A x \in Pooled(k)' : pool'[k][x] \in Uint32
    BY <2>1, Zenon DEF PoolInv, Pooled
  <2>5. now' \in 1 .. network'.lastTime
    BY <2>1, Zenon DEF PoolInv
  <2> QED  BY <2>3, <2>4, <2>5, Zenon DEF PoolInv
<1>5. ASSUME NEW n \in Node, NEW c \in sending[n], InsertSent(n, c)
      PROVE  PoolInv'
  <2>1. c.env \in Envelope /\ c.charge \in Uint32
    BY <1>5, SendingTypes, Zenon
  <2>2. /\ Insert(n, c.env, c.charge) /\ sending' = [sending EXCEPT ![n] = @ \ {c}]
        /\ UNCHANGED <<network, now, sent>>
    BY <1>5, Zenon DEF InsertSent
  <2>3. ASSUME NEW k \in Node, NEW x \in Envelope, BeingSent(k, x)
        PROVE  BeingSent(k, x)' \/ (k = n /\ x = c.env)
    <3>1. PICK d \in sending[k] : d.env = x
      BY <2>3, Zenon DEF BeingSent
    <3>2. d \in sending'[k] \/ (k = n /\ d = c)
      BY <2>2, Zenon DEF GossipTypes
    <3> QED  BY <3>1, <3>2, Zenon DEF BeingSent
  <2> QED  BY <2>1, <2>2, <2>3, InsertKeeps, Zenon
<1>6. ASSUME NEW l \in Link, InsertNext(l)
      PROVE  PoolInv'
  <2>1. l[1] \in Node /\ peer[l] \in PeerState /\ peer[l].cur \in peer[l].todo
    BY <1>6, Ends, Zenon DEF InsertNext, GossipTypes, LoopInv
  <2>2. peer[l].cur \in Envelope /\ peer[l].charge \in Uint32
    BY <2>1, Zenon DEF PeerState
  <2>3. Insert(l[1], peer[l].cur, peer[l].charge) /\ UNCHANGED <<network, now, sending, sent>>
    BY <1>6, Zenon DEF InsertNext
  <2>4. \A k \in Node, x \in Envelope : BeingSent(k, x) => BeingSent(k, x)'
    BY <2>3, Zenon DEF BeingSent
  <2> QED  BY <2>1, <2>2, <2>3, <2>4, InsertKeeps, Zenon
<1>7. ASSUME NEW l \in Link, StepOf(l), ~ InsertNext(l)
      PROVE  UNCHANGED <<network, now, pool, sending, sent, pooledEver>>
  <2>1. LoopStep(l) => UNCHANGED <<network, now, pool, sending, sent, pooledEver>>
    BY <1>7, Zenon DEF LoopStep, ReadOversized, ReadMessages, ReadAck, AddNext, MarkNext, FinishBundle
  <2> QED  BY <1>7, <2>1, UpdateFrame, ConnectionFrame, Zenon DEF StepOf
<1>8. CASE UNCHANGED vars
  BY <1>1, <1>8, Zenon DEF vars
<1> QED  BY <1>1, <1>2, <1>3, <1>4, <1>6, <1>7, <1>8, <1>5, Zenon DEF Next, NodeStep, StepOf

LEMMA WireInvNext ==
    ASSUME GossipTypes, WireInv, [Next]_vars
    PROVE  WireInv'
<1> SUFFICES ASSUME NEW l \in Link
             PROVE  Len(wire'[l]) <= WireLimit
  BY Zenon DEF WireInv
<1>1. PICK w \in Seq(Packet) : w = wire[l] /\ Len(w) <= WireLimit
  BY Zenon DEF GossipTypes, WireInv
<1>2. CASE wire'[l] \in {w, << >>}
  BY <1>1, <1>2, WireAssumption
<1>3. ASSUME NEW m, wire'[l] = Append(w, m), Len(w) < WireLimit
      PROVE  Len(wire'[l]) <= WireLimit
  BY <1>3, WireAssumption
<1>4. CASE w # << >> /\ wire'[l] = Tail(w)
  BY <1>1, <1>4, WireAssumption
<1>5. CASE StepOf(l)
  <2>1. CASE UpdateStep(l) \/ ExpireKnown(l)
    <3>1. \/ wire'[l] = wire[l]
          \/ WriteBundle(l) /\ Open(l) /\ \E m : wire'[l] = Append(wire[l], m)
      BY <2>1, UpdateFrame, Zenon
    <3>2. WriteBundle(l) /\ Open(l) => Len(wire[l]) < WireLimit
      BY Zenon DEF WriteBundle
    <3> QED  BY <1>1, <1>2, <1>3, <3>1, <3>2, Zenon
  <2>2. CASE LoopStep(l)
    BY <1>1, <1>2, <2>2, LoopFrame, Zenon
  <2>3. CASE ConfirmStep(l)
    <3>1. wire'[l] = wire[l] \/ \E m : wire'[l] = Append(wire[l], m)
      BY <2>3, ConnectionFrame, Zenon
    <3>2. Len(wire[l]) < WireLimit
      BY <2>3, Zenon DEF ConfirmStep, SendConfirmation
    <3> QED  BY <1>1, <1>2, <1>3, <3>1, <3>2, Zenon
  <2>4. CASE Disconnect(l) \/ Connect(l)
    BY <1>1, <1>2, <2>4, ConnectionFrame, Zenon
  <2> QED  BY <1>5, <2>1, <2>2, <2>3, <2>4, Zenon DEF StepOf
<1>6. CASE StepOf(Reverse(l))
  <2>1. PICK r \in Link : r = Reverse(l) /\ Reverse(r) = l /\ r # l
    BY Ends, Zenon
  <2>2. CASE UpdateStep(r) \/ ExpireKnown(r)
    <3>1. wire'[l] = wire[l]
      BY <2>1, <2>2, UpdateFrame, Zenon DEF SameEnd
    <3> QED  BY <1>1, <1>2, <3>1, Zenon
  <2>3. CASE LoopStep(r)
    <3>1. wire'[l] = wire[l] \/ (wire[l] # << >> /\ wire'[l] = Tail(wire[l]))
      BY <2>1, <2>3, LoopFrame, Zenon
    <3> QED  BY <1>1, <1>2, <1>4, <3>1, Zenon
  <2>4. CASE ConfirmStep(r) \/ Disconnect(r) \/ Connect(r)
    <3>1. wire'[l] \in {wire[l], << >>}
      BY <2>1, <2>4, ConnectionFrame
    <3> QED  BY <1>1, <1>2, <3>1, Zenon
  <2> QED  BY <1>6, <2>1, <2>2, <2>3, <2>4, Zenon DEF StepOf
<1>7. CASE Apart(l)
  BY <1>1, <1>2, <1>7, Zenon DEF Apart, SameEnd
<1> QED  BY <1>5, <1>6, <1>7, Actors, Zenon

(***************************************************************************)
(* The Peer objects, pools and packets keep their types for any network;   *)
(* what Send was given has been pooled or is about to be, the charged      *)
(* seconds stay within a uint32, and the message loop handles an envelope  *)
(* of the bundle it has read.                                              *)
(***************************************************************************)
THEOREM GossipTypeCorrect == Spec => []TypeOK
<1>1. Init => PoolInv /\ WireInv
  <2> SUFFICES ASSUME Init
               PROVE  PoolInv /\ WireInv
    BY Zenon
  <2>1. now = 1 /\ network.lastTime \in Nat \ {0}
    BY NodeAssumption, WordAssumption DEF Init, Uint32
  <2>2. \A n \in Node : Pooled(n) = {} /\ sent[n] = {}
    BY DEF Init, Pooled
  <2>3. PoolInv
    BY <2>1, <2>2 DEF PoolInv
  <2>4. WireInv
    BY WireAssumption DEF Init, WireInv
  <2> QED  BY <2>3, <2>4, Zenon
<1>2. GossipInv /\ GossipInv' /\ PoolInv /\ WireInv /\ [Next]_vars => PoolInv' /\ WireInv'
  BY PoolInvNext, WireInvNext, Zenon DEF GossipInv
<1>3. GossipInv /\ PoolInv /\ WireInv => TypeOK
  <2> SUFFICES ASSUME GossipInv, PoolInv, WireInv
               PROVE  TypeOK
    BY Zenon
  <2> USE DEF GossipInv
  <2>1. \A n \in Node : /\ Pooled(n) \subseteq pooledEver[n] /\ pooledEver[n] \subseteq Envelope
                        /\ \A e \in Pooled(n) : pool[n][e] \in Uint32
                        /\ declined[n] \subseteq Envelope
    BY Zenon DEF GossipTypes, PoolInv
  <2>2. \A n \in Node : sent[n] \subseteq pooledEver[n] \cup {c.env : c \in sending[n]}
    BY DEF PoolInv, BeingSent
  <2>3. ASSUME NEW l \in Link
        PROVE  /\ peer[l].update \in {"idle", "write", "mark", "unmark", "dead"}
               /\ peer[l].loop \in {"read", "add", "insert", "mark", "quit"}
               /\ peer[l].known \cup peer[l].bundle \cup written[l] \subseteq Envelope
               /\ peer[l].errors \cup peer[l].todo \subseteq peer[l].batch
               /\ peer[l].cur \in peer[l].todo \cup {NoEnvelope}
               /\ peer[l].confirm \cup acked[l] \subseteq Packet
               /\ Len(wire[l]) <= WireLimit
               /\ \A i \in DOMAIN wire[l] : wire[l][i] \in Packet
    <3>1. peer[l] \in PeerState /\ written[l] \subseteq Envelope /\ acked[l] \subseteq Packet
      BY Zenon DEF GossipTypes
    <3>2. /\ peer[l].update \in {"idle", "write", "mark", "unmark", "dead"}
          /\ peer[l].loop \in {"read", "add", "insert", "mark", "quit"}
          /\ peer[l].known \subseteq Envelope /\ peer[l].bundle \subseteq Envelope
          /\ peer[l].confirm \subseteq Packet
      BY <3>1, Zenon DEF PeerState
    <3>3. /\ peer[l].errors \cup peer[l].todo \subseteq peer[l].batch
          /\ peer[l].cur \in peer[l].todo \cup {NoEnvelope}
      BY Zenon DEF LoopInv
    <3>4. Len(wire[l]) <= WireLimit /\ \A i \in DOMAIN wire[l] : wire[l][i] \in Packet
      BY DEF WireInv, GossipTypes
    <3> QED  BY <3>1, <3>2, <3>3, <3>4, Zenon
  <2> QED  BY <2>1, <2>3, <2>2, Zenon DEF TypeOK, PoolInv
<1> QED  BY <1>1, <1>2, <1>3, GossipInvAlways, PTL DEF Spec
=============================================================================
