------------------------------- MODULE Gossip -------------------------------
(***************************************************************************)
(* Nodes that forward envelopes to each other.  For every connection, each *)
(* end has a Peer object and two goroutines: update, which sends the       *)
(* envelopes the other side is not known to have (peer.broadcast) and      *)
(* trims the list of known ones (peer.expire), and runMessageLoop, which   *)
(* takes in bundles and confirmations.  A link is a pair <<n, m>>: the     *)
(* Peer object node n keeps for node m.                                    *)
(*                                                                         *)
(* Receiving an envelope is three steps (checks, insertion under poolMu,   *)
(* mark), a broadcast three (choosing the bundle, writing it, marking it), *)
(* Send two (checks, insertion) and peer.expire two (looking a hash up in  *)
(* the pool, removing it): the goroutines race between them.  The          *)
(* requirements the peers advertised are the ones in force; the clocks of  *)
(* the nodes may differ.  The hash of a bundle is the bundle.              *)
(***************************************************************************)
EXTENDS Admission, FiniteSets, Sequences, FiniteSetsExt, Functions

CONSTANTS
    Bit,             \* positions of a bloom filter
    Envelope,        \* envelopes that may be sent
    NoEnvelope,      \* the message loop is between envelopes
    Node,
    Link,            \* ordered pairs of nodes that may be connected
    SettingsOf,      \* the settings of each node, as in Admission
    Network,         \* how the network may be configured: skew, how far the
                     \* clock of each node is ahead; confirming, the nodes
                     \* without disableConfirmations; origin, who may call Send
                     \* with each envelope; lastTime, bound: where the clock,
                     \* which starts at 1, stops
    WireLimit        \* bound: packets in flight on a link

Reverse(l) == <<l[2], l[1]>>

ASSUME EnvelopeAssumption ==
    Envelope \subseteq EnvelopeOver(Bit) /\ NoEnvelope \notin Envelope
ASSUME LinkAssumption ==
    /\ Link \subseteq Node \X Node
    /\ \A l \in Link : Reverse(l) \in Link /\ l[1] # l[2]
ASSUME NodeAssumption ==
    \A w \in Network : /\ w.skew \in [Node -> Nat]
                       /\ w.confirming \subseteq Node
                       /\ w.origin \in [Envelope -> SUBSET Node]
                       /\ w.lastTime \in Uint32 \ {0}
ASSUME WireAssumption == WireLimit \in Nat

VARIABLES
    network,         \* the configuration, which does not change
    now,             \* real time; node n reads its clock
    pool,            \* pool[n]: pooled envelope -> seconds its PoW was charged for
    sending,         \* sending[n]: calls of Send past the checks of add
    peer,            \* peer[l]: the Peer object of a link and its goroutines
    wire,            \* wire[l]: packets on their way from l[1] to l[2]
    sent,            \* history: what a node gave to Send itself
    pooledEver,      \* history: what has ever been in the pool of a node
    declined,        \* history: what a node refused or dropped
    written,         \* history: what was sent on a link since it was connected
    acked            \* history: acknowledgements seen since then

nodeHistory == <<sent, pooledEver, declined>>
linkHistory == <<written, acked>>
historyVars == <<nodeHistory, linkHistory>>
vars == <<network, now, pool, sending, peer, wire, historyVars>>

Clock(n) == now + network.skew[n]
Pooled(n) == DOMAIN pool[n]
PacketSize(S) == MapThenSumSet(LAMBDA e : e.size, S)

(* newPeer, and goroutines that have just been started. *)
NewPeer ==
    [up |-> TRUE, known |-> {},
     update |-> "idle", bundle |-> {},
     loop |-> "read", batch |-> {}, todo |-> {}, cur |-> NoEnvelope,
     charge |-> 0, cached |-> FALSE, errors |-> {}, trouble |-> FALSE,
     confirm |-> {}]
NoPeer == [NewPeer EXCEPT !.up = FALSE]

Open(l) == peer[l].up /\ peer[Reverse(l)].up

Init ==
    /\ network \in Network
    /\ now = 1
    /\ pool = [n \in Node |-> << >>]
    /\ sending = [n \in Node |-> {}]
    /\ peer = [l \in Link |-> NewPeer]
    /\ wire = [l \in Link |-> << >>]
    /\ sent = [n \in Node |-> {}]
    /\ pooledEver = [n \in Node |-> {}]
    /\ declined = [n \in Node |-> {}]
    /\ written = [l \in Link |-> {}]
    /\ acked = [l \in Link |-> {}]

-----------------------------------------------------------------------------
Tick ==
    /\ now < network.lastTime
    /\ now' = now + 1
    /\ UNCHANGED <<network, pool, sending, peer, wire, historyVars>>

(* Whisper.expire on node n. *)
ExpirePool(n) ==
    /\ \E e \in Pooled(n) : Expired(e, Clock(n))
    /\ pool' = [pool EXCEPT ![n] = Restrict(@, {e \in DOMAIN @ : ~ Expired(e, Clock(n))})]
    /\ UNCHANGED <<network, now, sending, peer, wire, historyVars>>

(***************************************************************************)
(* The critical section of add on node n; c is the time the PoW of e was   *)
(* charged for when the checks were made.                                  *)
(***************************************************************************)
Insert(n, e, c) ==
    /\ pool' = [pool EXCEPT ![n] =
           [x \in DOMAIN @ \cup {e} |-> IF x \in DOMAIN @ THEN @[x] ELSE c]]
    /\ pooledEver' = [pooledEver EXCEPT ![n] = @ \cup {e}]

(* Whisper.Send: add makes its checks and passes the envelope ... *)
Send(n, e) ==
    /\ n \in network.origin[e]
    /\ e \notin sent[n]
    /\ Admitted(e, Clock(n), SettingsOf[n])
    /\ sending' = [sending EXCEPT ![n] =
           @ \cup {[env |-> e, charge |-> ChargedTTL(e, Clock(n))]}]
    /\ sent' = [sent EXCEPT ![n] = @ \cup {e}]
    /\ UNCHANGED <<network, now, pool, peer, wire, pooledEver, declined, linkHistory>>

(* ... and goes on under poolMu. *)
InsertSent(n, c) ==
    /\ c \in sending[n]
    /\ Insert(n, c.env, c.charge)
    /\ sending' = [sending EXCEPT ![n] = @ \ {c}]
    /\ UNCHANGED <<network, now, peer, wire, sent, declined, linkHistory>>

-----------------------------------------------------------------------------
(* peer.broadcast: the snapshot of the pool, filtered. *)
Wanted(l) ==
    {e \in Pooled(l[1]) :
        /\ e \notin peer[l].known
        /\ e.work >= SettingsOf[l[2]].minPow * pool[l[1]][e]
        /\ BloomFilterMatch(SettingsOf[l[2]].bloom, e.bloom)}

ChooseBundle(l) ==
    /\ peer[l].up
    /\ peer[l].update = "idle"
    /\ Wanted(l) # {}
    /\ peer' = [peer EXCEPT ![l].update = "write", ![l].bundle = Wanted(l)]
    /\ UNCHANGED <<network, now, pool, sending, wire, historyVars>>

(* sendBundle; a failed write ends update, and the connection with it. *)
WriteBundle(l) ==
    /\ peer[l].update = "write"
    /\ IF Open(l)
       THEN /\ Len(wire[l]) < WireLimit
            /\ wire' = [wire EXCEPT ![l] =
                   Append(@, [code |-> "messages", batch |-> peer[l].bundle, errors |-> {}])]
            /\ written' = [written EXCEPT ![l] = @ \cup peer[l].bundle]
            /\ peer' = [peer EXCEPT ![l].update = "mark"]
       ELSE /\ peer' = [peer EXCEPT ![l].update = "dead", ![l].bundle = {}]
            /\ UNCHANGED <<wire, written>>
    /\ UNCHANGED <<network, now, pool, sending, nodeHistory, acked>>

(* Faulty form: the whole pool is marked, not only what was sent. *)
MarkPool(l) ==
    /\ peer[l].update = "mark"
    /\ peer' = [peer EXCEPT ![l].update = "idle", ![l].bundle = {},
                            ![l].known = @ \cup Pooled(l[1])]
    /\ UNCHANGED <<network, now, pool, sending, wire, historyVars>>

(* Faulty form: update returns after its first broadcast. *)
MarkAndReturn(l) ==
    /\ peer[l].update = "mark"
    /\ peer' = [peer EXCEPT ![l].update = "dead", ![l].bundle = {},
                            ![l].known = @ \cup peer[l].bundle]
    /\ UNCHANGED <<network, now, pool, sending, wire, historyVars>>

(* The envelopes are marked after they were sent. *)
MarkBundle(l) ==
    /\ peer[l].update = "mark"
    /\ peer' = [peer EXCEPT ![l].update = "idle", ![l].bundle = {},
                            ![l].known = @ \cup peer[l].bundle]
    /\ UNCHANGED <<network, now, pool, sending, wire, historyVars>>

(* Faulty form: a known hash is dropped though its envelope is pooled. *)
ExpireAnyKnown(l) ==
    /\ peer[l].up
    /\ peer[l].update = "idle"
    /\ \E e \in peer[l].known :
           peer' = [peer EXCEPT ![l].update = "unmark", ![l].bundle = {e}]
    /\ UNCHANGED <<network, now, pool, sending, wire, historyVars>>

(***************************************************************************)
(* peer.expire.  Set.Each stops at the first callback that returns true,   *)
(* and this one always does: one known hash is looked at per cycle, and    *)
(* noted if it is not cached ...                                           *)
(***************************************************************************)
ExpireKnown(l) ==
    /\ peer[l].up
    /\ peer[l].update = "idle"
    /\ \E e \in peer[l].known \ Pooled(l[1]) :
           peer' = [peer EXCEPT ![l].update = "unmark", ![l].bundle = {e}]
    /\ UNCHANGED <<network, now, pool, sending, wire, historyVars>>

(* ... and what was noted is removed, by which time it may be pooled again. *)
RemoveKnown(l) ==
    /\ peer[l].update = "unmark"
    /\ peer' = [peer EXCEPT ![l].update = "idle", ![l].bundle = {},
                            ![l].known = @ \ peer[l].bundle]
    /\ UNCHANGED <<network, now, pool, sending, wire, historyVars>>

-----------------------------------------------------------------------------
Incoming(l) == Head(wire[Reverse(l)])
Consumed(l) == wire' = [wire EXCEPT ![Reverse(l)] = Tail(@)]

Reading(l) ==
    /\ peer[l].up
    /\ peer[l].loop = "read"
    /\ wire[Reverse(l)] # << >>

(* "oversized message received" *)
ReadOversized(l) ==
    /\ Reading(l)
    /\ Incoming(l).code = "messages"
    /\ PacketSize(Incoming(l).batch) > SettingsOf[l[1]].maxMessageSize
    /\ Consumed(l)
    /\ peer' = [peer EXCEPT ![l].loop = "quit"]
    /\ UNCHANGED <<network, now, pool, sending, historyVars>>

(* Faulty form: the batch is confirmed before it has been processed. *)
ReadAndConfirm(l) ==
    /\ Reading(l)
    /\ Incoming(l).code = "messages"
    /\ PacketSize(Incoming(l).batch) <= SettingsOf[l[1]].maxMessageSize
    /\ Consumed(l)
    /\ peer' = [peer EXCEPT ![l].loop = "add", ![l].batch = Incoming(l).batch,
                            ![l].todo = Incoming(l).batch,
                            ![l].confirm = @ \cup {[Incoming(l) EXCEPT !.code = "response"]}]
    /\ UNCHANGED <<network, now, pool, sending, historyVars>>

ReadMessages(l) ==
    /\ Reading(l)
    /\ Incoming(l).code = "messages"
    /\ PacketSize(Incoming(l).batch) <= SettingsOf[l[1]].maxMessageSize
    /\ Consumed(l)
    /\ peer' = [peer EXCEPT ![l].loop = "add", ![l].batch = Incoming(l).batch,
                            ![l].todo = Incoming(l).batch]
    /\ UNCHANGED <<network, now, pool, sending, historyVars>>

(***************************************************************************)
(* err.(TimeSyncError) in the message loop and in ErrorToEnvelopeError.    *)
(* TimeSyncError is declared "type TimeSyncError error", an interface, so  *)
(* the assertion holds for every error add returns.                        *)
(***************************************************************************)
IsTimeSyncError(err) == err \in {"time", "other"}

AddError(e, n) ==
    IF InFuture(e, Clock(n)) \/ VeryOld(e, Clock(n)) THEN "time" ELSE "other"

(* add is called on an envelope of the bundle and makes its checks. *)
AddNext(l, e) ==
    /\ peer[l].loop = "add"
    /\ e \in peer[l].todo
    /\ LET n == l[1]
           admitted == Admitted(e, Clock(n), SettingsOf[n])
           refused == Refused(e, Clock(n), SettingsOf[n])
       IN  /\ peer' = [peer EXCEPT
                  ![l].cur = e,
                  ![l].loop = IF admitted THEN "insert" ELSE "mark",
                  ![l].charge = IF admitted THEN ChargedTTL(e, Clock(n)) ELSE 0,
                  ![l].errors = IF refused THEN @ \cup {e} ELSE @,
                  ![l].trouble = @ \/ (refused /\ ~ IsTimeSyncError(AddError(e, n)))]
           /\ declined' = IF admitted THEN declined
                          ELSE [declined EXCEPT ![n] = @ \cup {e}]
    /\ UNCHANGED <<network, now, pool, sending, wire, sent, pooledEver, linkHistory>>

(* add goes on under poolMu; cached or just inserted, it returns true. *)
InsertNext(l) ==
    /\ peer[l].loop = "insert"
    /\ Insert(l[1], peer[l].cur, peer[l].charge)
    /\ peer' = [peer EXCEPT ![l].loop = "mark", ![l].cached = TRUE, ![l].charge = 0]
    /\ UNCHANGED <<network, now, sending, wire, sent, declined, linkHistory>>

(* The event is posted, and what is cached is marked as known to the peer. *)
MarkNext(l) ==
    /\ peer[l].loop = "mark"
    /\ peer' = [peer EXCEPT
           ![l].loop = "add", ![l].cur = NoEnvelope, ![l].cached = FALSE,
           ![l].todo = @ \ {peer[l].cur},
           ![l].known = IF peer[l].cached THEN @ \cup {peer[l].cur} ELSE @]
    /\ UNCHANGED <<network, now, pool, sending, wire, historyVars>>

(* Faulty form: the errors of a bundle are kept for the next one. *)
FinishBundleKeepErrors(l) ==
    /\ peer[l].loop = "add"
    /\ peer[l].todo = {}
    /\ peer' = [peer EXCEPT
           ![l].loop = IF peer[l].trouble THEN "quit" ELSE "read",
           ![l].batch = {}, ![l].trouble = FALSE,
           ![l].confirm = IF l[1] \in network.confirming
                          THEN @ \cup {[code |-> "response", batch |-> peer[l].batch,
                                        errors |-> peer[l].errors]}
                          ELSE @]
    /\ UNCHANGED <<network, now, pool, sending, wire, historyVars>>

(* The end of a bundle: a goroutine confirms it, and trouble ends the loop. *)
FinishBundle(l) ==
    /\ peer[l].loop = "add"
    /\ peer[l].todo = {}
    /\ peer' = [peer EXCEPT
           ![l].loop = IF peer[l].trouble THEN "quit" ELSE "read",
           ![l].batch = {}, ![l].errors = {}, ![l].trouble = FALSE,
           ![l].confirm = IF l[1] \in network.confirming
                          THEN @ \cup {[code |-> "response", batch |-> peer[l].batch,
                                        errors |-> peer[l].errors]}
                          ELSE @]
    /\ UNCHANGED <<network, now, pool, sending, wire, historyVars>>

(***************************************************************************)
(* sendConfirmation, in a goroutine of its own: first the response with    *)
(* the errors, then the bare acknowledgement.  Errors are only logged.     *)
(***************************************************************************)
SendConfirmation(l, c) ==
    /\ c \in peer[l].confirm
    /\ Len(wire[l]) < WireLimit
    /\ wire' = IF Open(l) THEN [wire EXCEPT ![l] = Append(@, c)] ELSE wire
    /\ peer' = [peer EXCEPT ![l].confirm =
           IF c.code = "response"
           THEN (@ \ {c}) \cup {[code |-> "batchAck", batch |-> c.batch, errors |-> {}]}
           ELSE @ \ {c}]
    /\ UNCHANGED <<network, now, pool, sending, historyVars>>

(***************************************************************************)
(* messageResponseCode and batchAcknowledgedCode: EventBatchAcknowledged.  *)
(* Both ends run sendConfirmation, so that a response has version 1 and    *)
(* can be decoded.                                                         *)
(***************************************************************************)
ReadAck(l) ==
    /\ Reading(l)
    /\ Incoming(l).code \in {"response", "batchAck"}
    /\ acked' = [acked EXCEPT ![l] = @ \cup {Incoming(l)}]
    /\ Consumed(l)
    /\ UNCHANGED <<network, now, pool, sending, peer, nodeHistory, written>>

(***************************************************************************)
(* runMessageLoop returns, on its own account or because ReadMsg failed:   *)
(* the connection broke or the other side has closed it.  HandlePeer       *)
(* forgets the peer and stops update.                                      *)
(***************************************************************************)
Disconnect(l) ==
    /\ peer[l].up
    /\ peer[l].loop \in {"read", "quit"}
    /\ peer' = [peer EXCEPT ![l] = NoPeer]
    /\ wire' = [wire EXCEPT ![Reverse(l)] = << >>]
    /\ UNCHANGED <<network, now, pool, sending, historyVars>>

(* A new connection starts with new Peer objects on both sides. *)
Connect(l) ==
    /\ ~ peer[l].up
    /\ ~ peer[Reverse(l)].up
    /\ peer' = [peer EXCEPT ![l] = NewPeer, ![Reverse(l)] = NewPeer]
    /\ wire' = [wire EXCEPT ![l] = << >>, ![Reverse(l)] = << >>]
    /\ written' = [written EXCEPT ![l] = {}, ![Reverse(l)] = {}]
    /\ acked' = [acked EXCEPT ![l] = {}, ![Reverse(l)] = {}]
    /\ UNCHANGED <<network, now, pool, sending, nodeHistory>>

NodeStep(n) ==
    \/ ExpirePool(n)
    \/ \E e \in Envelope : Send(n, e)
    \/ \E c \in sending[n] : InsertSent(n, c)
UpdateStep(l) == ChooseBundle(l) \/ WriteBundle(l) \/ MarkBundle(l) \/ RemoveKnown(l)
LoopStep(l) ==
    \/ ReadOversized(l) \/ ReadMessages(l) \/ ReadAck(l)
    \/ InsertNext(l) \/ MarkNext(l) \/ FinishBundle(l)
    \/ \E e \in Envelope : AddNext(l, e)
ConfirmStep(l) == \E c \in peer[l].confirm : SendConfirmation(l, c)

Next ==
    \/ Tick
    \/ \E n \in Node : NodeStep(n)
    \/ \E l \in Link : UpdateStep(l) \/ ExpireKnown(l) \/ LoopStep(l)
                         \/ ConfirmStep(l) \/ Disconnect(l) \/ Connect(l)

Spec == Init /\ [][Next]_vars

(***************************************************************************)
(* update has a transmission ticker, and the message loop runs whenever it *)
(* can.  Nothing is said of the clock, of Send, of confirmations, or of    *)
(* when connections break and are made again.                              *)
(***************************************************************************)
Fairness ==
    \A l \in Link : WF_vars(UpdateStep(l)) /\ WF_vars(LoopStep(l))

FairSpec == Spec /\ Fairness

-----------------------------------------------------------------------------
Packet == [code : {"messages", "response", "batchAck"},
           batch : SUBSET Envelope, errors : SUBSET Envelope]

(* The variables keep their types, and a queue of packets its bound. *)
TypeOK ==
    /\ now \in 1 .. network.lastTime
    /\ \A n \in Node : /\ Pooled(n) \subseteq pooledEver[n]
                        /\ pooledEver[n] \subseteq Envelope
                        /\ \A e \in Pooled(n) : pool[n][e] \in Uint32
                        /\ sent[n] \subseteq pooledEver[n] \cup {c.env : c \in sending[n]}
                        /\ declined[n] \subseteq Envelope
    /\ \A l \in Link :
        /\ peer[l].update \in {"idle", "write", "mark", "unmark", "dead"}
        /\ peer[l].loop \in {"read", "add", "insert", "mark", "quit"}
        /\ peer[l].known \cup peer[l].bundle \cup written[l] \subseteq Envelope
        /\ peer[l].errors \cup peer[l].todo \subseteq peer[l].batch
        /\ peer[l].cur \in peer[l].todo \cup {NoEnvelope}
        /\ peer[l].confirm \cup acked[l] \subseteq Packet
        /\ Len(wire[l]) <= WireLimit
        /\ \A i \in DOMAIN wire[l] : wire[l][i] \in Packet

(* What was written on l and the other side has not gone through yet. *)
InFlight(l) ==
    peer[Reverse(l)].todo
        \cup UNION {wire[l][i].batch : i \in {j \in DOMAIN wire[l] : wire[l][j].code = "messages"}}

(***************************************************************************)
(* No envelope is lost on a living connection: what a node has marked as   *)
(* known to a peer (broadcast, or a message from it) is on its way to the  *)
(* peer, in its pool, expired there, or was turned down by its add.        *)
(***************************************************************************)
KnownIsShared ==
    \A l \in Link :
        Open(l) /\ peer[Reverse(l)].loop # "quit" =>
            \A e \in peer[l].known :
                \/ e \in InFlight(l)
                \/ e \in Pooled(l[2]) \cup declined[l[2]]
                \/ Expired(e, Clock(l[2]))

(***************************************************************************)
(* broadcast spends a connection's bandwidth once per envelope: one that   *)
(* was written already is chosen again only if it has expired meanwhile    *)
(* (an add that made its checks before the expiry can put it back in the   *)
(* pool after expire has removed it and its mark).                         *)
(***************************************************************************)
SentOnceWhileAlive ==
    \A l \in Link :
        peer[l].update = "write" =>
            \A e \in peer[l].bundle \cap written[l] : Expired(e, Clock(l[1]))

(***************************************************************************)
(* EventBatchAcknowledged tells the truth: the batch was sent to this      *)
(* peer, every envelope of it has been through the peer's add, and the     *)
(* reported errors are about envelopes that were turned down.              *)
(***************************************************************************)
AcknowledgedIsProcessed ==
    \A l \in Link : \A c \in acked[l] :
        /\ c.batch \subseteq written[l]
        /\ c.batch \subseteq pooledEver[l[2]] \cup declined[l[2]]
        /\ c.errors \subseteq declined[l[2]]
        /\ c.code = "response" =>
               \A e \in c.batch \ c.errors :
                   e \in pooledEver[l[2]] \/ Expired(e, Clock(l[2]))

(***************************************************************************)
(* An envelope the peer asks for reaches it, while the connection holds    *)
(* and the envelope is alive: broadcast, the message loop and add see to   *)
(* it.  It is not sent again if add turned it down.                        *)
(***************************************************************************)
Propagates ==
    \A l \in Link : \A e \in Envelope :
        (Open(l) /\ e \in Wanted(l)) ~>
            \/ e \in pooledEver[l[2]] \cup declined[l[2]]
            \/ ~ Open(l) \/ peer[Reverse(l)].loop = "quit"
            \/ Expired(e, Clock(l[1]))

-----------------------------------------------------------------------------
(* What the comments of the code say and the code does not do. *)

(***************************************************************************)
(* A bundle with an envelope add refused on account of its size, PoW or    *)
(* bloom filter costs its sender the connection.                           *)
(***************************************************************************)
BadEnvelopeDisconnects ==
    \A l \in Link :
        peer[l].loop = "add" /\ peer[l].todo = {}
            /\ (\E e \in peer[l].errors : AddError(e, l[1]) = "other")
        => peer[l].trouble
=============================================================================
