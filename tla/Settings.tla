------------------------------ MODULE Settings ------------------------------
(***************************************************************************)
(* How a node changes what it requires of envelopes while peers come and   *)
(* go: SetMinimumPoW stores the value, notifies the peers one by one, and  *)
(* leaves a goroutine behind that adopts it as the tolerated value after   *)
(* syncAllowance seconds; SetBloomFilter does the same with the filter.    *)
(* A connecting peer learns the value from the status packet of the        *)
(* handshake, a connected one from the notification; what it sends meets   *)
(* the last value it has heard of.                                         *)
(*                                                                         *)
(* One node and its peers; "wire" carries what the node sends, "inbound"   *)
(* an envelope on its way to it, reduced to its PoW or its topic.  The two *)
(* requirements are stored, sent and checked apart from each other, so     *)
(* that a behaviour is about one of them.                                  *)
(*                                                                         *)
(* Time is kept as what is left: the seconds a packet may still travel     *)
(* (Delay bounds that) and the seconds a sleeping goroutine still sleeps.  *)
(***************************************************************************)
EXTENDS Integers, FiniteSets, Sequences

CONSTANTS
    Input,           \* PoW values SetMinimumPoW may be called with
    Level,           \* the valid ones among them
    Topic,           \* topics; a bloom filter is the set of those it matches
    Filter,          \* filters SetBloomFilter may be called with
    WrongSize,       \* one that is not of BloomFilterSize
    Kind,            \* which requirement changes: "pow", "bloom"
    Unset,           \* nothing is stored under an index of the settings
    Config,          \* values Config.MinimumAcceptedPOW may have
    DefaultPow,      \* DefaultMinimumPoW
    SyncAllowance,   \* syncAllowance, in seconds
    Setter,          \* goroutines that change the requirement
    Peer,
    Delay,           \* bound: seconds a packet is on its way or unread
    WireLimit,       \* bound: packets on their way to a peer
    SleeperLimit     \* bound: goroutines asleep at a time

ASSUME InputAssumption == Input \subseteq Int /\ Level = {v \in Input : v >= 0}
ASSUME LevelAssumption == Config \cup {DefaultPow} \subseteq Level
ASSUME KindAssumption == Kind \subseteq {"pow", "bloom"}
ASSUME FilterAssumption == \A f \in Filter : f = WrongSize \/ f \in SUBSET Topic
ASSUME UnsetAssumption == Unset \notin Level /\ \A f \in SUBSET Topic : f \notin {Unset, WrongSize}
ASSUME TimeAssumption == SyncAllowance \in Nat /\ Delay \in Nat
ASSUME PeerAssumption == IsFiniteSet(Peer)
ASSUME WireAssumption == WireLimit \in Nat

VARIABLES
    kind,            \* the requirement this behaviour is about
    initial,         \* what New leaves for it
    required,        \* settings[minPowIdx], settings[bloomFilterIdx]
    tolerance,       \* settings[minPowToleranceIdx], [bloomFilterToleranceIdx]
    sleeping,        \* goroutines left behind: value, seconds left
    setter,          \* setter[s]: where a call that changes it is
    peers,           \* whisper.peers
    handshake,       \* handshake[p]: the goroutine that sends the status
    remote,          \* remote[p]: the other end of the connection
    view,            \* view[p]: powRequirement, bloomFilter at the other end
    wire,            \* wire[p]: packets from the node to p
    inbound,         \* inbound[p]: envelopes from p to the node
    crashed,         \* a goroutine has panicked
    hurried          \* history: a change came before the last one had settled

settingVars == <<kind, initial, required, tolerance, sleeping, hurried>>
remoteVars == <<remote, view, inbound>>
vars == <<settingVars, setter, peers, handshake, remoteVars, wire, crashed>>

(***************************************************************************)
(* New stores the configured PoW, and neither a tolerated PoW nor a bloom  *)
(* filter; no filter, nil, is that of a full node and matches everything.  *)
(***************************************************************************)
Initial == IF kind = "pow" THEN Config ELSE {Topic}

Idle == [pc |-> "idle", val |-> initial, count |-> 0, todo |-> {}]

Init ==
    /\ kind \in Kind
    /\ initial \in Initial
    /\ required = initial
    /\ tolerance = Unset
    /\ sleeping = {}
    /\ setter = [s \in Setter |-> Idle]
    /\ peers = {}
    /\ handshake = [p \in Peer |-> [pc |-> "out", val |-> initial]]
    /\ remote = [p \in Peer |-> "out"]
    /\ view = [p \in Peer |-> initial]
    /\ wire = [p \in Peer |-> << >>]
    /\ inbound = [p \in Peer |-> {}]
    /\ crashed = FALSE
    /\ hurried = FALSE

(* MinPowTolerance() and BloomFilterTolerance() *)
MinPowTolerance == IF tolerance = Unset THEN DefaultPow ELSE tolerance
BloomFilterTolerance == IF tolerance = Unset THEN Topic ELSE tolerance
Tolerated == IF kind = "pow" THEN MinPowTolerance ELSE BloomFilterTolerance

(* An envelope, by its PoW or its topic, meets a requirement. *)
Meets(x, requirement) == IF kind = "pow" THEN x >= requirement ELSE x \in requirement

Older(S) == {[x EXCEPT !.left = @ - 1] : x \in S}

(* Packets do not overstay their delay, nor goroutines their sleep. *)
Tick ==
    /\ \A p \in Peer : /\ \A x \in inbound[p] : x.left > 0
                       /\ \A i \in DOMAIN wire[p] : wire[p][i].left > 0
    /\ \A g \in sleeping : g.left > 0
    /\ sleeping' = Older(sleeping)
    /\ inbound' = [p \in Peer |-> Older(inbound[p])]
    /\ wire' = [p \in Peer |-> [i \in DOMAIN wire[p] |-> [wire[p][i] EXCEPT !.left = @ - 1]]]
    /\ UNCHANGED <<kind, initial, required, tolerance, hurried, setter, peers, handshake, remote,
                   view, crashed>>

Write(p, code, val) ==
    /\ Len(wire[p]) < WireLimit
    /\ wire' = [wire EXCEPT ![p] = Append(@, [code |-> code, val |-> val, left |-> Delay])]

-----------------------------------------------------------------------------
(* The goroutines of all earlier changes are done. *)
Settled == sleeping = {} /\ \A s \in Setter : setter[s].pc = "idle"

(* The requirement is stored, and the notifications begin. *)
Store(s, v) ==
    /\ setter[s].pc = "idle"
    /\ Cardinality(sleeping) < SleeperLimit
    /\ required' = v
    /\ hurried' = (hurried \/ ~ Settled)
    /\ setter' = [setter EXCEPT ![s] = [Idle EXCEPT !.pc = "count", !.val = v]]
    /\ UNCHANGED <<kind, initial, tolerance, sleeping, peers, handshake, remoteVars, wire, crashed>>

(* Faulty form: a negative value is stored. *)
SetAnyMinimumPoW(s, v) == kind = "pow" /\ Store(s, v)

(* SetMinimumPoW is called with a valid value; NaN and +Inf are not in Input. *)
SetMinimumPoW(s, v) == kind = "pow" /\ v >= 0 /\ Store(s, v)

(* SetBloomFilter is called with a filter of the right size. *)
SetBloomFilter(s, v) == kind = "bloom" /\ v # WrongSize /\ Store(s, v)

(* getPeers allocates the array by a length it reads without peerMu ... *)
CountPeers(s) ==
    /\ setter[s].pc = "count"
    /\ setter' = [setter EXCEPT ![s].pc = "list", ![s].count = Cardinality(peers)]
    /\ UNCHANGED <<settingVars, peers, handshake, remoteVars, wire, crashed>>

(* Faulty form: only peers that are past the handshake are listed. *)
ListReadyPeers(s) ==
    /\ setter[s].pc = "list"
    /\ setter' = [setter EXCEPT ![s].pc = "notify",
                                ![s].todo = {p \in peers : handshake[p].pc = "done"}]
    /\ UNCHANGED <<settingVars, peers, handshake, remoteVars, wire, crashed>>

(***************************************************************************)
(* ... and fills it under peerMu.  A peer too many is an index out of      *)
(* range; a peer too few leaves a nil Peer to be notified.                 *)
(***************************************************************************)
ListPeers(s) ==
    /\ setter[s].pc = "list"
    /\ crashed' = (Cardinality(peers) # setter[s].count)
    /\ setter' = [setter EXCEPT ![s].pc = "notify", ![s].todo = peers]
    /\ UNCHANGED <<settingVars, peers, handshake, remoteVars, wire>>

(* A notification is written. *)
Notify(s, p, code) ==
    /\ setter[s].pc = "notify"
    /\ p \in setter[s].todo
    /\ Write(p, code, setter[s].val)
    /\ setter' = [setter EXCEPT ![s].todo = @ \ {p}]
    /\ UNCHANGED <<settingVars, peers, handshake, remoteVars, crashed>>

NotifyAboutPowRequirementChange(s, p) == kind = "pow" /\ Notify(s, p, "powRequirement")
NotifyAboutBloomFilterChange(s, p) == kind = "bloom" /\ Notify(s, p, "bloomFilterEx")

(* Faulty form: the value is tolerated at once, as in SetMinimumPowTest. *)
FinishSetAtOnce(s) ==
    /\ setter[s].pc = "notify"
    /\ setter[s].todo = {}
    /\ tolerance' = setter[s].val
    /\ setter' = [setter EXCEPT ![s] = Idle]
    /\ UNCHANGED <<kind, initial, required, sleeping, hurried, peers, handshake, remoteVars, wire, crashed>>

(* The goroutine with the sleep is started, and the call returns. *)
FinishSet(s) ==
    /\ setter[s].pc = "notify"
    /\ setter[s].todo = {}
    /\ sleeping' = sleeping \cup {[val |-> setter[s].val, left |-> SyncAllowance]}
    /\ setter' = [setter EXCEPT ![s] = Idle]
    /\ UNCHANGED <<kind, initial, required, tolerance, hurried, peers, handshake, remoteVars, wire, crashed>>

(* A goroutine wakes up and stores its value as the tolerated one. *)
Adopt(g) ==
    /\ g \in sleeping
    /\ g.left = 0
    /\ tolerance' = g.val
    /\ sleeping' = sleeping \ {g}
    /\ UNCHANGED <<kind, initial, required, hurried, setter, peers, handshake, remoteVars, wire, crashed>>

-----------------------------------------------------------------------------
(* HandlePeer: the peer is tracked before the handshake. *)
Track(p) ==
    /\ p \notin peers
    /\ peers' = peers \cup {p}
    /\ handshake' = [handshake EXCEPT ![p].pc = "load"]
    /\ remote' = [remote EXCEPT ![p] = "await"]
    /\ UNCHANGED <<settingVars, setter, view, inbound, wire, crashed>>

(* The goroutine of handshake loads MinPow() and BloomFilter() ... *)
LoadRequirements(p) ==
    /\ handshake[p].pc = "load"
    /\ handshake' = [handshake EXCEPT ![p] = [pc |-> "send", val |-> required]]
    /\ UNCHANGED <<settingVars, setter, peers, remoteVars, wire, crashed>>

(* ... and sends it in the status packet. *)
SendStatus(p) ==
    /\ handshake[p].pc = "send"
    /\ Write(p, "status", handshake[p].val)
    /\ handshake' = [handshake EXCEPT ![p] = [pc |-> "done", val |-> initial]]
    /\ UNCHANGED <<settingVars, setter, peers, remoteVars, crashed>>

(***************************************************************************)
(* The connection ends for whatever reason; HandlePeer forgets the peer.   *)
(* A notification it is still owed fails, twice, and is logged.            *)
(***************************************************************************)
Leave(p) ==
    /\ p \in peers
    /\ peers' = peers \ {p}
    /\ handshake' = [handshake EXCEPT ![p] = [pc |-> "out", val |-> initial]]
    /\ remote' = [remote EXCEPT ![p] = "out"]
    /\ view' = [view EXCEPT ![p] = initial]
    /\ wire' = [wire EXCEPT ![p] = << >>]
    /\ inbound' = [inbound EXCEPT ![p] = {}]
    /\ setter' = [s \in Setter |-> [setter[s] EXCEPT !.todo = @ \ {p}]]
    /\ UNCHANGED <<settingVars, crashed>>

-----------------------------------------------------------------------------
(* The other end: handshake wants the status packet first. *)
ReadStatus(p) ==
    /\ remote[p] = "await"
    /\ wire[p] # << >>
    /\ Head(wire[p]).code = "status"
    /\ remote' = [remote EXCEPT ![p] = "up"]
    /\ view' = [view EXCEPT ![p] = Head(wire[p]).val]
    /\ wire' = [wire EXCEPT ![p] = Tail(@)]
    /\ UNCHANGED <<settingVars, setter, peers, handshake, inbound, crashed>>

(***************************************************************************)
(* It closes the connection if another packet comes first, or on account   *)
(* of what the status says: another version, an invalid PoW, a filter of   *)
(* the wrong size, two light clients where that is restricted.             *)
(***************************************************************************)
RefuseStatus(p) ==
    /\ remote[p] = "await"
    /\ wire[p] # << >>
    /\ remote' = [remote EXCEPT ![p] = "closed"]
    /\ wire' = [wire EXCEPT ![p] = << >>]
    /\ UNCHANGED <<settingVars, setter, peers, handshake, view, inbound, crashed>>

(* The message loop of the other end takes a notification to heart. *)
Learn(p, code) ==
    /\ remote[p] = "up"
    /\ wire[p] # << >>
    /\ Head(wire[p]).code = code
    /\ view' = [view EXCEPT ![p] = Head(wire[p]).val]
    /\ wire' = [wire EXCEPT ![p] = Tail(@)]
    /\ UNCHANGED <<settingVars, setter, peers, handshake, remote, inbound, crashed>>

ReadPowRequirement(p) == Learn(p, "powRequirement")
ReadBloomFilter(p) == Learn(p, "bloomFilterEx")

(***************************************************************************)
(* broadcast of the other end: an envelope that meets its view.  Envelopes *)
(* leave the settings alone and do not meet, so one is followed at a time. *)
(***************************************************************************)
Broadcast(p, w) ==
    /\ remote[p] = "up"
    /\ Meets(w, view[p])
    /\ \A q \in Peer : inbound[q] = {}
    /\ inbound' = [inbound EXCEPT ![p] = {[met |-> w, left |-> Delay]}]
    /\ UNCHANGED <<settingVars, setter, peers, handshake, remote, view, wire, crashed>>

(* The message loop of the node reads an envelope. *)
Receive(p, x) ==
    /\ x \in inbound[p]
    /\ inbound' = [inbound EXCEPT ![p] = @ \ {x}]
    /\ UNCHANGED <<settingVars, setter, peers, handshake, remote, view, wire, crashed>>

SetterStep(s) ==
    \/ \E v \in Input : SetMinimumPoW(s, v)
    \/ \E v \in Filter : SetBloomFilter(s, v)
    \/ CountPeers(s) \/ ListPeers(s) \/ FinishSet(s)
    \/ \E p \in Peer :
           NotifyAboutPowRequirementChange(s, p) \/ NotifyAboutBloomFilterChange(s, p)
PeerStep(p) ==
    \/ Track(p) \/ LoadRequirements(p) \/ SendStatus(p) \/ Leave(p)
    \/ ReadStatus(p) \/ RefuseStatus(p) \/ ReadPowRequirement(p) \/ ReadBloomFilter(p)
    \/ \E w \in (IF kind = "pow" THEN Level ELSE Topic) : Broadcast(p, w)
    \/ \E x \in inbound[p] : Receive(p, x)

Next ==
    /\ ~ crashed
    /\ \/ Tick
       \/ \E s \in Setter : SetterStep(s)
       \/ \E g \in sleeping : Adopt(g)
       \/ \E p \in Peer : PeerStep(p)

Spec == Init /\ [][Next]_vars

-----------------------------------------------------------------------------
Requirement == IF kind = "pow" THEN Level ELSE SUBSET Topic

PacketType ==
    [code : {"status", "powRequirement", "bloomFilterEx"}, val : Requirement, left : 0 .. Delay]

(* The variables keep their types, and requirements stay valid. *)
TypeOK ==
    /\ kind \in Kind
    /\ {initial, required} \subseteq Requirement
    /\ tolerance = Unset \/ tolerance \in Requirement
    /\ sleeping \subseteq [val : Requirement, left : 0 .. SyncAllowance]
    /\ setter \in [Setter -> [pc : {"idle", "count", "list", "notify"}, val : Requirement,
                              count : 0 .. Cardinality(Peer), todo : SUBSET Peer]]
    /\ peers \subseteq Peer
    /\ handshake \in [Peer -> [pc : {"out", "load", "send", "done"}, val : Requirement]]
    /\ remote \in [Peer -> {"out", "await", "up", "closed"}]
    /\ view \in [Peer -> Requirement]
    /\ \A p \in Peer : Len(wire[p]) <= WireLimit /\ wire[p] \in Seq(PacketType)
    /\ \A p \in Peer : \A x \in inbound[p] : x.left \in 0 .. Delay
    /\ crashed \in BOOLEAN /\ hurried \in BOOLEAN

(***************************************************************************)
(* When no change of the requirement is under way and nothing is left to   *)
(* read, a connected peer knows the one in force, whether it connected     *)
(* before, during or after the change: tracking the peer before loading    *)
(* the value, and storing it before listing the peers, leave no gap.       *)
(***************************************************************************)
QuietViewCurrent ==
    \A p \in Peer :
        /\ \A s \in Setter : setter[s].pc = "idle"
        /\ wire[p] = << >>
        /\ remote[p] = "up"
        => view[p] = required

(***************************************************************************)
(* What MinPowTolerance says it is for, a value that is tolerated for a    *)
(* limited time after the PoW was changed, and that of MinPow() if none    *)
(* has ever been: an envelope that met the requirement its sender knew of  *)
(* when it was sent passes the check of PoW or bloom filter in add         *)
(* whenever it arrives, if each change comes after the last one has        *)
(* settled.                                                                *)
(***************************************************************************)
GoodFaithAccepted ==
    \/ hurried
    \/ \A p \in Peer : \A x \in inbound[p] : Meets(x.met, required) \/ Meets(x.met, Tolerated)

(* What is tolerated is DefaultMinimumPoW, more than was ever required. *)
DefaultIsTooMuch == kind = "pow" /\ tolerance = Unset /\ initial < DefaultPow

(***************************************************************************)
(* The purpose of the tolerated value is met as soon as one change has     *)
(* settled, and from the start by a node whose configured PoW is not below *)
(* DefaultMinimumPoW, for which MinPowTolerance takes it to be.            *)
(***************************************************************************)
PolitePeerAccepted == DefaultIsTooMuch \/ GoodFaithAccepted
=============================================================================
