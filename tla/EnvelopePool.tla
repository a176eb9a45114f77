--------------------------- MODULE EnvelopePool ---------------------------
(***************************************************************************)
(* The envelope pool of one node: Whisper.add run by several goroutines    *)
(* (one message loop per peer, and the callers of Send), the expiration    *)
(* cycle, the two bounded queues towards the filters and the goroutines    *)
(* that empty them.                                                        *)
(*                                                                         *)
(* add is cut where the code releases a lock or touches shared state: the  *)
(* clock is read and the checks are made before poolMu is taken, the       *)
(* memory statistics are updated under statsMu after it is released, and   *)
(* the queue is measured, flagged and written without any lock.  expire    *)
(* holds both locks from start to end and is one action.  A refused or     *)
(* dropped envelope changes nothing here; what the caller does with the    *)
(* error is in Gossip.                                                     *)
(*                                                                         *)
(* The settings of the node do not change in this module (Settings does    *)
(* that).  Subscribers of the event feed are taken to be amply buffered,   *)
(* as event.Feed asks, so sending an event never blocks.                   *)
(***************************************************************************)
EXTENDS Admission, FiniteSets, Sequences, Functions

CONSTANTS
    Bit,             \* positions of a bloom filter
    Envelope,        \* the envelopes that may be offered to the node
    Adder,           \* goroutines that call add
    Worker,          \* the processQueue goroutines, one per CPU
    P2PWorker,       \* the processP2P goroutine
    NoEnvelope,      \* a goroutine holds nothing
    NodeSettings,    \* the settings record of Admission
    LightClient,     \* is the node in light client mode?
    MailServer,      \* is a mail server registered?
    QueueLimit,      \* messageQueueLimit: 1024 in the code
    MaxTime          \* bound: the clock runs from 1 to here

ASSUME EnvelopeAssumption ==
    /\ Envelope \subseteq EnvelopeOver(Bit)
    /\ NoEnvelope \notin Envelope
    /\ IsFiniteSet(Envelope)
ASSUME GoroutineAssumption ==
    P2PWorker \notin Worker /\ IsFiniteSet(Adder) /\ IsFiniteSet(Worker)
ASSUME ModeAssumption == LightClient \in BOOLEAN /\ MailServer \in BOOLEAN
ASSUME LimitAssumption == QueueLimit \in Nat \ {0}
ASSUME TimeAssumption == MaxTime \in Uint32 \ {0}
ASSUME SettingsAssumption ==
    NodeSettings \in [maxMessageSize : Nat, minPow : Nat, minPowTolerance : Nat,
                      bloom : SUBSET Bit, bloomTolerance : SUBSET Bit]

VARIABLES
    now,             \* timeSource(), in seconds
    envelopes,       \* whisper.envelopes
    expirations,     \* whisper.expirations: expiry -> set of hashes
    stats,           \* whisper.stats, without the count of cycles
    pc,              \* where each adder is in add
    env,             \* the envelope each adder carries
    isP2P,           \* the second argument of add
    queueSize,       \* what each adder read in checkOverflow
    messageQueue,    \* for processQueue
    p2pMsgQueue,     \* for processP2P
    overflow,        \* settings[overflowIdx]
    held,            \* the envelope each consumer took and still delivers
    running,         \* goroutines of Start that have not returned
    quit,            \* is the quit channel closed?
    inserted,        \* history: how often an envelope entered the pool
    delivered,       \* history: how often NotifyWatchers was run on it
    archived         \* history: how often the mail server got it

poolVars  == <<envelopes, expirations, stats>>
adderVars == <<pc, env, isP2P, queueSize>>
queueVars == <<messageQueue, p2pMsgQueue, overflow>>
lifeVars  == <<running, quit>>
history   == <<inserted, delivered, archived>>
vars == <<now, poolVars, adderVars, queueVars, held, lifeVars, history>>

Consumer == Worker \cup {P2PWorker}
Updater == "update"
PC == {"idle", "insert", "account", "measure", "flag", "post", "archive"}

TotalSize(S) == SumFunctionOnSet([e \in Envelope |-> e.size], S)

-----------------------------------------------------------------------------
Init ==
    /\ now = 1
    /\ envelopes = {}
    /\ expirations = [x \in {} |-> {}]
    /\ stats = [messagesCleared |-> 0, memoryCleared |-> 0, memoryUsed |-> 0,
                totalMessagesCleared |-> 0]
    /\ pc = [t \in Adder |-> "idle"]
    /\ env = [t \in Adder |-> NoEnvelope]
    /\ isP2P = [t \in Adder |-> FALSE]
    /\ queueSize = [t \in Adder |-> 0]
    /\ messageQueue = << >>
    /\ p2pMsgQueue = << >>
    /\ overflow = FALSE
    /\ held = [w \in Consumer |-> NoEnvelope]
    /\ running = Consumer \cup {Updater}
    /\ quit = FALSE
    /\ inserted = [e \in Envelope |-> 0]
    /\ delivered = [e \in Envelope |-> 0]
    /\ archived = [e \in Envelope |-> 0]

Tick ==
    /\ now < MaxTime
    /\ now' = now + 1
    /\ UNCHANGED <<poolVars, adderVars, queueVars, held, lifeVars, history>>

Goto(t, label) == pc' = [pc EXCEPT ![t] = label]

(* add returns. *)
Return(t) ==
    /\ Goto(t, "idle")
    /\ env' = [env EXCEPT ![t] = NoEnvelope]
    /\ isP2P' = [isP2P EXCEPT ![t] = FALSE]
    /\ queueSize' = [queueSize EXCEPT ![t] = 0]

(***************************************************************************)
(* add is called, reads the clock and lets the envelope through.  A        *)
(* message loop passes LightClientMode() as isP2P, Send passes false.      *)
(***************************************************************************)
Add(t, e, p2p) ==
    /\ pc[t] = "idle"
    /\ p2p => LightClient
    /\ Admitted(e, now, NodeSettings)
    /\ Goto(t, "insert")
    /\ env' = [env EXCEPT ![t] = e]
    /\ isP2P' = [isP2P EXCEPT ![t] = p2p]
    /\ UNCHANGED <<now, poolVars, queueSize, queueVars, held, lifeVars, history>>

(* Faulty form: a bucket that exists already is left as it is. *)
FileUnderNewExpiryOnly(e) ==
    IF e.expiry \in DOMAIN expirations THEN expirations
    ELSE [x \in DOMAIN expirations \cup {e.expiry} |->
             IF x = e.expiry THEN {e} ELSE expirations[x]]

(* Faulty form: the life of e is counted from its arrival. *)
FileUnderArrival(e) ==
    [x \in DOMAIN expirations \cup {now + e.ttl} |->
        (IF x \in DOMAIN expirations THEN expirations[x] ELSE {})
            \cup (IF x = now + e.ttl THEN {e} ELSE {})]

(* The pool after e has been filed under its expiry. *)
FileUnderExpiry(e) ==
    [x \in DOMAIN expirations \cup {e.expiry} |->
        (IF x \in DOMAIN expirations THEN expirations[x] ELSE {})
            \cup (IF x = e.expiry THEN {e} ELSE {})]

(* Faulty form: the pool is not asked whether it has the envelope. *)
InsertAnyway(t) ==
    /\ pc[t] = "insert"
    /\ envelopes' = envelopes \cup {env[t]}
    /\ expirations' = FileUnderExpiry(env[t])
    /\ inserted' = [inserted EXCEPT ![env[t]] = @ + 1]
    /\ Goto(t, "account")
    /\ UNCHANGED <<now, stats, env, isP2P, queueSize, queueVars, held, lifeVars,
                   delivered, archived>>

(* The critical section of add, under poolMu. *)
Insert(t) ==
    /\ pc[t] = "insert"
    /\ IF env[t] \in envelopes
       THEN /\ Return(t)
            /\ UNCHANGED <<envelopes, expirations, inserted>>
       ELSE /\ envelopes' = envelopes \cup {env[t]}
            /\ expirations' = FileUnderExpiry(env[t])
            /\ inserted' = [inserted EXCEPT ![env[t]] = @ + 1]
            /\ Goto(t, "account")
            /\ UNCHANGED <<env, isP2P, queueSize>>
    /\ UNCHANGED <<now, stats, queueVars, held, lifeVars, delivered, archived>>

(* memoryUsed is raised under statsMu, after poolMu was released. *)
Account(t) ==
    /\ pc[t] = "account"
    /\ stats' = [stats EXCEPT !.memoryUsed = @ + env[t].size]
    /\ Goto(t, IF isP2P[t] THEN "post" ELSE "measure")
    /\ UNCHANGED <<now, envelopes, expirations, env, isP2P, queueSize, queueVars,
                   held, lifeVars, history>>

(* checkOverflow reads the length of the queue ... *)
Measure(t) ==
    /\ pc[t] = "measure"
    /\ queueSize' = [queueSize EXCEPT ![t] = Len(messageQueue)]
    /\ Goto(t, "flag")
    /\ UNCHANGED <<now, poolVars, env, isP2P, queueVars, held, lifeVars, history>>

(* ... and later sets or clears the flag by what it read. *)
Flag(t) ==
    /\ pc[t] = "flag"
    /\ overflow' = IF queueSize[t] = QueueLimit THEN TRUE
                   ELSE IF queueSize[t] <= QueueLimit \div 2 THEN FALSE
                   ELSE overflow
    /\ Goto(t, "post")
    /\ UNCHANGED <<now, poolVars, env, isP2P, queueSize, messageQueue, p2pMsgQueue,
                   held, lifeVars, history>>

(* What add does once its message is in the queue. *)
AfterPost(t) ==
    IF MailServer
    THEN Goto(t, "archive") /\ UNCHANGED <<env, isP2P, queueSize>>
    ELSE Return(t)

(* Faulty form: the queue is taken to have room. *)
PostUnbounded(t) ==
    /\ pc[t] = "post"
    /\ messageQueue' = Append(messageQueue, env[t])
    /\ AfterPost(t)
    /\ UNCHANGED <<now, poolVars, p2pMsgQueue, overflow, held, lifeVars, history>>

(* Faulty form: a message that finds its queue full is dropped. *)
PostOrDrop(t) ==
    /\ pc[t] = "post"
    /\ messageQueue' = IF Len(messageQueue) < QueueLimit
                       THEN Append(messageQueue, env[t]) ELSE messageQueue
    /\ AfterPost(t)
    /\ UNCHANGED <<now, poolVars, p2pMsgQueue, overflow, held, lifeVars, history>>

(* The send blocks while the queue is full, whether or not quit is closed. *)
Post(t) ==
    /\ pc[t] = "post"
    /\ IF isP2P[t]
       THEN /\ Len(p2pMsgQueue) < QueueLimit
            /\ p2pMsgQueue' = Append(p2pMsgQueue, env[t])
            /\ UNCHANGED messageQueue
       ELSE /\ Len(messageQueue) < QueueLimit
            /\ messageQueue' = Append(messageQueue, env[t])
            /\ UNCHANGED p2pMsgQueue
    /\ AfterPost(t)
    /\ UNCHANGED <<now, poolVars, overflow, held, lifeVars, history>>

(* Faulty form: only what is still pooled is archived. *)
ArchiveIfPooled(t) ==
    /\ pc[t] = "archive"
    /\ archived' = [archived EXCEPT ![env[t]] = IF env[t] \in envelopes THEN @ + 1 ELSE @]
    /\ Return(t)
    /\ UNCHANGED <<now, poolVars, queueVars, held, lifeVars, inserted, delivered>>

(* mailServer.Archive, and the event that says so. *)
Archive(t) ==
    /\ pc[t] = "archive"
    /\ archived' = [archived EXCEPT ![env[t]] = @ + 1]
    /\ Return(t)
    /\ UNCHANGED <<now, poolVars, queueVars, held, lifeVars, inserted, delivered>>

-----------------------------------------------------------------------------
(* Faulty form: an envelope is taken to be stale in its last second. *)
StaleExpiriesEarly == {x \in DOMAIN expirations : x <= now}

(* The expiry stamps a cycle finds in the past, and what is filed there. *)
StaleExpiries == {x \in DOMAIN expirations : x < now}
Stale == UNION {expirations[x] : x \in StaleExpiries}

(* Faulty form: the memory of what is cleared is not given back. *)
ClearedKeepsMemory(S) ==
    [stats EXCEPT !.messagesCleared = Cardinality(S),
                  !.totalMessagesCleared = @ + stats.messagesCleared]

(* Faulty form: reset forgets what the last cycle cleared. *)
ClearedWithoutTotals(S) ==
    [stats EXCEPT !.messagesCleared = Cardinality(S), !.memoryUsed = @ - TotalSize(S)]

(* The statistics after a cycle that clears S: reset, then one update each. *)
Cleared(S) ==
    [messagesCleared |-> Cardinality(S),
     memoryCleared |-> TotalSize(S),
     memoryUsed |-> stats.memoryUsed - TotalSize(S),
     totalMessagesCleared |-> stats.totalMessagesCleared + stats.messagesCleared]

(* expire: under poolMu and statsMu, with the clock read inside. *)
Expire ==
    /\ Updater \in running
    /\ envelopes' = envelopes \ Stale
    /\ expirations' = Restrict(expirations, DOMAIN expirations \ StaleExpiries)
    /\ stats' = Cleared(Stale)
    /\ UNCHANGED <<now, adderVars, queueVars, held, lifeVars, history>>

(* Faulty form: nobody reads the peer-to-peer queue. *)
TakeMessagesOnly(w) ==
    /\ w \in running \ {P2PWorker}
    /\ held[w] = NoEnvelope
    /\ messageQueue # << >>
    /\ held' = [held EXCEPT ![w] = Head(messageQueue)]
    /\ messageQueue' = Tail(messageQueue)
    /\ UNCHANGED <<now, poolVars, adderVars, p2pMsgQueue, overflow, lifeVars, history>>

(* processQueue and processP2P: take the oldest message of the queue ... *)
Take(w) ==
    /\ w \in running
    /\ held[w] = NoEnvelope
    /\ IF w = P2PWorker
       THEN /\ p2pMsgQueue # << >>
            /\ held' = [held EXCEPT ![w] = Head(p2pMsgQueue)]
            /\ p2pMsgQueue' = Tail(p2pMsgQueue)
            /\ UNCHANGED messageQueue
       ELSE /\ messageQueue # << >>
            /\ held' = [held EXCEPT ![w] = Head(messageQueue)]
            /\ messageQueue' = Tail(messageQueue)
            /\ UNCHANGED p2pMsgQueue
    /\ UNCHANGED <<now, poolVars, adderVars, overflow, lifeVars, history>>

(* ... and run NotifyWatchers on it. *)
Deliver(w) ==
    /\ held[w] # NoEnvelope
    /\ delivered' = [delivered EXCEPT ![held[w]] = @ + 1]
    /\ held' = [held EXCEPT ![w] = NoEnvelope]
    /\ UNCHANGED <<now, poolVars, adderVars, queueVars, lifeVars, inserted, archived>>

(* Stop closes quit; every goroutine returns when its select picks quit. *)
Stop ==
    /\ ~ quit
    /\ quit' = TRUE
    /\ UNCHANGED <<now, poolVars, adderVars, queueVars, held, running, history>>

Exit(g) ==
    /\ quit
    /\ g \in running
    /\ g \in Consumer => held[g] = NoEnvelope
    /\ running' = running \ {g}
    /\ UNCHANGED <<now, poolVars, adderVars, queueVars, held, quit, history>>

-----------------------------------------------------------------------------
AddStep(t) ==
    Insert(t) \/ Account(t) \/ Measure(t) \/ Flag(t) \/ Post(t) \/ Archive(t)

Next ==
    \/ Tick
    \/ \E t \in Adder, e \in Envelope, p2p \in BOOLEAN : Add(t, e, p2p)
    \/ \E t \in Adder : AddStep(t)
    \/ Expire
    \/ \E w \in Consumer : Take(w) \/ Deliver(w)
    \/ Stop
    \/ \E g \in Consumer \cup {Updater} : Exit(g)

(***************************************************************************)
(* Time passes, the ticker of update fires for ever, and the scheduler     *)
(* runs every goroutine that can run.  Nobody has to call add or Stop.     *)
(***************************************************************************)
Fairness ==
    /\ WF_vars(Tick)
    /\ WF_vars(Expire)
    /\ \A t \in Adder : WF_vars(AddStep(t))
    /\ \A w \in Consumer : WF_vars(Take(w)) /\ WF_vars(Deliver(w))

Spec == Init /\ [][Next]_vars
FairSpec == Spec /\ Fairness

-----------------------------------------------------------------------------
(* stats is left to MemoryAccounted and ClearedAccounted. *)
TypeOK ==
    /\ now \in 1 .. MaxTime
    /\ envelopes \subseteq Envelope
    /\ DOMAIN expirations \subseteq Uint32
    /\ expirations \in [DOMAIN expirations -> SUBSET Envelope]
    /\ pc \in [Adder -> PC]
    /\ env \in [Adder -> Envelope \cup {NoEnvelope}]
    /\ \A t \in Adder : env[t] = NoEnvelope <=> pc[t] = "idle"
    /\ isP2P \in [Adder -> BOOLEAN]
    /\ queueSize \in [Adder -> 0 .. QueueLimit]
    /\ messageQueue \in Seq(Envelope) /\ Len(messageQueue) <= QueueLimit
    /\ p2pMsgQueue \in Seq(Envelope) /\ Len(p2pMsgQueue) <= QueueLimit
    /\ overflow \in BOOLEAN
    /\ held \in [Consumer -> Envelope \cup {NoEnvelope}]
    /\ running \subseteq Consumer \cup {Updater}
    /\ quit \in BOOLEAN
    /\ inserted \in [Envelope -> Nat]
    /\ delivered \in [Envelope -> Nat]
    /\ archived \in [Envelope -> Nat]

(***************************************************************************)
(* The expiration pool is an exact index of the pool: a hash is filed      *)
(* under its own expiry, everything filed is pooled (expire dereferences   *)
(* whisper.envelopes[hash] without a nil check) and everything pooled is   *)
(* filed (or it would never be removed).                                   *)
(***************************************************************************)
ExpirationsIndexPool ==
    /\ \A x \in DOMAIN expirations : \A e \in expirations[x] :
           e.expiry = x /\ e \in envelopes
    /\ \A e \in envelopes :
           e.expiry \in DOMAIN expirations /\ e \in expirations[e.expiry]

(***************************************************************************)
(* As long as an envelope has not expired, add accepted it once at most,   *)
(* however many peers sent it: the pool is what deduplicates the traffic.  *)
(* Once it has expired it may come in again, through an add that read the  *)
(* clock in time and took poolMu after the expiration cycle.               *)
(***************************************************************************)
AcceptedOnceWhileAlive ==
    \A e \in Envelope : now <= e.expiry => inserted[e] <= 1

(***************************************************************************)
(* Whatever is in the pool has done the work the node asks for (or still   *)
(* tolerates), counted for every second it has left to live: an envelope   *)
(* that claims to come from the future does not get that time for free.    *)
(***************************************************************************)
PaidFor(e, p) == e.work >= p * (e.expiry - now)

PooledHasPaid ==
    \A e \in envelopes :
        now <= e.expiry => \/ PaidFor(e, NodeSettings.minPow)
                          \/ PaidFor(e, NodeSettings.minPowTolerance)

(***************************************************************************)
(* stats.memoryUsed is the size of the pool less the envelopes whose add   *)
(* has released poolMu and not yet taken statsMu.  (The statistic can be   *)
(* negative in that window.)                                               *)
(***************************************************************************)
Uncounted == {t \in Adder : pc[t] = "account"}

MemoryAccounted ==
    stats.memoryUsed =
        TotalSize(envelopes) - SumFunction([t \in Uncounted |-> env[t].size])

(* Every envelope that ever entered the pool is pooled or counted cleared. *)
ClearedAccounted ==
    SumFunction(inserted) =
        Cardinality(envelopes) + stats.messagesCleared + stats.totalMessagesCleared

(***************************************************************************)
(* An envelope taken into the pool is on its way to the filters exactly    *)
(* once: with its adder, in a queue, with a consumer, or delivered.        *)
(***************************************************************************)
Occurrences(e, s) == Cardinality({i \in DOMAIN s : s[i] = e})

OnItsWay(e) ==
    Cardinality({t \in Adder : /\ env[t] = e
                               /\ pc[t] \in {"account", "measure", "flag", "post"}})
    + Occurrences(e, messageQueue) + Occurrences(e, p2pMsgQueue)
    + Cardinality({w \in Consumer : held[w] = e})

DeliveredOncePerInsertion ==
    \A e \in Envelope : inserted[e] = delivered[e] + OnItsWay(e)

(* With a mail server, the archive gets every envelope that is pooled. *)
ArchivedOncePerInsertion ==
    MailServer => \A e \in Envelope :
        inserted[e] = archived[e]
            + Cardinality({t \in Adder : env[t] = e /\ pc[t] # "insert"})

(***************************************************************************)
(* The pool as the rest of the node sees it: the detailed pool, with its   *)
(* checks made before the lock, its index by expiry and its races between  *)
(* add and expire, implements the plain set of PoolService.                *)
(***************************************************************************)
Service == INSTANCE PoolService WITH pool <- envelopes, accepted <- inserted

ImplementsPoolService == Service!Spec

(***************************************************************************)
(* Every pooled envelope is removed by a later expiration cycle, unless    *)
(* the node is stopped first.                                              *)
(***************************************************************************)
PoolDrains ==
    \A e \in Envelope : e \in envelopes ~> (e \notin envelopes \/ quit)

(***************************************************************************)
(* A call of add comes back, even when it found its queue full, as long as *)
(* the node is not stopped.                                                *)
(***************************************************************************)
AddReturns == \A t \in Adder : pc[t] # "idle" ~> (pc[t] = "idle" \/ quit)

(* What was taken into the pool reaches the filters, unless Stop comes. *)
InsertedIsDelivered ==
    \A e \in Envelope :
        inserted[e] > delivered[e] ~> (inserted[e] = delivered[e] \/ quit)
=============================================================================
